---------------------------- MODULE LogBookPost ----------------------------
(***************************************************************************)
(* Writing a post of the log book (frontend/src/LogBook.tsx:                *)
(* LogBookWritePost).  The text and the list of attachments are drafts in   *)
(* the browser's storage; every attachment is uploaded by a chain of calls  *)
(* of its own, which goes on when the page is left.  A file is one chunk or *)
(* empty; looking up an rdb link and reading it are one call.               *)
(***************************************************************************)
EXTENDS PageCalls

CONSTANTS
  MaxDrops, MaxKeys, MaxPosts, MaxWrites,   (* bounds: attachments, keystrokes, posts, *)
                                            (*   times the page is opened           *)
  MaxPostActs                               (* bound: all of these together         *)

VARIABLES
  editing,       (* newPostPage() = EditPage                                *)
  writes,        (* the visit of the page the values below are of           *)
  body,          (* the text: keystrokes it has, whether it has a link      *)
  files,         (* visit -> its attachments                                *)
  fid,           (* visit -> the last id given                              *)
  draft,         (* localStorage: the text and the attachments              *)
  storage,       (* the server's files                                      *)
  contents,      (* which file a handle was given for                       *)
  posts,         (* the handles in the meta of each post                    *)
  mayDelete,     (* whether the user's role has delete_files                *)
  drops, posted, (* files dropped, posts asked for                          *)
  typed,         (* history: keystrokes since the draft began               *)
  overtaken,     (* history: text was typed while an answer was awaited     *)
  hasty,         (* history: files were deleted while a post was asked for  *)
  lateSave       (* history: a visit saved its files after its post         *)

vars_w == <<editing, writes, body, files, fid, draft, storage, contents, posts, mayDelete,
            drops, posted, typed, overtaken, hasty, lateSave>>

NoText == [n |-> 0, link |-> FALSE]
NoDraft == [body |-> NoText, files |-> <<>>]
Handles(its) == {it.handle : it \in Range(its)} \ {0}

PostMayAct == writes + drops + typed + posted < MaxPostActs

PostInit ==
  /\ editing = FALSE /\ writes = 0 /\ body = NoText
  /\ files = [v \in 1 .. MaxWrites |-> <<>>] /\ fid = [v \in 1 .. MaxWrites |-> 0]
  /\ draft = NoDraft
  /\ storage = {} /\ contents = <<>> /\ posts = {} /\ mayDelete \in BOOLEAN
  /\ drops = 0 /\ posted = 0
  /\ typed = 0 /\ overtaken = FALSE /\ hasty = FALSE /\ lateSave = FALSE

(* modifyBodyRdbVariables, run whenever the text changes                    *)
Links(b) == IF b.link THEN <<[what |-> "rdb", v |-> writes, body |-> b]>> ELSE <<>>

(* loadDraft, and then the effects that save what is loaded                 *)
Loads(d) == d

OpenPage ==
  LET v == writes + 1
      d == Loads(draft)
  IN /\ Calm /\ ~ editing /\ writes < MaxWrites /\ PostMayAct
     /\ editing' = TRUE /\ writes' = v
     /\ body' = d.body /\ draft' = d
     /\ files' = [files EXCEPT ![v] = [i \in DOMAIN d.files |-> [d.files[i] EXCEPT !.real = FALSE]]]
     /\ fid' = [fid EXCEPT ![v] = Len(d.files)]
     /\ Ask(<<[what |-> "avatar", v |-> v]>>
              \o (IF d.body.link THEN <<[what |-> "rdb", v |-> v, body |-> d.body]>> ELSE <<>>))
     /\ UNCHANGED <<down, storage, contents, posts, mayDelete, drops, posted, typed, overtaken,
                    hasty, lateSave>>

(* Another page is shown; what the visit has begun goes on.                 *)
LeavePage ==
  /\ editing
  /\ editing' = FALSE
  /\ UNCHANGED <<calls, writes, body, files, fid, draft, storage, contents, posts, mayDelete,
                 drops, posted, typed, overtaken, hasty, lateSave>>

(* triggerDraftSaveAttachments by visit v, which may be left by now         *)
SavesFiles(v, its) ==
  /\ draft' = [draft EXCEPT !.files = its]
  /\ lateSave' = (lateSave \/ (its # <<>> /\ ~ (editing /\ v = writes)))

AvatarArrives ==
  /\ Getting("avatar") /\ Got
  /\ SavesFiles(Head(down).v, files[Head(down).v])
  /\ UNCHANGED <<up, editing, writes, body, files, fid, storage, contents, posts, mayDelete,
                 drops, posted, typed, overtaken, hasty>>

TypeText ==
  /\ Calm /\ editing /\ typed < MaxKeys /\ PostMayAct
  /\ \E link \in {body.link, TRUE} :
       LET b == [n |-> body.n + 1, link |-> link]
       IN /\ body' = b /\ draft' = [draft EXCEPT !.body = b]
          /\ Ask(Links(b))
  /\ typed' = typed + 1
  /\ UNCHANGED <<down, editing, writes, files, fid, storage, contents, posts, mayDelete, drops,
                 posted, overtaken, hasty, lateSave>>

(* The value replaces the link in the text that was looked at.              *)
RdbArrives ==
  LET m == Head(down)
      b == IF m.found THEN [m.body EXCEPT !.link = FALSE] ELSE m.body
  IN /\ Getting("rdb") /\ Got
     /\ IF editing /\ m.v = writes
        THEN /\ body' = b /\ draft' = [draft EXCEPT !.body = b]
             /\ Ask(IF b = body THEN <<>> ELSE Links(b))
             /\ overtaken' = (overtaken \/ b.n # typed)
        ELSE UNCHANGED <<up, body, draft, overtaken>>
     /\ UNCHANGED <<editing, writes, files, fid, storage, contents, posts, mayDelete, drops,
                    posted, typed, hasty, lateSave>>

------------------------------------------------------------------------------
(* onDrop, which starts uploadFile.  Of two attachments with the same id,   *)
(* which a draft can lead to, the first is taken for both.                  *)
Where(its, id) ==
  LET hits == {i \in DOMAIN its : its[i].id = id}
  IN IF hits = {} THEN 0 ELSE CHOOSE i \in hits : \A j \in hits : i <= j

DropFile(size) ==
  LET v == writes
      id == fid[v] + 1
      its == Append(files[v], [id |-> id, file |-> drops + 1, progress |-> 0, handle |-> 0,
                               path |-> FALSE, real |-> TRUE])
  IN /\ Calm /\ editing /\ drops < MaxDrops /\ PostMayAct
     /\ drops' = drops + 1
     /\ fid' = [fid EXCEPT ![v] = id]
     /\ files' = [files EXCEPT ![v] = its]
     /\ Ask(<<[what |-> "upload", step |-> "start", v |-> v, id |-> id, size |-> size, h |-> 0,
               it |-> its[Where(its, id)]]>>)
     /\ UNCHANGED <<down, editing, writes, body, draft, storage, contents, posts, mayDelete,
                    posted, typed, overtaken, hasty, lateSave>>

(* FdbChunkedUploadStart, Send and End, FdbGetHandleRelativePath            *)
ServeUpload ==
  LET m == Head(up)
      h == Len(contents) + 1
  IN /\ Serving("upload")
     /\ IF m.step = "start"
        THEN /\ Serve([m EXCEPT !.h = h])
             /\ storage' = storage \cup {h}
             /\ contents' = Append(contents, m.it.file)
        ELSE Serve(m) /\ UNCHANGED <<storage, contents>>
     /\ UNCHANGED <<editing, writes, body, files, fid, draft, posts, mayDelete, drops, posted,
                    typed, overtaken, hasty, lateSave>>

NextStep(m) ==
  CASE m.step = "start" -> IF m.size = 0 THEN "end" ELSE "chunk"
    [] m.step = "chunk" -> "end"
    [] m.step = "end"   -> "path"

Noted(it, m) ==
  CASE m.step = "start" -> [it EXCEPT !.progress = 0]
    [] m.step = "chunk" -> [it EXCEPT !.progress = 100]
    [] m.step = "end"   -> [it EXCEPT !.handle = m.h]
    [] m.step = "path"  -> [it EXCEPT !.path = TRUE]

(* The rest of uploadFile.  It throws when the attachment is gone, and when *)
(* what it found has no file, as those of a draft have not.                 *)
UploadArrives ==
  LET m == Head(down)
      i == Where(files[m.v], m.id)
      its == [files[m.v] EXCEPT ![i] = Noted(@, m)]
  IN /\ Getting("upload") /\ Got
     /\ IF i = 0 \/ ~ m.it.real
        THEN UNCHANGED <<up, files, draft, lateSave>>
        ELSE /\ files' = [files EXCEPT ![m.v] = its]
             /\ IF m.step = "path" THEN SavesFiles(m.v, its) /\ UNCHANGED up
                ELSE Ask(<<[m EXCEPT !.step = NextStep(m)]>>) /\ UNCHANGED <<draft, lateSave>>
     /\ UNCHANGED <<editing, writes, body, fid, storage, contents, posts, mayDelete, drops,
                    posted, typed, overtaken, hasty>>

(* FdbDeleteFile, for every attachment of ids with a handle                 *)
Deletions(its, ids) ==
  SetToSeq({[what |-> "delete", h |-> its[Where(its, id)].handle] : id \in
              {x \in ids : its[Where(its, x)].handle # 0}})

(* The icon that deletes an attachment is shown when all of it was sent.    *)
HasIcon(it) == it.progress = 100

(* deleteFile                                                               *)
DeleteFile(id) ==
  LET its == files[writes]
      rest == SelectSeq(its, LAMBDA it : it.id # id)
  IN /\ Calm /\ editing /\ \E it \in Range(its) : it.id = id /\ HasIcon(it)
     /\ Ask(Deletions(its, {id}))
     /\ files' = [files EXCEPT ![writes] = rest]
     /\ draft' = [draft EXCEPT !.files = rest]
     /\ hasty' = (hasty \/ Flowing({"post"}))
     /\ UNCHANGED <<down, editing, writes, body, fid, storage, contents, posts, mayDelete, drops,
                    posted, typed, overtaken, lateSave>>

(* Reject: the page is left and deleteDraft deletes every attachment.       *)
Reject ==
  /\ Calm /\ editing
  /\ editing' = FALSE
  /\ Ask(Deletions(files[writes], {it.id : it \in Range(files[writes])}))
  /\ files' = [files EXCEPT ![writes] = <<>>]
  /\ draft' = NoDraft /\ typed' = 0
  /\ hasty' = (hasty \/ Flowing({"post"}))
  /\ UNCHANGED <<down, writes, body, fid, storage, contents, posts, mayDelete, drops, posted,
                 overtaken, lateSave>>

ServeFdbDelete ==
  /\ Serving("delete")
  /\ up' = Tail(up)
  /\ storage' = IF mayDelete THEN storage \ {Head(up).h} ELSE storage
  /\ UNCHANGED <<down, editing, writes, body, files, fid, draft, contents, posts, mayDelete,
                 drops, posted, typed, overtaken, hasty, lateSave>>

------------------------------------------------------------------------------
(* post: the attachments are those saved last.  Nothing hinders a second    *)
(* click.                                                                   *)
Post ==
  /\ Calm /\ editing /\ body.n > 0 /\ posted < MaxPosts /\ PostMayAct
  /\ posted' = posted + 1
  /\ Ask(<<[what |-> "post", v |-> writes, n |-> body.n, hs |-> Handles(draft.files)]>>)
  /\ UNCHANGED <<down, editing, writes, body, files, fid, draft, storage, contents, posts,
                 mayDelete, drops, typed, overtaken, hasty, lateSave>>

(* LbkPostCreate, which may fail                                            *)
ServePost ==
  /\ Serving("post")
  /\ \E ok \in BOOLEAN :
       /\ Serve([what |-> "post", n |-> Head(up).n, ok |-> ok])
       /\ posts' = IF ok THEN posts \cup {Head(up).hs} ELSE posts
  /\ UNCHANGED <<editing, writes, body, files, fid, draft, storage, contents, mayDelete, drops,
                 posted, typed, overtaken, hasty, lateSave>>

ServeOthers ==
  \/ Serving("avatar") /\ Serve(Head(up)) /\ UNCHANGED vars_w
  \/ /\ Serving("rdb")
     /\ \E found \in BOOLEAN :
          Serve([what |-> "rdb", v |-> Head(up).v, body |-> Head(up).body, found |-> found])
     /\ UNCHANGED vars_w

(* The draft is removed, the files are kept.                                *)
Forgets == up' = up

PostArrives ==
  /\ Getting("post") /\ Got
  /\ IF Head(down).ok
     THEN /\ Forgets
          /\ draft' = NoDraft /\ editing' = FALSE /\ typed' = 0
          /\ overtaken' = (overtaken \/ Head(down).n # typed)
     ELSE UNCHANGED <<up, draft, editing, typed, overtaken>>
  /\ UNCHANGED <<writes, body, files, fid, storage, contents, posts, mayDelete, drops, posted,
                 hasty, lateSave>>

PostNext ==
  \/ OpenPage \/ LeavePage \/ AvatarArrives \/ TypeText \/ RdbArrives
  \/ \E size \in {0, 1} : DropFile(size)
  \/ ServeUpload \/ UploadArrives
  \/ \E id \in 1 .. MaxDrops : DeleteFile(id)
  \/ Reject \/ ServeFdbDelete \/ Post \/ ServePost \/ ServeOthers \/ PostArrives

------------------------------------------------------------------------------
Attachment == [id : 1 .. MaxDrops, file : 1 .. MaxDrops, progress : {0, 100},
               handle : 0 .. MaxDrops, path : BOOLEAN, real : BOOLEAN]
Text == [n : 0 .. MaxKeys, link : BOOLEAN]

LogBookPostTypeOK ==
  /\ editing \in BOOLEAN /\ writes \in 0 .. MaxWrites /\ body \in Text
  /\ files \in [1 .. MaxWrites -> Seq(Attachment)] /\ fid \in [1 .. MaxWrites -> 0 .. MaxDrops]
  /\ draft \in [body : Text, files : Seq(Attachment)]
  /\ storage \subseteq 1 .. MaxDrops /\ contents \in Seq(1 .. MaxDrops)
  /\ posts \subseteq SUBSET (1 .. MaxDrops) /\ mayDelete \in BOOLEAN
  /\ typed \in 0 .. MaxKeys /\ {overtaken, hasty, lateSave} \subseteq BOOLEAN

(* What the user has typed and neither posted nor rejected is the draft, and *)
(* what the page shows, also after the page was left and opened again.  Not  *)
(* so once text was typed while an rdb link was looked up (the answer puts   *)
(* back the text that was looked at) or while a post was asked for (the      *)
(* answer removes the draft).                                                *)
TextKept ==
  ~ overtaken => /\ draft.body.n = typed
                 /\ editing => body = draft.body

(* A handle and a path are noted on the attachment whose file was uploaded   *)
(* under it, whatever was dropped or removed meanwhile, and though ids can   *)
(* repeat.                                                                   *)
HandlesRight ==
  \A v \in 1 .. MaxWrites : \A it \in Range(files[v]) :
    /\ it.handle # 0 => contents[it.handle] = it.file
    /\ it.path => it.handle # 0

PostedFiles == UNION posts
(* The files of a post stay on the server, unless the user removed them, or  *)
(* rejected the draft, while the post was asked for, or an upload or the     *)
(* avatar was answered after its page was gone, which saves the attachments  *)
(* as a draft again, for the next post to be rejected with.                  *)
PostedFilesKept == ~ (hasty \/ lateSave) => PostedFiles \subseteq storage
=============================================================================
