-------------------------- MODULE LogBookComments --------------------------
(***************************************************************************)
(* The discussion below a post (frontend/src/LogBook.tsx: LogBookComments,  *)
(* LogBookCommentWrite; lbk/mxlbk.cpp): a page of the comments, the newest  *)
(* first, fetched when it is shown, when the page changes and when a        *)
(* comment was published, and the number of comments, asked for again       *)
(* whenever the list changes.                                               *)
(***************************************************************************)
EXTENDS PageCalls

CONSTANTS
  CommentsPerPage,   (* COMMENTS_PER_PAGE                                   *)
  MaxComments        (* bound: comments made and texts written              *)

VARIABLES
  lbkComments,       (* the server's comments, the oldest first: the text of
                        each, 0 for one of another user                     *)
  cpage, numComments, comments,
  content,           (* the text in the box, 0 if it is empty               *)
  texts,             (* texts written so far                                *)
  told,              (* history: the comments when a page was last served   *)
  hurried            (* history: Post was clicked, or text typed, while a
                        publication was under way                           *)

vars_c == <<lbkComments, cpage, numComments, comments, content, texts, told, hurried>>

(* LbkGetComments                                                           *)
CommentsOf(cs, p) ==
  LET all == Reverse(cs)
      first == p * CommentsPerPage + 1
  IN SubSeq(all, first, IF first + CommentsPerPage - 1 < Len(all)
                        THEN first + CommentsPerPage - 1 ELSE Len(all))

UpdateComments(p) == [what |-> "comments", p |-> p - 1]
GetPostComments(mount) == [what |-> "ncomments", mount |-> mount]

CommentsInit ==
  /\ lbkComments \in {<<>>, <<0>>} /\ cpage = 1 /\ numComments = 0 /\ comments = <<>>
  /\ content = 0 /\ texts = 0 /\ told = <<>> /\ hurried = FALSE
CommentsCalls == <<GetPostComments(TRUE), GetPostComments(FALSE), UpdateComments(1)>>

ServeComments ==
  /\ \/ /\ Serving("ncomments")
        /\ Serve([what |-> "ncomments", mount |-> Head(up).mount, n |-> Len(lbkComments)])
        /\ told' = told
     \/ /\ Serving("comments")
        /\ Serve([what |-> "comments", cs |-> CommentsOf(lbkComments, Head(up).p)])
        /\ told' = lbkComments
  /\ UNCHANGED <<lbkComments, cpage, numComments, comments, content, texts, hurried>>

NumberArrives ==
  LET m == Head(down)
  IN /\ Getting("ncomments") /\ Got
     /\ numComments' = m.n
     /\ Ask(IF m.mount /\ m.n > 0 THEN <<UpdateComments(cpage)>> ELSE <<>>)
     /\ UNCHANGED <<lbkComments, cpage, comments, content, texts, told, hurried>>

(* The list is cleared and filled one by one; each is a change of the list. *)
CommentsArrive ==
  LET cs == Head(down).cs
  IN /\ Getting("comments") /\ Got
     /\ comments' = cs
     /\ Ask([i \in 1 .. Len(cs) + 1 |-> GetPostComments(FALSE)])
     /\ UNCHANGED <<lbkComments, cpage, numComments, content, texts, told, hurried>>

ChooseCommentPage(p) ==
  /\ Calm /\ p # cpage /\ (p - 1) * CommentsPerPage < numComments
  /\ cpage' = p
  /\ Ask(<<UpdateComments(p)>>)
  /\ UNCHANGED <<down, lbkComments, numComments, comments, content, texts, told, hurried>>

WriteComment ==
  /\ texts < MaxComments
  /\ texts' = texts + 1 /\ content' = texts + 1
  /\ hurried' = (hurried \/ Flowing({"publish"}))
  /\ UNCHANGED <<calls, lbkComments, cpage, numComments, comments, told>>

PublishComment ==
  /\ Calm /\ content # 0 /\ Outstanding("publish") < 2
  /\ Ask(<<[what |-> "publish", text |-> content]>>)
  /\ hurried' = (hurried \/ Flowing({"publish"}))
  /\ UNCHANGED <<down, lbkComments, cpage, numComments, comments, content, texts, told>>

(* LbkCommentCreate, which may fail                                         *)
LbkCommentCreate ==
  /\ Serving("publish")
  /\ \E ok \in {b \in BOOLEAN : b => Len(lbkComments) <= MaxComments} :
       /\ Serve([what |-> "publish", ok |-> ok])
       /\ lbkComments' = IF ok THEN Append(lbkComments, Head(up).text) ELSE lbkComments
  /\ UNCHANGED <<cpage, numComments, comments, content, texts, told, hurried>>

OthersComment ==
  /\ Unhurried /\ Len(lbkComments) <= MaxComments
  /\ lbkComments' = Append(lbkComments, 0)
  /\ UNCHANGED <<calls, cpage, numComments, comments, content, texts, told, hurried>>

Published == content' = 0 /\ Ask(<<UpdateComments(cpage)>>)

PublishArrives ==
  /\ Getting("publish") /\ Got
  /\ IF Head(down).ok THEN Published ELSE UNCHANGED <<up, content>>
  /\ UNCHANGED <<lbkComments, cpage, numComments, comments, texts, told, hurried>>

CommentsNext ==
  \/ ServeComments \/ NumberArrives \/ CommentsArrive \/ WriteComment \/ PublishComment
  \/ LbkCommentCreate \/ OthersComment \/ PublishArrives
  \/ \E p \in 1 .. MaxComments + 1 : ChooseCommentPage(p)

------------------------------------------------------------------------------
LogBookCommentsTypeOK ==
  /\ lbkComments \in Seq(0 .. MaxComments) /\ told \in Seq(0 .. MaxComments)
  /\ cpage \in 1 .. MaxComments + 1 /\ numComments \in 0 .. MaxComments + 1
  /\ comments \in Seq(0 .. MaxComments) /\ Len(comments) <= CommentsPerPage
  /\ content \in 0 .. texts /\ texts \in 0 .. MaxComments /\ hurried \in BOOLEAN

(* Once no call is under way the comments shown are the page chosen, of the  *)
(* comments as they were with the user's own last one among them, and the    *)
(* number, which decides what pages there are, counts all of these.  What    *)
(* another user added since is not shown.                                    *)
OwnCommentsShown ==
  Quiet("comments") =>
    /\ comments = CommentsOf(told, cpage - 1)
    /\ numComments >= Len(told)
    /\ \A i \in DOMAIN lbkComments : lbkComments[i] # 0 => i \in DOMAIN told

(* A comment is published once, and the box holds nothing that was published *)
(* already, unless the user went on while a publication was under way: the   *)
(* button stays enabled, and the answer clears what is in the box by then.   *)
PublishedOnce ==
  ~ hurried =>
    /\ \A i, j \in DOMAIN lbkComments : (lbkComments[i] = lbkComments[j] /\ lbkComments[i] # 0) => i = j
    /\ (content # 0 /\ ~ Flowing({"publish"})) => content \notin Range(lbkComments)

------------------------------------------------------------------------------
(***************************************************************************)
(* The avatars next to the comments of the log book (frontend/src/          *)
(* LogBook.tsx: LogBookCommentBox).  Every box that is shown looks its       *)
(* author up in a cache of the page, or asks the server and then adds to it: *)
(* boxes shown at once ask for the same author side by side.                 *)
(***************************************************************************)

CONSTANTS
  Authors,
  MaxBoxes, MaxAvatars   (* bounds: avatarBoxes shown, avatars of an author        *)

VARIABLES
  avatars,   (* author -> which of the author's avatars the server has       *)
  avatarBoxes,     (* the avatarBoxes shown so far: author, and the path, <<>> at first   *)
  cache_v,   (* cache.get('user_avatar'): author -> path                     *)
  known      (* history: authors that were answered                          *)

vars_v == <<avatars, avatarBoxes, cache_v, known>>

AvatarsInit == avatars = [a \in Authors |-> 0] /\ avatarBoxes = <<>> /\ cache_v = <<>> /\ known = {}

ShowBox(a) ==
  /\ Len(avatarBoxes) < MaxBoxes
  /\ IF a \in DOMAIN cache_v
     THEN avatarBoxes' = Append(avatarBoxes, [author |-> a, path |-> cache_v[a]]) /\ UNCHANGED up
     ELSE /\ avatarBoxes' = Append(avatarBoxes, [author |-> a, path |-> <<>>])
          /\ Ask(<<[what |-> "other", box |-> Len(avatarBoxes) + 1, a |-> a, again |-> a \in known]>>)
  /\ UNCHANGED <<down, avatars, cache_v, known>>

(* PdbUserGetOtherAvatarPath                                                 *)
ServeOther ==
  /\ Serving("other")
  /\ Serve(Head(up) @@ [path |-> <<Head(up).a, avatars[Head(up).a]>>])
  /\ UNCHANGED vars_v

ChangeAvatar(a) ==
  /\ avatars[a] < MaxAvatars
  /\ avatars' = [avatars EXCEPT ![a] = @ + 1]
  /\ UNCHANGED <<calls, avatarBoxes, cache_v, known>>

OwnBox(m) == m.box

Remembers(a, path) == (a :> path) @@ cache_v

OtherArrives ==
  LET m == Head(down)
  IN /\ Getting("other") /\ Got
     /\ avatarBoxes' = [avatarBoxes EXCEPT ![OwnBox(m)].path = m.path]
     /\ cache_v' = Remembers(m.a, m.path)
     /\ known' = known \cup {m.a}
     /\ UNCHANGED <<up, avatars>>

AvatarsNext ==
  \/ \E a \in Authors : ShowBox(a) \/ ChangeAvatar(a)
  \/ ServeOther \/ OtherArrives

------------------------------------------------------------------------------
AvatarPath == (Authors \X (0 .. MaxAvatars)) \cup {<<>>}
AvatarsTypeOK ==
  /\ avatars \in [Authors -> 0 .. MaxAvatars] /\ known \subseteq Authors
  /\ avatarBoxes \in Seq([author : Authors, path : AvatarPath])
  /\ DOMAIN cache_v \subseteq Authors /\ Range(cache_v) \subseteq AvatarPath

(* Once nothing is under way, every box has an avatar of its own author, and  *)
(* a box that is shown later gets the last one that was answered.             *)
AvatarsRight ==
  Quiet("avatars") =>
    /\ \A i \in DOMAIN avatarBoxes : avatarBoxes[i].path # <<>> /\ avatarBoxes[i].path[1] = avatarBoxes[i].author
    /\ \A i \in DOMAIN avatarBoxes : avatarBoxes[i].path[2] <= cache_v[avatarBoxes[i].author][2]

(* An author who was answered is not asked for again, whatever the answers    *)
(* that were under way for others then.                                       *)
AskedOnce == \A m \in Range(up) : m.what = "other" => ~ m.again
=============================================================================
