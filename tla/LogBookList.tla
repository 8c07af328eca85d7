---------------------------- MODULE LogBookList ----------------------------
(***************************************************************************)
(* Browsing the log book (frontend/src/LogBook.tsx, SearchBarServerSide of  *)
(* components/SearchBar.tsx, lbk/mxlbk.cpp): a page of the posts that match *)
(* a search, deleting the selected ones and opening one to read.  Every     *)
(* time the list is shown its components are made again, the timers and     *)
(* calls of the earlier ones go on.                                         *)
(***************************************************************************)
EXTENDS PageCalls, FiniteSetsExt

CONSTANTS
  PostIds,        (* posts, numbered in the order of creation               *)
  Matching,       (* the ones that match a search for "x"; no one has "y"   *)
  PostsPerPage,   (* POSTS_PER_PAGE                                         *)
  MaxShown, MaxActs,  (* bounds: times the list is shown, clicks and keystrokes *)
  MaxListActs         (* bound: both together                               *)

VARIABLES
  lbk,            (* the posts of the server                                *)
  page_l,         (* newPostPage: the list, a post being read or written    *)
  showing,        (* how often the list was shown                           *)
  boxes,          (* the text in the search bar, each time                  *)
  timers_l,       (* timers of the search bars, in the order they end       *)
  working,        (* isWorking of the search bar shown                      *)
  query, numPosts,
  lpage,          (* the page chosen                                        *)
  pagePosts,      (* the posts listed                                       *)
  selectedIds, readPageId, readPage,
  acts,           (* clicks and keystrokes so far                           *)
  fetchedFor,     (* history: query and page of the last list               *)
  countedFor,     (* history: query of the last number                      *)
  deaf,           (* history: a search was not made, or made for a bar gone *)
  chosen, failed_l,   (* history: posts whose deletion was confirmed, refused *)
  erased          (* history: posts deleted from here                       *)

browse_l == <<boxes, timers_l, working, deaf>>
read_l == <<readPageId, readPage>>
delete_l == <<chosen, failed_l, erased>>
vars_l == <<lbk, acts, page_l, showing, browse_l, query, numPosts, lpage, pagePosts, selectedIds,
            fetchedFor, countedFor, read_l, delete_l>>

Texts == {"", "x", "y"}
Size(text) == IF text = "" THEN 0 ELSE 1
Found(text) == {id \in lbk : text = "" \/ (text = "x" /\ id \in Matching)}
Listed == {pagePosts[i].id : i \in DOMAIN pagePosts}
Selected(ps) == {ps[i].id : i \in {j \in DOMAIN ps : ps[j].selected}}

Clamp(p, n) == IF (p - 1) * PostsPerPage >= n THEN 0 ELSE p - 1
FetchFor(q, p, n) == [what |-> "fetch", q |-> q, p |-> Clamp(p, n)]

(* The answer of LbkGetEntriesPage and LbkGetEntriesPageSearch              *)
PageOf(text, p) ==
  SelectSeq(SetToSortSeq(PostIds, >),
            LAMBDA id : /\ id \in Found(text)
                        /\ Cardinality({x \in Found(text) : x > id}) \div PostsPerPage = p)

(* What the list asks for when it is shown: the search bar, the number of   *)
(* all posts, and a page for the query of before.                           *)
ShowList(q) ==
  <<[what |-> "count", text |-> "", s |-> 0], [what |-> "total"], FetchFor(q, 1, numPosts)>>

ListMayAct == acts + showing < MaxListActs
Acts == acts < MaxActs /\ ListMayAct /\ acts' = acts + 1

(* LogBookReadPost takes the post from the list when it is shown.           *)
NoPage == [id |-> 0, body |-> FALSE]
PageRead(id, body) == [id |-> id, body |-> body]

ListInit ==
  /\ lbk = PostIds /\ page_l = "list" /\ showing = 1
  /\ boxes = [s \in 1 .. MaxShown |-> ""] /\ timers_l = <<>> /\ working = FALSE
  /\ query = "" /\ numPosts = 0 /\ lpage = 1 /\ pagePosts = <<>>
  /\ selectedIds = {} /\ readPageId = 0 /\ readPage = NoPage /\ acts = 0
  /\ fetchedFor = [q |-> "", p |-> 0] /\ countedFor = "" /\ deaf = FALSE
  /\ chosen = {} /\ failed_l = {} /\ erased = {}
ListCalls == ShowList("")

(* A post is written instead, or the post being read is left.               *)
LeavesList ==
  /\ page_l = "list"
  /\ page_l' = "edit"
  /\ UNCHANGED <<calls, acts, lbk, showing, browse_l, query, numPosts, lpage, pagePosts, selectedIds,
                 fetchedFor, countedFor, read_l, delete_l>>

ShowsList ==
  /\ Calm /\ page_l # "list" /\ showing < MaxShown /\ ListMayAct
  /\ page_l' = "list" /\ showing' = showing + 1
  /\ working' = FALSE /\ lpage' = 1 /\ pagePosts' = <<>> /\ selectedIds' = {}
  /\ Ask(ShowList(query))
  /\ UNCHANGED <<down, acts, lbk, boxes, timers_l, deaf, query, numPosts, fetchedFor,
                 countedFor, read_l, delete_l>>

------------------------------------------------------------------------------
(* The search bar: an empty text is searched at once, another a second      *)
(* after it was typed, and not at all while a search is under way.          *)
TypeSearch(text) ==
  /\ Calm /\ page_l = "list" /\ boxes[showing] # text /\ Acts
  /\ boxes' = [boxes EXCEPT ![showing] = text]
  /\ IF text = ""
     THEN /\ Ask(<<[what |-> "count", text |-> "", s |-> 0]>>)
          /\ working' = FALSE /\ UNCHANGED <<timers_l, deaf>>
     ELSE /\ timers_l' = IF working THEN timers_l
                         ELSE Append(timers_l, [s |-> showing, size |-> Size(text)])
          /\ deaf' = (deaf \/ working)
          /\ UNCHANGED <<up, working>>
  /\ UNCHANGED <<down, lbk, page_l, showing, query, numPosts, lpage, pagePosts, selectedIds,
                 fetchedFor, countedFor, read_l, delete_l>>

SearchTimer ==
  LET t == Head(timers_l)
      mine == t.s = showing /\ page_l = "list"
  IN /\ Calm /\ timers_l # <<>>
     /\ timers_l' = Tail(timers_l)
     /\ IF Size(boxes[t.s]) = t.size
        THEN /\ Ask(<<[what |-> "count", text |-> boxes[t.s], s |-> t.s]>>)
             /\ working' = (working \/ mine) /\ deaf' = (deaf \/ ~ mine)
        ELSE UNCHANGED <<up, working, deaf>>
     /\ UNCHANGED <<down, acts, lbk, page_l, showing, boxes, query, numPosts, lpage,
                    pagePosts, selectedIds, fetchedFor, countedFor, read_l, delete_l>>

(* The effect of the table: a page is fetched whenever the query, the number *)
(* of posts or the page changes, while the list is shown.                   *)
Refetch(q, n, p) ==
  IF page_l = "list" /\ <<q, n, p>> # <<query, numPosts, lpage>> THEN <<FetchFor(q, p, n)>>
  ELSE <<>>

(* The number is set before the query, and each may have a page fetched.    *)
CountArrives ==
  LET m == Head(down)
      first == IF m.n # numPosts THEN Refetch(query, m.n, lpage) ELSE <<>>
      second == IF m.text # query THEN Refetch(m.text, m.n, lpage) ELSE <<>>
  IN /\ Getting("count") /\ Got
     /\ numPosts' = m.n /\ query' = m.text /\ countedFor' = m.text
     /\ working' = (working /\ m.s # showing)
     /\ Ask(first \o second)
     /\ UNCHANGED <<acts, lbk, page_l, showing, boxes, timers_l, deaf, lpage, pagePosts,
                    selectedIds, fetchedFor, read_l, delete_l>>

TotalArrives ==
  /\ Getting("total") /\ Got
  /\ numPosts' = Head(down).n /\ countedFor' = ""
  /\ Ask(Refetch(query, Head(down).n, lpage))
  /\ UNCHANGED <<acts, lbk, page_l, showing, browse_l, query, lpage, pagePosts, selectedIds,
                 fetchedFor, read_l, delete_l>>

ChoosePage(p) ==
  /\ Calm /\ page_l = "list" /\ p # lpage /\ Acts
  /\ (p - 1) * PostsPerPage < numPosts
  /\ lpage' = p
  /\ Ask(Refetch(query, numPosts, p))
  /\ UNCHANGED <<down, lbk, page_l, showing, browse_l, query, numPosts, pagePosts, selectedIds,
                 fetchedFor, countedFor, read_l, delete_l>>

FetchArrives ==
  LET m == Head(down)
  IN /\ Getting("fetch") /\ Got
     /\ pagePosts' = [i \in DOMAIN m.ids |-> [id |-> m.ids[i], selected |-> FALSE, body |-> FALSE]]
     /\ selectedIds' = {}
     /\ fetchedFor' = [q |-> m.q, p |-> m.p]
     /\ UNCHANGED <<up, acts, lbk, page_l, showing, browse_l, query, numPosts, lpage, countedFor,
                    read_l, delete_l>>

ServePosts ==
  LET m == Head(up)
  IN /\ \/ /\ Serving("count")
           /\ Serve([what |-> "count", text |-> m.text, s |-> m.s, n |-> Cardinality(Found(m.text))])
        \/ /\ Serving("total")
           /\ Serve([what |-> "total", n |-> Cardinality(lbk)])
        \/ /\ Serving("fetch")
           /\ Serve([what |-> "fetch", q |-> m.q, p |-> m.p, ids |-> PageOf(m.q, m.p)])
        \/ /\ Serving("read")
           /\ Serve([what |-> "read", id |-> m.id, found |-> m.id \in lbk])
     /\ UNCHANGED vars_l

------------------------------------------------------------------------------
SelectPost(i) ==
  LET ps == [pagePosts EXCEPT ![i].selected = ~ @]
  IN /\ page_l = "list" /\ i \in DOMAIN pagePosts /\ Acts
     /\ pagePosts' = ps /\ selectedIds' = Selected(ps)
     /\ UNCHANGED <<calls, lbk, page_l, showing, browse_l, query, numPosts, lpage, fetchedFor,
                    countedFor, read_l, delete_l>>

Deleting == Flowing({"erase"})

(* deletePosts, once it is confirmed: one call after the other.             *)
ConfirmDelete ==
  LET ids == SetToSortSeq(selectedIds, <)
  IN /\ Calm /\ page_l = "list" /\ selectedIds # {} /\ ~ Deleting /\ Acts
     /\ chosen' = chosen \cup selectedIds /\ failed_l' = failed_l \ selectedIds
     /\ Ask(<<[what |-> "erase", id |-> Head(ids), rest |-> Tail(ids), bad |-> {}]>>)
     /\ UNCHANGED <<down, lbk, page_l, showing, browse_l, query, numPosts, lpage, pagePosts,
                    selectedIds, fetchedFor, countedFor, read_l, erased>>

(* LbkPostDelete, which may fail, or be refused to the user's role          *)
ServeErase ==
  LET id == Head(up).id
  IN /\ Serving("erase")
     /\ \E ok \in {b \in BOOLEAN : b => id \in lbk} :
          /\ Serve([what |-> "erase", id |-> id, rest |-> Head(up).rest, bad |-> Head(up).bad,
                    ok |-> ok])
          /\ lbk' = IF ok THEN lbk \ {id} ELSE lbk
          /\ erased' = IF ok THEN erased \cup {id} ELSE erased
     /\ UNCHANGED <<acts, page_l, showing, browse_l, query, numPosts, lpage, pagePosts, selectedIds,
                    fetchedFor, countedFor, read_l, chosen, failed_l>>

(* The loop runs over the selection of then.                                *)
NextOf(m, now) == m.rest

EraseArrives ==
  LET m == Head(down)
      ps == IF m.ok THEN SelectSeq(pagePosts, LAMBDA p : p.id # m.id) ELSE pagePosts
      bad == IF m.ok THEN m.bad ELSE m.bad \cup {m.id}
      rest == NextOf(m, Selected(ps))
  IN /\ Getting("erase") /\ Got
     /\ pagePosts' = ps
     /\ failed_l' = IF m.ok THEN failed_l ELSE failed_l \cup {m.id}
     /\ IF rest = <<>>
        THEN selectedIds' = bad /\ UNCHANGED up
        ELSE /\ selectedIds' = IF m.ok THEN Selected(ps) ELSE selectedIds
             /\ Ask(<<[what |-> "erase", id |-> Head(rest), rest |-> Tail(rest), bad |-> bad]>>)
     /\ UNCHANGED <<acts, lbk, page_l, showing, browse_l, query, numPosts, lpage, fetchedFor,
                    countedFor, read_l, chosen, erased>>

(* Another user deletes a post (bound: one).                                *)
OthersErase(id) ==
  /\ Unhurried /\ id \in lbk /\ Cardinality(lbk \cup erased) = Cardinality(PostIds) /\ Acts
  /\ lbk' = lbk \ {id}
  /\ UNCHANGED <<calls, page_l, showing, browse_l, query, numPosts, lpage, pagePosts,
                 selectedIds, fetchedFor, countedFor, read_l, delete_l>>

------------------------------------------------------------------------------
(* Fault: the page is opened while its text is fetched (ReadRight).         *)
OpenAtOnce(id) == page_l' = "read" /\ readPageId' = id /\ readPage' = PageRead(id, FALSE)
OpenLater(id) == UNCHANGED <<page_l, readPageId, readPage>>

(* onPostClick                                                              *)
PostClick(i) ==
  LET p == pagePosts[i]
  IN /\ Calm /\ page_l = "list" /\ i \in DOMAIN pagePosts /\ Acts
     /\ IF p.body
        THEN /\ page_l' = "read" /\ readPageId' = p.id /\ readPage' = PageRead(p.id, TRUE)
             /\ UNCHANGED up
        ELSE /\ OpenLater(p.id)
             /\ Ask(<<[what |-> "read", id |-> p.id]>>)
     /\ UNCHANGED <<down, lbk, showing, browse_l, query, numPosts, lpage, pagePosts, selectedIds,
                    fetchedFor, countedFor, delete_l>>

(* The post may be off the list by now (then it throws) or deleted; a post  *)
(* that is being read already stays on the page.                            *)
ReadArrives ==
  LET m == Head(down)
  IN /\ Getting("read") /\ Got
     /\ IF m.found /\ m.id \in Listed
        THEN /\ pagePosts' = [i \in DOMAIN pagePosts |->
                                IF pagePosts[i].id = m.id THEN [pagePosts[i] EXCEPT !.body = TRUE]
                                ELSE pagePosts[i]]
             /\ readPageId' = m.id /\ page_l' = "read"
             /\ readPage' = IF page_l = "read" THEN readPage ELSE PageRead(m.id, TRUE)
        ELSE UNCHANGED <<pagePosts, readPageId, page_l, readPage>>
     /\ UNCHANGED <<up, acts, lbk, showing, browse_l, query, numPosts, lpage, selectedIds, fetchedFor,
                    countedFor, delete_l>>

ListNext ==
  \/ LeavesList \/ ShowsList \/ SearchTimer \/ CountArrives \/ TotalArrives \/ FetchArrives
  \/ ServePosts \/ ConfirmDelete \/ ServeErase \/ EraseArrives \/ ReadArrives
  \/ \E text \in Texts : TypeSearch(text)
  \/ \E id \in PostIds : OthersErase(id)
  \/ \E i \in 1 .. Cardinality(PostIds) : ChoosePage(i) \/ SelectPost(i) \/ PostClick(i)

------------------------------------------------------------------------------
LogBookListTypeOK ==
  /\ lbk \subseteq PostIds /\ page_l \in {"list", "read", "edit"} /\ showing \in 1 .. MaxShown
  /\ boxes \in [1 .. MaxShown -> Texts] /\ working \in BOOLEAN /\ query \in Texts
  /\ \A i \in DOMAIN timers_l : timers_l[i] \in [s : 1 .. MaxShown, size : {1}]
  /\ numPosts \in 0 .. Cardinality(PostIds) /\ lpage \in 1 .. Cardinality(PostIds)
  /\ pagePosts \in Seq([id : PostIds, selected : BOOLEAN, body : BOOLEAN])
  /\ Len(pagePosts) <= PostsPerPage
  /\ selectedIds \subseteq PostIds /\ readPageId \in PostIds \cup {0}
  /\ readPage \in [id : PostIds \cup {0}, body : BOOLEAN]

QuietList == Quiet("logbook")

(* Once no call is under way the list is the page that the page number and   *)
(* the query stand for, and the number of posts, which decides what pages    *)
(* there are, was counted for that query: of the calls that overlap while    *)
(* the user searches, changes page and comes back, the last are the ones     *)
(* that count.                                                               *)
ListRight ==
  (QuietList /\ page_l = "list") =>
    /\ fetchedFor = [q |-> query, p |-> Clamp(lpage, numPosts)]
    /\ countedFor = query

(* What is listed is what the search bar says, once its timers have ended    *)
(* and no call is under way, but for a text typed while a search was under   *)
(* way (it is not searched) and a timer of a list that is gone (it searches  *)
(* what that bar said).                                                      *)
SearchRight ==
  (QuietList /\ timers_l = <<>> /\ page_l = "list" /\ ~ deaf) => query = boxes[showing]

(* Deleting removes from the server only posts the user had confirmed, and   *)
(* once it is over each of these was deleted or reported as failed, though   *)
(* the list is changed, fetched again or left meanwhile.                     *)
SelectedDeleted ==
  /\ erased \subseteq chosen
  /\ ~ Deleting => chosen \subseteq erased \cup failed_l

(* A post is opened only with its text: the page to read reads body without  *)
(* a test.                                                                   *)
ReadRight == page_l = "read" => readPage.id # 0 /\ readPage.body
=============================================================================
