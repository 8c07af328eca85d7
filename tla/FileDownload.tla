---------------------------- MODULE FileDownload ----------------------------
(***************************************************************************)
(* Downloading the files of a run (frontend/src/RunViewer.tsx: downloadFile) *)
(* from the file database (rdb/mxfdb.cpp).  The page asks for chunks until   *)
(* one says that it is the last; on the server a thread pushes the chunks on *)
(* a stack, whose top the answer takes, or waits for.  The calls of all web   *)
(* clients wait with it.  A file is the sequence of the positions in it.      *)
(***************************************************************************)
EXTENDS PageCalls

CONSTANTS
  StoredSizes,               (* sizes of the files of a run                   *)
  DownChunk,                 (* CHUNK_SIZE                                    *)
  MaxDownloads, MaxReloads   (* bounds: files clicked, times the page is left *)

ASSUME SizesAssumption == StoredSizes \subseteq Nat
ASSUME ChunkAssumption == DownChunk \in Nat \ {0}

VARIABLES
  stored_f,    (* file -> its size, and whether it has a row, and is on disk  *)
  transfers,   (* _fdb_chunk_filepath_cache and _stream: file -> its transfer *)
  filename,    (* the popup: 0 or the file it says is being downloaded        *)
  downloads,   (* the calls of downloadFile                                   *)
  reloads      (* times the page was left                                     *)

vars_f == <<stored_f, transfers, filename, downloads, reloads>>

Files_f == DOMAIN stored_f
OnDisk == {[row |-> TRUE, disk |-> TRUE, size |-> s] : s \in StoredSizes}
Elsewhere == {[row |-> FALSE, disk |-> FALSE, size |-> 0], [row |-> TRUE, disk |-> FALSE, size |-> 0]}

DownloadInit ==
  /\ stored_f \in [1 .. 2 -> OnDisk \cup Elsewhere]
  /\ transfers = <<>> /\ filename = 0 /\ downloads = <<>> /\ reloads = 0

(* A click on a file; the popup, while it is open, is in front of the table.  *)
ClickFile(f) ==
  /\ filename = 0 /\ Len(downloads) < MaxDownloads
  /\ downloads' = Append(downloads, [f |-> f, chunks |-> <<>>, saved |-> <<>>, phase |-> "start", ahead |-> FALSE])
  /\ Ask(<<[what |-> "dlstart", d |-> Len(downloads) + 1]>>)
  /\ UNCHANGED <<down, stored_f, transfers, filename, reloads>>

(* The page is left: its calls are executed, and nobody gets the answers.     *)
LeavesPage ==
  /\ reloads < MaxReloads
  /\ reloads' = reloads + 1 /\ filename' = 0
  /\ downloads' = [d \in DOMAIN downloads |->
       IF downloads[d].phase \in {"start", "receive", "end"} THEN [downloads[d] EXCEPT !.phase = "left"]
       ELSE downloads[d]]
  /\ UNCHANGED <<calls, stored_f, transfers>>

FileOf(m) == downloads[m.d].f
Dropped_f(t, f) == [g \in DOMAIN t \ {f} |-> t[g]]

Answer(m, granted) == [what |-> m.what, d |-> m.d, yes |-> granted]

(* FdbChunkedDownloadStart and FdbCacheTransferInit: one transfer at a time   *)
(* of a file; next is where the detached thread is in the file.               *)
Fresh_f == [next |-> 0, stack |-> <<>>, runs |-> TRUE, unblock |-> FALSE]
ServeDownloadStart ==
  LET f == FileOf(Head(up))
      starts == stored_f[f].row /\ f \notin DOMAIN transfers
  IN /\ Serving("dlstart")
     /\ Serve(Answer(Head(up), starts))
     /\ transfers' = IF starts
                     THEN [g \in DOMAIN transfers \cup {f} |-> IF g = f THEN Fresh_f ELSE transfers[g]]
                     ELSE transfers
     /\ UNCHANGED <<stored_f, filename, downloads, reloads>>

Least(a, b) == IF a < b THEN a ELSE b

(* The chunk that is read from position n of a file of this size, and         *)
(* whether it says that it is the last.                                       *)
ChunkAt(n, size) ==
  [last |-> size - n < DownChunk, data |-> [i \in 1 .. Least(DownChunk, size - n) |-> n + i]]

PreloadsChunk(f) ==
  /\ f \in DOMAIN transfers
  /\ transfers[f].next < stored_f[f].size
  /\ LET chunk == ChunkAt(transfers[f].next, stored_f[f].size)
     IN transfers' = [transfers EXCEPT ![f].stack = Append(@, chunk), ![f].next = @ + Len(chunk.data)]
  /\ UNCHANGED <<calls, stored_f, filename, downloads, reloads>>

(* Fault: who waits for a file that is not there is not told                  *)
(* (StuckOnlyWhenNoneIsLast).                                                 *)
TellsNobody(t) == t
(* SysBufferStack.requestUnblock                                              *)
RequestUnblock(t) == [t EXCEPT !.unblock = TRUE]

(* The thread has read the file, or cannot open it.                           *)
ThreadReturns(f) ==
  /\ f \in DOMAIN transfers /\ transfers[f].runs
  /\ transfers[f].next = stored_f[f].size
  /\ transfers' = [transfers EXCEPT ![f] =
                     [(IF stored_f[f].disk THEN @ ELSE RequestUnblock(@)) EXCEPT !.runs = FALSE]]
  /\ UNCHANGED <<calls, stored_f, filename, downloads, reloads>>

Waits(f) == f \in DOMAIN transfers /\ transfers[f].stack = <<>> /\ ~ transfers[f].unblock
ChunkTaken(c) == [last |-> c.last, data |-> c.data, empty |-> FALSE]
NothingLeft == [last |-> FALSE, data |-> <<>>, empty |-> TRUE]

(* FdbChunkedDownloadReceive and SysBufferStack.pop                           *)
ServeReceive ==
  LET m == Head(up)
      f == FileOf(m)
      stack == transfers[f].stack
      pops == f \in DOMAIN transfers /\ ~ transfers[f].unblock
  IN /\ Serving("dlreceive")
     /\ ~ Waits(f)
     /\ IF pops
        THEN /\ Serve([m EXCEPT !.chunk = ChunkTaken(Last(stack))])
             /\ transfers' = [transfers EXCEPT ![f].stack = Front(@)]
             /\ downloads' = [downloads EXCEPT ![m.d].ahead = @ \/ Len(stack) > 1]
        ELSE Serve([m EXCEPT !.chunk = NothingLeft]) /\ UNCHANGED <<transfers, downloads>>
     /\ UNCHANGED <<stored_f, filename, reloads>>

(* FdbCacheTransferFinalize                                                   *)
Finalize_f(t, f) == Dropped_f(t, f)

(* FdbChunkedDownloadEnd                                                      *)
ServeDownloadEnd ==
  LET f == FileOf(Head(up))
      pending == f \in DOMAIN transfers /\ transfers[f].stack # <<>>
  IN /\ Serving("dlend")
     /\ Serve(Answer(Head(up), ~ pending))
     /\ transfers' = IF pending THEN transfers ELSE Finalize_f(transfers, f)
     /\ UNCHANGED <<stored_f, filename, downloads, reloads>>

(* The answers; a page that was left gets none.                               *)
Here(m) == downloads[m.d].phase # "left"
AnswerIsLost ==
  /\ down # <<>> /\ Head(down).what \in {"dlstart", "dlreceive", "dlend"} /\ ~ Here(Head(down))
  /\ Got
  /\ UNCHANGED <<up, vars_f>>

Receive(d) == <<[what |-> "dlreceive", d |-> d, chunk |-> NothingLeft]>>

DownloadStarts ==
  LET m == Head(down)
  IN /\ Getting("dlstart") /\ Here(m) /\ Got
     /\ filename' = IF m.yes THEN FileOf(m) ELSE filename
     /\ downloads' = [downloads EXCEPT ![m.d].phase = IF m.yes THEN "receive" ELSE "refused"]
     /\ Ask(IF m.yes THEN Receive(m.d) ELSE <<>>)
     /\ UNCHANGED <<stored_f, transfers, reloads>>

(* An empty answer cannot be unpacked: downloadFile ends with an exception.   *)
ChunkArrives ==
  LET m == Head(down)
      c == m.chunk
  IN /\ Getting("dlreceive") /\ Here(m) /\ Got
     /\ downloads' = [downloads EXCEPT
          ![m.d].chunks = IF c.empty THEN @ ELSE Append(@, c.data),
          ![m.d].phase = IF c.empty THEN "thrown" ELSE IF c.last THEN "end" ELSE @]
     /\ Ask(IF c.empty THEN <<>> ELSE IF c.last THEN <<[what |-> "dlend", d |-> m.d]>> ELSE Receive(m.d))
     /\ UNCHANGED <<stored_f, transfers, filename, reloads>>

(* concat_bytes                                                               *)
ConcatBytes(chunks) == FlattenSeq(chunks)

ClosesPopup(yes) == 0

(* The file is saved whether the server had more chunks or not.               *)
DownloadEnds ==
  LET m == Head(down)
  IN /\ Getting("dlend") /\ Here(m) /\ Got
     /\ filename' = ClosesPopup(m.yes)
     /\ downloads' = [downloads EXCEPT ![m.d].phase = "saved", ![m.d].saved = ConcatBytes(downloads[m.d].chunks)]
     /\ UNCHANGED <<up, stored_f, transfers, reloads>>

DownloadNext ==
  \/ \E f \in Files_f : ClickFile(f)
  \/ LeavesPage
  \/ ServeDownloadStart
  \/ \E f \in Files_f : PreloadsChunk(f)
  \/ \E f \in Files_f : ThreadReturns(f)
  \/ ServeReceive \/ ServeDownloadEnd
  \/ AnswerIsLost \/ DownloadStarts \/ ChunkArrives \/ DownloadEnds

DownloadSpec ==
  /\ route = "download" /\ up = <<>> /\ down = <<>> /\ DownloadInit
  /\ [][DownloadNext /\ UNCHANGED route]_<<route, calls, vars_f>>

------------------------------------------------------------------------------
Phases_f == {"start", "receive", "end", "saved", "refused", "thrown", "left"}
Chunks_f == [last : BOOLEAN, data : Seq(Nat)]
DownloadCalls ==
  [what : {"dlstart", "dlend"}, d : DOMAIN downloads]
    \cup [what : {"dlreceive"}, d : DOMAIN downloads, chunk : {NothingLeft}]
DownloadAnswers ==
  [what : {"dlstart", "dlend"}, d : DOMAIN downloads, yes : BOOLEAN]
    \cup [what : {"dlreceive"}, d : DOMAIN downloads,
          chunk : [last : BOOLEAN, data : Seq(Nat), empty : BOOLEAN]]

DownloadTypeOK ==
  /\ up \in Seq(DownloadCalls) /\ down \in Seq(DownloadAnswers)
  /\ stored_f \in [1 .. 2 -> OnDisk \cup Elsewhere]
  /\ filename \in Files_f \cup {0}
  /\ DOMAIN transfers \subseteq Files_f
  /\ \A f \in DOMAIN transfers :
       transfers[f] \in [next : Nat, stack : Seq(Chunks_f), runs : BOOLEAN, unblock : BOOLEAN]
  /\ downloads \in Seq([f : Files_f, chunks : Seq(Seq(Nat)), saved : Seq(Nat), phase : Phases_f,
                        ahead : BOOLEAN])
  /\ reloads \in Nat

(* What is saved is the file, whole and in order, unless the thread got       *)
(* ahead of the page, so that a chunk was taken before one under it.          *)
SavedWhole ==
  \A d \in DOMAIN downloads :
    downloads[d].phase = "saved" /\ ~ downloads[d].ahead
      => downloads[d].saved = [i \in 1 .. stored_f[downloads[d].f].size |-> i]

(* The web clients' calls wait for a chunk that never comes only for a file   *)
(* none of whose chunks says that it is the last: its size is a multiple of   *)
(* the chunk's, or it is empty.  A file that is not on disk stops nobody.     *)
StuckOnlyWhenNoneIsLast ==
  \A f \in Files_f :
    /\ Serving("dlreceive") /\ FileOf(Head(up)) = f /\ Waits(f)
    /\ ~ transfers[f].runs
    => stored_f[f].disk /\ stored_f[f].size % DownChunk = 0

(* Once nothing is under way, a transfer that is still held, which nobody can  *)
(* begin again, is one whose page was left or threw, or whose chunks came out  *)
(* of order.                                                                  *)
TransfersEnd ==
  Quiet("download") =>
    \A f \in DOMAIN transfers : \E d \in DOMAIN downloads :
      downloads[d].f = f /\ (downloads[d].ahead \/ downloads[d].phase \in {"left", "thrown"})

(* Once nothing is under way, no popup is left over the page, even when two    *)
(* files were clicked before the first of them began, unless the page threw.   *)
PopupCloses ==
  Quiet("download") /\ (\A d \in DOMAIN downloads : downloads[d].phase # "thrown") => filename = 0

------------------------------------------------------------------------------
(* What holds of every state, and of each step if it held before.            *)

(* A download has one call under way while its page waits for an answer, and *)
(* none afterwards.                                                           *)
CallOf == [start |-> "dlstart", receive |-> "dlreceive", end |-> "dlend"]
UnderWay == Range(up) \cup Range(down)
OneOfEach(msgs) == \A i, j \in DOMAIN msgs : msgs[i].d = msgs[j].d => i = j
OneCallEach ==
  /\ OneOfEach(up) /\ OneOfEach(down)
  /\ \A m \in Range(up), n \in Range(down) : m.d # n.d
  /\ \A m \in UnderWay :
       LET p == downloads[m.d].phase
       IN p = "left" \/ (p \in DOMAIN CallOf /\ m.what = CallOf[p])
PageAwaits ==
  \A d \in DOMAIN downloads :
    downloads[d].phase \in DOMAIN CallOf => \E m \in UnderWay : m.d = d

(* Who may take chunks of a transfer or end it: whose start was granted and   *)
(* whose end was not executed.  There is one at most, and a transfer without  *)
(* one stays.                                                                 *)
Granted(m) == m.what = "dlreceive" \/ (m.what = "dlstart" /\ m.yes)
Holding == {m \in Range(up) : m.what # "dlstart"} \cup {m \in Range(down) : Granted(m)}
HoldersApart ==
  /\ \A m \in Holding : FileOf(m) \in DOMAIN transfers
  /\ \A m, n \in Holding : FileOf(m) = FileOf(n) => m = n
TransfersHeld ==
  \A f \in DOMAIN transfers : \E d \in DOMAIN downloads :
    /\ downloads[d].f = f
    /\ \/ downloads[d].ahead \/ downloads[d].phase \in {"left", "thrown"}
       \/ \E m \in Holding : m.d = d

(* Where the thread is: between two chunks, or at the end of the file.        *)
ThreadsRight ==
  \A f \in DOMAIN transfers :
    LET t == transfers[f]
    IN /\ t.next <= stored_f[f].size
       /\ t.next % DownChunk = 0 \/ t.next = stored_f[f].size
       /\ ~ t.runs => t.next = stored_f[f].size /\ (stored_f[f].disk \/ t.unblock)

(* A download that got n positions, and whose chunks came in order, finds the *)
(* one that follows at the bottom of the stack.                               *)
Positions(n) == [i \in 1 .. n |-> i]
Follows(f, n) ==
  LET t == transfers[f]
  IN /\ n \in 0 .. t.next
     /\ t.stack = <<>> <=> n = t.next
     /\ Len(t.stack) = 1 => /\ t.stack[1] = ChunkAt(n, stored_f[f].size)
                            /\ t.next = n + Len(t.stack[1].data)

Received_f(d) == ConcatBytes(downloads[d].chunks)
SizeOf(d) == stored_f[downloads[d].f].size
Ordered(d, n) == Received_f(d) = Positions(n)
InOrderUp(m) ==
  CASE m.what = "dlstart" -> downloads[m.d].chunks = <<>>
    [] m.what = "dlreceive" -> \E n \in 0 .. SizeOf(m.d) : Ordered(m.d, n) /\ Follows(FileOf(m), n)
    [] m.what = "dlend" -> Ordered(m.d, SizeOf(m.d)) /\ Follows(FileOf(m), SizeOf(m.d))
InOrderDown(m) ==
  CASE m.what = "dlstart" -> downloads[m.d].chunks = <<>> /\ (m.yes => Follows(FileOf(m), 0))
    [] m.what = "dlreceive" -> ~ m.chunk.empty =>
         \E n \in 0 .. SizeOf(m.d) :
           /\ Ordered(m.d, n)
           /\ m.chunk = ChunkTaken(ChunkAt(n, SizeOf(m.d)))
           /\ Follows(FileOf(m), n + Len(m.chunk.data))
    [] m.what = "dlend" -> Ordered(m.d, SizeOf(m.d))
ChunksInOrder ==
  /\ \A m \in Range(up) : ~ downloads[m.d].ahead => InOrderUp(m)
  /\ \A m \in Range(down) : ~ downloads[m.d].ahead => InOrderDown(m)

(* The chunk that says that it is the last waits for those who still ask.     *)
Asking == {m \in Range(up) : m.what = "dlreceive"}
            \cup {m \in Range(down) : m.what = "dlstart" /\ m.yes}
            \cup {m \in Range(down) : m.what = "dlreceive" /\ ~ m.chunk.last /\ ~ m.chunk.empty}
LastAwaits ==
  \A m \in Asking :
    LET t == transfers[FileOf(m)]
    IN (t.next = stored_f[FileOf(m)].size /\ t.next % DownChunk # 0) =>
         \E i \in DOMAIN t.stack : t.stack[i].last

PopupIsOf ==
  filename # 0 => \E d \in DOMAIN downloads : downloads[d].phase \in {"receive", "end", "thrown"}

DownloadInvariant ==
  /\ DownloadTypeOK
  /\ OneCallEach
  /\ PageAwaits
  /\ HoldersApart
  /\ TransfersHeld
  /\ ThreadsRight
  /\ ChunksInOrder
  /\ SavedWhole
  /\ LastAwaits
  /\ PopupIsOf

(* While the panel is shown: files are saved whole, each call's answer is     *)
(* its own, and transfers and popups end but for the races that are named.    *)
DownloadsSound ==
  route = "download" =>
    DownloadInvariant /\ StuckOnlyWhenNoneIsLast /\ TransfersEnd /\ PopupCloses
=============================================================================
