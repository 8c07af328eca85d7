----------------------------- MODULE ByteStream -----------------------------
(***************************************************************************)
(* How the frames of the RPC and event protocols come in (mxsystem.cpp,    *)
(* SysRecvThread and SysByteStream): a thread receives whatever cells the  *)
(* socket has, at most Chunk of them, and pushes them to a buffer of       *)
(* BufSize cells; another fetches one frame at a time from the front of    *)
(* the buffer, whose header says how long it is, and moves the rest down.  *)
(* Both wait on one condition variable.  A request to unblock, made by the *)
(* receive thread when the connection is over or by the owner when it      *)
(* stops, sets a flag and notifies without the mutex, so it can fall       *)
(* between the test of a wait and the wait itself.                         *)
(*                                                                         *)
(* A cell holds its position in the stream of cells the sender writes, so  *)
(* that a lost, repeated or misplaced cell shows.  A header is read        *)
(* wherever the front of the buffer is: where no frame begins it states    *)
(* any length.  The caller's buffer has BufSize cells too.  Nothing in the  *)
(* code keeps a sender from a frame that is longer than the buffer, or so   *)
(* long that the buffer has no room for a chunk until the frame is out.     *)
(***************************************************************************)
EXTENDS Naturals

CONSTANTS
  BufSize,     (* SYS_RECV_THREAD_BUFFER_SIZE                               *)
  Hdr,         (* sizeof(EvtHeader), sizeof(RPCReturnValue), ...            *)
  Chunk,       (* SOCKET_RECV_BUFSIZE                                       *)
  MaxPayload,  (* the longest payload that is sent                          *)
  MaxBytes     (* bound: cells the sender writes                            *)

ASSUME StreamAssumption ==
  /\ BufSize \in Nat /\ MaxPayload \in Nat /\ MaxBytes \in Nat
  /\ Hdr \in Nat \ {0}
  /\ Chunk \in Nat \ {0}
  /\ Hdr + Chunk <= BufSize + 1

VARIABLES
  (* the sender                                                             *)
  payload,     (* frame -> cells of its payload, for the frames begun       *)
  end,         (* where the next frame will begin                           *)
  written,     (* the number of cells written to the socket                 *)
  closed,      (* the sender's end is gone                                  *)
  (* SysByteStream                                                          *)
  buffer,      (* _buffer                                                   *)
  fill,        (* _buffer_offset                                            *)
  unblock,     (* _unblock_sig                                              *)
  mutex,       (* who is about to wait with _mutex held, or "free"          *)
  (* the threads                                                            *)
  recv,        (* SysRecvThread                                             *)
  chunk,       (* rbuffer: cells chunk.at .. chunk.at + chunk.n - 1         *)
  fetch,       (* the thread that calls fetch, until it returns 0           *)
  need,        (* payloadsize, once the header is read                      *)
  stop,        (* the owner's requestUnblock: "no" | "set" | "done"         *)
  missed,      (* history: <<r, t>> when the notify of r's requestUnblock   *)
               (*   ("stop" or "recv") came between test and wait of t      *)
  (* what was fetched                                                       *)
  consumed,    (* the number of cells fetched                               *)
  frame        (* the cells of the last frame                               *)

sender == <<payload, end, written, closed>>
stream == <<buffer, fill, unblock, mutex>>
vars_c == <<sender, stream, recv, chunk, fetch, need, stop, missed, consumed, frame>>

RecvStates  == {"recv", "push", "pushWait", "pushAsleep", "pushed", "leave", "leaving", "done"}
FetchStates == {"header", "headerWait", "headerAsleep",
                "payload", "payloadWait", "payloadAsleep", "fetched", "done"}

NoFrame == [c \in {} |-> 0]

------------------------------------------------------------------------------
StreamInit ==
  /\ payload = NoFrame
  /\ end = 0
  /\ written = 0
  /\ closed = FALSE
  /\ buffer = [c \in 0 .. BufSize - 1 |-> 0]
  /\ fill = 0
  /\ unblock = FALSE
  /\ mutex = "free"
  /\ recv = "recv"
  /\ chunk = [at |-> 0, n |-> 0]
  /\ fetch = "header"
  /\ need = 0
  /\ stop = "no"
  /\ missed = {}
  /\ consumed = 0
  /\ frame = NoFrame

(* SocketSendBytes of a frame; its cells reach the socket as they can.      *)
SendBegins(n) ==
  /\ ~ closed
  /\ written = end
  /\ end + Hdr + n <= MaxBytes
  /\ payload' = [s \in DOMAIN payload \cup {end} |-> IF s = end THEN n ELSE payload[s]]
  /\ end' = end + Hdr + n
  /\ UNCHANGED <<written, closed, stream, recv, chunk, fetch, need, stop, missed, consumed, frame>>

SendWrites ==
  /\ ~ closed
  /\ written < end
  /\ written' = written + 1
  /\ UNCHANGED <<payload, end, closed, stream, recv, chunk, fetch, need, stop, missed, consumed, frame>>

(* The other end closes its socket, or dies in the middle of a frame.       *)
SenderCloses ==
  /\ ~ closed
  /\ closed' = TRUE
  /\ UNCHANGED <<payload, end, written, stream, recv, chunk, fetch, need, stop, missed, consumed, frame>>

------------------------------------------------------------------------------
(* SocketRecvBytes: some cells, a time-out, or the end of the connection.   *)
Received == chunk.at + chunk.n

RecvCells(n) ==
  /\ recv = "recv"
  /\ Received + n <= written
  /\ chunk' = [at |-> Received, n |-> n]
  /\ recv' = "push"
  /\ UNCHANGED <<sender, stream, fetch, need, stop, missed, consumed, frame>>

RecvTimeout ==
  /\ recv = "recv"
  /\ Received = written
  /\ ~ closed
  /\ unblock
  /\ recv' = "leave"
  /\ UNCHANGED <<sender, stream, chunk, fetch, need, stop, missed, consumed, frame>>

(* The end of the connection, or an error that takes with it what was on    *)
(* its way.                                                                *)
RecvDisconnect ==
  /\ recv = "recv"
  /\ closed
  /\ recv' = "leave"
  /\ UNCHANGED <<sender, stream, chunk, fetch, need, stop, missed, consumed, frame>>

Fits == fill + chunk.n <= BufSize

(* push: the wait's test, and then the copy, are made with the mutex held;  *)
(* a test that fails leads to the wait, which releases it.                  *)
Push ==
  /\ recv = "push"
  /\ mutex = "free"
  /\ IF unblock
     THEN recv' = "leave" /\ UNCHANGED stream
     ELSE IF Fits
          THEN /\ recv' = "pushed"
               /\ buffer' = [c \in 0 .. BufSize - 1 |->
                               IF c >= fill /\ c < fill + chunk.n
                               THEN chunk.at + (c - fill) ELSE buffer[c]]
               /\ fill' = fill + chunk.n
               /\ UNCHANGED <<unblock, mutex>>
          ELSE /\ recv' = "pushWait"
               /\ mutex' = "recv"
               /\ UNCHANGED <<buffer, fill, unblock>>
  /\ UNCHANGED <<sender, chunk, fetch, need, stop, missed, consumed, frame>>

PushWaits ==
  /\ recv = "pushWait"
  /\ recv' = "pushAsleep"
  /\ mutex' = "free"
  /\ UNCHANGED <<sender, buffer, fill, unblock, chunk, fetch, need, stop, missed, consumed, frame>>

(* A notify wakes the thread that sleeps, if one does.                     *)
WokenFetch ==
  IF fetch = "headerAsleep" THEN "header"
  ELSE IF fetch = "payloadAsleep" THEN "payload" ELSE fetch
WokenRecv == IF recv = "pushAsleep" THEN "push" ELSE recv

(* The threads that have tested the flag and not begun to wait.            *)
Unready == {t \in {"recv", "fetch"} : IF t = "recv" THEN recv = "pushWait" ELSE fetch = "headerWait"}

(* Fault: push does not notify (FramesFetched).                            *)
PushForgets ==
  /\ recv = "pushed"
  /\ recv' = "recv"
  /\ UNCHANGED <<sender, stream, chunk, fetch, need, stop, missed, consumed, frame>>

PushNotifies ==
  /\ recv = "pushed"
  /\ recv' = "recv"
  /\ fetch' = WokenFetch
  /\ UNCHANGED <<sender, stream, chunk, need, stop, missed, consumed, frame>>

(* The receive thread ends: requestUnblock sets the flag, then notifies.    *)
RecvLeaves ==
  /\ recv = "leave"
  /\ recv' = "leaving"
  /\ unblock' = TRUE
  /\ UNCHANGED <<sender, buffer, fill, mutex, chunk, fetch, need, stop, missed, consumed, frame>>

RecvUnblocks ==
  /\ recv = "leaving"
  /\ recv' = "done"
  /\ fetch' = WokenFetch
  /\ missed' = missed \cup ({"recv"} \X Unready)
  /\ UNCHANGED <<sender, stream, chunk, need, stop, consumed, frame>>

------------------------------------------------------------------------------
(* fetch: the header first.  What it states is the length of the frame that *)
(* begins there, or anything.                                              *)
HeaderStates(n) ==
  IF buffer[0] \in DOMAIN payload THEN n = payload[buffer[0]] ELSE n \in 0 .. MaxBytes

(* Fault: the header is not counted (ImplementsChannel).                   *)
PayloadOnly(n) == n
FrameSize(n) == Hdr + n

FetchHeader(n) ==
  /\ fetch = "header"
  /\ mutex = "free"
  /\ ~ unblock
  /\ fill >= Hdr
  /\ HeaderStates(n)
  /\ fetch' = "payload"
  /\ need' = FrameSize(n)
  /\ mutex' = "fetch"
  /\ UNCHANGED <<sender, buffer, fill, unblock, recv, chunk, stop, missed, consumed, frame>>

(* The flag is looked at here only: fetch returns 0, and its caller leaves. *)
FetchUnblocked ==
  /\ fetch = "header"
  /\ mutex = "free"
  /\ unblock
  /\ fetch' = "done"
  /\ UNCHANGED <<sender, stream, recv, chunk, need, stop, missed, consumed, frame>>

FetchHeaderShort ==
  /\ fetch = "header"
  /\ mutex = "free"
  /\ ~ unblock
  /\ fill < Hdr
  /\ fetch' = "headerWait"
  /\ mutex' = "fetch"
  /\ UNCHANGED <<sender, buffer, fill, unblock, recv, chunk, need, stop, missed, consumed, frame>>

(* Fault: what is left is moved down by the payload alone (StreamInv).     *)
MovedShort(n) ==
  [c \in 0 .. BufSize - 1 |-> IF c < fill - n THEN buffer[c + n - Hdr] ELSE buffer[c]]

(* memmove of what follows the first n cells to the front of the buffer.    *)
Moved(n) ==
  [c \in 0 .. BufSize - 1 |-> IF c < fill - n THEN buffer[c + n] ELSE buffer[c]]

(* The second wait knows nothing of the flag.  The thread still holds the   *)
(* mutex when it comes from the header, and takes it when it is woken.      *)
FetchPayload ==
  /\ fetch = "payload"
  /\ mutex \in {"free", "fetch"}
  /\ need <= fill
  /\ frame' = [c \in 0 .. need - 1 |-> buffer[c]]
  /\ fill' = fill - need
  /\ buffer' = Moved(need)
  /\ consumed' = consumed + need
  /\ fetch' = "fetched"
  /\ mutex' = "free"
  /\ UNCHANGED <<sender, unblock, recv, chunk, need, stop, missed>>

FetchPayloadShort ==
  /\ fetch = "payload"
  /\ mutex \in {"free", "fetch"}
  /\ need > fill
  /\ fetch' = "payloadWait"
  /\ mutex' = "fetch"
  /\ UNCHANGED <<sender, buffer, fill, unblock, recv, chunk, need, stop, missed, consumed, frame>>

FetchWaits ==
  /\ fetch \in {"headerWait", "payloadWait"}
  /\ fetch' = IF fetch = "headerWait" THEN "headerAsleep" ELSE "payloadAsleep"
  /\ mutex' = "free"
  /\ UNCHANGED <<sender, buffer, fill, unblock, recv, chunk, need, stop, missed, consumed, frame>>

(* Fault: fetch does not notify (StandoffOnlyOverLong).                    *)
FetchForgets ==
  /\ fetch = "fetched"
  /\ fetch' = "header"
  /\ UNCHANGED <<sender, stream, recv, chunk, need, stop, missed, consumed, frame>>

(* notify_one, after which the caller handles the frame and fetches again.  *)
FetchNotifies ==
  /\ fetch = "fetched"
  /\ fetch' = "header"
  /\ recv' = WokenRecv
  /\ UNCHANGED <<sender, stream, chunk, need, stop, missed, consumed, frame>>

------------------------------------------------------------------------------
(* requestUnblock by the owner of the stream, in a destructor.             *)
StopSets ==
  /\ stop = "no"
  /\ stop' = "set"
  /\ unblock' = TRUE
  /\ UNCHANGED <<sender, buffer, fill, mutex, recv, chunk, fetch, need, missed, consumed, frame>>

(* Fault: the owner does not notify (ThreadsEnd).                          *)
StopForgets ==
  /\ stop = "set"
  /\ stop' = "done"
  /\ UNCHANGED <<sender, stream, recv, chunk, fetch, need, missed, consumed, frame>>

StopNotifies ==
  /\ stop = "set"
  /\ stop' = "done"
  /\ recv' = WokenRecv
  /\ fetch' = WokenFetch
  /\ missed' = missed \cup ({"stop"} \X Unready)
  /\ UNCHANGED <<sender, stream, chunk, need, consumed, frame>>

------------------------------------------------------------------------------
Sender == (\E n \in 0 .. MaxPayload : SendBegins(n)) \/ SendWrites \/ SenderCloses

RecvThread ==
  \/ \E n \in 1 .. Chunk : RecvCells(n)
  \/ RecvTimeout \/ RecvDisconnect
  \/ Push \/ PushWaits \/ PushNotifies
  \/ RecvLeaves \/ RecvUnblocks

FetchThread ==
  \/ \E n \in 0 .. MaxBytes : FetchHeader(n)
  \/ FetchUnblocked \/ FetchHeaderShort
  \/ FetchPayload \/ FetchPayloadShort \/ FetchWaits
  \/ FetchNotifies

StreamNext == Sender \/ RecvThread \/ FetchThread \/ StopSets \/ StopNotifies

(* Both threads, and a stop that has begun, go on; what the sender does and *)
(* whether the owner stops is left open.                                   *)
StreamFairness == WF_vars_c(RecvThread) /\ WF_vars_c(FetchThread) /\ WF_vars_c(StopNotifies)

StreamSpec == StreamInit /\ [][StreamNext]_vars_c /\ StreamFairness

------------------------------------------------------------------------------
StreamTypeOK ==
  /\ DOMAIN payload \subseteq Nat
  /\ payload \in [DOMAIN payload -> 0 .. MaxPayload]
  /\ end \in Nat /\ written \in Nat /\ closed \in BOOLEAN
  /\ buffer \in [0 .. BufSize - 1 -> Nat]
  /\ fill \in 0 .. BufSize
  /\ unblock \in BOOLEAN /\ mutex \in {"free", "recv", "fetch"}
  /\ recv \in RecvStates /\ fetch \in FetchStates /\ stop \in {"no", "set", "done"}
  /\ chunk \in [at : Nat, n : 0 .. Chunk]
  /\ need \in Nat /\ consumed \in Nat
  /\ missed \subseteq {"stop", "recv"} \X {"recv", "fetch"}

(* A frame begins where the last one ended, and the front of the buffer is  *)
(* the front of a frame: whatever pieces the socket cut the stream into and *)
(* whoever waited for whom, fetch reads headers where there are headers.    *)
Framed ==
  /\ end \notin DOMAIN payload
  /\ \A s \in DOMAIN payload :
       /\ s + Hdr + payload[s] <= end
       /\ s + Hdr + payload[s] \in DOMAIN payload \cup {end}
  /\ consumed \in DOMAIN payload \cup {end}
  /\ written <= end

(* The buffer holds the cells that follow those fetched, in order, and the  *)
(* chunk those that follow the buffer; nothing is lost or there twice.      *)
InOrder ==
  /\ \A c \in 0 .. fill - 1 : buffer[c] = consumed + c
  /\ recv \in {"push", "pushWait", "pushAsleep"} => consumed + fill = chunk.at
  /\ recv \in {"recv", "pushed"} => consumed + fill = Received
  /\ consumed + fill <= Received
  /\ Received <= written

(* Past the header the fetching thread knows the size of its frame.         *)
NeedRight ==
  fetch \in {"payload", "payloadWait", "payloadAsleep"} =>
    consumed \in DOMAIN payload /\ need = Hdr + payload[consumed]

(* Who waits holds the mutex until it sleeps, and what it waits for stays   *)
(* out of its reach until the other has passed its notify.                  *)
WaitsRight ==
  /\ mutex = "recv" <=> recv = "pushWait"
  /\ fetch \in {"headerWait", "payloadWait"} => mutex = "fetch"
  /\ mutex = "fetch" => fetch \in {"headerWait", "payloadWait", "payload"}
  /\ recv = "pushWait" \/ (recv = "pushAsleep" /\ fetch # "fetched")
       => fill + chunk.n > BufSize
  /\ fetch = "headerWait" \/ (fetch = "headerAsleep" /\ recv # "pushed")
       => fill < Hdr
  /\ fetch = "payloadWait" \/ (fetch = "payloadAsleep" /\ recv # "pushed")
       => fill < need

(* The inductive invariant behind StandoffOnlyOverLong, ImplementsChannel.  *)
StreamInv == StreamTypeOK /\ Framed /\ InOrder /\ NeedRight /\ WaitsRight

(* A frame is over-long when the buffer, with all but one cell of it, has   *)
(* no room for a chunk of the largest size.                                 *)
OverLong(s) == Hdr + payload[s] + Chunk > BufSize + 1

(* The receive thread waits for room while the fetching thread waits for    *)
(* cells, each for the other and for ever, only in the middle of a frame    *)
(* that is over-long: short of that, whatever the pieces the stream is cut  *)
(* into and whoever is woken, each wait is for something the other will do. *)
StandoffOnlyOverLong ==
  recv = "pushAsleep" /\ fetch \in {"headerAsleep", "payloadAsleep"} =>
    fetch = "payloadAsleep" /\ consumed \in DOMAIN payload /\ OverLong(consumed)

Channel == INSTANCE FrameChannel WITH over <- fetch = "done"

(* fetch returns the frames that were sent: whole, in order, each once.     *)
ImplementsChannel == Channel!Spec

(* A frame that was sent is fetched, unless the connection ends first or    *)
(* the frame is over-long.                                                  *)
FramesFetched ==
  \A s \in 0 .. MaxBytes :
    (/\ s = consumed /\ s \in DOMAIN payload /\ ~ OverLong(s)
     /\ s + Hdr + payload[s] <= written)
      ~> (consumed > s \/ unblock)

(* Every requestUnblock that is through notified before thread t slept.     *)
NotifiesMissed(t) ==
  /\ stop = "done" => <<"stop", t>> \in missed
  /\ recv = "done" => <<"recv", t>> \in missed

RecvEnded ==
  \/ recv = "done"
  \/ recv = "pushAsleep" /\ NotifiesMissed("recv")

FetchEnded ==
  \/ fetch = "done"
  \/ fetch = "headerAsleep" /\ NotifiesMissed("fetch")
  \/ fetch = "payloadAsleep" /\ fill < need

(* Once unblocked, the two threads end for good, but for two cases: the     *)
(* frame being fetched is never completed, or each notify that was to wake  *)
(* the thread came between the test of its wait and the wait.               *)
ThreadsEnd == unblock ~> [](RecvEnded /\ FetchEnded)
=============================================================================
