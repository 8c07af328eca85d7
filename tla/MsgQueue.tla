------------------------------ MODULE MsgQueue ------------------------------
(***************************************************************************)
(* The message log of the server, network/mxmsg.cpp: RPC threads write      *)
(* messages to a queue in memory, which is flushed to the table "logs" when *)
(* it is longer than MSG_MAX_BACKLOG, when somebody asks for messages, and  *)
(* when the server closes (SysCloseExperiment, mxsystem.cpp:375), which it  *)
(* does while the RPC threads still run.                                    *)
(*                                                                          *)
(* A message is a number.  The mutex of the queue has a holder; a flush is  *)
(* one step for each message it takes and one for each row it writes, and a *)
(* crash may come between any two.                                          *)
(***************************************************************************)
EXTENDS Naturals, Sequences

CONSTANTS
  Writers_q,  (* RPC threads                                                *)
  Closer,     (* the main thread, which closes the server                   *)
  NoOne,      (* the holder of a mutex nobody holds                         *)
  Backlog,    (* MSG_MAX_BACKLOG                                            *)
  MaxWritten, (* bound: messages that are written                           *)
  MaxEnds     (* bound: how often the server closes or crashes              *)

ASSUME QueueAssumption ==
  /\ {Backlog, MaxWritten, MaxEnds} \subseteq Nat
  /\ Closer \notin Writers_q
  /\ NoOne \notin Writers_q \cup {Closer}

VARIABLES
  msg_queue,  (* _msg_queue                                                 *)
  holder_q,   (* who holds _msg_queue_lock                                  *)
  hand_q,     (* the message that is taken from the queue and not written   *)
              (* yet: a sequence of none or one                             *)
  logs_q,     (* the table                                                  *)
  pc_q,       (* thread -> "idle", "emitted" (MsgWrite, before the queue),  *)
              (* "flushes"                                                  *)
  msg_q,      (* the message of each thread's MsgWrite                      *)
  phase_q,    (* the server: "up", "closing", "drained" (after MsgClose),   *)
              (* "down"                                                     *)
  written_q,  (* messages so far                                            *)
  ends_q,     (* closes and crashes so far                                  *)
  kept_q,     (* history: the messages queued, in order, but for those that *)
              (* ended with the server                                      *)
  before_q    (* history: how many of them were queued when MsgClose ended  *)

vars_q == <<msg_queue, holder_q, hand_q, logs_q, pc_q, msg_q, phase_q, written_q, ends_q,
            kept_q, before_q>>

Threads_q == Writers_q \cup {Closer}

------------------------------------------------------------------------------
QueueInit ==
  /\ msg_queue = <<>>
  /\ holder_q = NoOne
  /\ hand_q = <<>>
  /\ logs_q = <<>>
  /\ pc_q = [t \in Threads_q |-> "idle"]
  /\ msg_q = [t \in Threads_q |-> 0]
  /\ phase_q = "up"
  /\ written_q = 0
  /\ ends_q = 0
  /\ kept_q = <<>>
  /\ before_q = 0

(* MsgWrite: the event goes out first, without the mutex; ...                *)
MsgWriteEmits(t) ==
  /\ t \in Writers_q
  /\ phase_q # "down"
  /\ pc_q[t] = "idle"
  /\ written_q < MaxWritten
  /\ written_q' = written_q + 1
  /\ msg_q' = [msg_q EXCEPT ![t] = written_q + 1]
  /\ pc_q' = [pc_q EXCEPT ![t] = "emitted"]
  /\ UNCHANGED <<msg_queue, holder_q, hand_q, logs_q, phase_q, ends_q, kept_q, before_q>>

(* Fault: the length is tested before the message is added (BacklogBounded). *)
TooLongBefore(queue) == Len(queue) > Backlog + 1

(* The queue is longer than its backlog.                                     *)
TooLong(queue) == Len(queue) > Backlog

(* ... then the message is queued, and flushed with the others when they     *)
(* are too many.                                                             *)
MsgWriteQueues(t) ==
  /\ pc_q[t] = "emitted"
  /\ holder_q = NoOne
  /\ msg_queue' = Append(msg_queue, msg_q[t])
  /\ kept_q' = Append(kept_q, msg_q[t])
  /\ IF TooLong(msg_queue')
     THEN holder_q' = t /\ pc_q' = [pc_q EXCEPT ![t] = "flushes"]
     ELSE holder_q' = NoOne /\ pc_q' = [pc_q EXCEPT ![t] = "idle"]
  /\ UNCHANGED <<hand_q, logs_q, msg_q, phase_q, written_q, ends_q, before_q>>

(* MsgGetLastLogs, MsgGetLastClientLogs: flush, then read the table.         *)
MsgGetLastLogs(t) ==
  /\ t \in Writers_q
  /\ phase_q # "down"
  /\ pc_q[t] = "idle"
  /\ holder_q = NoOne
  /\ holder_q' = t
  /\ pc_q' = [pc_q EXCEPT ![t] = "flushes"]
  /\ UNCHANGED <<msg_queue, hand_q, logs_q, msg_q, phase_q, written_q, ends_q, kept_q, before_q>>

(* MsgFlushSQLQueue, by the thread that holds the mutex: it takes the first  *)
(* message ...                                                               *)
FlushTakes(t) ==
  /\ pc_q[t] = "flushes" /\ hand_q = <<>> /\ msg_queue # <<>>
  /\ hand_q' = <<Head(msg_queue)>>
  /\ msg_queue' = Tail(msg_queue)
  /\ UNCHANGED <<holder_q, logs_q, pc_q, msg_q, phase_q, written_q, ends_q, kept_q, before_q>>

(* ... and writes its row; ...                                               *)
FlushWrites(t) ==
  /\ pc_q[t] = "flushes" /\ hand_q # <<>>
  /\ logs_q' = logs_q \o hand_q
  /\ hand_q' = <<>>
  /\ UNCHANGED <<msg_queue, holder_q, pc_q, msg_q, phase_q, written_q, ends_q, kept_q, before_q>>

(* ... when there is none left the thread leaves the mutex.                  *)
FlushEnds(t) ==
  /\ pc_q[t] = "flushes" /\ hand_q = <<>> /\ msg_queue = <<>>
  /\ holder_q' = NoOne
  /\ pc_q' = [pc_q EXCEPT ![t] = "idle"]
  /\ phase_q' = IF t = Closer THEN "drained" ELSE phase_q
  /\ before_q' = IF t = Closer THEN Len(kept_q) ELSE before_q
  /\ UNCHANGED <<msg_queue, hand_q, logs_q, msg_q, written_q, ends_q, kept_q>>

(* MsgClose flushes once more; the RPC threads go on.                        *)
MsgClose ==
  /\ phase_q = "up"
  /\ ends_q < MaxEnds
  /\ holder_q = NoOne
  /\ phase_q' = "closing"
  /\ holder_q' = Closer
  /\ pc_q' = [pc_q EXCEPT ![Closer] = "flushes"]
  /\ UNCHANGED <<msg_queue, hand_q, logs_q, msg_q, written_q, ends_q, kept_q, before_q>>

(* The RPC threads are joined, the process ends and is started again.        *)
CloseEnds ==
  /\ phase_q = "drained"
  /\ \A t \in Threads_q : pc_q[t] = "idle"
  /\ phase_q' = "down"
  /\ ends_q' = ends_q + 1
  /\ UNCHANGED <<msg_queue, holder_q, hand_q, logs_q, pc_q, msg_q, written_q, kept_q, before_q>>

(* The process starts: what was in memory is gone.                           *)
FreshMemory ==
  /\ phase_q' = "up"
  /\ msg_queue' = <<>>
  /\ hand_q' = <<>>
  /\ holder_q' = NoOne
  /\ pc_q' = [t \in Threads_q |-> "idle"]
  /\ msg_q' = [t \in Threads_q |-> 0]
  /\ kept_q' = logs_q
  /\ before_q' = 0
  /\ UNCHANGED <<logs_q, written_q>>

StartAgain == phase_q = "down" /\ FreshMemory /\ UNCHANGED ends_q

CrashQueue ==
  /\ phase_q # "down"
  /\ ends_q < MaxEnds
  /\ ends_q' = ends_q + 1
  /\ FreshMemory

QueueNext ==
  \/ \E t \in Threads_q :
       \/ MsgWriteEmits(t) \/ MsgWriteQueues(t) \/ MsgGetLastLogs(t)
       \/ FlushTakes(t) \/ FlushWrites(t) \/ FlushEnds(t)
  \/ MsgClose \/ CloseEnds \/ StartAgain \/ CrashQueue

QueueSpec == QueueInit /\ [][QueueNext]_vars_q

------------------------------------------------------------------------------
QueueTypeOK ==
  /\ msg_queue \in Seq(Nat)
  /\ logs_q \in Seq(Nat)
  /\ kept_q \in Seq(Nat)
  /\ hand_q \in Seq(Nat)
  /\ holder_q \in Threads_q \cup {NoOne}
  /\ pc_q \in [Threads_q -> {"idle", "emitted", "flushes"}]
  /\ msg_q \in [Threads_q -> Nat]
  /\ phase_q \in {"up", "closing", "drained", "down"}
  /\ written_q \in Nat
  /\ ends_q \in Nat
  /\ before_q \in Nat

(* The mutex is held by the one thread that flushes.                         *)
OneFlushes == \A t \in Threads_q : pc_q[t] = "flushes" <=> holder_q = t

(* No message is lost, doubled or put out of order on its way to the table,  *)
(* whoever flushes and whenever the server crashes: table, hand and queue    *)
(* are what was queued (MsgFlushSQLQueue, mxmsg.cpp:107).                    *)
LoggedInOrder == kept_q = logs_q \o hand_q \o msg_queue

(* A crash loses at most Backlog + 1 messages, and when nobody flushes no    *)
(* more than Backlog are in memory (mxmsg.cpp:150).                          *)
BacklogBounded ==
  /\ Len(hand_q) <= 1
  /\ Len(hand_q) + Len(msg_queue) <= Backlog + 1
  /\ holder_q = NoOne => hand_q = <<>> /\ Len(msg_queue) <= Backlog

(* What was queued when MsgClose ended is in the table from then on; only    *)
(* messages that RPC threads write later can end with the process            *)
(* (mxsystem.cpp:382).                                                       *)
ClosedIsLogged == phase_q \in {"drained", "down"} => Len(logs_q) >= before_q

MessagesSound == QueueTypeOK /\ OneFlushes /\ LoggedInOrder /\ BacklogBounded /\ ClosedIsLogged
=============================================================================
