------------------------- MODULE ServerThreads_proofs -------------------------
(***************************************************************************)
(* Proofs about threads of the server, for any number of them: the flushing  *)
(* of the message log (MsgQueue), the loop of asynchronous jobs (AsyncLoop), *)
(* the threads of the event connections (EvtConn), those that start, stop    *)
(* and reset runs (RunControl), those at the two ends of a bounded buffer    *)
(* (ByteStream), and those that give a file to a page in chunks              *)
(* (FileDownload).  Each section proves that the invariant of its module,    *)
(* which TLC checks as well, is inductive.                                   *)
(***************************************************************************)
EXTENDS RunControl, MsgQueue, AsyncLoop, EvtConn, ByteStream, FileDownload,
        FiniteSetTheorems, SequenceTheorems, WellFoundedInduction, TLAPS

------------------------------------------------------------------------------
(* MsgQueue: one thread flushes at a time; the table, the message in hand and*)
(* the queue together are what was queued, in order; and no more than the   *)
(* backlog and one message are ever in memory.                              *)

(* What is taken from the front of q and put behind l leaves their           *)
(* concatenation as it was.                                                  *)
LEMMA TakingKeepsOrder ==
  ASSUME NEW l \in Seq(Nat), NEW q \in Seq(Nat), q # <<>>
  PROVE  /\ <<Head(q)>> \in Seq(Nat) /\ Tail(q) \in Seq(Nat) /\ Len(Tail(q)) = Len(q) - 1
         /\ l \o <<Head(q)>> \o Tail(q) = l \o <<>> \o q
<1>1. /\ Head(q) \in Nat /\ Tail(q) \in Seq(Nat) /\ Len(Tail(q)) = Len(q) - 1
      /\ \A i \in 1 .. Len(Tail(q)) : Tail(q)[i] = q[i + 1]
  BY HeadTailProperties
<1>2. <<Head(q)>> \in Seq(Nat) /\ Len(<<Head(q)>>) = 1 /\ <<Head(q)>>[1] = Head(q)
  BY <1>1
<1>3. <<Head(q)>> \o Tail(q) = q
  <2> DEFINE a == <<Head(q)>>  b == Tail(q)
  <2>0. a \in Seq(Nat) /\ b \in Seq(Nat)
    BY <1>1, <1>2
  <2>1. /\ <<Head(q)>> \o Tail(q) \in Seq(Nat)
        /\ Len(<<Head(q)>> \o Tail(q)) = 1 + Len(Tail(q))
        /\ \A i \in 1 .. 1 + Len(Tail(q)) :
             (<<Head(q)>> \o Tail(q))[i] = IF i <= 1 THEN <<Head(q)>>[i] ELSE Tail(q)[i - 1]
    <3>1. /\ a \o b \in Seq(Nat) /\ Len(a \o b) = Len(a) + Len(b)
          /\ \A i \in 1 .. Len(a) + Len(b) : (a \o b)[i] = IF i <= Len(a) THEN a[i] ELSE b[i - Len(a)]
      <4> HIDE DEF a, b
      <4> QED
        BY <2>0, ConcatProperties
    <3> QED
      BY <3>1, <1>2
  <2>2. Len(q) \in Nat /\ Len(q) > 0 /\ Head(q) = q[1]
    BY EmptySeq, LenProperties
  <2>3. \A i \in 1 .. Len(q) : (<<Head(q)>> \o Tail(q))[i] = q[i]
    <3> SUFFICES ASSUME NEW i \in 1 .. Len(q) PROVE (<<Head(q)>> \o Tail(q))[i] = q[i]
      OBVIOUS
    <3>1. CASE i = 1
      BY <3>1, <2>1, <2>2, <1>1, <1>2
    <3>2. CASE i # 1
      <4>1. i - 1 \in 1 .. Len(Tail(q)) /\ i \in 1 .. 1 + Len(Tail(q)) /\ ~ (i <= 1)
        BY <3>2, <2>2, <1>1
      <4> QED
        BY <4>1, <2>1, <1>1
    <3> QED
      BY <3>1, <3>2
  <2> QED
    BY <2>1, <2>2, <2>3, <1>1, SeqEqual
<1>4. /\ l \o <<Head(q)>> \o Tail(q) = l \o (<<Head(q)>> \o Tail(q))
      /\ l \o <<>> = l
  <2> DEFINE a == <<Head(q)>>  b == Tail(q)
  <2>1. a \in Seq(Nat) /\ b \in Seq(Nat)
    BY <1>1, <1>2
  <2>2. l \o a \o b = l \o (a \o b) /\ l \o <<>> = l
    <3> HIDE DEF a, b
    <3> QED
      BY SMTT(30), <2>1, ConcatAssociative, ConcatEmptySeq
  <2> QED
    BY <2>2
<1> QED
  BY <1>1, <1>2, <1>3, <1>4

(* In the initial state nothing was queued.                                  *)
LEMMA QueueInitSound == QueueInit => MessagesSound
<1> SUFFICES ASSUME QueueInit PROVE MessagesSound
  OBVIOUS
<1>1. <<>> \in Seq(Nat) /\ Len(<<>>) = 0 /\ <<>> \o <<>> \o <<>> = <<>>
  BY EmptySeq, ConcatEmptySeq
<1>2. QueueTypeOK
  BY <1>1, QueueAssumption DEF QueueInit, QueueTypeOK, Threads_q
<1>3. OneFlushes /\ ClosedIsLogged
  BY QueueAssumption DEF QueueInit, OneFlushes, ClosedIsLogged, Threads_q
<1>4. LoggedInOrder /\ BacklogBounded
  BY <1>1, QueueAssumption DEF QueueInit, LoggedInOrder, BacklogBounded
<1> QED
  BY <1>2, <1>3, <1>4 DEF MessagesSound

(* A message that is queued comes last, and one too many makes its writer    *)
(* flush.                                                                    *)
LEMMA QueuedSound ==
  ASSUME MessagesSound, NEW t \in Threads_q, MsgWriteQueues(t)
  PROVE  MessagesSound'
<1>1. /\ holder_q = NoOne /\ NoOne \notin Threads_q /\ Backlog \in Nat
      /\ hand_q = <<>> /\ Len(msg_queue) <= Backlog /\ \A u \in Threads_q : pc_q[u] # "flushes"
  BY QueueAssumption DEF MsgWriteQueues, MessagesSound, BacklogBounded, OneFlushes, Threads_q
<1>2. /\ msg_queue \in Seq(Nat) /\ logs_q \in Seq(Nat) /\ kept_q \in Seq(Nat) /\ hand_q \in Seq(Nat)
      /\ msg_q[t] \in Nat /\ pc_q \in [Threads_q -> {"idle", "emitted", "flushes"}]
  BY DEF MessagesSound, QueueTypeOK
<1>3. /\ msg_queue' = Append(msg_queue, msg_q[t]) /\ kept_q' = Append(kept_q, msg_q[t])
      /\ UNCHANGED <<hand_q, logs_q, msg_q, phase_q, written_q, ends_q, before_q>>
  BY DEF MsgWriteQueues
<1>4. /\ Append(msg_queue, msg_q[t]) \in Seq(Nat) /\ Append(kept_q, msg_q[t]) \in Seq(Nat)
      /\ Len(Append(msg_queue, msg_q[t])) = Len(msg_queue) + 1
  BY <1>2, AppendProperties
<1>5. \/ /\ Len(msg_queue') > Backlog
         /\ holder_q' = t /\ pc_q' = [pc_q EXCEPT ![t] = "flushes"]
      \/ /\ ~ (Len(msg_queue') > Backlog)
         /\ holder_q' = NoOne /\ pc_q' = [pc_q EXCEPT ![t] = "idle"]
  BY DEF MsgWriteQueues, TooLong
<1>6. QueueTypeOK'
  BY <1>2, <1>3, <1>4, <1>5 DEF MessagesSound, QueueTypeOK
<1>7. OneFlushes'
  BY <1>1, <1>2, <1>5 DEF OneFlushes
<1>8. LoggedInOrder'
  <2>1. kept_q = logs_q \o hand_q \o msg_queue
    BY DEF MessagesSound, LoggedInOrder
  <2>2. <<msg_q[t]>> \in Seq(Nat) /\ logs_q \o hand_q \in Seq(Nat)
    BY <1>2, ConcatProperties
  <2>3. /\ Append(kept_q, msg_q[t]) = kept_q \o <<msg_q[t]>>
        /\ Append(msg_queue, msg_q[t]) = msg_queue \o <<msg_q[t]>>
    BY <1>2, AppendIsConcat
  <2>4. (logs_q \o hand_q \o msg_queue) \o <<msg_q[t]>>
          = logs_q \o hand_q \o (msg_queue \o <<msg_q[t]>>)
    <3> DEFINE front == logs_q \o hand_q  last == <<msg_q[t]>>
    <3>1. front \in Seq(Nat) /\ last \in Seq(Nat) /\ msg_queue \in Seq(Nat)
      BY <1>2, <2>2
    <3>2. (front \o msg_queue) \o last = front \o (msg_queue \o last)
      <4> HIDE DEF front, last
      <4> QED
        BY SMTT(30), <3>1, ConcatAssociative
    <3> QED
      BY <3>2
  <2> QED
    BY <1>3, <2>1, <2>3, <2>4 DEF LoggedInOrder
<1>9. BacklogBounded'
  <2>1. Len(hand_q') = 0 /\ Len(msg_queue') = Len(msg_queue) + 1 /\ Len(msg_queue) \in Nat
    BY <1>1, <1>2, <1>3, <1>4, EmptySeq, LenProperties
  <2>2. t # NoOne
    BY <1>1
  <2> QED
    BY <1>1, <1>3, <1>5, <2>1, <2>2 DEF BacklogBounded
<1>10. ClosedIsLogged'
  BY <1>3 DEF MessagesSound, ClosedIsLogged
<1> QED
  BY <1>6, <1>7, <1>8, <1>9, <1>10 DEF MessagesSound

(* The thread that flushes takes the first message ...                       *)
LEMMA TakenSound ==
  ASSUME MessagesSound, NEW t \in Threads_q, FlushTakes(t)
  PROVE  MessagesSound'
<1>1. /\ msg_queue \in Seq(Nat) /\ logs_q \in Seq(Nat) /\ msg_queue # <<>> /\ hand_q = <<>>
      /\ hand_q' = <<Head(msg_queue)>> /\ msg_queue' = Tail(msg_queue)
      /\ UNCHANGED <<holder_q, logs_q, pc_q, msg_q, phase_q, written_q, ends_q, kept_q, before_q>>
      /\ holder_q = t /\ NoOne \notin Threads_q
  BY QueueAssumption DEF MessagesSound, QueueTypeOK, FlushTakes, OneFlushes, Threads_q
<1>2. /\ hand_q' \in Seq(Nat) /\ msg_queue' \in Seq(Nat) /\ Len(msg_queue') = Len(msg_queue) - 1
      /\ logs_q \o hand_q' \o msg_queue' = logs_q \o <<>> \o msg_queue
  BY <1>1, TakingKeepsOrder
<1>3. QueueTypeOK' /\ OneFlushes'
  BY <1>1, <1>2 DEF MessagesSound, QueueTypeOK, OneFlushes
<1>4. LoggedInOrder'
  BY <1>1, <1>2 DEF MessagesSound, LoggedInOrder
<1>5. BacklogBounded'
  <2>1. Len(hand_q') = 1 /\ Len(hand_q) = 0 /\ Len(msg_queue) \in Nat /\ holder_q' # NoOne
    BY <1>1, LenProperties
  <2> QED
    BY <1>2, <2>1, QueueAssumption DEF MessagesSound, BacklogBounded
<1>6. ClosedIsLogged'
  BY <1>1 DEF MessagesSound, ClosedIsLogged
<1> QED
  BY <1>3, <1>4, <1>5, <1>6 DEF MessagesSound

(* ... and writes it behind the others.                                      *)
LEMMA WrittenSound ==
  ASSUME MessagesSound, NEW t \in Threads_q, FlushWrites(t)
  PROVE  MessagesSound'
<1>1. /\ msg_queue \in Seq(Nat) /\ logs_q \in Seq(Nat) /\ hand_q \in Seq(Nat)
      /\ logs_q' = logs_q \o hand_q /\ hand_q' = <<>>
      /\ UNCHANGED <<msg_queue, holder_q, pc_q, msg_q, phase_q, written_q, ends_q, kept_q, before_q>>
      /\ holder_q = t /\ NoOne \notin Threads_q
  BY QueueAssumption DEF MessagesSound, QueueTypeOK, FlushWrites, OneFlushes, Threads_q
<1>2. /\ logs_q' \in Seq(Nat) /\ Len(logs_q') = Len(logs_q) + Len(hand_q)
      /\ logs_q' \o <<>> = logs_q' /\ Len(hand_q') = 0
      /\ Len(hand_q) \in Nat /\ Len(msg_queue) \in Nat /\ Len(logs_q) \in Nat
  BY <1>1, ConcatProperties, ConcatEmptySeq, EmptySeq, LenProperties
<1>3. QueueTypeOK' /\ OneFlushes'
  BY <1>1, <1>2, EmptySeq DEF MessagesSound, QueueTypeOK, OneFlushes
<1>4. LoggedInOrder'
  BY <1>1, <1>2 DEF MessagesSound, LoggedInOrder
<1>5. BacklogBounded'
  BY <1>1, <1>2, QueueAssumption DEF MessagesSound, BacklogBounded
<1>6. ClosedIsLogged'
  BY <1>1, <1>2 DEF MessagesSound, ClosedIsLogged, QueueTypeOK
<1> QED
  BY <1>3, <1>4, <1>5, <1>6 DEF MessagesSound

(* When the queue is empty all of it is in the table, also what MsgClose     *)
(* found.                                                                    *)
LEMMA FlushedSound ==
  ASSUME MessagesSound, NEW t \in Threads_q, FlushEnds(t)
  PROVE  MessagesSound'
<1>1. /\ hand_q = <<>> /\ msg_queue = <<>> /\ holder_q' = NoOne /\ holder_q = t
      /\ pc_q' = [pc_q EXCEPT ![t] = "idle"]
      /\ pc_q \in [Threads_q -> {"idle", "emitted", "flushes"}]
      /\ logs_q \in Seq(Nat) /\ kept_q \in Seq(Nat)
      /\ NoOne \notin Threads_q /\ Backlog \in Nat
      /\ UNCHANGED <<msg_queue, hand_q, logs_q, msg_q, written_q, ends_q, kept_q>>
  BY QueueAssumption DEF MessagesSound, QueueTypeOK, FlushEnds, OneFlushes, Threads_q
<1>2. /\ phase_q' = IF t = Closer THEN "drained" ELSE phase_q
      /\ before_q' = IF t = Closer THEN Len(kept_q) ELSE before_q
  BY DEF FlushEnds
<1>3. kept_q = logs_q /\ Len(kept_q) \in Nat /\ Len(<<>>) = 0
  BY <1>1, ConcatEmptySeq, LenProperties, EmptySeq DEF MessagesSound, LoggedInOrder
<1>4. QueueTypeOK'
  BY <1>1, <1>2, <1>3 DEF MessagesSound, QueueTypeOK
<1>5. OneFlushes'
  BY <1>1 DEF MessagesSound, OneFlushes
<1>6. LoggedInOrder' /\ BacklogBounded'
  BY <1>1, <1>3 DEF MessagesSound, LoggedInOrder, BacklogBounded
<1>7. ClosedIsLogged'
  BY <1>1, <1>2, <1>3 DEF MessagesSound, ClosedIsLogged
<1> QED
  BY <1>4, <1>5, <1>6, <1>7 DEF MessagesSound

(* A thread that takes the mutex to flush finds nobody else at it.           *)
LEMMA FlushBegunSound ==
  ASSUME MessagesSound, NEW t \in Threads_q,
         holder_q = NoOne, holder_q' = t, pc_q' = [pc_q EXCEPT ![t] = "flushes"],
         phase_q' \in {phase_q, "closing"},
         UNCHANGED <<msg_queue, hand_q, logs_q, msg_q, written_q, ends_q, kept_q, before_q>>
  PROVE  MessagesSound'
<1>1. /\ pc_q \in [Threads_q -> {"idle", "emitted", "flushes"}]
      /\ NoOne \notin Threads_q
      /\ \A u \in Threads_q : pc_q[u] # "flushes"
  BY QueueAssumption DEF MessagesSound, QueueTypeOK, OneFlushes, Threads_q
<1>2. QueueTypeOK'
  BY <1>1 DEF MessagesSound, QueueTypeOK
<1>3. OneFlushes'
  BY <1>1 DEF OneFlushes
<1>4. LoggedInOrder' /\ BacklogBounded' /\ ClosedIsLogged'
  BY <1>1 DEF MessagesSound, LoggedInOrder, BacklogBounded, ClosedIsLogged
<1> QED
  BY <1>2, <1>3, <1>4 DEF MessagesSound

(* A process that starts has nothing in memory.                              *)
LEMMA FreshSound ==
  ASSUME MessagesSound, FreshMemory, ends_q' \in Nat
  PROVE  MessagesSound'
<1>1. /\ logs_q \in Seq(Nat) /\ written_q \in Nat /\ NoOne \notin Threads_q /\ Backlog \in Nat
  BY QueueAssumption DEF MessagesSound, QueueTypeOK, Threads_q
<1>2. <<>> \in Seq(Nat) /\ Len(<<>>) = 0 /\ logs_q \o <<>> = logs_q
  BY <1>1, EmptySeq, ConcatEmptySeq
<1>3. QueueTypeOK'
  BY <1>1, <1>2 DEF FreshMemory, QueueTypeOK
<1>4. OneFlushes' /\ ClosedIsLogged'
  BY <1>1 DEF FreshMemory, OneFlushes, ClosedIsLogged
<1>5. LoggedInOrder' /\ BacklogBounded'
  BY <1>1, <1>2 DEF FreshMemory, LoggedInOrder, BacklogBounded
<1> QED
  BY <1>3, <1>4, <1>5 DEF MessagesSound

(* Every step keeps the invariant.                                           *)
LEMMA QueueNextSound == MessagesSound /\ [QueueNext]_vars_q => MessagesSound'
<1> SUFFICES ASSUME MessagesSound, [QueueNext]_vars_q PROVE MessagesSound'
  OBVIOUS
<1>1. ASSUME NEW t \in Threads_q, MsgWriteEmits(t) PROVE MessagesSound'
  <2>1. /\ msg_q' = [msg_q EXCEPT ![t] = written_q + 1] /\ written_q' = written_q + 1
        /\ pc_q' = [pc_q EXCEPT ![t] = "emitted"] /\ pc_q[t] = "idle"
        /\ UNCHANGED <<msg_queue, holder_q, hand_q, logs_q, phase_q, ends_q, kept_q, before_q>>
    BY <1>1 DEF MsgWriteEmits
  <2>2. QueueTypeOK'
    BY <2>1 DEF MessagesSound, QueueTypeOK
  <2>3. OneFlushes'
    BY <2>1 DEF MessagesSound, OneFlushes, QueueTypeOK
  <2>4. LoggedInOrder' /\ BacklogBounded' /\ ClosedIsLogged'
    BY <2>1 DEF MessagesSound, LoggedInOrder, BacklogBounded, ClosedIsLogged
  <2> QED
    BY <2>2, <2>3, <2>4 DEF MessagesSound
<1>2. ASSUME NEW t \in Threads_q, MsgGetLastLogs(t) PROVE MessagesSound'
  BY <1>2, FlushBegunSound DEF MsgGetLastLogs
<1>3. CASE MsgClose
  <2>1. Closer \in Threads_q
    BY DEF Threads_q
  <2> QED
    BY <1>3, <2>1, FlushBegunSound DEF MsgClose
<1>4. CASE CloseEnds
  <2>1. /\ phase_q = "drained" /\ phase_q' = "down" /\ ends_q' = ends_q + 1
        /\ UNCHANGED <<msg_queue, holder_q, hand_q, logs_q, pc_q, msg_q, written_q, kept_q, before_q>>
    BY <1>4 DEF CloseEnds
  <2> QED
    BY <2>1 DEF MessagesSound, QueueTypeOK, OneFlushes, LoggedInOrder, BacklogBounded,
       ClosedIsLogged
<1>5. CASE StartAgain \/ CrashQueue
  <2>1. FreshMemory /\ ends_q' \in Nat
    BY <1>5 DEF StartAgain, CrashQueue, MessagesSound, QueueTypeOK
  <2> QED
    BY <2>1, FreshSound
<1>6. CASE UNCHANGED vars_q
  BY <1>6 DEF vars_q, MessagesSound, QueueTypeOK, OneFlushes, LoggedInOrder, BacklogBounded,
     ClosedIsLogged
<1> QED
  BY <1>1, <1>2, <1>3, <1>4, <1>5, <1>6, QueuedSound, TakenSound, WrittenSound, FlushedSound
  DEF QueueNext

(* Whoever writes, reads, closes or crashes, and however they interleave:    *)
(* messages reach the table once and in order, a crash loses at most the     *)
(* backlog and one, and what was queued when MsgClose ended is in the table  *)
(* (MsgWrite, MsgFlushSQLQueue, MsgClose).                                   *)
THEOREM MessagesInvariant == QueueSpec => []MessagesSound
BY QueueInitSound, QueueNextSound, PTL DEF QueueSpec

(* In particular no more messages than that are ever at stake.               *)
THEOREM BacklogStaysBounded == QueueSpec => []BacklogBounded
<1>1. MessagesSound => BacklogBounded
  BY DEF MessagesSound
<1> QED
  BY <1>1, MessagesInvariant, PTL

------------------------------------------------------------------------------
(* AsyncLoop: while the thread sleeps it is to wake up by the time of the   *)
(* earliest job (NeverOversleeps), so every job put in front of that one must*)
(* notify it; and the recurring job is somewhere (KeptRecurs, KeptNeverDone).*)

(* The loop starts with an empty queue.                                     *)
LEMMA LoopInitSound == LoopInit => AsyncLoopSound
<1> SUFFICES ASSUME LoopInit PROVE AsyncLoopSound
  OBVIOUS
<1>1. LoopTypeOK
  <2>1. /\ queue_l \subseteq Tasks /\ task_l \in Tasks \cup {NoTask}
        /\ loop_l = "runs" <=> task_l # NoTask
    BY DEF LoopInit
  <2>2. made_l \in 0 .. MaxTasks /\ wake_l \in Int
    BY LoopAssumption DEF LoopInit
  <2>3. QED
    BY <2>1, <2>2 DEF LoopInit, LoopTypeOK
<1>2. NeverOversleeps /\ KeptRecurs /\ KeptNeverDone
  BY DEF LoopInit, NeverOversleeps, KeptRecurs, KeptNeverDone
<1>3. QED
  BY <1>1, <1>2 DEF AsyncLoopSound

(* A task has a number, which NoTask lacks, a time and an interval.         *)
LEMMA TaskFacts ==
  /\ \A t \in Tasks : t.id \in 1 .. MaxTasks /\ t.at \in Int /\ t.every \in Int /\ t # NoTask
  /\ NoTask.at = 0 /\ NoTask.every = 0
<1>1. NoTask.id = 0 /\ NoTask.at = 0 /\ NoTask.every = 0
  BY DEF NoTask
<1>2. ASSUME NEW t \in Tasks
      PROVE  t.id \in 1 .. MaxTasks /\ t.at \in Int /\ t.every \in Int
  BY LoopAssumption DEF Tasks
<1>3. \A t \in Tasks : t.id # NoTask.id
  BY <1>1, <1>2, LoopAssumption
<1>4. QED
  BY <1>1, <1>2, <1>3

(* A job that is scheduled, or rescheduled when it returns, is a task; ticks*)
(* move all times, that of waking up included, by one.                      *)
LEMMA LoopStepSound == AsyncLoopSound /\ [LoopNext]_vars_l => AsyncLoopSound'
<1> SUFFICES ASSUME AsyncLoopSound, [LoopNext]_vars_l PROVE AsyncLoopSound'
  OBVIOUS
<1> USE LoopAssumption, TaskFacts
<1> USE DEF AsyncLoopSound, LoopTypeOK, NeverOversleeps, KeptRecurs, KeptNeverDone, Notified
<1>1. ASSUME NEW delay \in Delays, NEW interval \in Intervals, Schedule(delay, interval)
      PROVE  AsyncLoopSound'
  <2> DEFINE new == [id |-> made_l + 1, at |-> delay, every |-> interval]
  <2>1. new \in Tasks /\ made_l' \in 0 .. MaxTasks /\ new.every = interval
    BY <1>1 DEF Schedule, Tasks
  <2> HIDE DEF new
  <2>2. queue_l' = queue_l \cup {new}
    BY <1>1 DEF Schedule, new
  <2>3. LoopTypeOK'
    BY <1>1, <2>1, <2>2 DEF Schedule
  <2>4. NeverOversleeps' /\ KeptRecurs' /\ KeptNeverDone'
    BY <1>1, <2>1, <2>2 DEF Schedule
  <2>5. QED
    BY <2>3, <2>4
<1>2. CASE LoopWaits
  BY <1>2 DEF LoopWaits
<1>3. CASE LoopEnds
  BY <1>3 DEF LoopEnds
<1>4. CASE LoopTakes
  BY <1>4 DEF LoopTakes, Earliest
<1>5. CASE LoopSleeps
  BY <1>5 DEF LoopSleeps, Earliest
<1>6. CASE LoopWakes
  BY <1>6 DEF LoopWakes
<1>7. CASE LoopWakesSpuriously
  BY <1>7 DEF LoopWakesSpuriously
<1>8. CASE JobReturns
  <2>1. task_l \in Tasks
    BY <1>8 DEF JobReturns
  <2>2. /\ Rescheduled \subseteq Tasks
        /\ task_l.every > 0 => \E t \in Rescheduled : t.every > 0
    <3> DEFINE next == [task_l EXCEPT !.at = @ + task_l.every]
    <3>1. next \in Tasks /\ next.every = task_l.every
      BY <2>1 DEF Tasks
    <3>2. Rescheduled = IF task_l.every > 0 THEN {next} ELSE {}
      BY DEF Rescheduled
    <3> HIDE DEF next
    <3>3. QED
      BY <3>1, <3>2
  <2>3. QED
    BY <1>8, <2>2 DEF JobReturns
<1>9. CASE DestructorClears
  BY <1>9 DEF DestructorClears
<1>10. CASE DestructorNotifies
  BY <1>10 DEF DestructorNotifies
<1>11. CASE Tick
  <2>1. \A t \in Tasks : Ticked(t) \in Tasks /\ Ticked(t).every = t.every /\ Ticked(t).at = t.at - 1
    BY DEF Ticked, Tasks
  <2>2. LoopTypeOK'
    BY <1>11, <2>1 DEF Tick
  <2>3. NeverOversleeps'
    BY <1>11, <2>1 DEF Tick
  <2>4. KeptRecurs' /\ KeptNeverDone'
    BY <1>11, <2>1 DEF Tick
  <2>5. QED
    BY <2>2, <2>3, <2>4
<1>12. CASE UNCHANGED vars_l
  BY <1>12 DEF vars_l
<1>13. QED
  BY <1>1, <1>2, <1>3, <1>4, <1>5, <1>6, <1>7, <1>8, <1>9, <1>10, <1>11, <1>12
     DEF LoopNext, LoopThread

(* The thread of SysAsyncEventLoop never sleeps longer than until its       *)
(* earliest job is due, and a recurring job stays: in the queue, in the     *)
(* thread's hands or in the queue again, until the destructor clears it     *)
(* (mxsystem.cpp:846, 901).                                                 *)
THEOREM LoopNeverOversleeps == LoopSpec => []AsyncLoopSound
<1>1. QED
  BY LoopInitSound, LoopStepSound, PTL DEF LoopSpec

------------------------------------------------------------------------------
(* EvtConn: what a thread of a connection may be doing follows from whether *)
(* it is registered and from how far the destructor is.                     *)

(* Before anybody has connected no thread runs.                             *)
LEMMA ConnInitSound == Init => ConnectionsSound
<1> SUFFICES ASSUME Init PROVE ConnectionsSound
  OBVIOUS
<1>1. /\ peer \in [Conns -> {"absent", "open", "closed"}]
      /\ listen \in [Conns -> ListenStates] /\ emit \in [Conns -> EmitStates]
  BY DEF Init, ListenStates, EmitStates
<1>2. pending \in [Conns -> 0 .. MaxPending]
  BY ConnAssumption DEF Init
<1>3. TypeOK
  BY <1>1, <1>2 DEF Init, TypeOK
<1>4. Registered /\ StopsInOrder /\ NoThreadOutlivesServer
  BY DEF Init, Registered, StopsInOrder, NoThreadOutlivesServer
<1>5. QED
  BY <1>3, <1>4 DEF ConnectionsSound

(* Each step moves one thread along: it leaves its connection registered and*)
(* the order of the destructor as they were, or goes on to their next stage.*)
LEMMA ConnStepSound == ConnectionsSound /\ [Next]_vars => ConnectionsSound'
<1> SUFFICES ASSUME ConnectionsSound, [Next]_vars PROVE ConnectionsSound'
  OBVIOUS
<1> USE DEF ConnectionsSound, TypeOK, Registered, StopsInOrder, NoThreadOutlivesServer,
            ListenStates, EmitStates
<1>1. ASSUME AcceptCheck PROVE ConnectionsSound'
  BY <1>1, ConnAssumption DEF AcceptCheck
<1>2. ASSUME AcceptNothing PROVE ConnectionsSound'
  BY <1>2, ConnAssumption DEF AcceptNothing
<1>3. ASSUME NEW c \in Conns, Accept(c) PROVE ConnectionsSound'
  BY <1>3, ConnAssumption DEF Accept
<1>4. ASSUME NEW c \in Conns, PeerCloses(c) PROVE ConnectionsSound'
  BY <1>4, ConnAssumption DEF PeerCloses
<1>5. ASSUME NEW c \in Conns, ListenPopulates(c) PROVE ConnectionsSound'
  BY <1>5, ConnAssumption DEF ListenPopulates
<1>6. ASSUME NEW c \in Conns, ListenNotifies(c) PROVE ConnectionsSound'
  BY <1>6, ConnAssumption DEF ListenNotifies
<1>7. ASSUME NEW c \in Conns, ListenChecks(c) PROVE ConnectionsSound'
  BY <1>7, ConnAssumption DEF ListenChecks
<1>8. ASSUME NEW c \in Conns, ListenMetadata(c) PROVE ConnectionsSound'
  BY <1>8, ConnAssumption DEF ListenMetadata
<1>9. ASSUME NEW c \in Conns, ListenRelays(c) PROVE ConnectionsSound'
  BY <1>9, ConnAssumption DEF ListenRelays
<1>10. ASSUME NEW c \in Conns, ListenDisconnects(c) PROVE ConnectionsSound'
  BY <1>10, ConnAssumption DEF ListenDisconnects
<1>11. ASSUME NEW c \in Conns, ListenLeaves(c) PROVE ConnectionsSound'
  BY <1>11, ConnAssumption DEF ListenLeaves
<1>12. ASSUME NEW c \in Conns, ListenUnblocks(c) PROVE ConnectionsSound'
  BY <1>12, ConnAssumption DEF ListenUnblocks
<1>13. ASSUME NEW c \in Conns, EmitWaits(c) PROVE ConnectionsSound'
  BY <1>13, ConnAssumption DEF EmitWaits
<1>14. ASSUME NEW c \in Conns, EmitWakesSpuriously(c) PROVE ConnectionsSound'
  BY <1>14, ConnAssumption DEF EmitWakesSpuriously
<1>15. ASSUME NEW c \in Conns, EmitChecks(c) PROVE ConnectionsSound'
  BY <1>15, ConnAssumption DEF EmitChecks
<1>16. ASSUME NEW c \in Conns, EmitPops(c) PROVE ConnectionsSound'
  BY <1>16, ConnAssumption DEF EmitPops
<1>17. ASSUME NEW c \in Conns, EmitSends(c) PROVE ConnectionsSound'
  BY <1>17, ConnAssumption DEF EmitSends
<1>18. ASSUME Stop PROVE ConnectionsSound'
  BY <1>18, ConnAssumption DEF Stop
<1>19. ASSUME StopJoinsAccept PROVE ConnectionsSound'
  BY <1>19, ConnAssumption DEF StopJoinsAccept
<1>20. ASSUME StopUnblocks PROVE ConnectionsSound'
  BY <1>20, ConnAssumption DEF StopUnblocks
<1>21. ASSUME StopJoins PROVE ConnectionsSound'
  BY <1>21, ConnAssumption DEF StopJoins
<1>22. ASSUME UNCHANGED vars PROVE ConnectionsSound'
  BY <1>22 DEF vars
<1> HIDE DEF ConnectionsSound
<1>23. QED
  BY <1>1, <1>2, <1>3, <1>4, <1>5, <1>6, <1>7, <1>8, <1>9, <1>10, <1>11, <1>12, <1>13,
     <1>14, <1>15, <1>16, <1>17, <1>18, <1>19, <1>20, <1>21, <1>22
     DEF Next, AcceptThread, ListenThread, EmitThread, Destructor

(* No thread of a connection is there once ~EvtServerThread has returned: a *)
(* connection is registered as long as one of its threads runs, and the     *)
(* destructor joins the accept thread, after which nobody registers any, then*)
(* the threads of every connection (mxevt.cpp:275-310).                     *)
THEOREM NoConnectionOutlivesServer == Spec => []ConnectionsSound
<1>1. Init => ConnectionsSound
  BY ConnInitSound
<1>2. ConnectionsSound /\ [Next]_vars => ConnectionsSound'
  BY ConnStepSound
<1>3. QED
  BY <1>1, <1>2, PTL DEF Spec
------------------------------------------------------------------------------
(* RunControl.  The invariant counts: each open row but that of the run that *)
(* is RUNNING is paid for by a crash or by a call that began before another  *)
(* ended.  A call that is counted may still add a row, so the calls that can *)
(* (MayAdd) are counted with the rows; a step from one to the other leaves   *)
(* the sum as it is.  One lemma for each action, with one step for each part *)
(* of the invariant.                                                         *)

(* The inductive invariant: RunsSound without StatusMatchesLog, which       *)
(* follows from it.                                                         *)
RunInv ==
  /\ RunsTypeOK
  /\ CallsPlaced
  /\ RowsPaidFor
  /\ ClosePaidFor
  /\ StartPaidFor
  /\ OneByOne
  /\ RowsNumbered

------------------------------------------------------------------------------
(* Counting: one element more, one less; the sets of threads and the rows   *)
(* are finite.                                                              *)
LEMMA OneMore ==
  ASSUME NEW S, IsFiniteSet(S), NEW x
  PROVE  /\ Cardinality(S) \in Nat /\ Cardinality(S \cup {x}) \in Nat
         /\ Cardinality(S \cup {x}) = IF x \in S THEN Cardinality(S) ELSE Cardinality(S) + 1
<1>1. Cardinality(S) \in Nat
  BY FS_CardinalityType
<1>2. x \in S => S \cup {x} = S
  OBVIOUS
<1>3. QED
  BY <1>1, <1>2, FS_AddElement

LEMMA OneLess ==
  ASSUME NEW S, IsFiniteSet(S), NEW x
  PROVE  /\ Cardinality(S) \in Nat /\ Cardinality(S \ {x}) \in Nat
         /\ Cardinality(S \ {x}) = IF x \in S THEN Cardinality(S) - 1 ELSE Cardinality(S)
<1>1. Cardinality(S) \in Nat
  BY FS_CardinalityType
<1>2. Cardinality(S \ {x}) \in Nat
  BY FS_CardinalityType, FS_RemoveElement
<1>3. x \notin S => S \ {x} = S
  OBVIOUS
<1>4. QED
  BY <1>1, <1>2, <1>3, FS_RemoveElement

LEMMA FiniteThreads == \A S \in SUBSET RunThreads : IsFiniteSet(S) /\ Cardinality(S) \in Nat
<1>1. IsFiniteSet(RunThreads)
  BY RunAssumption, FS_AddElement DEF RunThreads
<1>2. QED
  BY <1>1, FS_Subset, FS_CardinalityType

LEMMA FiniteRows ==
  ASSUME NEW n \in Nat, NEW S \in SUBSET (1 .. n)
  PROVE  IsFiniteSet(S) /\ Cardinality(S) \in Nat
<1>1. IsFiniteSet(1 .. n)
  BY FS_Interval
<1>2. QED
  BY <1>1, FS_Subset, FS_CardinalityType

LEMMA RowsFinite ==
  /\ RunsTypeOK => IsFiniteSet(Open) /\ Cardinality(Open) \in Nat
  /\ RunsTypeOK' => IsFiniteSet(Open') /\ Cardinality(Open') \in Nat
<1>1. MaxRun \in Nat
  BY RunAssumption
<1>2. RunsTypeOK => Open \in SUBSET (1 .. MaxRun)
  BY DEF RunsTypeOK, Open
<1>3. RunsTypeOK' => Open' \in SUBSET (1 .. MaxRun)
  BY DEF RunsTypeOK, Open
<1>4. QED
  BY <1>1, <1>2, <1>3, FiniteRows

(* A thread goes on: what becomes of the calls under way and of those that  *)
(* can still add a row.                                                     *)
LEMMA MoveCounts ==
  ASSUME RunsTypeOK, NEW t \in RunThreads, NEW s \in Steps, Goto(t, s)
  PROVE  /\ pc'[t] = s /\ \A u \in RunThreads \ {t} : pc'[u] = pc[u]
         /\ pc' \in [RunThreads -> Steps]
         /\ InCall' = IF s = "idle" THEN InCall \ {t} ELSE InCall \cup {t}
         /\ {Cardinality(InCall), Cardinality(InCall'), Cardinality(MayAdd), Cardinality(MayAdd')}
              \subseteq Nat
         /\ Cardinality(InCall') =
              IF s = "idle" THEN IF pc[t] = "idle" THEN Cardinality(InCall) ELSE Cardinality(InCall) - 1
              ELSE IF pc[t] = "idle" THEN Cardinality(InCall) + 1 ELSE Cardinality(InCall)
         /\ Cardinality(MayAdd') =
              IF s \in {"idle", "start_status"}
              THEN IF pc[t] \in {"idle", "start_status"} THEN Cardinality(MayAdd)
                   ELSE Cardinality(MayAdd) - 1
              ELSE IF pc[t] \in {"idle", "start_status"} THEN Cardinality(MayAdd) + 1
                   ELSE Cardinality(MayAdd)
<1>1. /\ pc'[t] = s /\ \A u \in RunThreads \ {t} : pc'[u] = pc[u]
      /\ pc' \in [RunThreads -> Steps]
  BY DEF Goto, RunsTypeOK
<1>2. /\ InCall \in SUBSET RunThreads /\ MayAdd \in SUBSET RunThreads
      /\ InCall' \in SUBSET RunThreads /\ MayAdd' \in SUBSET RunThreads
  BY DEF InCall, MayAdd
<1>3. /\ IsFiniteSet(InCall) /\ IsFiniteSet(MayAdd)
      /\ {Cardinality(InCall), Cardinality(InCall'), Cardinality(MayAdd), Cardinality(MayAdd')} \subseteq Nat
  BY <1>2, FiniteThreads
<1>4. InCall' = IF s = "idle" THEN InCall \ {t} ELSE InCall \cup {t}
  BY <1>1 DEF InCall
<1>5. MayAdd' = IF s \in {"idle", "start_status"} THEN MayAdd \ {t} ELSE MayAdd \cup {t}
  BY <1>1 DEF MayAdd
<1>6. t \in InCall <=> pc[t] # "idle"
  BY DEF InCall
<1>7. t \in MayAdd <=> pc[t] \notin {"idle", "start_status"}
  BY DEF MayAdd
<1>8. QED
  BY <1>1, <1>3, <1>4, <1>5, <1>6, <1>7, OneMore, OneLess

------------------------------------------------------------------------------
(* RunStart: each of its steps preserves the invariant.                     *)
LEMMA StartChecksInv ==
  ASSUME RunInv, NEW t \in RunThreads, StartChecks(t)
  PROVE  RunInv'
<1> USE RunAssumption DEF RunInv, StartChecks
<1>1. /\ pc[t] = "start"
      /\ \/ status = "STOPPED" /\ Goto(t, "start_number")
         \/ status # "STOPPED" /\ Goto(t, "idle")
  OBVIOUS
<1>2. /\ \A u \in RunThreads \ {t} : pc'[u] = pc[u]
      /\ pc' \in [RunThreads -> Steps]
      /\ {Cardinality(InCall), Cardinality(InCall'), Cardinality(MayAdd), Cardinality(MayAdd')} \subseteq Nat
      /\ \/ /\ status = "STOPPED" /\ pc'[t] = "start_number" /\ InCall' = InCall \cup {t}
            /\ Cardinality(InCall') = Cardinality(InCall) /\ Cardinality(MayAdd') = Cardinality(MayAdd)
         \/ /\ status # "STOPPED" /\ pc'[t] = "idle" /\ InCall' = InCall \ {t}
            /\ Cardinality(InCall') = Cardinality(InCall) - 1
            /\ Cardinality(MayAdd') = Cardinality(MayAdd) - 1
  BY <1>1, MoveCounts DEF Steps
<1>3. RunsTypeOK'
  BY <1>2 DEF RunsTypeOK
<1>4. Open' = Open /\ Cardinality(Open) \in Nat
  BY RowsFinite DEF Open
<1>5. /\ t \in InCall /\ phase # "down" /\ phase' = phase /\ Main \in RunThreads
      /\ t = Main => phase = "closing" /\ pc[t] \in {"stop", "stop_number", "stop_log", "stop_status"}
  BY <1>1 DEF InCall, RunThreads, CallsPlaced
<1>6. CallsPlaced'
  <2>1. Cardinality(InCall') <= overlaps' + 1
    BY <1>2 DEF CallsPlaced, RunsTypeOK
  <2>2. \A u \in RunThreads : pc'[u] \in {"start_write", "start_log"} => runno'[u] > 0
    BY <1>1, <1>2 DEF CallsPlaced, RunsTypeOK
  <2>3. /\ phase' # "closing" => pc'[Main] = "idle"
        /\ pc'[Main] \in {"idle", "stop", "stop_number", "stop_log", "stop_status"}
    BY <1>1, <1>2, <1>5 DEF CallsPlaced
  <2>4. QED
    BY <1>5, <2>1, <2>2, <2>3 DEF CallsPlaced
<1>7. RowsPaidFor'
  BY <1>2, <1>4 DEF RunsTypeOK, RowsPaidFor, PaidFor, RowOwned, Settled
<1>8. ClosePaidFor'
  BY <1>2, <1>4, <1>5 DEF RunsTypeOK, ClosePaidFor, PaidFor
<1>9. StartPaidFor'
  BY <1>2, <1>4 DEF RunsTypeOK, StartPaidFor, PaidFor
<1>10. OneByOne'
  BY <1>2, <1>4 DEF OneByOne, InCall
<1>11. RowsNumbered'
  BY <1>2 DEF RowsNumbered
<1>12. QED
  BY <1>3, <1>6, <1>7, <1>8, <1>9, <1>10, <1>11

LEMMA StartReadsNumberInv ==
  ASSUME RunInv, NEW t \in RunThreads, StartReadsNumber(t)
  PROVE  RunInv'
<1> USE RunAssumption DEF RunInv, StartReadsNumber
<1>1. Goto(t, "start_write") /\ pc[t] = "start_number"
  OBVIOUS
<1>2. /\ pc'[t] = "start_write" /\ \A u \in RunThreads \ {t} : pc'[u] = pc[u]
      /\ pc' \in [RunThreads -> Steps]
      /\ InCall' = InCall \cup {t}
      /\ {Cardinality(InCall), Cardinality(InCall'), Cardinality(MayAdd), Cardinality(MayAdd')} \subseteq Nat
      /\ Cardinality(InCall') = Cardinality(InCall)
      /\ Cardinality(MayAdd') = Cardinality(MayAdd)
  BY <1>1, MoveCounts DEF Steps
<1>3. RunsTypeOK'
  <2>1. runno' \in [RunThreads -> 0 .. MaxRun]
    BY <1>1 DEF RunsTypeOK
  <2>2. QED
    BY <1>1, <1>2, <2>1 DEF RunsTypeOK
<1>4. Open' = Open /\ Cardinality(Open) \in Nat
  BY RowsFinite DEF Open
<1>5. /\ t \in InCall /\ phase # "down" /\ phase' = phase /\ Main \in RunThreads
      /\ t = Main => phase = "closing" /\ pc[t] \in {"stop", "stop_number", "stop_log", "stop_status"}
  BY <1>1 DEF InCall, RunThreads, CallsPlaced
<1>6. CallsPlaced'
  <2>1. Cardinality(InCall') <= overlaps' + 1
    BY <1>2 DEF CallsPlaced, RunsTypeOK
  <2>2. \A u \in RunThreads : pc'[u] \in {"start_write", "start_log"} => runno'[u] > 0
    BY <1>1, <1>2 DEF CallsPlaced, RunsTypeOK
  <2>3. /\ phase' # "closing" => pc'[Main] = "idle"
        /\ pc'[Main] \in {"idle", "stop", "stop_number", "stop_log", "stop_status"}
    BY <1>1, <1>2, <1>5 DEF CallsPlaced
  <2>4. QED
    BY <1>5, <2>1, <2>2, <2>3 DEF CallsPlaced
<1>7. RowsPaidFor'
  BY <1>2, <1>4 DEF RowsPaidFor, PaidFor, RowOwned, Settled
<1>8. ClosePaidFor'
  BY <1>2, <1>4, <1>5 DEF ClosePaidFor, PaidFor
<1>9. StartPaidFor'
  BY <1>2, <1>4 DEF StartPaidFor, PaidFor
<1>10. OneByOne'
  BY <1>2 DEF OneByOne, InCall
<1>11. RowsNumbered'
  BY <1>2 DEF RunsTypeOK, RowsNumbered
<1>12. QED
  BY <1>3, <1>6, <1>7, <1>8, <1>9, <1>10, <1>11

LEMMA StartWritesNumberInv ==
  ASSUME RunInv, NEW t \in RunThreads, StartWritesNumber(t)
  PROVE  RunInv'
<1> USE RunAssumption DEF RunInv, StartWritesNumber
<1>1. Goto(t, "start_log") /\ pc[t] = "start_write"
  OBVIOUS
<1>2. /\ pc'[t] = "start_log" /\ \A u \in RunThreads \ {t} : pc'[u] = pc[u]
      /\ pc' \in [RunThreads -> Steps]
      /\ InCall' = InCall \cup {t}
      /\ {Cardinality(InCall), Cardinality(InCall'), Cardinality(MayAdd), Cardinality(MayAdd')} \subseteq Nat
      /\ Cardinality(InCall') = Cardinality(InCall)
      /\ Cardinality(MayAdd') = Cardinality(MayAdd)
  BY <1>1, MoveCounts DEF Steps
<1>3. RunsTypeOK'
  <2>1. number' \in 0 .. MaxRun
    BY <1>1 DEF RunsTypeOK
  <2>2. QED
    BY <1>1, <1>2, <2>1 DEF RunsTypeOK
<1>4. Open' = Open /\ Cardinality(Open) \in Nat
  BY RowsFinite DEF Open
<1>5. /\ t \in InCall /\ phase # "down" /\ phase' = phase /\ Main \in RunThreads
      /\ t = Main => phase = "closing" /\ pc[t] \in {"stop", "stop_number", "stop_log", "stop_status"}
  BY <1>1 DEF InCall, RunThreads, CallsPlaced
<1>6. CallsPlaced'
  <2>1. Cardinality(InCall') <= overlaps' + 1
    BY <1>2 DEF CallsPlaced, RunsTypeOK
  <2>2. \A u \in RunThreads : pc'[u] \in {"start_write", "start_log"} => runno'[u] > 0
    BY <1>1, <1>2 DEF CallsPlaced, RunsTypeOK
  <2>3. /\ phase' # "closing" => pc'[Main] = "idle"
        /\ pc'[Main] \in {"idle", "stop", "stop_number", "stop_log", "stop_status"}
    BY <1>1, <1>2, <1>5 DEF CallsPlaced
  <2>4. QED
    BY <1>5, <2>1, <2>2, <2>3 DEF CallsPlaced
<1>7. RowsPaidFor'
  BY <1>2, <1>4 DEF RowsPaidFor, PaidFor, RowOwned, Settled
<1>8. ClosePaidFor'
  BY <1>2, <1>4, <1>5 DEF ClosePaidFor, PaidFor
<1>9. StartPaidFor'
  BY <1>2 DEF StartPaidFor
<1>10. OneByOne'
  BY <1>2 DEF OneByOne, InCall
<1>11. RowsNumbered'
  BY <1>2 DEF RunsTypeOK, OneByOne, RowsNumbered, InCall, CallsPlaced
<1>12. QED
  BY <1>3, <1>6, <1>7, <1>8, <1>9, <1>10, <1>11

LEMMA RunRegisterStartInv ==
  ASSUME RunInv, NEW t \in RunThreads, RunRegisterStart(t)
  PROVE  RunInv'
<1> USE RunAssumption DEF RunInv, RunRegisterStart
<1>1. Goto(t, "start_status") /\ pc[t] = "start_log"
  OBVIOUS
<1>2. /\ pc'[t] = "start_status" /\ \A u \in RunThreads \ {t} : pc'[u] = pc[u]
      /\ pc' \in [RunThreads -> Steps]
      /\ InCall' = InCall \cup {t}
      /\ {Cardinality(InCall), Cardinality(InCall'), Cardinality(MayAdd), Cardinality(MayAdd')} \subseteq Nat
      /\ Cardinality(InCall') = Cardinality(InCall)
      /\ Cardinality(MayAdd') = Cardinality(MayAdd) - 1
  BY <1>1, MoveCounts DEF Steps
<1>3. RunsTypeOK'
  <2>1. runno[t] \in 1 .. MaxRun /\ DOMAIN runlog' = DOMAIN runlog \cup {runno[t]}
        /\ runlog' \in [DOMAIN runlog' -> {"started", "stopped"}]
    BY <1>1 DEF RunsTypeOK, CallsPlaced
  <2>2. QED
    BY <1>1, <1>2, <2>1 DEF RunsTypeOK
<1>4. /\ Open' = Open \cup {runno[t]} /\ Cardinality(Open) \in Nat /\ Cardinality(Open') \in Nat
      /\ Cardinality(Open') = IF runno[t] \in Open THEN Cardinality(Open) ELSE Cardinality(Open) + 1
  <2>1. Open' = Open \cup {runno[t]}
    BY DEF Open
  <2>2. QED
    BY <2>1, RowsFinite, OneMore
<1>5. /\ t \in InCall /\ phase # "down" /\ phase' = phase /\ Main \in RunThreads
      /\ t = Main => phase = "closing" /\ pc[t] \in {"stop", "stop_number", "stop_log", "stop_status"}
  BY <1>1 DEF InCall, RunThreads, CallsPlaced
<1>6. CallsPlaced'
  <2>1. Cardinality(InCall') <= overlaps' + 1
    BY <1>2 DEF CallsPlaced, RunsTypeOK
  <2>2. \A u \in RunThreads : pc'[u] \in {"start_write", "start_log"} => runno'[u] > 0
    BY <1>1, <1>2 DEF CallsPlaced, RunsTypeOK
  <2>3. /\ phase' # "closing" => pc'[Main] = "idle"
        /\ pc'[Main] \in {"idle", "stop", "stop_number", "stop_log", "stop_status"}
    BY <1>1, <1>2, <1>5 DEF CallsPlaced
  <2>4. QED
    BY <1>5, <2>1, <2>2, <2>3 DEF CallsPlaced
<1>7. RowsPaidFor'
  BY <1>2, <1>4 DEF RunsTypeOK, RowsPaidFor, PaidFor, RowOwned, Settled
<1>8. ClosePaidFor'
  BY <1>2, <1>4, <1>5 DEF RunsTypeOK, ClosePaidFor, PaidFor
<1>9. StartPaidFor'
  BY <1>2, <1>4 DEF RunsTypeOK, StartPaidFor, PaidFor
<1>10. OneByOne'
  BY <1>2, <1>4 DEF OneByOne, InCall
<1>11. RowsNumbered'
  BY <1>2 DEF RunsTypeOK, OneByOne, RowsNumbered, InCall, CallsPlaced
<1>12. QED
  BY <1>3, <1>6, <1>7, <1>8, <1>9, <1>10, <1>11

LEMMA StartWritesStatusInv ==
  ASSUME RunInv, NEW t \in RunThreads, StartWritesStatus(t)
  PROVE  RunInv'
<1> USE RunAssumption DEF RunInv, StartWritesStatus
<1>1. Goto(t, "idle") /\ pc[t] = "start_status"
  OBVIOUS
<1>2. /\ pc'[t] = "idle" /\ \A u \in RunThreads \ {t} : pc'[u] = pc[u]
      /\ pc' \in [RunThreads -> Steps]
      /\ InCall' = InCall \ {t}
      /\ {Cardinality(InCall), Cardinality(InCall'), Cardinality(MayAdd), Cardinality(MayAdd')} \subseteq Nat
      /\ Cardinality(InCall') = Cardinality(InCall) - 1
      /\ Cardinality(MayAdd') = Cardinality(MayAdd)
  BY <1>1, MoveCounts DEF Steps
<1>3. RunsTypeOK'
  <2>1. runno' \in [RunThreads -> 0 .. MaxRun]
    BY <1>1 DEF RunsTypeOK
  <2>2. QED
    BY <1>1, <1>2, <2>1 DEF RunsTypeOK
<1>4. Open' = Open /\ Cardinality(Open) \in Nat
  BY RowsFinite DEF Open
<1>5. /\ t \in InCall /\ phase # "down" /\ phase' = phase /\ Main \in RunThreads
      /\ t = Main => phase = "closing" /\ pc[t] \in {"stop", "stop_number", "stop_log", "stop_status"}
  BY <1>1 DEF InCall, RunThreads, CallsPlaced
<1>6. CallsPlaced'
  <2>1. Cardinality(InCall') <= overlaps' + 1
    BY <1>2 DEF CallsPlaced, RunsTypeOK
  <2>2. \A u \in RunThreads : pc'[u] \in {"start_write", "start_log"} => runno'[u] > 0
    BY <1>1, <1>2 DEF CallsPlaced, RunsTypeOK
  <2>3. /\ phase' # "closing" => pc'[Main] = "idle"
        /\ pc'[Main] \in {"idle", "stop", "stop_number", "stop_log", "stop_status"}
    BY <1>1, <1>2, <1>5 DEF CallsPlaced
  <2>4. QED
    BY <1>5, <2>1, <2>2, <2>3 DEF CallsPlaced
<1>7. RowsPaidFor'
  BY <1>2, <1>4 DEF RowsPaidFor, PaidFor, RowOwned, Settled, StartPaidFor, InCall
<1>8. ClosePaidFor'
  BY <1>2, <1>4, <1>5 DEF ClosePaidFor, PaidFor
<1>9. StartPaidFor'
  BY <1>2, <1>4 DEF StartPaidFor, PaidFor
<1>10. OneByOne'
  BY <1>2, <1>4 DEF OneByOne, InCall
<1>11. RowsNumbered'
  BY <1>2 DEF RowsNumbered
<1>12. QED
  BY <1>3, <1>6, <1>7, <1>8, <1>9, <1>10, <1>11

------------------------------------------------------------------------------
(* RunStop.                                                                 *)
LEMMA StopChecksInv ==
  ASSUME RunInv, NEW t \in RunThreads, StopChecks(t)
  PROVE  RunInv'
<1> USE RunAssumption DEF RunInv, StopChecks
<1>1. /\ pc[t] = "stop"
      /\ \/ status = "RUNNING" /\ Goto(t, "stop_number")
         \/ status # "RUNNING" /\ Goto(t, "idle")
  OBVIOUS
<1>2. /\ \A u \in RunThreads \ {t} : pc'[u] = pc[u]
      /\ pc' \in [RunThreads -> Steps]
      /\ {Cardinality(InCall), Cardinality(InCall'), Cardinality(MayAdd), Cardinality(MayAdd')} \subseteq Nat
      /\ \/ /\ status = "RUNNING" /\ pc'[t] = "stop_number" /\ InCall' = InCall \cup {t}
            /\ Cardinality(InCall') = Cardinality(InCall) /\ Cardinality(MayAdd') = Cardinality(MayAdd)
         \/ /\ status # "RUNNING" /\ pc'[t] = "idle" /\ InCall' = InCall \ {t}
            /\ Cardinality(InCall') = Cardinality(InCall) - 1
            /\ Cardinality(MayAdd') = Cardinality(MayAdd) - 1
  BY <1>1, MoveCounts DEF Steps
<1>3. RunsTypeOK'
  BY <1>2 DEF RunsTypeOK
<1>4. Open' = Open /\ Cardinality(Open) \in Nat
  BY RowsFinite DEF Open
<1>5. /\ t \in InCall /\ phase # "down" /\ phase' = phase /\ Main \in RunThreads
      /\ t = Main => phase = "closing" /\ pc[t] \in {"stop", "stop_number", "stop_log", "stop_status"}
  BY <1>1 DEF InCall, RunThreads, CallsPlaced
<1>6. CallsPlaced'
  <2>1. Cardinality(InCall') <= overlaps' + 1
    BY <1>2 DEF CallsPlaced, RunsTypeOK
  <2>2. \A u \in RunThreads : pc'[u] \in {"start_write", "start_log"} => runno'[u] > 0
    BY <1>1, <1>2 DEF CallsPlaced, RunsTypeOK
  <2>3. /\ phase' # "closing" => pc'[Main] = "idle"
        /\ pc'[Main] \in {"idle", "stop", "stop_number", "stop_log", "stop_status"}
    BY <1>1, <1>2, <1>5 DEF CallsPlaced
  <2>4. QED
    BY <1>5, <2>1, <2>2, <2>3 DEF CallsPlaced
<1>7. RowsPaidFor'
  BY <1>2, <1>4 DEF RunsTypeOK, RowsPaidFor, PaidFor, RowOwned, Settled
<1>8. ClosePaidFor'
  BY <1>2, <1>4, <1>5 DEF RunsTypeOK, RowsPaidFor, ClosePaidFor, PaidFor, RowOwned
<1>9. StartPaidFor'
  BY <1>2, <1>4 DEF RunsTypeOK, StartPaidFor, PaidFor
<1>10. OneByOne'
  BY <1>2, <1>4 DEF OneByOne, InCall
<1>11. RowsNumbered'
  BY <1>2 DEF RowsNumbered
<1>12. QED
  BY <1>3, <1>6, <1>7, <1>8, <1>9, <1>10, <1>11

LEMMA StopReadsNumberInv ==
  ASSUME RunInv, NEW t \in RunThreads, StopReadsNumber(t)
  PROVE  RunInv'
<1> USE RunAssumption DEF RunInv, StopReadsNumber
<1>1. Goto(t, "stop_log") /\ pc[t] = "stop_number"
  OBVIOUS
<1>2. /\ pc'[t] = "stop_log" /\ \A u \in RunThreads \ {t} : pc'[u] = pc[u]
      /\ pc' \in [RunThreads -> Steps]
      /\ InCall' = InCall \cup {t}
      /\ {Cardinality(InCall), Cardinality(InCall'), Cardinality(MayAdd), Cardinality(MayAdd')} \subseteq Nat
      /\ Cardinality(InCall') = Cardinality(InCall)
      /\ Cardinality(MayAdd') = Cardinality(MayAdd)
  BY <1>1, MoveCounts DEF Steps
<1>3. RunsTypeOK'
  <2>1. runno' \in [RunThreads -> 0 .. MaxRun]
    BY <1>1 DEF RunsTypeOK
  <2>2. QED
    BY <1>1, <1>2, <2>1 DEF RunsTypeOK
<1>4. Open' = Open /\ Cardinality(Open) \in Nat
  BY RowsFinite DEF Open
<1>5. /\ t \in InCall /\ phase # "down" /\ phase' = phase /\ Main \in RunThreads
      /\ t = Main => phase = "closing" /\ pc[t] \in {"stop", "stop_number", "stop_log", "stop_status"}
  BY <1>1 DEF InCall, RunThreads, CallsPlaced
<1>6. CallsPlaced'
  <2>1. Cardinality(InCall') <= overlaps' + 1
    BY <1>2 DEF CallsPlaced, RunsTypeOK
  <2>2. \A u \in RunThreads : pc'[u] \in {"start_write", "start_log"} => runno'[u] > 0
    BY <1>1, <1>2 DEF CallsPlaced, RunsTypeOK
  <2>3. /\ phase' # "closing" => pc'[Main] = "idle"
        /\ pc'[Main] \in {"idle", "stop", "stop_number", "stop_log", "stop_status"}
    BY <1>1, <1>2, <1>5 DEF CallsPlaced
  <2>4. QED
    BY <1>5, <2>1, <2>2, <2>3 DEF CallsPlaced
<1>7. RowsPaidFor'
  BY <1>2, <1>4 DEF RunsTypeOK, RowsPaidFor, PaidFor, RowOwned, Settled
<1>8. ClosePaidFor'
  BY <1>2, <1>4, <1>5 DEF ClosePaidFor, PaidFor
<1>9. StartPaidFor'
  BY <1>2, <1>4 DEF StartPaidFor, PaidFor
<1>10. OneByOne'
  BY <1>2, <1>4 DEF OneByOne, InCall
<1>11. RowsNumbered'
  BY <1>2 DEF RowsNumbered
<1>12. QED
  BY <1>3, <1>6, <1>7, <1>8, <1>9, <1>10, <1>11

LEMMA RunRegisterStopInv ==
  ASSUME RunInv, NEW t \in RunThreads, RunRegisterStop(t)
  PROVE  RunInv'
<1> USE RunAssumption DEF RunInv, RunRegisterStop
<1>1. Goto(t, "stop_status") /\ pc[t] = "stop_log"
  OBVIOUS
<1>2. /\ pc'[t] = "stop_status" /\ \A u \in RunThreads \ {t} : pc'[u] = pc[u]
      /\ pc' \in [RunThreads -> Steps]
      /\ InCall' = InCall \cup {t}
      /\ {Cardinality(InCall), Cardinality(InCall'), Cardinality(MayAdd), Cardinality(MayAdd')} \subseteq Nat
      /\ Cardinality(InCall') = Cardinality(InCall)
      /\ Cardinality(MayAdd') = Cardinality(MayAdd)
  BY <1>1, MoveCounts DEF Steps
<1>3. RunsTypeOK'
  <2>1. DOMAIN runlog' = DOMAIN runlog /\ runlog' \in [DOMAIN runlog' -> {"started", "stopped"}]
    BY <1>1 DEF RunsTypeOK
  <2>2. QED
    BY <1>1, <1>2, <2>1 DEF RunsTypeOK
<1>4. /\ Open' = Open \ {runno[t]} /\ Cardinality(Open) \in Nat /\ Cardinality(Open') \in Nat
      /\ Cardinality(Open') = IF runno[t] \in Open THEN Cardinality(Open) - 1 ELSE Cardinality(Open)
  <2>1. Open' = Open \ {runno[t]}
    BY DEF Open
  <2>2. QED
    BY <2>1, RowsFinite, OneLess
<1>5. /\ t \in InCall /\ phase # "down" /\ phase' = phase /\ Main \in RunThreads
      /\ t = Main => phase = "closing" /\ pc[t] \in {"stop", "stop_number", "stop_log", "stop_status"}
  BY <1>1 DEF InCall, RunThreads, CallsPlaced
<1>6. CallsPlaced'
  <2>1. Cardinality(InCall') <= overlaps' + 1
    BY <1>2 DEF CallsPlaced, RunsTypeOK
  <2>2. \A u \in RunThreads : pc'[u] \in {"start_write", "start_log"} => runno'[u] > 0
    BY <1>1, <1>2 DEF CallsPlaced, RunsTypeOK
  <2>3. /\ phase' # "closing" => pc'[Main] = "idle"
        /\ pc'[Main] \in {"idle", "stop", "stop_number", "stop_log", "stop_status"}
    BY <1>1, <1>2, <1>5 DEF CallsPlaced
  <2>4. QED
    BY <1>5, <2>1, <2>2, <2>3 DEF CallsPlaced
<1>7. RowsPaidFor'
  BY <1>2, <1>4 DEF RunsTypeOK, RowsPaidFor, PaidFor, RowOwned, Settled
<1>8. ClosePaidFor'
  BY <1>2, <1>4, <1>5 DEF RunsTypeOK, ClosePaidFor, PaidFor
<1>9. StartPaidFor'
  BY <1>2, <1>4 DEF RunsTypeOK, StartPaidFor, RowsPaidFor, PaidFor, RowOwned, Settled
<1>10. OneByOne'
  BY <1>2 DEF OneByOne, InCall
<1>11. RowsNumbered'
  BY <1>2 DEF RowsNumbered
<1>12. QED
  BY <1>3, <1>6, <1>7, <1>8, <1>9, <1>10, <1>11

LEMMA StopWritesStatusInv ==
  ASSUME RunInv, NEW t \in RunThreads, StopWritesStatus(t)
  PROVE  RunInv'
<1> USE RunAssumption DEF RunInv, StopWritesStatus
<1>1. Goto(t, "idle") /\ pc[t] = "stop_status"
  OBVIOUS
<1>2. /\ pc'[t] = "idle" /\ \A u \in RunThreads \ {t} : pc'[u] = pc[u]
      /\ pc' \in [RunThreads -> Steps]
      /\ InCall' = InCall \ {t}
      /\ {Cardinality(InCall), Cardinality(InCall'), Cardinality(MayAdd), Cardinality(MayAdd')} \subseteq Nat
      /\ Cardinality(InCall') = Cardinality(InCall) - 1
      /\ Cardinality(MayAdd') = Cardinality(MayAdd) - 1
  BY <1>1, MoveCounts DEF Steps
<1>3. RunsTypeOK'
  <2>1. runno' \in [RunThreads -> 0 .. MaxRun]
    BY <1>1 DEF RunsTypeOK
  <2>2. QED
    BY <1>1, <1>2, <2>1 DEF RunsTypeOK
<1>4. Open' = Open /\ Cardinality(Open) \in Nat
  BY RowsFinite DEF Open
<1>5. /\ t \in InCall /\ phase # "down" /\ phase' = phase /\ Main \in RunThreads
      /\ t = Main => phase = "closing" /\ pc[t] \in {"stop", "stop_number", "stop_log", "stop_status"}
  BY <1>1 DEF InCall, RunThreads, CallsPlaced
<1>6. CallsPlaced'
  <2>1. Cardinality(InCall') <= overlaps' + 1
    BY <1>2 DEF CallsPlaced, RunsTypeOK
  <2>2. \A u \in RunThreads : pc'[u] \in {"start_write", "start_log"} => runno'[u] > 0
    BY <1>1, <1>2 DEF CallsPlaced, RunsTypeOK
  <2>3. /\ phase' # "closing" => pc'[Main] = "idle"
        /\ pc'[Main] \in {"idle", "stop", "stop_number", "stop_log", "stop_status"}
    BY <1>1, <1>2, <1>5 DEF CallsPlaced
  <2>4. QED
    BY <1>5, <2>1, <2>2, <2>3 DEF CallsPlaced
<1>7. RowsPaidFor'
  BY <1>2, <1>4 DEF RunsTypeOK, RowsPaidFor, PaidFor, RowOwned, Settled
<1>8. ClosePaidFor'
  BY <1>2, <1>4 DEF RunsTypeOK, RowsPaidFor, ClosePaidFor, PaidFor, RowOwned, Settled
<1>9. StartPaidFor'
  BY <1>2, <1>4 DEF RunsTypeOK, StartPaidFor, PaidFor
<1>10. OneByOne'
  BY <1>2 DEF OneByOne, InCall
<1>11. RowsNumbered'
  BY <1>2 DEF RowsNumbered
<1>12. QED
  BY <1>3, <1>6, <1>7, <1>8, <1>9, <1>10, <1>11

------------------------------------------------------------------------------
(* RunReset.                                                                *)
LEMMA ResetChecksInv ==
  ASSUME RunInv, NEW t \in RunThreads, ResetChecks(t)
  PROVE  RunInv'
<1> USE RunAssumption DEF RunInv, ResetChecks
<1>1. /\ pc[t] = "reset"
      /\ \/ status = "STOPPED" /\ Goto(t, "reset_number")
         \/ status # "STOPPED" /\ Goto(t, "idle")
  OBVIOUS
<1>2. /\ \A u \in RunThreads \ {t} : pc'[u] = pc[u]
      /\ pc' \in [RunThreads -> Steps]
      /\ {Cardinality(InCall), Cardinality(InCall'), Cardinality(MayAdd), Cardinality(MayAdd')} \subseteq Nat
      /\ \/ /\ status = "STOPPED" /\ pc'[t] = "reset_number" /\ InCall' = InCall \cup {t}
            /\ Cardinality(InCall') = Cardinality(InCall) /\ Cardinality(MayAdd') = Cardinality(MayAdd)
         \/ /\ status # "STOPPED" /\ pc'[t] = "idle" /\ InCall' = InCall \ {t}
            /\ Cardinality(InCall') = Cardinality(InCall) - 1
            /\ Cardinality(MayAdd') = Cardinality(MayAdd) - 1
  BY <1>1, MoveCounts DEF Steps
<1>3. RunsTypeOK'
  BY <1>2 DEF RunsTypeOK
<1>4. Open' = Open /\ Cardinality(Open) \in Nat
  BY RowsFinite DEF Open
<1>5. /\ t \in InCall /\ phase # "down" /\ phase' = phase /\ Main \in RunThreads
      /\ t = Main => phase = "closing" /\ pc[t] \in {"stop", "stop_number", "stop_log", "stop_status"}
  BY <1>1 DEF InCall, RunThreads, CallsPlaced
<1>6. CallsPlaced'
  <2>1. Cardinality(InCall') <= overlaps' + 1
    BY <1>2 DEF CallsPlaced, RunsTypeOK
  <2>2. \A u \in RunThreads : pc'[u] \in {"start_write", "start_log"} => runno'[u] > 0
    BY <1>1, <1>2 DEF CallsPlaced, RunsTypeOK
  <2>3. /\ phase' # "closing" => pc'[Main] = "idle"
        /\ pc'[Main] \in {"idle", "stop", "stop_number", "stop_log", "stop_status"}
    BY <1>1, <1>2, <1>5 DEF CallsPlaced
  <2>4. QED
    BY <1>5, <2>1, <2>2, <2>3 DEF CallsPlaced
<1>7. RowsPaidFor'
  BY <1>2, <1>4 DEF RunsTypeOK, RowsPaidFor, PaidFor, RowOwned, Settled
<1>8. ClosePaidFor'
  BY <1>2, <1>4, <1>5 DEF RunsTypeOK, ClosePaidFor, PaidFor
<1>9. StartPaidFor'
  BY <1>2, <1>4 DEF RunsTypeOK, StartPaidFor, PaidFor
<1>10. OneByOne'
  BY <1>2, <1>4 DEF OneByOne, InCall
<1>11. RowsNumbered'
  BY <1>2 DEF RowsNumbered
<1>12. QED
  BY <1>3, <1>6, <1>7, <1>8, <1>9, <1>10, <1>11

LEMMA ResetWritesNumberInv ==
  ASSUME RunInv, NEW t \in RunThreads, ResetWritesNumber(t)
  PROVE  RunInv'
<1> USE RunAssumption DEF RunInv, ResetWritesNumber
<1>1. Goto(t, "reset_log") /\ pc[t] = "reset_number"
  OBVIOUS
<1>2. /\ pc'[t] = "reset_log" /\ \A u \in RunThreads \ {t} : pc'[u] = pc[u]
      /\ pc' \in [RunThreads -> Steps]
      /\ InCall' = InCall \cup {t}
      /\ {Cardinality(InCall), Cardinality(InCall'), Cardinality(MayAdd), Cardinality(MayAdd')} \subseteq Nat
      /\ Cardinality(InCall') = Cardinality(InCall)
      /\ Cardinality(MayAdd') = Cardinality(MayAdd)
  BY <1>1, MoveCounts DEF Steps
<1>3. RunsTypeOK'
  BY <1>2 DEF RunsTypeOK
<1>4. Open' = Open /\ Cardinality(Open) \in Nat
  BY RowsFinite DEF Open
<1>5. /\ t \in InCall /\ phase # "down" /\ phase' = phase /\ Main \in RunThreads
      /\ t = Main => phase = "closing" /\ pc[t] \in {"stop", "stop_number", "stop_log", "stop_status"}
  BY <1>1 DEF InCall, RunThreads, CallsPlaced
<1>6. CallsPlaced'
  <2>1. Cardinality(InCall') <= overlaps' + 1
    BY <1>2 DEF CallsPlaced, RunsTypeOK
  <2>2. \A u \in RunThreads : pc'[u] \in {"start_write", "start_log"} => runno'[u] > 0
    BY <1>1, <1>2 DEF CallsPlaced, RunsTypeOK
  <2>3. /\ phase' # "closing" => pc'[Main] = "idle"
        /\ pc'[Main] \in {"idle", "stop", "stop_number", "stop_log", "stop_status"}
    BY <1>1, <1>2, <1>5 DEF CallsPlaced
  <2>4. QED
    BY <1>5, <2>1, <2>2, <2>3 DEF CallsPlaced
<1>7. RowsPaidFor'
  BY <1>2, <1>4 DEF RowsPaidFor, PaidFor, RowOwned, Settled
<1>8. ClosePaidFor'
  BY <1>2, <1>4, <1>5 DEF ClosePaidFor, PaidFor
<1>9. StartPaidFor'
  BY <1>2 DEF StartPaidFor
<1>10. OneByOne'
  BY <1>2 DEF OneByOne, InCall
<1>11. RowsNumbered'
  BY <1>2 DEF RunsTypeOK, OneByOne, RowsNumbered, InCall, CallsPlaced
<1>12. QED
  BY <1>3, <1>6, <1>7, <1>8, <1>9, <1>10, <1>11

LEMMA ResetDeletesRunsInv ==
  ASSUME RunInv, NEW t \in RunThreads, ResetDeletesRuns(t)
  PROVE  RunInv'
<1> USE RunAssumption DEF RunInv, ResetDeletesRuns
<1>1. Goto(t, "idle") /\ pc[t] = "reset_log"
  OBVIOUS
<1>2. /\ pc'[t] = "idle" /\ \A u \in RunThreads \ {t} : pc'[u] = pc[u]
      /\ pc' \in [RunThreads -> Steps]
      /\ InCall' = InCall \ {t}
      /\ {Cardinality(InCall), Cardinality(InCall'), Cardinality(MayAdd), Cardinality(MayAdd')} \subseteq Nat
      /\ Cardinality(InCall') = Cardinality(InCall) - 1
      /\ Cardinality(MayAdd') = Cardinality(MayAdd) - 1
  BY <1>1, MoveCounts DEF Steps
<1>3. RunsTypeOK'
  <2>1. DOMAIN runlog' = {} /\ runlog' \in [DOMAIN runlog' -> {"started", "stopped"}]
    BY <1>1 DEF NoRuns
  <2>2. QED
    BY <1>1, <1>2, <2>1 DEF RunsTypeOK
<1>4. Open' = {} /\ Cardinality(Open) \in Nat /\ Cardinality(Open') = 0
  BY RowsFinite, FS_EmptySet DEF Open, NoRuns
<1>5. /\ t \in InCall /\ phase # "down" /\ phase' = phase /\ Main \in RunThreads
      /\ t = Main => phase = "closing" /\ pc[t] \in {"stop", "stop_number", "stop_log", "stop_status"}
  BY <1>1 DEF InCall, RunThreads, CallsPlaced
<1>6. CallsPlaced'
  <2>1. Cardinality(InCall') <= overlaps' + 1
    BY <1>2 DEF CallsPlaced, RunsTypeOK
  <2>2. \A u \in RunThreads : pc'[u] \in {"start_write", "start_log"} => runno'[u] > 0
    BY <1>1, <1>2 DEF CallsPlaced, RunsTypeOK
  <2>3. /\ phase' # "closing" => pc'[Main] = "idle"
        /\ pc'[Main] \in {"idle", "stop", "stop_number", "stop_log", "stop_status"}
    BY <1>1, <1>2, <1>5 DEF CallsPlaced
  <2>4. QED
    BY <1>5, <2>1, <2>2, <2>3 DEF CallsPlaced
<1>7. RowsPaidFor'
  BY <1>2, <1>4 DEF RunsTypeOK, RowsPaidFor, PaidFor, RowOwned, Settled
<1>8. ClosePaidFor'
  BY <1>2, <1>4 DEF RunsTypeOK, RowsPaidFor, ClosePaidFor, PaidFor, RowOwned, Settled
<1>9. StartPaidFor'
  BY <1>2, <1>4 DEF RunsTypeOK, StartPaidFor, RowsPaidFor, PaidFor, RowOwned, Settled
<1>10. OneByOne'
  BY <1>2 DEF OneByOne, InCall
<1>11. RowsNumbered'
  BY <1>2 DEF RowsNumbered, NoRuns
<1>12. QED
  BY <1>3, <1>6, <1>7, <1>8, <1>9, <1>10, <1>11

------------------------------------------------------------------------------
(* A server that starts, a call that begins, SysCloseExperiment, a crash.    *)
LEMMA RunInitVariablesInv ==
  ASSUME RunInv, RunInitVariables
  PROVE  RunInv'
<1> USE RunAssumption DEF RunInv, RunInitVariables
<1>1. /\ InCall = {} /\ InCall' = {} /\ \A t \in RunThreads : pc[t] = "idle"
      /\ Open' = Open /\ MayAdd' = MayAdd /\ Main \in RunThreads
  BY DEF CallsPlaced, InCall, MayAdd, Open, RunThreads
<1>2. RunsTypeOK'
  BY DEF RunsTypeOK
<1>3. CallsPlaced'
  BY <1>1 DEF CallsPlaced
<1>4. PaidFor(0) /\ Cardinality(Open) \in Nat /\ Cardinality(MayAdd) \in Nat
  BY RowsFinite, FiniteThreads DEF ClosePaidFor, MayAdd
<1>5. RowsPaidFor' /\ ClosePaidFor' /\ StartPaidFor'
  BY <1>1 DEF RowsPaidFor, ClosePaidFor, StartPaidFor, PaidFor
<1>6. OneByOne' /\ RowsNumbered'
  BY <1>1 DEF OneByOne, RowsNumbered
<1>7. QED
  BY <1>2, <1>3, <1>5, <1>6

LEMMA RunCallInv ==
  ASSUME RunInv, NEW t \in Callers, NEW op \in {"start", "stop", "reset"}, RunCall(t, op)
  PROVE  RunInv'
<1> USE RunAssumption DEF RunInv, RunCall, Began
<1>1. /\ t \in RunThreads /\ t # Main /\ Main \in RunThreads /\ op \in Steps
      /\ pc[t] = "idle" /\ t \notin InCall /\ InCall \in SUBSET RunThreads
      /\ phase' = phase /\ phase \in {"up", "closing"}
  BY DEF RunThreads, Steps, InCall
<1>2. /\ pc'[t] = op /\ \A u \in RunThreads \ {t} : pc'[u] = pc[u]
      /\ pc' \in [RunThreads -> Steps]
      /\ InCall' = InCall \cup {t}
      /\ {Cardinality(InCall), Cardinality(InCall'), Cardinality(MayAdd), Cardinality(MayAdd')} \subseteq Nat
      /\ Cardinality(InCall') = Cardinality(InCall) + 1
      /\ Cardinality(MayAdd') = Cardinality(MayAdd) + 1
  BY <1>1, MoveCounts
<1>3. /\ overlaps' \in Nat /\ overlaps \in Nat /\ crashes \in Nat
      /\ \/ InCall = {} /\ phase = "up" /\ Cardinality(InCall) = 0 /\ overlaps' = overlaps
         \/ overlaps' = overlaps + 1
  BY FS_EmptySet DEF NoRunCalls, InCall, RunsTypeOK
<1>4. RunsTypeOK'
  BY <1>2, <1>3 DEF RunsTypeOK
<1>5. Open' = Open /\ Cardinality(Open) \in Nat
  BY RowsFinite DEF Open
<1>6. CallsPlaced'
  BY <1>1, <1>2, <1>3 DEF CallsPlaced
<1>7. RowOwned' <=> RowOwned
  BY <1>2, <1>5 DEF RowOwned, Settled
<1>8. RowsPaidFor'
  BY <1>2, <1>3, <1>5, <1>7 DEF RowsPaidFor, PaidFor
<1>9. ClosePaidFor'
  BY <1>1, <1>2, <1>3, <1>5 DEF ClosePaidFor, PaidFor
<1>10. StartPaidFor'
  BY <1>2, <1>3, <1>5 DEF StartPaidFor, PaidFor, InCall
<1>11. OneByOne'
  BY <1>2, <1>3, <1>5 DEF OneByOne
<1>12. RowsNumbered'
  BY <1>2, <1>3 DEF RowsNumbered
<1>13. QED
  BY <1>4, <1>6, <1>8, <1>9, <1>10, <1>11, <1>12

LEMMA CloseInv ==
  ASSUME RunInv, Close
  PROVE  RunInv'
<1> USE RunAssumption DEF RunInv, Close, Began
<1>1. /\ Main \in RunThreads /\ "stop" \in Steps /\ pc[Main] = "idle" /\ Main \notin InCall
      /\ InCall \in SUBSET RunThreads /\ phase = "up" /\ phase' = "closing"
  BY DEF RunThreads, Steps, InCall, CallsPlaced
<1>2. /\ pc'[Main] = "stop" /\ \A u \in RunThreads \ {Main} : pc'[u] = pc[u]
      /\ pc' \in [RunThreads -> Steps]
      /\ InCall' = InCall \cup {Main}
      /\ {Cardinality(InCall), Cardinality(InCall'), Cardinality(MayAdd), Cardinality(MayAdd')} \subseteq Nat
      /\ Cardinality(InCall') = Cardinality(InCall) + 1
      /\ Cardinality(MayAdd') = Cardinality(MayAdd) + 1
  BY <1>1, MoveCounts
<1>3. /\ overlaps' \in Nat /\ overlaps \in Nat /\ crashes \in Nat
      /\ \/ InCall = {} /\ Cardinality(InCall) = 0 /\ overlaps' = overlaps
         \/ overlaps' = overlaps + 1
  BY FS_EmptySet DEF NoRunCalls, InCall, RunsTypeOK
<1>4. RunsTypeOK'
  BY <1>2, <1>3 DEF RunsTypeOK
<1>5. Open' = Open /\ Cardinality(Open) \in Nat
  BY RowsFinite DEF Open
<1>6. CallsPlaced'
  BY <1>1, <1>2, <1>3 DEF CallsPlaced
<1>7. RowOwned' <=> RowOwned
  BY <1>1, <1>2, <1>5 DEF RowOwned, Settled
<1>8. RowsPaidFor'
  BY <1>2, <1>3, <1>5, <1>7 DEF RowsPaidFor, PaidFor
<1>9. ClosePaidFor'
  BY <1>1, <1>2 DEF ClosePaidFor
<1>10. StartPaidFor'
  BY <1>1, <1>2, <1>3, <1>5 DEF StartPaidFor, PaidFor, InCall
<1>11. OneByOne'
  BY <1>2, <1>3, <1>5 DEF OneByOne, InCall
<1>12. RowsNumbered'
  <2> SUFFICES ASSUME crashes' + overlaps' = 0 PROVE RowsNumbered'
    BY DEF RowsNumbered
  <2>1. crashes + overlaps = 0
    BY <1>2, <1>3
  <2> QED BY <1>1, <1>2, <2>1 DEF RowsNumbered
<1>13. QED
  BY <1>4, <1>6, <1>8, <1>9, <1>10, <1>11, <1>12

LEMMA CloseStopsRpcInv ==
  ASSUME RunInv, CloseStopsRpc
  PROVE  RunInv'
<1> USE DEF RunInv, CloseStopsRpc
<1>1. Open' = Open /\ InCall' = InCall /\ MayAdd' = MayAdd
  BY DEF Open, InCall, MayAdd
<1>2. RunsTypeOK' /\ CallsPlaced'
  BY <1>1 DEF RunsTypeOK, CallsPlaced
<1>3. RowsPaidFor' /\ ClosePaidFor' /\ StartPaidFor'
  BY <1>1 DEF RowsPaidFor, ClosePaidFor, StartPaidFor, PaidFor, RowOwned, Settled
<1>4. OneByOne' /\ RowsNumbered'
  BY <1>1 DEF OneByOne, RowsNumbered
<1>5. QED
  BY <1>2, <1>3, <1>4

LEMMA CloseSavesInv ==
  ASSUME RunInv, CloseSaves
  PROVE  RunInv'
<1> USE RunAssumption DEF RunInv, CloseSaves
<1>1. /\ InCall = {} /\ InCall' = {} /\ \A t \in RunThreads : pc[t] = "idle"
      /\ Open' = Open /\ MayAdd' = MayAdd /\ Main \in RunThreads
  BY DEF NoRunCalls, InCall, MayAdd, Open, RunThreads
<1>2. RunsTypeOK'
  BY DEF RunsTypeOK
<1>3. CallsPlaced'
  BY <1>1 DEF CallsPlaced
<1>4. PaidFor(0) /\ Cardinality(Open) \in Nat /\ Cardinality(MayAdd) \in Nat
  BY <1>1, RowsFinite, FiniteThreads DEF ClosePaidFor, MayAdd
<1>5. RowsPaidFor' /\ ClosePaidFor' /\ StartPaidFor'
  BY <1>1 DEF RowsPaidFor, ClosePaidFor, StartPaidFor, PaidFor
<1>6. OneByOne' /\ RowsNumbered'
  BY <1>1 DEF OneByOne, RowsNumbered
<1>7. QED
  BY <1>2, <1>3, <1>5, <1>6

(* A crash pays for the row of the run it interrupts.                       *)
LEMMA CrashInv ==
  ASSUME RunInv, Crash
  PROVE  RunInv'
<1> USE RunAssumption DEF RunInv, Crash
<1>1. /\ Open' = Open /\ InCall' = {} /\ MayAdd' = {} /\ Main \in RunThreads
      /\ \A t \in RunThreads : pc'[t] = "idle"
      /\ Cardinality(Open) \in Nat /\ Cardinality(MayAdd) \in Nat /\ Cardinality(MayAdd') = 0
  BY RowsFinite, FiniteThreads, FS_EmptySet DEF Open, InCall, MayAdd, RunThreads
<1>2. crashes \in Nat /\ overlaps \in Nat /\ crashes' = crashes + 1 /\ overlaps' = overlaps
  BY DEF RunsTypeOK
<1>3. RunsTypeOK'
  BY DEF RunsTypeOK, Steps
<1>4. CallsPlaced'
  BY <1>1, <1>2, FS_EmptySet DEF CallsPlaced
<1>5. InCall # {} /\ RowOwned => Cardinality(MayAdd) # 0
  BY FiniteThreads, FS_EmptySet DEF InCall, RowOwned, Settled, MayAdd
<1>6. Cardinality(Open) <= crashes + overlaps + 1
  BY <1>1, <1>2, <1>5 DEF RowsPaidFor, PaidFor
<1>7. RowsPaidFor' /\ ClosePaidFor' /\ StartPaidFor'
  BY <1>1, <1>2, <1>6 DEF RowsPaidFor, ClosePaidFor, StartPaidFor, PaidFor
<1>8. OneByOne' /\ RowsNumbered'
  BY <1>1, <1>2 DEF OneByOne, RowsNumbered
<1>9. QED
  BY <1>3, <1>4, <1>7, <1>8

------------------------------------------------------------------------------
(* The theorems.                                                             *)
LEMMA RunInitInv == RunsInit => RunInv
<1> SUFFICES ASSUME RunsInit PROVE RunInv
  OBVIOUS
<1> USE RunAssumption DEF RunsInit
<1>1. /\ InCall = {} /\ MayAdd = {} /\ Open = {} /\ Cardinality({}) = 0 /\ Main \in RunThreads
      /\ \A t \in RunThreads : pc[t] = "idle"
  BY FS_EmptySet DEF InCall, MayAdd, Open, NoRuns, RunThreads
<1>2. RunsTypeOK
  BY DEF RunsTypeOK, Steps, NoRuns
<1>3. CallsPlaced
  BY <1>1 DEF CallsPlaced
<1>4. RowsPaidFor /\ ClosePaidFor /\ StartPaidFor
  BY <1>1 DEF RowsPaidFor, ClosePaidFor, StartPaidFor, PaidFor
<1>5. OneByOne /\ RowsNumbered
  BY <1>1 DEF OneByOne, RowsNumbered, NoRuns
<1>6. QED
  BY <1>2, <1>3, <1>4, <1>5 DEF RunInv

LEMMA RunStutterInv == RunInv /\ UNCHANGED vars_runs => RunInv'
<1> SUFFICES ASSUME RunInv, UNCHANGED vars_runs PROVE RunInv'
  OBVIOUS
<1> USE DEF RunInv, vars_runs
<1>1. Open' = Open /\ InCall' = InCall /\ MayAdd' = MayAdd
  BY DEF Open, InCall, MayAdd
<1>2. RunsTypeOK' /\ CallsPlaced'
  BY <1>1 DEF RunsTypeOK, CallsPlaced
<1>3. RowsPaidFor' /\ ClosePaidFor' /\ StartPaidFor'
  BY <1>1 DEF RowsPaidFor, ClosePaidFor, StartPaidFor, PaidFor, RowOwned, Settled
<1>4. OneByOne' /\ RowsNumbered'
  BY <1>1 DEF OneByOne, RowsNumbered
<1>5. QED
  BY <1>2, <1>3, <1>4

(* The invariant of the runs: what is open is paid for, at every step of    *)
(* every interleaving of calls, closings and crashes.                       *)
THEOREM RunsInvariant == RunsSpec => []RunInv
<1>1. RunInv /\ [RunsNext]_vars_runs => RunInv'
  <2> SUFFICES ASSUME RunInv, [RunsNext]_vars_runs PROVE RunInv'
    OBVIOUS
  <2>1. CASE RunInitVariables
    BY <2>1, RunInitVariablesInv
  <2>2. CASE \E t \in Callers, op \in {"start", "stop", "reset"} : RunCall(t, op)
    BY <2>2, RunCallInv
  <2>3. ASSUME NEW t \in RunThreads, RunStart(t) PROVE RunInv'
    BY <2>3, StartChecksInv, StartReadsNumberInv, StartWritesNumberInv, RunRegisterStartInv,
       StartWritesStatusInv DEF RunStart
  <2>4. ASSUME NEW t \in RunThreads, RunStop(t) PROVE RunInv'
    BY <2>4, StopChecksInv, StopReadsNumberInv, RunRegisterStopInv, StopWritesStatusInv DEF
       RunStop
  <2>5. ASSUME NEW t \in RunThreads, RunReset(t) PROVE RunInv'
    BY <2>5, ResetChecksInv, ResetWritesNumberInv, ResetDeletesRunsInv DEF RunReset
  <2>6. CASE Close
    BY <2>6, CloseInv
  <2>7. CASE CloseStopsRpc
    BY <2>7, CloseStopsRpcInv
  <2>8. CASE CloseSaves
    BY <2>8, CloseSavesInv
  <2>9. CASE Crash
    BY <2>9, CrashInv
  <2>10. CASE UNCHANGED vars_runs
    BY <2>10, RunStutterInv
  <2>11. QED
    BY <2>1, <2>2, <2>3, <2>4, <2>5, <2>6, <2>7, <2>8, <2>9, <2>10 DEF RunsNext
<1>2. QED
  BY <1>1, RunInitInv, PTL DEF RunsSpec

(* Between calls nobody is left who could add a row: the credit is that of  *)
(* the run that is RUNNING, or none.                                        *)
LEMMA RunInvMatches == RunInv => StatusMatchesLog
<1> SUFFICES ASSUME RunInv, phase \in {"up", "closing"}, NoRunCalls
             PROVE  /\ status = "RUNNING" => number \in Open \/ overlaps > 0
                    /\ status = "RUNNING" => Cardinality(Open \ {number}) <= crashes + overlaps
                    /\ status = "STOPPED" => Cardinality(Open) <= crashes + overlaps
  BY DEF StatusMatchesLog
<1> USE DEF RunInv
<1>1. /\ InCall = {} /\ MayAdd = {} /\ \A t \in RunThreads : pc[t] = "idle"
      /\ crashes \in Nat /\ overlaps \in Nat
  BY DEF NoRunCalls, InCall, MayAdd, RunsTypeOK
<1>2. /\ Cardinality(MayAdd) = 0 /\ IsFiniteSet(Open) /\ Cardinality(Open) \in Nat
      /\ Cardinality(Open \ {number}) \in Nat
      /\ Cardinality(Open \ {number}) =
           IF number \in Open THEN Cardinality(Open) - 1 ELSE Cardinality(Open)
  BY <1>1, RowsFinite, FS_EmptySet, OneLess
<1>3. RowOwned <=> status = "RUNNING" /\ number \in Open
  BY <1>1 DEF RowOwned, Settled
<1>4. Cardinality(Open) <= crashes + overlaps + (IF RowOwned THEN 1 ELSE 0)
  BY <1>1, <1>2 DEF RowsPaidFor, PaidFor
<1>5. overlaps = 0 /\ status = "RUNNING" => number \in Open
  BY <1>1 DEF OneByOne
<1>6. QED
  BY <1>1, <1>2, <1>3, <1>4, <1>5

(* The status and the table of runs agree between calls, up to one row for  *)
(* each crash and each overlap, for any number of callers and runs          *)
(* (RunStart, RunStop, RunReset, SysCloseExperiment).                       *)
THEOREM StatusAgreesWithLog == RunsSpec => []RunsSound
<1>1. RunInv => RunsSound
  BY RunInvMatches DEF RunInv, RunsSound
<1>2. QED
  BY <1>1, RunsInvariant, PTL

(* Without crashes and overlaps RunRegisterStart never replaces a row.      *)
THEOREM StartsLogNewRuns == RunsSpec => RunsNeverReplaced
<1>1. RunInv => \A t \in RunThreads :
        RunRegisterStart(t) /\ crashes + overlaps = 0 => runno[t] \notin DOMAIN runlog
  BY DEF RunInv, RunsTypeOK, RunRegisterStart, OneByOne, RowsNumbered
<1>2. QED
  BY <1>1, RunsInvariant, PTL DEF RunsNeverReplaced

------------------------------------------------------------------------------
(* ByteStream: frames are read where they begin, cells are neither lost nor  *)
(* repeated, the whole implements FrameChannel, and the two threads wait     *)
(* for each other in the middle of a frame that is over-long only.           *)

(* The initial state.                                                      *)
LEMMA InitInv == StreamInit => StreamInv
<1> SUFFICES ASSUME StreamInit PROVE StreamInv
  OBVIOUS
<1>1. StreamTypeOK
  <2>1. DOMAIN payload = {} /\ payload \in [DOMAIN payload -> 0 .. MaxPayload]
    BY DEF StreamInit, NoFrame
  <2>2. chunk \in [at : Nat, n : 0 .. Chunk] /\ buffer \in [0 .. BufSize - 1 -> Nat]
        /\ fill \in 0 .. BufSize
    BY StreamAssumption DEF StreamInit
  <2> QED
    BY <2>1, <2>2 DEF StreamInit, StreamTypeOK, RecvStates, FetchStates
<1>2. Framed /\ InOrder
  BY StreamAssumption DEF StreamInit, Framed, InOrder, NoFrame, Received
<1>3. NeedRight /\ WaitsRight
  BY DEF StreamInit, NeedRight, WaitsRight
<1> QED
  BY <1>1, <1>2, <1>3 DEF StreamInv

(* The sender begins a frame where the last one ends.                      *)
LEMMA SendBeginsInv ==
  ASSUME StreamInv, NEW n \in 0 .. MaxPayload, SendBegins(n)
  PROVE  StreamInv'
<1>1. /\ end \in Nat /\ n \in Nat /\ Hdr \in Nat /\ Hdr > 0 /\ end' = end + Hdr + n
      /\ DOMAIN payload' = DOMAIN payload \cup {end} /\ payload'[end] = n
      /\ \A s \in DOMAIN payload : payload'[s] = payload[s]
      /\ \A s \in DOMAIN payload : payload[s] \in Nat /\ s \in Nat
      /\ written = end
  <2>1. n \in Nat /\ Hdr \in Nat /\ Hdr > 0 /\ MaxPayload \in Nat
    BY StreamAssumption
  <2>2. /\ end \in Nat /\ DOMAIN payload \subseteq Nat
        /\ payload \in [DOMAIN payload -> 0 .. MaxPayload]
    BY DEF StreamInv, StreamTypeOK
  <2>3. /\ end' = end + Hdr + n /\ written = end
        /\ payload' = [s \in DOMAIN payload \cup {end} |-> IF s = end THEN n ELSE payload[s]]
    BY DEF SendBegins
  <2>4. end \notin DOMAIN payload
    BY DEF StreamInv, Framed
  <2>5. \A s \in DOMAIN payload : payload[s] \in Nat /\ s \in Nat
    BY <2>1, <2>2
  <2>6. /\ DOMAIN payload' = DOMAIN payload \cup {end} /\ payload'[end] = n
        /\ \A s \in DOMAIN payload : payload'[s] = payload[s]
    BY <2>3, <2>4
  <2> QED
    BY <2>1, <2>2, <2>3, <2>5, <2>6
<1>2. StreamTypeOK'
  BY <1>1 DEF StreamInv, StreamTypeOK, SendBegins, stream
<1>3. Framed'
  <2>1. end' \notin DOMAIN payload'
    BY <1>1 DEF StreamInv, Framed
  <2>2. \A s \in DOMAIN payload' :
          /\ s + Hdr + payload'[s] <= end'
          /\ s + Hdr + payload'[s] \in DOMAIN payload' \cup {end'}
    BY <1>1 DEF StreamInv, Framed
  <2>3. consumed' \in DOMAIN payload' \cup {end'} /\ written' <= end'
    BY <1>1 DEF StreamInv, Framed, SendBegins
  <2> QED
    BY <2>1, <2>2, <2>3 DEF Framed
<1>4. InOrder'
  BY DEF StreamInv, InOrder, SendBegins, stream, Received
<1>5. NeedRight' /\ WaitsRight'
  BY <1>1 DEF StreamInv, NeedRight, WaitsRight, SendBegins, stream
<1> QED
  BY <1>2, <1>3, <1>4, <1>5 DEF StreamInv

(* The sender's other steps.                                               *)
LEMMA SenderInv ==
  ASSUME StreamInv, SendWrites \/ SenderCloses
  PROVE  StreamInv'
<1>1. /\ written \in Nat /\ end \in Nat /\ written' \in Nat /\ written' >= written
      /\ written' <= end /\ payload' = payload /\ end' = end /\ closed' \in BOOLEAN
      /\ UNCHANGED <<buffer, fill, unblock, mutex, recv, chunk, fetch, need, stop, missed, consumed>>
  <2>1. written \in Nat /\ end \in Nat /\ written <= end /\ closed \in BOOLEAN
    BY DEF StreamInv, StreamTypeOK, Framed
  <2>2. CASE SendWrites
    BY <2>1, <2>2 DEF SendWrites, stream
  <2>3. CASE SenderCloses
    BY <2>1, <2>3 DEF SenderCloses, stream
  <2> QED
    BY <2>2, <2>3
<1>2. StreamTypeOK'
  BY <1>1 DEF StreamInv, StreamTypeOK
<1>3. Framed' /\ NeedRight' /\ WaitsRight'
  BY <1>1 DEF StreamInv, Framed, NeedRight, WaitsRight
<1>4. InOrder'
  BY <1>1 DEF StreamInv, StreamTypeOK, InOrder, Received
<1> QED
  BY <1>2, <1>3, <1>4 DEF StreamInv

(* A chunk comes in.                                                       *)
LEMMA RecvCellsInv ==
  ASSUME StreamInv, NEW n \in 1 .. Chunk, RecvCells(n)
  PROVE  StreamInv'
<1>1. /\ recv = "recv" /\ recv' = "push" /\ chunk' = [at |-> Received, n |-> n]
      /\ Received + n <= written /\ Received \in Nat /\ n \in Nat
      /\ UNCHANGED <<payload, end, written, closed, buffer, fill, unblock, mutex,
                     fetch, need, stop, missed, consumed>>
  BY SMTT(30), StreamAssumption DEF StreamInv, StreamTypeOK, RecvCells, Received, stream, sender
<1>2. StreamTypeOK'
  BY SMTT(30), <1>1, StreamAssumption DEF StreamInv, StreamTypeOK, RecvStates
<1>3. Framed' /\ NeedRight'
  BY <1>1 DEF StreamInv, Framed, NeedRight
<1>4. InOrder'
  <2>1. fill \in Nat /\ consumed \in Nat /\ consumed + fill = Received
    BY <1>1 DEF StreamInv, InOrder, StreamTypeOK
  <2>2. Received' = Received + n
    BY <1>1 DEF Received
  <2> QED
    BY <1>1, <2>1, <2>2 DEF StreamInv, InOrder
<1>5. WaitsRight'
  BY <1>1 DEF StreamInv, WaitsRight
<1> QED
  BY <1>2, <1>3, <1>4, <1>5 DEF StreamInv

(* The receive thread pushes a chunk, or goes to wait for room.            *)
LEMMA PushInv ==
  ASSUME StreamInv, Push
  PROVE  StreamInv'
<1>1. /\ recv = "push" /\ mutex = "free"
      /\ UNCHANGED <<payload, end, written, closed, chunk, fetch, need, stop, missed, consumed, unblock>>
      /\ chunk.at \in Nat /\ chunk.n \in Nat /\ fill \in Nat /\ consumed \in Nat
      /\ fill <= BufSize /\ BufSize \in Nat /\ need \in Nat
      /\ buffer \in [0 .. BufSize - 1 -> Nat]
      /\ consumed + fill = chunk.at /\ Received <= written
  BY SMTT(30), StreamAssumption DEF StreamInv, StreamTypeOK, InOrder, Push, sender, stream
<1>2. Framed' /\ NeedRight'
  BY <1>1 DEF StreamInv, Framed, NeedRight
<1>3. CASE unblock
  <2>1. recv' = "leave" /\ UNCHANGED <<buffer, fill, mutex>>
    BY <1>3 DEF Push, stream
  <2>2. StreamTypeOK'
    BY <1>1, <2>1 DEF StreamInv, StreamTypeOK, RecvStates
  <2>3. InOrder'
    BY <1>1, <2>1 DEF StreamInv, InOrder, Received
  <2>4. WaitsRight'
    BY <1>1, <2>1 DEF StreamInv, WaitsRight
  <2> QED
    BY <1>2, <2>2, <2>3, <2>4 DEF StreamInv
<1>4. CASE ~ unblock /\ Fits
  <2>1. /\ recv' = "pushed" /\ fill' = fill + chunk.n /\ mutex' = mutex
        /\ buffer' = [c \in 0 .. BufSize - 1 |->
                        IF c >= fill /\ c < fill + chunk.n
                        THEN chunk.at + (c - fill) ELSE buffer[c]]
        /\ fill + chunk.n <= BufSize
    BY <1>4 DEF Push, Fits
  <2>2. StreamTypeOK'
    BY SMTT(30), <1>1, <2>1 DEF StreamInv, StreamTypeOK, RecvStates
  <2>3. InOrder'
    <3>1. ASSUME NEW c \in 0 .. fill' - 1 PROVE buffer'[c] = consumed + c
      <4>1. c \in 0 .. BufSize - 1
        BY <1>1, <2>1
      <4>2. CASE c < fill
        BY <1>1, <2>1, <4>1, <4>2 DEF StreamInv, InOrder
      <4>3. CASE c >= fill
        BY <1>1, <2>1, <4>1, <4>3
      <4> QED
        BY <1>1, <4>2, <4>3
    <3>2. Received' = Received /\ consumed' + fill' = Received
      BY <1>1, <2>1 DEF Received
    <3>3. /\ recv' = "pushed" /\ consumed' = consumed /\ written' = written
          /\ Received \in Nat
      BY <1>1, <2>1 DEF Received
    <3>4. /\ \A c \in 0 .. fill' - 1 : buffer'[c] = consumed' + c
          /\ consumed' + fill' <= Received' /\ Received' <= written'
      BY <1>1, <3>1, <3>2, <3>3
    <3> QED
      BY <3>2, <3>3, <3>4 DEF InOrder
  <2>4. WaitsRight'
    BY <1>1, <2>1 DEF StreamInv, WaitsRight
  <2> QED
    BY <1>2, <2>2, <2>3, <2>4 DEF StreamInv
<1>5. CASE ~ unblock /\ ~ Fits
  <2>1. recv' = "pushWait" /\ mutex' = "recv" /\ UNCHANGED <<buffer, fill>>
        /\ fill + chunk.n > BufSize
    BY <1>1, <1>5 DEF Push, Fits
  <2>2. StreamTypeOK'
    BY <1>1, <2>1 DEF StreamInv, StreamTypeOK, RecvStates
  <2>3. InOrder'
    BY <1>1, <2>1 DEF StreamInv, InOrder, Received
  <2>4. WaitsRight'
    BY <1>1, <2>1 DEF StreamInv, WaitsRight
  <2> QED
    BY <1>2, <2>2, <2>3, <2>4 DEF StreamInv
<1> QED
  BY <1>3, <1>4, <1>5

(* The other steps of the receive thread and of the owner move no cell.     *)
LEMMA RecvOtherInv ==
  ASSUME StreamInv,
         RecvTimeout \/ RecvDisconnect \/ PushWaits \/ PushNotifies
           \/ RecvLeaves \/ RecvUnblocks \/ StopSets \/ StopNotifies
  PROVE  StreamInv'
<1>1. /\ UNCHANGED <<payload, end, written, closed, buffer, fill, chunk, need, consumed>>
      /\ unblock' \in BOOLEAN /\ stop' \in {"no", "set", "done"}
      /\ missed' \subseteq {"stop", "recv"} \X {"recv", "fetch"}
      /\ recv' \in RecvStates /\ fetch' \in FetchStates /\ mutex' \in {"free", "recv", "fetch"}
  <2>1. /\ unblock \in BOOLEAN /\ stop \in {"no", "set", "done"}
        /\ missed \subseteq {"stop", "recv"} \X {"recv", "fetch"}
        /\ Unready \subseteq {"recv", "fetch"}
        /\ recv \in RecvStates /\ fetch \in FetchStates /\ mutex \in {"free", "recv", "fetch"}
    BY DEF StreamInv, StreamTypeOK, Unready
  <2>2. CASE RecvTimeout \/ RecvDisconnect \/ PushWaits \/ PushNotifies
    BY <2>1, <2>2 DEF RecvStates, FetchStates, WokenFetch, WokenRecv,
       RecvTimeout, RecvDisconnect, PushWaits, PushNotifies, sender, stream
  <2>3. CASE RecvLeaves \/ RecvUnblocks \/ StopSets \/ StopNotifies
    BY <2>1, <2>3 DEF RecvStates, FetchStates, WokenFetch, WokenRecv,
       RecvLeaves, RecvUnblocks, StopSets, StopNotifies, sender, stream
  <2> QED
    BY <2>2, <2>3
<1>2. StreamTypeOK' /\ Framed'
  BY <1>1 DEF StreamInv, StreamTypeOK, Framed
<1>3. /\ recv' \in {"push", "pushWait", "pushAsleep"} =>
           recv \in {"push", "pushWait", "pushAsleep"}
      /\ recv' \in {"recv", "pushed"} => recv \in {"recv", "pushed"}
      /\ fetch' \in {"payload", "payloadWait", "payloadAsleep"} =>
           fetch \in {"payload", "payloadWait", "payloadAsleep"}
  BY DEF WokenFetch, WokenRecv,
         RecvTimeout, RecvDisconnect, PushWaits, PushNotifies, RecvLeaves, RecvUnblocks,
         StopSets, StopNotifies
<1>4. InOrder' /\ NeedRight'
  BY <1>1, <1>3 DEF StreamInv, InOrder, NeedRight, Received
<1>5. WaitsRight'
  BY <1>1 DEF StreamInv, WaitsRight, WokenFetch, WokenRecv,
         RecvTimeout, RecvDisconnect, PushWaits, PushNotifies, RecvLeaves, RecvUnblocks,
         StopSets, StopNotifies, sender, stream
<1> QED
  BY <1>2, <1>4, <1>5 DEF StreamInv

(* The header at the front of the buffer is that of the next frame.        *)
LEMMA FetchHeaderInv ==
  ASSUME StreamInv, NEW n \in 0 .. MaxBytes, FetchHeader(n)
  PROVE  StreamInv'
<1>1. /\ fetch = "header" /\ fetch' = "payload" /\ mutex = "free" /\ mutex' = "fetch"
      /\ need' = Hdr + n /\ n \in Nat /\ Hdr \in Nat /\ Hdr > 0 /\ fill >= Hdr
      /\ fill \in Nat /\ consumed \in Nat
      /\ UNCHANGED <<payload, end, written, closed, buffer, fill, unblock, recv, chunk,
                     stop, missed, consumed>>
  BY StreamAssumption DEF StreamInv, StreamTypeOK, FetchHeader, FrameSize, sender
<1>2. consumed \in DOMAIN payload /\ n = payload[consumed]
  <2>1. 0 \in 0 .. fill - 1
    BY <1>1
  <2>2. buffer[0] = consumed + 0
    BY <2>1 DEF StreamInv, InOrder
  <2>3. consumed < end
    BY <1>1 DEF StreamInv, InOrder, Framed, StreamTypeOK, Received
  <2>4. consumed \in DOMAIN payload
    BY <1>1, <2>3 DEF StreamInv, Framed, StreamTypeOK
  <2>5. buffer[0] = consumed
    BY <1>1, <2>2
  <2> QED
    BY <2>4, <2>5 DEF FetchHeader, HeaderStates
<1>3. StreamTypeOK' /\ Framed'
  <2>1. need' \in Nat /\ fetch' \in FetchStates /\ mutex' \in {"free", "recv", "fetch"}
    BY <1>1 DEF FetchStates
  <2>2. StreamTypeOK'
    BY SMTT(30), <1>1, <2>1 DEF StreamInv, StreamTypeOK
  <2> QED
    BY <1>1, <2>2 DEF StreamInv, Framed
<1>4. InOrder' /\ NeedRight'
  BY <1>1, <1>2 DEF StreamInv, InOrder, NeedRight, Received
<1>5. WaitsRight'
  BY <1>1 DEF StreamInv, WaitsRight
<1> QED
  BY <1>3, <1>4, <1>5 DEF StreamInv

(* The frame is taken from the front of the buffer.                        *)
LEMMA FetchPayloadInv ==
  ASSUME StreamInv, FetchPayload
  PROVE  StreamInv'
<1>1. /\ fetch = "payload" /\ fetch' = "fetched" /\ mutex \in {"free", "fetch"}
      /\ mutex' = "free" /\ need <= fill /\ fill' = fill - need
      /\ consumed' = consumed + need /\ buffer' = Moved(need)
      /\ need \in Nat /\ fill \in Nat /\ consumed \in Nat /\ Hdr \in Nat
      /\ BufSize \in Nat /\ fill <= BufSize
      /\ buffer \in [0 .. BufSize - 1 -> Nat]
      /\ UNCHANGED <<payload, end, written, closed, unblock, recv, chunk, need, stop, missed>>
  <2>1. /\ need \in Nat /\ fill \in Nat /\ consumed \in Nat /\ Hdr \in Nat
        /\ BufSize \in Nat /\ fill <= BufSize /\ buffer \in [0 .. BufSize - 1 -> Nat]
    BY StreamAssumption DEF StreamInv, StreamTypeOK
  <2>2. /\ fetch = "payload" /\ fetch' = "fetched" /\ mutex \in {"free", "fetch"}
        /\ mutex' = "free" /\ need <= fill /\ fill' = fill - need
        /\ consumed' = consumed + need /\ buffer' = Moved(need)
    BY DEF FetchPayload
  <2>3. UNCHANGED <<payload, end, written, closed, unblock, recv, chunk, need, stop, missed>>
    BY DEF FetchPayload, sender
  <2> QED
    BY <2>1, <2>2, <2>3
<1>2. consumed \in DOMAIN payload /\ need = Hdr + payload[consumed]
      /\ payload[consumed] \in Nat
  BY <1>1, StreamAssumption DEF StreamInv, NeedRight, StreamTypeOK
<1>3. fill' \in Nat /\ fill' <= fill /\ consumed' + fill' = consumed + fill
  BY <1>1
<1>4. StreamTypeOK'
  <2>1. buffer' \in [0 .. BufSize - 1 -> Nat]
    BY <1>1 DEF Moved
  <2> QED
    <3>1. /\ fill' \in 0 .. BufSize /\ consumed' \in Nat
          /\ fetch' \in FetchStates /\ mutex' \in {"free", "recv", "fetch"}
      BY <1>1, <1>3 DEF FetchStates
    <3> QED
      BY SMTT(30), <1>1, <2>1, <3>1 DEF StreamInv, StreamTypeOK
<1>5. Framed'
  <2>1. consumed' \in DOMAIN payload' \cup {end'}
    <3>1. consumed + Hdr + payload[consumed] \in DOMAIN payload \cup {end}
      BY <1>2 DEF StreamInv, Framed
    <3>2. payload' = payload /\ end' = end /\ consumed' = consumed + need
          /\ consumed \in Nat /\ Hdr \in Nat
      BY <1>1
    <3> DEFINE n == payload[consumed]
    <3>3. n \in Nat /\ need = Hdr + n
      BY <1>2
    <3>4. consumed' = consumed + Hdr + n
      <4> HIDE DEF n
      <4> QED
        BY <3>2, <3>3
    <3> QED
      BY <3>1, <3>2, <3>4
  <2> QED
    BY <1>1, <2>1 DEF StreamInv, Framed
<1>6. InOrder'
  <2>1. ASSUME NEW c \in 0 .. fill' - 1 PROVE buffer'[c] = consumed' + c
    <3>1. c \in 0 .. BufSize - 1 /\ c < fill - need /\ c + need \in 0 .. fill - 1
      BY <1>1
    <3>2. buffer'[c] = buffer[c + need]
      BY <1>1, <3>1 DEF Moved
    <3>3. buffer[c + need] = consumed + (c + need)
      BY <3>1 DEF StreamInv, InOrder
    <3> QED
      BY <1>1, <3>2, <3>3
  <2> QED
    BY <1>1, <1>3, <2>1 DEF StreamInv, InOrder, Received
<1>7. NeedRight'
  BY <1>1 DEF NeedRight
<1>8. WaitsRight'
  BY <1>1, <1>3 DEF StreamInv, WaitsRight
<1> QED
  BY <1>4, <1>5, <1>6, <1>7, <1>8 DEF StreamInv

(* The other steps of the fetching thread.                                 *)
LEMMA FetchOtherInv ==
  ASSUME StreamInv,
         FetchUnblocked \/ FetchHeaderShort \/ FetchPayloadShort \/ FetchWaits \/ FetchNotifies
  PROVE  StreamInv'
<1>1. /\ UNCHANGED <<payload, end, written, closed, buffer, fill, unblock, chunk, need,
                     stop, missed, consumed>>
      /\ recv' \in RecvStates /\ fetch' \in FetchStates /\ mutex' \in {"free", "recv", "fetch"}
  BY DEF StreamInv, StreamTypeOK, RecvStates, FetchStates, WokenRecv, FetchUnblocked,
         FetchHeaderShort, FetchPayloadShort, FetchWaits, FetchNotifies, sender, stream
<1>2. StreamTypeOK' /\ Framed'
  BY <1>1 DEF StreamInv, StreamTypeOK, Framed
<1>3. /\ recv' \in {"push", "pushWait", "pushAsleep"} =>
           recv \in {"push", "pushWait", "pushAsleep"}
      /\ recv' \in {"recv", "pushed"} => recv \in {"recv", "pushed"}
      /\ fetch' \in {"payload", "payloadWait", "payloadAsleep"} =>
           fetch \in {"payload", "payloadWait", "payloadAsleep"}
  BY DEF WokenRecv, FetchUnblocked, FetchHeaderShort, FetchPayloadShort, FetchWaits, FetchNotifies
<1>4. InOrder' /\ NeedRight'
  BY <1>1, <1>3 DEF StreamInv, InOrder, NeedRight, Received
<1>5. need \in Nat /\ fill \in Nat /\ Hdr \in Nat
  BY StreamAssumption DEF StreamInv, StreamTypeOK
<1>6. WaitsRight'
  BY <1>1, <1>5 DEF StreamInv, WaitsRight, WokenRecv, FetchUnblocked, FetchHeaderShort,
         FetchPayloadShort, FetchWaits, FetchNotifies, sender, stream
<1> QED
  BY <1>2, <1>4, <1>6 DEF StreamInv

(* A step that changes nothing.                                            *)
LEMMA StutterInv ==
  ASSUME StreamInv, UNCHANGED vars_c
  PROVE  StreamInv'
BY DEF StreamInv, StreamTypeOK, Framed, InOrder, NeedRight, WaitsRight, Received, vars_c, sender, stream

(* Every step preserves the invariant.                                     *)
LEMMA NextInv == StreamInv /\ [StreamNext]_vars_c => StreamInv'
<1> SUFFICES ASSUME StreamInv, [StreamNext]_vars_c PROVE StreamInv'
  OBVIOUS
<1>1. CASE Sender
  BY <1>1, SendBeginsInv, SenderInv DEF Sender
<1>2. CASE RecvThread
  BY <1>2, RecvCellsInv, PushInv, RecvOtherInv DEF RecvThread
<1>3. CASE FetchThread
  BY <1>3, FetchHeaderInv, FetchPayloadInv, FetchOtherInv DEF FetchThread
<1>4. CASE StopSets \/ StopNotifies
  BY <1>4, RecvOtherInv
<1>5. CASE UNCHANGED vars_c
  BY <1>5, StutterInv
<1> QED
  BY <1>1, <1>2, <1>3, <1>4, <1>5 DEF StreamNext

(* The stream keeps its shape and its order, and fetch reads headers where  *)
(* frames begin (SysByteStream::push and fetch).                           *)
THEOREM StreamInvariant == StreamSpec => []StreamInv
  BY InitInv, NextInv, PTL DEF StreamSpec

THEOREM StreamTypeCorrect == StreamSpec => []StreamTypeOK
<1>1. StreamInv => StreamTypeOK
  BY DEF StreamInv
<1> QED
  BY <1>1, StreamInvariant, PTL

------------------------------------------------------------------------------
(* What each of the two waits for is out of its reach: that there is no     *)
(* room for a chunk and the frame is incomplete bounds the frame's size.    *)
LEMMA InvStandoff == StreamInv => StandoffOnlyOverLong
<1> SUFFICES ASSUME StreamInv, recv = "pushAsleep",
                    fetch \in {"headerAsleep", "payloadAsleep"}
             PROVE  /\ fetch = "payloadAsleep"
                    /\ consumed \in DOMAIN payload /\ OverLong(consumed)
  BY DEF StandoffOnlyOverLong
<1>1. /\ fill \in Nat /\ chunk.n \in Nat /\ chunk.n <= Chunk /\ BufSize \in Nat
      /\ Hdr \in Nat /\ Chunk \in Nat /\ need \in Nat /\ Hdr + Chunk <= BufSize + 1
  BY StreamAssumption DEF StreamInv, StreamTypeOK
<1>2. fill + chunk.n > BufSize
  BY DEF StreamInv, WaitsRight
<1>3. fetch = "payloadAsleep"
  <2>1. fetch # "headerAsleep"
    BY <1>1, <1>2 DEF StreamInv, WaitsRight
  <2> QED
    BY <2>1
<1>4. fill < need /\ consumed \in DOMAIN payload /\ need = Hdr + payload[consumed]
  BY <1>3 DEF StreamInv, WaitsRight, NeedRight
<1>5. need + Chunk > BufSize + 1
  BY <1>1, <1>2, <1>4
<1> QED
  BY <1>3, <1>4, <1>5 DEF OverLong

(* The receive thread and the fetching thread wait for each other, in push  *)
(* and fetch, in the middle of an over-long frame only: of any other size   *)
(* of frame, and with any pieces the stream is cut into, they never do.     *)
THEOREM StandoffNeedsOverLong == StreamSpec => []StandoffOnlyOverLong
<1>1. StreamInv => StandoffOnlyOverLong
  BY InvStandoff
<1> QED
  BY <1>1, StreamInvariant, PTL

------------------------------------------------------------------------------
(* Initial states are initial states of the channel, and each step is a     *)
(* step of the channel or leaves it as it is.                              *)
LEMMA InitMaps == StreamInit => Channel!Init
  BY DEF StreamInit, Channel!Init, NoFrame, Channel!NoFrame

LEMMA StepMaps == StreamInv /\ [StreamNext]_vars_c => [Channel!Next]_Channel!vars
<1> SUFFICES ASSUME StreamInv, [StreamNext]_vars_c PROVE [Channel!Next]_Channel!vars
  OBVIOUS
<1>1. ASSUME NEW n \in 0 .. MaxPayload, SendBegins(n) PROVE Channel!Begin(n)
  BY <1>1 DEF SendBegins, Channel!Begin, stream
<1>2. CASE SendWrites
  <2>1. Channel!Write
    BY <1>2 DEF SendWrites, Channel!Write, stream
  <2> QED
    BY <2>1 DEF Channel!Next
<1>3. CASE SenderCloses
  <2>1. Channel!Close
    BY <1>3 DEF SenderCloses, Channel!Close, stream
  <2> QED
    BY <2>1 DEF Channel!Next
<1>4. CASE FetchPayload
  <2>1. /\ fetch = "payload" /\ need <= fill /\ need \in Nat /\ fill \in Nat
        /\ consumed \in DOMAIN payload /\ need = Hdr + payload[consumed] /\ consumed \in Nat
        /\ written \in Nat /\ chunk.at \in Nat /\ chunk.n \in Nat
    BY <1>4 DEF FetchPayload, StreamInv, StreamTypeOK, NeedRight
  <2>2. consumed + fill <= written
    BY <2>1 DEF StreamInv, InOrder, Received
  <2>3. consumed + Channel!Size(consumed) <= written
    BY <2>1, <2>2 DEF Channel!Size
  <2>4. \A c \in 0 .. need - 1 : buffer[c] = consumed + c
    BY <2>1 DEF StreamInv, InOrder
  <2>5. frame' = Channel!Cells(consumed)
    BY <1>4, <2>1, <2>4 DEF FetchPayload, Channel!Cells, Channel!Size
  <2>6. consumed' = consumed + Channel!Size(consumed)
    BY <1>4, <2>1 DEF FetchPayload, Channel!Size
  <2>7. /\ ~ (fetch = "done") /\ ~ (fetch' = "done")
        /\ UNCHANGED <<payload, end, written, closed>>
    BY <1>4 DEF FetchPayload, sender
  <2>8. Channel!Deliver
    BY <2>1, <2>3, <2>5, <2>6, <2>7 DEF Channel!Deliver
  <2> QED
    BY <2>8 DEF Channel!Next
<1>5. CASE FetchUnblocked
  <2>1. Channel!End
    BY <1>5 DEF FetchUnblocked, Channel!End, sender
  <2> QED
    BY <2>1 DEF Channel!Next
<1>6. CASE \/ FetchHeaderShort \/ FetchPayloadShort \/ FetchWaits \/ FetchNotifies
           \/ \E n \in 0 .. MaxBytes : FetchHeader(n)
  <2>1. UNCHANGED <<payload, end, written, closed, consumed, frame>>
        /\ fetch # "done" /\ fetch' # "done"
    BY <1>6 DEF FetchHeaderShort, FetchPayloadShort, FetchWaits, FetchNotifies, FetchHeader,
       sender
  <2> QED
    BY <2>1 DEF Channel!vars
<1>7. CASE RecvThread \/ StopSets \/ StopNotifies
  <2>1. UNCHANGED <<payload, end, written, closed, consumed, frame>>
        /\ (fetch' = "done" <=> fetch = "done")
    BY <1>7 DEF RecvThread, RecvCells, RecvTimeout, RecvDisconnect, Push, PushWaits,
                PushNotifies, RecvLeaves, RecvUnblocks, StopSets, StopNotifies, WokenFetch, sender
  <2> QED
    BY <2>1 DEF Channel!vars
<1>8. CASE UNCHANGED vars_c
  BY <1>8 DEF vars_c, sender, Channel!vars
<1> QED
  BY <1>1, <1>2, <1>3, <1>4, <1>5, <1>6, <1>7, <1>8
     DEF StreamNext, Sender, FetchThread, Channel!Next

(* fetch returns the frames that were sent: whole, in order, each once.     *)
THEOREM StreamIsChannel == StreamSpec => ImplementsChannel
<1>1. StreamInit /\ [][StreamNext]_vars_c /\ []StreamInv => Channel!Init /\ [][Channel!Next]_Channel!vars
  BY InitMaps, StepMaps, PTL
<1> QED
  BY <1>1, StreamInvariant, PTL DEF StreamSpec, ImplementsChannel, Channel!Spec

------------------------------------------------------------------------------
(* FileDownload: first the bytes of a list of chunks and the messages under  *)
(* way; then a lemma for each action, with a step for each part of the       *)
(* invariant.                                                                *)

------------------------------------------------------------------------------
(* A set of numbers that is not empty has a least one: what holds of a       *)
(* number whenever it holds of those below holds of all.                     *)
LEMMA LeastExists ==
  ASSUME NEW T, T \subseteq Nat, T # {}
  PROVE  \E x \in T : \A y \in T : x <= y
<1> DEFINE R == OpToRel(<, Nat)
<1>1. IsWellFoundedOn(R, Nat)
  BY NatLessThanWellFounded
<1>2. PICK x \in T : \A y \in T : ~ (<<y, x>> \in R)
  <2> HIDE DEF R
  <2> QED BY <1>1, WFMin, Zenon
<1>3. \A y \in T : y \in Nat /\ x \in Nat /\ ~(y < x)
  BY <1>2 DEF OpToRel
<1>4. \A y \in T : x <= y
  BY <1>3
<1> QED BY <1>4

(* The chunks of a list joined one by one, from the first.                   *)
Joins(f, s, k) == f = [i \in 1 .. k |-> IF i = 1 THEN s[i] ELSE f[i - 1] \o s[i]]

LEMMA JoinExists ==
  ASSUME NEW B, NEW s \in Seq(Seq(B)), NEW k \in 0 .. Len(s)
  PROVE  \E f : Joins(f, s, k)
<1> DEFINE T == {n \in 0 .. Len(s) : ~ \E f : Joins(f, s, n)}
<1>1. SUFFICES ASSUME T # {} PROVE FALSE
  OBVIOUS
<1>2. Len(s) \in Nat
  BY LenProperties
<1>3. T \subseteq Nat
  BY <1>2
<1>4. PICK n \in T : \A m \in T : n <= m
  <2> HIDE DEF T
  <2> QED BY <1>1, <1>3, LeastExists
<1>5. n \in 0 .. Len(s) /\ ~ \E f : Joins(f, s, n)
  OBVIOUS
<1>6. CASE n = 0
  <2>1. Joins([i \in 1 .. 0 |-> i], s, 0)
    BY DEF Joins
  <2> QED BY <2>1, <1>5, <1>6
<1>7. CASE n # 0
  <2>0. n - 1 \in 0 .. Len(s)
    BY <1>2, <1>5, <1>7
  <2>1. n - 1 \notin T
    <3> HIDE DEF T
    <3> QED BY <1>4, <1>5, <2>0
  <2>2. PICK g : Joins(g, s, n - 1)
    BY <2>0, <2>1
  <2> DEFINE f == [i \in 1 .. n |-> IF i = n THEN (IF n = 1 THEN s[n] ELSE g[n - 1] \o s[n]) ELSE g[i]]
  <2>3. \A i \in 1 .. n - 1 : g[i] = IF i = 1 THEN s[i] ELSE g[i - 1] \o s[i]
    BY <2>2 DEF Joins
  <2>n. n \in Nat \ {0}
    BY <1>2, <1>5, <1>7
  <2>f. \A i \in 1 .. n : f[i] = IF i = n THEN (IF n = 1 THEN s[n] ELSE g[n - 1] \o s[n]) ELSE g[i]
    OBVIOUS
  <2>5. f = [i \in 1 .. n |-> f[i]]
    OBVIOUS
  <2> HIDE DEF f, T
  <2>4. ASSUME NEW i \in 1 .. n PROVE f[i] = IF i = 1 THEN s[i] ELSE f[i - 1] \o s[i]
    <3>1. CASE i = 1 /\ n = 1
      BY <3>1, <2>f
    <3>2. CASE i = 1 /\ n # 1
      <4>1. i \in 1 .. n - 1 /\ i # n
        BY <3>2, <2>n
      <4> QED BY <4>1, <3>2, <2>3, <2>f
    <3>3. CASE i # 1 /\ i = n
      <4>1. i - 1 \in 1 .. n /\ i - 1 # n
        BY <3>3, <2>n
      <4>2. f[i - 1] = g[i - 1] /\ f[i] = g[i - 1] \o s[i]
        BY <4>1, <3>3, <2>f
      <4> QED BY <4>2, <3>3
    <3>4. CASE i # 1 /\ i # n
      <4>1. i \in 1 .. n - 1 /\ i - 1 \in 1 .. n /\ i - 1 # n
        BY <3>4, <2>n
      <4>2. f[i - 1] = g[i - 1] /\ f[i] = g[i]
        BY <4>1, <3>4, <2>f
      <4> QED BY <4>1, <4>2, <3>4, <2>3
    <3> QED BY <3>1, <3>2, <3>3, <3>4
  <2>6. Joins(f, s, n)
    BY <2>4, <2>5 DEF Joins
  <2> QED BY <2>6, <1>5
<1> QED BY <1>6, <1>7

(* Joining goes on from what was joined; and it makes sequences.             *)
LEMMA JoinUnique ==
  ASSUME NEW B, NEW s \in Seq(Seq(B)), NEW t \in Seq(Seq(B)), NEW k \in Nat, NEW l \in Nat,
         k <= l, k <= Len(s), l <= Len(t), \A i \in 1 .. k : s[i] = t[i],
         NEW f, Joins(f, s, k), NEW g, Joins(g, t, l)
  PROVE  \A i \in 1 .. k : f[i] = g[i] /\ f[i] \in Seq(B)
<1> DEFINE T == {n \in 1 .. k : ~ (f[n] = g[n] /\ f[n] \in Seq(B))}
<1>1. SUFFICES ASSUME T # {} PROVE FALSE
  OBVIOUS
<1>2. T \subseteq Nat
  OBVIOUS
<1>3. PICK n \in T : \A m \in T : n <= m
  <2> HIDE DEF T
  <2> QED BY <1>1, <1>2, LeastExists
<1>4. /\ n \in 1 .. k /\ n \in 1 .. l /\ n \in 1 .. Len(s)
      /\ n # 1 => n - 1 \in 1 .. k /\ n - 1 \notin T
  BY <1>3, LenProperties
<1>5. s[n] = t[n] /\ s[n] \in Seq(B)
  BY <1>4, ElementOfSeq
<1>6. /\ f[n] = IF n = 1 THEN s[n] ELSE f[n - 1] \o s[n]
      /\ g[n] = IF n = 1 THEN t[n] ELSE g[n - 1] \o t[n]
  BY <1>4 DEF Joins
<1>7. n # 1 => f[n - 1] = g[n - 1] /\ f[n - 1] \in Seq(B)
  BY <1>4
<1>8. f[n] = g[n] /\ f[n] \in Seq(B)
  BY <1>5, <1>6, <1>7, ConcatProperties
<1> QED BY <1>8, <1>3

LEMMA JoinedIs ==
  ASSUME NEW B, NEW s \in Seq(Seq(B)), s # <<>>
  PROVE  \E f : Joins(f, s, Len(s)) /\ ConcatBytes(s) = f[Len(s)]
<1>1. Len(s) \in Nat /\ Len(s) # 0
  BY LenProperties, EmptySeq
<1> DEFINE f == CHOOSE h : Joins(h, s, Len(s))
<1>2. Joins(f, s, Len(s))
  BY <1>1, JoinExists
<1>3. f = CHOOSE h : h = [i \in 1 .. Len(s) |-> IF i = 1 THEN s[i] ELSE h[i - 1] \o s[i]]
  BY DEF Joins
<1>4. ConcatBytes(s) = f[Len(s)]
  BY <1>1, <1>3 DEF ConcatBytes, FlattenSeq
<1> QED BY <1>2, <1>4

(* concat_bytes: one chunk more is put behind the others.                     *)
LEMMA ConcatAppend ==
  ASSUME NEW B, NEW s \in Seq(Seq(B)), NEW x \in Seq(B)
  PROVE  /\ ConcatBytes(<<>>) = <<>>
         /\ ConcatBytes(s) \in Seq(B)
         /\ ConcatBytes(Append(s, x)) = ConcatBytes(s) \o x
<1> DEFINE t == Append(s, x)
<1>1. ConcatBytes(<<>>) = <<>>
  BY DEF ConcatBytes, FlattenSeq
<1>2. /\ Len(s) \in Nat /\ t \in Seq(Seq(B)) /\ t # <<>> /\ Len(t) = Len(s) + 1
      /\ \A i \in 1 .. Len(s) : t[i] = s[i]
      /\ t[Len(s) + 1] = x
  BY AppendProperties, LenProperties
<1> HIDE DEF t
<1>3. PICK g : Joins(g, t, Len(t)) /\ ConcatBytes(t) = g[Len(t)]
  BY <1>2, JoinedIs
<1>4. g[Len(s) + 1] = IF Len(s) + 1 = 1 THEN x ELSE g[Len(s)] \o x
  <2> DEFINE n == Len(s) + 1
  <2>1. n \in 1 .. Len(t) /\ n - 1 = Len(s) /\ t[n] = x
    BY <1>2
  <2> HIDE DEF n
  <2>2. g[n] = IF n = 1 THEN t[n] ELSE g[n - 1] \o t[n]
    BY <1>3, <2>1 DEF Joins
  <2> QED BY <2>1, <2>2 DEF n
<1>5. CASE s = <<>>
  <2>1. Len(s) = 0
    BY <1>5
  <2>2. ConcatBytes(t) = x
    BY <1>2, <1>3, <1>4, <2>1
  <2>3. <<>> \o x = x
    BY ConcatEmptySeq
  <2>4. <<>> \in Seq(B)
    BY EmptySeq
  <2> QED BY <2>2, <2>3, <2>4, <1>1, <1>5 DEF t
<1>6. CASE s # <<>>
  <2>1. PICK f : Joins(f, s, Len(s)) /\ ConcatBytes(s) = f[Len(s)]
    BY <1>6, JoinedIs
  <2>2. Len(s) \in 1 .. Len(s) /\ Len(s) # 0
    BY <1>2, <1>6, EmptySeq
  <2>3. /\ Len(t) \in Nat /\ Len(s) <= Len(t) /\ Len(s) <= Len(s) /\ Len(t) <= Len(t)
        /\ \A i \in 1 .. Len(s) : s[i] = t[i]
    BY <1>2
  <2>4. \A i \in 1 .. Len(s) : f[i] = g[i] /\ f[i] \in Seq(B)
    BY <1>2, <1>3, <2>1, <2>3, JoinUnique
  <2>5. ConcatBytes(t) = ConcatBytes(s) \o x
    <3>1. Len(s) + 1 # 1 /\ g[Len(s)] = ConcatBytes(s)
      BY <2>1, <2>2, <2>4
    <3> QED BY <1>2, <1>3, <1>4, <3>1
  <2> QED BY <1>1, <2>1, <2>2, <2>4, <2>5 DEF t
<1> QED BY <1>5, <1>6

------------------------------------------------------------------------------
(* Messages of which there is one of each download: what is left when the    *)
(* first is taken, and when one is added.                                    *)
LEMMA FirstTaken ==
  ASSUME NEW B, NEW s \in Seq(B), s # <<>>
  PROVE  /\ Tail(s) \in Seq(B) /\ Head(s) \in B /\ Head(s) \in Range(s)
         /\ Range(Tail(s)) \subseteq Range(s)
         /\ Range(s) \subseteq Range(Tail(s)) \cup {Head(s)}
         /\ OneOfEach(s) => /\ OneOfEach(Tail(s))
                            /\ \A m \in Range(Tail(s)) : m.d # Head(s).d
<1> DEFINE t == Tail(s)
<1>1. /\ Len(s) \in Nat \ {0} /\ DOMAIN s = 1 .. Len(s) /\ t \in Seq(B)
      /\ DOMAIN t = 1 .. Len(s) - 1
      /\ \A i \in 1 .. Len(s) - 1 : t[i] = s[i + 1]
      /\ Head(s) = s[1] /\ s[1] \in B
  BY HeadTailProperties, LenProperties, EmptySeq, ElementOfSeq
<1> HIDE DEF t
<1>2. Head(s) \in Range(s)
  BY <1>1 DEF Range
<1>3. Range(t) \subseteq Range(s)
  BY SMTT(30), <1>1 DEF Range
<1>4. ASSUME NEW m \in Range(s), m # Head(s) PROVE m \in Range(t)
  <2>1. PICK i \in 1 .. Len(s) : m = s[i]
    BY <1>1 DEF Range
  <2>2. i - 1 \in 1 .. Len(s) - 1 /\ (i - 1) + 1 = i
    BY <1>1, <1>4, <2>1
  <2>3. t[i - 1] = m
    BY <1>1, <2>1, <2>2
  <2> QED BY <1>1, <2>2, <2>3 DEF Range
<1>5. ASSUME OneOfEach(s) PROVE OneOfEach(t)
  <2> SUFFICES ASSUME NEW i \in DOMAIN t, NEW j \in DOMAIN t, t[i].d = t[j].d PROVE i = j
    BY DEF OneOfEach
  <2>1. i + 1 \in DOMAIN s /\ j + 1 \in DOMAIN s /\ t[i] = s[i + 1] /\ t[j] = s[j + 1]
    BY <1>1
  <2>2. i + 1 = j + 1
    BY <1>5, <2>1 DEF OneOfEach
  <2> QED BY <1>1, <2>2
<1>6. ASSUME OneOfEach(s), NEW m \in Range(t) PROVE m.d # Head(s).d
  <2>1. PICK i \in 1 .. Len(s) - 1 : m = t[i]
    BY <1>1 DEF Range
  <2>2. m = s[i + 1] /\ i + 1 \in DOMAIN s /\ 1 \in DOMAIN s /\ i + 1 # 1
    BY <1>1, <2>1
  <2> QED BY <1>1, <1>6, <2>2 DEF OneOfEach
<1> QED BY <1>1, <1>2, <1>3, <1>4, <1>5, <1>6 DEF t

LEMMA OneAdded ==
  ASSUME NEW B, NEW s \in Seq(B), NEW c
  PROVE  /\ Range(Append(s, c)) = Range(s) \cup {c}
         /\ c \in B => Append(s, c) \in Seq(B)
         /\ s \o <<c>> = Append(s, c)
         /\ OneOfEach(s) /\ (\A m \in Range(s) : m.d # c.d) => OneOfEach(Append(s, c))
<1> DEFINE t == Append(s, c)
           D == B \cup {c}
<1>1. s \in Seq(D) /\ c \in D
  BY SeqMonotonic
<1>2. /\ Len(s) \in Nat /\ DOMAIN s = 1 .. Len(s)
      /\ DOMAIN t = 1 .. Len(s) + 1
      /\ \A i \in 1 .. Len(s) : t[i] = s[i]
      /\ t[Len(s) + 1] = c
  <2> HIDE DEF D
  <2> QED BY <1>1, AppendProperties, LenProperties
<1>3. s \o <<c>> = t
  <2> HIDE DEF D
  <2> QED BY <1>1, AppendIsConcat
<1>4. c \in B => t \in Seq(B)
  BY AppendProperties
<1> HIDE DEF t
<1>5. Range(t) = Range(s) \cup {c}
  <2>1. ASSUME NEW m \in Range(s) PROVE m \in Range(t)
    <3>1. PICK i \in 1 .. Len(s) : m = s[i]
      BY <1>2 DEF Range
    <3>2. i \in DOMAIN t /\ t[i] = m
      BY <1>2, <3>1
    <3> QED BY <3>2 DEF Range
  <2>2. c \in Range(t)
    <3>1. Len(s) + 1 \in DOMAIN t
      BY <1>2
    <3> QED BY <1>2, <3>1 DEF Range
  <2>3. ASSUME NEW m \in Range(t), m # c PROVE m \in Range(s)
    <3>1. PICK i \in 1 .. Len(s) + 1 : m = t[i]
      BY <1>2 DEF Range
    <3>2. i \in 1 .. Len(s) /\ m = s[i]
      BY <1>2, <2>3, <3>1
    <3> QED BY <1>2, <3>2 DEF Range
  <2> QED BY <2>1, <2>2, <2>3
<1>6. ASSUME OneOfEach(s), \A m \in Range(s) : m.d # c.d PROVE OneOfEach(t)
  <2> SUFFICES ASSUME NEW i \in DOMAIN t, NEW j \in DOMAIN t, t[i].d = t[j].d PROVE i = j
    BY DEF OneOfEach
  <2>1. \A k \in 1 .. Len(s) : s[k] \in Range(s)
    BY <1>2 DEF Range
  <2>2. CASE i \in 1 .. Len(s) /\ j \in 1 .. Len(s)
    BY <1>2, <1>6, <2>2 DEF OneOfEach
  <2>3. CASE i \in 1 .. Len(s) /\ j = Len(s) + 1
    BY <1>2, <1>6, <2>1, <2>3
  <2>4. CASE i = Len(s) + 1 /\ j \in 1 .. Len(s)
    BY <1>2, <1>6, <2>1, <2>4
  <2> QED BY <1>2, <2>2, <2>3, <2>4
<1> QED BY <1>3, <1>4, <1>5, <1>6 DEF t

(* What the messages of a download are.                                      *)
LEMMA DownloadMessages ==
  ASSUME DownloadTypeOK
  PROVE  /\ \A m \in Range(up) :
              /\ m \in DownloadCalls /\ m.d \in DOMAIN downloads
              /\ m.what \in {"dlstart", "dlreceive", "dlend"}
              /\ m.what = "dlreceive" => m.chunk = NothingLeft
         /\ \A m \in Range(down) :
              /\ m \in DownloadAnswers /\ m.d \in DOMAIN downloads
              /\ m.what \in {"dlstart", "dlreceive", "dlend"}
              /\ "event" \notin DOMAIN m
              /\ m.what # "dlreceive" => m.yes \in BOOLEAN
              /\ m.what = "dlreceive" =>
                   m.chunk \in [last : BOOLEAN, data : Seq(Nat), empty : BOOLEAN]
<1>1. \A m \in Range(up) : m \in DownloadCalls
  BY ElementOfSeq, LenProperties DEF DownloadTypeOK, Range
<1>2. \A m \in Range(down) : m \in DownloadAnswers
  BY ElementOfSeq, LenProperties DEF DownloadTypeOK, Range
<1>3. \A m \in DownloadCalls :
        /\ m.d \in DOMAIN downloads
        /\ m.what \in {"dlstart", "dlreceive", "dlend"}
        /\ m.what = "dlreceive" => m.chunk = NothingLeft
  BY DEF DownloadCalls
<1>4. \A m \in DownloadAnswers :
        /\ m.d \in DOMAIN downloads
        /\ m.what \in {"dlstart", "dlreceive", "dlend"}
        /\ "event" \notin DOMAIN m
  BY SMTT(20) DEF DownloadAnswers
<1>5. \A m \in DownloadAnswers :
        /\ m.what # "dlreceive" => m.yes \in BOOLEAN
        /\ m.what = "dlreceive" =>
             m.chunk \in [last : BOOLEAN, data : Seq(Nat), empty : BOOLEAN]
  BY SMTT(20) DEF DownloadAnswers
<1> QED BY <1>1, <1>2, <1>3, <1>4, <1>5

(* What is inserted behind the last is appended.                              *)
LEMMA InsertLast ==
  ASSUME NEW B, NEW s \in Seq(B), NEW c
  PROVE  InsertAt(s, Len(s) + 1, c) = Append(s, c)
<1> DEFINE D == B \cup {c}
<1>1. s \in Seq(D) /\ c \in D
  BY SeqMonotonic
<1>2. Len(s) \in Nat
  BY LenProperties
<1>3. SubSeq(s, 1, Len(s)) = s
  BY SubSeqFull
<1>4. SubSeq(s, Len(s) + 1, Len(s)) = <<>>
  BY <1>2, SubSeqEmpty
<1>5. Len(s) + 1 - 1 = Len(s)
  BY <1>2
<1>6. InsertAt(s, Len(s) + 1, c) = s \o <<c>> \o <<>>
  <2> DEFINE f == SubSeq(s, 1, Len(s) + 1 - 1)
             g == SubSeq(s, Len(s) + 1, Len(s))
  <2>1. InsertAt(s, Len(s) + 1, c) = f \o <<c>> \o g
    BY DEF InsertAt
  <2>2. f = s /\ g = <<>>
    BY <1>3, <1>4, <1>5
  <2> HIDE DEF f, g
  <2> QED BY <2>1, <2>2
<1> HIDE DEF D
<1>7. s \o <<c>> = Append(s, c) /\ Append(s, c) \in Seq(D)
  BY <1>1, AppendIsConcat, AppendProperties
<1> QED BY <1>6, <1>7, ConcatEmptySeq

LEMMA LastAbove ==
  ASSUME NEW l \in Nat, NEW k \in 0 .. l, k # l
  PROVE  l \in k + 1 .. l /\ l \in 1 .. l
<1>1. k \in Nat /\ k <= l /\ k # l
  OBVIOUS
<1>2. k + 1 <= l /\ 1 <= l
  BY <1>1
<1> QED BY <1>1, <1>2

(* The server's answer is put behind all others, as no event is among them.  *)
LEMMA ServedLast ==
  ASSUME DownloadTypeOK, NEW a, Serve(a)
  PROVE  up' = Tail(up) /\ down' = Append(down, a)
<1>1. down \in Seq(DownloadAnswers) /\ Len(down) \in Nat /\ DOMAIN down = 1 .. Len(down)
  BY LenProperties DEF DownloadTypeOK
<1>2. \A i \in DOMAIN down : "event" \notin DOMAIN down[i]
  BY DownloadMessages DEF Range
<1>3. ASSUME NEW n \in 0 .. Len(down), Overtaking(n) PROVE n = Len(down)
  <2>1. \A i \in n + 1 .. Len(down) : "event" \in DOMAIN down[i]
    BY <1>3 DEF Overtaking
  <2>3. n # Len(down) => Len(down) \in n + 1 .. Len(down) /\ Len(down) \in DOMAIN down
    BY <1>1, LastAbove
  <2> QED BY <1>2, <2>1, <2>3
<1>4. \E n \in 0 .. Len(down) : Overtaking(n) /\ down' = InsertAt(down, n + 1, a)
  BY DEF Serve
<1>5. down' = InsertAt(down, Len(down) + 1, a)
  BY <1>3, <1>4
<1> QED BY <1>1, <1>5, InsertLast DEF Serve

(* One call is executed: its answer takes its place.                         *)
LEMMA Served ==
  ASSUME DownloadTypeOK, OneCallEach, up # <<>>, NEW a \in DownloadAnswers, a.d = Head(up).d,
         Serve(a)
  PROVE  /\ up' \in Seq(DownloadCalls) /\ down' \in Seq(DownloadAnswers)
         /\ Head(up) \in Range(up)
         /\ \A m \in Range(up') : m \in Range(up) /\ m.d # a.d
         /\ \A m \in Range(up) : m \in Range(up') \/ m = Head(up)
         /\ Range(down') = Range(down) \cup {a}
         /\ \A m \in Range(down) : m.d # a.d
         /\ OneOfEach(up') /\ OneOfEach(down')
         /\ \A m \in Range(up'), n \in Range(down') : m.d # n.d
<1>1. up' = Tail(up) /\ down' = Append(down, a)
  BY ServedLast
<1>2. up \in Seq(DownloadCalls) /\ down \in Seq(DownloadAnswers)
  BY DEF DownloadTypeOK
<1>3. /\ OneOfEach(up) /\ OneOfEach(down)
      /\ \A m \in Range(up), n \in Range(down) : m.d # n.d
  BY DEF OneCallEach
<1>4. /\ Tail(up) \in Seq(DownloadCalls) /\ Head(up) \in Range(up)
      /\ Range(Tail(up)) \subseteq Range(up)
      /\ Range(up) \subseteq Range(Tail(up)) \cup {Head(up)}
      /\ OneOfEach(Tail(up)) /\ \A m \in Range(Tail(up)) : m.d # Head(up).d
  BY <1>2, <1>3, FirstTaken
<1>5. \A m \in Range(down) : m.d # a.d
  BY <1>3, <1>4
<1>6. /\ Range(Append(down, a)) = Range(down) \cup {a}
      /\ Append(down, a) \in Seq(DownloadAnswers)
      /\ OneOfEach(Append(down, a))
  BY <1>2, <1>3, <1>5, OneAdded
<1> QED BY <1>1, <1>3, <1>4, <1>5, <1>6

(* An answer arrives.                                                        *)
LEMMA Arrived ==
  ASSUME DownloadTypeOK, OneCallEach, down # <<>>, Got
  PROVE  /\ down' \in Seq(DownloadAnswers) /\ Head(down) \in Range(down)
         /\ \A m \in Range(down') : m \in Range(down) /\ m.d # Head(down).d
         /\ \A m \in Range(down) : m \in Range(down') \/ m = Head(down)
         /\ \A m \in Range(up) : m.d # Head(down).d
         /\ OneOfEach(down')
<1>1. down' = Tail(down)
  BY DEF Got
<1>2. down \in Seq(DownloadAnswers)
  BY DEF DownloadTypeOK
<1>3. /\ OneOfEach(down)
      /\ \A m \in Range(up), n \in Range(down) : m.d # n.d
  BY DEF OneCallEach
<1>4. /\ Tail(down) \in Seq(DownloadAnswers) /\ Head(down) \in Range(down)
      /\ Range(Tail(down)) \subseteq Range(down)
      /\ Range(down) \subseteq Range(Tail(down)) \cup {Head(down)}
      /\ OneOfEach(Tail(down)) /\ \A m \in Range(Tail(down)) : m.d # Head(down).d
  BY <1>2, <1>3, FirstTaken
<1> QED BY <1>1, <1>3, <1>4

(* A call is made, or none.                                                  *)
LEMMA AskedOne ==
  ASSUME DownloadTypeOK, OneCallEach, NEW c, Ask(<<c>>)
  PROVE  /\ Range(up') = Range(up) \cup {c}
         /\ c \in DownloadCalls => up' \in Seq(DownloadCalls)
         /\ (\A m \in Range(up) : m.d # c.d) => OneOfEach(up')
<1>1. up \in Seq(DownloadCalls) /\ OneOfEach(up)
  BY DEF DownloadTypeOK, OneCallEach
<1>2. up' = Append(up, c)
  BY <1>1, OneAdded DEF Ask
<1> QED BY <1>1, <1>2, OneAdded

LEMMA AskedNone == ASSUME DownloadTypeOK, Ask(<<>>) PROVE up' = up
<1>1. up \in Seq(DownloadCalls)
  BY DEF DownloadTypeOK
<1> QED BY <1>1, ConcatEmptySeq DEF Ask

(* What is known of a message stays so while its download has the same       *)
(* chunks, and its file's stack is as it was for who got as far.             *)
LEMMA KeepsOrderUp ==
  ASSUME NEW m, NEW g, FileOf(m) = g, FileOf(m)' = g, stored_f' = stored_f,
         m.what \in {"dlstart", "dlreceive", "dlend"},
         downloads'[m.d].chunks = downloads[m.d].chunks,
         m.what # "dlstart" => \A n : Follows(g, n) => Follows(g, n)',
         InOrderUp(m)
  PROVE  InOrderUp(m)'
<1>1. SizeOf(m.d)' = SizeOf(m.d) /\ \A n : Ordered(m.d, n)' <=> Ordered(m.d, n)
  BY DEF FileOf, SizeOf, Ordered, Received_f
<1>2. CASE m.what = "dlstart"
  BY <1>2 DEF InOrderUp
<1>3. CASE m.what = "dlreceive"
  BY <1>1, <1>3 DEF InOrderUp
<1>4. CASE m.what = "dlend"
  BY <1>1, <1>4 DEF InOrderUp
<1> QED BY <1>2, <1>3, <1>4

LEMMA KeepsOrderDown ==
  ASSUME NEW m, NEW g, FileOf(m) = g, FileOf(m)' = g, stored_f' = stored_f,
         m.what \in {"dlstart", "dlreceive", "dlend"},
         downloads'[m.d].chunks = downloads[m.d].chunks,
         Granted(m) => \A n : Follows(g, n) => Follows(g, n)',
         InOrderDown(m)
  PROVE  InOrderDown(m)'
<1>1. SizeOf(m.d)' = SizeOf(m.d) /\ \A n : Ordered(m.d, n)' <=> Ordered(m.d, n)
  BY DEF FileOf, SizeOf, Ordered, Received_f
<1>2. CASE m.what = "dlstart"
  BY <1>2 DEF InOrderDown, Granted
<1>3. CASE m.what = "dlreceive"
  BY <1>1, <1>3 DEF InOrderDown, Granted
<1>4. CASE m.what = "dlend"
  BY <1>1, <1>4 DEF InOrderDown
<1> QED BY <1>2, <1>3, <1>4

------------------------------------------------------------------------------
(* The initial state: nothing was clicked.                                   *)
LEMMA DownloadInitSound ==
  ASSUME DownloadInit, up = <<>>, down = <<>>
  PROVE  DownloadInvariant
<1>1. /\ downloads = <<>> /\ transfers = <<>> /\ filename = 0 /\ reloads = 0
      /\ stored_f \in [1 .. 2 -> OnDisk \cup Elsewhere]
  BY DEF DownloadInit
<1>2. /\ DOMAIN up = {} /\ DOMAIN down = {} /\ DOMAIN downloads = {} /\ DOMAIN transfers = {}
      /\ Range(up) = {} /\ Range(down) = {}
  BY <1>1 DEF Range
<1>3. DownloadTypeOK
  <2>1. up \in Seq(DownloadCalls) /\ down \in Seq(DownloadAnswers)
    OBVIOUS
  <2>2. downloads \in Seq([f : Files_f, chunks : Seq(Seq(Nat)), saved : Seq(Nat),
                           phase : Phases_f, ahead : BOOLEAN])
    BY <1>1
  <2> QED BY <2>1, <2>2, <1>1, <1>2 DEF DownloadTypeOK
<1>4. OneCallEach /\ PageAwaits
  BY <1>2 DEF OneCallEach, OneOfEach, UnderWay, PageAwaits
<1>5. HoldersApart /\ TransfersHeld /\ ThreadsRight
  BY <1>2 DEF HoldersApart, Holding, TransfersHeld, ThreadsRight
<1>6. ChunksInOrder /\ SavedWhole /\ LastAwaits /\ PopupIsOf
  BY <1>1, <1>2 DEF ChunksInOrder, SavedWhole, LastAwaits, Asking, PopupIsOf
<1> QED BY <1>3, <1>4, <1>5, <1>6 DEF DownloadInvariant

(* A holder's file has a transfer, and those who ask are holders.            *)
LEMMA HoldersKnown ==
  ASSUME DownloadTypeOK, HoldersApart
  PROVE  /\ \A m \in Range(up) : m.what # "dlstart" => m \in Holding
         /\ \A m \in Range(down) : Granted(m) => m \in Holding
         /\ Asking \subseteq Holding
         /\ Holding \subseteq UnderWay
         /\ \A m \in Holding : FileOf(m) \in DOMAIN transfers
         /\ \A m, n \in Holding : FileOf(m) = FileOf(n) => m = n
BY DEF HoldersApart, Holding, Granted, Asking, UnderWay

(* A step of a thread on the server, which only changes its transfer.        *)
LEMMA ThreadStepSound ==
  ASSUME DownloadInvariant,
         UNCHANGED <<calls, stored_f, filename, downloads, reloads>>,
         DOMAIN transfers' = DOMAIN transfers,
         \A f \in DOMAIN transfers :
           /\ transfers'[f] \in [next : Nat, stack : Seq(Chunks_f), runs : BOOLEAN, unblock : BOOLEAN]
           /\ \A n : Follows(f, n) => Follows(f, n)',
         ThreadsRight', LastAwaits'
  PROVE  DownloadInvariant'
<1>1. /\ DownloadTypeOK /\ OneCallEach /\ PageAwaits /\ HoldersApart /\ TransfersHeld
      /\ ChunksInOrder /\ SavedWhole /\ PopupIsOf
  BY DEF DownloadInvariant
<1>2. UNCHANGED <<up, down, stored_f, filename, downloads, reloads>>
  BY DEF calls
<1>3. DownloadTypeOK'
  BY <1>1, <1>2 DEF DownloadTypeOK, DownloadCalls, DownloadAnswers, Files_f
<1>4. OneCallEach' /\ PageAwaits' /\ SavedWhole' /\ PopupIsOf'
  BY <1>1, <1>2 DEF OneCallEach, OneOfEach, PageAwaits, UnderWay, SavedWhole, PopupIsOf
<1>5. Holding' = Holding /\ \A m : FileOf(m)' = FileOf(m)
  BY <1>2 DEF Holding, Granted, FileOf
<1>6. HoldersApart' /\ TransfersHeld'
  BY <1>1, <1>2, <1>5 DEF HoldersApart, TransfersHeld
<1>7. ChunksInOrder'
  <2>0. \A m \in UnderWay : m.what \in {"dlstart", "dlreceive", "dlend"}
    BY <1>1, DownloadMessages DEF UnderWay
  <2>3. \A m \in Range(up) \cup Range(down) : m \in UnderWay
    BY DEF UnderWay
  <2>1. ASSUME NEW m \in Range(up), InOrderUp(m) PROVE InOrderUp(m)'
    <3>1. m.what # "dlstart" => \A n : Follows(FileOf(m), n) => Follows(FileOf(m), n)'
      BY <1>1, <1>5, HoldersKnown
    <3> QED BY <1>2, <1>5, <2>0, <2>1, <2>3, <3>1, KeepsOrderUp
  <2>2. ASSUME NEW m \in Range(down), InOrderDown(m) PROVE InOrderDown(m)'
    <3>1. Granted(m) => \A n : Follows(FileOf(m), n) => Follows(FileOf(m), n)'
      BY <1>1, <1>5, HoldersKnown
    <3> QED BY <1>2, <1>5, <2>0, <2>2, <2>3, <3>1, KeepsOrderDown
  <2> QED BY <1>1, <1>2, <2>1, <2>2 DEF ChunksInOrder
<1> QED BY <1>3, <1>4, <1>6, <1>7 DEF DownloadInvariant

(* The thread returns.                                                       *)
LEMMA ThreadReturnsSound ==
  ASSUME DownloadInvariant, NEW f, ThreadReturns(f)
  PROVE  DownloadInvariant'
<1>1. DownloadTypeOK /\ ThreadsRight /\ LastAwaits /\ HoldersApart
  BY DEF DownloadInvariant
<1>2. /\ UNCHANGED <<calls, stored_f, filename, downloads, reloads>>
      /\ f \in DOMAIN transfers /\ transfers[f].next = stored_f[f].size
      /\ transfers' = [transfers EXCEPT ![f] =
                     [(IF stored_f[f].disk THEN @ ELSE RequestUnblock(@)) EXCEPT !.runs = FALSE]]
  BY DEF ThreadReturns
<1>3. \A g \in DOMAIN transfers :
        transfers[g] \in [next : Nat, stack : Seq(Chunks_f), runs : BOOLEAN, unblock : BOOLEAN]
  BY <1>1 DEF DownloadTypeOK
<1>4. /\ DOMAIN transfers' = DOMAIN transfers
      /\ \A g \in DOMAIN transfers :
           /\ transfers'[g] \in [next : Nat, stack : Seq(Chunks_f), runs : BOOLEAN, unblock : BOOLEAN]
           /\ transfers'[g].next = transfers[g].next /\ transfers'[g].stack = transfers[g].stack
           /\ g # f => transfers'[g] = transfers[g]
      /\ stored_f[f].disk \/ transfers'[f].unblock
  BY <1>2, <1>3 DEF RequestUnblock
<1>5. \A g \in DOMAIN transfers : \A n : Follows(g, n) => Follows(g, n)'
  BY <1>2, <1>4 DEF Follows
<1>6. ThreadsRight'
  BY <1>1, <1>2, <1>4 DEF ThreadsRight
<1>7. LastAwaits'
  <2>1. Asking' = Asking /\ \A m : FileOf(m)' = FileOf(m)
    BY <1>2 DEF Asking, FileOf, calls
  <2>2. \A m \in Asking : FileOf(m) \in DOMAIN transfers
    BY <1>1, HoldersKnown
  <2> QED BY <1>1, <1>2, <1>4, <2>1, <2>2 DEF LastAwaits
<1> QED BY <1>2, <1>4, <1>5, <1>6, <1>7, ThreadStepSound

(* The sizes of files, and what chunks there are.                            *)
LEMMA SizesTyped ==
  ASSUME DownloadTypeOK
  PROVE  /\ \A f \in Files_f : stored_f[f].size \in Nat
         /\ \A f \in DOMAIN transfers :
              /\ f \in Files_f
              /\ transfers[f] \in
                   [next : Nat, stack : Seq(Chunks_f), runs : BOOLEAN, unblock : BOOLEAN]
BY SizesAssumption DEF DownloadTypeOK, OnDisk, Elsewhere, Files_f

LEMMA NextBoundary ==
  ASSUME NEW n \in Nat, n % DownChunk = 0
  PROVE  (n + DownChunk) % DownChunk = 0
<1> DEFINE q == n \div DownChunk
<1>1. q \in Int /\ n = (DownChunk * q) + (n % DownChunk)
  BY ChunkAssumption
<1>2. n + DownChunk = DownChunk * (q + 1)
  BY <1>1, ChunkAssumption
<1> HIDE DEF q
<1>3. (DownChunk * (q + 1)) % DownChunk = 0
  BY <1>1, ChunkAssumption
<1> QED BY <1>2, <1>3

LEMMA ChunkIs ==
  ASSUME NEW n \in Nat, NEW size \in Nat, n <= size
  PROVE  /\ ChunkAt(n, size) \in Chunks_f
         /\ ChunkAt(n, size).last <=> size - n < DownChunk
         /\ Len(ChunkAt(n, size).data) = Least(DownChunk, size - n)
         /\ Least(DownChunk, size - n) \in Nat
         /\ n + Least(DownChunk, size - n) <= size
         /\ n < size => Least(DownChunk, size - n) > 0
         /\ size - n < DownChunk => n + Least(DownChunk, size - n) = size
         /\ ~ (size - n < DownChunk) => Least(DownChunk, size - n) = DownChunk
<1> DEFINE l == Least(DownChunk, size - n)
<1>1. l \in Nat /\ l = IF DownChunk < size - n THEN DownChunk ELSE size - n
  BY ChunkAssumption DEF Least
<1> HIDE DEF l
<1>2. ChunkAt(n, size) = [last |-> size - n < DownChunk, data |-> [i \in 1 .. l |-> n + i]]
  BY DEF ChunkAt, l
<1>3. [i \in 1 .. l |-> n + i] \in Seq(Nat) /\ Len([i \in 1 .. l |-> n + i]) = l
  BY <1>1, IsASeq
<1>4. ChunkAt(n, size) \in Chunks_f /\ Len(ChunkAt(n, size).data) = l
      /\ (ChunkAt(n, size).last <=> size - n < DownChunk)
  <2> DEFINE data == [i \in 1 .. l |-> n + i]
  <2>1. data \in Seq(Nat) /\ Len(data) = l
    BY <1>3
  <2>2. ChunkAt(n, size) = [last |-> size - n < DownChunk, data |-> data]
    BY <1>2
  <2> HIDE DEF data
  <2>3. (size - n < DownChunk) \in BOOLEAN
    OBVIOUS
  <2>4. [last |-> size - n < DownChunk, data |-> data] \in [last : BOOLEAN, data : Seq(Nat)]
    BY <2>1, <2>3
  <2>5. ChunkAt(n, size) \in Chunks_f
    BY <2>2, <2>4 DEF Chunks_f
  <2>6. ChunkAt(n, size).data = data
    BY <2>2
  <2>7. ChunkAt(n, size).last = (size - n < DownChunk)
    BY <2>2
  <2> QED BY <2>1, <2>5, <2>6, <2>7
<1>5. /\ n + l <= size
      /\ n < size => l > 0
      /\ size - n < DownChunk => n + l = size
      /\ ~ (size - n < DownChunk) => l = DownChunk
  BY <1>1, ChunkAssumption
<1> QED BY <1>1, <1>4, <1>5 DEF l

(* The thread reads a chunk.                                                 *)
LEMMA PreloadsChunkSound ==
  ASSUME DownloadInvariant, NEW f, PreloadsChunk(f)
  PROVE  DownloadInvariant'
<1> DEFINE t == transfers[f]
           size == stored_f[f].size
           piece == ChunkAt(t.next, size)
           l == Len(piece.data)
<1>1. DownloadTypeOK /\ ThreadsRight /\ LastAwaits /\ HoldersApart
  BY DEF DownloadInvariant
<1>2. /\ UNCHANGED <<calls, stored_f, filename, downloads, reloads>>
      /\ f \in DOMAIN transfers /\ t.next < size
      /\ transfers' = [transfers EXCEPT ![f].stack = Append(@, piece), ![f].next = @ + l]
  BY DEF PreloadsChunk
<1>3. /\ size \in Nat
      /\ t \in [next : Nat, stack : Seq(Chunks_f), runs : BOOLEAN, unblock : BOOLEAN]
  BY <1>1, <1>2, SizesTyped
<1>4. t.next <= size /\ t.next % DownChunk = 0 /\ t.runs
  BY <1>1, <1>2, <1>3 DEF ThreadsRight
<1>5. /\ piece \in Chunks_f /\ l \in Nat /\ l > 0 /\ t.next + l <= size
      /\ piece.last <=> size - t.next < DownChunk
      /\ size - t.next < DownChunk => t.next + l = size
      /\ ~ (size - t.next < DownChunk) => l = DownChunk
  <2> HIDE DEF t, size
  <2>1. t.next \in Nat /\ size \in Nat /\ t.next <= size /\ t.next < size
    BY <1>2, <1>3, <1>4
  <2> DEFINE k == Least(DownChunk, size - t.next)
  <2>2. /\ piece \in Chunks_f /\ l = k /\ k \in Nat /\ k > 0 /\ t.next + k <= size
        /\ piece.last <=> size - t.next < DownChunk
        /\ size - t.next < DownChunk => t.next + k = size
        /\ ~ (size - t.next < DownChunk) => k = DownChunk
    BY <2>1, ChunkIs
  <2> HIDE DEF k, l, piece
  <2> QED BY <2>2
<1> DEFINE stack == Append(t.stack, piece)
<1>6. /\ stack \in Seq(Chunks_f) /\ Len(t.stack) \in Nat /\ DOMAIN stack = 1 .. Len(t.stack) + 1
      /\ Len(stack) = Len(t.stack) + 1 /\ stack # <<>>
      /\ stack[Len(t.stack) + 1] = piece
      /\ Len(t.stack) = 0 => t.stack = <<>>
  <2> HIDE DEF piece, t
  <2> QED BY <1>3, <1>5, AppendProperties, LenProperties, EmptySeq
<1> HIDE DEF t, size, piece, l, stack
<1>7. /\ DOMAIN transfers' = DOMAIN transfers
      /\ transfers'[f] = [t EXCEPT !.stack = stack, !.next = t.next + l]
      /\ \A g \in DOMAIN transfers : g # f => transfers'[g] = transfers[g]
  BY <1>2 DEF t, stack
<1>8. transfers'[f].stack = stack /\ transfers'[f].next = t.next + l /\ transfers'[f].runs
  BY <1>3, <1>4, <1>7
<1>9. ASSUME NEW g \in DOMAIN transfers
      PROVE  transfers'[g] \in [next : Nat, stack : Seq(Chunks_f), runs : BOOLEAN, unblock : BOOLEAN]
  <2>1. CASE g = f
    <3>1. t.next + l \in Nat
      BY <1>3, <1>5
    <3>2. [t EXCEPT !.stack = stack, !.next = t.next + l]
            \in [next : Nat, stack : Seq(Chunks_f), runs : BOOLEAN, unblock : BOOLEAN]
      BY <1>3, <1>6, <3>1
    <3> QED BY <1>7, <2>1, <3>2
  <2>2. CASE g # f
    BY <1>1, <1>7, <2>2, SizesTyped
  <2> QED BY <2>1, <2>2
<1>10. ASSUME NEW g \in DOMAIN transfers, NEW n, Follows(g, n) PROVE Follows(g, n)'
  <2>1. CASE g = f
    <3>1. /\ n \in 0 .. t.next
          /\ t.stack = <<>> <=> n = t.next
      BY <1>10, <2>1 DEF Follows, t
    <3>2. n \in 0 .. t.next + l /\ n # t.next + l
      BY <3>1, <1>3, <1>5
    <3>3. Len(stack) = 1 => n = t.next /\ stack[1] = piece
      <4> SUFFICES ASSUME Len(stack) = 1 PROVE n = t.next /\ stack[1] = piece
        OBVIOUS
      <4>0. Len(t.stack) + 1 = 1 /\ Len(t.stack) \in Nat
        BY <1>6, Zenon
      <4>1. Len(t.stack) = 0 /\ Len(t.stack) + 1 = 1
        BY <4>0
      <4> QED BY <4>1, <3>1, <1>6
    <3>4. piece = ChunkAt(t.next, stored_f[f].size) /\ stored_f' = stored_f
      BY <1>2 DEF piece, size
    <3> QED BY <3>2, <3>3, <3>4, <1>6, <1>8, <2>1 DEF Follows, l
  <2>2. CASE g # f
    BY <1>2, <1>7, <1>10, <2>2 DEF Follows
  <2> QED BY <2>1, <2>2
<1>11. ~ (size - t.next < DownChunk) => (t.next + l) % DownChunk = 0
  BY <1>3, <1>4, <1>5, NextBoundary
<1>12. ThreadsRight'
  <2>1. t.next + l <= size /\ ((t.next + l) % DownChunk = 0 \/ t.next + l = size)
    BY <1>5, <1>11
  <2> QED BY <1>1, <1>2, <1>7, <1>8, <2>1 DEF ThreadsRight, size
<1>13. LastAwaits'
  <2>1. Asking' = Asking /\ \A m : FileOf(m)' = FileOf(m)
    BY <1>2 DEF Asking, FileOf, calls
  <2>2. \A m \in Asking : FileOf(m) \in DOMAIN transfers
    BY <1>1, HoldersKnown
  <2> SUFFICES ASSUME NEW m \in Asking,
                      transfers'[FileOf(m)].next = stored_f[FileOf(m)].size,
                      transfers'[FileOf(m)].next % DownChunk # 0
               PROVE  \E i \in DOMAIN transfers'[FileOf(m)].stack :
                        transfers'[FileOf(m)].stack[i].last
    BY <1>2, <2>1 DEF LastAwaits
  <2>3. CASE FileOf(m) = f
    <3>1. piece.last
      BY <1>5, <1>8, <1>11, <2>3
    <3>2. Len(t.stack) + 1 \in DOMAIN stack /\ stack[Len(t.stack) + 1].last
      BY <1>6, <3>1
    <3> QED BY <1>8, <2>3, <3>2
  <2>4. CASE FileOf(m) # f
    <3>1. transfers'[FileOf(m)] = transfers[FileOf(m)]
      BY <1>7, <2>2, <2>4
    <3> QED BY <1>1, <3>1 DEF LastAwaits
  <2> QED BY <2>3, <2>4
<1> QED BY <1>2, <1>7, <1>9, <1>10, <1>12, <1>13, ThreadStepSound

(* A file is clicked: one download more.                                     *)
LEMMA ClickFileSound ==
  ASSUME DownloadInvariant, NEW f \in Files_f, ClickFile(f)
  PROVE  DownloadInvariant'
<1> DEFINE new == Len(downloads) + 1
           r == [f |-> f, chunks |-> <<>>, saved |-> <<>>, phase |-> "start", ahead |-> FALSE]
           c == [what |-> "dlstart", d |-> new]
           Downloads == [f : Files_f, chunks : Seq(Seq(Nat)), saved : Seq(Nat), phase : Phases_f,
                         ahead : BOOLEAN]
<1>1. /\ DownloadTypeOK /\ OneCallEach /\ PageAwaits /\ HoldersApart /\ TransfersHeld
      /\ ThreadsRight /\ ChunksInOrder /\ SavedWhole /\ LastAwaits /\ PopupIsOf
  BY DEF DownloadInvariant
<1>2. /\ filename = 0 /\ UNCHANGED <<down, stored_f, transfers, filename, reloads>>
      /\ downloads' = Append(downloads, r)
      /\ Ask(<<c>>)
  BY DEF ClickFile
<1>3. r \in Downloads
  BY DEF Phases_f
<1>4. downloads \in Seq(Downloads)
  BY <1>1 DEF DownloadTypeOK
<1> HIDE DEF r, Downloads
<1>5. /\ downloads' \in Seq(Downloads)
      /\ Len(downloads) \in Nat /\ DOMAIN downloads = 1 .. Len(downloads)
      /\ DOMAIN downloads' = 1 .. new
      /\ \A d \in DOMAIN downloads : downloads'[d] = downloads[d]
      /\ downloads'[new] = r
  BY <1>2, <1>3, <1>4, AppendProperties, LenProperties
<1>6. DOMAIN downloads' = DOMAIN downloads \cup {new} /\ new \notin DOMAIN downloads
  BY <1>5
<1> HIDE DEF new
<1>7. /\ \A m \in UnderWay : m.d \in DOMAIN downloads /\ m.what \in {"dlstart", "dlreceive", "dlend"}
      /\ \A m \in Range(up) : m \in UnderWay
      /\ \A m \in Range(down) : m \in UnderWay
  BY <1>1, DownloadMessages DEF UnderWay
<1>8. \A m \in UnderWay : m.d # c.d /\ downloads'[m.d] = downloads[m.d] /\ FileOf(m)' = FileOf(m)
  BY <1>5, <1>6, <1>7 DEF FileOf
<1>9. Range(up') = Range(up) \cup {c} /\ OneOfEach(up') /\ Range(down') = Range(down)
      /\ up' = Append(up, c)
  <2>1. up \in Seq(DownloadCalls)
    BY <1>1 DEF DownloadTypeOK
  <2>2. up' = Append(up, c)
    BY <1>2, <2>1, OneAdded DEF Ask
  <2> QED BY <1>1, <1>2, <1>7, <1>8, <2>2, AskedOne
<1>10. DownloadTypeOK'
  <2>1. DownloadCalls \subseteq DownloadCalls' /\ DownloadAnswers \subseteq DownloadAnswers'
    BY <1>6 DEF DownloadCalls, DownloadAnswers
  <2>2. c \in DownloadCalls'
    BY <1>6 DEF DownloadCalls
  <2>3. up \in Seq(DownloadCalls') /\ down' \in Seq(DownloadAnswers')
    BY <1>1, <1>2, <2>1, SeqMonotonic DEF DownloadTypeOK
  <2>4. up' \in Seq(DownloadCalls')
    BY <1>9, <2>2, <2>3, AppendProperties
  <2>5. downloads' \in Seq([f : Files_f, chunks : Seq(Seq(Nat)), saved : Seq(Nat),
                            phase : Phases_f, ahead : BOOLEAN])
    BY <1>5 DEF Downloads
  <2> QED BY <1>1, <1>2, <2>3, <2>4, <2>5 DEF DownloadTypeOK, Files_f
<1>11. r.phase = "start" /\ r.chunks = <<>> /\ r.f = f
  BY DEF r
<1>12. OneCallEach'
  <2>1. OneOfEach(down') /\ \A m \in Range(up'), n \in Range(down') : m.d # n.d
    BY <1>1, <1>2, <1>7, <1>8, <1>9 DEF OneCallEach
  <2>2. ASSUME NEW m \in UnderWay'
        PROVE  LET p == downloads'[m.d].phase
               IN p = "left" \/ (p \in DOMAIN CallOf /\ m.what = CallOf[p])
    <3>1. CASE m \in UnderWay
      BY <1>1, <1>8, <3>1 DEF OneCallEach
    <3>2. CASE m = c
      BY <1>5, <1>11, <3>2 DEF CallOf
    <3> QED BY <1>9, <2>2, <3>1, <3>2 DEF UnderWay
  <2> QED BY <1>9, <2>1, <2>2 DEF OneCallEach
<1>13. PageAwaits'
  <2>1. UnderWay \subseteq UnderWay' /\ c \in UnderWay'
    BY <1>9 DEF UnderWay
  <2> QED BY <1>1, <1>5, <1>6, <2>1 DEF PageAwaits
<1>14. Holding' = Holding /\ Asking' = Asking /\ \A m \in Holding : m \in UnderWay
  BY <1>9 DEF Holding, Asking, Granted, UnderWay
<1>15. HoldersApart' /\ TransfersHeld'
  <2>1. HoldersApart'
    BY <1>1, <1>2, <1>8, <1>14 DEF HoldersApart
  <2>2. TransfersHeld'
    BY <1>1, <1>2, <1>5, <1>6, <1>14 DEF TransfersHeld
  <2> QED BY <2>1, <2>2
<1>16. ThreadsRight'
  BY <1>1, <1>2 DEF ThreadsRight
<1>17. ChunksInOrder'
  <2>1. \A g, n : Follows(g, n)' <=> Follows(g, n)
    BY <1>2 DEF Follows
  <2>2. ASSUME NEW m \in Range(up), InOrderUp(m) PROVE InOrderUp(m)'
    BY <1>2, <1>7, <1>8, <2>1, <2>2, KeepsOrderUp
  <2>3. ASSUME NEW m \in Range(down), InOrderDown(m) PROVE InOrderDown(m)'
    BY <1>2, <1>7, <1>8, <2>1, <2>3, KeepsOrderDown
  <2>4. ASSUME NEW m, m = c PROVE InOrderUp(m)'
    <3>1. m.what = "dlstart" /\ downloads'[m.d].chunks = <<>>
      BY <1>5, <1>11, <2>4
    <3> QED BY <3>1 DEF InOrderUp
  <2>5. \A m \in Range(up') : ~ downloads'[m.d].ahead => InOrderUp(m)'
    <3> HIDE DEF c
    <3> QED BY <1>1, <1>7, <1>8, <1>9, <2>2, <2>4 DEF ChunksInOrder
  <2>6. \A m \in Range(down') : ~ downloads'[m.d].ahead => InOrderDown(m)'
    BY <1>1, <1>7, <1>8, <1>9, <2>3 DEF ChunksInOrder
  <2> QED BY <2>5, <2>6 DEF ChunksInOrder
<1>18. SavedWhole'
  BY SMTT(30), <1>1, <1>2, <1>5, <1>6, <1>11 DEF SavedWhole
<1>19. LastAwaits'
  <2>1. Asking \subseteq Holding
    BY <1>1, HoldersKnown
  <2> QED BY <1>1, <1>2, <1>8, <1>14, <2>1 DEF LastAwaits
<1>20. PopupIsOf'
  BY <1>2 DEF PopupIsOf
<1> QED BY <1>10, <1>12, <1>13, <1>15, <1>16, <1>17, <1>18, <1>19, <1>20 DEF DownloadInvariant

(* The page is left: the calls that are under way are nobody's.              *)
LEMMA LeavesPageSound ==
  ASSUME DownloadInvariant, LeavesPage
  PROVE  DownloadInvariant'
<1> DEFINE Downloads == [f : Files_f, chunks : Seq(Seq(Nat)), saved : Seq(Nat), phase : Phases_f,
                         ahead : BOOLEAN]
<1>1. /\ DownloadTypeOK /\ OneCallEach /\ PageAwaits /\ HoldersApart /\ TransfersHeld
      /\ ThreadsRight /\ ChunksInOrder /\ SavedWhole /\ LastAwaits /\ PopupIsOf
  BY DEF DownloadInvariant
<1>2. /\ UNCHANGED <<up, down, stored_f, transfers>> /\ filename' = 0 /\ reloads' = reloads + 1
      /\ downloads' = [d \in DOMAIN downloads |->
           IF downloads[d].phase \in {"start", "receive", "end"}
           THEN [downloads[d] EXCEPT !.phase = "left"] ELSE downloads[d]]
  BY DEF LeavesPage, calls
<1>3. /\ downloads \in Seq(Downloads) /\ Len(downloads) \in Nat
      /\ DOMAIN downloads = 1 .. Len(downloads)
      /\ \A d \in DOMAIN downloads : downloads[d] \in Downloads
  <2>1. downloads \in Seq(Downloads)
    BY <1>1 DEF DownloadTypeOK
  <2> HIDE DEF Downloads
  <2> QED BY <2>1, LenProperties, ElementOfSeq
<1>4. /\ DOMAIN downloads' = DOMAIN downloads
      /\ \A d \in DOMAIN downloads :
           /\ downloads'[d] \in Downloads
           /\ downloads'[d].f = downloads[d].f /\ downloads'[d].chunks = downloads[d].chunks
           /\ downloads'[d].saved = downloads[d].saved /\ downloads'[d].ahead = downloads[d].ahead
           /\ downloads'[d].phase =
                IF downloads[d].phase \in {"start", "receive", "end"} THEN "left"
                ELSE downloads[d].phase
  BY <1>2, <1>3 DEF Phases_f
<1>5. downloads' \in Seq(Downloads)
  <2> HIDE DEF Downloads
  <2>1. downloads' = [d \in 1 .. Len(downloads) |-> downloads'[d]]
    BY <1>2, <1>3
  <2> QED BY <1>3, <1>4, <2>1, IsASeq
<1>6. /\ \A m \in UnderWay : m.d \in DOMAIN downloads /\ m.what \in {"dlstart", "dlreceive", "dlend"}
                             /\ FileOf(m)' = FileOf(m)
      /\ \A m \in Range(up) : m \in UnderWay
      /\ \A m \in Range(down) : m \in UnderWay
      /\ UnderWay' = UnderWay
  BY <1>1, <1>2, <1>4, DownloadMessages DEF UnderWay, FileOf
<1>7. DownloadTypeOK'
  BY <1>1, <1>2, <1>4, <1>5 DEF DownloadTypeOK, DownloadCalls, DownloadAnswers, Files_f
<1>8. OneCallEach'
  BY <1>1, <1>2, <1>4, <1>6 DEF OneCallEach, CallOf
<1>9. PageAwaits'
  BY <1>4 DEF PageAwaits, CallOf
<1>10. Holding' = Holding /\ Asking' = Asking /\ \A m \in Holding : m \in UnderWay
  BY <1>2 DEF Holding, Asking, Granted, UnderWay
<1>11. HoldersApart' /\ TransfersHeld'
  <2>1. HoldersApart'
    BY <1>1, <1>2, <1>6, <1>10 DEF HoldersApart
  <2>2. TransfersHeld'
    BY <1>1, <1>2, <1>4, <1>10 DEF TransfersHeld
  <2> QED BY <2>1, <2>2
<1>12. ThreadsRight' /\ PopupIsOf'
  BY <1>1, <1>2 DEF ThreadsRight, PopupIsOf
<1>13. ChunksInOrder'
  <2>1. \A g, n : Follows(g, n)' <=> Follows(g, n)
    BY <1>2 DEF Follows
  <2>2. ASSUME NEW m \in Range(up), InOrderUp(m) PROVE InOrderUp(m)'
    BY <1>2, <1>4, <1>6, <2>1, <2>2, KeepsOrderUp
  <2>3. ASSUME NEW m \in Range(down), InOrderDown(m) PROVE InOrderDown(m)'
    BY <1>2, <1>4, <1>6, <2>1, <2>3, KeepsOrderDown
  <2> QED BY <1>1, <1>2, <1>4, <1>6, <2>2, <2>3 DEF ChunksInOrder
<1>14. SavedWhole'
  BY <1>1, <1>2, <1>4 DEF SavedWhole
<1>15. LastAwaits'
  <2>1. Asking \subseteq Holding
    BY <1>1, HoldersKnown
  <2> QED BY <1>1, <1>2, <1>6, <1>10, <2>1 DEF LastAwaits
<1> QED BY <1>7, <1>8, <1>9, <1>11, <1>12, <1>13, <1>14, <1>15 DEF DownloadInvariant

------------------------------------------------------------------------------
(* The server executes a call: its answer is what is under way of it.        *)
LEMMA ServedCalls ==
  ASSUME DownloadInvariant, up # <<>>, NEW a \in DownloadAnswers,
         a.d = Head(up).d, a.what = Head(up).what, Serve(a),
         DOMAIN downloads' = DOMAIN downloads,
         \A d \in DOMAIN downloads : downloads'[d].phase = downloads[d].phase
  PROVE  /\ up' \in Seq(DownloadCalls') /\ down' \in Seq(DownloadAnswers')
         /\ OneCallEach' /\ PageAwaits'
<1>1. DownloadTypeOK /\ OneCallEach /\ PageAwaits
  BY DEF DownloadInvariant
<1>2. /\ up' \in Seq(DownloadCalls) /\ down' \in Seq(DownloadAnswers)
      /\ Head(up) \in Range(up)
      /\ \A m \in Range(up') : m \in Range(up)
      /\ \A m \in Range(up) : m \in Range(up') \/ m = Head(up)
      /\ Range(down') = Range(down) \cup {a}
      /\ OneOfEach(up') /\ OneOfEach(down')
      /\ \A m \in Range(up'), n \in Range(down') : m.d # n.d
  BY <1>1, Served
<1>3. DownloadCalls' = DownloadCalls /\ DownloadAnswers' = DownloadAnswers
  BY DEF DownloadCalls, DownloadAnswers
<1>4. \A m \in UnderWay' : m \in UnderWay \/ m = a
  BY <1>2 DEF UnderWay
<1>5. \A m \in UnderWay : m \in UnderWay' \/ m = Head(up)
  BY <1>2 DEF UnderWay
<1>6. Head(up) \in UnderWay /\ a \in UnderWay'
  BY <1>2 DEF UnderWay
<1>7. \A m \in UnderWay : m.d \in DOMAIN downloads
  BY <1>1, DownloadMessages DEF UnderWay
<1>8. OneCallEach'
  BY <1>1, <1>2, <1>4, <1>6, <1>7 DEF OneCallEach
<1>9. PageAwaits'
  BY <1>1, <1>5, <1>6 DEF PageAwaits
<1> QED BY <1>2, <1>3, <1>8, <1>9

(* The answer to a call that is granted or not.                              *)
LEMMA AnswerIs ==
  ASSUME NEW D, NEW m \in [what : {"dlstart", "dlend"}, d : D], NEW y \in BOOLEAN
  PROVE  LET a == Answer(m, y)
         IN /\ a \in [what : {"dlstart", "dlend"}, d : D, yes : BOOLEAN]
            /\ a.what = m.what /\ a.d = m.d /\ a.yes = y
BY DEF Answer

(* A start is executed.                                                      *)
LEMMA ServeDownloadStartSound ==
  ASSUME DownloadInvariant, ServeDownloadStart
  PROVE  DownloadInvariant'
<1>a. PICK h : h = Head(up)
  OBVIOUS
<1>b. PICK f : f = FileOf(h)
  OBVIOUS
<1>c. PICK starts \in BOOLEAN : starts <=> stored_f[f].row /\ f \notin DOMAIN transfers
  OBVIOUS
<1>d. PICK a : a = Answer(h, starts)
  OBVIOUS
<1>1. /\ DownloadTypeOK /\ OneCallEach /\ PageAwaits /\ HoldersApart /\ TransfersHeld
      /\ ThreadsRight /\ ChunksInOrder /\ SavedWhole /\ LastAwaits /\ PopupIsOf
  BY DEF DownloadInvariant
<1>2. /\ up # <<>> /\ h.what = "dlstart" /\ Serve(a)
      /\ transfers' = IF starts
                      THEN [g \in DOMAIN transfers \cup {f} |->
                              IF g = f THEN Fresh_f ELSE transfers[g]]
                      ELSE transfers
      /\ UNCHANGED <<stored_f, filename, downloads, reloads>>
  <2>1. (stored_f[f].row /\ f \notin DOMAIN transfers) = starts
    BY <1>c
  <2> QED BY <1>a, <1>b, <1>d, <2>1 DEF ServeDownloadStart, Serving
<1>3. up \in Seq(DownloadCalls)
  BY <1>1 DEF DownloadTypeOK
<1>4. h \in Range(up) /\ h \in DownloadCalls /\ h.d \in DOMAIN downloads
  BY <1>1, <1>2, <1>3, <1>a, FirstTaken, DownloadMessages
<1>5. h \in [what : {"dlstart", "dlend"}, d : DOMAIN downloads]
  BY <1>2, <1>4 DEF DownloadCalls
<1>6. /\ a \in [what : {"dlstart", "dlend"}, d : DOMAIN downloads, yes : BOOLEAN]
      /\ a.what = "dlstart" /\ a.d = h.d /\ a.yes = starts
  BY <1>2, <1>5, <1>d, AnswerIs
<1>7. a \in DownloadAnswers
  BY <1>6 DEF DownloadAnswers
<1>8. downloads[h.d].f = f /\ f \in Files_f /\ stored_f[f].size \in Nat
  <2> DEFINE D == [f : Files_f, chunks : Seq(Seq(Nat)), saved : Seq(Nat), phase : Phases_f,
                   ahead : BOOLEAN]
  <2>1. downloads[h.d].f \in Files_f
    <3>1. downloads \in Seq(D)
      BY <1>1 DEF DownloadTypeOK
    <3>2. downloads[h.d] \in D
      <4> HIDE DEF D
      <4> QED BY <1>4, <3>1, ElementOfSeq, LenProperties
    <3> QED BY <3>2
  <2> QED BY <2>1, <1>1, <1>b, SizesTyped DEF FileOf
<1>9. /\ DOMAIN transfers \subseteq DOMAIN transfers'
      /\ \A g \in DOMAIN transfers : transfers'[g] = transfers[g]
      /\ starts => DOMAIN transfers' = DOMAIN transfers \cup {f} /\ transfers'[f] = Fresh_f
                   /\ f \notin DOMAIN transfers
      /\ ~ starts => transfers' = transfers
  <2>1. CASE starts
    <3>1. f \notin DOMAIN transfers
      BY <1>c, <2>1
    <3> QED BY <1>2, <2>1, <3>1
  <2>2. CASE ~ starts
    BY <1>2, <2>2
  <2> QED BY <2>1, <2>2
<1>10. /\ up' \in Seq(DownloadCalls') /\ down' \in Seq(DownloadAnswers')
       /\ OneCallEach' /\ PageAwaits'
  BY <1>2, <1>6, <1>7, <1>a, ServedCalls
<1>11. /\ \A m \in Range(up') : m \in Range(up)
       /\ \A m \in Range(up) : m \in Range(up') \/ m = h
       /\ Range(down') = Range(down) \cup {a}
  BY <1>1, <1>2, <1>6, <1>7, <1>a, Served
<1>12. \A m : FileOf(m)' = FileOf(m)
  BY <1>2 DEF FileOf
<1>13. FileOf(a) = f
  BY <1>6, <1>b DEF FileOf
<1>14. DownloadTypeOK'
  <2>1. Fresh_f \in [next : Nat, stack : Seq(Chunks_f), runs : BOOLEAN, unblock : BOOLEAN]
    BY DEF Fresh_f
  <2>2. ASSUME NEW g \in DOMAIN transfers'
        PROVE  /\ g \in Files_f
               /\ transfers'[g] \in
                    [next : Nat, stack : Seq(Chunks_f), runs : BOOLEAN, unblock : BOOLEAN]
    <3>1. CASE g \in DOMAIN transfers
      BY <1>1, <1>9, <3>1, SizesTyped
    <3>2. CASE g \notin DOMAIN transfers
      BY <1>8, <1>9, <2>1, <3>2
    <3> QED BY <3>1, <3>2
  <2> QED BY <1>1, <1>2, <1>10, <2>2 DEF DownloadTypeOK, Files_f
<1>15. /\ \A m \in Holding : m \in Holding' /\ FileOf(m) \in DOMAIN transfers
       /\ \A m \in Holding' : m \in Holding \/ (m = a /\ starts)
       /\ starts => a \in Holding'
  <2>1. \A m \in Holding : m \in Holding' /\ FileOf(m) \in DOMAIN transfers
    BY <1>1, <1>2, <1>11 DEF Holding, HoldersApart
  <2>2. Granted(a) <=> starts
    BY <1>6 DEF Granted
  <2> QED BY <1>11, <2>1, <2>2 DEF Holding, Granted
<1>16. HoldersApart'
  BY <1>1, <1>9, <1>12, <1>13, <1>15 DEF HoldersApart
<1>17. TransfersHeld'
  <2> SUFFICES ASSUME NEW g \in DOMAIN transfers'
               PROVE  \E d \in DOMAIN downloads :
                        /\ downloads[d].f = g
                        /\ \/ downloads[d].ahead \/ downloads[d].phase \in {"left", "thrown"}
                           \/ \E m \in Holding' : m.d = d
    BY <1>2 DEF TransfersHeld
  <2>1. CASE g \in DOMAIN transfers
    BY <1>1, <1>15, <2>1 DEF TransfersHeld
  <2>2. CASE g \notin DOMAIN transfers
    BY <1>4, <1>6, <1>8, <1>9, <1>15, <2>2
  <2> QED BY <2>1, <2>2
<1>18. ThreadsRight'
  <2>1. 0 <= stored_f[f].size /\ 0 % DownChunk = 0
    BY <1>8, ChunkAssumption
  <2> QED BY <1>1, <1>2, <1>9, <2>1 DEF ThreadsRight, Fresh_f
<1>19. ChunksInOrder'
  <2>1. \A g \in DOMAIN transfers : \A n : Follows(g, n)' <=> Follows(g, n)
    BY <1>2, <1>9 DEF Follows
  <2>2. \A m \in Range(up) \cup Range(down) : m.what \in {"dlstart", "dlreceive", "dlend"}
    BY <1>1, DownloadMessages
  <2>3. ASSUME NEW m \in Range(up), InOrderUp(m) PROVE InOrderUp(m)'
    <3>1. m.what # "dlstart" => FileOf(m) \in DOMAIN transfers
      BY <1>1, HoldersKnown
    <3> QED BY <1>2, <1>12, <2>1, <2>2, <2>3, <3>1, KeepsOrderUp
  <2>4. ASSUME NEW m \in Range(down), InOrderDown(m) PROVE InOrderDown(m)'
    <3>1. Granted(m) => FileOf(m) \in DOMAIN transfers
      BY <1>1, HoldersKnown
    <3> QED BY <1>2, <1>12, <2>1, <2>2, <2>4, <3>1, KeepsOrderDown
  <2>5. ASSUME ~ downloads[a.d].ahead PROVE InOrderDown(a)'
    <3>1. InOrderUp(h)
      BY <1>1, <1>4, <1>6, <2>5 DEF ChunksInOrder
    <3>2. downloads'[a.d].chunks = <<>>
      BY <1>2, <1>6, <3>1 DEF InOrderUp
    <3>3. starts => Follows(f, 0)'
      BY <1>8, <1>9 DEF Follows, Fresh_f
    <3> QED BY <1>6, <1>12, <1>13, <3>2, <3>3 DEF InOrderDown
  <2> QED BY <1>1, <1>2, <1>11, <2>3, <2>4, <2>5 DEF ChunksInOrder
<1>20. SavedWhole' /\ PopupIsOf'
  BY <1>1, <1>2 DEF SavedWhole, PopupIsOf
<1>21. LastAwaits'
  <2>1. \A m \in Asking' : m \in Asking \/ (m = a /\ starts)
    BY <1>6, <1>11 DEF Asking
  <2>2. 0 % DownChunk = 0
    BY ChunkAssumption
  <2>3. \A m \in Asking : FileOf(m) \in DOMAIN transfers
    BY <1>1, HoldersKnown
  <2> QED BY <1>1, <1>2, <1>9, <1>12, <1>13, <2>1, <2>2, <2>3 DEF LastAwaits, Fresh_f
<1> QED BY <1>10, <1>14, <1>16, <1>17, <1>18, <1>19, <1>20, <1>21 DEF DownloadInvariant

(* An end is executed: a transfer whose chunks were all taken is dropped, and *)
(* one that is not was popped out of order.                                  *)
LEMMA ServeDownloadEndSound ==
  ASSUME DownloadInvariant, ServeDownloadEnd
  PROVE  DownloadInvariant'
<1>a. PICK h : h = Head(up)
  OBVIOUS
<1>b. PICK f : f = FileOf(h)
  OBVIOUS
<1>c. PICK stacked \in BOOLEAN : stacked = (f \in DOMAIN transfers /\ transfers[f].stack # <<>>)
  OBVIOUS
<1>d. PICK y \in BOOLEAN : y = (~ stacked)
  OBVIOUS
<1>e. PICK a : a = Answer(h, y)
  OBVIOUS
<1>1. /\ DownloadTypeOK /\ OneCallEach /\ PageAwaits /\ HoldersApart /\ TransfersHeld
      /\ ThreadsRight /\ ChunksInOrder /\ SavedWhole /\ LastAwaits /\ PopupIsOf
  BY DEF DownloadInvariant
<1>2. /\ up # <<>> /\ h.what = "dlend" /\ Serve(a)
      /\ transfers' = IF stacked THEN transfers ELSE [g \in DOMAIN transfers \ {f} |-> transfers[g]]
      /\ UNCHANGED <<stored_f, filename, downloads, reloads>>
  BY <1>a, <1>b, <1>c, <1>d, <1>e DEF ServeDownloadEnd, Serving, Finalize_f, Dropped_f
<1>3. up \in Seq(DownloadCalls)
  BY <1>1 DEF DownloadTypeOK
<1>4. h \in Range(up) /\ h \in DownloadCalls /\ h.d \in DOMAIN downloads
  BY <1>1, <1>2, <1>3, <1>a, FirstTaken, DownloadMessages
<1>5. h \in [what : {"dlstart", "dlend"}, d : DOMAIN downloads]
  BY <1>2, <1>4 DEF DownloadCalls
<1>6. /\ a \in [what : {"dlstart", "dlend"}, d : DOMAIN downloads, yes : BOOLEAN]
      /\ a.what = "dlend" /\ a.d = h.d
  BY <1>2, <1>5, <1>e, AnswerIs
<1>7. a \in DownloadAnswers
  BY <1>6 DEF DownloadAnswers
<1>8. h \in Holding /\ f \in DOMAIN transfers
  BY <1>1, <1>2, <1>4, <1>b, HoldersKnown
<1>9. /\ DOMAIN transfers' \subseteq DOMAIN transfers
      /\ \A g \in DOMAIN transfers : g # f => g \in DOMAIN transfers'
      /\ \A g \in DOMAIN transfers' : transfers'[g] = transfers[g]
      /\ f \in DOMAIN transfers' => stacked
  BY <1>2
<1>10. /\ up' \in Seq(DownloadCalls') /\ down' \in Seq(DownloadAnswers')
       /\ OneCallEach' /\ PageAwaits'
  BY <1>2, <1>6, <1>7, <1>a, ServedCalls
<1>11. /\ \A m \in Range(up') : m \in Range(up) /\ m # h
       /\ \A m \in Range(up) : m \in Range(up') \/ m = h
       /\ Range(down') = Range(down) \cup {a}
       /\ \A m \in Range(down) : m # h
  BY <1>1, <1>2, <1>6, <1>7, <1>a, Served
<1>12. \A m : FileOf(m)' = FileOf(m)
  BY <1>2 DEF FileOf
<1>13. \A m : m \in Holding' <=> m \in Holding /\ m # h
  BY <1>2, <1>6, <1>11 DEF Holding, Granted
<1>14. \A m \in Holding' : FileOf(m) # f /\ FileOf(m) \in DOMAIN transfers'
  BY <1>1, <1>8, <1>9, <1>13, <1>b DEF HoldersApart
<1>15. DownloadTypeOK'
  BY <1>1, <1>2, <1>9, <1>10 DEF DownloadTypeOK, Files_f
<1>16. HoldersApart'
  BY <1>1, <1>12, <1>13, <1>14 DEF HoldersApart
<1>17. ~ downloads[h.d].ahead => Ordered(h.d, SizeOf(h.d)) /\ Follows(f, SizeOf(h.d))
  BY <1>1, <1>2, <1>4, <1>b DEF ChunksInOrder, InOrderUp
<1>18. ~ downloads[h.d].ahead => ~ stacked
  <2> SUFFICES ASSUME Follows(f, SizeOf(h.d)) PROVE transfers[f].stack = <<>>
    BY <1>8, <1>17, <1>c
  <2>1. SizeOf(h.d) = stored_f[f].size
    BY <1>b DEF SizeOf, FileOf
  <2>2. f \in Files_f /\ stored_f[f].size \in Nat /\ transfers[f].next \in Nat
    BY <1>1, <1>8, SizesTyped
  <2>3. transfers[f].next <= stored_f[f].size /\ stored_f[f].size \in 0 .. transfers[f].next
    BY <1>1, <1>8, <2>1 DEF ThreadsRight, Follows
  <2>4. stored_f[f].size = transfers[f].next
    BY <2>2, <2>3
  <2> QED BY <2>1, <2>4 DEF Follows
<1>19. TransfersHeld'
  <2> SUFFICES ASSUME NEW g \in DOMAIN transfers'
               PROVE  \E d \in DOMAIN downloads :
                        /\ downloads[d].f = g
                        /\ \/ downloads[d].ahead \/ downloads[d].phase \in {"left", "thrown"}
                           \/ \E m \in Holding' : m.d = d
    BY <1>2 DEF TransfersHeld
  <2>1. PICK d \in DOMAIN downloads :
          /\ downloads[d].f = g
          /\ \/ downloads[d].ahead \/ downloads[d].phase \in {"left", "thrown"}
             \/ \E m \in Holding : m.d = d
    BY <1>1, <1>9 DEF TransfersHeld
  <2>2. CASE d # h.d
    BY <1>13, <2>1, <2>2
  <2>3. CASE d = h.d
    <3>1. g = f /\ stacked
      BY <1>9, <1>b, <2>1, <2>3 DEF FileOf
    <3> QED BY <1>18, <2>1, <2>3, <3>1
  <2> QED BY <2>2, <2>3
<1>20. ThreadsRight'
  BY <1>1, <1>2, <1>9 DEF ThreadsRight
<1>21. ChunksInOrder'
  <2>1. \A g \in DOMAIN transfers' : \A n : Follows(g, n) => Follows(g, n)'
    BY <1>2, <1>9 DEF Follows
  <2>2. \A m \in Range(up) \cup Range(down) : m.what \in {"dlstart", "dlreceive", "dlend"}
    BY <1>1, DownloadMessages
  <2>3. ASSUME NEW m \in Range(up'), InOrderUp(m) PROVE InOrderUp(m)'
    <3>1. m.what # "dlstart" => m \in Holding'
      BY <1>11 DEF Holding
    <3>2. m.what # "dlstart" => \A n : Follows(FileOf(m), n) => Follows(FileOf(m), n)'
      BY <1>12, <1>14, <2>1, <3>1
    <3> QED BY <1>2, <1>11, <1>12, <2>2, <2>3, <3>2, KeepsOrderUp
  <2>4. ASSUME NEW m \in Range(down), InOrderDown(m) PROVE InOrderDown(m)'
    <3>1. Granted(m) => m \in Holding'
      BY <1>11 DEF Holding, Granted
    <3>2. Granted(m) => \A n : Follows(FileOf(m), n) => Follows(FileOf(m), n)'
      BY <1>12, <1>14, <2>1, <3>1
    <3> QED BY <1>2, <1>12, <2>2, <2>4, <3>2, KeepsOrderDown
  <2>5. ~ downloads'[a.d].ahead => InOrderDown(a)'
    BY <1>2, <1>6, <1>17 DEF InOrderDown, Ordered, Received_f, SizeOf
  <2> QED BY <1>1, <1>2, <1>11, <2>3, <2>4, <2>5 DEF ChunksInOrder
<1>22. SavedWhole' /\ PopupIsOf'
  BY <1>1, <1>2 DEF SavedWhole, PopupIsOf
<1>23. LastAwaits'
  <2>1. \A m \in Asking' : m \in Asking /\ m \in Holding'
    BY <1>6, <1>11 DEF Asking, Holding, Granted
  <2> QED BY <1>1, <1>2, <1>9, <1>12, <1>14, <2>1 DEF LastAwaits
<1> QED BY <1>10, <1>15, <1>16, <1>19, <1>20, <1>21, <1>22, <1>23 DEF DownloadInvariant

(* SysBufferStack.pop takes the last of a stack and leaves the others.       *)
LEMMA Popped ==
  ASSUME NEW B, NEW s \in Seq(B), s # <<>>
  PROVE  /\ Len(s) \in Nat \ {0} /\ DOMAIN s = 1 .. Len(s)
         /\ Last(s) = s[Len(s)] /\ Last(s) \in B
         /\ Front(s) \in Seq(B) /\ DOMAIN Front(s) = 1 .. Len(s) - 1
         /\ \A i \in 1 .. Len(s) - 1 : Front(s)[i] = s[i]
         /\ Len(s) = 1 => Front(s) = <<>>
<1>1. Len(s) \in Nat \ {0} /\ DOMAIN s = 1 .. Len(s) /\ \A i \in 1 .. Len(s) : s[i] \in B
  BY LenProperties, EmptySeq, ElementOfSeq
<1>2. Last(s) = s[Len(s)] /\ Last(s) \in B
  <2>1. Len(s) \in 1 .. Len(s)
    BY <1>1
  <2> QED BY <1>1, <2>1 DEF Last
<1> DEFINE l == Len(s) - 1
<1>3. l \in Nat /\ 1 \in Int /\ l \in Int /\ \A i \in 1 .. l : s[i] \in B
  BY <1>1
<1>4. /\ SubSeq(s, 1, l) \in Seq(B)
      /\ Len(SubSeq(s, 1, l)) = IF 1 <= l THEN l - 1 + 1 ELSE 0
      /\ \A i \in 1 .. l - 1 + 1 : SubSeq(s, 1, l)[i] = s[1 + i - 1]
  <2> HIDE DEF l
  <2> QED BY <1>3, SubSeqProperties
<1>5. Front(s) = SubSeq(s, 1, l)
  BY DEF Front
<1> HIDE DEF l
<1>6. Len(Front(s)) = l /\ Front(s) \in Seq(B)
  BY <1>3, <1>4, <1>5
<1>7. DOMAIN Front(s) = 1 .. l
  BY <1>6, LenProperties
<1>8. \A i \in 1 .. l : Front(s)[i] = s[i]
  BY <1>3, <1>4, <1>5
<1>9. l = 0 => Front(s) = <<>>
  BY <1>6, EmptySeq
<1>10. Len(s) = 1 => l = 0
  BY DEF l
<1> QED BY <1>1, <1>2, <1>6, <1>7, <1>8, <1>9, <1>10 DEF l

(* A chunk is asked for and the top of the stack is taken, or nothing.  Who   *)
(* takes a chunk that has others under it is ahead.                           *)
LEMMA ServeReceiveSound ==
  ASSUME DownloadInvariant, ServeReceive
  PROVE  DownloadInvariant'
<1>a. PICK h : h = Head(up)
  OBVIOUS
<1>b. PICK f : f = FileOf(h)
  OBVIOUS
<1>c. PICK stack : stack = transfers[f].stack
  OBVIOUS
<1>d. PICK pops \in BOOLEAN : pops = (f \in DOMAIN transfers /\ ~ transfers[f].unblock)
  OBVIOUS
<1>e. PICK a : a = [h EXCEPT !.chunk = IF pops THEN ChunkTaken(Last(stack)) ELSE NothingLeft]
  OBVIOUS
<1> DEFINE Downloads == [f : Files_f, chunks : Seq(Seq(Nat)), saved : Seq(Nat), phase : Phases_f,
                         ahead : BOOLEAN]
           Transfers == [next : Nat, stack : Seq(Chunks_f), runs : BOOLEAN, unblock : BOOLEAN]
<1>1. /\ DownloadTypeOK /\ OneCallEach /\ PageAwaits /\ HoldersApart /\ TransfersHeld
      /\ ThreadsRight /\ ChunksInOrder /\ SavedWhole /\ LastAwaits /\ PopupIsOf
  BY DEF DownloadInvariant
<1>2. /\ up # <<>> /\ h.what = "dlreceive" /\ Serve(a) /\ ~ Waits(f)
      /\ pops => /\ transfers' = [transfers EXCEPT ![f].stack = Front(stack)]
                 /\ downloads' = [downloads EXCEPT ![h.d].ahead = @ \/ Len(stack) > 1]
      /\ ~ pops => transfers' = transfers /\ downloads' = downloads
      /\ UNCHANGED <<stored_f, filename, reloads>>
  BY <1>a, <1>b, <1>c, <1>d, <1>e DEF ServeReceive, Serving
<1>3. up \in Seq(DownloadCalls) /\ downloads \in Seq(Downloads)
  BY <1>1 DEF DownloadTypeOK
<1>4. h \in Range(up) /\ h \in DownloadCalls /\ h.d \in DOMAIN downloads
  BY <1>1, <1>2, <1>3, <1>a, FirstTaken, DownloadMessages
<1>5. h \in [what : {"dlreceive"}, d : DOMAIN downloads, chunk : {NothingLeft}]
  BY <1>2, <1>4 DEF DownloadCalls
<1>6. h \in Holding /\ h \in Asking /\ f \in DOMAIN transfers /\ f \in Files_f
      /\ transfers[f] \in Transfers
  BY <1>1, <1>2, <1>4, <1>b, HoldersKnown, SizesTyped DEF Asking
<1>7. /\ stack \in Seq(Chunks_f)
      /\ pops => stack # <<>> /\ Last(stack) \in Chunks_f /\ Front(stack) \in Seq(Chunks_f)
  <2>1. stack \in Seq(Chunks_f)
    BY <1>6, <1>c
  <2>2. pops => stack # <<>>
    BY <1>2, <1>6, <1>c, <1>d DEF Waits
  <2> QED BY <2>1, <2>2, Popped
<1>8. /\ a.what = "dlreceive" /\ a.d = h.d
      /\ a.chunk = IF pops THEN ChunkTaken(Last(stack)) ELSE NothingLeft
      /\ (a.chunk.empty <=> ~ pops)
      /\ pops => a.chunk.last = Last(stack).last /\ a.chunk.data = Last(stack).data
      /\ a \in [what : {"dlreceive"}, d : DOMAIN downloads,
                chunk : [last : BOOLEAN, data : Seq(Nat), empty : BOOLEAN]]
  <2> DEFINE c == IF pops THEN ChunkTaken(Last(stack)) ELSE NothingLeft
             AnyChunk == [last : BOOLEAN, data : Seq(Nat), empty : BOOLEAN]
  <2>1. /\ c \in AnyChunk /\ (c.empty <=> ~ pops)
        /\ pops => c.last = Last(stack).last /\ c.data = Last(stack).data
    <3>1. CASE pops
      <4> DEFINE l == Last(stack)
      <4>1. l \in [last : BOOLEAN, data : Seq(Nat)]
        BY <1>7, <3>1 DEF Chunks_f
      <4> HIDE DEF l
      <4>2. ChunkTaken(l) \in AnyChunk /\ ~ ChunkTaken(l).empty
            /\ ChunkTaken(l).last = l.last /\ ChunkTaken(l).data = l.data
        BY <4>1 DEF ChunkTaken
      <4>3. c = ChunkTaken(l)
        BY <3>1 DEF l
      <4> HIDE DEF c, AnyChunk
      <4>4. c.empty \in BOOLEAN
        BY <4>2, <4>3 DEF AnyChunk
      <4> QED BY <3>1, <4>2, <4>3, <4>4 DEF l
    <3>2. CASE ~ pops
      <4>1. c = NothingLeft
        BY <3>2
      <4>2. NothingLeft \in AnyChunk /\ NothingLeft.empty
        BY DEF NothingLeft
      <4> HIDE DEF c, AnyChunk
      <4> QED BY <3>2, <4>1, <4>2
    <3> QED BY <3>1, <3>2
  <2>2. a = [h EXCEPT !.chunk = c]
    BY <1>e
  <2> HIDE DEF c, AnyChunk
  <2>3. a = [what |-> "dlreceive", d |-> h.d, chunk |-> c]
    BY <1>5, <2>2
  <2>4. a \in [what : {"dlreceive"}, d : DOMAIN downloads, chunk : AnyChunk]
    BY <1>4, <2>1, <2>3
  <2>5. a.what = "dlreceive" /\ a.d = h.d /\ a.chunk = c
    BY <2>3
  <2> QED BY <2>1, <2>4, <2>5 DEF c, AnyChunk
<1>9. a \in DownloadAnswers
  BY <1>8 DEF DownloadAnswers
<1>10. /\ DOMAIN transfers' = DOMAIN transfers
       /\ \A g \in DOMAIN transfers :
            /\ g # f => transfers'[g] = transfers[g]
            /\ transfers'[g] \in Transfers
            /\ transfers'[g].next = transfers[g].next
            /\ transfers'[g].runs = transfers[g].runs /\ transfers'[g].unblock = transfers[g].unblock
       /\ pops => transfers'[f].stack = Front(stack)
       /\ ~ pops => transfers' = transfers
  <2>1. \A g \in DOMAIN transfers : transfers[g] \in Transfers
    BY <1>1, SizesTyped
  <2> QED BY <1>2, <1>6, <1>7, <2>1
<1>11. /\ DOMAIN downloads = 1 .. Len(downloads) /\ Len(downloads) \in Nat
       /\ \A d \in DOMAIN downloads : downloads[d] \in Downloads
  <2> HIDE DEF Downloads
  <2> QED BY <1>3, LenProperties, ElementOfSeq
<1>12. /\ DOMAIN downloads' = DOMAIN downloads
       /\ downloads' = [d \in DOMAIN downloads |-> downloads'[d]]
       /\ \A d \in DOMAIN downloads :
            /\ downloads'[d] \in Downloads
            /\ downloads'[d].f = downloads[d].f /\ downloads'[d].chunks = downloads[d].chunks
            /\ downloads'[d].saved = downloads[d].saved
            /\ downloads'[d].phase = downloads[d].phase
            /\ d # h.d => downloads'[d].ahead = downloads[d].ahead
            /\ downloads[d].ahead => downloads'[d].ahead
       /\ pops => (Len(stack) > 1 => downloads'[h.d].ahead)
  <2>1. CASE pops
    <3> DEFINE more == Len(stack) > 1
    <3>1. downloads' = [downloads EXCEPT ![h.d].ahead = downloads[h.d].ahead \/ more]
      BY <1>2, <2>1
    <3> HIDE DEF more
    <3>2. (downloads[h.d].ahead \/ more) \in BOOLEAN
      OBVIOUS
    <3>3. downloads'[h.d].ahead = (downloads[h.d].ahead \/ more)
      BY <1>4, <1>11, <3>1
    <3>4. \A d \in DOMAIN downloads : downloads[d].ahead => downloads'[d].ahead
      BY <1>4, <1>11, <3>1, <3>3
    <3>5. more => downloads'[h.d].ahead
      BY <3>3
    <3>6. /\ DOMAIN downloads' = DOMAIN downloads
          /\ downloads' = [d \in DOMAIN downloads |-> downloads'[d]]
      BY <3>1
    <3>7. \A d \in DOMAIN downloads : d # h.d => downloads'[d] = downloads[d]
      BY <3>1
    <3>8. /\ downloads'[h.d] \in Downloads
          /\ downloads'[h.d].f = downloads[h.d].f /\ downloads'[h.d].chunks = downloads[h.d].chunks
          /\ downloads'[h.d].saved = downloads[h.d].saved
          /\ downloads'[h.d].phase = downloads[h.d].phase
      BY <1>4, <1>11, <3>1, <3>2
    <3>9. ASSUME NEW d \in DOMAIN downloads
          PROVE  /\ downloads'[d] \in Downloads
                 /\ downloads'[d].f = downloads[d].f /\ downloads'[d].chunks = downloads[d].chunks
                 /\ downloads'[d].saved = downloads[d].saved
                 /\ downloads'[d].phase = downloads[d].phase
                 /\ d # h.d => downloads'[d].ahead = downloads[d].ahead
                 /\ downloads[d].ahead => downloads'[d].ahead
      <4> HIDE DEF Downloads
      <4>1. CASE d = h.d
        BY <3>4, <3>8, <4>1
      <4>2. CASE d # h.d
        BY <1>11, <3>7, <4>2
      <4> QED BY <4>1, <4>2
    <3> HIDE DEF Downloads
    <3>10. pops => (Len(stack) > 1 => downloads'[h.d].ahead)
      BY <3>5 DEF more
    <3> QED BY <3>6, <3>9, <3>10
  <2>2. CASE ~ pops
    <3> HIDE DEF Downloads
    <3>1. downloads = [d \in DOMAIN downloads |-> downloads[d]]
      BY <1>3, LenProperties
    <3> QED BY <1>2, <1>11, <2>2, <3>1
  <2> QED BY <2>1, <2>2
<1> HIDE DEF Downloads, Transfers
<1>13. downloads' \in Seq(Downloads)
  BY <1>11, <1>12, IsASeq
<1>14. /\ up' \in Seq(DownloadCalls') /\ down' \in Seq(DownloadAnswers')
       /\ OneCallEach' /\ PageAwaits'
  BY SMTT(30), <1>2, <1>8, <1>9, <1>12, <1>a, ServedCalls
<1>15. /\ \A m \in Range(up') : m \in Range(up) /\ m.d # h.d
       /\ \A m \in Range(up) : m \in Range(up') \/ m = h
       /\ Range(down') = Range(down) \cup {a}
       /\ \A m \in Range(down) : m.d # h.d
  BY <1>1, <1>2, <1>8, <1>9, <1>a, Served
<1>16. \A m \in Range(up) \cup Range(down) : FileOf(m)' = FileOf(m)
  BY <1>1, <1>12, DownloadMessages DEF FileOf
<1>17. FileOf(a)' = f /\ FileOf(a) = f
  BY <1>4, <1>8, <1>12, <1>b DEF FileOf
<1>18. \A m : m \in Holding' <=> (m \in Holding /\ m # h) \/ m = a
  BY <1>2, <1>8, <1>15 DEF Holding, Granted
<1>19. \A m \in Holding :
         /\ FileOf(m)' = FileOf(m) /\ FileOf(m) \in DOMAIN transfers
         /\ m # h => FileOf(m) # f
  BY <1>1, <1>6, <1>16, <1>b DEF HoldersApart, Holding
<1>20. DownloadTypeOK'
  <2>1. downloads' \in Seq([f : Files_f, chunks : Seq(Seq(Nat)), saved : Seq(Nat),
                            phase : Phases_f, ahead : BOOLEAN])
    BY <1>13 DEF Downloads
  <2>2. Files_f' = Files_f
    BY <1>2 DEF Files_f
  <2> QED BY <1>1, <1>2, <1>10, <1>14, <2>1, <2>2 DEF DownloadTypeOK, Transfers
<1>21. HoldersApart'
  <2>1. \A m \in Holding' : \/ m = a /\ FileOf(m)' = f
                           \/ /\ m \in Holding /\ m # h /\ FileOf(m)' # f
                              /\ FileOf(m)' = FileOf(m) /\ FileOf(m) \in DOMAIN transfers
    BY <1>17, <1>18, <1>19
  <2>2. \A m \in Holding' : FileOf(m)' \in DOMAIN transfers'
    BY <1>6, <1>10, <2>1
  <2>3. \A m, n \in Holding : FileOf(m) = FileOf(n) => m = n
    BY <1>1 DEF HoldersApart
  <2>4. \A m, n \in Holding' : FileOf(m)' = FileOf(n)' => m = n
    BY <2>1, <2>3
  <2> QED BY <2>2, <2>4 DEF HoldersApart
<1>22. TransfersHeld'
  <2> SUFFICES ASSUME NEW g \in DOMAIN transfers
               PROVE  \E d \in DOMAIN downloads :
                        /\ downloads'[d].f = g
                        /\ \/ downloads'[d].ahead \/ downloads'[d].phase \in {"left", "thrown"}
                           \/ \E m \in Holding' : m.d = d
    BY <1>10, <1>12 DEF TransfersHeld
  <2>1. PICK d \in DOMAIN downloads :
          /\ downloads[d].f = g
          /\ \/ downloads[d].ahead \/ downloads[d].phase \in {"left", "thrown"}
             \/ \E m \in Holding : m.d = d
    BY <1>1 DEF TransfersHeld
  <2>2. (\E m \in Holding : m.d = d) => \E m \in Holding' : m.d = d
    BY <1>8, <1>18
  <2> QED BY <1>12, <2>1, <2>2
<1>23. ThreadsRight'
  BY <1>1, <1>2, <1>10 DEF ThreadsRight
<1>24. ChunksInOrder'
  <2>1. \A g \in DOMAIN transfers : \A n : g # f /\ Follows(g, n) => Follows(g, n)'
    BY <1>2, <1>10 DEF Follows
  <2>2. \A m \in Range(up) \cup Range(down) :
          /\ m.d \in DOMAIN downloads /\ m.what \in {"dlstart", "dlreceive", "dlend"}
          /\ downloads'[m.d].chunks = downloads[m.d].chunks
    BY <1>1, <1>12, DownloadMessages
  <2>3. ASSUME NEW m \in Range(up'), InOrderUp(m) PROVE InOrderUp(m)'
    <3>1. m.what # "dlstart" => m \in Holding /\ m # h
      BY <1>15 DEF Holding
    <3>2. m.what # "dlstart" => \A n : Follows(FileOf(m), n) => Follows(FileOf(m), n)'
      BY <1>19, <2>1, <3>1
    <3> QED BY <1>2, <1>15, <1>16, <2>2, <2>3, <3>2, KeepsOrderUp
  <2>4. ASSUME NEW m \in Range(down), InOrderDown(m) PROVE InOrderDown(m)'
    <3>1. Granted(m) => m \in Holding /\ m # h
      BY <1>15 DEF Holding
    <3>2. Granted(m) => \A n : Follows(FileOf(m), n) => Follows(FileOf(m), n)'
      BY <1>19, <2>1, <3>1
    <3> QED BY <1>2, <1>16, <2>2, <2>4, <3>2, KeepsOrderDown
  <2>5. ASSUME ~ downloads'[a.d].ahead, pops PROVE InOrderDown(a)'
    <3>1. PICK n \in 0 .. SizeOf(h.d) : Ordered(h.d, n) /\ Follows(f, n)
      BY <1>1, <1>2, <1>4, <1>8, <1>12, <1>b, <2>5 DEF ChunksInOrder, InOrderUp
    <3>2. /\ SizeOf(h.d) = stored_f[f].size /\ SizeOf(h.d)' = SizeOf(h.d)
          /\ stored_f'[f].size = stored_f[f].size
          /\ Ordered(h.d, n)'
      BY <1>2, <1>4, <1>12, <1>b, <3>1 DEF SizeOf, FileOf, Ordered, Received_f
    <3>3. Len(stack) = 1
      <4>1. Len(stack) \in Nat \ {0}
        BY <1>7, <2>5, Popped
      <4>2. ~ (Len(stack) > 1)
        BY <1>8, <1>12, <2>5
      <4> DEFINE l == Len(stack)
      <4>3. l \in Nat \ {0} /\ ~ (l > 1)
        BY <4>1, <4>2
      <4> HIDE DEF l
      <4>4. l = 1
        BY <4>3
      <4> QED BY <4>4 DEF l
    <3>4. Last(stack) = stack[1] /\ Front(stack) = <<>>
      BY <1>7, <2>5, <3>3, Popped
    <3>5. /\ stack[1] = ChunkAt(n, stored_f[f].size)
          /\ transfers[f].next = n + Len(stack[1].data)
      BY <1>c, <3>1, <3>3 DEF Follows
    <3>6. a.chunk = ChunkTaken(ChunkAt(n, SizeOf(h.d)))
      BY <1>8, <2>5, <3>2, <3>4, <3>5
    <3>7. Follows(f, n + Len(a.chunk.data))'
      <4>1. n + Len(a.chunk.data) = transfers'[f].next /\ transfers'[f].stack = <<>>
        BY <1>6, <1>8, <1>10, <2>5, <3>4, <3>5
      <4>2. transfers'[f].next \in 0 .. transfers'[f].next
        <5>1. transfers'[f].next \in Nat
          BY <1>6, <1>10 DEF Transfers
        <5> QED BY <5>1
      <4>3. Len(transfers'[f].stack) # 1
        BY <4>1
      <4> QED BY <4>1, <4>2, <4>3 DEF Follows
    <3> QED BY <1>8, <1>17, <3>1, <3>2, <3>6, <3>7 DEF InOrderDown
  <2>6. ~ pops => InOrderDown(a)'
    BY <1>8 DEF InOrderDown
  <2>7. \A m \in Range(up) \cup Range(down) : ~ downloads'[m.d].ahead => ~ downloads[m.d].ahead
    BY <1>12, <2>2
  <2> QED BY <1>1, <1>15, <2>3, <2>4, <2>5, <2>6, <2>7 DEF ChunksInOrder
<1>25. SavedWhole'
  BY <1>1, <1>2, <1>12 DEF SavedWhole
<1>26. PopupIsOf'
  BY <1>1, <1>2, <1>12 DEF PopupIsOf
<1>27. LastAwaits'
  <2>1. \A m \in Asking' : (m \in Asking /\ m # h) \/ (m = a /\ pops /\ ~ a.chunk.last)
    BY <1>8, <1>15 DEF Asking
  <2> SUFFICES ASSUME NEW m \in Asking',
                      transfers'[FileOf(m)'].next = stored_f[FileOf(m)'].size,
                      transfers'[FileOf(m)'].next % DownChunk # 0
               PROVE  \E i \in DOMAIN transfers'[FileOf(m)'].stack :
                        transfers'[FileOf(m)'].stack[i].last
    BY <1>2 DEF LastAwaits
  <2>2. CASE m \in Asking /\ m # h
    <3>1. m \in Holding
      BY <1>1, <2>2, HoldersKnown
    <3>2. FileOf(m)' = FileOf(m) /\ transfers'[FileOf(m)] = transfers[FileOf(m)]
      BY <1>10, <1>19, <2>2, <3>1
    <3> QED BY <1>1, <2>2, <3>2 DEF LastAwaits
  <2>3. CASE m = a /\ pops /\ ~ a.chunk.last
    <3>1. FileOf(m)' = f /\ FileOf(h) = f /\ transfers'[f].next = transfers[f].next
      BY <1>6, <1>10, <1>17, <1>b, <2>3
    <3>2. PICK i \in DOMAIN stack : stack[i].last
      BY <1>1, <1>6, <1>c, <3>1 DEF LastAwaits
    <3>3. /\ Len(stack) \in Nat \ {0} /\ DOMAIN stack = 1 .. Len(stack)
          /\ ~ stack[Len(stack)].last
          /\ DOMAIN Front(stack) = 1 .. Len(stack) - 1
          /\ \A k \in 1 .. Len(stack) - 1 : Front(stack)[k] = stack[k]
      BY <1>7, <1>8, <2>3, Popped
    <3>4. i \in 1 .. Len(stack) - 1
      BY <3>2, <3>3
    <3>5. i \in DOMAIN Front(stack) /\ Front(stack)[i].last
      BY <3>2, <3>3, <3>4
    <3>6. transfers'[f].stack = Front(stack)
      BY <1>10, <2>3
    <3> QED BY <2>3, <3>1, <3>5, <3>6
  <2> QED BY <2>1, <2>2, <2>3
<1> QED BY <1>14, <1>20, <1>21, <1>22, <1>23, <1>24, <1>25, <1>26, <1>27 DEF DownloadInvariant

------------------------------------------------------------------------------
(* The page gets an answer, and goes on with a call or with none.            *)
LEMMA Continued ==
  ASSUME DownloadInvariant, down # <<>>, Got, NEW h, h = Head(down),
         NEW asks \in BOOLEAN, NEW c,
         asks => c \in DownloadCalls /\ c.d = h.d /\ Ask(<<c>>),
         ~ asks => up' = up,
         DOMAIN downloads' = DOMAIN downloads,
         \A d \in DOMAIN downloads : d # h.d => downloads'[d] = downloads[d],
         asks => /\ downloads'[h.d].phase \in DOMAIN CallOf
                 /\ c.what = CallOf[downloads'[h.d].phase],
         ~ asks => downloads'[h.d].phase \notin DOMAIN CallOf
  PROVE  /\ up' \in Seq(DownloadCalls') /\ down' \in Seq(DownloadAnswers')
         /\ OneCallEach' /\ PageAwaits'
         /\ \A m : m \in Range(up') <=> m \in Range(up) \/ (asks /\ m = c)
         /\ \A m : m \in Range(down') <=> m \in Range(down) /\ m # h
         /\ \A m \in Range(up) : m.d # h.d
         /\ \A m \in Range(down) : m # h => m.d # h.d
         /\ h \in Range(down)
<1>1. DownloadTypeOK /\ OneCallEach /\ PageAwaits
  BY DEF DownloadInvariant
<1>2. /\ down' \in Seq(DownloadAnswers) /\ h \in Range(down)
      /\ \A m \in Range(down') : m \in Range(down) /\ m.d # h.d
      /\ \A m \in Range(down) : m \in Range(down') \/ m = h
      /\ \A m \in Range(up) : m.d # h.d
      /\ OneOfEach(down')
  BY <1>1, Arrived
<1>3. DownloadCalls' = DownloadCalls /\ DownloadAnswers' = DownloadAnswers
  BY DEF DownloadCalls, DownloadAnswers
<1>4. /\ up' \in Seq(DownloadCalls) /\ OneOfEach(up')
      /\ \A m : m \in Range(up') <=> m \in Range(up) \/ (asks /\ m = c)
  <2>1. CASE asks
    BY <1>1, <1>2, <2>1, AskedOne
  <2>2. CASE ~ asks
    BY <1>1, <2>2 DEF DownloadTypeOK, OneCallEach
  <2> QED BY <2>1, <2>2
<1>5. \A m \in UnderWay' : (m \in UnderWay /\ m.d # h.d) \/ (asks /\ m = c)
  BY <1>2, <1>4 DEF UnderWay
<1>6. \A m \in UnderWay : m.d \in DOMAIN downloads
  BY <1>1, DownloadMessages DEF UnderWay
<1>7. OneCallEach'
  <2>1. \A m \in Range(up'), n \in Range(down') : m.d # n.d
    BY <1>1, <1>2, <1>4 DEF OneCallEach
  <2>2. ASSUME NEW m \in UnderWay'
        PROVE  LET p == downloads'[m.d].phase
               IN p = "left" \/ (p \in DOMAIN CallOf /\ m.what = CallOf[p])
    <3>1. CASE m \in UnderWay /\ m.d # h.d
      BY <1>1, <1>6, <3>1 DEF OneCallEach
    <3>2. CASE asks /\ m = c
      BY <3>2
    <3> QED BY <1>5, <3>1, <3>2
  <2> QED BY <1>2, <1>4, <2>1, <2>2 DEF OneCallEach
<1>8. PageAwaits'
  <2> SUFFICES ASSUME NEW d \in DOMAIN downloads, downloads'[d].phase \in DOMAIN CallOf
               PROVE  \E m \in UnderWay' : m.d = d
    BY DEF PageAwaits
  <2>1. CASE d = h.d
    <3>1. asks /\ c \in UnderWay'
      BY <1>4, <2>1 DEF UnderWay
    <3> QED BY <2>1, <3>1
  <2>2. CASE d # h.d
    <3>1. PICK m \in UnderWay : m.d = d
      BY <1>1, <2>2 DEF PageAwaits
    <3>2. m \in UnderWay'
      BY <1>2, <1>4, <2>2, <3>1 DEF UnderWay
    <3> QED BY <3>1, <3>2
  <2> QED BY <2>1, <2>2
<1> QED BY <1>2, <1>3, <1>4, <1>7, <1>8

(* The page was left: nobody gets the answer.                                *)
LEMMA AnswerIsLostSound ==
  ASSUME DownloadInvariant, AnswerIsLost
  PROVE  DownloadInvariant'
<1>a. PICK h : h = Head(down)
  OBVIOUS
<1>1. /\ DownloadTypeOK /\ OneCallEach /\ PageAwaits /\ HoldersApart /\ TransfersHeld
      /\ ThreadsRight /\ ChunksInOrder /\ SavedWhole /\ LastAwaits /\ PopupIsOf
  BY DEF DownloadInvariant
<1>2. /\ down # <<>> /\ downloads[h.d].phase = "left" /\ Got
      /\ UNCHANGED <<up, stored_f, transfers, filename, downloads, reloads>>
  BY <1>a DEF AnswerIsLost, Here, vars_f
<1>3. downloads'[h.d].phase \notin DOMAIN CallOf
  BY <1>2 DEF CallOf
<1>4. /\ up' \in Seq(DownloadCalls') /\ down' \in Seq(DownloadAnswers')
      /\ OneCallEach' /\ PageAwaits'
      /\ \A m : m \in Range(up') <=> m \in Range(up)
      /\ \A m : m \in Range(down') <=> m \in Range(down) /\ m # h
      /\ \A m \in Range(up) : m # h
  <2>1. PICK asks \in BOOLEAN : asks = FALSE
    OBVIOUS
  <2> QED BY <1>2, <1>3, <1>a, <2>1, Continued
<1>5. DownloadTypeOK'
  BY <1>1, <1>2, <1>4 DEF DownloadTypeOK, Files_f
<1>6. \A m : FileOf(m)' = FileOf(m)
  BY <1>2 DEF FileOf
<1>7. \A m : m \in Holding' <=> m \in Holding /\ m # h
  BY <1>4 DEF Holding, Granted
<1>8. HoldersApart'
  BY <1>1, <1>2, <1>6, <1>7 DEF HoldersApart
<1>9. TransfersHeld'
  <2> SUFFICES ASSUME NEW g \in DOMAIN transfers
               PROVE  \E d \in DOMAIN downloads :
                        /\ downloads[d].f = g
                        /\ \/ downloads[d].ahead \/ downloads[d].phase \in {"left", "thrown"}
                           \/ \E m \in Holding' : m.d = d
    BY <1>2 DEF TransfersHeld
  <2>1. PICK d \in DOMAIN downloads :
          /\ downloads[d].f = g
          /\ \/ downloads[d].ahead \/ downloads[d].phase \in {"left", "thrown"}
             \/ \E m \in Holding : m.d = d
    BY <1>1 DEF TransfersHeld
  <2>2. CASE d = h.d
    BY <1>2, <2>1, <2>2
  <2>3. CASE d # h.d
    BY <1>7, <2>1, <2>3
  <2> QED BY <2>2, <2>3
<1>10. ThreadsRight' /\ SavedWhole' /\ PopupIsOf'
  BY <1>1, <1>2 DEF ThreadsRight, SavedWhole, PopupIsOf
<1>11. ChunksInOrder'
  <2>1. \A g, n : Follows(g, n)' <=> Follows(g, n)
    BY <1>2 DEF Follows
  <2>2. \A m \in Range(up) \cup Range(down) : m.what \in {"dlstart", "dlreceive", "dlend"}
    BY <1>1, DownloadMessages
  <2>3. ASSUME NEW m \in Range(up), InOrderUp(m) PROVE InOrderUp(m)'
    BY <1>2, <1>6, <2>1, <2>2, <2>3, KeepsOrderUp
  <2>4. ASSUME NEW m \in Range(down), InOrderDown(m) PROVE InOrderDown(m)'
    BY <1>2, <1>6, <2>1, <2>2, <2>4, KeepsOrderDown
  <2> QED BY <1>1, <1>2, <1>4, <2>3, <2>4 DEF ChunksInOrder
<1>12. LastAwaits'
  <2>1. \A m \in Asking' : m \in Asking
    BY <1>4 DEF Asking
  <2> QED BY <1>1, <1>2, <1>6, <2>1 DEF LastAwaits
<1> QED BY <1>4, <1>5, <1>8, <1>9, <1>10, <1>11, <1>12 DEF DownloadInvariant

(* The page goes on in the place of its answer: a transfer's holder stays, or *)
(* its download threw.                                                        *)
LEMMA PageGoesOn ==
  ASSUME DownloadInvariant, down # <<>>, Got, NEW h, h = Head(down),
         UNCHANGED <<stored_f, transfers>>,
         NEW asks \in BOOLEAN, NEW c,
         asks => c \in DownloadCalls /\ c.d = h.d /\ Ask(<<c>>),
         ~ asks => up' = up,
         DOMAIN downloads' = DOMAIN downloads,
         \A d \in DOMAIN downloads : d # h.d => downloads'[d] = downloads[d],
         downloads'[h.d].f = downloads[h.d].f, downloads'[h.d].ahead = downloads[h.d].ahead,
         downloads[h.d].phase \in DOMAIN CallOf,
         asks => /\ downloads'[h.d].phase \in DOMAIN CallOf
                 /\ c.what = CallOf[downloads'[h.d].phase],
         ~ asks => downloads'[h.d].phase \notin DOMAIN CallOf,
         asks => Granted(h) /\ c.what # "dlstart",
         ~ asks => (Granted(h) => downloads'[h.d].phase = "thrown"),
         asks => (~ downloads[h.d].ahead => InOrderUp(c)'),
         asks => (c.what = "dlreceive" => h \in Asking)
  PROVE  /\ up' \in Seq(DownloadCalls') /\ down' \in Seq(DownloadAnswers')
         /\ OneCallEach' /\ PageAwaits' /\ HoldersApart' /\ TransfersHeld'
         /\ ThreadsRight' /\ ChunksInOrder' /\ LastAwaits'
<1>1. /\ DownloadTypeOK /\ HoldersApart /\ TransfersHeld /\ ThreadsRight /\ ChunksInOrder
      /\ LastAwaits
  BY DEF DownloadInvariant
<1>2. /\ up' \in Seq(DownloadCalls') /\ down' \in Seq(DownloadAnswers')
      /\ OneCallEach' /\ PageAwaits'
      /\ \A m : m \in Range(up') <=> m \in Range(up) \/ (asks /\ m = c)
      /\ \A m : m \in Range(down') <=> m \in Range(down) /\ m # h
      /\ \A m \in Range(up) : m.d # h.d
      /\ \A m \in Range(down) : m # h => m.d # h.d
      /\ h \in Range(down)
  BY Continued
<1>3. /\ \A m \in Range(up) \cup Range(down) :
           m.d \in DOMAIN downloads /\ m.what \in {"dlstart", "dlreceive", "dlend"}
      /\ \A m \in Range(up) \cup Range(down) :
           m # h => downloads'[m.d] = downloads[m.d]
      /\ \A m \in Range(up) \cup Range(down) : FileOf(m)' = FileOf(m)
      /\ asks => FileOf(c)' = FileOf(h)
  BY <1>1, <1>2, DownloadMessages DEF FileOf
<1>4. \A m : m \in Holding' <=> (m \in Holding /\ m # h) \/ (asks /\ m = c)
  BY <1>2 DEF Holding, Granted
<1>5. /\ asks => h \in Holding
      /\ \A m \in Holding : FileOf(m)' = FileOf(m) /\ m.d \in DOMAIN downloads
  BY <1>2, <1>3 DEF Holding
<1>6. HoldersApart'
  <2>1. \A m \in Holding : FileOf(m) \in DOMAIN transfers
    BY <1>1 DEF HoldersApart
  <2>2. \A m, n \in Holding : FileOf(m) = FileOf(n) => m = n
    BY <1>1 DEF HoldersApart
  <2>3. \A m \in Holding' : \/ /\ m \in Holding /\ m # h /\ FileOf(m)' = FileOf(m)
                            \/ asks /\ m = c /\ h \in Holding /\ FileOf(m)' = FileOf(h)
    BY <1>3, <1>4, <1>5
  <2>4. \A m \in Holding' : FileOf(m)' \in DOMAIN transfers'
    BY <2>1, <2>3
  <2>5. \A m, n \in Holding' : FileOf(m)' = FileOf(n)' => m = n
    BY <2>2, <2>3
  <2> QED BY <2>4, <2>5 DEF HoldersApart
<1>7. TransfersHeld'
  <2> SUFFICES ASSUME NEW g \in DOMAIN transfers
               PROVE  \E d \in DOMAIN downloads :
                        /\ downloads'[d].f = g
                        /\ \/ downloads'[d].ahead \/ downloads'[d].phase \in {"left", "thrown"}
                           \/ \E m \in Holding' : m.d = d
    BY DEF TransfersHeld
  <2>1. PICK d \in DOMAIN downloads :
          /\ downloads[d].f = g
          /\ \/ downloads[d].ahead \/ downloads[d].phase \in {"left", "thrown"}
             \/ \E m \in Holding : m.d = d
    BY <1>1 DEF TransfersHeld
  <2>2. CASE d # h.d
    BY <1>4, <2>1, <2>2
  <2>3. CASE d = h.d /\ ~ downloads[d].ahead
    <3>1. \E m \in Holding : m.d = h.d
      BY <2>1, <2>3 DEF CallOf
    <3>2. h \in Holding /\ Granted(h)
      BY <1>2, <3>1 DEF Holding
    <3>3. CASE asks
      BY <1>4, <2>1, <2>3, <3>3
    <3>4. CASE ~ asks
      BY <2>1, <2>3, <3>2, <3>4
    <3> QED BY <3>3, <3>4
  <2>4. CASE d = h.d /\ downloads[d].ahead
    BY <2>1, <2>4
  <2> QED BY <2>2, <2>3, <2>4
<1>8. ThreadsRight'
  BY <1>1 DEF ThreadsRight
<1>9. ChunksInOrder'
  <2>1. \A g, n : Follows(g, n)' <=> Follows(g, n)
    BY DEF Follows
  <2>2. ASSUME NEW m \in Range(up), InOrderUp(m) PROVE InOrderUp(m)'
    <3>1. m # h
      BY <1>2
    <3> QED BY <1>3, <2>1, <2>2, <3>1, KeepsOrderUp
  <2>3. ASSUME NEW m \in Range(down), m # h, InOrderDown(m) PROVE InOrderDown(m)'
    BY <1>3, <2>1, <2>3, KeepsOrderDown
  <2>4. \A m \in Range(up') : ~ downloads'[m.d].ahead => InOrderUp(m)'
    BY <1>1, <1>2, <1>3, <2>2 DEF ChunksInOrder
  <2>5. \A m \in Range(down') : ~ downloads'[m.d].ahead => InOrderDown(m)'
    BY <1>1, <1>2, <1>3, <2>3 DEF ChunksInOrder
  <2> QED BY <2>4, <2>5 DEF ChunksInOrder
<1>10. LastAwaits'
  <2>1. \A m \in Asking' : \/ m \in Asking /\ FileOf(m)' = FileOf(m)
                           \/ h \in Asking /\ FileOf(m)' = FileOf(h)
    BY <1>2, <1>3 DEF Asking
  <2> QED BY <1>1, <2>1 DEF LastAwaits
<1> QED BY <1>2, <1>6, <1>7, <1>8, <1>9, <1>10

(* The positions that were got, and those of the chunk that follows them.    *)
LEMMA PositionsAre ==
  ASSUME NEW n \in Nat
  PROVE  /\ Positions(n) \in Seq(Nat) /\ Len(Positions(n)) = n
         /\ \A i \in 1 .. n : Positions(n)[i] = i
         /\ Positions(0) = <<>>
<1>1. ASSUME NEW k \in Nat
      PROVE  /\ Positions(k) \in Seq(Nat) /\ Len(Positions(k)) = k
             /\ \A i \in 1 .. k : Positions(k)[i] = i
  <2>1. [i \in 1 .. k |-> i] \in Seq(Nat) /\ Len([i \in 1 .. k |-> i]) = k
    BY IsASeq
  <2> QED BY <2>1 DEF Positions
<1>2. Positions(0) = <<>>
  BY <1>1, EmptySeq
<1> QED BY <1>1, <1>2

LEMMA PositionsGrow ==
  ASSUME NEW n \in Nat, NEW l \in Nat, NEW data \in Seq(Nat), Len(data) = l,
         \A i \in 1 .. l : data[i] = n + i
  PROVE  Positions(n) \o data = Positions(n + l)
<1> DEFINE s == Positions(n) \o data
           t == Positions(n + l)
<1>1. Positions(n) \in Seq(Nat) /\ Len(Positions(n)) = n /\ \A i \in 1 .. n : Positions(n)[i] = i
  BY PositionsAre
<1>2. n + l \in Nat
  OBVIOUS
<1>3. t \in Seq(Nat) /\ Len(t) = n + l /\ \A i \in 1 .. n + l : t[i] = i
  <2> DEFINE k == n + l
  <2>1. k \in Nat
    BY <1>2
  <2> HIDE DEF k
  <2>2. Positions(k) \in Seq(Nat) /\ Len(Positions(k)) = k /\ \A i \in 1 .. k : Positions(k)[i] = i
    BY <2>1, PositionsAre
  <2> QED BY <2>2 DEF k
<1>4. /\ s \in Seq(Nat) /\ Len(s) = n + l
      /\ \A i \in 1 .. n + l : s[i] = IF i <= n THEN Positions(n)[i] ELSE data[i - n]
  <2> DEFINE p == Positions(n)
  <2>1. p \in Seq(Nat) /\ Len(p) = n
    BY <1>1
  <2> HIDE DEF p
  <2>2. /\ p \o data \in Seq(Nat) /\ Len(p \o data) = Len(p) + Len(data)
        /\ \A i \in 1 .. Len(p) + Len(data) :
             (p \o data)[i] = IF i <= Len(p) THEN p[i] ELSE data[i - Len(p)]
    BY <2>1, ConcatProperties
  <2>3. /\ p \o data \in Seq(Nat) /\ Len(p \o data) = n + l
        /\ \A i \in 1 .. n + l : (p \o data)[i] = IF i <= n THEN p[i] ELSE data[i - n]
    BY <2>1, <2>2
  <2> QED BY <2>3 DEF p
<1>5. ASSUME NEW i \in 1 .. n + l PROVE s[i] = t[i]
  <2>1. CASE i <= n
    BY <1>1, <1>3, <1>4, <2>1
  <2>2. CASE ~ (i <= n)
    <3>1. i - n \in 1 .. l /\ n + (i - n) = i
      BY <2>2
    <3>2. data[i - n] = i
      BY <3>1
    <3> QED BY <1>3, <1>4, <2>2, <3>2
  <2> QED BY <2>1, <2>2
<1> HIDE DEF s, t
<1> QED BY <1>3, <1>4, <1>5, SeqEqual DEF s, t

(* A download begins, or is refused.                                         *)
LEMMA DownloadStartsSound ==
  ASSUME DownloadInvariant, DownloadStarts
  PROVE  DownloadInvariant'
<1>a. PICK h : h = Head(down)
  OBVIOUS
<1>b. PICK f : f = FileOf(h)
  OBVIOUS
<1>c. PICK asks \in BOOLEAN : asks = h.yes
  <2>1. h.yes \in BOOLEAN
    <3>1. down # <<>> /\ h.what = "dlstart" /\ down \in Seq(DownloadAnswers)
      BY <1>a DEF DownloadStarts, Getting, DownloadInvariant, DownloadTypeOK
    <3>2. h \in Range(down)
      BY <1>a, <3>1, FirstTaken
    <3> QED BY <3>1, <3>2, DownloadMessages DEF DownloadInvariant
  <2> QED BY <2>1
<1>d. PICK c : c = [what |-> "dlreceive", d |-> h.d, chunk |-> NothingLeft]
  OBVIOUS
<1> DEFINE Downloads == [f : Files_f, chunks : Seq(Seq(Nat)), saved : Seq(Nat), phase : Phases_f,
                         ahead : BOOLEAN]
           stage == IF asks THEN "receive" ELSE "refused"
<1>1. /\ DownloadTypeOK /\ OneCallEach /\ ChunksInOrder /\ SavedWhole /\ PopupIsOf
  BY DEF DownloadInvariant
<1>2. /\ down # <<>> /\ h.what = "dlstart" /\ downloads[h.d].phase # "left" /\ Got
      /\ filename' = IF asks THEN f ELSE filename
      /\ downloads' = [downloads EXCEPT ![h.d].phase = stage]
      /\ asks => Ask(<<c>>)
      /\ ~ asks => Ask(<<>>)
      /\ UNCHANGED <<stored_f, transfers, reloads>>
  BY <1>a, <1>b, <1>c, <1>d DEF DownloadStarts, Getting, Here, Receive
<1>3. down \in Seq(DownloadAnswers) /\ downloads \in Seq(Downloads)
  BY <1>1 DEF DownloadTypeOK
<1>4. /\ h \in Range(down) /\ h.d \in DOMAIN downloads
      /\ downloads[h.d].phase = "start"
  <2>1. h \in Range(down) /\ h.d \in DOMAIN downloads
    BY <1>1, <1>2, <1>3, <1>a, FirstTaken, DownloadMessages
  <2>2. downloads[h.d].phase \in DOMAIN CallOf /\ h.what = CallOf[downloads[h.d].phase]
    BY <1>1, <1>2, <2>1 DEF OneCallEach, UnderWay
  <2> QED BY <1>2, <2>1, <2>2 DEF CallOf
<1>5. /\ DOMAIN downloads = 1 .. Len(downloads) /\ Len(downloads) \in Nat
      /\ \A d \in DOMAIN downloads : downloads[d] \in Downloads
  <2> HIDE DEF Downloads
  <2> QED BY <1>3, LenProperties, ElementOfSeq
<1>6. /\ DOMAIN downloads' = DOMAIN downloads
      /\ \A d \in DOMAIN downloads : d # h.d => downloads'[d] = downloads[d]
      /\ downloads'[h.d] \in Downloads /\ downloads'[h.d].phase = stage
      /\ downloads'[h.d].f = downloads[h.d].f /\ downloads'[h.d].ahead = downloads[h.d].ahead
      /\ downloads'[h.d].chunks = downloads[h.d].chunks
      /\ downloads'[h.d].saved = downloads[h.d].saved
  BY <1>2, <1>4, <1>5 DEF Phases_f
<1>7. downloads' \in Seq(Downloads)
  <2>1. downloads' = [d \in 1 .. Len(downloads) |-> downloads'[d]]
    BY <1>2, <1>5
  <2>2. \A d \in 1 .. Len(downloads) : downloads'[d] \in Downloads
    <3> HIDE DEF Downloads
    <3> QED BY <1>5, <1>6
  <2> HIDE DEF Downloads
  <2> QED BY <1>5, <2>1, <2>2, IsASeq
<1>8. f \in Files_f /\ stored_f[f].size \in Nat /\ f = downloads[h.d].f
  <2>1. f \in Files_f /\ f = downloads[h.d].f
    BY <1>4, <1>5, <1>b DEF FileOf
  <2> QED BY <2>1, <1>1, SizesTyped
<1>9. c \in DownloadCalls /\ c.d = h.d /\ c.what = "dlreceive"
  BY <1>4, <1>d DEF DownloadCalls
<1>10. asks => (Granted(h) /\ h \in Asking)
  BY <1>2, <1>4, <1>c DEF Granted, Asking
<1>11. ~ asks => ~ Granted(h)
  BY <1>2, <1>c DEF Granted
<1>12. ASSUME asks, ~ downloads[h.d].ahead PROVE InOrderUp(c)'
  <2>1. downloads[h.d].chunks = <<>> /\ Follows(f, 0)
    BY <1>1, <1>2, <1>4, <1>b, <1>c, <1>12 DEF ChunksInOrder, InOrderDown
  <2>2. Ordered(c.d, 0)'
    <3>1. downloads'[c.d].chunks = <<>>
      BY <1>6, <1>9, <2>1
    <3>2. ConcatBytes(<<>>) = Positions(0)
      BY PositionsAre, ConcatAppend
    <3> QED BY <3>1, <3>2 DEF Ordered, Received_f
  <2>3. FileOf(c)' = f /\ Follows(f, 0)'
    BY <1>2, <1>6, <1>8, <1>9, <2>1 DEF FileOf, Follows
  <2>4. 0 \in 0 .. SizeOf(c.d)'
    BY <1>2, <1>6, <1>8, <1>9 DEF SizeOf
  <2> QED BY <1>9, <2>2, <2>3, <2>4 DEF InOrderUp
<1>13. /\ up' \in Seq(DownloadCalls') /\ down' \in Seq(DownloadAnswers')
       /\ OneCallEach' /\ PageAwaits' /\ HoldersApart' /\ TransfersHeld'
       /\ ThreadsRight' /\ ChunksInOrder' /\ LastAwaits'
  <2>1. ~ asks => up' = up
    BY <1>1, <1>2, AskedNone
  <2>2. downloads[h.d].phase \in DOMAIN CallOf
    BY <1>4 DEF CallOf
  <2>3. asks => /\ downloads'[h.d].phase \in DOMAIN CallOf
                /\ c.what = CallOf[downloads'[h.d].phase]
    BY <1>6, <1>9 DEF CallOf
  <2>4. ~ asks => downloads'[h.d].phase \notin DOMAIN CallOf
    BY <1>6 DEF CallOf
  <2>5. asks => c \in DownloadCalls /\ c.d = h.d /\ Ask(<<c>>)
    BY <1>2, <1>9
  <2>6. c.what # "dlstart"
    BY <1>9
  <2> HIDE DEF stage
  <2>7. asks => (~ downloads[h.d].ahead => InOrderUp(c)')
    BY <1>12
  <2>8. asks => Granted(h) /\ c.what # "dlstart"
    BY <1>10, <2>6
  <2>9. /\ asks => (c.what = "dlreceive" => h \in Asking)
        /\ ~ asks => (Granted(h) => downloads'[h.d].phase = "thrown")
    BY <1>10, <1>11
  <2>10. /\ down # <<>> /\ Got /\ UNCHANGED <<stored_f, transfers>>
         /\ downloads'[h.d].f = downloads[h.d].f /\ downloads'[h.d].ahead = downloads[h.d].ahead
         /\ DOMAIN downloads' = DOMAIN downloads
         /\ \A d \in DOMAIN downloads : d # h.d => downloads'[d] = downloads[d]
    BY <1>2, <1>6
  <2> QED BY <1>a, <2>1, <2>2, <2>3, <2>4, <2>5, <2>7, <2>8, <2>9, <2>10, PageGoesOn
<1>14. DownloadTypeOK'
  <2>1. downloads' \in Seq([f : Files_f, chunks : Seq(Seq(Nat)), saved : Seq(Nat),
                            phase : Phases_f, ahead : BOOLEAN])
    BY <1>7
  <2> HIDE DEF stage, Downloads
  <2> QED BY <1>1, <1>2, <1>8, <1>13, <2>1 DEF DownloadTypeOK, Files_f
<1>15. SavedWhole'
  <2> SUFFICES ASSUME NEW d \in DOMAIN downloads', downloads'[d].phase = "saved",
                      ~ downloads'[d].ahead
               PROVE  downloads'[d].saved = [i \in 1 .. stored_f'[downloads'[d].f].size |-> i]
    BY DEF SavedWhole
  <2>1. d # h.d
    BY <1>6
  <2> HIDE DEF stage, Downloads
  <2> QED BY <1>1, <1>2, <1>6, <2>1 DEF SavedWhole
<1>16. PopupIsOf'
  <2>1. CASE asks
    BY <1>4, <1>6, <2>1 DEF PopupIsOf
  <2>2. CASE ~ asks
    <3> SUFFICES ASSUME filename # 0
                 PROVE  \E d \in DOMAIN downloads' : downloads'[d].phase \in {"receive", "end", "thrown"}
      BY <1>2, <2>2 DEF PopupIsOf
    <3>1. PICK d \in DOMAIN downloads : downloads[d].phase \in {"receive", "end", "thrown"}
      BY <1>1 DEF PopupIsOf
    <3>2. d # h.d
      BY <1>4, <3>1
    <3> QED BY <1>6, <3>1, <3>2
  <2> QED BY <2>1, <2>2
<1> QED BY <1>13, <1>14, <1>15, <1>16 DEF DownloadInvariant

(* A chunk arrives, and is put behind the others; or nothing does, and the    *)
(* download throws.                                                          *)
LEMMA ChunkArrivesSound ==
  ASSUME DownloadInvariant, ChunkArrives
  PROVE  DownloadInvariant'
<1>a. PICK h : h = Head(down)
  OBVIOUS
<1>b. PICK f : f = FileOf(h)
  OBVIOUS
<1>c. PICK data : data = h.chunk.data
  OBVIOUS
<1> DEFINE Downloads == [f : Files_f, chunks : Seq(Seq(Nat)), saved : Seq(Nat), phase : Phases_f,
                         ahead : BOOLEAN]
<1>1. /\ DownloadTypeOK /\ OneCallEach /\ ChunksInOrder /\ SavedWhole /\ PopupIsOf
  BY DEF DownloadInvariant
<1>2. /\ down \in Seq(DownloadAnswers) /\ downloads \in Seq(Downloads)
      /\ down # <<>> /\ h.what = "dlreceive" /\ h \in Range(down)
  <2>1. /\ down \in Seq(DownloadAnswers) /\ downloads \in Seq(Downloads)
        /\ down # <<>> /\ h.what = "dlreceive"
    BY <1>1, <1>a DEF DownloadTypeOK, ChunkArrives, Getting
  <2> HIDE DEF Downloads
  <2> QED BY <1>a, <2>1, FirstTaken
<1>3. /\ h.d \in DOMAIN downloads
      /\ h.chunk.empty \in BOOLEAN /\ h.chunk.last \in BOOLEAN /\ data \in Seq(Nat)
  BY <1>1, <1>2, <1>c, DownloadMessages
<1>d. PICK asks \in BOOLEAN : asks = (~ h.chunk.empty)
  OBVIOUS
<1>e. PICK ends \in BOOLEAN : ends = h.chunk.last
  BY <1>3
<1>f. PICK c : c = IF ends THEN [what |-> "dlend", d |-> h.d]
                   ELSE [what |-> "dlreceive", d |-> h.d, chunk |-> NothingLeft]
  OBVIOUS
<1>g. PICK stage : stage = IF ~ asks THEN "thrown" ELSE IF ends THEN "end" ELSE "receive"
  OBVIOUS
<1>4. downloads[h.d].phase = "receive"
  <2>1. downloads[h.d].phase # "left"
    BY <1>a DEF ChunkArrives, Here
  <2>2. downloads[h.d].phase \in DOMAIN CallOf /\ h.what = CallOf[downloads[h.d].phase]
    BY <1>1, <1>2, <2>1 DEF OneCallEach, UnderWay
  <2> QED BY <1>2, <2>2 DEF CallOf
<1>5. /\ Got /\ UNCHANGED <<stored_f, transfers, filename, reloads>>
      /\ asks => Ask(<<c>>)
      /\ ~ asks => Ask(<<>>)
      /\ downloads' = [downloads EXCEPT
           ![h.d].chunks = IF asks THEN Append(@, data) ELSE @,
           ![h.d].phase = stage]
  <2>1. /\ Got /\ UNCHANGED <<stored_f, transfers, filename, reloads>>
        /\ downloads' = [downloads EXCEPT
             ![h.d].chunks = IF h.chunk.empty THEN @ ELSE Append(@, data),
             ![h.d].phase = IF h.chunk.empty THEN "thrown" ELSE IF h.chunk.last THEN "end" ELSE @]
        /\ Ask(IF h.chunk.empty THEN <<>>
               ELSE IF h.chunk.last THEN <<[what |-> "dlend", d |-> h.d]>> ELSE Receive(h.d))
    BY <1>a, <1>c DEF ChunkArrives
  <2>2. CASE h.chunk.empty
    BY <1>d, <1>g, <2>1, <2>2
  <2>3. CASE ~ h.chunk.empty /\ ends
    BY <1>d, <1>e, <1>f, <1>g, <2>1, <2>3
  <2>4. CASE ~ h.chunk.empty /\ ~ ends
    BY <1>4, <1>d, <1>e, <1>f, <1>g, <2>1, <2>4 DEF Receive
  <2> QED BY <2>2, <2>3, <2>4
<1>6. /\ DOMAIN downloads = 1 .. Len(downloads) /\ Len(downloads) \in Nat
      /\ \A d \in DOMAIN downloads : downloads[d] \in Downloads
  <2> HIDE DEF Downloads
  <2> QED BY <1>2, LenProperties, ElementOfSeq
<1>7. PICK chunks \in Seq(Seq(Nat)) :
        chunks = IF asks THEN Append(downloads[h.d].chunks, data) ELSE downloads[h.d].chunks
  <2>1. downloads[h.d].chunks \in Seq(Seq(Nat))
    BY <1>3, <1>6
  <2> QED BY <1>3, <2>1, AppendProperties
<1>8. /\ DOMAIN downloads' = DOMAIN downloads
      /\ \A d \in DOMAIN downloads : d # h.d => downloads'[d] = downloads[d]
      /\ downloads'[h.d] \in Downloads /\ downloads'[h.d].phase = stage
      /\ downloads'[h.d].f = downloads[h.d].f /\ downloads'[h.d].ahead = downloads[h.d].ahead
      /\ downloads'[h.d].chunks = chunks
      /\ downloads'[h.d].saved = downloads[h.d].saved
  <2>1. downloads' = [downloads EXCEPT ![h.d] = [downloads[h.d] EXCEPT !.chunks = chunks, !.phase = stage]]
    <3>1. CASE asks
      BY <1>3, <1>5, <1>6, <1>7, <3>1
    <3>2. CASE ~ asks
      BY <1>3, <1>5, <1>6, <1>7, <3>2
    <3> QED BY <3>1, <3>2
  <2>2. stage \in Phases_f
    BY <1>g DEF Phases_f
  <2> QED BY <1>3, <1>6, <2>1, <2>2
<1>9. downloads' \in Seq(Downloads)
  <2>1. downloads' = [d \in 1 .. Len(downloads) |-> downloads'[d]]
    BY <1>5, <1>6
  <2>2. \A d \in 1 .. Len(downloads) : downloads'[d] \in Downloads
    <3> HIDE DEF Downloads
    <3> QED BY <1>6, <1>8
  <2> HIDE DEF Downloads
  <2> QED BY <1>6, <2>1, <2>2, IsASeq
<1>10. f \in Files_f /\ stored_f[f].size \in Nat /\ f = downloads[h.d].f
  <2>1. f \in Files_f /\ f = downloads[h.d].f
    BY <1>3, <1>6, <1>b DEF FileOf
  <2> QED BY <2>1, <1>1, SizesTyped
<1>11. /\ c \in DownloadCalls /\ c.d = h.d /\ c.what = IF ends THEN "dlend" ELSE "dlreceive"
  BY <1>3, <1>f DEF DownloadCalls
<1>12. Granted(h)
  BY <1>2 DEF Granted
<1>13. ASSUME asks, ~ downloads[h.d].ahead PROVE InOrderUp(c)'
  <2>1. PICK n \in 0 .. SizeOf(h.d) :
          /\ Ordered(h.d, n)
          /\ h.chunk = ChunkTaken(ChunkAt(n, SizeOf(h.d)))
          /\ Follows(f, n + Len(data))
    BY <1>1, <1>2, <1>b, <1>c, <1>d, <1>13 DEF ChunksInOrder, InOrderDown
  <2>a. PICK size : size = SizeOf(h.d)
    OBVIOUS
  <2>b. PICK l : l = Least(DownChunk, size - n)
    OBVIOUS
  <2>c. PICK piece : piece = ChunkAt(n, size)
    OBVIOUS
  <2>2. size = stored_f[f].size /\ size \in Nat /\ n \in Nat /\ n <= size
    BY <1>10, <1>b, <2>1, <2>a DEF SizeOf, FileOf
  <2>3. /\ piece.last <=> size - n < DownChunk
        /\ Len(piece.data) = l /\ l \in Nat
        /\ n + l <= size
        /\ size - n < DownChunk => n + l = size
    BY <2>2, <2>b, <2>c, ChunkIs
  <2>4. data = piece.data /\ (ends <=> piece.last) /\ data = [i \in 1 .. l |-> n + i]
    BY <1>c, <1>e, <2>1, <2>a, <2>b, <2>c DEF ChunkTaken, ChunkAt
  <2>5. Positions(n) \o data = Positions(n + l)
    <3>1. \A i \in 1 .. l : data[i] = n + i
      BY <2>4
    <3> QED BY <1>3, <2>2, <2>3, <2>4, <3>1, PositionsGrow
  <2>6. Ordered(c.d, n + l)'
    <3>1. downloads'[h.d].chunks = Append(downloads[h.d].chunks, data)
      BY <1>7, <1>8, <1>13
    <3>2. downloads[h.d].chunks \in Seq(Seq(Nat))
      BY <1>3, <1>6
    <3>3. ConcatBytes(Append(downloads[h.d].chunks, data)) = ConcatBytes(downloads[h.d].chunks) \o data
      BY <1>3, <3>2, ConcatAppend
    <3> QED BY <1>11, <2>1, <2>5, <3>1, <3>3 DEF Ordered, Received_f
  <2>7. FileOf(c)' = f /\ Follows(f, n + l)'
    BY <1>5, <1>8, <1>10, <1>11, <2>1, <2>3, <2>4 DEF FileOf, Follows
  <2>8. SizeOf(c.d)' = size
    BY <1>5, <1>8, <1>10, <1>11, <2>2 DEF SizeOf
  <2>9. CASE ends
    <3>1. n + l = size /\ c.what = "dlend"
      BY <1>11, <2>3, <2>4, <2>9
    <3> QED BY <2>6, <2>7, <2>8, <3>1 DEF InOrderUp
  <2>10. CASE ~ ends
    <3>1. c.what = "dlreceive" /\ n + l \in 0 .. size
      BY <1>11, <2>2, <2>3, <2>10
    <3> QED BY <2>6, <2>7, <2>8, <3>1 DEF InOrderUp
  <2> QED BY <2>9, <2>10
<1>14. /\ up' \in Seq(DownloadCalls') /\ down' \in Seq(DownloadAnswers')
       /\ OneCallEach' /\ PageAwaits' /\ HoldersApart' /\ TransfersHeld'
       /\ ThreadsRight' /\ ChunksInOrder' /\ LastAwaits'
  <2>1. ~ asks => up' = up
    BY <1>1, <1>5, AskedNone
  <2>2. downloads[h.d].phase \in DOMAIN CallOf
    BY <1>4 DEF CallOf
  <2>3. asks => /\ downloads'[h.d].phase \in DOMAIN CallOf
                /\ c.what = CallOf[downloads'[h.d].phase]
    BY <1>8, <1>11, <1>g DEF CallOf
  <2>4. ~ asks => downloads'[h.d].phase \notin DOMAIN CallOf
    BY <1>8, <1>g DEF CallOf
  <2>5. asks => c \in DownloadCalls /\ c.d = h.d /\ Ask(<<c>>)
    BY <1>5, <1>11
  <2>6. asks => (~ downloads[h.d].ahead => InOrderUp(c)')
    BY <1>13
  <2>7. asks => Granted(h) /\ c.what # "dlstart"
    BY <1>11, <1>12
  <2>8. /\ asks => (c.what = "dlreceive" => h \in Asking)
        /\ ~ asks => (Granted(h) => downloads'[h.d].phase = "thrown")
    BY <1>2, <1>8, <1>11, <1>d, <1>e, <1>g DEF Asking
  <2>9. /\ down # <<>> /\ Got /\ UNCHANGED <<stored_f, transfers>>
        /\ downloads'[h.d].f = downloads[h.d].f /\ downloads'[h.d].ahead = downloads[h.d].ahead
        /\ DOMAIN downloads' = DOMAIN downloads
        /\ \A d \in DOMAIN downloads : d # h.d => downloads'[d] = downloads[d]
    BY <1>2, <1>5, <1>8
  <2> QED BY <1>a, <2>1, <2>2, <2>3, <2>4, <2>5, <2>6, <2>7, <2>8, <2>9, PageGoesOn
<1>15. DownloadTypeOK'
  <2>1. downloads' \in Seq([f : Files_f, chunks : Seq(Seq(Nat)), saved : Seq(Nat),
                            phase : Phases_f, ahead : BOOLEAN])
    BY <1>9
  <2> HIDE DEF Downloads
  <2> QED BY <1>1, <1>5, <1>14, <2>1 DEF DownloadTypeOK, Files_f
<1>16. SavedWhole'
  <2> SUFFICES ASSUME NEW d \in DOMAIN downloads', downloads'[d].phase = "saved",
                      ~ downloads'[d].ahead
               PROVE  downloads'[d].saved = [i \in 1 .. stored_f'[downloads'[d].f].size |-> i]
    BY DEF SavedWhole
  <2>1. d # h.d
    BY <1>8, <1>g
  <2> HIDE DEF Downloads
  <2> QED BY <1>1, <1>5, <1>8, <2>1 DEF SavedWhole
<1>17. PopupIsOf'
  <2>1. h.d \in DOMAIN downloads' /\ downloads'[h.d].phase \in {"receive", "end", "thrown"}
    BY <1>3, <1>8, <1>g
  <2> QED BY <2>1 DEF PopupIsOf
<1> QED BY <1>14, <1>15, <1>16, <1>17 DEF DownloadInvariant

(* A download ends: its file is saved, and the popup closes.                 *)
LEMMA DownloadEndsSound ==
  ASSUME DownloadInvariant, DownloadEnds
  PROVE  DownloadInvariant'
<1>a. PICK h : h = Head(down)
  OBVIOUS
<1>b. PICK bytes : bytes = ConcatBytes(downloads[h.d].chunks)
  OBVIOUS
<1> DEFINE Downloads == [f : Files_f, chunks : Seq(Seq(Nat)), saved : Seq(Nat), phase : Phases_f,
                         ahead : BOOLEAN]
<1>1. /\ DownloadTypeOK /\ OneCallEach /\ ChunksInOrder /\ SavedWhole /\ PopupIsOf
  BY DEF DownloadInvariant
<1>2. /\ down # <<>> /\ h.what = "dlend" /\ downloads[h.d].phase # "left" /\ Got
      /\ filename' = 0
      /\ downloads' = [downloads EXCEPT ![h.d].phase = "saved", ![h.d].saved = bytes]
      /\ UNCHANGED <<up, stored_f, transfers, reloads>>
  BY <1>a, <1>b DEF DownloadEnds, Getting, Here, ClosesPopup
<1>3. down \in Seq(DownloadAnswers) /\ downloads \in Seq(Downloads)
  BY <1>1 DEF DownloadTypeOK
<1>4. /\ h \in Range(down) /\ h.d \in DOMAIN downloads
      /\ downloads[h.d].phase = "end"
  <2>1. h \in Range(down) /\ h.d \in DOMAIN downloads
    BY <1>1, <1>2, <1>3, <1>a, FirstTaken, DownloadMessages
  <2>2. downloads[h.d].phase \in DOMAIN CallOf /\ h.what = CallOf[downloads[h.d].phase]
    BY <1>1, <1>2, <2>1 DEF OneCallEach, UnderWay
  <2> QED BY <1>2, <2>1, <2>2 DEF CallOf
<1>5. /\ DOMAIN downloads = 1 .. Len(downloads) /\ Len(downloads) \in Nat
      /\ \A d \in DOMAIN downloads : downloads[d] \in Downloads
  <2> HIDE DEF Downloads
  <2> QED BY <1>3, LenProperties, ElementOfSeq
<1>6. bytes \in Seq(Nat)
  <2>1. downloads[h.d].chunks \in Seq(Seq(Nat))
    BY <1>4, <1>5
  <2> QED BY <1>b, <2>1, ConcatAppend, EmptySeq
<1>7. /\ DOMAIN downloads' = DOMAIN downloads
      /\ \A d \in DOMAIN downloads : d # h.d => downloads'[d] = downloads[d]
      /\ downloads'[h.d] \in Downloads /\ downloads'[h.d].phase = "saved"
      /\ downloads'[h.d].f = downloads[h.d].f /\ downloads'[h.d].ahead = downloads[h.d].ahead
      /\ downloads'[h.d].chunks = downloads[h.d].chunks
      /\ downloads'[h.d].saved = bytes
  BY <1>2, <1>4, <1>5, <1>6 DEF Phases_f
<1>8. downloads' \in Seq(Downloads)
  <2>1. downloads' = [d \in 1 .. Len(downloads) |-> downloads'[d]]
    BY <1>2, <1>5
  <2>2. \A d \in 1 .. Len(downloads) : downloads'[d] \in Downloads
    <3> HIDE DEF Downloads
    <3> QED BY <1>5, <1>7
  <2> HIDE DEF Downloads
  <2> QED BY <1>5, <2>1, <2>2, IsASeq
<1>9. /\ up' \in Seq(DownloadCalls') /\ down' \in Seq(DownloadAnswers')
      /\ OneCallEach' /\ PageAwaits' /\ HoldersApart' /\ TransfersHeld'
      /\ ThreadsRight' /\ ChunksInOrder' /\ LastAwaits'
  <2>1. PICK asks \in BOOLEAN : asks = FALSE
    OBVIOUS
  <2>2. downloads[h.d].phase \in DOMAIN CallOf /\ downloads'[h.d].phase \notin DOMAIN CallOf
    BY <1>4, <1>7 DEF CallOf
  <2>3. ~ Granted(h)
    BY <1>2 DEF Granted
  <2>4. /\ down # <<>> /\ Got /\ UNCHANGED <<stored_f, transfers>> /\ up' = up
        /\ downloads'[h.d].f = downloads[h.d].f /\ downloads'[h.d].ahead = downloads[h.d].ahead
        /\ DOMAIN downloads' = DOMAIN downloads
        /\ \A d \in DOMAIN downloads : d # h.d => downloads'[d] = downloads[d]
    BY <1>2, <1>7
  <2> QED BY <1>a, <2>1, <2>2, <2>3, <2>4, PageGoesOn
<1>10. DownloadTypeOK'
  <2>1. downloads' \in Seq([f : Files_f, chunks : Seq(Seq(Nat)), saved : Seq(Nat),
                            phase : Phases_f, ahead : BOOLEAN])
    BY <1>8
  <2> HIDE DEF Downloads
  <2> QED BY <1>1, <1>2, <1>9, <2>1 DEF DownloadTypeOK, Files_f
<1>11. SavedWhole'
  <2> SUFFICES ASSUME NEW d \in DOMAIN downloads', downloads'[d].phase = "saved",
                      ~ downloads'[d].ahead
               PROVE  downloads'[d].saved = [i \in 1 .. stored_f'[downloads'[d].f].size |-> i]
    BY DEF SavedWhole
  <2> HIDE DEF Downloads
  <2>1. CASE d = h.d
    <3>1. Ordered(h.d, SizeOf(h.d))
      BY <1>1, <1>2, <1>4, <1>7, <2>1 DEF ChunksInOrder, InOrderDown
    <3>2. bytes = [i \in 1 .. stored_f[downloads[h.d].f].size |-> i]
      BY <1>b, <3>1 DEF Ordered, Received_f, SizeOf, Positions
    <3> QED BY <1>2, <1>7, <2>1, <3>2
  <2>2. CASE d # h.d
    BY <1>1, <1>2, <1>7, <2>2 DEF SavedWhole
  <2> QED BY <2>1, <2>2
<1>12. PopupIsOf'
  BY <1>2 DEF PopupIsOf
<1> QED BY <1>9, <1>10, <1>11, <1>12 DEF DownloadInvariant

(* Nothing happens.                                                          *)
LEMMA DownloadStutters ==
  ASSUME DownloadInvariant, UNCHANGED <<calls, vars_f>>
  PROVE  DownloadInvariant'
<1>1. /\ DownloadTypeOK /\ OneCallEach /\ PageAwaits /\ HoldersApart /\ TransfersHeld
      /\ ThreadsRight /\ ChunksInOrder /\ SavedWhole /\ LastAwaits /\ PopupIsOf
  BY DEF DownloadInvariant
<1>2. UNCHANGED <<calls, stored_f, filename, downloads, reloads>> /\ transfers' = transfers
  BY DEF vars_f
<1>3. \A f \in DOMAIN transfers :
        /\ transfers'[f] \in [next : Nat, stack : Seq(Chunks_f), runs : BOOLEAN, unblock : BOOLEAN]
        /\ \A n : Follows(f, n) => Follows(f, n)'
  BY <1>1, <1>2, SizesTyped DEF Follows
<1>4. ThreadsRight' /\ LastAwaits'
  BY <1>1, <1>2 DEF ThreadsRight, LastAwaits, Asking, FileOf, calls
<1> QED BY <1>2, <1>3, <1>4, ThreadStepSound

LEMMA DownloadStepSound ==
  ASSUME DownloadInvariant, [DownloadNext /\ UNCHANGED route]_<<route, calls, vars_f>>
  PROVE  DownloadInvariant'
<1>1. ASSUME NEW f \in Files_f, ClickFile(f) PROVE DownloadInvariant'
  BY <1>1, ClickFileSound
<1>2. CASE LeavesPage
  BY <1>2, LeavesPageSound
<1>3. CASE ServeDownloadStart
  BY <1>3, ServeDownloadStartSound
<1>4. ASSUME NEW f \in Files_f, PreloadsChunk(f) PROVE DownloadInvariant'
  BY <1>4, PreloadsChunkSound
<1>5. ASSUME NEW f \in Files_f, ThreadReturns(f) PROVE DownloadInvariant'
  BY <1>5, ThreadReturnsSound
<1>6. CASE ServeReceive
  BY <1>6, ServeReceiveSound
<1>7. CASE ServeDownloadEnd
  BY <1>7, ServeDownloadEndSound
<1>8. CASE AnswerIsLost
  BY <1>8, AnswerIsLostSound
<1>9. CASE DownloadStarts
  BY <1>9, DownloadStartsSound
<1>10. CASE ChunkArrives
  BY <1>10, ChunkArrivesSound
<1>11. CASE DownloadEnds
  BY <1>11, DownloadEndsSound
<1>12. CASE UNCHANGED <<route, calls, vars_f>>
  BY <1>12, DownloadStutters
<1> QED
  BY <1>1, <1>2, <1>3, <1>4, <1>5, <1>6, <1>7, <1>8, <1>9, <1>10, <1>11, <1>12 DEF DownloadNext

(* What the invariant says of calls that wait, of transfers and of popups.   *)
LEMMA DownloadConsequences ==
  ASSUME DownloadInvariant
  PROVE  StuckOnlyWhenNoneIsLast /\ TransfersEnd /\ PopupCloses
<1>1. /\ DownloadTypeOK /\ PageAwaits /\ TransfersHeld /\ ThreadsRight /\ LastAwaits /\ PopupIsOf
  BY DEF DownloadInvariant
<1>2. StuckOnlyWhenNoneIsLast
  <2> SUFFICES ASSUME NEW f \in Files_f, Serving("dlreceive"), FileOf(Head(up)) = f, Waits(f),
                      ~ transfers[f].runs
               PROVE  stored_f[f].disk /\ stored_f[f].size % DownChunk = 0
    BY DEF StuckOnlyWhenNoneIsLast
  <2>1. f \in DOMAIN transfers /\ transfers[f].stack = <<>> /\ ~ transfers[f].unblock
    BY DEF Waits
  <2>2. transfers[f].next = stored_f[f].size /\ stored_f[f].disk
    BY <1>1, <2>1 DEF ThreadsRight
  <2>3. Head(up) \in Asking
    <3>1. up \in Seq(DownloadCalls) /\ up # <<>> /\ Head(up).what = "dlreceive"
      BY <1>1 DEF DownloadTypeOK, Serving
    <3> QED BY <3>1, FirstTaken DEF Asking
  <2>4. DOMAIN transfers[f].stack = {}
    BY <2>1
  <2>5. transfers[f].next % DownChunk = 0
    BY <1>1, <2>2, <2>3, <2>4 DEF LastAwaits
  <2> QED BY <2>2, <2>5
<1>3. TransfersEnd
  <2> SUFFICES ASSUME Quiet("download"), NEW f \in DOMAIN transfers
               PROVE  \E d \in DOMAIN downloads :
                        downloads[d].f = f
                          /\ (downloads[d].ahead \/ downloads[d].phase \in {"left", "thrown"})
    BY DEF TransfersEnd
  <2>1. Holding = {}
    BY DEF Quiet, Holding, Range
  <2> QED BY <1>1, <2>1 DEF TransfersHeld
<1>4. PopupCloses
  <2> SUFFICES ASSUME Quiet("download"), \A d \in DOMAIN downloads : downloads[d].phase # "thrown",
                      filename # 0
               PROVE  FALSE
    BY DEF PopupCloses
  <2>1. UnderWay = {}
    BY DEF Quiet, UnderWay, Range
  <2>2. PICK d \in DOMAIN downloads : downloads[d].phase \in {"receive", "end"}
    BY <1>1 DEF PopupIsOf
  <2>3. downloads[d].phase \in DOMAIN CallOf
    BY <2>2 DEF CallOf
  <2> QED BY <1>1, <2>1, <2>3 DEF PageAwaits
<1> QED BY <1>2, <1>3, <1>4

(* downloadFile: for any files, sizes and chunks, what is saved is the file,  *)
(* whole and in order, unless the thread got ahead of the page; the server    *)
(* waits for good only for a file none of whose chunks is shorter than the    *)
(* others; and transfers and popups end, but for the races that are named.    *)
THEOREM DownloadsAlwaysSound == DownloadSpec => []DownloadsSound
<1> DEFINE Starts == route = "download" /\ up = <<>> /\ down = <<>> /\ DownloadInit
           Step   == [DownloadNext /\ UNCHANGED route]_<<route, calls, vars_f>>
<1>1. Starts => DownloadInvariant
  BY DownloadInitSound
<1>2. DownloadInvariant /\ Step => DownloadInvariant'
  BY DownloadStepSound
<1>3. DownloadInvariant => DownloadsSound
  BY DownloadConsequences DEF DownloadsSound
<1> QED BY <1>1, <1>2, <1>3, PTL DEF DownloadSpec
==============================================================================
