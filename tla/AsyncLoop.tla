------------------------------ MODULE AsyncLoop ------------------------------
(***************************************************************************)
(* SysAsyncEventLoop, mxsystem.cpp: a thread that runs the jobs scheduled   *)
(* for it, once or again and again, and the destructor that clears its      *)
(* queue and joins it.  A backend has one (_io, mxbackend.h): its callbacks *)
(* and deferExec schedule on it.                                            *)
(*                                                                          *)
(* Times are relative to now: a task is due when its time is not positive,  *)
(* and a tick takes one from every time.  A tick waits when a task is       *)
(* MaxLate late, which bounds how far jobs and loop fall behind.            *)
(***************************************************************************)
EXTENDS Integers, FiniteSets

CONSTANTS
  Delays,     (* delays a job is scheduled with                             *)
  Intervals,  (* intervals, 0 for a job that is run once                    *)
  MaxTasks,   (* bound: jobs that are scheduled                             *)
  MaxLate     (* bound: how late a task may be                              *)

ASSUME LoopAssumption ==
  /\ Delays \cup Intervals \subseteq Int
  /\ {MaxTasks, MaxLate} \subseteq Nat

VARIABLES
  queue_l,    (* the tasks in the queue                                     *)
  task_l,     (* the task that runs, if one does                            *)
  loop_l,     (* where the thread is: "looks", "waits" (for a notify),      *)
              (* "sleeps" (until a time or a notify), "runs", "done"        *)
  wake_l,     (* when the thread that sleeps wakes                          *)
  closed_l,   (* the destructor: "no", "cleared", "joins"                   *)
  made_l,     (* tasks scheduled so far                                     *)
  kept_l      (* history: a recurring job was run, or scheduled by one that *)
              (* was, when the queue had been cleared                       *)

vars_l == <<queue_l, task_l, loop_l, wake_l, closed_l, made_l, kept_l>>

Tasks == [id : 1 .. MaxTasks, at : Int, every : Intervals]
NoTask == [id |-> 0, at |-> 0, every |-> 0]
Due(t) == t.at <= 0
Earliest == {t \in queue_l : \A u \in queue_l : t.at <= u.at}

------------------------------------------------------------------------------
LoopInit ==
  /\ queue_l = {}
  /\ task_l = NoTask
  /\ loop_l = "looks"
  /\ wake_l = 0
  /\ closed_l = "no"
  /\ made_l = 0
  /\ kept_l = FALSE

(* Fault: only a thread that waits for its first task is notified           *)
(* (NeverOversleeps).                                                        *)
NotifiedIfIdle == IF loop_l = "waits" THEN "looks" ELSE loop_l

(* notify_all: the thread looks again, if it waits or sleeps.                *)
Notified == IF loop_l \in {"waits", "sleeps"} THEN "looks" ELSE loop_l

(* schedule: another thread, or the job that runs, adds a task.  Nothing     *)
(* but a job does once the loop is being destroyed.                          *)
Schedule(delay, interval) ==
  /\ made_l < MaxTasks
  /\ closed_l = "no" \/ loop_l = "runs"
  /\ made_l' = made_l + 1
  /\ queue_l' = queue_l \cup {[id |-> made_l + 1, at |-> delay, every |-> interval]}
  /\ loop_l' = Notified
  /\ kept_l' = (kept_l \/ (closed_l # "no" /\ interval > 0))
  /\ UNCHANGED <<task_l, wake_l, closed_l>>

(* The thread, holding the lock: nothing to do, so it waits ...              *)
LoopWaits ==
  /\ loop_l = "looks" /\ queue_l = {} /\ closed_l = "no"
  /\ loop_l' = "waits"
  /\ UNCHANGED <<queue_l, task_l, wake_l, closed_l, made_l, kept_l>>

(* ... or ends, when it is told to stop and the queue is empty; ...          *)
LoopEnds ==
  /\ loop_l = "looks" /\ queue_l = {} /\ closed_l # "no"
  /\ loop_l' = "done"
  /\ UNCHANGED <<queue_l, task_l, wake_l, closed_l, made_l, kept_l>>

(* ... the first task is due and taken, ...                                  *)
LoopTakes ==
  /\ loop_l = "looks"
  /\ \E t \in Earliest : Due(t) /\ task_l' = t /\ queue_l' = queue_l \ {t}
  /\ loop_l' = "runs"
  /\ UNCHANGED <<wake_l, closed_l, made_l, kept_l>>

(* ... or is not due yet, and the thread sleeps until it is.                 *)
LoopSleeps ==
  /\ loop_l = "looks"
  /\ \E t \in Earliest : ~ Due(t) /\ wake_l' = t.at
  /\ loop_l' = "sleeps"
  /\ UNCHANGED <<queue_l, task_l, closed_l, made_l, kept_l>>

(* The time it sleeps for is over.                                           *)
LoopWakes ==
  /\ loop_l = "sleeps" /\ wake_l <= 0
  /\ loop_l' = "looks"
  /\ UNCHANGED <<queue_l, task_l, wake_l, closed_l, made_l, kept_l>>

(* A wait may also end for no reason.                                        *)
LoopWakesSpuriously ==
  /\ loop_l \in {"waits", "sleeps"}
  /\ loop_l' = "looks"
  /\ UNCHANGED <<queue_l, task_l, wake_l, closed_l, made_l, kept_l>>

(* Fault: a job that is run once is put back too (LoopReturns).              *)
AlwaysRescheduled == {[task_l EXCEPT !.at = @ + task_l.every]}

(* The job returns.  A recurring task is put back with its next time,        *)
(* whatever has become of the loop meanwhile.                                *)
Rescheduled == {[task_l EXCEPT !.at = @ + task_l.every] : t \in {t \in {task_l} : t.every > 0}}

JobReturns ==
  /\ loop_l = "runs"
  /\ queue_l' = queue_l \cup Rescheduled
  /\ task_l' = NoTask
  /\ loop_l' = "looks"
  /\ UNCHANGED <<wake_l, closed_l, made_l, kept_l>>

(* The destructor stops the loop and clears the queue, ...                   *)
DestructorClears ==
  /\ closed_l = "no"
  /\ closed_l' = "cleared"
  /\ queue_l' = {}
  /\ kept_l' = (loop_l = "runs" /\ task_l.every > 0)
  /\ UNCHANGED <<task_l, loop_l, wake_l, made_l>>

(* ... notifies, and joins the thread.                                       *)
DestructorNotifies ==
  /\ closed_l = "cleared"
  /\ closed_l' = "joins"
  /\ loop_l' = Notified
  /\ UNCHANGED <<queue_l, task_l, wake_l, made_l, kept_l>>

Ticked(t) == [t EXCEPT !.at = @ - 1]
Tick ==
  /\ \A t \in queue_l \cup {task_l} : t.at > - MaxLate
  /\ queue_l # {} \/ loop_l = "runs"
  /\ queue_l' = {Ticked(t) : t \in queue_l}
  /\ task_l' = IF loop_l = "runs" THEN Ticked(task_l) ELSE task_l
  /\ wake_l' = IF loop_l = "sleeps" /\ wake_l > 0 THEN wake_l - 1 ELSE wake_l
  /\ UNCHANGED <<loop_l, closed_l, made_l, kept_l>>

LoopThread ==
  LoopWaits \/ LoopEnds \/ LoopTakes \/ LoopSleeps \/ LoopWakes \/ JobReturns

LoopNext ==
  \/ \E delay \in Delays, interval \in Intervals : Schedule(delay, interval)
  \/ LoopThread
  \/ LoopWakesSpuriously
  \/ DestructorClears
  \/ DestructorNotifies
  \/ Tick

LoopSpec == LoopInit /\ [][LoopNext]_vars_l

------------------------------------------------------------------------------
LoopTypeOK ==
  /\ queue_l \subseteq Tasks
  /\ task_l \in Tasks \cup {NoTask}
  /\ loop_l \in {"looks", "waits", "sleeps", "runs", "done"}
  /\ loop_l = "runs" <=> task_l # NoTask
  /\ closed_l \in {"no", "cleared", "joins"}
  /\ made_l \in 0 .. MaxTasks
  /\ wake_l \in Int
  /\ kept_l \in BOOLEAN

(* No task is slept through: while the thread sleeps it is to wake no later  *)
(* than the first task is due, and it waits for a notify only when there is  *)
(* nothing to run (the two waits, mxsystem.cpp:870 and 888).                 *)
NeverOversleeps ==
  closed_l = "no" =>
    /\ loop_l = "sleeps" => \A t \in queue_l : wake_l <= t.at \/ (t.at <= 0 /\ wake_l <= 0)
    /\ loop_l = "waits" => queue_l = {}

(* The destructor waits for ever in one case only, and then surely: when it  *)
(* cleared the queue while a job ran that is recurring, and puts itself back *)
(* (mxsystem.cpp:901), or schedules one that is.                             *)
KeptNeverDone == kept_l => loop_l # "done"
LoopReturns == []<>(closed_l = "no" \/ loop_l = "done" \/ kept_l)

(* Once the loop is being destroyed a recurring task that was kept is in the *)
(* queue or runs, and only then.                                             *)
KeptRecurs ==
  /\ kept_l => closed_l # "no" /\ \E t \in queue_l \cup {task_l} : t.every > 0
  /\ loop_l = "done" => closed_l # "no"

AsyncLoopSound == LoopTypeOK /\ NeverOversleeps /\ KeptRecurs /\ KeptNeverDone
=============================================================================
