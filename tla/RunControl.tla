----------------------------- MODULE RunControl -----------------------------
(***************************************************************************)
(* Runs, run/mxrun.cpp: starting, stopping and resetting the run number as *)
(* sequences of reads and writes of the keys /system/run/status and        *)
(* /system/run/number and of the table runlog, done by the RPC threads of  *)
(* several callers with no lock around them, and by the main thread when   *)
(* the server closes (SysCloseExperiment, mxsystem.cpp).                   *)
(*                                                                         *)
(* The keys are kept in memory and saved when the server closes; the table *)
(* is an SQLite table, written at once.  A crash therefore takes the run   *)
(* number back and leaves the table as it is.  Saving is one step here     *)
(* (RdbPool has two).  The timestamps and the files of a run are left out. *)
(***************************************************************************)
EXTENDS Naturals, FiniteSets

CONSTANTS
  Callers,    (* RPC threads that call RunStart, RunStop and RunReset       *)
  MaxRun,     (* bound: the highest run number                              *)
  MaxCrashes, (* bound: crashes of the server                               *)
  MaxOverlaps (* bound: calls that begin before another, or the closing of  *)
              (* the server, has ended                                      *)

Main == "main"

ASSUME RunAssumption ==
  /\ IsFiniteSet(Callers) /\ Main \notin Callers
  /\ {MaxRun, MaxCrashes, MaxOverlaps} \subseteq Nat

RunThreads == Callers \cup {Main}

VARIABLES
  phase,      (* "down" | "up" | "closing" | "draining"                     *)
  status,     (* /system/run/status: "STOPPED" | "RUNNING"                  *)
  number,     (* /system/run/number                                         *)
  saved,      (* the run number in rdb.bin                                  *)
  runlog,     (* run id -> "started" | "stopped", for the rows there are    *)
  pc,         (* what each thread does next, "idle" when not in a call      *)
  runno,      (* the local run number of each thread's call                 *)
  crashes,    (* crashes so far                                             *)
  overlaps    (* history: calls so far that began before another ended      *)

vars_runs == <<phase, status, number, saved, runlog, pc, runno, crashes, overlaps>>

Steps == {"idle",
          "start", "start_number", "start_write", "start_log", "start_status",
          "stop", "stop_number", "stop_log", "stop_status",
          "reset", "reset_number", "reset_log"}

Goto(t, step) == pc' = [pc EXCEPT ![t] = step]
NoRunCalls == \A t \in RunThreads : pc[t] = "idle"
NoRuns == [r \in {} |-> "started"]

------------------------------------------------------------------------------
RunsInit ==
  /\ phase = "down"
  /\ status = "STOPPED"
  /\ number = 0
  /\ saved = 0
  /\ runlog = NoRuns
  /\ pc = [t \in RunThreads |-> "idle"]
  /\ runno = [t \in RunThreads |-> 0]
  /\ crashes = 0
  /\ overlaps = 0

(* Fault: the status outlives the server (StatusMatchesLog).               *)
BootKeepsStatus ==
  /\ phase = "down"
  /\ phase' = "up"
  /\ number' = saved
  /\ UNCHANGED <<status, saved, runlog, pc, runno, crashes, overlaps>>

(* RdbInit restores the number; RunInitVariables then resets the status.    *)
RunInitVariables ==
  /\ phase = "down"
  /\ phase' = "up"
  /\ status' = "STOPPED"
  /\ number' = saved
  /\ UNCHANGED <<saved, runlog, pc, runno, crashes, overlaps>>

(* History: a call began, alone or not.                                    *)
Began(alone) ==
  /\ overlaps' = IF alone THEN overlaps ELSE overlaps + 1
  /\ overlaps' <= MaxOverlaps

(* An RPC thread takes a call; it can until the RPC server is stopped.      *)
RunCall(t, op) ==
  /\ phase \in {"up", "closing"}
  /\ pc[t] = "idle"
  /\ Goto(t, op)
  /\ Began(NoRunCalls /\ phase = "up")
  /\ UNCHANGED <<phase, status, number, saved, runlog, runno, crashes>>

------------------------------------------------------------------------------
(* RunStart                                                                *)
StartChecks(t) ==
  /\ pc[t] = "start"
  /\ Goto(t, IF status = "STOPPED" THEN "start_number" ELSE "idle")
  /\ UNCHANGED <<phase, status, number, saved, runlog, runno, crashes, overlaps>>

StartReadsNumber(t) ==
  /\ pc[t] = "start_number"
  /\ number < MaxRun
  /\ runno' = [runno EXCEPT ![t] = number + 1]
  /\ Goto(t, "start_write")
  /\ UNCHANGED <<phase, status, number, saved, runlog, crashes, overlaps>>

StartWritesNumber(t) ==
  /\ pc[t] = "start_write"
  /\ number' = runno[t]
  /\ Goto(t, "start_log")
  /\ UNCHANGED <<phase, status, saved, runlog, runno, crashes, overlaps>>

(* RunRegisterStart: INSERT OR REPLACE, with no stop time.                 *)
RunRegisterStart(t) ==
  /\ pc[t] = "start_log"
  /\ runlog' = [r \in DOMAIN runlog \cup {runno[t]} |->
                  IF r = runno[t] THEN "started" ELSE runlog[r]]
  /\ Goto(t, "start_status")
  /\ UNCHANGED <<phase, status, number, saved, runno, crashes, overlaps>>

StartWritesStatus(t) ==
  /\ pc[t] = "start_status"
  /\ status' = "RUNNING"
  /\ runno' = [runno EXCEPT ![t] = 0]
  /\ Goto(t, "idle")
  /\ UNCHANGED <<phase, number, saved, runlog, crashes, overlaps>>

RunStart(t) ==
  \/ StartChecks(t) \/ StartReadsNumber(t) \/ StartWritesNumber(t)
  \/ RunRegisterStart(t) \/ StartWritesStatus(t)

------------------------------------------------------------------------------
(* RunStop                                                                 *)
StopChecks(t) ==
  /\ pc[t] = "stop"
  /\ Goto(t, IF status = "RUNNING" THEN "stop_number" ELSE "idle")
  /\ UNCHANGED <<phase, status, number, saved, runlog, runno, crashes, overlaps>>

StopReadsNumber(t) ==
  /\ pc[t] = "stop_number"
  /\ runno' = [runno EXCEPT ![t] = number]
  /\ Goto(t, "stop_log")
  /\ UNCHANGED <<phase, status, number, saved, runlog, crashes, overlaps>>

(* RunRegisterStop: UPDATE of the row, if there is one.                    *)
RunRegisterStop(t) ==
  /\ pc[t] = "stop_log"
  /\ runlog' = [r \in DOMAIN runlog |-> IF r = runno[t] THEN "stopped" ELSE runlog[r]]
  /\ Goto(t, "stop_status")
  /\ UNCHANGED <<phase, status, number, saved, runno, crashes, overlaps>>

StopWritesStatus(t) ==
  /\ pc[t] = "stop_status"
  /\ status' = "STOPPED"
  /\ runno' = [runno EXCEPT ![t] = 0]
  /\ Goto(t, "idle")
  /\ UNCHANGED <<phase, number, saved, runlog, crashes, overlaps>>

RunStop(t) ==
  StopChecks(t) \/ StopReadsNumber(t) \/ RunRegisterStop(t) \/ StopWritesStatus(t)

------------------------------------------------------------------------------
(* RunReset: the number, then the files of the runs, then the table.       *)
ResetChecks(t) ==
  /\ pc[t] = "reset"
  /\ Goto(t, IF status = "STOPPED" THEN "reset_number" ELSE "idle")
  /\ UNCHANGED <<phase, status, number, saved, runlog, runno, crashes, overlaps>>

ResetWritesNumber(t) ==
  /\ pc[t] = "reset_number"
  /\ number' = 0
  /\ Goto(t, "reset_log")
  /\ UNCHANGED <<phase, status, saved, runlog, runno, crashes, overlaps>>

(* Fault: the table keeps its rows (RunsNeverReplaced).                    *)
ResetKeepsRuns(t) ==
  /\ pc[t] = "reset_log"
  /\ Goto(t, "idle")
  /\ UNCHANGED <<phase, status, number, saved, runlog, runno, crashes, overlaps>>

ResetDeletesRuns(t) ==
  /\ pc[t] = "reset_log"
  /\ runlog' = NoRuns
  /\ Goto(t, "idle")
  /\ UNCHANGED <<phase, status, number, saved, runno, crashes, overlaps>>

RunReset(t) == ResetChecks(t) \/ ResetWritesNumber(t) \/ ResetDeletesRuns(t)

------------------------------------------------------------------------------
(* SysCloseExperiment: the main thread calls RunStop ...                   *)
Close ==
  /\ phase = "up"
  /\ phase' = "closing"
  /\ Goto(Main, "stop")
  /\ Began(NoRunCalls)
  /\ UNCHANGED <<status, number, saved, runlog, runno, crashes>>

(* ... then the RPC server stops taking calls ...                          *)
CloseStopsRpc ==
  /\ phase = "closing"
  /\ pc[Main] = "idle"
  /\ phase' = "draining"
  /\ UNCHANGED <<status, number, saved, runlog, pc, runno, crashes, overlaps>>

(* ... and once its threads have ended RdbClose saves the keys.            *)
CloseSaves ==
  /\ phase = "draining"
  /\ NoRunCalls
  /\ phase' = "down"
  /\ saved' = number
  /\ UNCHANGED <<status, number, runlog, pc, runno, crashes, overlaps>>

Crash ==
  /\ phase # "down"
  /\ crashes < MaxCrashes
  /\ crashes' = crashes + 1
  /\ phase' = "down"
  /\ pc' = [t \in RunThreads |-> "idle"]
  /\ runno' = [t \in RunThreads |-> 0]
  /\ UNCHANGED <<status, number, saved, runlog, overlaps>>

RunsNext ==
  \/ RunInitVariables
  \/ \E t \in Callers, op \in {"start", "stop", "reset"} : RunCall(t, op)
  \/ \E t \in RunThreads : RunStart(t) \/ RunStop(t) \/ RunReset(t)
  \/ Close \/ CloseStopsRpc \/ CloseSaves
  \/ Crash

RunsSpec == RunsInit /\ [][RunsNext]_vars_runs

------------------------------------------------------------------------------
RunsTypeOK ==
  /\ phase \in {"down", "up", "closing", "draining"}
  /\ status \in {"STOPPED", "RUNNING"}
  /\ number \in 0 .. MaxRun
  /\ saved \in 0 .. MaxRun
  /\ DOMAIN runlog \subseteq 1 .. MaxRun
  /\ runlog \in [DOMAIN runlog -> {"started", "stopped"}]
  /\ pc \in [RunThreads -> Steps]
  /\ runno \in [RunThreads -> 0 .. MaxRun]
  /\ crashes \in 0 .. MaxCrashes
  /\ overlaps \in 0 .. MaxOverlaps

Open == {r \in DOMAIN runlog : runlog[r] = "started"}

(* Between calls the keys and the table tell the same story: the run that   *)
(* is RUNNING has a row without a stop time, and no other row has none but  *)
(* one for each crash of the server and for each call that began before     *)
(* another ended: the calls hold no lock, but what a race can leave behind  *)
(* is bounded (RunStart, RunStop, RunReset, SysCloseExperiment).            *)
StatusMatchesLog ==
  phase \in {"up", "closing"} /\ NoRunCalls =>
    /\ status = "RUNNING" => number \in Open \/ overlaps > 0
    /\ status = "RUNNING" => Cardinality(Open \ {number}) <= crashes + overlaps
    /\ status = "STOPPED" => Cardinality(Open) <= crashes + overlaps

(* Without a crash and without overlap a run is logged under a number that  *)
(* no row of the table has: INSERT OR REPLACE never replaces.  Two starts   *)
(* that overlap may log the same run; a crash takes the number back to what *)
(* the last close saved, and the next run replaces an earlier one.          *)
RunsNeverReplaced ==
  [][\A t \in RunThreads :
       RunRegisterStart(t) /\ crashes + overlaps = 0 => runno[t] \notin DOMAIN runlog]_vars_runs

(* What bounds the open rows while calls are under way.  A call that was not *)
(* alone was counted when it began, and adds one row at most: so a call that *)
(* can still add one (MayAdd), and the row of the run that is RUNNING while  *)
(* nobody is about to change it (RowOwned), are paid for.                    *)
InCall == {t \in RunThreads : pc[t] # "idle"}
MayAdd == {t \in RunThreads : pc[t] \notin {"idle", "start_status"}}
Settled(t) ==
  \/ pc[t] \in {"idle", "start", "stop", "stop_number", "reset"}
  \/ pc[t] = "stop_log" /\ runno[t] = number
RowOwned == status = "RUNNING" /\ number \in Open /\ \A t \in RunThreads : Settled(t)

PaidFor(credit) == Cardinality(Open) + Cardinality(MayAdd) <= crashes + overlaps + credit
RowsPaidFor ==
  /\ InCall = {} /\ ~ RowOwned => PaidFor(0)
  /\ InCall = {} \/ ~ RowOwned => PaidFor(1)
  /\ PaidFor(2)

(* The call of the main thread adds no row, and those that begin after it    *)
(* are all counted.                                                          *)
ClosePaidFor ==
  phase = "down" \/ (phase \in {"closing", "draining"} /\ pc[Main] = "idle") => PaidFor(0)

(* A start that is past its number will leave the run's row open, unless it  *)
(* was closed or deleted meanwhile, by a call that is paid for.              *)
StartPaidFor ==
  (\E t \in RunThreads : pc[t] \in {"start_log", "start_status"}) =>
    \/ number \in Open
    \/ \E u \in RunThreads : pc[u] = "start_log" /\ runno[u] = number
    \/ \E u \in RunThreads : pc[u] = "reset_log"
    \/ PaidFor(0)

(* Who is where: the main thread only stops runs, and only when the server   *)
(* closes; a run has a number from 1 on; calls under way were counted.       *)
CallsPlaced ==
  /\ phase = "down" => InCall = {}
  /\ phase # "closing" => pc[Main] = "idle"
  /\ pc[Main] \in {"idle", "stop", "stop_number", "stop_log", "stop_status"}
  /\ \A t \in RunThreads : pc[t] \in {"start_write", "start_log"} => runno[t] > 0
  /\ Cardinality(InCall) <= overlaps + 1

(* Without overlap there is one call at a time, and the run that is RUNNING  *)
(* has its row but for the end of a stop.                                    *)
OneByOne ==
  overlaps = 0 =>
    /\ \A t, u \in InCall : t = u
    /\ phase # "down" /\ status = "RUNNING" /\ (\A t \in RunThreads : pc[t] # "stop_status")
         => number \in Open
    /\ \A t \in RunThreads :
         /\ pc[t] \in {"start_number", "start_write", "start_log", "start_status",
                      "reset_number", "reset_log"} => status = "STOPPED"
         /\ pc[t] = "start_log" => runno[t] = number
         /\ pc[t] = "start_status" => number \in Open

(* Without a crash either, the rows are those of the numbers used so far.    *)
RowsNumbered ==
  crashes + overlaps = 0 =>
    /\ phase = "down" => saved = number
    /\ \A t \in RunThreads :
         /\ pc[t] = "start_write" => runno[t] = number + 1
         /\ pc[t] = "start_log" => number \notin DOMAIN runlog
    /\ (\A t \in RunThreads : pc[t] # "reset_log") => DOMAIN runlog \subseteq 1 .. number

(* The keys and the table of runs agree, in type and in what they tell.      *)
RunsSound ==
  /\ RunsTypeOK
  /\ CallsPlaced
  /\ RowsPaidFor
  /\ ClosePaidFor
  /\ StartPaidFor
  /\ OneByOne
  /\ RowsNumbered
  /\ StatusMatchesLog
=============================================================================
