----------------------------- MODULE ServerParts -----------------------------
(***************************************************************************)
(* Parts of the server and of its clients' library that share nothing with   *)
(* each other but the thread that starts and ends them, each in behaviours   *)
(* of its own: runs, a connection of the RPC protocol, watches, the history, *)
(* the message log and a backend's loop of jobs.                             *)
(***************************************************************************)
EXTENDS RunControl, Rpc, RdbWatch, RdbHistory, MsgQueue, AsyncLoop

VARIABLE part   (* the part that acts in this behaviour; the others rest     *)

PartsInit ==
  /\ part \in {"runs", "rpc", "watches", "history", "messages", "loop"}
  /\ RunsInit /\ Init /\ WatchInit /\ HistoryInit /\ QueueInit /\ LoopInit

PartsNext ==
  /\ UNCHANGED part
  /\ \/ part = "runs" /\ RunsNext /\ UNCHANGED <<vars, vars_b, vars_z, vars_q, vars_l>>
     \/ part = "rpc" /\ Next /\ UNCHANGED <<vars_runs, vars_b, vars_z, vars_q, vars_l>>
     \/ part = "watches" /\ WatchNext /\ UNCHANGED <<vars_runs, vars, vars_z, vars_q, vars_l>>
     \/ part = "history" /\ HistoryNext /\ UNCHANGED <<vars_runs, vars, vars_b, vars_q, vars_l>>
     \/ part = "messages" /\ QueueNext /\ UNCHANGED <<vars_runs, vars, vars_b, vars_z, vars_l>>
     \/ part = "loop" /\ LoopNext /\ UNCHANGED <<vars_runs, vars, vars_b, vars_z, vars_q>>

vars_s == <<part, vars_runs, vars, vars_b, vars_z, vars_q, vars_l>>

(* In each part the threads that can go on do: those of the RPC connection;  *)
(* and the loop's and its destructor, while jobs return and time goes on.    *)
LoopFairness ==
  /\ WF_vars_l(part = "loop" /\ LoopThread)
  /\ WF_vars_l(part = "loop" /\ DestructorNotifies)
  /\ WF_vars_l(part = "loop" /\ Tick)

PartsSpec == PartsInit /\ [][PartsNext]_vars_s /\ Fairness /\ LoopFairness
=============================================================================
