------------------------------ MODULE HomeView ------------------------------
(***************************************************************************)
(* The home page's buttons for the run and its server resources             *)
(* (frontend/src/Home.tsx, components/ResourcePanel.tsx, run/mxrun.cpp,       *)
(* rdb/mxrdb.cpp).  The status of the run is watched since the application    *)
(* began (GlobalState); a metric is watched twice and read once when the     *)
(* panel is shown.  One metric stands for all; calls to RunStart, RunStop    *)
(* and RunReset are one step each here (RunControl takes them apart).         *)
(***************************************************************************)
EXTENDS PageCalls

CONSTANTS
  MaxPresses,    (* bound: what the user does                               *)
  MaxRunCalls,   (* bound: runs started, stopped and reset by others        *)
  MaxMetrics     (* bound: times the metric changes                         *)

ASSUME HomeAssumption == MaxMetrics \in Nat

VARIABLES
  (* the server                                                             *)
  statuskey,     (* /system/run/status                                      *)
  rows_o,        (* runlog: the runs since the last reset, and how many of  *)
                 (* them have ended                                         *)
  metric,        (* the number of the metric's value                        *)
  metrictold,    (* whether the server sends the metric's event             *)
  othercalls,
  (* the page                                                               *)
  statusShown,   (* gRunStatus                                              *)
  runReset, understood,   (* the popup, and whether its phrase is typed     *)
  usage,         (* cpuUsage, memUsed                                       *)
  listening_o,   (* whether the event has a callback                        *)
  presses,
  (* history                                                                *)
  slipped        (* the metric changed when it was read and not followed    *)

run_o == <<statuskey, rows_o, othercalls>>
buttons_o == <<statusShown, runReset, understood, presses>>
panel_o == <<metric, metrictold, usage, listening_o, slipped>>
vars_o == <<run_o, buttons_o, panel_o>>

HomeInit ==
  /\ statuskey \in {"Stopped", "Running"} /\ statusShown = statuskey
  /\ rows_o = [runs |-> IF statuskey = "Running" THEN 1 ELSE 0, ended |-> 0] /\ othercalls = 0
  /\ runReset = FALSE /\ understood = FALSE /\ presses = 0
  /\ metric = 0 /\ metrictold = FALSE /\ usage = 0 /\ listening_o = FALSE /\ slipped = FALSE

(* watchKeys, and what onMount asks                                         *)
WatchMetric == <<[what |-> "watchmetric"]>>
HomeCalls == WatchMetric \o <<[what |-> "readmetric"]>> \o WatchMetric

------------------------------------------------------------------------------
Requires(status) == statuskey = status

(* RunStart, RunStop, RunReset                                              *)
Runs(op) ==
  CASE op = "start" -> [status |-> "Running", rows |-> [rows_o EXCEPT !.runs = @ + 1]]
    [] op = "stop" -> [status |-> "Stopped", rows |-> [rows_o EXCEPT !.ended = @ + 1]]
    [] op = "reset" -> [status |-> statuskey, rows |-> [runs |-> 0, ended |-> 0]]

RunDoes(op) ==
  LET done == Requires(IF op = "stop" THEN "Running" ELSE "Stopped")
  IN /\ statuskey' = IF done THEN Runs(op).status ELSE statuskey
     /\ rows_o' = IF done THEN Runs(op).rows ELSE rows_o
     /\ down' = IF done /\ op # "reset"
                THEN Append(down, Event([what |-> "runstatus", v |-> Runs(op).status])) ELSE down

ServeRun ==
  /\ Serving("runcall") /\ up' = Tail(up)
  /\ RunDoes(Head(up).op)
  /\ UNCHANGED <<othercalls, buttons_o, panel_o>>

OthersRun(op) ==
  /\ Unhurried /\ othercalls < MaxRunCalls /\ othercalls' = othercalls + 1
  /\ RunDoes(op)
  /\ UNCHANGED <<up, buttons_o, panel_o>>

StatusArrives ==
  /\ Getting("runstatus") /\ Got
  /\ statusShown' = Head(down).v
  /\ UNCHANGED <<up, run_o, runReset, understood, presses, panel_o>>

------------------------------------------------------------------------------
(* The buttons, by the status shown; the popup is modal.                    *)
Presses == Calm /\ presses < MaxPresses /\ presses' = presses + 1
Offers(op) == IF op = "stop" THEN statusShown = "Running" ELSE statusShown # "Running"

PressRun(op) ==
  /\ Presses /\ ~ runReset /\ op \in {"start", "stop"} /\ Offers(op)
  /\ Ask(<<[what |-> "runcall", op |-> op]>>)
  /\ UNCHANGED <<down, run_o, statusShown, runReset, understood, panel_o>>

AskReset ==
  /\ Presses /\ ~ runReset /\ statusShown = "Stopped"
  /\ runReset' = TRUE
  /\ UNCHANGED <<calls, run_o, statusShown, understood, panel_o>>

(* The phrase stays when the popup is closed and not confirmed.             *)
TypePhrase ==
  /\ Presses /\ runReset /\ ~ understood
  /\ understood' = TRUE
  /\ UNCHANGED <<calls, run_o, statusShown, runReset, panel_o>>

CloseReset ==
  /\ Presses /\ runReset
  /\ runReset' = FALSE
  /\ UNCHANGED <<calls, run_o, statusShown, understood, panel_o>>

(* Confirmed by the phrase alone, whatever the status is by now.            *)
ConfirmReset ==
  /\ Presses /\ runReset /\ understood
  /\ runReset' = FALSE /\ understood' = FALSE
  /\ Ask(<<[what |-> "runcall", op |-> "reset"]>>)
  /\ UNCHANGED <<down, run_o, statusShown, panel_o>>

------------------------------------------------------------------------------
(* The metric is written; who follows it is told the value.                 *)
MetricChanges ==
  /\ Unhurried /\ metric < MaxMetrics
  /\ metric' = metric + 1
  /\ IF metrictold THEN Tell([what |-> "metric", n |-> metric + 1]) ELSE UNCHANGED down
  /\ slipped' = (slipped \/ ~ metrictold)
  /\ UNCHANGED <<up, run_o, buttons_o, metrictold, usage, listening_o>>

ServePanel ==
  /\ \/ Serving("watchmetric") /\ Serve(Head(up)) /\ UNCHANGED <<metrictold, slipped>>
     \/ Serving("readmetric") /\ Serve([what |-> "readmetric", n |-> metric]) /\ slipped' = FALSE /\ UNCHANGED metrictold
     \/ Serving("followmetric") /\ up' = Tail(up) /\ down' = down /\ metrictold' = TRUE /\ UNCHANGED slipped
  /\ UNCHANGED <<run_o, buttons_o, metric, usage, listening_o>>

(* The second callback replaces the first.                                  *)
WatchMetricArrives ==
  /\ Getting("watchmetric") /\ Got
  /\ listening_o' = TRUE /\ Ask(<<[what |-> "followmetric"]>>)
  /\ UNCHANGED <<run_o, buttons_o, metric, metrictold, usage, slipped>>

Taken(n) == n

MetricArrives ==
  LET m == Head(down)
  IN /\ \/ Getting("readmetric") /\ usage' = m.n
        \/ Getting("metric") /\ usage' = IF listening_o THEN Taken(m.n) ELSE usage
     /\ Got
     /\ UNCHANGED <<up, run_o, buttons_o, metric, metrictold, listening_o, slipped>>

HomeNext ==
  \/ ServeRun \/ \E op \in {"start", "stop", "reset"} : OthersRun(op) \/ PressRun(op)
  \/ StatusArrives \/ AskReset \/ TypePhrase \/ CloseReset \/ ConfirmReset
  \/ MetricChanges \/ ServePanel \/ WatchMetricArrives \/ MetricArrives

------------------------------------------------------------------------------
HomeTypeOK ==
  /\ {statuskey, statusShown} \subseteq {"Stopped", "Running"} /\ rows_o \in [runs : Nat, ended : Nat]
  /\ {runReset, understood, metrictold, listening_o, slipped} \subseteq BOOLEAN
  /\ {metric, usage} \subseteq 0 .. MaxMetrics

(* A run is open exactly while the status says so, and never two, though     *)
(* buttons are offered by the status shown, which is behind: Start can be    *)
(* pressed twice, and Reset is confirmed in a popup that stays when others   *)
(* start a run.                                                             *)
RunsPaired ==
  route = "home" => rows_o.runs - rows_o.ended = (IF statuskey = "Running" THEN 1 ELSE 0)

(* Once nothing is under way the resources shown are the last ones, though   *)
(* they are watched twice, read once, and the answer can overtake events,    *)
(* but for a change between the reading and the subscription.                *)
UsageRight == (Quiet("home") /\ ~ slipped) => usage = metric
=============================================================================
