---------------------------- MODULE EventsView ----------------------------
(***************************************************************************)
(* The events page (frontend/src/EventsViewer.tsx): a table of the events   *)
(* that a timer polls, and captures, which subscribe to an event and keep   *)
(* its last frame.  The timer and the subscriptions outlive the page: what  *)
(* they bring after the page was left goes to the stores of that visit.     *)
(***************************************************************************)
EXTENDS PageCalls

CONSTANTS
  EvtIds,      (* ids of events                                             *)
  MaxPolls,    (* bound: polls                                              *)
  MaxFrames,   (* bound: frames emitted                                     *)
  MaxVisits    (* bound: visits of the page                                 *)

VARIABLES
  (* the server                                                             *)
  subs,            (* events this browser is subscribed to                  *)
  (* the connection                                                         *)
  callbacks,       (* event -> the visit whose callback is run, or 0        *)
  (* the page                                                               *)
  visit,           (* which visit the stores below are of                   *)
  eventsMeta,      (* event -> trigger, capture, and the poll its I/O is of *)
  popupID,         (* the event shown in the dialog, or 0                   *)
  captureSet, captureTick,
  captureMeta,     (* captured event -> totalbytes, autoCapture             *)
  captureData,     (* captured event -> the frame kept                      *)
  (* history                                                                *)
  polls, polled,   (* polls made, and answered to this visit                *)
  frames, since,   (* frames emitted, and of each event since its capture   *)
  paused           (* captures that were switched to manual                 *)

page_e == <<eventsMeta, popupID, captureSet, captureTick, captureMeta, captureData>>
count_e == <<polls, polled, frames, since, paused>>
vars_e == <<subs, callbacks, visit, page_e, count_e>>

InDown(e) == Cardinality({i \in DOMAIN down : down[i].what = "frame" /\ down[i].e = e})

EvInit ==
  /\ subs = {} /\ callbacks = [e \in EvtIds |-> 0]
  /\ visit = 1 /\ eventsMeta = <<>> /\ popupID = 0
  /\ captureSet = {} /\ captureTick = {} /\ captureMeta = <<>> /\ captureData = <<>>
  /\ polls = 0 /\ polled = 0 /\ frames = 0 /\ since = [e \in EvtIds |-> 0] /\ paused = {}

(* The interval of any visit so far: none is cleared when a page is left.   *)
ReadEventStatistics(v) ==
  /\ Calm /\ polls < MaxPolls
  /\ v \in 1 .. visit
  /\ polls' = polls + 1
  /\ Ask(<<[what |-> "stats", visit |-> v]>>)
  /\ UNCHANGED <<down, subs, callbacks, visit, page_e, polled, frames, since, paused>>

(* EvtGetAllMetadata, with the events that had traffic.                     *)
ServeStats ==
  /\ Serving("stats")
  /\ \E busy \in SUBSET EvtIds :
       Serve([what |-> "stats", visit |-> Head(up).visit, busy |-> busy])
  /\ UNCHANGED vars_e

(* An event without traffic keeps the rates that are shown.                 *)
Meta(e, busy) ==
  IF e \notin DOMAIN eventsMeta THEN [trigger |-> 0, capture |-> FALSE, io |-> polled + 1]
  ELSE IF e \in busy THEN [eventsMeta[e] EXCEPT !.trigger = 0, !.io = polled + 1]
  ELSE [eventsMeta[e] EXCEPT !.trigger = @ + 1]

StatsArrive ==
  /\ Getting("stats") /\ Got
  /\ IF Head(down).visit = visit
     THEN /\ eventsMeta' = [e \in EvtIds |-> Meta(e, Head(down).busy)]
          /\ polled' = polled + 1
     ELSE UNCHANGED <<eventsMeta, polled>>
  /\ UNCHANGED <<up, subs, callbacks, visit, popupID, captureSet, captureTick, captureMeta,
                 captureData, polls, frames, since, paused>>

SetPopupID(e) ==
  /\ e = 0 \/ e \in DOMAIN eventsMeta
  /\ popupID' = e /\ e # popupID
  /\ UNCHANGED <<calls, subs, callbacks, visit, eventsMeta, captureSet, captureTick,
                 captureMeta, captureData, count_e>>

(* modifyCapture                                                            *)
CaptureOn(e) ==
  /\ Calm
  /\ e = popupID /\ e # 0 /\ ~ eventsMeta[e].capture
  /\ eventsMeta' = [eventsMeta EXCEPT ![e].capture = TRUE]
  /\ captureSet' = captureSet \cup {e}
  /\ captureMeta' = With(captureMeta, e, [totalbytes |-> 0, autoCapture |-> TRUE])
  /\ captureData' = With(captureData, e, 0)
  /\ Ask(<<[what |-> "subscribe", e |-> e, add |-> TRUE]>>)
  /\ callbacks' = [callbacks EXCEPT ![e] = visit]
  /\ since' = [since EXCEPT ![e] = 0] /\ paused' = paused \ {e}
  /\ UNCHANGED <<down, subs, visit, popupID, captureTick, polls, polled, frames>>

Uncapture(e) ==
  /\ Calm
  /\ e = popupID /\ e # 0 /\ eventsMeta[e].capture
  /\ eventsMeta' = [eventsMeta EXCEPT ![e].capture = FALSE]
  /\ captureSet' = captureSet \ {e}
  /\ captureMeta' = Without(captureMeta, e)
  /\ captureData' = Without(captureData, e)
  /\ UNCHANGED <<down, subs, visit, popupID, captureTick, count_e>>

(* Fault: the callback stays (CaptureAgrees).                               *)
CaptureOffOnly(e) ==
  /\ Uncapture(e)
  /\ UNCHANGED <<up, callbacks>>

CaptureOff(e) ==
  /\ Uncapture(e)
  /\ Ask(<<[what |-> "subscribe", e |-> e, add |-> FALSE]>>)
  /\ callbacks' = [callbacks EXCEPT ![e] = 0]

SetAutoCapture(e) ==
  /\ e \in DOMAIN captureMeta
  /\ captureMeta' = [captureMeta EXCEPT ![e].autoCapture = ~ @]
  /\ paused' = paused \cup {e}
  /\ UNCHANGED <<calls, subs, callbacks, visit, eventsMeta, popupID, captureSet, captureTick,
                 captureData, polls, polled, frames, since>>

(* The gateway takes a subscription; an event is emitted to its subscribers.*)
ServeSubscribe ==
  /\ Serving("subscribe")
  /\ up' = Tail(up)
  /\ subs' = IF Head(up).add THEN subs \cup {Head(up).e} ELSE subs \ {Head(up).e}
  /\ UNCHANGED <<down, callbacks, visit, page_e, count_e>>

EmitFrame(e) ==
  /\ Unhurried /\ frames < MaxFrames
  /\ e \in subs
  /\ frames' = frames + 1
  /\ since' = [since EXCEPT ![e] = @ + 1]
  /\ Tell([what |-> "frame", e |-> e, n |-> frames + 1])
  /\ UNCHANGED <<up, subs, callbacks, visit, page_e, polls, polled, paused>>

Keeps(e) == captureMeta[e].autoCapture

FrameArrives ==
  LET e == Head(down).e
  IN /\ Getting("frame") /\ Got
     /\ IF callbacks[e] = visit
        THEN /\ captureTick' = captureTick \cup {e}
             /\ IF e \in DOMAIN captureMeta /\ Keeps(e)
                THEN /\ captureMeta' = [captureMeta EXCEPT ![e].totalbytes = @ + 1]
                     /\ captureData' = With(captureData, e, Head(down).n)
                ELSE UNCHANGED <<captureMeta, captureData>>
        ELSE UNCHANGED <<captureTick, captureMeta, captureData>>
     /\ UNCHANGED <<up, subs, callbacks, visit, eventsMeta, popupID, captureSet, count_e>>

(* The badge of a captured event is drawn: eventGotNewFrame.                *)
EventGotNewFrame(e) ==
  /\ e \in captureTick /\ e \in DOMAIN eventsMeta /\ eventsMeta[e].capture
  /\ captureTick' = captureTick \ {e}
  /\ UNCHANGED <<calls, subs, callbacks, visit, eventsMeta, popupID, captureSet, captureMeta,
                 captureData, count_e>>

(* The page is left and visited again.                                      *)
VisitEvents ==
  /\ visit < MaxVisits
  /\ visit' = visit + 1
  /\ eventsMeta' = <<>> /\ popupID' = 0
  /\ captureSet' = {} /\ captureTick' = {} /\ captureMeta' = <<>> /\ captureData' = <<>>
  /\ polled' = 0 /\ paused' = {}
  /\ UNCHANGED <<calls, subs, callbacks, polls, frames, since>>

EvNext ==
  \/ \E v \in 1 .. MaxVisits : ReadEventStatistics(v)
  \/ ServeStats \/ StatsArrive \/ ServeSubscribe \/ FrameArrives \/ VisitEvents
  \/ SetPopupID(0)
  \/ \E e \in EvtIds : \/ SetPopupID(e) \/ CaptureOn(e) \/ CaptureOff(e)
                       \/ SetAutoCapture(e) \/ EmitFrame(e) \/ EventGotNewFrame(e)

------------------------------------------------------------------------------
EventsViewTypeOK ==
  /\ subs \subseteq EvtIds /\ callbacks \in [EvtIds -> 0 .. MaxVisits]
  /\ visit \in 1 .. MaxVisits /\ popupID \in EvtIds \cup {0}
  /\ captureSet \subseteq EvtIds /\ captureTick \subseteq EvtIds /\ paused \subseteq EvtIds
  /\ \A e \in DOMAIN eventsMeta :
       eventsMeta[e] \in [trigger : 0 .. MaxPolls, capture : BOOLEAN, io : 1 .. MaxPolls]
  /\ \A e \in DOMAIN captureMeta :
       captureMeta[e] \in [totalbytes : 0 .. MaxFrames, autoCapture : BOOLEAN]
  /\ \A e \in DOMAIN captureData : captureData[e] \in 0 .. MaxFrames
  /\ polls \in 0 .. MaxPolls /\ polled \in 0 .. MaxPolls /\ frames \in 0 .. MaxFrames
  /\ since \in [EvtIds -> 0 .. MaxFrames]

(* An event's callback belongs to this visit exactly when the event is shown *)
(* as captured and all four stores of captures have it: a frame that was     *)
(* under way when the capture ended, or when the page was left, finds no     *)
(* callback that looks for a capture that is gone (the callback reads        *)
(* captureMeta[eid].autoCapture without a test).                             *)
CaptureAgrees ==
  /\ captureSet = DOMAIN captureMeta /\ captureSet = DOMAIN captureData
  /\ captureSet = {e \in DOMAIN eventsMeta : eventsMeta[e].capture}
  /\ captureSet = {e \in EvtIds : callbacks[e] = visit}

(* No frame that was emitted to a capture is lost on the way to its total,   *)
(* and the frame kept is the last that arrived, unless it was switched to    *)
(* manual.  More may be counted: frames of an earlier capture of the event,  *)
(* or visit of the page, that were under way.                                *)
FramesCounted ==
  \A e \in captureSet \ paused :
    /\ captureMeta[e].totalbytes + InDown(e) >= since[e]
    /\ \A i \in DOMAIN down : down[i].what = "frame" => down[i].n > captureData[e]

(* The column "Last Trigger" tells the age in polls of the rates shown next  *)
(* to it, which an idle event keeps, though polls of earlier visits go on.   *)
RatesAge ==
  \A e \in DOMAIN eventsMeta : eventsMeta[e].trigger = polled - eventsMeta[e].io
=============================================================================
