----------------------------- MODULE PageCalls -----------------------------
(***************************************************************************)
(* What a page of the web user interface sees of the connection (MxSocket)  *)
(* while it is up: calls reach the server in the order they were made, the  *)
(* server executes one at a time, and answers come back in the order they   *)
(* were sent, and events too; but an event may come after an answer that was *)
(* sent later, because the gateway waits for the answer on the thread that   *)
(* would send the event (network/mxhttp.cpp: HttpDeferCall, .message).       *)
(* Messages are taken to be decoded in order.  The pages are modules of      *)
(* their own; the router shows one of them at a time.                        *)
(***************************************************************************)
EXTENDS Naturals, Sequences, FiniteSets, SequencesExt

CONSTANT MaxUnderWay   (* bound: calls and answers under way when more are begun *)

VARIABLES
  route,   (* the page that is shown                                        *)
  up,      (* calls on their way to the server                              *)
  down     (* answers and events on their way to the page                   *)

calls == <<up, down>>

(* rpc_call on a connection that is ready                                   *)
Ask(cs) == up' = up \o cs

(* A function with one more value, or another one, and without one.         *)
With(f, k, v) == [x \in DOMAIN f \cup {k} |-> IF x = k THEN v ELSE f[x]]
Without(f, k) == [x \in DOMAIN f \ {k} |-> f[x]]

(* The server sends an event.                                               *)
Event(e) == [x \in {"event"} \cup DOMAIN e |-> IF x = "event" THEN TRUE ELSE e[x]]
Tell(e) == down' = Append(down, Event(e))

(* The server executes the first call; its answer may overtake events, but   *)
(* no answer.                                                                *)
Serving(what) == up # <<>> /\ Head(up).what = what
Overtaking(n) == \A i \in n + 1 .. Len(down) : "event" \in DOMAIN down[i]
Serve(a) ==
  /\ up' = Tail(up)
  /\ \E n \in 0 .. Len(down) : Overtaking(n) /\ down' = InsertAt(down, n + 1, a)

(* The page gets the first answer or event.                                 *)
Getting(what) == down # <<>> /\ Head(down).what = what
Got == down' = Tail(down)

(* The bounds, for what users begin, and for what backends and others do on  *)
(* the server.                                                               *)
Calm == Len(up) + Len(down) < MaxUnderWay
Unhurried == Len(down) < MaxUnderWay

(* A page is shown, and none of its calls and events is under way.           *)
Quiet(page) == route = page /\ up = <<>> /\ down = <<>>

Flowing(whats) == \E m \in Range(up) \cup Range(down) : m.what \in whats

Outstanding(what) ==
  Cardinality({i \in DOMAIN up : up[i].what = what})
    + Cardinality({i \in DOMAIN down : down[i].what = what})
=============================================================================
