------------------------------ MODULE MxSocket ------------------------------
(***************************************************************************)
(* The web client's one connection (frontend/src/lib: MxWebsocket, and      *)
(* MxRdb.watch, MxRdb.unwatch and MxEvent on top of it) with the gateway's  *)
(* end of it (network/mxhttp.cpp).  Calls carry an id taken from a counter  *)
(* that every close resets, and wait in a table for the answer with their   *)
(* id; calls made while the connection is not open wait in a list;          *)
(* subscriptions are kept on both sides, one callback for an event.         *)
(*                                                                         *)
(* Every request that the pages make is a member of Requests and is made at *)
(* most once.  Nothing but losses of the connection is left to the network: *)
(* a websocket delivers in order.                                           *)
(***************************************************************************)
EXTENDS Naturals, Sequences, FiniteSets, SequencesExt

CONSTANTS
  Requests,    (* what pages ask of the connection, each at most once       *)
  Kind,        (* request -> "call", "watch", "unwatch", "subscribe",       *)
               (*   "unsubscribe", or "event" for MxEvent.onMessage         *)
  EventOf,     (* request -> the event it is about ("watch": of its key)    *)
  Events,
  Registered,  (* events the server knows at the start                      *)
  Forbidden,   (* calls that the user's role does not permit                *)
  None,
  MaxLosses,   (* bound: times the connection is lost                       *)
  MaxEmits     (* bound: events emitted                                     *)

ASSUME KindAssumption ==
  Kind \in [Requests -> {"call", "watch", "unwatch", "subscribe", "unsubscribe", "event"}]
ASSUME EventAssumption == EventOf \in [Requests -> Events]
ASSUME RegisteredAssumption == Registered \subseteq Events
ASSUME ForbiddenAssumption == Forbidden \subseteq {r \in Requests : Kind[r] = "call"}
ASSUME NoneAssumption == None \notin Requests

VARIABLES
  (* the connection                                                         *)
  sock,        (* readyState; "closing" until onclose has run               *)
  epoch,       (* the number of connections that were lost                  *)
  up, down,    (* messages on their way to the gateway and back             *)
  (* MxWebsocket                                                            *)
  reconnect,   (* whether onclose will open the connection again            *)
  isready, messageid, deferred_p, waiting_p, event_subscriptions,
  decoding,    (* messages whose text() the handler awaits                  *)
  (* MxEvent                                                                *)
  held,        (* MxEvents a page still refers to                           *)
  finalizer,   (* those registered with the FinalizationRegistry            *)
  collected,
  (* the gateway and the server                                             *)
  registered,  (* events that exist                                         *)
  subscribed,  (* events this connection is subscribed to                   *)
  executed,    (* request -> how often the server executed it               *)
  emits,
  (* history                                                                *)
  state,       (* request -> how far it is                                  *)
  answer,      (* request -> the request whose answer settled it            *)
  last,        (* event -> the last request about it that pages made        *)
  missed,      (* events that did not exist when the subscription came      *)
  inorder      (* whether text() ends in the order it began                 *)

connection == <<sock, epoch, up, down>>
client == <<reconnect, isready, messageid, deferred_p, waiting_p, event_subscriptions,
            decoding>>
objects == <<held, finalizer, collected>>
gateway == <<registered, subscribed, executed, emits>>
history == <<state, answer, last, missed, inorder>>
vars == <<connection, client, objects, gateway, history>>

IsCall(r) == Kind[r] \in {"call", "watch", "unwatch"}
Adds(r) == Kind[r] \in {"watch", "subscribe", "event"}
MxEvents == {r \in Requests : Kind[r] = "event"}

(* The event of a watched key has a name that RdbWatch makes; nothing else   *)
(* subscribes to it.                                                        *)
ASSUME WatchEventAssumption ==
  \A q, r \in Requests :
    (Kind[q] # "call" /\ Kind[r] # "call" /\ EventOf[q] = EventOf[r]) =>
      (IsCall(q) <=> IsCall(r))

(* make_rpc_message and make_evt_message                                    *)
Message(r, id) == [rpc |-> TRUE, of |-> r, id |-> id]
EvtMessage(r) == [rpc |-> FALSE, of |-> r, add |-> Adds(r)]

(* The evt messages about an event, and the last of them.                   *)
About(msgs, e) == {i \in DOMAIN msgs : ~ msgs[i].rpc /\ EventOf[msgs[i].of] = e}
LastAbout(msgs, e) == msgs[Max(About(msgs, e))]

(* The callbacks left by an evt message, and by a sequence of messages.     *)
CallbackOf(m) == IF m.add THEN m.of ELSE None
Subscription(subs, m) == [subs EXCEPT ![EventOf[m.of]] = CallbackOf(m)]
Subscriptions(subs, msgs) ==
  [e \in Events |-> IF About(msgs, e) = {} THEN subs[e] ELSE CallbackOf(LastAbout(msgs, e))]

------------------------------------------------------------------------------
Init ==
  /\ sock = "connecting" /\ epoch = 0 /\ up = <<>> /\ down = <<>>
  /\ reconnect = TRUE /\ isready = FALSE /\ messageid = 0
  /\ deferred_p = <<>> /\ waiting_p = <<>> /\ decoding = <<>>
  /\ event_subscriptions = [e \in Events |-> None]
  /\ held = MxEvents /\ finalizer = {} /\ collected = {}
  /\ registered = Registered /\ subscribed = {} /\ emits = 0
  /\ executed = [r \in Requests |-> 0]
  /\ state = [r \in Requests |-> "idle"]
  /\ answer = [r \in Requests |-> None]
  /\ last = [e \in Events |-> None]
  /\ missed = {}
  /\ inorder \in BOOLEAN

(* send: on a socket that is closing the message is discarded silently.     *)
Send(msgs) == up' = IF sock = "open" THEN up \o msgs ELSE up

Defer(calls) ==
  deferred_p' = [i \in DOMAIN deferred_p \cup {c.id : c \in calls} |->
                   IF \E c \in calls : c.id = i
                   THEN (CHOOSE c \in calls : c.id = i).of
                   ELSE deferred_p[i]]

(* Fault: an id is used twice (OwnAnswer).                                  *)
SameId == messageid' = messageid

NextId == messageid' = messageid + 1

Asked(r) ==
  /\ state[r] = "idle"
  /\ Kind[r] = "event" => r \in held
  /\ last' = IF Kind[r] = "call" THEN last ELSE [last EXCEPT ![EventOf[r]] = r]

(* rpc_call when the connection is ready: sent and deferred at once.        *)
RpcCall(r) ==
  /\ IsCall(r) /\ Asked(r)
  /\ isready
  /\ NextId
  /\ Send(<<Message(r, messageid)>>)
  /\ Defer({[of |-> r, id |-> messageid]})
  /\ state' = [state EXCEPT ![r] = "sent"]
  /\ UNCHANGED <<sock, epoch, down, reconnect, isready, waiting_p, event_subscriptions,
                 decoding, objects, gateway, answer, missed, inorder>>

(* Otherwise it has its id already, and waits.                              *)
RpcCallWaits(r) ==
  /\ IsCall(r) /\ Asked(r)
  /\ ~ isready
  /\ NextId
  /\ waiting_p' = Append(waiting_p, Message(r, messageid))
  /\ state' = [state EXCEPT ![r] = "waiting"]
  /\ UNCHANGED <<connection, reconnect, isready, deferred_p, event_subscriptions, decoding,
                 objects, gateway, answer, missed, inorder>>

Register(r) == finalizer' = IF Kind[r] = "event" THEN finalizer \cup {r} ELSE finalizer

(* subscribe and unsubscribe, MxEvent.onMessage with its registration.      *)
EvtCall(r) ==
  /\ ~ IsCall(r) /\ Asked(r)
  /\ isready
  /\ Send(<<EvtMessage(r)>>)
  /\ event_subscriptions' = Subscription(event_subscriptions, EvtMessage(r))
  /\ Register(r)
  /\ state' = [state EXCEPT ![r] = "resolved"]
  /\ UNCHANGED <<sock, epoch, down, reconnect, isready, messageid, deferred_p, waiting_p,
                 decoding, held, collected, gateway, answer, missed, inorder>>

EvtCallWaits(r) ==
  /\ ~ IsCall(r) /\ Asked(r)
  /\ ~ isready
  /\ waiting_p' = Append(waiting_p, EvtMessage(r))
  /\ Register(r)
  /\ state' = [state EXCEPT ![r] = "waiting"]
  /\ UNCHANGED <<connection, reconnect, isready, messageid, deferred_p, event_subscriptions,
                 decoding, held, collected, gateway, answer, missed, inorder>>

(* Fault: those that wait go on in the reverse order (LastRequestWins).     *)
ResumedBackwards == Reverse(waiting_p)

Resumed == waiting_p

(* onopen: those that wait go on, in order.                                 *)
OnOpen ==
  /\ sock = "connecting"
  /\ sock' = "open"
  /\ isready' = TRUE
  /\ up' = up \o Resumed
  /\ Defer({[of |-> m.of, id |-> m.id] : m \in {x \in Range(waiting_p) : x.rpc}})
  /\ event_subscriptions' = Subscriptions(event_subscriptions, Resumed)
  /\ state' = [r \in Requests |->
                 IF \E m \in Range(waiting_p) : m.of = r
                 THEN IF IsCall(r) THEN "sent" ELSE "resolved"
                 ELSE state[r]]
  /\ waiting_p' = <<>>
  /\ UNCHANGED <<epoch, down, reconnect, messageid, decoding, objects, gateway, answer, last,
                 missed, inorder>>

(* onmessage begins: it awaits the text of the message.                     *)
OnMessage ==
  /\ sock \in {"open", "closing"}
  /\ down # <<>>
  /\ decoding' = Append(decoding, Head(down))
  /\ down' = Tail(down)
  /\ UNCHANGED <<sock, epoch, up, reconnect, isready, messageid, deferred_p, waiting_p,
                 event_subscriptions, objects, gateway, history>>

Decoded(i) ==
  /\ i \in DOMAIN decoding
  /\ inorder => i = 1
  /\ decoding' = RemoveAt(decoding, i)

Removed(id) == deferred_p' = [i \in DOMAIN deferred_p \ {id} |-> deferred_p[i]]

(* The rest of onmessage, for an answer somebody waits for.  What follows   *)
(* the answer to a watch, and to an unwatch (which is a RdbWatch as well),  *)
(* runs with it; calls are deferred only while the connection is ready.     *)
Settle(i) ==
  LET m == decoding[i]
      r == deferred_p[m.id]
  IN /\ Decoded(i)
     /\ m.rpc /\ m.id \in DOMAIN deferred_p
     /\ Removed(m.id)
     /\ answer' = [answer EXCEPT ![r] = m.of]
     /\ state' = [state EXCEPT ![r] = IF m.ok THEN "resolved" ELSE "rejected"]
     /\ IF m.ok /\ Kind[r] \in {"watch", "unwatch"}
        THEN /\ Send(<<EvtMessage(r)>>)
             /\ event_subscriptions' = Subscription(event_subscriptions, EvtMessage(r))
        ELSE UNCHANGED <<up, event_subscriptions>>
     /\ UNCHANGED <<sock, epoch, down, reconnect, isready, messageid, waiting_p, objects,
                    gateway, last, missed, inorder>>

(* An answer to a call of a connection that was lost.                       *)
SettleNobody(i) ==
  /\ Decoded(i)
  /\ decoding[i].rpc /\ decoding[i].id \notin DOMAIN deferred_p
  /\ UNCHANGED <<connection, reconnect, isready, messageid, deferred_p, waiting_p,
                 event_subscriptions, objects, gateway, history>>

(* An event: its callback is run, if there is one by now.                   *)
RunCallback(i) ==
  /\ Decoded(i)
  /\ ~ decoding[i].rpc
  /\ UNCHANGED <<connection, reconnect, isready, messageid, deferred_p, waiting_p,
                 event_subscriptions, objects, gateway, history>>

------------------------------------------------------------------------------
(* The connection is lost, or was not made: the gateway may have read part  *)
(* of what was sent to it, part of what it sent may still arrive.           *)
Lose ==
  /\ sock \in {"connecting", "open"}
  /\ epoch < MaxLosses
  /\ sock' = "closing"
  /\ epoch' = epoch + 1
  /\ up' = <<>>
  /\ \E n \in 0 .. Len(down) : down' = SubSeq(down, 1, n)
  /\ subscribed' = {}
  /\ UNCHANGED <<client, objects, registered, executed, emits, history>>

(* close: the connection is not opened again.                               *)
Close ==
  /\ sock = "open"
  /\ epoch = MaxLosses
  /\ sock' = "closing"
  /\ reconnect' = FALSE
  /\ up' = <<>> /\ subscribed' = {}
  /\ UNCHANGED <<epoch, down, isready, messageid, deferred_p, waiting_p, event_subscriptions,
                 decoding, objects, registered, executed, emits, history>>

AfterClose == IF reconnect THEN "closed" ELSE "ended"

(* onclose: calls that were sent or wait are forgotten, subscriptions kept. *)
OnClose ==
  /\ sock = "closing"
  /\ down = <<>>
  /\ sock' = AfterClose
  /\ messageid' = 0
  /\ deferred_p' = <<>>
  /\ isready' = FALSE
  /\ waiting_p' = <<>>
  /\ state' = [r \in Requests |-> IF state[r] \in {"sent", "waiting"} THEN "forgotten"
                                  ELSE state[r]]
  /\ UNCHANGED <<epoch, up, down, reconnect, event_subscriptions, decoding, objects, gateway,
                 answer, last, missed, inorder>>

(* Five seconds later, when no text() of the old connection is under way,   *)
(* a new WebSocket is made and its callbacks are set up.                    *)
Reconnect ==
  /\ sock = "closed"
  /\ decoding = <<>>
  /\ sock' = "connecting"
  /\ UNCHANGED <<epoch, up, down, client, objects, gateway, history>>

------------------------------------------------------------------------------
(* Fault: a call that is refused gets no answer (CallsSettle).              *)
AnswerIfAllowed(m, ok) ==
  IF ok THEN Append(down, [rpc |-> TRUE, of |-> m.of, id |-> m.id, ok |-> ok]) ELSE down

(* The gateway's message handler.                                           *)
Answer(m, ok) == Append(down, [rpc |-> TRUE, of |-> m.of, id |-> m.id, ok |-> ok])

GatewayRefuses ==
  /\ up # <<>> /\ Head(up).rpc
  /\ Head(up).of \in Forbidden
  /\ down' = Answer(Head(up), FALSE)
  /\ up' = Tail(up)
  /\ UNCHANGED <<sock, epoch, client, objects, gateway, history>>

(* RdbWatch makes the event of the key.                                     *)
GatewayCalls ==
  LET r == Head(up).of
  IN /\ up # <<>> /\ Head(up).rpc
     /\ r \notin Forbidden
     /\ executed' = [executed EXCEPT ![r] = @ + 1]
     /\ registered' = IF Kind[r] \in {"watch", "unwatch"} THEN registered \cup {EventOf[r]}
                      ELSE registered
     /\ down' = Answer(Head(up), TRUE)
     /\ up' = Tail(up)
     /\ UNCHANGED <<sock, epoch, client, objects, subscribed, emits, history>>

(* An event that does not exist is not subscribed to; nobody is told.       *)
GatewaySubscribes ==
  LET e == EventOf[Head(up).of]
  IN /\ up # <<>> /\ ~ Head(up).rpc /\ Head(up).add
     /\ IF e \in registered
        THEN subscribed' = subscribed \cup {e} /\ missed' = missed \ {e}
        ELSE subscribed' = subscribed /\ missed' = missed \cup {e}
     /\ up' = Tail(up)
     /\ UNCHANGED <<sock, epoch, down, client, objects, registered, executed, emits, state,
                    answer, last, inorder>>

(* Fault: the gateway keeps the subscription (SubscriptionsAgree).          *)
GatewayIgnoresUnsubscribe ==
  /\ up # <<>> /\ ~ Head(up).rpc /\ ~ Head(up).add
  /\ up' = Tail(up)
  /\ UNCHANGED <<sock, epoch, down, client, objects, gateway, history>>

GatewayUnsubscribes ==
  /\ up # <<>> /\ ~ Head(up).rpc /\ ~ Head(up).add
  /\ subscribed' = subscribed \ {EventOf[Head(up).of]}
  /\ missed' = missed \ {EventOf[Head(up).of]}
  /\ up' = Tail(up)
  /\ UNCHANGED <<sock, epoch, down, client, objects, registered, executed, emits, state,
                 answer, last, inorder>>

(* A backend registers an event; one is emitted to its subscribers.         *)
Registers(e) ==
  /\ e \notin registered
  /\ registered' = registered \cup {e}
  /\ UNCHANGED <<connection, client, objects, subscribed, executed, emits, history>>

Emit(e) ==
  /\ sock = "open"
  /\ e \in subscribed
  /\ emits < MaxEmits
  /\ emits' = emits + 1
  /\ down' = Append(down, [rpc |-> FALSE, of |-> e])
  /\ UNCHANGED <<sock, epoch, up, client, objects, registered, subscribed, executed, history>>

------------------------------------------------------------------------------
(* A page lets go of an MxEvent.                                            *)
Drop(o) ==
  /\ o \in held
  /\ held' = held \ {o}
  /\ UNCHANGED <<connection, client, finalizer, collected, gateway, history>>

(* The callback that onMessage registers is the held value of the registry, *)
(* which keeps it, and with it the MxEvent it refers to as "this".          *)
Reachable(o) == o \in held \cup finalizer

(* The garbage collector takes an MxEvent, and what is registered for it    *)
(* unsubscribes.                                                            *)
Collect(o) ==
  /\ o \in MxEvents \ collected
  /\ ~ Reachable(o)
  /\ collected' = collected \cup {o}
  /\ IF o \in finalizer /\ isready
     THEN /\ Send(<<[rpc |-> FALSE, of |-> o, add |-> FALSE]>>)
          /\ event_subscriptions' = [event_subscriptions EXCEPT ![EventOf[o]] = None]
     ELSE UNCHANGED <<up, event_subscriptions>>
  /\ UNCHANGED <<sock, epoch, down, reconnect, isready, messageid, deferred_p, waiting_p,
                 decoding, held, finalizer, gateway, history>>

------------------------------------------------------------------------------
Pages == \E r \in Requests : RpcCall(r) \/ RpcCallWaits(r) \/ EvtCall(r) \/ EvtCallWaits(r)
Handles(i) == Settle(i) \/ SettleNobody(i) \/ RunCallback(i)
Handlers == \E i \in DOMAIN decoding : Handles(i)
Gateway == GatewayRefuses \/ GatewayCalls \/ GatewaySubscribes \/ GatewayUnsubscribes
Server == \E e \in Events : Registers(e) \/ Emit(e)
Objects == \E o \in MxEvents : Drop(o) \/ Collect(o)

Next ==
  \/ Pages \/ Handlers \/ Gateway \/ Server \/ Objects
  \/ OnOpen \/ OnMessage \/ OnClose \/ Reconnect
  \/ Lose \/ Close

(* The browser runs its tasks and its timer, connections are made, the       *)
(* gateway's loop handles its messages, and garbage is collected.            *)
Fairness ==
  /\ WF_vars(OnOpen) /\ WF_vars(OnMessage) /\ WF_vars(OnClose) /\ WF_vars(Reconnect)
  /\ WF_vars(Handlers) /\ WF_vars(Gateway)
  /\ WF_vars(\E o \in MxEvents : Collect(o))

Spec == Init /\ [][Next]_vars
FairSpec == Spec /\ Fairness

------------------------------------------------------------------------------
Messages ==
  [rpc : {TRUE}, of : Requests, id : Nat] \cup [rpc : {FALSE}, of : Requests, add : BOOLEAN]
Answers ==
  [rpc : {TRUE}, of : Requests, id : Nat, ok : BOOLEAN] \cup [rpc : {FALSE}, of : Events]

TypeOK ==
  /\ sock \in {"connecting", "open", "closing", "closed", "ended"}
  /\ epoch \in Nat /\ emits \in Nat /\ messageid \in Nat
  /\ up \in Seq(Messages) /\ waiting_p \in Seq(Messages)
  /\ down \in Seq(Answers) /\ decoding \in Seq(Answers)
  /\ reconnect \in BOOLEAN /\ isready \in BOOLEAN /\ inorder \in BOOLEAN
  /\ DOMAIN deferred_p \subseteq Nat
  /\ \A i \in DOMAIN deferred_p : deferred_p[i] \in Requests
  /\ event_subscriptions \in [Events -> Requests \cup {None}]
  /\ held \subseteq Requests /\ finalizer \subseteq Requests /\ collected \subseteq Requests
  /\ registered \subseteq Events /\ subscribed \subseteq Events /\ missed \subseteq Events
  /\ executed \in [Requests -> Nat]
  /\ state \in [Requests -> {"idle", "waiting", "sent", "resolved", "rejected", "forgotten"}]
  /\ answer \in [Requests -> Requests \cup {None}]
  /\ last \in [Events -> Requests \cup {None}]

(* A call that is settled is settled by its own answer, in whatever order    *)
(* answers are decoded and however often ids start again from 0; it was      *)
(* executed once when it is resolved and never when it is rejected           *)
(* (onmessage, rpc_call, the reset in onclose).                              *)
OwnAnswer ==
  \A r \in Requests :
    (IsCall(r) /\ state[r] \in {"resolved", "rejected"}) =>
      /\ answer[r] = r
      /\ executed[r] = IF state[r] = "resolved" THEN 1 ELSE 0

(* The gateway never has a subscription, counting those on their way, that   *)
(* the client has no callback for; and until the connection is lost for the  *)
(* first time it has all of them, but those to events that did not exist.    *)
(* After that it has only those made since: onclose keeps the callbacks and  *)
(* nothing subscribes again.                                                 *)
SubscriptionsAgree ==
  LET there == {e \in Events : IF About(up, e) = {} THEN e \in subscribed \cup missed
                               ELSE LastAbout(up, e).add}
      here == {e \in Events : event_subscriptions[e] # None}
  IN sock = "open" => /\ (there \ missed) \subseteq here
                      /\ epoch = 0 => here \subseteq there

(* When messages are decoded in order, the last of the watches and unwatches *)
(* that pages asked for of a key decides, once all are through, until the    *)
(* connection is lost or closed (MxRdb.watch and unwatch, which each wait    *)
(* for a call).                                                              *)
LastRequestWins ==
  (inorder /\ epoch = 0 /\ reconnect) =>
    \A e \in Events :
      (\A r \in Requests : (Kind[r] # "call" /\ EventOf[r] = e) =>
                               state[r] \notin {"waiting", "sent"}) =>
        event_subscriptions[e] = IF last[e] # None /\ Adds(last[e]) THEN last[e] ELSE None

(* Calls that were sent are settled, or their connection is lost.            *)
CallsSettle == []<>(sock # "open" \/ \A r \in Requests : state[r] # "sent")

(* The connection comes back after every loss, unless it was closed.         *)
ComesBack == []<>(isready \/ ~ reconnect)

------------------------------------------------------------------------------
(* What holds of every state, and of each step if it held before.           *)

(* What the parts of the state say of the connection.                       *)
Phases ==
  /\ sock = "open" => isready
  /\ isready => sock \in {"open", "closing"} /\ waiting_p = <<>>
  /\ ~ isready => DOMAIN deferred_p = {} /\ down = <<>>
  /\ sock # "open" => up = <<>> /\ subscribed = {}
  /\ sock = "connecting" => decoding = <<>>
  /\ ~ reconnect => sock \in {"closing", "ended"}
  /\ (epoch = 0 /\ reconnect) => sock \in {"connecting", "open"}
  /\ (epoch = 0 /\ sock = "connecting") => \A e \in Events : event_subscriptions[e] = None

(* The rpc messages in a sequence; no two are of the same request.          *)
Rpcs(msgs) == {msgs[i] : i \in {j \in DOMAIN msgs : msgs[j].rpc}}
Single(msgs) ==
  \A i, j \in DOMAIN msgs :
    (msgs[i].rpc /\ msgs[j].rpc /\ msgs[i].of = msgs[j].of) => i = j
Apart(s, t) == \A m \in Rpcs(s), n \in Rpcs(t) : m.of # n.of

(* Calls that wait have ids of their own.                                   *)
WaitingSound ==
  /\ \A i \in DOMAIN waiting_p :
       LET m == waiting_p[i]
       IN /\ state[m.of] = "waiting"
          /\ m.rpc <=> IsCall(m.of)
          /\ m.rpc => m.id < messageid
          /\ ~ m.rpc => (m.add <=> Adds(m.of))
  /\ \A i, j \in DOMAIN waiting_p :
       /\ waiting_p[i].of = waiting_p[j].of => i = j
       /\ (waiting_p[i].rpc /\ waiting_p[j].rpc /\ waiting_p[i].id = waiting_p[j].id) => i = j

(* While the connection is ready, a message on its way is of a call that is  *)
(* deferred under its id and not settled, and the only one of that call.     *)
Known(m) ==
  /\ m.id \in DOMAIN deferred_p /\ deferred_p[m.id] = m.of
  /\ state[m.of] = "sent" /\ IsCall(m.of)
OnTheirWay ==
  /\ \A i \in DOMAIN deferred_p : i < messageid
  /\ isready =>
       /\ \A m \in Rpcs(up) \cup Rpcs(down) \cup Rpcs(decoding) : Known(m)
       /\ Single(up) /\ Single(down) /\ Single(decoding)
       /\ Apart(up, down) /\ Apart(up, decoding) /\ Apart(down, decoding)

(* A call is executed between its message and its answer.                   *)
Done(m) == executed[m.of] = (IF m.ok THEN 1 ELSE 0) /\ (m.ok <=> m.of \notin Forbidden)
ExecutedSound ==
  /\ \A r \in Requests : state[r] \in {"idle", "waiting"} => executed[r] = 0
  /\ \A m \in Rpcs(up) : executed[m.of] = 0
  /\ isready => \A m \in Rpcs(down) \cup Rpcs(decoding) : Done(m)

(* The last message about an event that is on its way to the gateway says     *)
(* whether the client has a callback; without one the subscription does.     *)
CallbacksSound ==
  sock = "open" =>
    \A e \in Events :
      IF About(up, e) # {} THEN LastAbout(up, e).add <=> event_subscriptions[e] # None
      ELSE /\ e \in subscribed => event_subscriptions[e] # None
           /\ (epoch = 0 /\ event_subscriptions[e] # None) => e \in subscribed \cup missed

(* The last request about an event is the last one that waits, else the last *)
(* one on its way, and else the callback is as it asked.                     *)
Asks(msgs, e) ==
  {i \in DOMAIN msgs : msgs[i].rpc /\ Kind[msgs[i].of] # "call" /\ EventOf[msgs[i].of] = e}
Waits(msgs, e) == {i \in DOMAIN msgs : Kind[msgs[i].of] # "call" /\ EventOf[msgs[i].of] = e}
LastRequest(e) ==
  /\ Waits(waiting_p, e) # {} => last[e] = waiting_p[Max(Waits(waiting_p, e))].of
  /\ Waits(waiting_p, e) = {} =>
     /\ Asks(up, e) # {} => last[e] = up[Max(Asks(up, e))].of
     /\ Asks(up, e) = {} =>
        /\ Asks(down, e) # {} => last[e] = down[Max(Asks(down, e))].of
        /\ Asks(down, e) = {} =>
           /\ Asks(decoding, e) # {} => last[e] = decoding[Max(Asks(decoding, e))].of
           /\ Asks(decoding, e) = {} =>
                event_subscriptions[e] = IF last[e] # None /\ Adds(last[e]) THEN last[e] ELSE None
RequestsSound == (inorder /\ epoch = 0 /\ reconnect) => \A e \in Events : LastRequest(e)

(* Calls are settled by their own answers, and the parts of the connection   *)
(* agree as that needs (MxWebsocket, and the gateway's message handler).     *)
SocketInvariant ==
  /\ TypeOK
  /\ Phases
  /\ WaitingSound
  /\ OnTheirWay
  /\ ExecutedSound
  /\ OwnAnswer
  /\ CallbacksSound
  /\ RequestsSound

(* Calls that were sent are settled and lost connections come back           *)
(* (onmessage, and the timer of onclose).                                     *)
GoesOn == CallsSettle /\ ComesBack
=============================================================================
