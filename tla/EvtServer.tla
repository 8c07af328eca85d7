------------------------------ MODULE EvtServer ------------------------------
(***************************************************************************)
(* Who gets which event: the registry, the subscriptions, the statistics   *)
(* and the client tables of the event server (network/mxevt.cpp) as the    *)
(* threads of several connections change them, and the clients that        *)
(* connect, say who they are, subscribe over RPC, emit, die and come back. *)
(*                                                                         *)
(* A client id is a hash of program and host name: a restarted client has  *)
(* the id of its predecessor on a new connection.  Connection <<c, n>> is  *)
(* that of the n-th session of client c.  An RPC call goes over another    *)
(* connection, so calls and event frames are not ordered.  A client's own  *)
(* emit stack is a stack (SysBufferStack), so the frame that says who it   *)
(* is can be overtaken by the first event it emits: the frames of a        *)
(* session that the server has not processed are a set.                   *)
(*                                                                         *)
(* A failing map lookup ends the process: "crashed".                       *)
(***************************************************************************)
EXTENDS Naturals, FiniteSets

CONSTANTS
  Clients,     (* client ids                                                *)
  Ghosts,      (* those that send an empty name: web plugins                *)
  Events,      (* names of events, but for that of the metadata frame       *)
  MaxSessions, (* bound: connections a client makes                         *)
  MaxRestarts, (* bound: connections beyond the first ones, of all clients  *)
  MaxInFlight  (* bound: events and calls on their way to the server        *)

Meta == "mxevt::getclientmeta"

ASSUME ServerAssumption ==
  /\ Ghosts \subseteq Clients
  /\ Meta \notin Events
  /\ {MaxSessions, MaxRestarts, MaxInFlight} \subseteq Nat

Conns == Clients \X (1 .. MaxSessions)

NoCall == [op |-> "none"]
Calls == [op : {"subscribe", "unsubscribe"}, evt : Events]

VARIABLES
  (* the clients                                                            *)
  session,     (* number of sessions a client has made                      *)
  alive,       (* the clients whose last session is not over                *)
  unread,      (* frames of a connection the server has not processed       *)
  call,        (* the RPC call a session waits for, or NoCall               *)
  subscribed,  (* _evt_subscriptions of the client's last session           *)
  (* the server                                                             *)
  registered,  (* _evt_server_reg                                           *)
  subs,        (* _evt_current_subscriptions: event -> client ids           *)
  stats,       (* _evt_event_stats._clients: event -> client ids            *)
  sockOf,      (* _evt_client_socket_pair_rev: client id -> session, or 0   *)
  ghost,       (* _evt_client_ghost                                         *)
  connected,   (* /system/backends/<cid>/connected: "none" | "yes" | "no"   *)
  listen,      (* serverListenThread of each connection                     *)
  todo,        (* events OnClientDisconnect has yet to unsubscribe from     *)
  crashed,
  (* history                                                                *)
  overlapped,  (* clients that were back before the server had noticed that *)
               (* their last session was over                               *)
  late         (* clients that died while they waited for an RPC call       *)

clientVars == <<session, alive, unread, call, subscribed>>
tables     == <<registered, subs, stats, sockOf, ghost, connected>>
threads    == <<listen, todo>>
history    == <<overlapped, late>>
vars       == <<clientVars, tables, threads, crashed, history>>

ListenStates == {"none", "fetch", "unsubscribing", "status", "gone"}

------------------------------------------------------------------------------
Init ==
  /\ session = [c \in Clients |-> 0]
  /\ alive = {}
  /\ unread = [x \in Conns |-> {}]
  /\ call = [x \in Conns |-> NoCall]
  /\ subscribed = [c \in Clients |-> {}]
  /\ registered = {Meta}
  /\ subs = [e \in Events |-> {}]
  /\ stats = [e \in Events \cup {Meta} |-> {}]
  /\ sockOf = [c \in Clients |-> 0]
  /\ ghost = {}
  /\ connected = [c \in Clients |-> "none"]
  /\ listen = [x \in Conns |-> "none"]
  /\ todo = [x \in Conns |-> {}]
  /\ crashed = FALSE
  /\ overlapped = {}
  /\ late = {}

Conn(c) == <<c, session[c]>>
Restarts == {x \in Conns : x[2] \in 2 .. session[x[1]]}
InFlight ==
  {x \in Conns : call[x] # NoCall} \cup {xe \in Conns \X Events : xe[2] \in unread[xe[1]]}
Over(x) == x[1] \notin alive \/ session[x[1]] # x[2]

------------------------------------------------------------------------------
(* SysConnectToExperiment: the event client connects and its constructor    *)
(* emits the metadata frame; the server accepts and starts its threads.     *)
Connect(c) ==
  /\ ~ crashed
  /\ c \notin alive
  /\ session[c] < MaxSessions
  /\ session[c] = 0 \/ Cardinality(Restarts) < MaxRestarts
  /\ session' = [session EXCEPT ![c] = @ + 1]
  /\ alive' = alive \cup {c}
  /\ subscribed' = [subscribed EXCEPT ![c] = {}]
  /\ unread' = [unread EXCEPT ![<<c, session[c] + 1>>] = {Meta}]
  /\ listen' = [listen EXCEPT ![<<c, session[c] + 1>>] = "fetch"]
  /\ overlapped' = IF \A n \in 1 .. session[c] : listen[<<c, n>>] = "gone"
                   THEN overlapped ELSE overlapped \cup {c}
  /\ UNCHANGED <<call, tables, todo, crashed, late>>

(* EvtClientThread::emit of an event it knows the id of.                   *)
ClientEmits(c, e) ==
  /\ ~ crashed
  /\ c \in alive
  /\ e \in registered
  /\ e \notin unread[Conn(c)]
  /\ Cardinality(InFlight) < MaxInFlight
  /\ unread' = [unread EXCEPT ![Conn(c)] = @ \cup {e}]
  /\ UNCHANGED <<session, alive, call, subscribed, tables, threads, crashed, history>>

(* EvtClientThread::subscribe and unsubscribe first ask for the id.        *)
ClientCalls(c, op, e) ==
  /\ ~ crashed
  /\ c \in alive
  /\ call[Conn(c)] = NoCall
  /\ e \in registered
  /\ Cardinality(InFlight) < MaxInFlight
  /\ call' = [call EXCEPT ![Conn(c)] = [op |-> op, evt |-> e]]
  /\ UNCHANGED <<session, alive, unread, subscribed, tables, threads, crashed, history>>

(* The client exits or dies; frames it sent may still be read.              *)
ClientDies(c) ==
  /\ ~ crashed
  /\ c \in alive
  /\ alive' = alive \ {c}
  /\ subscribed' = [subscribed EXCEPT ![c] = {}]
  /\ late' = IF call[Conn(c)] = NoCall THEN late ELSE late \cup {c}
  /\ UNCHANGED <<session, unread, call, tables, threads, crashed, overlapped>>

------------------------------------------------------------------------------
(* EvtRegister: the subscription set and the statistics come with the name. *)
EvtRegister(e) ==
  /\ ~ crashed
  /\ e \notin registered
  /\ registered' = registered \cup {e}
  /\ UNCHANGED <<clientVars, subs, stats, sockOf, ghost, connected, threads, crashed, history>>

(* EvtSubscribe on the RPC thread of connection x, under both locks.       *)
EvtSubscribe(x, e) ==
  /\ ~ crashed
  /\ call[x] = [op |-> "subscribe", evt |-> e]
  /\ call' = [call EXCEPT ![x] = NoCall]
  /\ subs' = [subs EXCEPT ![e] = @ \cup {x[1]}]
  /\ stats' = [stats EXCEPT ![e] = @ \cup {x[1]}]
  /\ subscribed' = IF Over(x) THEN subscribed
                   ELSE [subscribed EXCEPT ![x[1]] = @ \cup {e}]
  /\ UNCHANGED <<session, alive, unread, registered, sockOf, ghost, connected, threads, crashed, history>>

(* Fault: every subscriber is dropped (OrderlyKeepSubscriptions).           *)
WithoutSubs(c, e) ==
  IF c \in subs[e]
  THEN subs' = [subs EXCEPT ![e] = {}] /\ stats' = [stats EXCEPT ![e] = {}]
  ELSE UNCHANGED <<subs, stats>>

(* EvtUnsubscribe(clientid, eventid): both tables, only if subscribed.     *)
WithoutSub(c, e) ==
  IF c \in subs[e]
  THEN /\ subs' = [subs EXCEPT ![e] = @ \ {c}]
       /\ stats' = [stats EXCEPT ![e] = @ \ {c}]
  ELSE UNCHANGED <<subs, stats>>

EvtUnsubscribe(x, e) ==
  /\ ~ crashed
  /\ call[x] = [op |-> "unsubscribe", evt |-> e]
  /\ call' = [call EXCEPT ![x] = NoCall]
  /\ WithoutSub(x[1], e)
  /\ subscribed' = IF Over(x) THEN subscribed
                   ELSE [subscribed EXCEPT ![x[1]] = @ \ {e}]
  /\ UNCHANGED <<session, alive, unread, registered, sockOf, ghost, connected, threads, crashed, history>>

------------------------------------------------------------------------------
(* relay and emit: a frame goes on the stack of the connection of each      *)
(* subscriber (EvtConn sends it); a subscriber whose connection is not in   *)
(* the table is an exception.                                              *)
Push(e) == crashed' = (\E c \in subs[e] : sockOf[c] = 0)

(* serverListenThread on an event of a client: relay it under _evt_sub_lock *)
(* and account for it, which creates a statistics entry for the emitter.    *)
ListenEvent(x, e) ==
  /\ ~ crashed
  /\ listen[x] = "fetch"
  /\ e \in unread[x]
  /\ unread' = [unread EXCEPT ![x] = @ \ {e}]
  /\ Push(e)
  /\ stats' = [stats EXCEPT ![e] = @ \cup {x[1]}]
  /\ UNCHANGED <<session, alive, call, subscribed, registered, subs, sockOf, ghost, connected,
                 listen, todo, history>>

(* serverListenThread on the metadata frame: OnClientConnectMetadata.       *)
ListenMetadata(x) ==
  /\ ~ crashed
  /\ listen[x] = "fetch"
  /\ Meta \in unread[x]
  /\ unread' = [unread EXCEPT ![x] = @ \ {Meta}]
  /\ sockOf' = [sockOf EXCEPT ![x[1]] = x[2]]
  /\ IF x[1] \in Ghosts
     THEN ghost' = ghost \cup {x[1]} /\ UNCHANGED connected
     ELSE connected' = [connected EXCEPT ![x[1]] = "yes"] /\ UNCHANGED ghost
  /\ stats' = [stats EXCEPT ![Meta] = @ \cup {x[1]}]
  /\ UNCHANGED <<session, alive, call, subscribed, registered, subs, threads, crashed, history>>

(* EvtEmit by the server itself, for an event somebody subscribed to.      *)
ServerEmits(e) ==
  /\ ~ crashed
  /\ e \in registered
  /\ subs[e] # {}
  /\ Push(e)
  /\ UNCHANGED <<clientVars, tables, listen, todo, history>>

------------------------------------------------------------------------------
(* The listen thread finds the connection closed; what it did not read is   *)
(* lost, and the client must have said who it is.  OnClientDisconnect       *)
(* follows, one lock at a time.                                            *)
Disconnect(x) ==
  /\ ~ crashed
  /\ listen[x] = "fetch"
  /\ Over(x)
  /\ IF Meta \in unread[x]
     THEN crashed' = TRUE /\ UNCHANGED <<listen, todo>>
     ELSE /\ listen' = [listen EXCEPT ![x] = "unsubscribing"]
          /\ todo' = [todo EXCEPT ![x] = registered \ {Meta}]
          /\ UNCHANGED crashed
  /\ unread' = [unread EXCEPT ![x] = {}]
  /\ UNCHANGED <<session, alive, call, subscribed, tables, history>>

(* Fault: an event the client is not subscribed to is never done with       *)
(* (DeadNoticed).                                                          *)
DisconnectSkips(x, e) ==
  /\ ~ crashed
  /\ listen[x] = "unsubscribing"
  /\ e \in todo[x]
  /\ x[1] \in subs[e]
  /\ todo' = [todo EXCEPT ![x] = @ \ {e}]
  /\ WithoutSub(x[1], e)
  /\ UNCHANGED <<clientVars, registered, sockOf, ghost, connected, listen, crashed, history>>

DisconnectUnsubscribes(x, e) ==
  /\ ~ crashed
  /\ listen[x] = "unsubscribing"
  /\ e \in todo[x]
  /\ todo' = [todo EXCEPT ![x] = @ \ {e}]
  /\ WithoutSub(x[1], e)
  /\ UNCHANGED <<clientVars, registered, sockOf, ghost, connected, listen, crashed, history>>

(* Fault: the loop over the events ends early (GoneForgotten).             *)
DisconnectBreaks(x) ==
  /\ ~ crashed
  /\ listen[x] = "unsubscribing"
  /\ stats' = [e \in DOMAIN stats |-> stats[e] \ {x[1]}]
  /\ listen' = [listen EXCEPT ![x] = "status"]
  /\ UNCHANGED <<clientVars, registered, subs, sockOf, ghost, connected, todo, crashed, history>>

(* EvtPurgeStatsEntryClient, which takes no lock.                           *)
DisconnectPurges(x) ==
  /\ ~ crashed
  /\ listen[x] = "unsubscribing"
  /\ todo[x] = {}
  /\ stats' = [e \in DOMAIN stats |-> stats[e] \ {x[1]}]
  /\ listen' = [listen EXCEPT ![x] = "status"]
  /\ UNCHANGED <<clientVars, registered, subs, sockOf, ghost, connected, todo, crashed, history>>

(* A ghost is only forgotten; another client is shown as not connected.     *)
DisconnectSetsStatus(x) ==
  /\ ~ crashed
  /\ listen[x] = "status"
  /\ IF x[1] \in ghost
     THEN ghost' = ghost \ {x[1]} /\ UNCHANGED connected
     ELSE connected' = [connected EXCEPT ![x[1]] = "no"] /\ UNCHANGED ghost
  /\ listen' = [listen EXCEPT ![x] = "gone"]
  /\ UNCHANGED <<clientVars, registered, subs, stats, sockOf, todo, crashed, history>>

OnClientDisconnect(x) ==
  \/ Disconnect(x)
  \/ \E e \in Events : DisconnectUnsubscribes(x, e)
  \/ DisconnectPurges(x)
  \/ DisconnectSetsStatus(x)

------------------------------------------------------------------------------
Client(c) ==
  \/ Connect(c)
  \/ ClientDies(c)
  \/ \E e \in Events : \/ ClientEmits(c, e)
                       \/ \E op \in {"subscribe", "unsubscribe"} : ClientCalls(c, op, e)

RpcThread(x) == \E e \in Events : EvtSubscribe(x, e) \/ EvtUnsubscribe(x, e)

ListenThread(x) ==
  \/ ListenMetadata(x)
  \/ \E e \in Events : ListenEvent(x, e)
  \/ OnClientDisconnect(x)

Next ==
  \/ \E c \in Clients : Client(c)
  \/ \E e \in Events : EvtRegister(e) \/ ServerEmits(e)
  \/ \E x \in Conns : RpcThread(x) \/ ListenThread(x)

(* Of the listen threads whose connections are closed, one goes on.         *)
Fairness == WF_vars(\E x \in Conns : OnClientDisconnect(x))

Spec == Init /\ [][Next]_vars /\ Fairness

------------------------------------------------------------------------------
TypeOK ==
  /\ session \in [Clients -> 0 .. MaxSessions]
  /\ alive \subseteq Clients
  /\ unread \in [Conns -> SUBSET (Events \cup {Meta})]
  /\ call \in [Conns -> Calls \cup {NoCall}]
  /\ subscribed \in [Clients -> SUBSET Events]
  /\ registered \subseteq Events \cup {Meta}
  /\ subs \in [Events -> SUBSET Clients]
  /\ stats \in [Events \cup {Meta} -> SUBSET Clients]
  /\ sockOf \in [Clients -> 0 .. MaxSessions]
  /\ ghost \subseteq Ghosts
  /\ connected \in [Clients -> {"none", "yes", "no"}]
  /\ listen \in [Conns -> ListenStates]
  /\ todo \in [Conns -> SUBSET Events]
  /\ crashed \in BOOLEAN
  /\ overlapped \cup late \subseteq Clients

(* A running client that subscribed is subscribed at the server, whatever   *)
(* the threads of its other sessions are doing (docs/events.md:49: the      *)
(* callback "gets triggered everytime the event `evt` is emitted").         *)
SubscriptionsStay == \A c \in alive : \A e \in subscribed[c] : c \in subs[e]

(* That holds of every client that has never been back too early or died    *)
(* in a call, whatever the others do.                                       *)
OrderlyKeepSubscriptions ==
  \A c \in alive \ (overlapped \cup late) : \A e \in subscribed[c] : c \in subs[e]

(* Every such subscriber has a place in the event's statistics, which is    *)
(* where the emit thread accounts for what it sends (mxevt.cpp:895-930).    *)
SubscribersCounted == \A e \in Events : subs[e] \ (overlapped \cup late) \subseteq stats[e]

(* The connected flag of a backend agrees with its sessions, at every       *)
(* moment when no listen thread of its is between the two.  A call that     *)
(* comes late does not disturb it.                                          *)
ConnectedRight ==
  \A c \in Clients \ (Ghosts \cup overlapped) :
    /\ c \in alive /\ Meta \notin unread[Conn(c)] => connected[c] = "yes"
    /\ (\A n \in 1 .. MaxSessions : listen[<<c, n>>] \in {"none", "gone"}) => connected[c] # "yes"

(* Once all of a client's connections are gone the server has forgotten its *)
(* subscriptions, so that nothing is pushed to a stack nobody empties; only *)
(* a call that comes after the disconnection leaves one behind.             *)
GoneForgotten ==
  \A c \in Clients \ late :
    (\A n \in 1 .. MaxSessions : listen[<<c, n>>] \in {"none", "gone"})
      => \A e \in Events : c \notin subs[e] /\ c \notin stats[e]

(* What the tables rest on, of the sessions: a client that runs has its     *)
(* last connection read; a connection that was not made has no thread and   *)
(* no call; a client that never overlapped has no thread left of its other  *)
(* sessions; and a call that outlives its session is on record as late.     *)
RunningRead == \A c \in alive : session[c] > 0 /\ listen[Conn(c)] = "fetch"
UnmadeIdle ==
  \A x \in Conns : x[2] > session[x[1]] => listen[x] = "none" /\ call[x] = NoCall
OthersGone ==
  \A x \in Conns : x[2] < session[x[1]] /\ x[1] \notin overlapped => listen[x] = "gone"
LateOnRecord == \A x \in Conns : call[x] # NoCall /\ Over(x) => x[1] \in late
SessionsSound == RunningRead /\ UnmadeIdle /\ OthersGone /\ LateOnRecord

(* Every entry of a table has a thread that will take it out again: only    *)
(* registered events have subscribers, and each of those has a connection   *)
(* that is read, or has yet to unsubscribe from the event.                  *)
EventsKnown ==
  /\ \A x \in Conns : call[x] # NoCall => call[x].evt \in registered
  /\ \A e \in Events : subs[e] # {} => e \in registered
Holds(x, e) == listen[x] = "fetch" \/ (listen[x] = "unsubscribing" /\ e \in todo[x])
SubscribersHeld ==
  \A c \in Clients \ late, e \in Events :
    c \in subs[e] => \E x \in Conns : x[1] = c /\ Holds(x, e)
EmittersHeld ==
  \A c \in Clients \ late, e \in Events :
    c \in stats[e] => \E x \in Conns : x[1] = c /\ listen[x] \in {"fetch", "unsubscribing"}
FlagsHeld ==
  \A c \in Clients \ Ghosts :
    connected[c] = "yes" =>
      \E x \in Conns : x[1] = c /\ listen[x] \in {"fetch", "unsubscribing", "status"}
EntriesHeld == EventsKnown /\ SubscribersHeld /\ EmittersHeld /\ FlagsHeld

(* Every client that died is noticed and forgotten, unless the server       *)
(* crashes: time and again no connection that is over has a thread left.    *)
DeadNoticed ==
  []<>(crashed \/ \A x \in Conns : listen[x] # "none" /\ Over(x) => listen[x] = "gone")

(* The tables of the event server (its subscriptions, the statistics and    *)
(* the connected flags) agree with each other and with the clients, and     *)
(* nothing is left in them of a client that is gone (mxevt.cpp:391-499,     *)
(* 759-816, 1081-1117).                                                     *)
TablesSound ==
  /\ TypeOK
  /\ SessionsSound
  /\ EntriesHeld
  /\ SubscribersCounted
  /\ ConnectedRight
  /\ GoneForgotten
=============================================================================
