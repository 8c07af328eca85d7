------------------------------- MODULE UserRpc -------------------------------
(***************************************************************************)
(* A call of the user RPC function of a backend (bck/mxbackend.cpp,         *)
(* BckCallUserRpc).  The call is a procedure of the server: it emits the    *)
(* event "<backend>::rpc" with the arguments, puts a callback on the event  *)
(* "<backend>::rpc_res" and waits for the callback to be run.  The backend  *)
(* has the function run by its event loop and emits what it returns as      *)
(* "rpc_res".  There is one callback for the event, and nothing in the      *)
(* event says which call it answers.                                        *)
(*                                                                         *)
(* Events to and from a backend go through stacks and can overtake each     *)
(* other, so those on their way are sets.  Of the event server (EvtServer,  *)
(* EvtConn) there is what these two events meet: whether they are known and *)
(* subscribed to, how far the connection of each session of the backend is, *)
(* which connection what is pushed for it goes to, and whether its sender   *)
(* runs, which a lost notify can keep from it.  A push for a client that    *)
(* never introduced itself ends the server; EvtServer has that, not this.   *)
(***************************************************************************)
EXTENDS Naturals, FiniteSets

CONSTANTS
  Callers,     (* RPC threads of the server that execute BckCallUserRpc     *)
  Returns,     (* what user functions return: "value", "nothing" or both    *)
  MaxCalls,    (* bound: calls made                                         *)
  MaxSessions  (* bound: times the backend is started                       *)

ASSUME BoundsAssumption == MaxCalls \in Nat /\ MaxSessions \in Nat

VARIABLES
  (* the backend                                                            *)
  backend,     (* how far MxBackend::init is, or "off"                      *)
  sessions,    (* the number of times it was started                        *)
  tasks,       (* calls scheduled on _io                                    *)
  (* the server                                                             *)
  link,        (* session -> its connection, as the server knows it         *)
  route,       (* the session events to the backend are pushed for, or 0    *)
  awake,       (* the sender of the last session's connection runs          *)
  registered,  (* the events known to the server                            *)
  subscribed,  (* the backend is subscribed to "rpc"                        *)
  requests,    (* calls pushed for the running session, not yet there       *)
  answers,     (* results emitted and not yet at the server                 *)
  callback,    (* the call whose callback is on "rpc_res", 0 if none is     *)
  (* the calls                                                              *)
  calls,       (* the number of calls made                                  *)
  caller,      (* caller -> where it is, and its call                       *)
  response,    (* call -> the call whose result its callback got, or 0      *)
  result,      (* caller -> status and answer of its last call              *)
  (* history                                                                *)
  mixed,       (* calls that overlapped another, or its late answer         *)
  lost,        (* calls whose request or answer came to nothing             *)
  relayed      (* calls whose answer their own callback was run with        *)

bck == <<backend, sessions, tasks>>
conn == <<link, route, awake>>
evt == <<registered, subscribed, requests, answers>>
call == <<calls, caller, response, result>>
history == <<mixed, lost, relayed>>
vars == <<bck, conn, evt, callback, call, history>>

Events == {"rpc", "rpc_res"}
Phases == {"off", "started", "known", "answering", "subscribed", "listening"}
Links == {"none", "new", "known", "gone"}
Places == {"idle", "emitted", "waiting"}
Statuses == {"none", "OK", "EMIT_FAILED", "RESPONSE_TIMEOUT", "NO_SUCH_BACKEND"}

Active == {c \in Callers : caller[c].at # "idle"}
OnTheWay == requests \cup tasks \cup {a.call : a \in answers}
Live == backend # "off"

------------------------------------------------------------------------------
Init ==
  /\ backend = "off" /\ sessions = 0 /\ tasks = {}
  /\ link = [s \in 1 .. MaxSessions |-> "none"] /\ route = 0 /\ awake = FALSE
  /\ registered = {} /\ subscribed = FALSE /\ requests = {} /\ answers = {}
  /\ callback = 0
  /\ calls = 0
  /\ caller = [c \in Callers |-> [at |-> "idle", call |-> 0]]
  /\ response = [n \in 1 .. MaxCalls |-> 0]
  /\ result = [c \in Callers |-> [call |-> 0, status |-> "none", answer |-> 0]]
  /\ mixed = {} /\ lost = {} /\ relayed = {}

(* registerUserRpcEvent, at the end of init: two events are registered, the *)
(* first is subscribed to, and then the client has its callback.  It can    *)
(* start again before the server has noticed that it went, and the sender   *)
(* of its connection can miss the notify (EvtConn).                         *)
BackendStarts ==
  /\ ~ Live
  /\ sessions < MaxSessions
  /\ backend' = "started"
  /\ sessions' = sessions + 1
  /\ link' = [link EXCEPT ![sessions'] = "new"]
  /\ awake' \in BOOLEAN
  /\ UNCHANGED <<tasks, route, evt, callback, call, history>>

(* The notify of another connection is taken by the sender that waits.      *)
SenderWakes ==
  /\ Live /\ ~ awake
  /\ awake' = TRUE
  /\ UNCHANGED <<bck, link, route, evt, callback, call, history>>

BackendRegisters ==
  /\ \/ backend = "started" /\ backend' = "known" /\ registered' = registered \cup {"rpc"}
     \/ backend = "known" /\ backend' = "answering" /\ registered' = registered \cup {"rpc_res"}
  /\ UNCHANGED <<sessions, tasks, conn, subscribed, requests, answers, callback, call, history>>

BackendSubscribes ==
  /\ backend = "answering"
  /\ backend' = "subscribed"
  /\ subscribed' = TRUE
  /\ UNCHANGED <<sessions, tasks, conn, registered, requests, answers, callback, call, history>>

BackendListens ==
  /\ backend = "subscribed"
  /\ backend' = "listening"
  /\ UNCHANGED <<sessions, tasks, conn, evt, callback, call, history>>

(* clientListenThread: the callback schedules the function; a request that  *)
(* finds no callback is dropped.                                            *)
BackendTakes(n) ==
  /\ Live /\ awake
  /\ n \in requests
  /\ requests' = requests \ {n}
  /\ IF backend = "listening"
     THEN tasks' = tasks \cup {n} /\ UNCHANGED lost
     ELSE lost' = lost \cup {n} /\ UNCHANGED tasks
  /\ UNCHANGED <<backend, sessions, conn, registered, subscribed, answers, callback, call,
                 mixed, relayed>>

(* Fault: a second request replaces the first (CallsReturn).                *)
RunsOne(n) == tasks' = {}
Runs(n) == tasks' = tasks \ {n}

(* The event loop runs the function and emits what it returns.              *)
BackendRuns(n, r) ==
  /\ backend = "listening"
  /\ n \in tasks
  /\ Runs(n)
  /\ answers' = answers \cup {[call |-> n, returns |-> r]}
  /\ UNCHANGED <<backend, sessions, conn, registered, subscribed, requests, callback, call,
                 history>>

(* The backend goes away, and with it what was pushed for it and had not    *)
(* come, what it had not run, and any of the answers, which its emit stack  *)
(* may still hold.                                                          *)
BackendDies ==
  /\ Live
  /\ backend' = "off"
  /\ awake' = FALSE /\ requests' = {} /\ tasks' = {}
  /\ answers' \in SUBSET answers
  /\ lost' = lost \cup requests \cup tasks \cup {a.call : a \in answers \ answers'}
  /\ UNCHANGED <<sessions, link, route, registered, subscribed, callback, call, mixed, relayed>>

(* OnClientConnectMetadata: the client now has this connection.             *)
ServerMeets(s) ==
  /\ link[s] = "new"
  /\ link' = [link EXCEPT ![s] = "known"]
  /\ route' = s
  /\ UNCHANGED <<bck, awake, evt, callback, call, history>>

(* OnClientDisconnect: a session's subscription and that of the one after   *)
(* it are the same one, as a backend has the same id each time.             *)
ServerNotices(s) ==
  /\ link[s] = "known"
  /\ s < sessions \/ ~ Live
  /\ link' = [link EXCEPT ![s] = "gone"]
  /\ subscribed' = FALSE
  /\ UNCHANGED <<bck, route, awake, registered, requests, answers, callback, call, history>>

------------------------------------------------------------------------------
(* BckCallUserRpc, up to the wait.                                          *)
Returned(c, n, status) ==
  /\ result' = [result EXCEPT ![c] = [call |-> n, status |-> status, answer |-> 0]]
  /\ caller' = [caller EXCEPT ![c] = [at |-> "idle", call |-> 0]]

CallRefused(c) ==
  /\ caller[c].at = "idle"
  /\ calls < MaxCalls
  /\ "rpc" \notin registered \/ ~ subscribed
  /\ calls' = calls + 1
  /\ Returned(c, calls', IF "rpc" \notin registered THEN "NO_SUCH_BACKEND" ELSE "EMIT_FAILED")
  /\ UNCHANGED <<bck, conn, evt, callback, response, history>>

(* EvtEmit succeeds also when the connection it pushes for has ended.       *)
CallEmits(c) ==
  /\ caller[c].at = "idle"
  /\ calls < MaxCalls
  /\ "rpc" \in registered
  /\ subscribed
  /\ route # 0
  /\ calls' = calls + 1
  /\ IF Live /\ route = sessions
     THEN requests' = requests \cup {calls'} /\ UNCHANGED lost
     ELSE lost' = lost \cup {calls'} /\ UNCHANGED requests
  /\ caller' = [caller EXCEPT ![c] = [at |-> "emitted", call |-> calls']]
  /\ mixed' = IF Active # {} \/ OnTheWay # {}
              THEN mixed \cup {calls'} \cup {caller[u].call : u \in Active} ELSE mixed
  /\ UNCHANGED <<bck, conn, registered, subscribed, answers, callback, response, result, relayed>>

(* EvtServerRegisterCallback: the last one to come replaces the others.     *)
CallRegisters(c) ==
  /\ caller[c].at = "emitted"
  /\ caller' = [caller EXCEPT ![c].at = "waiting"]
  /\ callback' = IF "rpc_res" \in registered THEN caller[c].call ELSE callback
  /\ UNCHANGED <<bck, conn, evt, calls, response, result, history>>

(* Fault: the callback that is run is not that of the event (AnsweredIsOk). *)
NotAnswered(n) == FALSE
Proceeds(n) == response[n] # 0

(* The wait ends with the callback's result, or with the time-out if the    *)
(* call has one.                                                            *)
CallReturns(c) ==
  LET n == caller[c].call IN
  /\ caller[c].at = "waiting"
  /\ Proceeds(n)
  /\ result' = [result EXCEPT ![c] = [call |-> n, status |-> "OK", answer |-> response[n]]]
  /\ caller' = [caller EXCEPT ![c] = [at |-> "idle", call |-> 0]]
  /\ UNCHANGED <<bck, conn, evt, callback, calls, response, history>>

CallTimesOut(c) ==
  /\ caller[c].at = "waiting"
  /\ ~ Proceeds(caller[c].call)
  /\ Returned(c, caller[c].call, "RESPONSE_TIMEOUT")
  /\ UNCHANGED <<bck, conn, evt, callback, calls, response, history>>

(* Fault: one response for all calls, as a static one would be (OwnAnswer). *)
RespondedAll(n) == [m \in 1 .. MaxCalls |-> n]
Responded(n) == [response EXCEPT ![callback] = n]

(* EvtTryRunServerCallback: the callback takes what has a length.           *)
ServerRelays(a) ==
  /\ a \in answers
  /\ answers' = answers \ {a}
  /\ response' = IF callback # 0 /\ a.returns = "value" THEN Responded(a.call) ELSE response
  /\ lost' = IF callback = a.call /\ a.returns = "value" THEN lost ELSE lost \cup {a.call}
  /\ relayed' = IF \E c \in Callers : caller[c] = [at |-> "waiting", call |-> a.call]
                     /\ callback = a.call
                THEN relayed \cup {a.call} ELSE relayed
  /\ UNCHANGED <<bck, conn, registered, subscribed, requests, callback, calls, caller, result,
                 mixed>>

------------------------------------------------------------------------------
Backend ==
  \/ BackendRegisters \/ BackendSubscribes \/ BackendListens
  \/ \E n \in requests : BackendTakes(n)
  \/ \E n \in tasks, r \in Returns : BackendRuns(n, r)

Server ==
  \/ \E s \in 1 .. MaxSessions : ServerMeets(s) \/ ServerNotices(s)
  \/ \E a \in answers : ServerRelays(a)

Next ==
  \/ Backend \/ BackendStarts \/ BackendDies \/ SenderWakes
  \/ Server
  \/ \E c \in Callers :
       CallRefused(c) \/ CallEmits(c) \/ CallRegisters(c) \/ CallReturns(c) \/ CallTimesOut(c)

(* The backend and the server go on, and so does a call up to its wait.     *)
(* Time-outs are not asked to come: a call may be made without one.  Nor is *)
(* the connection that would wake a sender that missed its notify.          *)
Fairness ==
  /\ WF_vars(Backend)
  /\ WF_vars(Server)
  /\ \A c \in Callers : WF_vars(CallRegisters(c) \/ CallReturns(c))

Spec == Init /\ [][Next]_vars /\ Fairness

------------------------------------------------------------------------------
TypeOK ==
  /\ backend \in Phases /\ sessions \in 0 .. MaxSessions
  /\ link \in [1 .. MaxSessions -> Links] /\ route \in 0 .. MaxSessions /\ awake \in BOOLEAN
  /\ registered \subseteq Events /\ subscribed \in BOOLEAN
  /\ requests \cup tasks \cup mixed \cup lost \cup relayed \subseteq 1 .. MaxCalls
  /\ answers \subseteq [call : 1 .. MaxCalls, returns : Returns]
  /\ callback \in 0 .. MaxCalls /\ calls \in 0 .. MaxCalls
  /\ caller \in [Callers -> [at : Places, call : 0 .. MaxCalls]]
  /\ response \in [1 .. MaxCalls -> 0 .. MaxCalls]
  /\ result \in [Callers -> [call : 0 .. MaxCalls, status : Statuses, answer : 0 .. MaxCalls]]
  /\ \A c \in Callers : result[c].status = "OK" <=> result[c].answer # 0

(* Whoever waits in BckCallUserRpc has put its callback on the event, or    *)
(* another caller has put a later one there: "rpc_res" is known before a    *)
(* request can be emitted, also while a backend comes up or back.           *)
WaitsRegistered ==
  \A c \in Callers : caller[c].at = "waiting" =>
    \/ callback = caller[c].call
    \/ callback # 0 /\ {callback, caller[c].call} \subseteq mixed

(* A call that succeeds returns the result of that call, unless it          *)
(* overlapped another call of the same function or the late answer to one   *)
(* that had timed out.                                                      *)
OwnAnswer ==
  \A c \in Callers :
    result[c].status = "OK" => result[c].answer = result[c].call \/ result[c].call \in mixed

(* A call whose answer came while it waited does not end in a time-out.     *)
AnsweredIsOk ==
  \A c \in Callers : result[c].status = "RESPONSE_TIMEOUT" => result[c].call \notin relayed

(* Calls return, also without a time-out, but for those that nothing        *)
(* answers: the backend was gone, went away before its answer left or was   *)
(* not listening yet, the answer came before the callback was there or      *)
(* after another had replaced it, or the sender never woke.                 *)
Unanswered == lost \cup (IF awake THEN {} ELSE requests)
CallsReturn == []<>(\A c \in Callers : caller[c].at # "idle" => caller[c].call \in Unanswered)

(* Who waits can be found by an answer, and is given its own unless calls     *)
(* overlapped (BckCallUserRpc, EvtTryRunServerCallback).                      *)
WaitsSound == TypeOK /\ WaitsRegistered /\ OwnAnswer
=============================================================================
