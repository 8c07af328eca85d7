--------------------------- MODULE UserRpc_proofs ---------------------------
(***************************************************************************)
(* Proofs about UserRpc, for any number of callers, calls and sessions of   *)
(* the backend: who waits has a callback in place, calls that do not        *)
(* overlap get their own results, and when functions return values a call   *)
(* that was answered while it waited does not time out.                     *)
(***************************************************************************)
EXTENDS UserRpc, TLAPS

IsActive(c) == caller[c].at # "idle"

(* Calls are numbered as they are made, and nothing is known of later ones. *)
Numbered ==
  /\ OnTheWay \subseteq 1 .. calls
  /\ callback <= calls
  /\ \A c \in Callers : result[c].call <= calls
  /\ \A c \in Callers : IsActive(c) => caller[c].call \in 1 .. calls
  /\ \A n \in 1 .. MaxCalls : n > calls => response[n] = 0

(* Both events exist before a request can be emitted.                       *)
EventsKnown ==
  /\ backend \in {"subscribed", "listening", "answering"} => "rpc_res" \in registered
  /\ subscribed => "rpc_res" \in registered
  /\ \A c \in Callers : IsActive(c) => "rpc_res" \in registered

(* Callers have calls of their own, and those that overlap are on record.   *)
CallersApart ==
  \A c, u \in Callers : IsActive(c) /\ IsActive(u) /\ c # u =>
    /\ caller[c].call # caller[u].call
    /\ caller[c].call \in mixed /\ caller[u].call \in mixed

(* What returned is not under way any more.                                 *)
ReturnedOnce ==
  \A c, u \in Callers : IsActive(u) => result[c].call # caller[u].call

(* An answer that may still come to a call is its own, or the call is on    *)
(* record as one that overlapped another; likewise the answer it has.       *)
OwnOrMixed ==
  \A c \in Callers : IsActive(c) =>
    /\ \A n \in OnTheWay : n = caller[c].call \/ caller[c].call \in mixed
    /\ response[caller[c].call] \in {0, caller[c].call} \/ caller[c].call \in mixed

CallsInv ==
  /\ TypeOK /\ Numbered /\ EventsKnown /\ CallersApart /\ ReturnedOnce /\ OwnOrMixed
  /\ WaitsRegistered /\ OwnAnswer

(* A call whose answer came while it waited has a response, and has not     *)
(* timed out.                                                               *)
RelayedInv ==
  /\ \A n \in relayed : response[n] # 0
  /\ AnsweredIsOk

------------------------------------------------------------------------------
(* The initial state.                                                       *)
LEMMA InitCallsInv == Init => CallsInv
<1> SUFFICES ASSUME Init PROVE CallsInv
  OBVIOUS
<1> USE BoundsAssumption DEF Init, IsActive, OnTheWay
<1>1. TypeOK
  <2>1. caller \in [Callers -> [at : Places, call : 0 .. MaxCalls]]
        /\ result \in [Callers -> [call : 0 .. MaxCalls, status : Statuses, answer : 0 .. MaxCalls]]
    BY DEF Places, Statuses
  <2>2. response \in [1 .. MaxCalls -> 0 .. MaxCalls]
    OBVIOUS
  <2>3. \A c \in Callers : result[c].status = "OK" <=> result[c].answer # 0
    OBVIOUS
  <2>4. 0 \in 0 .. MaxCalls /\ 0 \in 0 .. MaxSessions /\ "off" \in Phases
    BY DEF Phases
  <2>5. link \in [1 .. MaxSessions -> Links] /\ awake \in BOOLEAN
    BY DEF Links
  <2> QED
    BY <2>1, <2>2, <2>3, <2>4, <2>5 DEF TypeOK
<1>2. Numbered /\ EventsKnown
  BY DEF Numbered, EventsKnown
<1>3. CallersApart /\ ReturnedOnce /\ OwnOrMixed
  BY DEF CallersApart, ReturnedOnce, OwnOrMixed
<1>4. WaitsRegistered /\ OwnAnswer
  BY DEF WaitsRegistered, OwnAnswer
<1> QED
  BY <1>1, <1>2, <1>3, <1>4 DEF CallsInv

(* The backend starts, registers, subscribes and listens, and is listened to. *)
LEMMA BackendComesInv ==
  ASSUME CallsInv,
         BackendStarts \/ BackendRegisters \/ BackendSubscribes \/ BackendListens \/ SenderWakes
  PROVE  CallsInv'
<1> USE BoundsAssumption DEF CallsInv, IsActive, OnTheWay
<1>1. TypeOK'
  <2>1. backend' \in Phases /\ sessions' \in 0 .. MaxSessions
        /\ registered' \subseteq Events /\ subscribed' \in BOOLEAN
    <3>1. sessions \in 0 .. MaxSessions /\ registered \subseteq Events /\ subscribed \in BOOLEAN
      BY DEF TypeOK
    <3>2. CASE BackendStarts
      <4>1. sessions' \in 0 .. MaxSessions
        BY <3>1, <3>2 DEF BackendStarts
      <4> QED
        BY <3>1, <3>2, <4>1 DEF BackendStarts, Phases, evt
    <3>3. CASE BackendRegisters
      BY <3>1, <3>3 DEF BackendRegisters, Phases, Events
    <3>4. CASE BackendSubscribes \/ BackendListens \/ SenderWakes
      BY <3>1, <3>4 DEF BackendSubscribes, BackendListens, SenderWakes, TypeOK, Phases, bck, evt
    <3> QED
      BY <3>2, <3>3, <3>4
  <2>2. requests' \cup tasks' \cup mixed' \cup lost' \cup relayed' \subseteq 1 .. MaxCalls
    BY DEF TypeOK, BackendStarts, BackendRegisters, BackendSubscribes, BackendListens, SenderWakes,
       Phases, Events, bck, conn, evt, call, history
  <2>3. answers' \subseteq [call : 1 .. MaxCalls, returns : Returns]
    BY DEF TypeOK, BackendStarts, BackendRegisters, BackendSubscribes, BackendListens, SenderWakes,
       Phases, Events, bck, conn, evt, call, history
  <2>4. callback' \in 0 .. MaxCalls /\ calls' \in 0 .. MaxCalls
    BY DEF TypeOK, BackendStarts, BackendRegisters, BackendSubscribes, BackendListens, SenderWakes,
       Phases, Events, bck, conn, evt, call, history
  <2>5. caller' \in [Callers -> [at : Places, call : 0 .. MaxCalls]]
    BY DEF TypeOK, BackendStarts, BackendRegisters, BackendSubscribes, BackendListens, SenderWakes,
       Phases, Events, bck, conn, evt, call, history
  <2>6. response' \in [1 .. MaxCalls -> 0 .. MaxCalls]
    BY DEF TypeOK, BackendStarts, BackendRegisters, BackendSubscribes, BackendListens, SenderWakes,
       Phases, Events, bck, conn, evt, call, history
  <2>7. result' \in [Callers -> [call : 0 .. MaxCalls, status : Statuses, answer : 0 .. MaxCalls]]
    BY DEF TypeOK, BackendStarts, BackendRegisters, BackendSubscribes, BackendListens, SenderWakes,
       Phases, Events, bck, conn, evt, call, history
  <2>8. \A u \in Callers : result'[u].status = "OK" <=> result'[u].answer # 0
    BY DEF TypeOK, BackendStarts, BackendRegisters, BackendSubscribes, BackendListens, SenderWakes,
       Phases, Events, bck, conn, evt, call, history
  <2>9. link' \in [1 .. MaxSessions -> Links] /\ route' \in 0 .. MaxSessions /\ awake' \in BOOLEAN
    <3>1. link \in [1 .. MaxSessions -> Links] /\ route \in 0 .. MaxSessions /\ awake \in BOOLEAN
      BY DEF TypeOK
    <3>2. CASE BackendStarts
      BY <3>1, <3>2 DEF BackendStarts, Links
    <3>3. CASE BackendRegisters \/ BackendSubscribes \/ BackendListens \/ SenderWakes
      BY <3>1, <3>3 DEF BackendRegisters, BackendSubscribes, BackendListens, SenderWakes, conn
    <3> QED
      BY <3>2, <3>3
  <2> QED
    BY <2>1, <2>2, <2>3, <2>4, <2>5, <2>6, <2>7, <2>8, <2>9 DEF TypeOK
<1>2. Numbered'
  BY DEF TypeOK, Numbered, BackendStarts, BackendRegisters, BackendSubscribes,
     BackendListens, SenderWakes, bck, conn, evt, call, history
<1>3. EventsKnown'
  BY DEF TypeOK, EventsKnown, BackendStarts, BackendRegisters, BackendSubscribes,
     BackendListens, SenderWakes, bck, conn, evt, call, history
<1>4. CallersApart' /\ ReturnedOnce'
  BY DEF CallersApart, ReturnedOnce, BackendStarts, BackendRegisters, BackendSubscribes,
     BackendListens, SenderWakes, bck, conn, evt, call, history
<1>5. OwnOrMixed'
  BY DEF TypeOK, Numbered, OwnOrMixed, BackendStarts, BackendRegisters, BackendSubscribes,
     BackendListens, SenderWakes, bck, conn, evt, call, history
<1>6. WaitsRegistered' /\ OwnAnswer'
  BY DEF TypeOK, WaitsRegistered, OwnAnswer, BackendStarts, BackendRegisters,
     BackendSubscribes, BackendListens,
     SenderWakes, bck, conn, evt, call, history
<1> QED
  BY <1>1, <1>2, <1>3, <1>4, <1>5, <1>6

(* The backend takes a request.                                             *)
LEMMA BackendTakesInv ==
  ASSUME CallsInv, NEW n \in requests, BackendTakes(n)
  PROVE  CallsInv'
<1> USE BoundsAssumption DEF CallsInv, IsActive, OnTheWay
<1>1. TypeOK'
  BY DEF TypeOK, BackendTakes, bck, conn, evt, call, history, Phases, Events, Places, Statuses
<1>2. Numbered'
  BY DEF TypeOK, Numbered, BackendTakes, bck, conn, evt, call, history
<1>3. EventsKnown'
  BY DEF TypeOK, EventsKnown, BackendTakes, bck, conn, evt, call, history
<1>4. CallersApart' /\ ReturnedOnce'
  BY DEF CallersApart, ReturnedOnce, BackendTakes, bck, conn, evt, call, history
<1>5. OwnOrMixed'
  BY DEF TypeOK, Numbered, OwnOrMixed, BackendTakes, bck, conn, evt, call, history
<1>6. WaitsRegistered' /\ OwnAnswer'
  BY DEF TypeOK, WaitsRegistered, OwnAnswer, BackendTakes, bck, conn, evt, call, history
<1> QED
  BY <1>1, <1>2, <1>3, <1>4, <1>5, <1>6

(* The backend runs its function.                                           *)
LEMMA BackendRunsInv ==
  ASSUME CallsInv, NEW n \in tasks, NEW r \in Returns, BackendRuns(n, r)
  PROVE  CallsInv'
<1> USE BoundsAssumption DEF CallsInv, IsActive, OnTheWay
<1>1. TypeOK'
  BY DEF TypeOK, BackendRuns, Runs, bck, conn, evt, call, history, Phases, Events, Places, Statuses
<1>2. Numbered'
  BY DEF TypeOK, Numbered, BackendRuns, Runs, bck, conn, evt, call, history
<1>3. EventsKnown'
  BY DEF TypeOK, EventsKnown, BackendRuns, Runs, bck, conn, evt, call, history
<1>4. CallersApart' /\ ReturnedOnce'
  BY DEF CallersApart, ReturnedOnce, BackendRuns, Runs, bck, conn, evt, call, history
<1>5. OwnOrMixed'
  <2>1. OnTheWay' \subseteq OnTheWay
    BY DEF BackendRuns, Runs
  <2>2. caller' = caller /\ response' = response /\ mixed' = mixed
    BY DEF BackendRuns, call, history
  <2> QED
    BY <2>1, <2>2 DEF OwnOrMixed
<1>6. WaitsRegistered' /\ OwnAnswer'
  BY DEF TypeOK, WaitsRegistered, OwnAnswer, BackendRuns, Runs, bck, conn, evt, call, history
<1> QED
  BY <1>1, <1>2, <1>3, <1>4, <1>5, <1>6

(* The backend goes: nothing is on its way that was not before.             *)
LEMMA BackendDiesInv ==
  ASSUME CallsInv, BackendDies
  PROVE  CallsInv'
<1> USE BoundsAssumption DEF CallsInv, IsActive
<1>1. /\ OnTheWay' \subseteq OnTheWay
      /\ answers' \subseteq answers /\ tasks' = {} /\ requests' = {}
  BY DEF BackendDies, OnTheWay
<1>2. /\ caller' = caller /\ response' = response /\ result' = result /\ calls' = calls
      /\ callback' = callback /\ registered' = registered /\ subscribed' = subscribed
      /\ mixed' = mixed /\ relayed' = relayed /\ link' = link /\ route' = route
      /\ sessions' = sessions /\ backend' = "off" /\ awake' = FALSE
  BY DEF BackendDies, call
<1>3. lost' \subseteq 1 .. MaxCalls
  BY DEF BackendDies, TypeOK
<1>4. TypeOK'
  BY <1>1, <1>2, <1>3 DEF TypeOK, Phases
<1>5. Numbered' /\ EventsKnown' /\ CallersApart' /\ ReturnedOnce' /\ OwnOrMixed'
  BY <1>1, <1>2 DEF Numbered, EventsKnown, CallersApart, ReturnedOnce, OwnOrMixed
<1>6. WaitsRegistered' /\ OwnAnswer'
  BY <1>2 DEF WaitsRegistered, OwnAnswer
<1> QED
  BY <1>4, <1>5, <1>6

(* The server learns of a session's client, and that it is gone.            *)
LEMMA ServerLearnsInv ==
  ASSUME CallsInv, NEW s \in 1 .. MaxSessions, ServerMeets(s) \/ ServerNotices(s)
  PROVE  CallsInv'
<1> USE DEF IsActive, OnTheWay
<1>1. /\ TypeOK /\ Numbered /\ EventsKnown /\ CallersApart /\ ReturnedOnce /\ OwnOrMixed
      /\ WaitsRegistered /\ OwnAnswer
  BY DEF CallsInv
<1>2. /\ backend' = backend /\ sessions' = sessions /\ tasks' = tasks /\ registered' = registered
      /\ requests' = requests /\ answers' = answers /\ callback' = callback /\ calls' = calls
      /\ caller' = caller /\ response' = response /\ result' = result
      /\ mixed' = mixed /\ lost' = lost /\ relayed' = relayed
  BY DEF ServerMeets, ServerNotices, bck, evt, call, history
<1>3. subscribed' \in BOOLEAN /\ EventsKnown'
  <2>1. subscribed \in BOOLEAN
    BY <1>1 DEF TypeOK
  <2>2. CASE subscribed' = subscribed
    BY <1>1, <1>2, <2>1, <2>2 DEF EventsKnown
  <2>3. CASE subscribed' = FALSE
    BY <1>1, <1>2, <2>3 DEF EventsKnown
  <2>4. subscribed' = subscribed \/ subscribed' = FALSE
    BY DEF ServerMeets, ServerNotices, evt
  <2> QED
    BY <2>2, <2>3, <2>4
<1>4. link' \in [1 .. MaxSessions -> Links]
  BY <1>1 DEF TypeOK, ServerMeets, ServerNotices, Links
<1>5. route' \in 0 .. MaxSessions /\ awake' \in BOOLEAN
  BY <1>1, BoundsAssumption DEF TypeOK, ServerMeets, ServerNotices
<1>6. TypeOK'
  BY <1>1, <1>2, <1>3, <1>4, <1>5 DEF TypeOK
<1>7. Numbered' /\ CallersApart' /\ ReturnedOnce' /\ OwnOrMixed'
  BY <1>1, <1>2 DEF Numbered, CallersApart, ReturnedOnce, OwnOrMixed
<1>8. WaitsRegistered' /\ OwnAnswer'
  BY <1>1, <1>2 DEF WaitsRegistered, OwnAnswer
<1> QED
  BY <1>3, <1>6, <1>7, <1>8 DEF CallsInv

(* A call that returns, with status s and answer m, leaves the others alone. *)
LEMMA CallLeavesInv ==
  ASSUME CallsInv, NEW c \in Callers, NEW n \in 1 .. MaxCalls, NEW s \in Statuses,
         NEW m \in 0 .. MaxCalls,
         calls' \in calls .. MaxCalls, n <= calls',
         \A u \in Callers : IsActive(u) /\ u # c => caller[u].call # n,
         caller' = [caller EXCEPT ![c] = [at |-> "idle", call |-> 0]],
         result' = [result EXCEPT ![c] = [call |-> n, status |-> s, answer |-> m]],
         s = "OK" <=> m # 0,
         s = "OK" => m = n \/ n \in mixed,
         UNCHANGED <<bck, conn, evt, callback, response, history>>
  PROVE  CallsInv'
<1> USE BoundsAssumption
<1>1. /\ TypeOK /\ Numbered /\ EventsKnown /\ CallersApart /\ ReturnedOnce /\ OwnOrMixed
      /\ WaitsRegistered /\ OwnAnswer
  BY DEF CallsInv
<1>2. /\ ~ IsActive(c)' /\ caller'[c].at = "idle"
      /\ \A u \in Callers : u # c => caller'[u] = caller[u] /\ result'[u] = result[u]
      /\ result'[c] = [call |-> n, status |-> s, answer |-> m]
  BY <1>1 DEF TypeOK, IsActive
<1>3. /\ backend' = backend /\ sessions' = sessions /\ tasks' = tasks
      /\ registered' = registered /\ subscribed' = subscribed
      /\ requests' = requests /\ answers' = answers /\ callback' = callback
      /\ response' = response /\ mixed' = mixed /\ lost' = lost /\ relayed' = relayed
      /\ link' = link /\ route' = route /\ awake' = awake
  BY DEF bck, conn, evt, history
<1>4. OnTheWay' = OnTheWay
  BY <1>3 DEF OnTheWay
<1>5. calls \in Nat /\ calls' \in 0 .. MaxCalls /\ calls <= calls'
  BY <1>1 DEF TypeOK
<1>6. TypeOK'
  <2>1. "idle" \in Places /\ 0 \in 0 .. MaxCalls /\ n \in 0 .. MaxCalls
    BY DEF Places
  <2>2. caller' \in [Callers -> [at : Places, call : 0 .. MaxCalls]]
    BY <1>1, <2>1 DEF TypeOK
  <2>3. result' \in [Callers -> [call : 0 .. MaxCalls, status : Statuses, answer : 0 .. MaxCalls]]
    BY <1>1, <2>1 DEF TypeOK
  <2>4. \A u \in Callers : result'[u].status = "OK" <=> result'[u].answer # 0
    BY <1>1, <1>2 DEF TypeOK
  <2> QED
    BY <1>1, <1>3, <1>5, <2>2, <2>3, <2>4 DEF TypeOK
<1>7. Numbered'
  <2>1. \A u \in Callers : result'[u].call <= calls'
    <3> TAKE u \in Callers
    <3>1. result[u].call <= calls /\ result[u].call \in Nat
      BY <1>1 DEF Numbered, TypeOK
    <3> QED
      BY <1>2, <1>5, <3>1
  <2>2. \A u \in Callers : IsActive(u)' => caller'[u].call \in 1 .. calls'
    BY <1>1, <1>2, <1>5 DEF Numbered, IsActive
  <2>3. OnTheWay' \subseteq 1 .. calls' /\ callback' <= calls'
    BY <1>1, <1>3, <1>4, <1>5 DEF Numbered, TypeOK
  <2>4. \A k \in 1 .. MaxCalls : k > calls' => response'[k] = 0
    BY <1>1, <1>3, <1>5 DEF Numbered
  <2> QED
    BY <2>1, <2>2, <2>3, <2>4 DEF Numbered
<1>8. EventsKnown' /\ CallersApart'
  BY <1>1, <1>2, <1>3 DEF EventsKnown, CallersApart, IsActive
<1>9. ReturnedOnce'
  BY <1>1, <1>2 DEF ReturnedOnce, IsActive
<1>10. OwnOrMixed' /\ WaitsRegistered'
  BY <1>1, <1>2, <1>3, <1>4 DEF OwnOrMixed, WaitsRegistered, IsActive
<1>11. OwnAnswer'
  BY <1>1, <1>2, <1>3 DEF OwnAnswer
<1> QED
  BY <1>6, <1>7, <1>8, <1>9, <1>10, <1>11 DEF CallsInv

(* A call is refused: its number is used up.                                *)
LEMMA CallRefusedInv ==
  ASSUME CallsInv, NEW c \in Callers, CallRefused(c)
  PROVE  CallsInv'
<1> DEFINE s == IF "rpc" \notin registered THEN "NO_SUCH_BACKEND" ELSE "EMIT_FAILED"
<1>1. calls \in 0 .. MaxCalls /\ calls < MaxCalls /\ calls' = calls + 1
  BY DEF CallsInv, TypeOK, CallRefused
<1>2. calls' \in 1 .. MaxCalls /\ calls' \in calls .. MaxCalls
  BY <1>1, BoundsAssumption
<1>3. \A u \in Callers : IsActive(u) /\ u # c => caller[u].call # calls'
  BY <1>1 DEF CallsInv, Numbered
<1>4. s \in Statuses /\ s # "OK"
  BY DEF Statuses
<1>5. /\ caller' = [caller EXCEPT ![c] = [at |-> "idle", call |-> 0]]
      /\ result' = [result EXCEPT ![c] = [call |-> calls', status |-> s, answer |-> 0]]
      /\ UNCHANGED <<bck, conn, evt, callback, response, history>>
  BY DEF CallRefused, Returned
<1> HIDE DEF s
<1>6. 0 \in 0 .. MaxCalls /\ calls' <= calls'
  BY <1>2, BoundsAssumption
<1> QED
  BY <1>2, <1>3, <1>4, <1>5, <1>6, CallLeavesInv

(* A call returns or times out.                                             *)
LEMMA CallEndsInv ==
  ASSUME CallsInv, NEW c \in Callers, CallReturns(c) \/ CallTimesOut(c)
  PROVE  CallsInv'
<1> DEFINE n == caller[c].call
<1>1. IsActive(c) /\ calls' = calls /\ calls \in 0 .. MaxCalls
  BY DEF CallsInv, TypeOK, CallReturns, CallTimesOut, IsActive
<1>2. n \in 1 .. MaxCalls /\ n <= calls' /\ calls' \in calls .. MaxCalls
  BY <1>1, BoundsAssumption DEF CallsInv, Numbered
<1>3. \A u \in Callers : IsActive(u) /\ u # c => caller[u].call # n
  BY <1>1 DEF CallsInv, CallersApart
<1>4. caller' = [caller EXCEPT ![c] = [at |-> "idle", call |-> 0]]
      /\ UNCHANGED <<bck, conn, evt, callback, response, history>>
  BY DEF CallReturns, CallTimesOut, Returned
<1>5. CASE CallReturns(c)
  <2>1. response[n] \in 0 .. MaxCalls /\ response[n] # 0
    BY <1>2, <1>5 DEF CallsInv, TypeOK, CallReturns, Proceeds
  <2>2. response[n] = n \/ n \in mixed
    BY <1>1, <2>1 DEF CallsInv, OwnOrMixed
  <2>3. result' = [result EXCEPT ![c] = [call |-> n, status |-> "OK", answer |-> response[n]]]
    BY <1>5 DEF CallReturns
  <2>4. "OK" \in Statuses
    BY DEF Statuses
  <2> HIDE DEF n
  <2> QED
    BY <1>2, <1>3, <1>4, <2>1, <2>2, <2>3, <2>4, CallLeavesInv
<1>6. CASE CallTimesOut(c)
  <2>1. result' = [result EXCEPT ![c] = [call |-> n, status |-> "RESPONSE_TIMEOUT", answer |-> 0]]
    BY <1>6 DEF CallTimesOut, Returned
  <2>2. "RESPONSE_TIMEOUT" \in Statuses /\ 0 \in 0 .. MaxCalls /\ "RESPONSE_TIMEOUT" # "OK"
    BY BoundsAssumption DEF Statuses
  <2> HIDE DEF n
  <2> QED
    BY <1>2, <1>3, <1>4, <2>1, <2>2, CallLeavesInv
<1> QED
  BY <1>5, <1>6

(* A call is emitted: what is active or on its way overlaps it.             *)
LEMMA CallEmitsInv ==
  ASSUME CallsInv, NEW c \in Callers, CallEmits(c)
  PROVE  CallsInv'
<1> USE BoundsAssumption
<1>1. /\ TypeOK /\ Numbered /\ EventsKnown /\ CallersApart /\ ReturnedOnce /\ OwnOrMixed
      /\ WaitsRegistered /\ OwnAnswer
  BY DEF CallsInv
<1>2. /\ calls \in 0 .. MaxCalls /\ calls' = calls + 1 /\ calls' \in 1 .. MaxCalls
      /\ calls' \in Nat /\ calls \in Nat
  BY <1>1 DEF TypeOK, CallEmits
<1>3. /\ ~ IsActive(c) /\ IsActive(c)'
      /\ caller' = [caller EXCEPT ![c] = [at |-> "emitted", call |-> calls']]
      /\ caller'[c] = [at |-> "emitted", call |-> calls']
      /\ \A u \in Callers : u # c => caller'[u] = caller[u]
  BY <1>1 DEF TypeOK, CallEmits, IsActive
<1>4. /\ backend' = backend /\ sessions' = sessions /\ tasks' = tasks
      /\ registered' = registered /\ subscribed' = subscribed /\ subscribed
      /\ requests' \subseteq requests \cup {calls'} /\ lost' \subseteq lost \cup {calls'}
      /\ answers' = answers /\ callback' = callback
      /\ response' = response /\ result' = result /\ relayed' = relayed
      /\ link' = link /\ route' = route /\ awake' = awake
  BY DEF CallEmits, bck, conn
<1>5. OnTheWay' \subseteq OnTheWay \cup {calls'}
  BY <1>4 DEF OnTheWay
<1>6. /\ mixed \subseteq mixed'
      /\ OnTheWay # {} => calls' \in mixed'
      /\ \A u \in Callers : IsActive(u) => calls' \in mixed' /\ caller[u].call \in mixed'
  BY DEF CallEmits, Active, IsActive
<1>7. mixed' \subseteq 1 .. MaxCalls
  <2>1. \A u \in Active : caller[u].call \in 1 .. MaxCalls
    BY <1>1, <1>2 DEF Numbered, Active, IsActive
  <2>2. mixed \subseteq 1 .. MaxCalls
    BY <1>1 DEF TypeOK
  <2> QED
    BY <1>2, <2>1, <2>2 DEF CallEmits
<1>8. TypeOK'
  <2>1. caller' \in [Callers -> [at : Places, call : 0 .. MaxCalls]]
    <3>1. "emitted" \in Places /\ calls' \in 0 .. MaxCalls
      BY <1>2 DEF Places
    <3> QED
      BY <1>1, <1>3, <3>1 DEF TypeOK
  <2>2. requests' \subseteq 1 .. MaxCalls
    BY <1>1, <1>2, <1>4 DEF TypeOK
  <2>3. calls' \in 0 .. MaxCalls
    BY <1>2
  <2>4. requests' \cup tasks' \cup mixed' \cup lost' \cup relayed' \subseteq 1 .. MaxCalls
    BY <1>1, <1>2, <1>4, <1>7, <2>2 DEF TypeOK
  <2> QED
    BY <1>1, <1>4, <2>1, <2>3, <2>4 DEF TypeOK
<1>9. Numbered'
  <2>1. \A u \in Callers : result'[u].call <= calls'
    BY <1>1, <1>2, <1>4 DEF Numbered, TypeOK
  <2>2. \A u \in Callers : IsActive(u)' => caller'[u].call \in 1 .. calls'
    BY <1>1, <1>2, <1>3 DEF Numbered, IsActive
  <2>3. OnTheWay' \subseteq 1 .. calls' /\ callback' <= calls'
    BY <1>1, <1>2, <1>4, <1>5 DEF Numbered, TypeOK
  <2>4. \A k \in 1 .. MaxCalls : k > calls' => response'[k] = 0
    BY <1>1, <1>2, <1>4 DEF Numbered
  <2> QED
    BY <2>1, <2>2, <2>3, <2>4 DEF Numbered
<1>10. EventsKnown'
  BY <1>1, <1>3, <1>4 DEF EventsKnown, IsActive
<1>11. \A u \in Callers : IsActive(u) => u # c /\ caller[u].call # calls'
  BY <1>1, <1>2, <1>3 DEF Numbered
<1>12. CallersApart'
  BY <1>1, <1>3, <1>6, <1>11 DEF CallersApart, IsActive
<1>13. ReturnedOnce'
  <2>1. \A u \in Callers : result[u].call # calls'
    BY <1>1, <1>2 DEF Numbered, TypeOK
  <2> QED
    BY <1>1, <1>3, <1>4, <2>1 DEF ReturnedOnce, IsActive
<1>14. OwnOrMixed'
  <2>1. response'[calls'] = 0
    BY <1>1, <1>2, <1>4 DEF Numbered
  <2>2. ASSUME NEW u \in Callers, IsActive(u)'
        PROVE  /\ \A k \in OnTheWay' : k = caller'[u].call \/ caller'[u].call \in mixed'
               /\ response'[caller'[u].call] \in {0, caller'[u].call} \/ caller'[u].call \in mixed'
    <3>1. CASE u = c
      BY <1>3, <1>5, <1>6, <2>1, <3>1
    <3>2. CASE u # c
      <4>1. IsActive(u) /\ caller'[u] = caller[u]
        BY <1>3, <2>2, <3>2 DEF IsActive
      <4> QED
        BY <1>6, <4>1
    <3> QED
      BY <3>1, <3>2
  <2> QED
    BY <2>2 DEF OwnOrMixed
<1>15. WaitsRegistered' /\ OwnAnswer'
  <2>1. \A u \in Callers : caller'[u].at = "waiting" => u # c /\ caller'[u] = caller[u]
    BY <1>3
  <2> QED
    BY <1>1, <1>4, <1>6, <2>1 DEF WaitsRegistered, OwnAnswer
<1> QED
  BY <1>8, <1>9, <1>10, <1>12, <1>13, <1>14, <1>15 DEF CallsInv

(* A call puts its callback in place of that of another active call.        *)
LEMMA CallRegistersInv ==
  ASSUME CallsInv, NEW c \in Callers, CallRegisters(c)
  PROVE  CallsInv'
<1> USE BoundsAssumption
<1>1. /\ TypeOK /\ Numbered /\ EventsKnown /\ CallersApart /\ ReturnedOnce /\ OwnOrMixed
      /\ WaitsRegistered /\ OwnAnswer
  BY DEF CallsInv
<1>2. /\ IsActive(c) /\ caller[c].at = "emitted"
      /\ caller' = [caller EXCEPT ![c].at = "waiting"]
      /\ \A u \in Callers : u # c => caller'[u] = caller[u]
      /\ \A u \in Callers : caller'[u].call = caller[u].call /\ (IsActive(u)' <=> IsActive(u))
  BY <1>1 DEF TypeOK, CallRegisters, IsActive
<1>3. callback' = caller[c].call /\ callback' \in 1 .. calls
  BY <1>1, <1>2 DEF CallRegisters, EventsKnown, Numbered
<1>4. /\ backend' = backend /\ sessions' = sessions /\ tasks' = tasks
      /\ registered' = registered /\ subscribed' = subscribed /\ calls' = calls
      /\ requests' = requests /\ answers' = answers /\ mixed' = mixed
      /\ response' = response /\ result' = result /\ lost' = lost /\ relayed' = relayed
      /\ link' = link /\ route' = route /\ awake' = awake
  BY DEF CallRegisters, bck, conn, evt, history
<1>5. OnTheWay' = OnTheWay
  BY <1>4 DEF OnTheWay
<1>6. TypeOK'
  <2>1. caller' \in [Callers -> [at : Places, call : 0 .. MaxCalls]]
    BY <1>1, <1>2 DEF TypeOK, Places
  <2>2. callback' \in 0 .. MaxCalls
    BY <1>1, <1>3 DEF TypeOK
  <2> QED
    BY <1>1, <1>4, <2>1, <2>2 DEF TypeOK
<1>7. Numbered'
  <2>1. callback' <= calls'
    BY <1>1, <1>3, <1>4 DEF TypeOK
  <2> QED
    BY <1>1, <1>2, <1>4, <1>5, <2>1 DEF Numbered
<1>8. EventsKnown' /\ CallersApart' /\ ReturnedOnce' /\ OwnOrMixed'
  BY <1>1, <1>2, <1>4, <1>5 DEF EventsKnown, CallersApart, ReturnedOnce, OwnOrMixed
<1>9. WaitsRegistered'
  <2>1. ASSUME NEW u \in Callers, u # c, caller'[u].at = "waiting"
        PROVE  callback' # 0 /\ callback' \in mixed' /\ caller'[u].call \in mixed'
    <3>1. IsActive(u)
      BY <1>2, <2>1 DEF IsActive
    <3>2. caller[c].call \in mixed /\ caller[u].call \in mixed
      BY <1>1, <1>2, <2>1, <3>1 DEF CallersApart
    <3> QED
      BY <1>1, <1>2, <1>3, <1>4, <3>2 DEF TypeOK
  <2> QED
    BY <1>2, <1>3, <2>1 DEF WaitsRegistered
<1>10. OwnAnswer'
  BY <1>1, <1>4 DEF OwnAnswer
<1> QED
  BY <1>6, <1>7, <1>8, <1>9, <1>10 DEF CallsInv

(* An answer is given to the callback that is there.                        *)
LEMMA ServerRelaysInv ==
  ASSUME CallsInv, NEW a \in answers, ServerRelays(a)
  PROVE  CallsInv'
<1> USE BoundsAssumption
<1>1. /\ TypeOK /\ Numbered /\ EventsKnown /\ CallersApart /\ ReturnedOnce /\ OwnOrMixed
      /\ WaitsRegistered /\ OwnAnswer
  BY DEF CallsInv
<1>2. /\ backend' = backend /\ sessions' = sessions /\ tasks' = tasks
      /\ registered' = registered /\ subscribed' = subscribed /\ calls' = calls
      /\ requests' = requests /\ callback' = callback /\ mixed' = mixed
      /\ caller' = caller /\ result' = result /\ answers' \subseteq answers
      /\ link' = link /\ route' = route /\ awake' = awake
  BY DEF ServerRelays, bck, conn
<1>3. a.call \in OnTheWay /\ a.call \in 1 .. calls /\ a.call \in 1 .. MaxCalls
  BY <1>1 DEF OnTheWay, Numbered, TypeOK
<1>4. OnTheWay' \subseteq OnTheWay
  BY <1>2 DEF OnTheWay
<1>5. /\ response' \in [1 .. MaxCalls -> 0 .. MaxCalls]
      /\ \A n \in 1 .. MaxCalls : response'[n] = response[n] \/ (n = callback /\ response'[n] = a.call)
  <2>1. /\ response \in [1 .. MaxCalls -> 0 .. MaxCalls] /\ callback \in 0 .. MaxCalls
        /\ a.call \in 0 .. MaxCalls
    BY <1>1, <1>3 DEF TypeOK
  <2>2. \/ response' = response
        \/ callback # 0 /\ response' = [response EXCEPT ![callback] = a.call]
    <3>1. CASE callback # 0 /\ a.returns = "value"
      BY <3>1 DEF ServerRelays, Responded
    <3>2. CASE ~ (callback # 0 /\ a.returns = "value")
      BY <3>2 DEF ServerRelays
    <3> QED
      BY <3>1, <3>2
  <2>3. CASE response' = response
    BY <2>1, <2>3
  <2>4. CASE callback # 0 /\ response' = [response EXCEPT ![callback] = a.call]
    <3>1. callback \in 1 .. MaxCalls
      BY <2>1, <2>4
    <3>2. \A n \in 1 .. MaxCalls : response'[n] = IF n = callback THEN a.call ELSE response[n]
      BY <2>1, <2>4, <3>1
    <3>3. response' \in [1 .. MaxCalls -> 0 .. MaxCalls]
      BY <2>1, <2>4
    <3> QED
      BY <3>2, <3>3
  <2> QED
    BY <2>2, <2>3, <2>4
<1>6. TypeOK'
  <2>1. lost' \subseteq 1 .. MaxCalls /\ relayed' \subseteq 1 .. MaxCalls
    BY <1>1, <1>3 DEF TypeOK, ServerRelays
  <2> QED
    BY <1>1, <1>2, <1>5, <2>1 DEF TypeOK
<1>7. Numbered'
  <2>1. \A n \in 1 .. MaxCalls : n > calls' => response'[n] = 0
    BY <1>1, <1>2, <1>5 DEF Numbered, TypeOK
  <2> QED
    BY <1>1, <1>2, <1>4, <2>1 DEF Numbered, IsActive
<1>8. EventsKnown' /\ CallersApart' /\ ReturnedOnce'
  BY <1>1, <1>2 DEF EventsKnown, CallersApart, ReturnedOnce, IsActive
<1>9. OwnOrMixed'
  <2>1. ASSUME NEW u \in Callers, IsActive(u)
        PROVE  response'[caller[u].call] \in {0, caller[u].call} \/ caller[u].call \in mixed
    <3>1. caller[u].call \in 1 .. MaxCalls
      BY <1>1, <2>1 DEF Numbered, TypeOK
    <3>2. a.call = caller[u].call \/ caller[u].call \in mixed
      BY <1>1, <1>3, <2>1 DEF OwnOrMixed
    <3> QED
      BY <1>1, <1>5, <2>1, <3>1, <3>2 DEF OwnOrMixed
  <2> QED
    BY <1>1, <1>2, <1>4, <2>1 DEF OwnOrMixed, IsActive
<1>10. WaitsRegistered' /\ OwnAnswer'
  BY <1>1, <1>2 DEF WaitsRegistered, OwnAnswer
<1> QED
  BY <1>6, <1>7, <1>8, <1>9, <1>10 DEF CallsInv

(* A step that changes nothing.                                             *)
LEMMA StutterCallsInv ==
  ASSUME CallsInv, UNCHANGED vars
  PROVE  CallsInv'
BY DEF CallsInv, vars, bck, conn, evt, call, history, TypeOK, Numbered, EventsKnown, CallersApart,
       ReturnedOnce, OwnOrMixed, WaitsRegistered, OwnAnswer, IsActive, OnTheWay

LEMMA StepCallsInv == CallsInv /\ [Next]_vars => CallsInv'
<1> SUFFICES ASSUME CallsInv, [Next]_vars PROVE CallsInv'
  OBVIOUS
<1>1. CASE Backend
  BY <1>1, BackendComesInv, BackendTakesInv, BackendRunsInv DEF Backend
<1>2. CASE BackendStarts \/ BackendDies \/ SenderWakes \/ Server
  BY <1>2, BackendComesInv, BackendDiesInv, ServerLearnsInv, ServerRelaysInv DEF Server
<1>3. ASSUME NEW c \in Callers,
             CallRefused(c) \/ CallEmits(c) \/ CallRegisters(c) \/ CallReturns(c) \/ CallTimesOut(c)
      PROVE  CallsInv'
  BY <1>3, CallRefusedInv, CallEmitsInv, CallRegistersInv, CallEndsInv
<1>4. CASE UNCHANGED vars
  BY <1>4, StutterCallsInv
<1> QED
  BY <1>1, <1>2, <1>3, <1>4 DEF Next

(* CallsInv always holds, for any number of callers, calls and sessions.    *)
THEOREM CallsInvariant == Spec => []CallsInv
<1> QED
  BY InitCallsInv, StepCallsInv, PTL DEF Spec

(* Who waits in BckCallUserRpc can be found by an answer, and a call that    *)
(* overlaps no other is given its own answer.                               *)
THEOREM WaitsAreSound == Spec => []WaitsSound
<1>1. CallsInv => WaitsSound
  BY DEF CallsInv, WaitsSound
<1> QED
  BY <1>1, CallsInvariant, PTL

-----------------------------------------------------------------------------
LEMMA InitRelayedInv == Init => RelayedInv
BY DEF Init, RelayedInv, AnsweredIsOk

(* Only the answer that a waiting caller's own callback takes makes a call  *)
(* one that was relayed, and only a call without a response times out.      *)
LEMMA StepRelayedInv ==
  ASSUME Returns = {"value"}, CallsInv, RelayedInv, [Next]_vars
  PROVE  RelayedInv'
<1>1. TypeOK /\ Numbered /\ ReturnedOnce
  BY DEF CallsInv
<1>2. ASSUME NEW c \in Callers, CallRefused(c)
      PROVE  RelayedInv'
  <2>1. relayed' = relayed /\ response' = response
        /\ \A u \in Callers : result'[u].status = "RESPONSE_TIMEOUT" => result'[u] = result[u]
    BY <1>1, <1>2 DEF CallRefused, Returned, history, TypeOK
  <2> QED
    BY <2>1 DEF RelayedInv, AnsweredIsOk
<1>3. ASSUME NEW c \in Callers, CallReturns(c) \/ CallTimesOut(c)
      PROVE  RelayedInv'
  <2>1. /\ relayed' = relayed /\ response' = response
        /\ \A u \in Callers : result'[u].status = "RESPONSE_TIMEOUT" =>
             result'[u] = result[u] \/ response[result'[u].call] = 0
    BY <1>1, <1>3 DEF CallReturns, CallTimesOut, Returned, Proceeds, history, TypeOK
  <2> QED
    BY <2>1 DEF RelayedInv, AnsweredIsOk
<1>4. ASSUME NEW a \in answers, ServerRelays(a)
      PROVE  RelayedInv'
  <2>1. a.returns = "value" /\ a.call \in 1 .. MaxCalls
    BY <1>1 DEF TypeOK
  <2>2. \A n \in 1 .. MaxCalls : response[n] # 0 => response'[n] # 0
    BY <1>1, <1>4, <2>1 DEF TypeOK, ServerRelays, Responded
  <2>3. \A n \in relayed' : n \in relayed
                           \/ /\ n = a.call /\ callback = n
                              /\ \E c \in Callers : caller[c] = [at |-> "waiting", call |-> n]
    BY <1>4 DEF ServerRelays
  <2>4. callback = a.call => response'[a.call] # 0
    BY <1>1, <1>4, <2>1 DEF TypeOK, ServerRelays, Responded
  <2>5. \A n \in relayed' : response'[n] # 0
    BY <1>1, <2>2, <2>3, <2>4 DEF RelayedInv, TypeOK
  <2>6. \A u \in Callers : result[u].status = "RESPONSE_TIMEOUT" => result[u].call \notin relayed'
    <3> TAKE u \in Callers
    <3> HAVE result[u].status = "RESPONSE_TIMEOUT"
    <3>1. result[u].call \notin relayed
      BY DEF RelayedInv, AnsweredIsOk
    <3>2. ASSUME NEW c \in Callers, caller[c] = [at |-> "waiting", call |-> result[u].call]
          PROVE  FALSE
      BY <1>1, <3>2 DEF ReturnedOnce, IsActive
    <3> QED
      BY <2>3, <3>1, <3>2
  <2>7. result' = result
    BY <1>4 DEF ServerRelays
  <2> QED
    BY <2>5, <2>6, <2>7 DEF RelayedInv, AnsweredIsOk
<1>5. ASSUME UNCHANGED <<relayed, response, result>>
      PROVE  RelayedInv'
  BY <1>5 DEF RelayedInv, AnsweredIsOk
<1>6. CASE \/ Backend \/ BackendStarts \/ BackendDies \/ SenderWakes \/ UNCHANGED vars
           \/ \E s \in 1 .. MaxSessions : ServerMeets(s) \/ ServerNotices(s)
  <2>1. UNCHANGED <<relayed, response, result>>
    BY <1>6 DEF Backend, BackendStarts, BackendRegisters, BackendSubscribes, BackendListens,
                SenderWakes, BackendTakes, BackendRuns, BackendDies, ServerMeets, ServerNotices,
                vars, call, history
  <2> QED
    BY <1>5, <2>1
<1>7. ASSUME NEW c \in Callers, CallEmits(c) \/ CallRegisters(c)
      PROVE  RelayedInv'
  <2>1. UNCHANGED <<relayed, response, result>>
    BY <1>7 DEF CallEmits, CallRegisters, history
  <2> QED
    BY <1>5, <2>1
<1> QED
  BY <1>2, <1>3, <1>4, <1>6, <1>7 DEF Next, Server

(* When user functions return values, a call whose answer came while it     *)
(* waited does not end in a time-out (BckCallUserRpc).                      *)
THEOREM AnsweredCallsSucceed ==
  ASSUME Returns = {"value"}
  PROVE  Spec => []AnsweredIsOk
<1>1. RelayedInv => AnsweredIsOk
  BY DEF RelayedInv
<1> QED
  BY <1>1, CallsInvariant, InitRelayedInv, StepRelayedInv, PTL DEF Spec
=============================================================================
