---------------------------- MODULE EvtServer_proofs ----------------------------
(***************************************************************************)
(* Proofs about EvtServer, for any clients, events and number of sessions. *)
(*                                                                         *)
(* A client's entries in the tables are not tied to the client but to the  *)
(* listen threads of its sessions: what the tables hold of a client that   *)
(* never died in a call, some thread of it has yet to take out             *)
(* (EntriesHeld).  A client that came back only after the server forgot it *)
(* has a single thread, that of its last session (SessionsSound), so the   *)
(* thread that takes entries out never does so to a client that is alive.  *)
(***************************************************************************)
EXTENDS EvtServer, TLAPS

(* The first half of ConnectedRight; the second follows from FlagsHeld.     *)
Shown ==
  \A c \in alive \ (Ghosts \cup overlapped) : Meta \notin unread[Conn(c)] => connected[c] = "yes"

(* The inductive invariant.                                                 *)
ServerInv ==
  /\ TypeOK
  /\ SessionsSound
  /\ EntriesHeld
  /\ SubscribersCounted
  /\ Shown
  /\ OrderlyKeepSubscriptions

------------------------------------------------------------------------------
(* A connection is a pair of a client and the number of its session.        *)
LEMMA ConnFacts ==
  /\ \A x \in Conns : /\ x[1] \in Clients /\ x[2] \in 1 .. MaxSessions /\ x[2] \in Nat
                      /\ x = <<x[1], x[2]>>
  /\ \A c \in Clients, n \in 1 .. MaxSessions :
       <<c, n>> \in Conns /\ <<c, n>>[1] = c /\ <<c, n>>[2] = n
BY DEF Conns

(* Taking a client out of the subscribers of an event, and out of its       *)
(* statistics if it was one.                                                *)
LEMMA WithoutSubFacts ==
  ASSUME TypeOK, NEW c \in Clients, NEW e \in Events, WithoutSub(c, e)
  PROVE  /\ subs' \in [Events -> SUBSET Clients]
         /\ stats' \in [Events \cup {Meta} -> SUBSET Clients]
         /\ \A f \in Events : subs'[f] = IF f = e THEN subs[f] \ {c} ELSE subs[f]
         /\ \A f \in Events :
              stats'[f] = IF f = e /\ c \in subs[e] THEN stats[f] \ {c} ELSE stats[f]
<1>1. CASE c \in subs[e]
  <2>1. /\ subs' = [subs EXCEPT ![e] = subs[e] \ {c}]
        /\ stats' = [stats EXCEPT ![e] = stats[e] \ {c}]
    BY <1>1 DEF WithoutSub
  <2>2. subs' \in [Events -> SUBSET Clients]
    BY <2>1 DEF TypeOK
  <2>3. stats' \in [Events \cup {Meta} -> SUBSET Clients]
    BY <2>1 DEF TypeOK
  <2>4. \A f \in Events : subs'[f] = IF f = e THEN subs[f] \ {c} ELSE subs[f]
    BY <2>1 DEF TypeOK
  <2>5. \A f \in Events :
          stats'[f] = IF f = e /\ c \in subs[e] THEN stats[f] \ {c} ELSE stats[f]
    BY <2>1, <1>1 DEF TypeOK
  <2>6. QED
    BY <2>2, <2>3, <2>4, <2>5
<1>2. CASE c \notin subs[e]
  <2>1. subs' = subs /\ stats' = stats
    BY <1>2 DEF WithoutSub
  <2>2. subs[e] \ {c} = subs[e]
    BY <1>2
  <2>3. QED
    BY <2>1, <2>2, <1>2 DEF TypeOK
<1>3. QED
  BY <1>1, <1>2

(* The only thread of a client that never came back too early is that of    *)
(* its last session, and it reads while the client is alive.                *)
LEMMA LastSession ==
  ASSUME TypeOK, SessionsSound, NEW x \in Conns, x[1] \notin overlapped,
         listen[x] \notin {"none", "gone"}
  PROVE  /\ x = Conn(x[1])
         /\ x[1] \in alive => listen[x] = "fetch"
<1>1. x[1] \in Clients /\ x[2] \in Nat /\ session[x[1]] \in Nat /\ x = <<x[1], x[2]>>
  BY ConnFacts DEF TypeOK
<1>2. ~ (x[2] > session[x[1]])
  BY DEF SessionsSound, UnmadeIdle
<1>3. ~ (x[2] < session[x[1]])
  BY DEF SessionsSound, OthersGone
<1>4. x[2] = session[x[1]]
  BY <1>1, <1>2, <1>3
<1>5. QED
  BY <1>1, <1>4 DEF Conn, SessionsSound, RunningRead

------------------------------------------------------------------------------
(* Each action preserves the invariant.                                     *)
LEMMA ConnectInv ==
  ASSUME ServerInv, NEW c \in Clients, Connect(c)
  PROVE  ServerInv'
<1> USE ServerAssumption, ConnFacts DEF ServerInv, Connect, clientVars, tables, threads, history
<1>1. TypeOK'
  BY DEF TypeOK, ListenStates
<1>2. SessionsSound'
  BY DEF TypeOK, SessionsSound, RunningRead, UnmadeIdle, OthersGone, LateOnRecord, Conn, Over
<1>3. EntriesHeld'
  BY DEF EntriesHeld, EventsKnown, SubscribersHeld, EmittersHeld, FlagsHeld, Holds
<1>4. SubscribersCounted'
  BY DEF SubscribersCounted
<1>5. Shown'
  BY DEF TypeOK, Shown, Conn
<1>6. OrderlyKeepSubscriptions'
  BY DEF TypeOK, OrderlyKeepSubscriptions
<1>7. QED
  BY <1>1, <1>2, <1>3, <1>4, <1>5, <1>6

LEMMA ClientEmitsInv ==
  ASSUME ServerInv, NEW c \in Clients, NEW e \in Events, ClientEmits(c, e)
  PROVE  ServerInv'
<1> USE ServerAssumption, ConnFacts
       DEF ServerInv, ClientEmits, clientVars, tables, threads, history
<1>1. TypeOK'
  BY DEF TypeOK, SessionsSound, RunningRead, Conn
<1>2. SessionsSound'
  BY DEF SessionsSound, RunningRead, UnmadeIdle, OthersGone, LateOnRecord, Conn, Over
<1>3. EntriesHeld'
  BY DEF EntriesHeld, EventsKnown, SubscribersHeld, EmittersHeld, FlagsHeld, Holds
<1>4. SubscribersCounted'
  BY DEF SubscribersCounted
<1>5. Shown'
  BY DEF Shown, Conn
<1>6. OrderlyKeepSubscriptions'
  BY DEF OrderlyKeepSubscriptions
<1>7. QED
  BY <1>1, <1>2, <1>3, <1>4, <1>5, <1>6

LEMMA ClientCallsInv ==
  ASSUME ServerInv, NEW c \in Clients, NEW op \in {"subscribe", "unsubscribe"}, NEW e \in Events,
         ClientCalls(c, op, e)
  PROVE  ServerInv'
<1> USE ServerAssumption, ConnFacts
       DEF ServerInv, ClientCalls, clientVars, tables, threads, history
<1>1. TypeOK'
  BY DEF TypeOK, Calls, SessionsSound, RunningRead, Conn
<1>2. SessionsSound'
  BY DEF SessionsSound, RunningRead, UnmadeIdle, OthersGone, LateOnRecord, Conn, Over
<1>3. EntriesHeld'
  BY DEF EntriesHeld, EventsKnown, SubscribersHeld, EmittersHeld, FlagsHeld, Holds
<1>4. SubscribersCounted'
  BY DEF SubscribersCounted
<1>5. Shown'
  BY DEF Shown, Conn
<1>6. OrderlyKeepSubscriptions'
  BY DEF OrderlyKeepSubscriptions
<1>7. QED
  BY <1>1, <1>2, <1>3, <1>4, <1>5, <1>6

LEMMA ClientDiesInv ==
  ASSUME ServerInv, NEW c \in Clients, ClientDies(c)
  PROVE  ServerInv'
<1> USE ServerAssumption, ConnFacts
       DEF ServerInv, ClientDies, clientVars, tables, threads, history
<1>1. TypeOK'
  BY DEF TypeOK
<1>2. SessionsSound'
  <2>1. RunningRead'
    BY DEF RunningRead, Conn, SessionsSound
  <2>2. (UnmadeIdle /\ OthersGone)'
    BY DEF UnmadeIdle, OthersGone, SessionsSound
  <2>3. LateOnRecord'
    <3> SUFFICES ASSUME NEW x \in Conns, call[x] # NoCall, Over(x)'
                 PROVE  x[1] \in late'
      BY DEF LateOnRecord
    <3>1. CASE Over(x)
      BY <3>1 DEF SessionsSound, LateOnRecord
    <3>2. CASE ~ Over(x)
      <4>1. x[1] = c /\ session[c] = x[2]
        BY <3>2 DEF Over
      <4>2. x = Conn(c)
        BY <4>1 DEF Conn
      <4>3. QED
        BY <4>1, <4>2
    <3>3. QED
      BY <3>1, <3>2
  <2>4. QED
    BY <2>1, <2>2, <2>3 DEF SessionsSound
<1>3. EntriesHeld'
  BY DEF EntriesHeld, EventsKnown, SubscribersHeld, EmittersHeld, FlagsHeld, Holds
<1>4. SubscribersCounted'
  BY DEF SubscribersCounted
<1>5. Shown'
  BY DEF Shown, Conn
<1>6. OrderlyKeepSubscriptions'
  BY DEF OrderlyKeepSubscriptions
<1>7. QED
  BY <1>1, <1>2, <1>3, <1>4, <1>5, <1>6

LEMMA EvtRegisterInv ==
  ASSUME ServerInv, NEW e \in Events, EvtRegister(e)
  PROVE  ServerInv'
<1> USE ServerAssumption, ConnFacts
       DEF ServerInv, EvtRegister, clientVars, tables, threads, history
<1>1. TypeOK'
  BY DEF TypeOK
<1>2. SessionsSound'
  BY DEF SessionsSound, RunningRead, UnmadeIdle, OthersGone, LateOnRecord, Conn, Over
<1>3. EntriesHeld'
  BY DEF EntriesHeld, EventsKnown, SubscribersHeld, EmittersHeld, FlagsHeld, Holds
<1>4. SubscribersCounted'
  BY DEF SubscribersCounted
<1>5. Shown'
  BY DEF Shown, Conn
<1>6. OrderlyKeepSubscriptions'
  BY DEF OrderlyKeepSubscriptions
<1>7. QED
  BY <1>1, <1>2, <1>3, <1>4, <1>5, <1>6

LEMMA EvtSubscribeInv ==
  ASSUME ServerInv, NEW x \in Conns, NEW e \in Events, EvtSubscribe(x, e)
  PROVE  ServerInv'
<1> USE ServerAssumption, ConnFacts
       DEF ServerInv, EvtSubscribe, clientVars, tables, threads, history
<1>1. TypeOK'
  BY DEF TypeOK
<1>2. SessionsSound'
  BY DEF SessionsSound, RunningRead, UnmadeIdle, OthersGone, LateOnRecord, Conn, Over
<1>3. EntriesHeld'
  BY DEF SessionsSound, RunningRead, LateOnRecord, EntriesHeld, EventsKnown, SubscribersHeld,
     EmittersHeld, FlagsHeld, Holds, Conn, Over, NoCall
<1>4. SubscribersCounted'
  BY DEF TypeOK, SubscribersCounted
<1>5. Shown'
  BY DEF Shown, Conn
<1>6. OrderlyKeepSubscriptions'
  BY DEF TypeOK, OrderlyKeepSubscriptions
<1>7. QED
  BY <1>1, <1>2, <1>3, <1>4, <1>5, <1>6

LEMMA EvtUnsubscribeInv ==
  ASSUME ServerInv, NEW x \in Conns, NEW e \in Events, EvtUnsubscribe(x, e)
  PROVE  ServerInv'
<1> USE ServerAssumption, ConnFacts
       DEF ServerInv, EvtUnsubscribe, clientVars, tables, threads, history
<1>0. /\ subs' \in [Events -> SUBSET Clients]
      /\ stats' \in [Events \cup {Meta} -> SUBSET Clients]
      /\ \A f \in Events : subs'[f] = IF f = e THEN subs[f] \ {x[1]} ELSE subs[f]
      /\ \A f \in Events :
           stats'[f] = IF f = e /\ x[1] \in subs[e] THEN stats[f] \ {x[1]} ELSE stats[f]
  BY WithoutSubFacts
<1>1. TypeOK'
  BY <1>0 DEF TypeOK
<1>2. SessionsSound'
  BY DEF SessionsSound, RunningRead, UnmadeIdle, OthersGone, LateOnRecord, Conn, Over
<1>3. EntriesHeld'
  <2>1. EventsKnown'
    <3>1. \A y \in Conns : call'[y] # NoCall => call[y] # NoCall /\ call'[y] = call[y]
      BY DEF TypeOK
    <3>2. \A f \in Events : subs'[f] # {} => subs[f] # {}
      BY <1>0
    <3>3. QED
      BY <3>1, <3>2 DEF EntriesHeld, EventsKnown
  <2>2. SubscribersHeld'
    BY <1>0 DEF SubscribersHeld, Holds, EntriesHeld
  <2>3. EmittersHeld'
    <3>1. \A f \in Events : stats'[f] \subseteq stats[f]
      BY <1>0
    <3>2. QED
      BY <3>1 DEF EntriesHeld, EmittersHeld
  <2>4. FlagsHeld'
    BY DEF EntriesHeld, FlagsHeld
  <2>5. QED
    BY <2>1, <2>2, <2>3, <2>4 DEF EntriesHeld
<1>4. SubscribersCounted'
  BY <1>0 DEF TypeOK, SubscribersCounted
<1>5. Shown'
  BY DEF Shown, Conn
<1>6. OrderlyKeepSubscriptions'
  BY <1>0 DEF TypeOK, SessionsSound, LateOnRecord, OrderlyKeepSubscriptions, NoCall
<1>7. QED
  BY <1>1, <1>2, <1>3, <1>4, <1>5, <1>6

LEMMA ListenEventInv ==
  ASSUME ServerInv, NEW x \in Conns, NEW e \in Events, ListenEvent(x, e)
  PROVE  ServerInv'
<1> USE ServerAssumption, ConnFacts
       DEF ServerInv, ListenEvent, clientVars, tables, threads, history
<1>1. TypeOK'
  BY DEF TypeOK, Push
<1>2. SessionsSound'
  BY DEF SessionsSound, RunningRead, UnmadeIdle, OthersGone, LateOnRecord, Conn, Over
<1>3. EntriesHeld'
  BY DEF EntriesHeld, EventsKnown, SubscribersHeld, EmittersHeld, FlagsHeld, Holds
<1>4. SubscribersCounted'
  BY DEF SubscribersCounted
<1>5. Shown'
  BY DEF Shown, Conn
<1>6. OrderlyKeepSubscriptions'
  BY DEF OrderlyKeepSubscriptions
<1>7. QED
  BY <1>1, <1>2, <1>3, <1>4, <1>5, <1>6

LEMMA ListenMetadataInv ==
  ASSUME ServerInv, NEW x \in Conns, ListenMetadata(x)
  PROVE  ServerInv'
<1> USE ServerAssumption, ConnFacts
       DEF ServerInv, ListenMetadata, clientVars, tables, threads, history
<1>1. TypeOK'
  BY DEF TypeOK
<1>2. SessionsSound'
  BY DEF SessionsSound, RunningRead, UnmadeIdle, OthersGone, LateOnRecord, Conn, Over
<1>3. EntriesHeld'
  BY DEF TypeOK, EntriesHeld, EventsKnown, SubscribersHeld, EmittersHeld, FlagsHeld, Holds
<1>4. SubscribersCounted'
  BY DEF SubscribersCounted
<1>5. Shown'
  BY DEF TypeOK, Shown, Conn
<1>6. OrderlyKeepSubscriptions'
  BY DEF OrderlyKeepSubscriptions
<1>7. QED
  BY <1>1, <1>2, <1>3, <1>4, <1>5, <1>6

LEMMA ServerEmitsInv ==
  ASSUME ServerInv, NEW e \in Events, ServerEmits(e)
  PROVE  ServerInv'
<1> USE ServerAssumption, ConnFacts
       DEF ServerInv, ServerEmits, clientVars, tables, threads, history
<1>1. TypeOK'
  BY DEF TypeOK, Push
<1>2. SessionsSound'
  BY DEF SessionsSound, RunningRead, UnmadeIdle, OthersGone, LateOnRecord, Conn, Over
<1>3. EntriesHeld'
  BY DEF EntriesHeld, EventsKnown, SubscribersHeld, EmittersHeld, FlagsHeld, Holds
<1>4. SubscribersCounted'
  BY DEF SubscribersCounted
<1>5. Shown'
  BY DEF Shown, Conn
<1>6. OrderlyKeepSubscriptions'
  BY DEF OrderlyKeepSubscriptions
<1>7. QED
  BY <1>1, <1>2, <1>3, <1>4, <1>5, <1>6

LEMMA DisconnectInv ==
  ASSUME ServerInv, NEW x \in Conns, Disconnect(x)
  PROVE  ServerInv'
<1> USE ServerAssumption, ConnFacts
       DEF ServerInv, Disconnect, clientVars, tables, threads, history
<1>1. TypeOK'
  <2>1. CASE Meta \in unread[x]
    BY <2>1 DEF TypeOK
  <2>2. CASE Meta \notin unread[x]
    <3>1. listen' \in [Conns -> ListenStates]
      BY <2>2 DEF TypeOK, ListenStates
    <3>2. todo' \in [Conns -> SUBSET Events]
      BY SMTT(30), <2>2 DEF TypeOK
    <3>3. crashed' \in BOOLEAN
      BY <2>2 DEF TypeOK
    <3>4. unread' \in [Conns -> SUBSET (Events \cup {Meta})]
      BY DEF TypeOK
    <3>5. QED
      BY <3>1, <3>2 DEF TypeOK
  <2>3. QED
    BY <2>1, <2>2
<1>2. SessionsSound'
  BY DEF TypeOK, SessionsSound, RunningRead, UnmadeIdle, OthersGone, LateOnRecord, Conn, Over
<1>3. EntriesHeld'
  <2>1. \A y \in Conns, e \in Events : Holds(y, e) /\ e \in registered => Holds(y, e)'
    <3>1. CASE Meta \in unread[x]
      BY <3>1 DEF Holds
    <3>2. CASE Meta \notin unread[x]
      BY <3>2 DEF TypeOK, Holds
    <3>3. QED
      BY <3>1, <3>2
  <2>2. EventsKnown'
    BY DEF EntriesHeld, EventsKnown
  <2>3. SubscribersHeld'
    <3> SUFFICES ASSUME NEW c \in Clients \ late, NEW e \in Events, c \in subs[e]
                 PROVE  \E y \in Conns : y[1] = c /\ Holds(y, e)'
      BY DEF SubscribersHeld
    <3>1. PICK y \in Conns : y[1] = c /\ Holds(y, e)
      BY DEF EntriesHeld, SubscribersHeld
    <3>2. e \in registered
      BY DEF EntriesHeld, EventsKnown
    <3>3. QED
      BY <2>1, <3>1, <3>2
  <2>4. \A y \in Conns :
          \/ listen'[y] = listen[y]
          \/ listen[y] = "fetch" /\ listen'[y] = "unsubscribing"
    BY DEF TypeOK
  <2>5. EmittersHeld' /\ FlagsHeld'
    BY <2>4 DEF EntriesHeld, EmittersHeld, FlagsHeld
  <2>6. QED
    BY <2>2, <2>3, <2>5 DEF EntriesHeld
<1>4. SubscribersCounted'
  BY DEF SubscribersCounted
<1>5. Shown'
  BY DEF Shown, Conn, Over
<1>6. OrderlyKeepSubscriptions'
  BY DEF OrderlyKeepSubscriptions
<1>7. QED
  BY <1>1, <1>2, <1>3, <1>4, <1>5, <1>6

LEMMA DisconnectUnsubscribesInv ==
  ASSUME ServerInv, NEW x \in Conns, NEW e \in Events, DisconnectUnsubscribes(x, e)
  PROVE  ServerInv'
<1> USE ServerAssumption, ConnFacts
       DEF ServerInv, DisconnectUnsubscribes, clientVars, tables, threads, history
<1>0. /\ subs' \in [Events -> SUBSET Clients]
      /\ stats' \in [Events \cup {Meta} -> SUBSET Clients]
      /\ \A f \in Events : subs'[f] = IF f = e THEN subs[f] \ {x[1]} ELSE subs[f]
      /\ \A f \in Events :
           stats'[f] = IF f = e /\ x[1] \in subs[e] THEN stats[f] \ {x[1]} ELSE stats[f]
  BY WithoutSubFacts
<1>1. TypeOK'
  BY <1>0 DEF TypeOK
<1>2. SessionsSound'
  BY DEF SessionsSound, RunningRead, UnmadeIdle, OthersGone, LateOnRecord, Conn, Over
<1>3. EntriesHeld'
  <2>1. EventsKnown'
    BY <1>0 DEF EventsKnown, EntriesHeld
  <2>2. SubscribersHeld'
    BY <1>0, <1>1 DEF SubscribersHeld, Holds, EntriesHeld
  <2>3. (EmittersHeld /\ FlagsHeld)'
    BY <1>0 DEF EmittersHeld, FlagsHeld, EntriesHeld
  <2>4. QED
    BY <2>1, <2>2, <2>3 DEF EntriesHeld
<1>4. SubscribersCounted'
  BY <1>0 DEF SubscribersCounted
<1>5. Shown'
  BY DEF Shown, Conn
<1>6. OrderlyKeepSubscriptions'
  <2> SUFFICES ASSUME NEW c \in alive \ (overlapped \cup late), NEW f \in subscribed[c]
               PROVE  c \in subs'[f]
    BY DEF OrderlyKeepSubscriptions
  <2>1. c \in Clients /\ f \in Events /\ c \in subs[f]
    BY DEF TypeOK, OrderlyKeepSubscriptions
  <2>2. x[1] # c
    BY <2>1, LastSession
  <2>3. QED
    BY <1>0, <2>1, <2>2
<1>7. QED
  BY <1>1, <1>2, <1>3, <1>4, <1>5, <1>6

LEMMA DisconnectPurgesInv ==
  ASSUME ServerInv, NEW x \in Conns, DisconnectPurges(x)
  PROVE  ServerInv'
<1> USE ServerAssumption, ConnFacts
       DEF ServerInv, DisconnectPurges, clientVars, tables, threads, history
<1>1. TypeOK'
  BY DEF TypeOK, ListenStates
<1>2. SessionsSound'
  BY DEF SessionsSound, RunningRead, UnmadeIdle, OthersGone, LateOnRecord, Conn, Over
<1>3. EntriesHeld'
  <2>1. \A y \in Conns, e \in Events : Holds(y, e) => y # x /\ Holds(y, e)'
    BY DEF TypeOK, Holds
  <2>2. EventsKnown'
    BY DEF EntriesHeld, EventsKnown
  <2>3. SubscribersHeld'
    BY <2>1 DEF EntriesHeld, SubscribersHeld
  <2>4. EmittersHeld'
    <3> SUFFICES ASSUME NEW c \in Clients \ late, NEW e \in Events, c \in stats'[e]
                 PROVE  \E y \in Conns : y[1] = c /\ listen'[y] \in {"fetch", "unsubscribing"}
      BY DEF EmittersHeld
    <3>1. c \in stats[e] /\ c # x[1]
      BY DEF TypeOK
    <3>2. PICK y \in Conns : y[1] = c /\ listen[y] \in {"fetch", "unsubscribing"}
      BY <3>1 DEF EntriesHeld, EmittersHeld
    <3>3. QED
      BY <3>1, <3>2 DEF TypeOK
  <2>5. FlagsHeld'
    BY DEF TypeOK, EntriesHeld, FlagsHeld
  <2>6. QED
    BY <2>2, <2>3, <2>4, <2>5 DEF EntriesHeld
<1>4. SubscribersCounted'
  <2> SUFFICES ASSUME NEW e \in Events, NEW c \in subs[e] \ (overlapped \cup late)
               PROVE  c \in stats'[e]
    BY DEF SubscribersCounted
  <2>1. c \in Clients /\ c \in stats[e]
    BY DEF TypeOK, SubscribersCounted
  <2>2. c # x[1]
    <3>1. PICK y \in Conns : y[1] = c /\ Holds(y, e)
      BY <2>1 DEF EntriesHeld, SubscribersHeld
    <3>2. y # x
      BY <3>1 DEF Holds
    <3>3. y = Conn(c)
      BY <3>1, LastSession DEF Holds
    <3>4. x[1] = c => x = Conn(c)
      BY LastSession
    <3>5. QED
      BY <3>2, <3>3, <3>4
  <2>3. QED
    BY <2>1, <2>2 DEF TypeOK
<1>5. Shown'
  BY DEF Shown, Conn
<1>6. OrderlyKeepSubscriptions'
  BY DEF OrderlyKeepSubscriptions
<1>7. QED
  BY <1>1, <1>2, <1>3, <1>4, <1>5, <1>6

LEMMA DisconnectSetsStatusInv ==
  ASSUME ServerInv, NEW x \in Conns, DisconnectSetsStatus(x)
  PROVE  ServerInv'
<1> USE ServerAssumption, ConnFacts
       DEF ServerInv, DisconnectSetsStatus, clientVars, tables, threads, history
<1>1. TypeOK'
  BY DEF TypeOK, ListenStates, Calls, SessionsSound, RunningRead
<1>2. SessionsSound'
  BY DEF SessionsSound, RunningRead, UnmadeIdle, OthersGone, LateOnRecord, Conn, Over
<1>3. EntriesHeld'
  BY <1>1, <1>2 DEF TypeOK, SessionsSound, RunningRead, LateOnRecord, EntriesHeld, EventsKnown,
     SubscribersHeld, EmittersHeld, FlagsHeld, Holds, Conn, Over, NoCall
<1>4. SubscribersCounted'
  BY DEF SubscribersCounted
<1>5. Shown'
  <2> SUFFICES ASSUME NEW c \in alive \ (Ghosts \cup overlapped), Meta \notin unread[Conn(c)]
               PROVE  connected'[c] = "yes"
    BY DEF Shown, Conn
  <2>1. c \in Clients /\ connected[c] = "yes"
    BY DEF TypeOK, Shown
  <2>2. x[1] # c
    BY <2>1, LastSession
  <2>3. QED
    BY <2>1, <2>2 DEF TypeOK
<1>6. OrderlyKeepSubscriptions'
  BY DEF OrderlyKeepSubscriptions
<1>7. QED
  BY <1>1, <1>2, <1>3, <1>4, <1>5, <1>6

------------------------------------------------------------------------------
LEMMA InitServerInv == Init => ServerInv
<1> SUFFICES ASSUME Init PROVE ServerInv
  OBVIOUS
<1>1. TypeOK
  <2>1. 0 \in 0 .. MaxSessions
    BY ServerAssumption
  <2>2. /\ session \in [Clients -> 0 .. MaxSessions] /\ sockOf \in [Clients -> 0 .. MaxSessions]
        /\ unread \in [Conns -> SUBSET (Events \cup {Meta})] /\ todo \in [Conns -> SUBSET Events]
        /\ call \in [Conns -> Calls \cup {NoCall}] /\ listen \in [Conns -> ListenStates]
    BY <2>1 DEF Init, ListenStates
  <2>3. /\ subscribed \in [Clients -> SUBSET Events] /\ subs \in [Events -> SUBSET Clients]
        /\ stats \in [Events \cup {Meta} -> SUBSET Clients]
        /\ connected \in [Clients -> {"none", "yes", "no"}]
    BY DEF Init
  <2>4. QED
    BY <2>2, <2>3 DEF Init, TypeOK
<1>2. SessionsSound
  BY ConnFacts DEF Init, SessionsSound, RunningRead, UnmadeIdle, OthersGone, LateOnRecord
<1>3. EntriesHeld
  BY DEF Init, EntriesHeld, EventsKnown, SubscribersHeld, EmittersHeld, FlagsHeld
<1>4. SubscribersCounted /\ Shown /\ OrderlyKeepSubscriptions
  BY DEF Init, SubscribersCounted, Shown, OrderlyKeepSubscriptions
<1>5. QED
  BY <1>1, <1>2, <1>3, <1>4 DEF ServerInv

LEMMA NextServerInv == ServerInv /\ [Next]_vars => ServerInv'
<1> SUFFICES ASSUME ServerInv, [Next]_vars PROVE ServerInv'
  OBVIOUS
<1>1. ASSUME NEW c \in Clients, Client(c) PROVE ServerInv'
  BY <1>1, ConnectInv, ClientDiesInv, ClientEmitsInv, ClientCallsInv DEF Client
<1>2. ASSUME NEW e \in Events, EvtRegister(e) \/ ServerEmits(e) PROVE ServerInv'
  BY <1>2, EvtRegisterInv, ServerEmitsInv
<1>3. ASSUME NEW x \in Conns, RpcThread(x) PROVE ServerInv'
  BY <1>3, EvtSubscribeInv, EvtUnsubscribeInv DEF RpcThread
<1>4. ASSUME NEW x \in Conns, ListenThread(x) PROVE ServerInv'
  BY <1>4, ListenMetadataInv, ListenEventInv, DisconnectInv, DisconnectUnsubscribesInv,
     DisconnectPurgesInv, DisconnectSetsStatusInv DEF ListenThread, OnClientDisconnect
<1>5. CASE UNCHANGED vars
  BY <1>5 DEF vars, clientVars, tables, threads, history, ServerInv, TypeOK, SessionsSound,
     RunningRead, UnmadeIdle, OthersGone, LateOnRecord, EntriesHeld, EventsKnown,
     SubscribersHeld, EmittersHeld, FlagsHeld, Holds, SubscribersCounted, Shown,
     OrderlyKeepSubscriptions, Conn, Over
<1>6. QED
  BY <1>1, <1>2, <1>3, <1>4, <1>5 DEF Next

(* Who has no thread left in the tables is forgotten, and shown as gone.    *)
LEMMA ServerInvTables == ServerInv => TablesSound
<1> SUFFICES ASSUME ServerInv PROVE TablesSound
  OBVIOUS
<1> USE DEF ServerInv
<1>1. ConnectedRight
  <2> SUFFICES ASSUME NEW c \in Clients \ (Ghosts \cup overlapped)
               PROVE  /\ c \in alive /\ Meta \notin unread[Conn(c)] => connected[c] = "yes"
                      /\ (\A n \in 1 .. MaxSessions : listen[<<c, n>>] \in {"none", "gone"})
                           => connected[c] # "yes"
    BY DEF ConnectedRight
  <2>1. c \in alive /\ Meta \notin unread[Conn(c)] => connected[c] = "yes"
    BY DEF Shown
  <2>2. ASSUME connected[c] = "yes"
        PROVE  \E n \in 1 .. MaxSessions : listen[<<c, n>>] \notin {"none", "gone"}
    BY <2>2, ConnFacts DEF EntriesHeld, FlagsHeld
  <2>3. QED
    BY <2>1, <2>2
<1>2. GoneForgotten
  <2> SUFFICES ASSUME NEW c \in Clients \ late, NEW e \in Events, c \in subs[e] \/ c \in stats[e]
               PROVE  \E n \in 1 .. MaxSessions : listen[<<c, n>>] \notin {"none", "gone"}
    BY DEF GoneForgotten
  <2>1. \E x \in Conns : x[1] = c /\ listen[x] \in {"fetch", "unsubscribing"}
    BY DEF EntriesHeld, SubscribersHeld, EmittersHeld, Holds
  <2>2. QED
    BY <2>1, ConnFacts
<1>3. QED
  BY <1>1, <1>2 DEF TablesSound

(* The invariant of the event server holds at every step of every           *)
(* interleaving of clients, RPC threads and listen threads (mxevt.cpp).     *)
THEOREM ServerInvariant == Spec => []ServerInv
<1>1. Init => ServerInv
  BY InitServerInv
<1>2. ServerInv /\ [Next]_vars => ServerInv'
  BY NextServerInv
<1>3. QED
  BY <1>1, <1>2, PTL DEF Spec

(* The tables of the event server agree with each other and with the        *)
(* clients, for any number of clients, sessions and events (TablesSound).   *)
THEOREM TablesAgree == Spec => []TablesSound
BY ServerInvariant, ServerInvTables, PTL

(* A client that never came back too early, and never died in a call, keeps *)
(* the subscriptions it made, whatever others do (EvtSubscribe,             *)
(* EvtUnsubscribe, OnClientDisconnect).                                     *)
THEOREM OrderlyClientsKeepSubscriptions == Spec => []OrderlyKeepSubscriptions
<1>1. ServerInv => OrderlyKeepSubscriptions
  BY DEF ServerInv
<1>2. QED
  BY <1>1, ServerInvariant, PTL
=============================================================================
