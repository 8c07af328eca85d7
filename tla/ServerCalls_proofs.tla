--------------------------- MODULE ServerCalls_proofs ---------------------------
(***************************************************************************)
(* Proofs about what the calls of clients meet on the server, for any       *)
(* threads, keys and bounds: the answers of a connection (Rpc), the watches *)
(* of the realtime database (RdbWatch) and its history (RdbHistory).  Each  *)
(* section proves that the invariant of its module, which TLC checks as     *)
(* well, is inductive.                                                      *)
(***************************************************************************)
EXTENDS RdbWatch, Rpc, RdbHistory, FiniteSetTheorems, SequenceTheorems, TLAPS

------------------------------------------------------------------------------
(* RdbWatch: a client that subscribes to a pattern which is watched, and which*)
(* nobody is about to remove, is told of every write until it leaves,       *)
(* whatever the others do.                                                  *)

(* In the initial state nobody watches.                                     *)
LEMMA WatchInitSound == WatchInit => WatchesSound
<1> SUFFICES ASSUME WatchInit PROVE WatchesSound
  OBVIOUS
<1>1. writer = [w \in RdbWriters |-> NotWriting]
  BY DEF WatchInit
<1>2. NotWriting \in [busy : BOOLEAN, todo : SUBSET Patterns, unheard : Patterns \cup {NoPattern}]
      /\ NotWriting.todo = {}
  BY DEF NotWriting
<1>3. WatchTypeOK
  BY <1>1, <1>2 DEF WatchInit, WatchTypeOK
<1>4. SettledAreTold /\ ListenersAgree
  BY DEF WatchInit, SettledAreTold, ListenersAgree
<1> QED
  BY <1>3, <1>4 DEF WatchesSound

(* While nobody writes, no writer goes through patterns or is about to       *)
(* remove one.                                                              *)
LEMMA NobodyWrites ==
  ASSUME WatchTypeOK, ~ Shared
  PROVE  \A w \in RdbWriters : writer[w].todo = {} /\ writer[w].unheard = NoPattern
BY DEF WatchTypeOK, Shared, NotWriting

(* The first call of a client leaves every settled subscription alone.      *)
LEMMA RdbWatchSound ==
  ASSUME WatchesSound, NEW c \in Watchers, NEW p \in Patterns, RdbWatch(c, p)
  PROVE  WatchesSound'
<1>1. /\ dirs' = dirs \cup {p} /\ silent' = silent \ {p}
      /\ watcher' = [watcher EXCEPT ![c][p] = "watched"] /\ watcher[c][p] = "away"
      /\ UNCHANGED <<listeners, writer, sweeps, settled, missed>>
  BY DEF RdbWatch
<1>2. WatchTypeOK'
  BY <1>1 DEF WatchesSound, WatchTypeOK
<1>3. SettledAreTold'
  BY <1>1 DEF WatchesSound, SettledAreTold, Quiet
<1>4. ListenersAgree'
  BY <1>1 DEF WatchesSound, WatchTypeOK, ListenersAgree
<1> QED
  BY <1>2, <1>3, <1>4 DEF WatchesSound

(* The second settles the client if its pattern is watched and quiet.       *)
LEMMA EvtSubscribeSound ==
  ASSUME WatchesSound, NEW c \in Watchers, NEW p \in Patterns, EvtSubscribe(c, p)
  PROVE  WatchesSound'
<1>1. /\ watcher' = [watcher EXCEPT ![c][p] = "listens"] /\ watcher[c][p] = "watched"
      /\ listeners' = [listeners EXCEPT ![p] = @ \cup {c}]
      /\ settled' = IF p \in dirs /\ Quiet(p) THEN settled \cup {<<c, p>>} ELSE settled
      /\ UNCHANGED <<dirs, silent, writer, sweeps, missed>>
  BY DEF EvtSubscribe
<1>2. <<c, p>> \in Pairs /\ settled \subseteq Pairs /\ missed \subseteq Pairs
  BY DEF Pairs, WatchesSound, WatchTypeOK
<1>3. WatchTypeOK'
  BY <1>1, <1>2 DEF WatchesSound, WatchTypeOK
<1>4. ListenersAgree'
  BY <1>1, <1>2 DEF WatchesSound, WatchTypeOK, ListenersAgree, Pairs
<1>5. c \notin listeners[p] /\ <<c, p>> \notin missed
  BY <1>1 DEF WatchesSound, ListenersAgree
<1>6. SettledAreTold'
  <2>1. settled' \cap missed' = {}
    BY <1>1, <1>5 DEF WatchesSound, SettledAreTold
  <2>2. ASSUME NEW cp \in settled' PROVE cp[1] \in listeners'[cp[2]] /\ cp[2] \in dirs' /\ Quiet(cp[2])'
    <3>1. CASE cp \in settled
      BY <3>1, <1>1, <1>2 DEF WatchesSound, WatchTypeOK, SettledAreTold, Quiet, Pairs
    <3>2. CASE cp = <<c, p>> /\ p \in dirs /\ Quiet(p)
      BY <3>2, <1>1 DEF WatchesSound, WatchTypeOK, Quiet
    <3> QED
      BY <3>1, <3>2, <1>1, <2>2
  <2> QED
    BY <2>1, <2>2 DEF SettledAreTold
<1> QED
  BY <1>3, <1>4, <1>6 DEF WatchesSound

(* A client that leaves takes its own subscription with it, and no other.   *)
LEMMA UnsubscribeSound ==
  ASSUME WatchesSound, NEW c \in Watchers, NEW p \in Patterns, Unsubscribe(c, p)
  PROVE  WatchesSound'
<1>1. /\ watcher' = [watcher EXCEPT ![c][p] = "away"]
      /\ listeners' = [listeners EXCEPT ![p] = @ \ {c}]
      /\ settled' = settled \ {<<c, p>>} /\ missed' = missed \ {<<c, p>>}
      /\ UNCHANGED <<dirs, silent, writer, sweeps>>
  BY DEF Unsubscribe
<1>2. settled \subseteq Pairs /\ missed \subseteq Pairs
  BY DEF WatchesSound, WatchTypeOK
<1>3. WatchTypeOK'
  BY <1>1, <1>2 DEF WatchesSound, WatchTypeOK
<1>4. \A cp \in Pairs \ {<<c, p>>} : cp[1] \in listeners[cp[2]] => cp[1] \in listeners'[cp[2]]
  BY <1>1 DEF WatchesSound, WatchTypeOK, Pairs
<1>5. ListenersAgree'
  <2>1. \A d \in Watchers, q \in Patterns : d \in listeners'[q] <=> watcher'[d][q] = "listens"
    BY <1>1 DEF WatchesSound, WatchTypeOK, ListenersAgree
  <2> QED
    BY <2>1, <1>1, <1>2, <1>4 DEF WatchesSound, ListenersAgree
<1>6. SettledAreTold'
  BY <1>1, <1>2, <1>4 DEF WatchesSound, SettledAreTold, Quiet
<1> QED
  BY <1>3, <1>5, <1>6 DEF WatchesSound

(* A write that begins misses those whose pattern is gone: none is settled. *)
LEMMA WriteBeginsSound ==
  ASSUME WatchesSound, NEW w \in RdbWriters, WriteBegins(w)
  PROVE  WatchesSound'
<1>1. /\ writer' = [writer EXCEPT ![w] = [busy |-> TRUE, todo |-> dirs, unheard |-> NoPattern]]
      /\ missed' = missed \cup {cp \in Pairs : cp[1] \in listeners[cp[2]] /\ cp[2] \notin dirs}
      /\ UNCHANGED <<dirs, silent, listeners, watcher, sweeps, settled>>
  BY DEF WriteBegins
<1>2. WatchTypeOK'
  BY <1>1 DEF WatchesSound, WatchTypeOK
<1>3. ListenersAgree'
  BY <1>1 DEF WatchesSound, ListenersAgree
<1>4. SettledAreTold'
  BY <1>1, WatchAssumption DEF WatchesSound, WatchTypeOK, SettledAreTold, Quiet
<1> QED
  BY <1>2, <1>3, <1>4 DEF WatchesSound

(* A pattern that is heard is triggered anew; ...                           *)
LEMMA EmitHeardSound ==
  ASSUME WatchesSound, NEW w \in RdbWriters, NEW p \in Patterns, EmitHeard(w, p)
  PROVE  WatchesSound'
<1>1. /\ writer' = [writer EXCEPT ![w].todo = @ \ {p}] /\ silent' = silent \ {p}
      /\ p \in writer[w].todo
      /\ UNCHANGED <<dirs, listeners, watcher, sweeps, settled, missed>>
  BY DEF EmitHeard
<1>2. writer[w].busy
  BY <1>1 DEF WatchesSound, WatchTypeOK, NotWriting
<1>3. WatchTypeOK'
  BY SMTT(30), <1>1, <1>2 DEF WatchesSound, WatchTypeOK
<1>4. ListenersAgree' /\ SettledAreTold'
  BY <1>1 DEF WatchesSound, WatchTypeOK, ListenersAgree, SettledAreTold, Quiet
<1> QED
  BY <1>3, <1>4 DEF WatchesSound

(* ... one that is not has no settled client.                               *)
LEMMA EmitUnheardSound ==
  ASSUME WatchesSound, NEW w \in RdbWriters, NEW p \in Patterns, EmitUnheard(w, p)
  PROVE  WatchesSound'
<1>1. /\ writer' = [writer EXCEPT ![w].todo = @ \ {p}, ![w].unheard = p]
      /\ p \in writer[w].todo /\ listeners[p] = {}
      /\ UNCHANGED <<dirs, silent, listeners, watcher, sweeps, settled, missed>>
  BY DEF EmitUnheard, Heard
<1>2. writer[w].busy
  BY <1>1 DEF WatchesSound, WatchTypeOK, NotWriting
<1>3. WatchTypeOK'
  BY ZenonT(30), <1>1, <1>2 DEF WatchesSound, WatchTypeOK
<1>4. ListenersAgree'
  BY <1>1 DEF WatchesSound, ListenersAgree
<1>5. SettledAreTold'
  BY <1>1 DEF WatchesSound, WatchTypeOK, SettledAreTold, Quiet
<1> QED
  BY <1>3, <1>4, <1>5 DEF WatchesSound

(* The pattern that may be removed is such a one.                           *)
LEMMA DetachSound ==
  ASSUME WatchesSound, NEW w \in RdbWriters, Detach(w)
  PROVE  WatchesSound'
<1> DEFINE p == writer[w].unheard
<1>1. /\ p # NoPattern /\ writer' = [writer EXCEPT ![w].unheard = NoPattern]
      /\ sweeps' = IF p \in silent THEN [sweeps EXCEPT ![p] = @ + 1] ELSE sweeps
      /\ UNCHANGED <<dirs, silent, listeners, watcher, settled, missed>>
  BY DEF Detach
<1>2. writer[w].busy /\ p \in Patterns
  BY <1>1 DEF WatchesSound, WatchTypeOK, NotWriting
<1>3. WatchTypeOK'
  BY SMTT(30), <1>1, <1>2 DEF WatchesSound, WatchTypeOK
<1>4. ListenersAgree'
  BY <1>1 DEF WatchesSound, ListenersAgree
<1>5. SettledAreTold'
  <2>1. ASSUME NEW cp \in settled PROVE Quiet(cp[2])'
    <3>1. cp[2] # p /\ Quiet(cp[2]) /\ cp[2] \in Patterns
      BY DEF WatchesSound, WatchTypeOK, SettledAreTold, Quiet, Pairs
    <3> QED
      BY <3>1, <1>1, WatchAssumption DEF WatchesSound, WatchTypeOK, Quiet
  <2> QED
    BY <2>1, <1>1 DEF WatchesSound, SettledAreTold
<1> QED
  BY <1>3, <1>4, <1>5 DEF WatchesSound

(* A write ends.                                                            *)
LEMMA WriteEndsSound ==
  ASSUME WatchesSound, NEW w \in RdbWriters, WriteEnds(w)
  PROVE  WatchesSound'
<1>1. /\ writer' = [writer EXCEPT ![w] = NotWriting]
      /\ UNCHANGED <<dirs, silent, listeners, watcher, sweeps, settled, missed>>
  BY DEF WriteEnds
<1>2. WatchTypeOK'
  BY <1>1 DEF WatchesSound, WatchTypeOK, NotWriting
<1>3. ListenersAgree' /\ SettledAreTold'
  BY <1>1, WatchAssumption DEF WatchesSound, WatchTypeOK, ListenersAgree, SettledAreTold,
     Quiet, NotWriting
<1> QED
  BY <1>2, <1>3 DEF WatchesSound

(* What is removed has no settled client, for these are quiet.              *)
LEMMA RdbUnwatchSound ==
  ASSUME WatchesSound, NEW p \in Patterns, RdbUnwatch(p)
  PROVE  WatchesSound'
<1>1. /\ sweeps[p] > 0 /\ ~ Shared /\ sweeps' = [sweeps EXCEPT ![p] = @ - 1]
      /\ dirs' = dirs \ {p} /\ silent' = silent \ {p}
      /\ UNCHANGED <<listeners, watcher, writer, settled, missed>>
  BY DEF RdbUnwatch
<1>2. \A w \in RdbWriters : writer[w].todo = {}
  BY <1>1, NobodyWrites DEF WatchesSound
<1>3. WatchTypeOK'
  BY <1>1, <1>2 DEF WatchesSound, WatchTypeOK
<1>4. ListenersAgree'
  BY <1>1 DEF WatchesSound, ListenersAgree
<1>5. \A cp \in settled : cp[2] # p /\ cp[2] \in Patterns
  BY <1>1 DEF WatchesSound, WatchTypeOK, SettledAreTold, Quiet, Pairs
<1>6. SettledAreTold'
  BY <1>1, <1>5 DEF WatchesSound, WatchTypeOK, SettledAreTold, Quiet
<1> QED
  BY <1>3, <1>4, <1>6 DEF WatchesSound

(* Every step keeps the invariant.                                          *)
LEMMA WatchNextSound == WatchesSound /\ [WatchNext]_vars_b => WatchesSound'
<1> SUFFICES ASSUME WatchesSound, [WatchNext]_vars_b PROVE WatchesSound'
  OBVIOUS
<1>1. ASSUME NEW p \in Patterns, FallsSilent(p) PROVE WatchesSound'
  BY <1>1 DEF FallsSilent, WatchesSound, WatchTypeOK, ListenersAgree, SettledAreTold, Quiet
<1>2. CASE UNCHANGED vars_b
  BY <1>2 DEF vars_b, WatchesSound, WatchTypeOK, ListenersAgree, SettledAreTold, Quiet
<1> QED
  BY <1>1, <1>2, RdbWatchSound, EvtSubscribeSound, UnsubscribeSound, WriteBeginsSound,
     EmitHeardSound, EmitUnheardSound, DetachSound, WriteEndsSound, RdbUnwatchSound
  DEF WatchNext

(* A client that subscribed while its pattern was watched, and nobody was    *)
(* about to remove it, is told of every write until it leaves (RdbWatch,    *)
(* RdbEmitEvtCondition, RdbUnwatch).                                        *)
THEOREM WatchesInvariant == WatchSpec => []WatchesSound
BY WatchInitSound, WatchNextSound, PTL DEF WatchSpec

(* No write goes past a settled client.                                     *)
THEOREM SettledMissNothing == WatchSpec => [](settled \cap missed = {})
<1>1. WatchesSound => settled \cap missed = {}
  BY DEF WatchesSound, SettledAreTold
<1> QED
  BY <1>1, WatchesInvariant, PTL

------------------------------------------------------------------------------
(* Rpc: values are counted wherever they may be, and each step moves at most*)
(* one of them.                                                             *)

(* The inductive invariant.                                                 *)
RpcInv == CallsSound /\ OwnAnswer

(* Where the calls of values are in a queue.                                *)
ValuesAt(s) == {i \in DOMAIN s : s[i].kind = "value"}

(* The number of calls of values in a queue is a number.                    *)
LEMMA ValuesType ==
  ASSUME NEW s \in Seq(Calls)
  PROVE  IsFiniteSet(ValuesAt(s)) /\ Values(s) \in Nat /\ Values(s) = Cardinality(ValuesAt(s))
<1>1. Len(s) \in Nat /\ DOMAIN s = 1 .. Len(s)
  OBVIOUS
<1>2. IsFiniteSet(1 .. Len(s)) /\ ValuesAt(s) \subseteq 1 .. Len(s)
  BY <1>1, FS_Interval DEF ValuesAt
<1>3. QED
  BY <1>2, FS_Subset, FS_CardinalityType DEF Values, ValuesAt

(* An empty queue has none; where there are none all are answers to anything.*)
LEMMA ValuesNone ==
  ASSUME NEW s \in Seq(Calls)
  PROVE  /\ s = <<>> => Values(s) = 0
         /\ Values(s) = 0 => \A n : ValuesOf(s, n)
<1>1. Values(s) = 0 <=> ValuesAt(s) = {}
  BY ValuesType, FS_EmptySet
<1>2. QED
  BY <1>1 DEF ValuesAt, ValuesOf

(* A queue of one call.                                                     *)
LEMMA ValuesOne ==
  ASSUME NEW x \in Calls \cup {Idle}
  PROVE  /\ Values(<<x>>) = IF x.kind = "value" THEN 1 ELSE 0
         /\ \A n : ValuesOf(<<x>>, n) <=> (x.kind = "value" => x.call = n)
<1>1. DOMAIN <<x>> = {1} /\ <<x>>[1] = x
  OBVIOUS
<1>2. ValuesAt(<<x>>) = IF x.kind = "value" THEN {1} ELSE {}
  BY <1>1 DEF ValuesAt
<1>3. Values(<<x>>) = Cardinality(ValuesAt(<<x>>))
  BY DEF Values, ValuesAt
<1>4. QED
  BY <1>1, <1>2, <1>3, FS_EmptySet, FS_Singleton DEF ValuesOf

(* A call put at the end counts if it is of a value.                        *)
LEMMA ValuesAppend ==
  ASSUME NEW s \in Seq(Calls), NEW x \in Calls
  PROVE  /\ Append(s, x) \in Seq(Calls)
         /\ Values(Append(s, x)) = Values(s) + (IF x.kind = "value" THEN 1 ELSE 0)
         /\ \A n : ValuesOf(Append(s, x), n) <=> ValuesOf(s, n) /\ (x.kind = "value" => x.call = n)
<1> DEFINE t == Append(s, x)
<1>1. /\ t \in Seq(Calls) /\ Len(s) \in Nat /\ DOMAIN s = 1 .. Len(s)
      /\ DOMAIN t = 1 .. Len(s) + 1 /\ t[Len(s) + 1] = x /\ \A i \in 1 .. Len(s) : t[i] = s[i]
  OBVIOUS
<1> HIDE DEF t
<1>2. ValuesAt(t) = IF x.kind = "value" THEN ValuesAt(s) \cup {Len(s) + 1} ELSE ValuesAt(s)
  BY <1>1 DEF ValuesAt
<1>3. Len(s) + 1 \notin ValuesAt(s)
  BY <1>1 DEF ValuesAt
<1>4. Values(t) = Values(s) + (IF x.kind = "value" THEN 1 ELSE 0)
  BY <1>1, <1>2, <1>3, ValuesType, FS_AddElement
<1>5. \A n : ValuesOf(t, n) <=> ValuesOf(s, n) /\ (x.kind = "value" => x.call = n)
  BY <1>1 DEF ValuesOf
<1>6. QED
  BY <1>1, <1>4, <1>5 DEF t

(* So does the one taken from the front: the others move by one place.      *)
LEMMA ValuesTail ==
  ASSUME NEW s \in Seq(Calls), s # <<>>
  PROVE  /\ Tail(s) \in Seq(Calls) /\ Head(s) \in Calls
         /\ Values(s) = Values(Tail(s)) + (IF Head(s).kind = "value" THEN 1 ELSE 0)
         /\ \A n : ValuesOf(s, n) <=> ValuesOf(Tail(s), n) /\ (Head(s).kind = "value" => Head(s).call = n)
<1> DEFINE t == Tail(s)
<1>1. /\ t \in Seq(Calls) /\ Len(s) \in Nat /\ Len(s) > 0 /\ DOMAIN s = 1 .. Len(s)
      /\ DOMAIN t = 1 .. Len(s) - 1 /\ \A i \in 1 .. Len(s) - 1 : t[i] = s[i + 1]
      /\ Head(s) = s[1] /\ Head(s) \in Calls
  OBVIOUS
<1> HIDE DEF t
<1> DEFINE rest == ValuesAt(s) \ {1}
           f == [i \in ValuesAt(t) |-> i + 1]
<1>2. f \in [ValuesAt(t) -> rest]
  BY <1>1 DEF ValuesAt
<1>3. \A i, j \in ValuesAt(t) : f[i] = f[j] => i = j
  BY <1>1 DEF ValuesAt
<1>4. \A j \in rest : \E i \in ValuesAt(t) : f[i] = j
  <2> SUFFICES ASSUME NEW j \in rest PROVE j - 1 \in ValuesAt(t) /\ f[j - 1] = j
    OBVIOUS
  <2>1. j \in 2 .. Len(s) /\ s[j].kind = "value"
    BY <1>1 DEF ValuesAt
  <2>2. j - 1 \in 1 .. Len(s) - 1 /\ t[j - 1] = s[j]
    BY <1>1, <2>1
  <2>3. j - 1 \in ValuesAt(t)
    BY <1>1, <2>1, <2>2 DEF ValuesAt
  <2>4. QED
    BY <2>1, <2>3
<1> HIDE DEF f, rest
<1>5. ExistsBijection(ValuesAt(t), rest)
  BY <1>2, <1>3, <1>4 DEF ExistsBijection, Bijection, Injection, Surjection, IsInjective
<1>6. Cardinality(rest) = Values(t)
  BY <1>1, <1>5, ValuesType, FS_Bijection
<1>7. 1 \in ValuesAt(s) <=> Head(s).kind = "value"
  BY <1>1 DEF ValuesAt
<1>8. Values(s) = Values(t) + (IF Head(s).kind = "value" THEN 1 ELSE 0)
  <2>1. IsFiniteSet(ValuesAt(s)) /\ Values(s) = Cardinality(ValuesAt(s)) /\ Values(s) \in Nat
        /\ Values(t) \in Nat
    BY <1>1, ValuesType
  <2>2. CASE Head(s).kind = "value"
    <3>1. Cardinality(ValuesAt(s) \ {1}) = Cardinality(ValuesAt(s)) - 1
      BY <1>7, <2>1, <2>2, FS_RemoveElement
    <3>2. Cardinality(rest) = Cardinality(ValuesAt(s)) - 1
      BY <3>1 DEF rest
    <3>3. QED
      BY <1>6, <2>1, <2>2, <3>2
  <2>3. CASE Head(s).kind # "value"
    <3>1. rest = ValuesAt(s)
      BY <1>7, <2>3 DEF rest
    <3>2. QED
      BY <1>6, <2>1, <2>3, <3>1
  <2>4. QED
    BY <2>2, <2>3
<1>9. \A n : ValuesOf(s, n) <=> ValuesOf(t, n) /\ (Head(s).kind = "value" => Head(s).call = n)
  <2> SUFFICES ASSUME NEW n
               PROVE ValuesOf(s, n) <=> ValuesOf(t, n) /\ (s[1].kind = "value" => s[1].call = n)
    BY <1>1
  <2>1. ASSUME ValuesOf(s, n) PROVE ValuesOf(t, n) /\ (s[1].kind = "value" => s[1].call = n)
    BY <1>1, <2>1 DEF ValuesOf
  <2>2. ASSUME ValuesOf(t, n), s[1].kind = "value" => s[1].call = n PROVE ValuesOf(s, n)
    <3> SUFFICES ASSUME NEW i \in DOMAIN s, s[i].kind = "value" PROVE s[i].call = n
      BY DEF ValuesOf
    <3>1. CASE i = 1
      BY <2>2, <3>1
    <3>2. CASE i # 1
      <4>1. i - 1 \in DOMAIN t /\ t[i - 1] = s[i]
        BY <1>1, <3>2
      <4>2. QED
        BY <2>2, <4>1 DEF ValuesOf
    <3>3. QED
      BY <3>1, <3>2
  <2>3. QED
    BY <2>1, <2>2
<1>10. QED
  BY <1>1, <1>8, <1>9 DEF t

------------------------------------------------------------------------------
(* Nobody has called yet.                                                   *)
LEMMA RpcInitSound == Init => RpcInv
<1> SUFFICES ASSUME Init PROVE RpcInv
  OBVIOUS
<1>1. Waiting = {} /\ Idle \in Calls \cup {Idle} /\ <<>> \in Seq(Calls)
  BY DEF Init, Waiting, NotCalling
<1>2. Values(requests) = 0 /\ Values(responses) = 0 /\ Values(<<serving>>) = 0 /\ Len(stack) = 0
  BY <1>1, ValuesNone, ValuesOne DEF Init, Idle
<1>3. TypeOK
  <2>1. caller \in [Threads -> [call : 0 .. MaxCalls, mixed : BOOLEAN]]
    BY RpcAssumption DEF Init, NotCalling
  <2>2. result \in [Threads -> [call : 0 .. MaxCalls, answer : 0 .. MaxCalls, mixed : BOOLEAN]]
    BY RpcAssumption DEF Init
  <2>3. stack \in Seq(1 .. MaxCalls) /\ calls \in 0 .. MaxCalls
    BY RpcAssumption DEF Init
  <2>4. QED
    BY <1>1, <2>1, <2>2, <2>3 DEF Init, TypeOK
<1>4. Balanced
  BY <1>1, <1>2, FS_EmptySet DEF Balanced
<1>5. ServingKnown /\ LeftAlone /\ OnlyOne /\ OwnAnswer
  BY <1>1 DEF Init, ServingKnown, LeftAlone, OnlyOne, OwnAnswer
<1>6. QED
  BY <1>3, <1>4, <1>5 DEF RpcInv, CallsSound

(* Nothing of a value is on its way while nobody waits for one.             *)
LEMMA NothingForNobody ==
  ASSUME TypeOK, Balanced, Waiting = {}, server # "done", reader = "fetch"
  PROVE  /\ Values(requests) = 0 /\ Values(<<serving>>) = 0 /\ Values(responses) = 0
         /\ stack = <<>>
         /\ \A n : /\ ValuesOf(requests, n) /\ ValuesOf(<<serving>>, n)
                   /\ ValuesOf(responses, n)
<1>1. /\ requests \in Seq(Calls) /\ responses \in Seq(Calls) /\ serving \in Calls \cup {Idle}
      /\ stack \in Seq(1 .. MaxCalls)
  BY DEF TypeOK
<1>2. Values(requests) \in Nat /\ Values(responses) \in Nat /\ Values(<<serving>>) \in {0, 1}
  BY <1>1, ValuesType, ValuesOne
<1>3. Len(stack) \in Nat /\ (Len(stack) = 0 => stack = <<>>)
  BY <1>1
<1>4. Values(requests) + Values(<<serving>>) + Values(responses) + Len(stack) = 0
  BY FS_EmptySet DEF Balanced
<1>5. /\ Values(requests) = 0 /\ Values(<<serving>>) = 0 /\ Values(responses) = 0
      /\ stack = <<>>
  BY <1>2, <1>3, <1>4
<1>6. \A n : ValuesOf(<<serving>>, n)
  BY <1>1, <1>5, ValuesOne
<1>7. QED
  BY <1>1, <1>5, <1>6, ValuesNone

(* The numbers that Balanced adds.                                          *)
LEMMA CountsAreNumbers ==
  ASSUME TypeOK
  PROVE  /\ Values(requests) \in Nat /\ Values(responses) \in Nat
         /\ Values(<<serving>>) \in Nat /\ Len(stack) \in Nat
<1>1. /\ requests \in Seq(Calls) /\ responses \in Seq(Calls) /\ serving \in Calls \cup {Idle}
      /\ stack \in Seq(1 .. MaxCalls)
  BY DEF TypeOK
<1>2. Values(<<serving>>) \in {0, 1}
  BY <1>1, ValuesOne
<1>3. QED
  BY <1>1, <1>2, ValuesType

(* A thread that calls a value adds itself to those that wait, and a value to*)
(* the requests.  It is alone when nobody waited, and then there was nothing*)
(* on its way; otherwise all that wait are mixed from here on.              *)
LEMMA CallSound ==
  ASSUME RpcInv, NEW t \in Threads, NEW kind \in Kinds, Call(t, kind)
  PROVE  RpcInv'
<1> DEFINE new == [call |-> calls + 1, kind |-> kind]
           Mine(u, n) == /\ ValuesOf(requests, n) /\ ValuesOf(<<serving>>, n)
                         /\ ValuesOf(responses, n) /\ \A i \in DOMAIN stack : stack[i] = n
<1>1. /\ TypeOK /\ Balanced /\ ServingKnown /\ LeftAlone /\ OnlyOne /\ OwnAnswer
  BY DEF RpcInv, CallsSound
<1>2. /\ running /\ caller[t] = NotCalling /\ calls' = calls + 1
      /\ requests' = (IF server = "done" THEN requests ELSE Append(requests, new))
      /\ caller' = (IF kind = "value" THEN Begun(t, calls + 1) ELSE caller)
      /\ UNCHANGED <<responses, stack, last, reader, running, serving, server, stopping, result>>
  BY DEF Call, reading
<1>3. new \in Calls /\ calls + 1 \in 1 .. MaxCalls /\ calls \in 0 .. MaxCalls
  BY <1>1, RpcAssumption DEF Call, Calls, TypeOK
<1>4. t \notin Waiting
  BY <1>2 DEF Waiting, NotCalling
<1>5. requests \in Seq(Calls) /\ Append(requests, new) \in Seq(Calls)
  BY <1>1, <1>3, ValuesAppend DEF TypeOK
<1>6. caller' \in [Threads -> [call : 0 .. MaxCalls, mixed : BOOLEAN]]
  <2>1. ASSUME NEW u \in Threads
        PROVE  Begun(t, calls + 1)[u] \in [call : 0 .. MaxCalls, mixed : BOOLEAN]
    <3>1. caller[u] \in [call : 0 .. MaxCalls, mixed : BOOLEAN]
      BY <1>1 DEF TypeOK
    <3>2. [caller[u] EXCEPT !.mixed = TRUE] \in [call : 0 .. MaxCalls, mixed : BOOLEAN]
      BY <3>1
    <3>3. [call |-> calls + 1, mixed |-> Waiting # {}] \in [call : 0 .. MaxCalls, mixed : BOOLEAN]
      BY <1>3
    <3>4. QED
      BY <3>1, <3>2, <3>3 DEF Begun
  <2>2. Begun(t, calls + 1) \in [Threads -> [call : 0 .. MaxCalls, mixed : BOOLEAN]]
    BY <2>1 DEF Begun
  <2>3. caller \in [Threads -> [call : 0 .. MaxCalls, mixed : BOOLEAN]]
    BY <1>1 DEF TypeOK
  <2>4. QED
    BY <1>2, <2>2, <2>3
<1>7. TypeOK'
  BY <1>1, <1>2, <1>3, <1>5, <1>6, RpcAssumption DEF TypeOK
<1>8. Waiting' = IF kind = "value" THEN Waiting \cup {t} ELSE Waiting
  <2>1. CASE kind = "value"
    <3>1. ASSUME NEW u \in Threads
          PROVE  Begun(t, calls + 1)[u].call # 0 <=> u = t \/ u \in Waiting
      <4>1. CASE u = t
        BY <1>3, <4>1 DEF Begun
      <4>2. CASE u # t /\ u \in Waiting
        <5>1. Begun(t, calls + 1)[u] = [caller[u] EXCEPT !.mixed = TRUE]
          BY <4>2 DEF Begun
        <5>2. caller[u] \in [call : 0 .. MaxCalls, mixed : BOOLEAN]
          BY <1>1 DEF TypeOK
        <5>3. QED
          BY <4>2, <5>1, <5>2 DEF Waiting
      <4>3. CASE u # t /\ u \notin Waiting
        BY <4>3 DEF Begun, Waiting
      <4>4. QED
        BY <4>1, <4>2, <4>3
    <3>2. QED
      BY <1>2, <2>1, <3>1 DEF Waiting
  <2>2. QED
    BY <1>2, <2>1 DEF Waiting
<1>9. Balanced'
  <2> SUFFICES ASSUME server # "done", reader = "fetch"
               PROVE  Cardinality(Waiting') = Values(requests') + Values(<<serving>>)
                                              + Values(responses) + Len(stack)
    BY <1>2 DEF Balanced
  <2>1. IsFiniteSet(Waiting) /\ Cardinality(Waiting) \in Nat
    BY RpcAssumption, FS_Subset, FS_CardinalityType DEF Waiting
  <2>2. Cardinality(Waiting') = Cardinality(Waiting) + (IF kind = "value" THEN 1 ELSE 0)
    BY <1>4, <1>8, <2>1, FS_AddElement
  <2>3. Values(requests') = Values(requests) + (IF kind = "value" THEN 1 ELSE 0)
    BY <1>2, <1>3, <1>5, ValuesAppend
  <2>4. Values(requests) \in Nat /\ Values(responses) \in Nat /\ Values(<<serving>>) \in Nat
        /\ Len(stack) \in Nat
    BY <1>1, CountsAreNumbers
  <2>5. QED
    BY <1>1, <2>1, <2>2, <2>3, <2>4 DEF Balanced
<1>10. ServingKnown' /\ LeftAlone' /\ OwnAnswer'
  BY <1>1, <1>2 DEF ServingKnown, LeftAlone, OwnAnswer
<1>11. OnlyOne'
  <2> SUFFICES ASSUME server # "done", NEW u \in Waiting', ~ caller'[u].mixed
               PROVE  /\ Waiting' = {u}
                      /\ ValuesOf(requests', caller'[u].call) /\ ValuesOf(<<serving>>, caller'[u].call)
                      /\ ValuesOf(responses, caller'[u].call)
                      /\ \A i \in DOMAIN stack : stack[i] = caller'[u].call
    BY <1>2 DEF OnlyOne
  <2>1. requests' = Append(requests, new) /\ new.call = calls + 1 /\ new.kind = kind
    BY <1>2
  <2>2. CASE kind = "value"
    <3>1. caller' = Begun(t, calls + 1) /\ u \in Threads /\ (u = t \/ u \in Waiting)
      BY <1>2, <1>8, <2>2 DEF Waiting
    <3>2. u = t
      <4>1. ASSUME u # t PROVE FALSE
        <5>1. caller'[u] = [caller[u] EXCEPT !.mixed = TRUE]
          BY <3>1, <4>1 DEF Begun
        <5>2. caller[u] \in [call : 0 .. MaxCalls, mixed : BOOLEAN]
          BY <1>1, <3>1 DEF TypeOK
        <5>3. caller'[u].mixed
          BY <5>1, <5>2
        <5>4. QED
          BY <5>3
      <4>2. QED
        BY <4>1
    <3>3. caller'[u] = [call |-> calls + 1, mixed |-> Waiting # {}]
      BY <3>1, <3>2 DEF Begun
    <3>4. Waiting = {} /\ caller'[u].call = calls + 1
      <4>1. [call |-> calls + 1, mixed |-> Waiting # {}].mixed <=> Waiting # {}
        BY Zenon
      <4>2. Waiting = {}
        BY <3>3, <4>1
      <4>3. QED
        BY <3>3, <4>2
    <3>5. reader = "fetch"
      BY <1>1, <1>2 DEF LeftAlone
    <3>6. /\ stack = <<>>
          /\ \A n : /\ ValuesOf(requests, n) /\ ValuesOf(<<serving>>, n) /\ ValuesOf(responses, n)
      BY <1>1, <3>4, <3>5, NothingForNobody
    <3>7. ValuesOf(requests', calls + 1)
      BY <1>3, <1>5, <2>1, <3>6, ValuesAppend
    <3>8. QED
      BY <1>8, <2>2, <3>2, <3>4, <3>6, <3>7
  <2>3. CASE kind # "value"
    <3>1. caller' = caller /\ Waiting' = Waiting
      BY <1>2, <1>8, <2>3
    <3>2. /\ Waiting = {u}
          /\ ValuesOf(requests, caller[u].call) /\ ValuesOf(<<serving>>, caller[u].call)
          /\ ValuesOf(responses, caller[u].call)
          /\ \A i \in DOMAIN stack : stack[i] = caller[u].call
      BY <1>1, <3>1 DEF OnlyOne
    <3>3. ValuesOf(requests', caller[u].call)
      BY <1>3, <1>5, <2>1, <2>3, <3>2, ValuesAppend
    <3>4. QED
      BY <3>1, <3>2, <3>3
  <2>4. QED
    BY <2>2, <2>3
<1>12. QED
  BY <1>7, <1>9, <1>10, <1>11 DEF RpcInv, CallsSound

(* A thread that gets an answer takes one off the stack, and is one less that*)
(* waits.  If it was not mixed every answer on the stack is its own.        *)
LEMMA PopSound ==
  ASSUME RpcInv, NEW t \in Threads, Pop(t)
  PROVE  RpcInv'
<1> DEFINE answer == stack[Len(stack)]
           got == [call |-> caller[t].call, answer |-> answer, mixed |-> caller[t].mixed]
<1>1. /\ TypeOK /\ Balanced /\ ServingKnown /\ LeftAlone /\ OnlyOne /\ OwnAnswer
  BY DEF RpcInv, CallsSound
<1>2. /\ t \in Waiting /\ stack # <<>> /\ result' = [result EXCEPT ![t] = got]
      /\ caller' = [caller EXCEPT ![t] = NotCalling]
      /\ stack' = SubSeq(stack, 1, Len(stack) - 1)
      /\ UNCHANGED <<calls, requests, responses, last, reader, running, serving, server, stopping>>
  BY DEF Pop, wire
<1>3. /\ stack \in Seq(1 .. MaxCalls) /\ Len(stack) \in Nat /\ Len(stack) > 0
      /\ answer \in 1 .. MaxCalls /\ Len(stack) \in DOMAIN stack
  <2>1. stack \in Seq(1 .. MaxCalls) /\ stack # <<>>
    BY <1>1, <1>2 DEF TypeOK
  <2>2. Len(stack) \in Nat /\ DOMAIN stack = 1 .. Len(stack) /\ (Len(stack) = 0 => stack = <<>>)
    BY <2>1
  <2>3. Len(stack) \in DOMAIN stack /\ Len(stack) > 0
    BY <2>1, <2>2
  <2>4. QED
    BY <2>1, <2>2, <2>3, ElementOfSeq
<1>4. stack' \in Seq(1 .. MaxCalls) /\ Len(stack') = Len(stack) - 1
  <2>1. 1 .. Len(stack) - 1 \subseteq 1 .. Len(stack) /\ Len(stack) - 1 \in Nat
    BY <1>3
  <2>2. \A i \in 1 .. Len(stack) - 1 : stack[i] \in 1 .. MaxCalls
    BY <1>3, <2>1, ElementOfSeq
  <2> DEFINE popped == SubSeq(stack, 1, Len(stack) - 1)
             n == Len(stack) - 1
  <2>3. popped \in Seq(1 .. MaxCalls) /\ Len(popped) = IF 1 <= n THEN n - 1 + 1 ELSE 0
    BY <2>1, <2>2, SubSeqProperties
  <2>4. n \in Nat
    BY <2>1
  <2> HIDE DEF popped, n
  <2>5. (IF 1 <= n THEN n - 1 + 1 ELSE 0) = n
    BY <2>4
  <2>6. Len(popped) = n
    BY <2>3, <2>5
  <2>7. QED
    BY <1>2, <2>3, <2>6 DEF popped, n
<1>5. caller[t] \in [call : 0 .. MaxCalls, mixed : BOOLEAN]
  BY <1>1 DEF TypeOK
<1>6. got \in [call : 0 .. MaxCalls, answer : 0 .. MaxCalls, mixed : BOOLEAN]
  <2>1. caller[t].call \in 0 .. MaxCalls /\ answer \in 0 .. MaxCalls
    BY <1>3, <1>5
  <2>2. caller[t].mixed \in BOOLEAN
    BY <1>5, Zenon
  <2>3. QED
    BY <2>1, <2>2
<1>7. caller' \in [Threads -> [call : 0 .. MaxCalls, mixed : BOOLEAN]]
  <2>1. NotCalling \in [call : 0 .. MaxCalls, mixed : BOOLEAN]
    BY RpcAssumption DEF NotCalling
  <2>2. QED
    BY <1>1, <1>2, <2>1 DEF TypeOK
<1>8. result' \in [Threads -> [call : 0 .. MaxCalls, answer : 0 .. MaxCalls, mixed : BOOLEAN]]
  BY <1>1, <1>2, <1>6 DEF TypeOK
<1>9. TypeOK'
  BY <1>1, <1>2, <1>4, <1>7, <1>8 DEF TypeOK
<1>10. /\ Waiting' = Waiting \ {t}
       /\ \A u \in Waiting' : u \in Threads /\ u # t /\ caller'[u] = caller[u]
  <2>1. NotCalling.call = 0
    BY DEF NotCalling
  <2>2. caller'[t] = NotCalling /\ \A u \in Threads : u # t => caller'[u] = caller[u]
    BY <1>1, <1>2 DEF TypeOK
  <2>3. QED
    BY <2>1, <2>2 DEF Waiting
<1>11. Balanced'
  <2> SUFFICES ASSUME server # "done", reader = "fetch"
               PROVE  Cardinality(Waiting') = Values(requests) + Values(<<serving>>)
                                              + Values(responses) + Len(stack')
    BY <1>2 DEF Balanced
  <2>1. IsFiniteSet(Waiting) /\ Cardinality(Waiting) \in Nat
    BY RpcAssumption, FS_Subset, FS_CardinalityType DEF Waiting
  <2>2. Cardinality(Waiting') = Cardinality(Waiting) - 1
    BY <1>2, <1>10, <2>1, FS_RemoveElement
  <2>3. Values(requests) \in Nat /\ Values(responses) \in Nat /\ Values(<<serving>>) \in Nat
    BY <1>1, CountsAreNumbers
  <2>4. QED
    BY <1>1, <1>3, <1>4, <2>1, <2>2, <2>3 DEF Balanced
<1>12. ServingKnown'
  BY <1>1, <1>2 DEF ServingKnown
<1>13. LeftAlone'
  BY <1>1, <1>2, <1>10 DEF LeftAlone
<1>14. OnlyOne'
  <2> SUFFICES ASSUME server # "done", NEW u \in Waiting', ~ caller'[u].mixed
               PROVE  FALSE
    BY <1>2 DEF OnlyOne
  <2>1. u \in Waiting /\ u # t /\ ~ caller[u].mixed
    BY <1>10
  <2>2. Waiting = {u}
    BY <1>1, <2>1 DEF OnlyOne
  <2>3. QED
    BY <1>2, <2>1, <2>2
<1>15. OwnAnswer'
  <2> SUFFICES ASSUME server # "done", NEW u \in Threads
               PROVE  result'[u].answer = result'[u].call \/ result'[u].mixed
    BY <1>2 DEF OwnAnswer
  <2>1. CASE u # t
    <3>1. result'[u] = result[u]
      BY <1>1, <1>2, <2>1 DEF TypeOK
    <3>2. QED
      BY <1>1, <3>1 DEF OwnAnswer
  <2>2. CASE u = t
    <3>1. result'[u] = got
      BY <1>1, <1>2, <2>2 DEF TypeOK
    <3>2. CASE caller[t].mixed
      <4>1. got.mixed
        BY <3>2, Zenon
      <4>2. QED
        BY <3>1, <4>1
    <3>3. CASE ~ caller[t].mixed
      <4>1. answer = caller[t].call
        BY <1>1, <1>2, <1>3, <3>3 DEF OnlyOne
      <4>2. QED
        BY <3>1, <4>1
    <3>4. QED
      BY <3>2, <3>3
  <2>3. QED
    BY <2>1, <2>2
<1>16. QED
  BY <1>9, <1>11, <1>12, <1>13, <1>14, <1>15 DEF RpcInv, CallsSound

(* A step at either end that moves a frame on, or drops one of a client that *)
(* is being destroyed, keeps the counts and adds no value that was not there. *)
LEMMA ReaderSound ==
  ASSUME RpcInv, Reader
  PROVE  RpcInv'
<1>1. /\ TypeOK /\ Balanced /\ ServingKnown /\ LeftAlone /\ OnlyOne /\ OwnAnswer
  BY DEF RpcInv, CallsSound
<1>2. /\ requests \in Seq(Calls) /\ responses \in Seq(Calls) /\ stack \in Seq(1 .. MaxCalls)
      /\ last \in Calls \cup {Idle} /\ serving \in Calls \cup {Idle}
  BY <1>1 DEF TypeOK
<1>3. ASSUME NEW x \in Calls \cup {Idle}
      PROVE  /\ Pushed(x) \in Seq(1 .. MaxCalls)
             /\ Len(Pushed(x)) = Len(stack) + (IF x.kind = "value" THEN 1 ELSE 0)
             /\ \A n : (x.kind = "value" => x.call = n) /\ (\A i \in DOMAIN stack : stack[i] = n)
                         => \A i \in DOMAIN Pushed(x) : Pushed(x)[i] = n
  <2>1. CASE x.kind = "value"
    <3>1. x \in Calls /\ x.call \in 1 .. MaxCalls
      BY <2>1 DEF Calls, Idle
    <3>2. Pushed(x) = Append(stack, x.call)
      BY <2>1 DEF Pushed
    <3>3. QED
      BY <1>2, <2>1, <3>1, <3>2
  <2>2. CASE x.kind # "value"
    <3>1. Pushed(x) = stack
      BY <2>2 DEF Pushed
    <3>2. QED
      BY <1>2, <2>2, <3>1
  <2>3. QED
    BY <2>1, <2>2
<1>4. CASE ReaderFetches
  <2>1. /\ reader = "fetch" /\ responses # <<>> /\ last' = Head(responses)
        /\ responses' = Tail(responses) /\ stack' = Pushed(last')
        /\ UNCHANGED <<calls, caller, result, requests, reader, running, serving, server, stopping>>
    BY <1>4 DEF ReaderFetches, client
  <2>2. last' \in Calls /\ responses' \in Seq(Calls)
    BY <1>2, <2>1, ValuesTail
  <2>3. stack' \in Seq(1 .. MaxCalls)
    BY <1>3, <2>1, <2>2
  <2>4. TypeOK'
    BY <1>1, <2>1, <2>2, <2>3 DEF TypeOK
  <2>5. Waiting' = Waiting
    BY <2>1 DEF Waiting
  <2>6. Values(responses') + Len(stack') = Values(responses) + Len(stack)
    <3>1. Values(responses') \in Nat /\ Values(responses) \in Nat /\ Len(stack) \in Nat
      BY <1>2, <2>2, ValuesType
    <3>2. Len(stack') = Len(stack) + (IF last'.kind = "value" THEN 1 ELSE 0)
      BY <1>3, <2>1, <2>2
    <3>3. Values(responses) = Values(responses') + (IF last'.kind = "value" THEN 1 ELSE 0)
      BY <1>2, <2>1, ValuesTail
    <3>4. QED
      BY <3>1, <3>2, <3>3
  <2>7. Balanced'
    <3>1. /\ Values(requests) \in Nat /\ Values(<<serving>>) \in Nat /\ Values(responses) \in Nat
          /\ Len(stack) \in Nat
      BY <1>1, CountsAreNumbers
    <3>2. Values(responses') \in Nat /\ Len(stack') \in Nat
      BY <2>2, <2>3, ValuesType
    <3>3. requests' = requests /\ serving' = serving /\ server' = server /\ reader' = reader
      BY <2>1
    <3>4. server # "done" =>
            Cardinality(Waiting) = Values(requests) + Values(<<serving>>) + Values(responses) + Len(stack)
      BY <1>1, <2>1 DEF Balanced
    <3>5. server # "done" =>
            Cardinality(Waiting) = Values(requests) + Values(<<serving>>) + Values(responses') + Len(stack')
      BY SMTT(30), <2>6, <3>1, <3>2, <3>4
    <3>6. QED
      BY <2>5, <3>3, <3>5 DEF Balanced
  <2>8. ServingKnown' /\ LeftAlone' /\ OwnAnswer'
    BY <1>1, <2>1, <2>5 DEF ServingKnown, LeftAlone, OwnAnswer
  <2>9. OnlyOne'
    <3> SUFFICES ASSUME server # "done", NEW u \in Waiting, ~ caller[u].mixed
                 PROVE  /\ Waiting = {u}
                        /\ ValuesOf(requests, caller[u].call) /\ ValuesOf(<<serving>>, caller[u].call)
                        /\ ValuesOf(responses', caller[u].call)
                        /\ \A i \in DOMAIN stack' : stack'[i] = caller[u].call
      BY <2>1, <2>5 DEF OnlyOne
    <3>1. /\ Waiting = {u}
          /\ ValuesOf(requests, caller[u].call) /\ ValuesOf(<<serving>>, caller[u].call)
          /\ ValuesOf(responses, caller[u].call)
          /\ \A i \in DOMAIN stack : stack[i] = caller[u].call
      BY <1>1 DEF OnlyOne
    <3>2. /\ ValuesOf(responses', caller[u].call)
          /\ last'.kind = "value" => last'.call = caller[u].call
      BY <1>2, <2>1, <3>1, ValuesTail
    <3>3. \A i \in DOMAIN stack' : stack'[i] = caller[u].call
      BY <1>3, <2>1, <2>2, <3>1, <3>2
    <3>4. QED
      BY <3>1, <3>2, <3>3
  <2>10. QED
    BY <2>4, <2>7, <2>8, <2>9 DEF RpcInv, CallsSound
<1>5. ASSUME ReaderAlone \/ ReaderRepeats \/ ReaderEnds
      PROVE  RpcInv'
  <2>1. /\ UNCHANGED <<calls, caller, result, requests, last, running, serving, server, stopping>>
        /\ reader' \in {"alone", "done"} /\ (server = "done" \/ ~ running)
        /\ responses' \in {<<>>, responses} /\ stack' \in {stack, Pushed(last)}
    BY <1>1, <1>5 DEF ReaderAlone, ReaderRepeats, ReaderEnds, client, wire, LeftAlone
  <2>2. Waiting' = Waiting /\ (server = "done" \/ Waiting = {})
    BY <1>1, <2>1 DEF Waiting, LeftAlone
  <2>3. responses' \in Seq(Calls) /\ stack' \in Seq(1 .. MaxCalls)
    <3>1. <<>> \in Seq(Calls) /\ Pushed(last) \in Seq(1 .. MaxCalls)
      BY <1>2, <1>3
    <3>2. QED
      BY <1>2, <2>1, <3>1
  <2>4. TypeOK'
    BY <1>1, <2>1, <2>3 DEF TypeOK
  <2>5. Balanced' /\ OnlyOne'
    BY <2>1, <2>2 DEF Balanced, OnlyOne
  <2>6. ServingKnown' /\ LeftAlone' /\ OwnAnswer'
    BY <1>1, <2>1, <2>2 DEF ServingKnown, LeftAlone, OwnAnswer
  <2>7. QED
    BY <2>4, <2>5, <2>6 DEF RpcInv, CallsSound
<1>6. QED
  BY <1>4, <1>5 DEF Reader

(* The server takes the first request in hand.                              *)
LEMMA ServerFetchesSound ==
  ASSUME RpcInv, ServerFetches
  PROVE  RpcInv'
<1>1. /\ TypeOK /\ Balanced /\ ServingKnown /\ LeftAlone /\ OnlyOne /\ OwnAnswer
  BY DEF RpcInv, CallsSound
<1>2. /\ server = "fetch" /\ requests # <<>> /\ serving' = Head(requests)
      /\ requests' = Tail(requests) /\ server' = "run"
      /\ UNCHANGED <<calls, caller, result, responses, stack, last, reader, running, stopping>>
  BY DEF ServerFetches, client, reading
<1>3. /\ requests \in Seq(Calls) /\ responses \in Seq(Calls) /\ stack \in Seq(1 .. MaxCalls)
  BY <1>1 DEF TypeOK
<1>4. serving' \in Calls /\ requests' \in Seq(Calls)
  BY <1>2, <1>3, ValuesTail
<1>5. serving = Idle /\ Idle \in Calls \cup {Idle} /\ Idle.kind = "void"
  BY <1>1, <1>2 DEF ServingKnown, Idle
<1>6. TypeOK'
  BY <1>1, <1>2, <1>4 DEF TypeOK
<1>7. Waiting' = Waiting
  BY <1>2 DEF Waiting
<1>8. Values(<<serving>>) = 0
  BY <1>5, ValuesOne
<1>9. Values(<<serving'>>) = IF serving'.kind = "value" THEN 1 ELSE 0
  BY <1>4, ValuesOne
<1>10. Values(requests) = Values(requests') + (IF serving'.kind = "value" THEN 1 ELSE 0)
  BY <1>2, <1>3, ValuesTail
<1>11. Balanced'
  <2>1. /\ Values(requests) \in Nat /\ Values(responses) \in Nat /\ Len(stack) \in Nat
        /\ Values(requests') \in Nat
    BY <1>1, <1>4, CountsAreNumbers, ValuesType
  <2>2. reader = "fetch" =>
          Cardinality(Waiting) = Values(requests) + Values(<<serving>>) + Values(responses) + Len(stack)
    BY <1>1, <1>2 DEF Balanced
  <2>3. reader = "fetch" =>
          Cardinality(Waiting) = Values(requests') + Values(<<serving'>>) + Values(responses) + Len(stack)
    BY <1>8, <1>9, <1>10, <2>1, <2>2
  <2>4. QED
    BY <1>2, <1>7, <2>3 DEF Balanced
<1>12. ServingKnown' /\ LeftAlone'
  BY <1>1, <1>2, <1>4, <1>7 DEF ServingKnown, LeftAlone
<1>13. OwnAnswer'
  BY <1>1, <1>2 DEF OwnAnswer
<1>14. OnlyOne'
  <2> SUFFICES ASSUME NEW u \in Waiting, ~ caller[u].mixed
               PROVE  /\ Waiting = {u}
                      /\ ValuesOf(requests', caller[u].call)
                      /\ ValuesOf(<<serving'>>, caller[u].call)
                      /\ ValuesOf(responses, caller[u].call)
                      /\ \A i \in DOMAIN stack : stack[i] = caller[u].call
    BY <1>2, <1>7 DEF OnlyOne
  <2>1. /\ Waiting = {u}
        /\ ValuesOf(requests, caller[u].call) /\ ValuesOf(responses, caller[u].call)
        /\ \A i \in DOMAIN stack : stack[i] = caller[u].call
    BY <1>1, <1>2 DEF OnlyOne
  <2>2. /\ ValuesOf(requests', caller[u].call)
        /\ serving'.kind = "value" => serving'.call = caller[u].call
    BY <1>2, <1>3, <2>1, ValuesTail
  <2>3. ValuesOf(<<serving'>>, caller[u].call)
    BY <1>4, <2>2, ValuesOne
  <2>4. QED
    BY <2>1, <2>2, <2>3
<1>15. QED
  BY <1>6, <1>11, <1>12, <1>13, <1>14 DEF RpcInv, CallsSound

(* What it had in hand it puts behind the responses.                        *)
LEMMA ServerRunsSound ==
  ASSUME RpcInv, ServerRuns
  PROVE  RpcInv'
<1>1. /\ TypeOK /\ Balanced /\ ServingKnown /\ LeftAlone /\ OnlyOne /\ OwnAnswer
  BY DEF RpcInv, CallsSound
<1>2. /\ server = "run" /\ serving' = Idle /\ server' \in {"left", "fetch"}
      /\ responses' = (IF running THEN Append(responses, serving) ELSE responses)
      /\ UNCHANGED <<calls, caller, result, requests, stack, last, reader, running, stopping>>
  BY DEF ServerRuns, Answered, client, reading
<1>3. /\ requests \in Seq(Calls) /\ responses \in Seq(Calls) /\ stack \in Seq(1 .. MaxCalls)
      /\ serving \in Calls
  BY <1>1, <1>2 DEF TypeOK, ServingKnown
<1>4. responses' \in Seq(Calls)
  BY <1>2, <1>3
<1>5. Idle \in Calls \cup {Idle} /\ Idle.kind = "void"
  BY DEF Idle
<1>6. TypeOK'
  BY <1>1, <1>2, <1>4, <1>5 DEF TypeOK
<1>7. Waiting' = Waiting
  BY <1>2 DEF Waiting
<1>8. Values(<<serving'>>) = 0 /\ \A n : ValuesOf(<<serving'>>, n)
  BY <1>2, <1>5, ValuesOne
<1>9. ServingKnown' /\ LeftAlone'
  BY <1>1, <1>2, <1>7 DEF ServingKnown, LeftAlone
<1>10. OwnAnswer'
  BY <1>1, <1>2 DEF OwnAnswer
<1>11. CASE running
  <2>1. responses' = Append(responses, serving)
    BY <1>2, <1>11
  <2>2. Values(responses') = Values(responses) + (IF serving.kind = "value" THEN 1 ELSE 0)
    BY <1>3, <2>1, ValuesAppend
  <2>3. Values(<<serving>>) = IF serving.kind = "value" THEN 1 ELSE 0
    BY <1>3, ValuesOne
  <2>4. Balanced'
    <3>1. Values(requests) \in Nat /\ Values(responses) \in Nat /\ Len(stack) \in Nat
      BY <1>1, CountsAreNumbers
    <3>2. reader = "fetch" =>
            Cardinality(Waiting) = Values(requests) + Values(<<serving>>) + Values(responses) + Len(stack)
      BY <1>1, <1>2 DEF Balanced
    <3>3. reader = "fetch" =>
            Cardinality(Waiting) = Values(requests) + Values(<<serving'>>) + Values(responses') + Len(stack)
      BY <1>8, <2>2, <2>3, <3>1, <3>2
    <3>4. QED
      BY <1>2, <1>7, <3>3 DEF Balanced
  <2>5. OnlyOne'
    <3> SUFFICES ASSUME NEW u \in Waiting, ~ caller[u].mixed
                 PROVE  /\ Waiting = {u}
                        /\ ValuesOf(requests, caller[u].call)
                        /\ ValuesOf(<<serving'>>, caller[u].call)
                        /\ ValuesOf(responses', caller[u].call)
                        /\ \A i \in DOMAIN stack : stack[i] = caller[u].call
      BY <1>2, <1>7 DEF OnlyOne
    <3>1. /\ Waiting = {u}
          /\ ValuesOf(requests, caller[u].call) /\ ValuesOf(<<serving>>, caller[u].call)
          /\ ValuesOf(responses, caller[u].call)
          /\ \A i \in DOMAIN stack : stack[i] = caller[u].call
      BY <1>1, <1>2 DEF OnlyOne
    <3>2. serving.kind = "value" => serving.call = caller[u].call
      BY <1>3, <3>1, ValuesOne
    <3>3. ValuesOf(responses', caller[u].call)
      BY <1>3, <2>1, <3>1, <3>2, ValuesAppend
    <3>4. QED
      BY <1>8, <3>1, <3>3
  <2>6. QED
    BY <1>6, <1>9, <1>10, <2>4, <2>5 DEF RpcInv, CallsSound
<1>12. CASE ~ running
  <2>1. Waiting = {} /\ responses' = responses
    BY <1>1, <1>2, <1>12 DEF LeftAlone
  <2>2. OnlyOne'
    BY <1>7, <2>1 DEF OnlyOne
  <2>3. Balanced'
    <3> SUFFICES ASSUME reader = "fetch"
                 PROVE  Cardinality(Waiting) = Values(requests) + Values(<<serving'>>)
                                               + Values(responses) + Len(stack)
      BY <1>2, <1>7, <2>1 DEF Balanced
    <3>1. Values(requests) = 0 /\ Values(responses) = 0 /\ stack = <<>>
      BY <1>1, <1>2, <2>1, NothingForNobody
    <3>2. QED
      BY <1>8, <2>1, <3>1, FS_EmptySet
  <2>4. QED
    BY <1>6, <1>9, <1>10, <2>2, <2>3 DEF RpcInv, CallsSound
<1>13. QED
  BY <1>11, <1>12

(* Steps after which nobody waits, or the server is gone, or nothing counted*)
(* is elsewhere.                                                            *)
LEMMA OtherStepsSound ==
  ASSUME RpcInv,
         \/ \E t \in Threads : CallFails(t)
         \/ Destroy
         \/ ServerLeaves
         \/ ServerStops
         \/ ServerDies
         \/ UNCHANGED vars
  PROVE  RpcInv'
<1>1. /\ TypeOK /\ Balanced /\ ServingKnown /\ LeftAlone /\ OnlyOne /\ OwnAnswer
  BY DEF RpcInv, CallsSound
<1>2. CASE \E t \in Threads : CallFails(t)
  <2>1. /\ calls' = calls + 1 /\ calls < MaxCalls
        /\ UNCHANGED <<caller, result, requests, responses, stack, last, reader, running,
                       serving, server, stopping>>
    BY <1>2 DEF CallFails, wire, reading
  <2>2. TypeOK'
    BY <1>1, <2>1, RpcAssumption DEF TypeOK
  <2>3. Waiting' = Waiting
    BY <2>1 DEF Waiting
  <2>4. Balanced' /\ ServingKnown' /\ LeftAlone'
    BY <1>1, <2>1, <2>3 DEF Balanced, ServingKnown, LeftAlone
  <2>5. OnlyOne' /\ OwnAnswer'
    BY <1>1, <2>1, <2>3 DEF OnlyOne, OwnAnswer
  <2>6. QED
    BY <2>2, <2>4, <2>5 DEF RpcInv, CallsSound
<1>3. CASE Destroy \/ ServerStops \/ UNCHANGED vars
  <2>1. /\ UNCHANGED <<calls, caller, result, requests, responses, stack, last, reader,
                       serving, server>>
        /\ running' = running \/ (running' = FALSE /\ Waiting = {})
        /\ running' \in BOOLEAN /\ stopping' \in BOOLEAN
    <3>1. UNCHANGED <<calls, caller, result, requests, responses, stack, last, reader,
                      serving, server>>
      BY <1>3 DEF Destroy, ServerStops, vars, client, wire, reading
    <3>2. running' = running \/ (running' = FALSE /\ Waiting = {})
      BY <1>3 DEF Destroy, ServerStops, vars
    <3>3. running \in BOOLEAN /\ stopping \in BOOLEAN
      BY <1>1 DEF TypeOK
    <3>4. stopping' \in BOOLEAN
      BY <1>3, <3>3 DEF Destroy, ServerStops, vars
    <3>5. QED
      BY <3>1, <3>2, <3>3, <3>4
  <2>2. TypeOK'
    BY <1>1, <2>1 DEF TypeOK
  <2>3. Waiting' = Waiting
    BY <2>1 DEF Waiting
  <2>4. Balanced' /\ ServingKnown'
    BY <1>1, <2>1, <2>3 DEF Balanced, ServingKnown
  <2>5. LeftAlone'
    BY <1>1, <2>1, <2>3 DEF LeftAlone
  <2>6. OnlyOne' /\ OwnAnswer'
    BY <1>1, <2>1, <2>3 DEF OnlyOne, OwnAnswer
  <2>7. QED
    BY <2>2, <2>4, <2>5, <2>6 DEF RpcInv, CallsSound
<1>4. CASE ServerLeaves \/ ServerDies
  <2>1. /\ UNCHANGED <<calls, caller, result, responses, stack, last, reader, running, stopping>>
        /\ server' = "done" /\ requests' = <<>>
    BY <1>4 DEF ServerLeaves, ServerDies, client, reading
  <2>2. serving' = Idle
    BY <1>1, <1>4 DEF ServerLeaves, ServerDies, ServingKnown
  <2>3. TypeOK'
    <3>1. <<>> \in Seq(Calls)
      OBVIOUS
    <3>2. QED
      BY <1>1, <2>1, <2>2, <3>1 DEF TypeOK
  <2>4. Waiting' = Waiting
    BY <2>1 DEF Waiting
  <2>5. Balanced' /\ OnlyOne' /\ OwnAnswer'
    BY <2>1 DEF Balanced, OnlyOne, OwnAnswer
  <2>6. ServingKnown' /\ LeftAlone'
    BY <1>1, <2>1, <2>2, <2>4 DEF ServingKnown, LeftAlone
  <2>7. QED
    BY <2>3, <2>5, <2>6 DEF RpcInv, CallsSound
<1>5. QED
  BY <1>2, <1>3, <1>4

(* Every step.                                                              *)
LEMMA RpcStepSound == RpcInv /\ [Next]_vars => RpcInv'
<1> SUFFICES ASSUME RpcInv, [Next]_vars PROVE RpcInv'
  OBVIOUS
<1>1. ASSUME NEW t \in Threads, NEW kind \in Kinds, Call(t, kind) PROVE RpcInv'
  BY <1>1, CallSound
<1>2. ASSUME NEW t \in Threads, Pop(t) PROVE RpcInv'
  BY <1>2, PopSound
<1>3. ASSUME Reader PROVE RpcInv'
  BY <1>3, ReaderSound
<1>4. ASSUME ServerFetches \/ ServerRuns PROVE RpcInv'
  BY <1>4, ServerFetchesSound, ServerRunsSound
<1>5. ASSUME \/ \E t \in Threads : CallFails(t)
             \/ Destroy
             \/ ServerLeaves
             \/ ServerStops
             \/ ServerDies
             \/ UNCHANGED vars
      PROVE  RpcInv'
  BY <1>5, OtherStepsSound
<1>6. QED
  BY <1>1, <1>2, <1>3, <1>4, <1>5 DEF Next, Server

(* Both invariants of the calls, which are inductive together: that the answer*)
(* on top of the stack is its own is known of a caller that was never mixed *)
(* with another, from the moment it calls until it returns.                 *)
THEOREM RpcInvariant == Spec => []RpcInv
<1>1. Init => RpcInv
  BY RpcInitSound
<1>2. RpcInv /\ [Next]_vars => RpcInv'
  BY RpcStepSound
<1>3. QED
  BY <1>1, <1>2, PTL DEF Spec

(* There is exactly one answer, made or to be made, for each thread that waits*)
(* in RPCClientThread::call, as long as the connection stands, whatever void*)
(* calls and server steps come in between (rpc.cpp:34, 130, 317).           *)
THEOREM OneAnswerForEachCall == Spec => []CallsSound
<1>1. RpcInv => CallsSound
  BY DEF RpcInv
<1>2. QED
  BY <1>1, RpcInvariant, PTL

(* A call that no other call of its process overlapped returns its own answer,*)
(* as long as the server is there (rpc.h, RPCClientThread::call).           *)
THEOREM LoneCallerGetsItsAnswer == Spec => []OwnAnswer
<1>1. RpcInv => OwnAnswer
  BY DEF RpcInv
<1>2. QED
  BY <1>1, RpcInvariant, PTL

------------------------------------------------------------------------------
(* RdbHistory: the proof is in three parts.  Places says where threads may be*)
(* and holds of every step; FaultsKnown and StandoffOnlyAtStart follow from *)
(* it; HistData, what is in the table and the buffer, is kept by every step *)
(* that meets no fault.                                                     *)

(* Where each thread is, and what there is then.                            *)
Places == HistoryTypeOK /\ WhoActs /\ BufferThere /\ WritersAlone

Steps == {"idle", "logs", "makes_room", "asks", "flushes", "reads"}
Records == [key : RdbKeys, n : 1 .. MaxHistChanges]

(* Threads, keys and steps.                                                 *)
LEMMA ThreadFacts ==
  /\ HistMain \in HistThreads /\ Metrics \in HistThreads /\ HistMain # Metrics
  /\ HistMain \notin RpcWriters /\ Metrics \notin RpcWriters /\ RpcWriters \subseteq HistThreads
  /\ \A t \in HistThreads : t \in RpcWriters \/ t = HistMain \/ t = Metrics
  /\ FirstMetric \in RdbKeys /\ OtherMetric \in RdbKeys /\ UserKeys \subseteq RdbKeys
  /\ AllIdle \in [HistThreads -> Steps] /\ \A t \in HistThreads : AllIdle[t] = "idle"
BY HistoryAssumption DEF HistThreads, HistMain, Metrics, RdbKeys, AllIdle, Steps

(* The record a writer is about to add is the last change of its key.        *)
LEMMA RecordFacts ==
  ASSUME HistoryTypeOK, WritersAlone, NEW t \in HistThreads, WritesEntry(t)
  PROVE  /\ Record(t) \in Records /\ Record(t).key = key_y[t] /\ key_y[t] \in RdbKeys
         /\ Len(changes_y[key_y[t]]) \in DOMAIN changes_y[key_y[t]]
         /\ Record(t).n = changes_y[key_y[t]][Len(changes_y[key_y[t]])]
<1> DEFINE c == changes_y[key_y[t]]
<1>1. key_y[t] \in RdbKeys /\ c \in Seq(1 .. MaxHistChanges) /\ c # <<>>
  BY DEF HistoryTypeOK, WritersAlone
<1> HIDE DEF c
<1>2. Len(c) \in Nat /\ DOMAIN c = 1 .. Len(c) /\ (Len(c) = 0 => c = <<>>)
  BY <1>1
<1>3. Len(c) \in DOMAIN c
  BY <1>1, <1>2
<1>4. c[Len(c)] \in 1 .. MaxHistChanges
  BY <1>1, <1>2, <1>3, ElementOfSeq
<1>5. Record(t) = [key |-> key_y[t], n |-> c[Len(c)]]
  BY DEF Record, Last, c
<1>6. QED
  BY <1>1, <1>3, <1>4, <1>5 DEF Records, c

(* A step of one thread t.                                                   *)
LEMMA OneMoves ==
  ASSUME HistoryTypeOK, NEW t \in HistThreads, NEW s \in Steps, At(t, s)
  PROVE  /\ step_y' \in [HistThreads -> Steps] /\ step_y'[t] = s
         /\ \A u \in HistThreads : u # t => step_y'[u] = step_y[u]
BY DEF HistoryTypeOK, At, Steps

(* Writers stay alone when nobody comes to an entry.                        *)
LEMMA WritersKept ==
  ASSUME WritersAlone,
         \A u \in HistThreads : WritesEntry(u)' =>
           WritesEntry(u) /\ key_y'[u] = key_y[u] /\ changes_y'[key_y[u]] # <<>>,
         \A u \in Sharing' : u \in Sharing /\ key_y'[u] = key_y[u]
  PROVE  WritersAlone'
BY DEF WritersAlone

(* A write numbers its change and puts it behind the others of its key.     *)
LEMMA ChangesFacts ==
  ASSUME HistoryTypeOK, NEW t \in HistThreads, NEW k \in RdbKeys, Changes(t, k)
  PROVE  /\ made_y' \in 0 .. MaxHistChanges /\ made_y' = made_y + 1 /\ made_y \in Nat
         /\ changes_y' \in [RdbKeys -> Seq(1 .. MaxHistChanges)]
         /\ key_y' \in [HistThreads -> RdbKeys] /\ key_y'[t] = k
         /\ \A u \in HistThreads : u # t => key_y'[u] = key_y[u]
         /\ \A l \in RdbKeys : l # k => changes_y'[l] = changes_y[l]
         /\ changes_y'[k] = Append(changes_y[k], made_y') /\ changes_y'[k] # <<>>
<1>1. made_y \in 0 .. MaxHistChanges /\ made_y < MaxHistChanges /\ made_y' = made_y + 1
  BY DEF Changes, HistoryTypeOK
<1>2. made_y + 1 \in 1 .. MaxHistChanges /\ made_y' \in 0 .. MaxHistChanges /\ made_y \in Nat
  BY <1>1, HistoryAssumption
<1>3. changes_y[k] \in Seq(1 .. MaxHistChanges)
  BY DEF HistoryTypeOK
<1>4. /\ Append(changes_y[k], made_y + 1) \in Seq(1 .. MaxHistChanges)
      /\ Append(changes_y[k], made_y + 1) # <<>>
  BY <1>2, <1>3, AppendProperties, EmptySeq
<1>5. changes_y' = [changes_y EXCEPT ![k] = Append(changes_y[k], made_y + 1)]
  BY DEF Changes
<1>6. key_y' = [key_y EXCEPT ![t] = k]
  BY DEF Changes
<1>7. QED
  BY <1>1, <1>2, <1>4, <1>5, <1>6 DEF HistoryTypeOK

(* A thread moves only as the stage of the main thread allows, to the next  *)
(* step of its call; one that comes to an entry finds no writer there.      *)
LEMMA PlacesStep == Places /\ [HistoryNext]_vars_z => Places'
<1> SUFFICES ASSUME Places, [HistoryNext]_vars_z PROVE Places'
  OBVIOUS
<1> USE HistoryAssumption, ThreadFacts DEF Places
<1>1. ASSUME NEW t \in HistThreads, NEW k \in RdbKeys, HistoryWrites(t, k) PROVE Places'
  <2>1. HistoryTypeOK'
    <3>1. Changes(t, k) /\ At(t, "logs") /\ t \in HistThreads /\ k \in RdbKeys
      BY <1>1 DEF HistoryWrites
    <3>2. step_y' \in [HistThreads -> Steps]
      BY <3>1, OneMoves DEF Steps
    <3>3. /\ made_y' \in 0 .. MaxHistChanges /\ changes_y' \in [RdbKeys -> Seq(1 .. MaxHistChanges)]
          /\ key_y' \in [HistThreads -> RdbKeys]
      BY <3>1, ChangesFacts
    <3>4. QED
      BY <1>1, <3>2, <3>3 DEF HistoryWrites, HistoryTypeOK, Steps, stored_z, memory_z
  <2>2. WhoActs'
    BY SMTT(30), <1>1 DEF WhoActs, HistoryTypeOK, HistoryWrites, Changes, EntryFree, At, stored_z,
       memory_z, calls_z
  <2>3. BufferThere'
    BY <1>1 DEF BufferThere, HistoryTypeOK, WhoActs, HistoryWrites, Changes, EntryFree, At,
       stored_z, memory_z, calls_z
  <2>4. WritersAlone'
    <3>1. /\ t \notin Sharing /\ (\A u \in Sharing : key_y[u] # k)
          /\ Changes(t, k) /\ At(t, "logs")
      BY <1>1 DEF HistoryWrites, EntryFree, Sharing, WritesEntry, ReadsEntry
    <3>2. /\ key_y'[t] = k /\ (\A u \in HistThreads : u # t => key_y'[u] = key_y[u])
          /\ (\A l \in RdbKeys : l # k => changes_y'[l] = changes_y[l]) /\ changes_y'[k] # <<>>
      BY <3>1, ChangesFacts
    <3>3. \A u \in HistThreads : u # t => step_y'[u] = step_y[u]
      BY <3>1, OneMoves DEF Steps
    <3>4. \A u \in Sharing' : u = t \/ u \in Sharing
      BY <3>3 DEF Sharing, WritesEntry, ReadsEntry
    <3> SUFFICES ASSUME NEW u \in HistThreads, WritesEntry(u)'
                 PROVE  /\ changes_y'[key_y'[u]] # <<>>
                        /\ \A v \in Sharing' : v # u => key_y'[v] # key_y'[u]
      BY DEF WritersAlone
    <3>5. CASE u = t
      <4>1. \A v \in Sharing' : v # t => key_y'[v] # k
        BY <3>1, <3>2, <3>4 DEF Sharing
      <4>2. QED
        BY <3>2, <3>5, <4>1
    <3>6. CASE u # t
      <4>1. WritesEntry(u) /\ u \in Sharing /\ key_y'[u] = key_y[u] /\ key_y[u] # k
        BY <3>1, <3>2, <3>3, <3>6 DEF WritesEntry, Sharing
      <4>2. changes_y'[key_y[u]] # <<>>
        BY <3>2, <4>1 DEF WritersAlone, HistoryTypeOK
      <4>3. \A v \in Sharing' : v # u => key_y'[v] # key_y[u]
        BY <3>1, <3>2, <3>4, <4>1 DEF WritersAlone, Sharing
      <4>4. QED
        BY <4>1, <4>2, <4>3
    <3>7. QED
      BY <3>5, <3>6
  <2>5. QED
    BY <2>1, <2>2, <2>3, <2>4
<1>2. ASSUME NEW t \in HistThreads, NEW k \in RdbKeys, HistoryAsks(t, k) PROVE Places'
  <2>1. HistoryTypeOK'
    BY <1>2 DEF HistoryTypeOK, Steps, HistoryAsks, EntryReadable, At, stored_z, memory_z, calls_z
  <2>2. WhoActs'
    BY <1>2 DEF WhoActs, HistoryTypeOK, HistoryAsks, EntryReadable, At, stored_z, memory_z,
       calls_z
  <2>3. BufferThere'
    BY <1>2 DEF BufferThere, HistoryTypeOK, WhoActs, HistoryAsks, EntryReadable, At,
       stored_z, memory_z, calls_z
  <2>4. WritersAlone'
    <3>1. /\ t \notin Sharing /\ step_y[t] = "idle"
          /\ \A u \in Sharing : key_y[u] = k => ~ WritesEntry(u)
      BY <1>2 DEF HistoryAsks, EntryReadable, Sharing, WritesEntry, ReadsEntry
    <3>2. /\ key_y'[t] = k /\ step_y'[t] = "asks" /\ changes_y' = changes_y
          /\ \A u \in HistThreads : u # t => key_y'[u] = key_y[u] /\ step_y'[u] = step_y[u]
      BY <1>2 DEF HistoryAsks, HistoryTypeOK, At
    <3>3. /\ \A u \in Sharing' : u = t \/ u \in Sharing
          /\ \A u \in HistThreads : WritesEntry(u)' => u # t /\ WritesEntry(u) /\ u \in Sharing
      BY <3>2 DEF Sharing, WritesEntry, ReadsEntry
    <3> SUFFICES ASSUME NEW u \in HistThreads, WritesEntry(u)'
                 PROVE  /\ changes_y'[key_y'[u]] # <<>>
                        /\ \A v \in Sharing' : v # u => key_y'[v] # key_y'[u]
      BY DEF WritersAlone
    <3>4. u # t /\ WritesEntry(u) /\ u \in Sharing /\ key_y'[u] = key_y[u] /\ key_y[u] # k
      BY <3>1, <3>2, <3>3
    <3>5. \A v \in Sharing' : v # u => key_y'[v] # key_y'[u]
      <4> SUFFICES ASSUME NEW v \in Sharing', v # u PROVE key_y'[v] # key_y[u]
        BY <3>4
      <4>1. CASE v = t
        BY <3>2, <3>4, <4>1
      <4>2. CASE v # t
        BY <3>2, <3>3, <3>4, <4>2 DEF WritersAlone, Sharing
      <4>3. QED
        BY <4>1, <4>2
    <3>6. QED
      BY <3>2, <3>4, <3>5 DEF WritersAlone
  <2>5. QED
    BY <2>1, <2>2, <2>3, <2>4
<1>3. ASSUME NEW t \in HistThreads, NEW k \in RdbKeys, RdbToggleHistory(t, k) PROVE Places'
  <2>1. HistoryTypeOK'
    BY <1>3 DEF HistoryTypeOK, Steps, RdbToggleHistory, EntryFree, At, stored_z, memory_z, calls_z
  <2>2. WhoActs'
    BY <1>3 DEF WhoActs, HistoryTypeOK, RdbToggleHistory, EntryFree, At, stored_z, memory_z,
       calls_z
  <2>3. BufferThere'
    BY <1>3 DEF BufferThere, HistoryTypeOK, WhoActs, RdbToggleHistory, EntryFree, At,
       stored_z, memory_z, calls_z
  <2>4. WritersAlone'
    BY SMTT(30), <1>3 DEF WritersAlone, HistoryTypeOK, WhoActs, Sharing, WritesEntry, ReadsEntry,
       RdbToggleHistory, EntryFree, At, stored_z, memory_z, calls_z
  <2>5. QED
    BY <2>1, <2>2, <2>3, <2>4
<1>4. ASSUME NEW t \in HistThreads, HistoryAdds(t) PROVE Places'
  <2>1. HistoryTypeOK'
    <3>1. WritesEntry(t) /\ At(t, "idle") /\ hist_y' = Append(hist_y, Record(t))
      BY <1>4 DEF HistoryAdds, WritesEntry
    <3>2. hist_y' \in Seq(Records)
      BY <3>1, RecordFacts, AppendProperties DEF HistoryTypeOK, Records
    <3>3. step_y' \in [HistThreads -> Steps]
      BY <3>1, OneMoves DEF Steps
    <3>4. QED
      BY <1>4, <3>2, <3>3 DEF HistoryAdds, HistoryTypeOK, Steps, Records, stored_z
  <2>2. WhoActs'
    BY <1>4 DEF WhoActs, HistoryTypeOK, HistoryAdds, At, stored_z, memory_z, calls_z
  <2>3. BufferThere'
    BY <1>4 DEF BufferThere, HistoryTypeOK, WhoActs, HistoryAdds, At, stored_z, memory_z, calls_z
  <2>4. WritersAlone'
    <3>1. \A u \in HistThreads : u \in Sharing' => u \in Sharing /\ key_y'[u] = key_y[u]
      BY <1>4 DEF HistoryTypeOK, WhoActs, Sharing, WritesEntry, ReadsEntry, HistoryAdds, At,
         calls_z
    <3>2. \A u \in HistThreads : WritesEntry(u)' =>
            WritesEntry(u) /\ key_y'[u] = key_y[u] /\ changes_y'[key_y[u]] # <<>>
      BY <1>4 DEF HistoryTypeOK, WritersAlone, WritesEntry, HistoryAdds, At, calls_z
    <3>3. QED
      BY <3>1, <3>2, WritersKept DEF Sharing
  <2>5. QED
    BY <2>1, <2>2, <2>3, <2>4
<1>5. ASSUME NEW t \in HistThreads, HistoryFull(t) PROVE Places'
  <2>1. HistoryTypeOK'
    BY <1>5 DEF HistoryTypeOK, Steps, HistoryFull, At, stored_z, memory_z, calls_z
  <2>2. WhoActs'
    <3>1. step_y[t] = "logs" /\ server_y \in {"up", "closes"} /\ server_y # "closes" /\ t # HistMain
      BY <1>5 DEF HistoryFull, WhoActs, BufferThere, HistoryFree
    <3>2. step_y'[t] = "makes_room" /\ \A u \in HistThreads : u # t => step_y'[u] = step_y[u]
      BY <1>5, OneMoves DEF HistoryFull, Steps
    <3>3. server_y' = server_y
      BY <1>5 DEF HistoryFull
    <3>4. QED
      BY <3>1, <3>2, <3>3 DEF WhoActs
  <2>3. BufferThere'
    BY <1>5 DEF BufferThere, HistoryTypeOK, WhoActs, HistoryFull, At, stored_z, memory_z, calls_z
  <2>4. WritersAlone'
    <3>1. \A u \in HistThreads : u \in Sharing' => u \in Sharing /\ key_y'[u] = key_y[u]
      BY <1>5 DEF HistoryTypeOK, WhoActs, Sharing, WritesEntry, ReadsEntry, HistoryFull, At,
         calls_z
    <3>2. \A u \in HistThreads : WritesEntry(u)' =>
            WritesEntry(u) /\ key_y'[u] = key_y[u] /\ changes_y'[key_y[u]] # <<>>
      BY <1>5 DEF HistoryTypeOK, WritersAlone, WritesEntry, HistoryFull, At, calls_z
    <3>3. QED
      BY <3>1, <3>2, WritersKept DEF Sharing
  <2>5. QED
    BY <2>1, <2>2, <2>3, <2>4
<1>6. ASSUME NEW t \in HistThreads, FlushRow(t) PROVE Places'
  <2>1. HistoryTypeOK'
    <3> DEFINE r == Head(hist_y)
    <3>1. hist_y \in Seq(Records) /\ hist_y # <<>> /\ hist_y' = Tail(hist_y)
          /\ rows_y' = [rows_y EXCEPT ![r.key] = Append(rows_y[r.key], r.n)]
      BY <1>6 DEF FlushRow, HistoryTypeOK, Records
    <3>2. r \in Records /\ hist_y' \in Seq(Records)
      BY <3>1, HeadTailProperties
    <3>3. r.key \in RdbKeys /\ r.n \in 1 .. MaxHistChanges
      BY <3>2 DEF Records
    <3> HIDE DEF r
    <3>4. Append(rows_y[r.key], r.n) \in Seq(1 .. MaxHistChanges)
      BY <3>3, AppendProperties DEF HistoryTypeOK
    <3>5. rows_y' \in [RdbKeys -> Seq(1 .. MaxHistChanges)]
      BY <3>1, <3>3, <3>4 DEF HistoryTypeOK
    <3>6. QED
      BY <1>6, <3>2, <3>5 DEF FlushRow, HistoryTypeOK, Records, calls_z
  <2>2. WhoActs'
    BY <1>6 DEF WhoActs, HistoryTypeOK, FlushRow, At, stored_z, memory_z, calls_z
  <2>3. BufferThere'
    BY <1>6 DEF BufferThere, HistoryTypeOK, WhoActs, FlushRow, At, stored_z, memory_z, calls_z
  <2>4. WritersAlone'
    BY SMTT(30), <1>6 DEF WritersAlone, HistoryTypeOK, WhoActs, Sharing, WritesEntry, ReadsEntry,
       FlushRow, At, stored_z, memory_z, calls_z
  <2>5. QED
    BY <2>1, <2>2, <2>3, <2>4
<1>7. ASSUME NEW t \in HistThreads, RoomMade(t) PROVE Places'
  <2>1. HistoryTypeOK'
    <3>1. WritesEntry(t)
      BY <1>7 DEF RoomMade, WritesEntry
    <3>2. Record(t) \in Records
      BY <3>1, RecordFacts
    <3>3. <<Record(t)>> \in Seq(Records) /\ <<>> \in Seq(Records)
      BY <3>2
    <3>4. hist_y' \in Seq(Records)
      BY <1>7, <3>3 DEF RoomMade, Falls, Unnoticed
    <3>5. step_y' \in [HistThreads -> Steps]
      BY <1>7, OneMoves DEF RoomMade, Falls, Unnoticed, Steps
    <3>6. buffer_y' \in {buffer_y, "none"} /\ server_y' \in {server_y, "down"}
      BY <1>7 DEF RoomMade, Falls, Unnoticed
    <3>7. UNCHANGED <<enabled, binary, rows_y, key_y, changes_y, made_y>>
      BY <1>7 DEF RoomMade, Falls, Unnoticed, stored_z
    <3>8. QED
      BY <3>4, <3>5, <3>6, <3>7 DEF HistoryTypeOK, Records, Steps
  <2>2. WhoActs'
    BY SMTT(30), <1>7 DEF WhoActs, HistoryTypeOK, RoomMade, Falls, Unnoticed, At, stored_z, memory_z,
       calls_z
  <2>3. BufferThere'
    BY <1>7 DEF BufferThere, HistoryTypeOK, WhoActs, RoomMade, Falls, Unnoticed
  <2>4. WritersAlone'
    <3>1. \A u \in HistThreads : u \in Sharing' => u \in Sharing /\ key_y'[u] = key_y[u]
      BY SMTT(30), <1>7 DEF HistoryTypeOK, WhoActs, Sharing, WritesEntry, ReadsEntry, RoomMade, Falls,
         Unnoticed, At, calls_z
    <3>2. \A u \in HistThreads : WritesEntry(u)' =>
            WritesEntry(u) /\ key_y'[u] = key_y[u] /\ changes_y'[key_y[u]] # <<>>
      BY <1>7 DEF HistoryTypeOK, WritersAlone, WritesEntry, RoomMade, Falls, Unnoticed, At,
         calls_z
    <3>3. QED
      BY <3>1, <3>2, WritersKept DEF Sharing
  <2>5. QED
    BY <2>1, <2>2, <2>3, <2>4
<1>8. ASSUME NEW t \in HistThreads, AddsTooEarly(t) PROVE Places'
  <2>1. HistoryTypeOK'
    BY SMTT(30), <1>8 DEF HistoryTypeOK, Steps, AddsTooEarly, Falls, At, stored_z, memory_z, calls_z
  <2>2. WhoActs'
    BY <1>8 DEF WhoActs, HistoryTypeOK, AddsTooEarly, Falls, At, stored_z, memory_z, calls_z
  <2>3. BufferThere'
    BY <1>8 DEF BufferThere, HistoryTypeOK, WhoActs, AddsTooEarly, Falls, At, stored_z,
       memory_z, calls_z
  <2>4. WritersAlone'
    BY <1>8 DEF WritersAlone, HistoryTypeOK, WhoActs, Sharing, WritesEntry, ReadsEntry,
       AddsTooEarly, Falls, At, stored_z, memory_z, calls_z
  <2>5. QED
    BY <2>1, <2>2, <2>3, <2>4
<1>9. ASSUME NEW t \in HistThreads, AddsTooLate(t) PROVE Places'
  <2>1. HistoryTypeOK'
    <3>1. hist_y' \in Seq(Records)
      <4>1. hist_y \in Seq(Records) /\ <<>> \in Seq(Records)
        BY DEF HistoryTypeOK, Records
      <4>2. hist_y' = hist_y \/ hist_y' = <<>>
        BY <1>9 DEF AddsTooLate, Falls, Unnoticed
      <4>3. QED
        BY <4>1, <4>2
    <3>2. step_y' \in [HistThreads -> Steps]
      BY <1>9, OneMoves DEF AddsTooLate, Falls, Unnoticed, Steps
    <3>3. buffer_y' \in {buffer_y, "none"} /\ server_y' \in {server_y, "down"}
      BY <1>9 DEF AddsTooLate, Falls, Unnoticed
    <3>4. UNCHANGED <<enabled, binary, rows_y, key_y, changes_y, made_y>>
      BY <1>9 DEF AddsTooLate, Falls, Unnoticed, stored_z
    <3>5. QED
      BY <3>1, <3>2, <3>3, <3>4 DEF HistoryTypeOK, Records, Steps
  <2>2. WhoActs'
    BY ZenonT(30), <1>9 DEF WhoActs, HistoryTypeOK, AddsTooLate, Falls, Unnoticed, At, stored_z,
       memory_z, calls_z
  <2>3. BufferThere'
    BY <1>9 DEF BufferThere, HistoryTypeOK, WhoActs, AddsTooLate, Falls, Unnoticed, At,
       stored_z, memory_z, calls_z
  <2>4. WritersAlone'
    <3>1. \A u \in HistThreads : u \in Sharing' => u \in Sharing /\ key_y'[u] = key_y[u]
      BY <1>9 DEF HistoryTypeOK, WhoActs, Sharing, WritesEntry, ReadsEntry, AddsTooLate,
         Falls, Unnoticed, At, calls_z
    <3>2. \A u \in HistThreads : WritesEntry(u)' =>
            WritesEntry(u) /\ key_y'[u] = key_y[u] /\ changes_y'[key_y[u]] # <<>>
      BY <1>9 DEF HistoryTypeOK, WritersAlone, WritesEntry, AddsTooLate, Falls, Unnoticed,
         At, calls_z
    <3>3. QED
      BY <3>1, <3>2, WritersKept DEF Sharing
  <2>5. QED
    BY <2>1, <2>2, <2>3, <2>4
<1>10. ASSUME NEW t \in HistThreads, FlushBegins(t) PROVE Places'
  <2>1. HistoryTypeOK'
    BY <1>10 DEF HistoryTypeOK, Steps, FlushBegins, At, stored_z, memory_z, calls_z
  <2>2. WhoActs'
    BY <1>10 DEF WhoActs, HistoryTypeOK, FlushBegins, At, stored_z, memory_z, calls_z
  <2>3. BufferThere'
    BY <1>10 DEF BufferThere, HistoryTypeOK, WhoActs, FlushBegins, At, stored_z, memory_z, calls_z
  <2>4. WritersAlone'
    BY SMTT(30), <1>10 DEF WritersAlone, HistoryTypeOK, WhoActs, Sharing, WritesEntry, ReadsEntry,
       FlushBegins, At, stored_z, memory_z, calls_z
  <2>5. QED
    BY <2>1, <2>2, <2>3, <2>4
<1>11. ASSUME NEW t \in HistThreads, FlushEnds_y(t) PROVE Places'
  <2>1. HistoryTypeOK'
    BY <1>11 DEF HistoryTypeOK, Steps, FlushEnds_y, At, stored_z, memory_z, calls_z
  <2>2. WhoActs'
    BY <1>11 DEF WhoActs, HistoryTypeOK, FlushEnds_y, At, stored_z, memory_z, calls_z
  <2>3. BufferThere'
    BY <1>11 DEF BufferThere, HistoryTypeOK, WhoActs, FlushEnds_y, At, stored_z, memory_z, calls_z
  <2>4. WritersAlone'
    BY SMTT(30), <1>11 DEF WritersAlone, HistoryTypeOK, WhoActs, Sharing, WritesEntry, ReadsEntry,
       FlushEnds_y, At, stored_z, memory_z, calls_z
  <2>5. QED
    BY <2>1, <2>2, <2>3, <2>4
<1>12. ASSUME NEW t \in HistThreads, HistoryReads(t) PROVE Places'
  <2>1. HistoryTypeOK'
    BY <1>12 DEF HistoryTypeOK, Steps, HistoryReads, At, stored_z, memory_z, calls_z
  <2>2. WhoActs'
    BY <1>12 DEF WhoActs, HistoryTypeOK, HistoryReads, At, stored_z, memory_z, calls_z
  <2>3. BufferThere'
    BY <1>12 DEF BufferThere, HistoryTypeOK, WhoActs, HistoryReads, At, stored_z, memory_z,
       calls_z
  <2>4. WritersAlone'
    BY SMTT(30), <1>12 DEF WritersAlone, HistoryTypeOK, WhoActs, Sharing, WritesEntry, ReadsEntry,
       HistoryReads, At, stored_z, memory_z, calls_z
  <2>5. QED
    BY <2>1, <2>2, <2>3, <2>4
<1>13. ASSUME RdbInit PROVE Places'
  <2>1. HistoryTypeOK'
    <3>1. CASE FirstMetric \in binary
      <4>1. Changes(HistMain, FirstMetric) /\ At(HistMain, "logs")
        BY <1>13, <3>1 DEF RdbInit
      <4>2. step_y' \in [HistThreads -> Steps]
        BY <4>1, OneMoves DEF Steps
      <4>3. /\ made_y' \in 0 .. MaxHistChanges /\ changes_y' \in [RdbKeys -> Seq(1 .. MaxHistChanges)]
            /\ key_y' \in [HistThreads -> RdbKeys]
        BY <4>1, ChangesFacts
      <4>4. QED
        BY <1>13, <4>2, <4>3 DEF RdbInit, HistoryTypeOK, Steps, memory_z
    <3>2. CASE FirstMetric \notin binary
      BY <1>13, <3>2 DEF RdbInit, HistoryTypeOK, Steps, memory_z, calls_z
    <3>3. QED
      BY <3>1, <3>2
  <2>2. WhoActs'
    <3>1. CASE FirstMetric \in binary
      <4>1. At(HistMain, "logs")
        BY <1>13, <3>1 DEF RdbInit
      <4>2. /\ step_y'[HistMain] = "logs"
            /\ \A u \in HistThreads : u # HistMain => step_y'[u] = step_y[u]
        BY <4>1, OneMoves DEF Steps
      <4>3. QED
        BY <1>13, <4>2 DEF RdbInit, WhoActs
    <3>2. CASE FirstMetric \notin binary
      BY <1>13, <3>2 DEF RdbInit, WhoActs, calls_z
    <3>3. QED
      BY <3>1, <3>2
  <2>3. BufferThere'
    BY <1>13 DEF BufferThere, HistoryTypeOK, WhoActs, RdbInit, Changes, At, stored_z,
       memory_z, calls_z
  <2>4. WritersAlone'
    <3>1. Sharing = {}
      BY <1>13 DEF RdbInit, WhoActs, Sharing, WritesEntry, ReadsEntry
    <3>2. CASE FirstMetric \in binary
      <4>1. Changes(HistMain, FirstMetric) /\ At(HistMain, "logs")
        BY <1>13, <3>2 DEF RdbInit
      <4>2. key_y'[HistMain] = FirstMetric /\ changes_y'[FirstMetric] # <<>>
        BY <4>1, ChangesFacts
      <4>3. \A u \in Sharing' : u = HistMain
        BY <3>1, <4>1, OneMoves DEF Steps, Sharing, WritesEntry, ReadsEntry
      <4>4. QED
        BY <4>2, <4>3 DEF WritersAlone, Sharing
    <3>3. CASE FirstMetric \notin binary
      BY <1>13, <3>3 DEF RdbInit, WritersAlone, Sharing, WritesEntry, ReadsEntry, calls_z
    <3>4. QED
      BY <3>2, <3>3
  <2>5. QED
    BY <2>1, <2>2, <2>3, <2>4
<1>14. ASSUME SysStartPerformanceMetricsThread PROVE Places'
  <2>1. HistoryTypeOK'
    BY <1>14 DEF HistoryTypeOK, Steps, SysStartPerformanceMetricsThread, At, stored_z,
       memory_z, calls_z
  <2>2. WhoActs'
    BY <1>14 DEF WhoActs, HistoryTypeOK, SysStartPerformanceMetricsThread, At, stored_z,
       memory_z, calls_z
  <2>3. BufferThere'
    BY <1>14 DEF BufferThere, HistoryTypeOK, WhoActs, SysStartPerformanceMetricsThread, At,
       stored_z, memory_z, calls_z
  <2>4. WritersAlone'
    BY <1>14 DEF WritersAlone, HistoryTypeOK, WhoActs, Sharing, WritesEntry, ReadsEntry,
       SysStartPerformanceMetricsThread, At, stored_z, memory_z, calls_z
  <2>5. QED
    BY <2>1, <2>2, <2>3, <2>4
<1>15. ASSUME InitLocksHistory PROVE Places'
  <2>1. HistoryTypeOK'
    BY <1>15 DEF HistoryTypeOK, Steps, InitLocksHistory, At, stored_z, memory_z, calls_z
  <2>2. WhoActs'
    BY <1>15 DEF WhoActs, HistoryTypeOK, InitLocksHistory, At, stored_z, memory_z, calls_z
  <2>3. BufferThere'
    BY <1>15 DEF BufferThere, HistoryTypeOK, WhoActs, InitLocksHistory, At, stored_z,
       memory_z, calls_z
  <2>4. WritersAlone'
    BY <1>15 DEF WritersAlone, HistoryTypeOK, WhoActs, Sharing, WritesEntry, ReadsEntry,
       InitLocksHistory, At, stored_z, memory_z, calls_z
  <2>5. QED
    BY <2>1, <2>2, <2>3, <2>4
<1>16. ASSUME RdbInitHistoryBuffer PROVE Places'
  <2>1. HistoryTypeOK'
    BY <1>16 DEF HistoryTypeOK, Steps, RdbInitHistoryBuffer, At, stored_z, memory_z, calls_z
  <2>2. WhoActs'
    BY <1>16 DEF WhoActs, HistoryTypeOK, RdbInitHistoryBuffer, At, stored_z, memory_z, calls_z
  <2>3. BufferThere'
    BY <1>16 DEF BufferThere, HistoryTypeOK, WhoActs, RdbInitHistoryBuffer, At, stored_z,
       memory_z, calls_z
  <2>4. WritersAlone'
    BY <1>16 DEF WritersAlone, HistoryTypeOK, WhoActs, Sharing, WritesEntry, ReadsEntry,
       RdbInitHistoryBuffer, At, stored_z, memory_z, calls_z
  <2>5. QED
    BY <2>1, <2>2, <2>3, <2>4
<1>17. ASSUME RdbCloseHistoryBuffer PROVE Places'
  <2>1. HistoryTypeOK'
    BY <1>17 DEF HistoryTypeOK, Steps, RdbCloseHistoryBuffer, HistoryFree, At, stored_z,
       memory_z, calls_z
  <2>2. WhoActs'
    BY <1>17 DEF WhoActs, HistoryTypeOK, RdbCloseHistoryBuffer, HistoryFree, At, stored_z,
       memory_z, calls_z
  <2>3. BufferThere'
    BY <1>17 DEF BufferThere, HistoryTypeOK, WhoActs, RdbCloseHistoryBuffer, HistoryFree, At,
       stored_z, memory_z, calls_z
  <2>4. WritersAlone'
    BY <1>17 DEF WritersAlone, HistoryTypeOK, WhoActs, Sharing, WritesEntry, ReadsEntry,
       RdbCloseHistoryBuffer, HistoryFree, At, stored_z, memory_z, calls_z
  <2>5. QED
    BY <2>1, <2>2, <2>3, <2>4
<1>18. ASSUME CloseFrees PROVE Places'
  <2>1. HistoryTypeOK'
    BY <1>18 DEF HistoryTypeOK, Steps, CloseFrees, At, stored_z, memory_z, calls_z
  <2>2. WhoActs'
    BY <1>18 DEF WhoActs, HistoryTypeOK, CloseFrees, At, stored_z, memory_z, calls_z
  <2>3. BufferThere'
    BY <1>18 DEF BufferThere, HistoryTypeOK, WhoActs, CloseFrees, At, stored_z, memory_z, calls_z
  <2>4. WritersAlone'
    BY <1>18 DEF WritersAlone, HistoryTypeOK, WhoActs, Sharing, WritesEntry, ReadsEntry,
       CloseFrees, At, stored_z, memory_z, calls_z
  <2>5. QED
    BY <2>1, <2>2, <2>3, <2>4
<1>19. ASSUME RdbClose PROVE Places'
  <2>1. HistoryTypeOK'
    BY <1>19 DEF HistoryTypeOK, Steps, RdbClose, At, stored_z, memory_z, calls_z
  <2>2. WhoActs'
    BY <1>19 DEF WhoActs, HistoryTypeOK, RdbClose, At, stored_z, memory_z, calls_z
  <2>3. BufferThere'
    BY <1>19 DEF BufferThere, HistoryTypeOK, WhoActs, RdbClose, At, stored_z, memory_z, calls_z
  <2>4. WritersAlone'
    BY <1>19 DEF WritersAlone, HistoryTypeOK, WhoActs, Sharing, WritesEntry, ReadsEntry,
       RdbClose, At, stored_z, memory_z, calls_z
  <2>5. QED
    BY <2>1, <2>2, <2>3, <2>4
<1>20. ASSUME Killed PROVE Places'
  <2>1. HistoryTypeOK'
    BY <1>20 DEF HistoryTypeOK, Steps, Killed, At, stored_z, memory_z, calls_z
  <2>2. WhoActs'
    BY <1>20 DEF WhoActs, HistoryTypeOK, Killed, At, stored_z, memory_z, calls_z
  <2>3. BufferThere'
    BY <1>20 DEF BufferThere, HistoryTypeOK, WhoActs, Killed, At, stored_z, memory_z, calls_z
  <2>4. WritersAlone'
    BY <1>20 DEF WritersAlone, HistoryTypeOK, WhoActs, Sharing, WritesEntry, ReadsEntry,
       Killed, At, stored_z, memory_z, calls_z
  <2>5. QED
    BY <2>1, <2>2, <2>3, <2>4
<1>21. ASSUME UNCHANGED vars_z PROVE Places'
  <2>1. HistoryTypeOK' /\ WhoActs'
    BY <1>21 DEF HistoryTypeOK, WhoActs, vars_z, stored_z, memory_z, calls_z
  <2>2. BufferThere' /\ WritersAlone'
    BY <1>21 DEF BufferThere, WritersAlone, Sharing, WritesEntry, ReadsEntry, vars_z,
       stored_z, memory_z, calls_z
  <2>3. QED
    BY <2>1, <2>2
<1> HIDE DEF Places
<1>22. QED
  BY <1>1, <1>2, <1>3, <1>4, <1>5, <1>6, <1>7, <1>8, <1>9, <1>10, <1>11, <1>12, <1>13, <1>14,
     <1>15, <1>16, <1>17, <1>18, <1>19, <1>20, <1>21
     DEF HistoryNext, HistoryServes

------------------------------------------------------------------------------
(* The sizes of records.                                                    *)
LEMMA SizesAreNumbers == ASSUME NEW k PROVE Size(k) \in Nat /\ BufferSize \in Nat
BY HistoryAssumption DEF Size

(* A fault has a place where it can happen.                                 *)
LEMMA FaultsStep == Places /\ FaultsKnown /\ [HistoryNext]_vars_z => FaultsKnown'
<1> SUFFICES ASSUME Places, FaultsKnown, [HistoryNext]_vars_z PROVE FaultsKnown'
  OBVIOUS
<1>1. ASSUME fault_y' = fault_y PROVE FaultsKnown'
  BY <1>1 DEF FaultsKnown
<1>2. ASSUME NEW t \in HistThreads, RoomMade(t) PROVE FaultsKnown'
  <2>1. CASE Size(key_y[t]) <= BufferSize
    BY <1>1, <1>2, <2>1 DEF RoomMade
  <2>2. CASE ~ (Size(key_y[t]) <= BufferSize)
    <3>1. fault_y' = <<t, key_y[t], "overrun">>
      BY <1>2, <2>2 DEF RoomMade, Falls, Unnoticed
    <3>2. Size(key_y[t]) > BufferSize
      BY <2>2, SizesAreNumbers
    <3>3. QED
      BY <3>1, <3>2 DEF FaultsKnown
  <2>3. QED
    BY <2>1, <2>2
<1>3. ASSUME NEW t \in HistThreads, AddsTooEarly(t) PROVE FaultsKnown'
  <2>1. fault_y' = <<t, key_y[t], "null">>
    BY <1>3 DEF AddsTooEarly, Falls
  <2>2. t \notin RpcWriters
    BY <1>3 DEF AddsTooEarly, Places, BufferThere, WhoActs
  <2>3. t \in {HistMain, Metrics}
    BY <2>2, ThreadFacts
  <2>4. QED
    BY <2>1, <2>3 DEF FaultsKnown
<1>4. ASSUME NEW t \in HistThreads, AddsTooLate(t) PROVE FaultsKnown'
  <2>1. fault_y' = <<t, key_y[t], "freed">>
    BY <1>4 DEF AddsTooLate, Falls, Unnoticed
  <2>2. server_y = "stops"
    BY <1>4 DEF AddsTooLate, Places, BufferThere
  <2>3. t = Metrics
    BY <1>4, <2>2, ThreadFacts DEF AddsTooLate, Places, WhoActs
  <2>4. QED
    BY <2>1, <2>3 DEF FaultsKnown
<1>5. ASSUME NEW t \in HistThreads, HistoryAdds(t) PROVE FaultsKnown'
  BY <1>1, <1>5 DEF HistoryAdds, Fits
<1>6. ASSUME NEW t \in HistThreads, NEW k \in RdbKeys,
             HistoryWrites(t, k) \/ HistoryAsks(t, k) \/ RdbToggleHistory(t, k)
      PROVE  FaultsKnown'
  BY <1>1, <1>6 DEF HistoryWrites, HistoryAsks, RdbToggleHistory
<1>7. ASSUME NEW t \in HistThreads,
             HistoryFull(t) \/ FlushRow(t) \/ FlushBegins(t) \/ FlushEnds_y(t) \/ HistoryReads(t)
      PROVE  FaultsKnown'
  BY <1>1, <1>7 DEF HistoryFull, FlushRow, FlushBegins, FlushEnds_y, HistoryReads
<1>8. ASSUME \/ RdbInit \/ SysStartPerformanceMetricsThread \/ InitLocksHistory
             \/ RdbInitHistoryBuffer \/ RdbCloseHistoryBuffer \/ CloseFrees \/ RdbClose \/ Killed
             \/ UNCHANGED vars_z
      PROVE  FaultsKnown'
  BY <1>1, <1>8 DEF RdbInit, SysStartPerformanceMetricsThread, InitLocksHistory,
     RdbInitHistoryBuffer, RdbCloseHistoryBuffer, CloseFrees, RdbClose, Killed, vars_z
<1>9. QED
  BY <1>2, <1>3, <1>4, <1>5, <1>6, <1>7, <1>8 DEF HistoryNext, HistoryServes

(* Who waits for the history's lock waits for the main thread, which makes   *)
(* or flushes the buffer, or for somebody who does not wait.                 *)
LEMMA Standoffs == Places => StandoffOnlyAtStart
<1> SUFFICES ASSUME Places, Sharing # {}, \A t \in Sharing : Waits_y(t)
             PROVE  \/ server_y = "makes" /\ Sharing = {Metrics}
                    \/ step_y[HistMain] = "flushes"
  BY DEF StandoffOnlyAtStart
<1>1. PICK t \in Sharing : Waits_y(t)
  OBVIOUS
<1>2. CASE server_y = "makes"
  <2>1. /\ \A u \in RpcWriters : step_y[u] = "idle"
        /\ step_y[HistMain] = "idle"
    BY <1>2 DEF Places, WhoActs
  <2>2. Sharing \subseteq {Metrics}
    BY <2>1, ThreadFacts DEF Sharing, WritesEntry, ReadsEntry
  <2>3. QED
    BY <1>1, <1>2, <2>2
<1>3. CASE server_y # "makes"
  <2>1. PICK u \in HistThreads : step_y[u] \in {"makes_room", "flushes"}
    BY <1>1, <1>3 DEF Waits_y, HistoryFree
  <2>2. ~ Waits_y(u)
    BY <2>1 DEF Waits_y
  <2>3. u \notin Sharing
    BY <2>2
  <2>4. step_y[u] = "flushes" /\ u = HistMain
    BY <2>1, <2>3 DEF Sharing, WritesEntry, ReadsEntry
  <2>5. QED
    BY <2>4
<1>4. QED
  BY <1>2, <1>3

------------------------------------------------------------------------------
(* What the table and the buffer hold.                                      *)
HistData == ChangesNumbered /\ ChangesLogged /\ ReadersAreTold

(* Types of the table and the buffer.                                       *)
LEMMA DataFacts ==
  ASSUME HistoryTypeOK, NEW k \in RdbKeys
  PROVE  /\ changes_y[k] \in Seq(1 .. MaxHistChanges) /\ rows_y[k] \in Seq(1 .. MaxHistChanges)
         /\ Len(changes_y[k]) \in Nat /\ DOMAIN changes_y[k] = 1 .. Len(changes_y[k])
         /\ Len(rows_y[k]) \in Nat /\ DOMAIN rows_y[k] = 1 .. Len(rows_y[k])
         /\ \A i \in 1 .. Len(changes_y[k]) : changes_y[k][i] \in 1 .. MaxHistChanges
         /\ hist_y \in Seq(Records) /\ Len(hist_y) \in Nat /\ DOMAIN hist_y = 1 .. Len(hist_y)
         /\ Logged(k) = IF Writing(k) THEN Len(changes_y[k]) - 1 ELSE Len(changes_y[k])
<1>1. changes_y[k] \in Seq(1 .. MaxHistChanges) /\ rows_y[k] \in Seq(1 .. MaxHistChanges)
  BY DEF HistoryTypeOK
<1>2. hist_y \in Seq(Records)
  BY DEF HistoryTypeOK, Records
<1>3. /\ Len(changes_y[k]) \in Nat /\ Len(rows_y[k]) \in Nat /\ Len(hist_y) \in Nat
      /\ DOMAIN changes_y[k] = 1 .. Len(changes_y[k]) /\ DOMAIN rows_y[k] = 1 .. Len(rows_y[k])
      /\ DOMAIN hist_y = 1 .. Len(hist_y)
  BY <1>1, <1>2, LenProperties
<1>4. Logged(k) = IF Writing(k) THEN Len(changes_y[k]) - 1 ELSE Len(changes_y[k])
  BY <1>3 DEF Logged
<1>5. \A i \in 1 .. Len(changes_y[k]) : changes_y[k][i] \in 1 .. MaxHistChanges
  BY <1>1, ElementOfSeq
<1>6. QED
  BY <1>1, <1>2, <1>3, <1>4, <1>5

(* Steps that log nothing and begin no write.                                *)
LEMMA DataKept ==
  ASSUME HistData, UNCHANGED <<rows_y, hist_y, changes_y, made_y>>,
         \A k \in RdbKeys : Writing(k)' <=> Writing(k),
         \A t \in RpcWriters : step_y'[t] = "reads" => rows_y[key_y'[t]] = changes_y[key_y'[t]]
  PROVE  HistData'
<1>1. ChangesNumbered'
  BY DEF HistData, ChangesNumbered
<1>2. \A k \in RdbKeys : Logged(k)' = Logged(k) /\ Buffered(k)' = Buffered(k)
  BY DEF Logged, Buffered
<1>3. BufferInOrder'
  BY DEF HistData, ChangesLogged, BufferInOrder
<1>4. \A k \in RdbKeys : TableHolds(k)' /\ BufferHolds(k)'
  BY <1>2 DEF HistData, ChangesLogged, TableHolds, BufferHolds
<1>5. ReadersAreTold'
  BY DEF ReadersAreTold
<1>6. QED
  BY <1>1, <1>3, <1>4, <1>5 DEF HistData, ChangesLogged

(* A write that begins adds a change, which is the one that is not logged.  *)
LEMMA ChangesData ==
  ASSUME Places, HistData, NEW t \in HistThreads, NEW k \in RdbKeys,
         Changes(t, k), At(t, "logs"), UNCHANGED <<rows_y, hist_y>>,
         t \notin Sharing, \A u \in Sharing : key_y[u] # k
  PROVE  HistData'
<1> DEFINE c == changes_y[k]
           d == changes_y'[k]
<1>1. HistoryTypeOK
  BY DEF Places
<1>2. /\ made_y' = made_y + 1 /\ made_y \in Nat /\ key_y'[t] = k
      /\ \A u \in HistThreads : u # t => key_y'[u] = key_y[u]
      /\ \A l \in RdbKeys : l # k => changes_y'[l] = changes_y[l]
      /\ d = Append(c, made_y')
  BY <1>1, ChangesFacts
<1>3. step_y'[t] = "logs" /\ \A u \in HistThreads : u # t => step_y'[u] = step_y[u]
  BY <1>1, OneMoves DEF Steps
<1>4. c \in Seq(1 .. MaxHistChanges) /\ Len(c) \in Nat /\ DOMAIN c = 1 .. Len(c)
  BY <1>1, DataFacts
<1>5. /\ Len(d) = Len(c) + 1 /\ DOMAIN d = 1 .. Len(c) + 1 /\ d[Len(c) + 1] = made_y'
      /\ \A i \in 1 .. Len(c) : d[i] = c[i]
  <2>1. made_y + 1 \in Int
    BY <1>2
  <2>2. QED
    BY <1>2, <1>4, <2>1
<1> HIDE DEF c, d
<1>6. Writing(k)' /\ ~ Writing(k)
  BY <1>2, <1>3 DEF Writing, WritesEntry, Sharing
<1>7. \A l \in RdbKeys : l # k => (Writing(l)' <=> Writing(l))
  BY <1>2, <1>3 DEF Writing, WritesEntry, Sharing
<1>8. Logged(k) = Len(c) /\ Logged(k)' = Len(c)
  <2>1. Logged(k)' = Len(d) - 1
    BY <1>6 DEF Logged, d
  <2>2. Logged(k) = Len(c) - 0
    BY <1>6 DEF Logged, c
  <2>3. QED
    BY <1>4, <1>5, <2>1, <2>2
<1>9. \A l \in RdbKeys : l # k => Logged(l)' = Logged(l)
  BY <1>2, <1>7 DEF Logged
<1>10. \A l \in RdbKeys : Buffered(l)' = Buffered(l)
  BY DEF Buffered
<1>11. ChangesNumbered'
  <2> SUFFICES ASSUME NEW l \in RdbKeys
               PROVE  /\ \A i \in DOMAIN changes_y'[l] : changes_y'[l][i] <= made_y'
                      /\ \A i, j \in DOMAIN changes_y'[l] :
                           i < j => changes_y'[l][i] < changes_y'[l][j]
    BY DEF ChangesNumbered
  <2>0. /\ \A i \in DOMAIN changes_y[l] : changes_y[l][i] <= made_y
        /\ \A i, j \in DOMAIN changes_y[l] : i < j => changes_y[l][i] < changes_y[l][j]
        /\ \A i \in DOMAIN changes_y[l] : changes_y[l][i] \in Nat
    BY <1>1, DataFacts, HistoryAssumption DEF HistData, ChangesNumbered
  <2>1. CASE l # k
    BY <1>2, <2>0, <2>1
  <2>2. CASE l = k
    <3>1. /\ \A i \in 1 .. Len(c) : c[i] <= made_y /\ c[i] \in Nat
          /\ \A i, j \in 1 .. Len(c) : i < j => c[i] < c[j]
      BY <1>4, <2>0, <2>2 DEF c
    <3>2. \A i \in 1 .. Len(c) + 1 : d[i] <= made_y'
      BY <1>2, <1>4, <1>5, <3>1
    <3>3. ASSUME NEW i \in 1 .. Len(c) + 1, NEW j \in 1 .. Len(c) + 1, i < j PROVE d[i] < d[j]
      <4>1. i \in 1 .. Len(c) /\ d[i] = c[i] /\ c[i] < made_y'
        BY <1>2, <1>4, <1>5, <3>1, <3>3
      <4>2. CASE j = Len(c) + 1
        BY <1>5, <4>1, <4>2
      <4>3. CASE j # Len(c) + 1
        <5>1. j \in 1 .. Len(c) /\ d[j] = c[j]
          BY <1>4, <1>5, <4>3
        <5>2. QED
          BY <3>1, <3>3, <4>1, <5>1
      <4>4. QED
        BY <4>2, <4>3
    <3>4. QED
      BY <1>5, <2>2, <3>2, <3>3 DEF d
  <2>3. QED
    BY <2>1, <2>2
<1>12. BufferInOrder'
  BY DEF HistData, ChangesLogged, BufferInOrder
<1>13. \A l \in RdbKeys : TableHolds(l)' /\ BufferHolds(l)'
  <2> SUFFICES ASSUME NEW l \in RdbKeys PROVE TableHolds(l)' /\ BufferHolds(l)'
    OBVIOUS
  <2>0. TableHolds(l) /\ BufferHolds(l)
    BY DEF HistData, ChangesLogged
  <2>1. CASE l # k
    BY <1>2, <1>9, <1>10, <2>0, <2>1 DEF TableHolds, BufferHolds
  <2>2. CASE l = k
    <3>1. /\ Len(rows_y[k]) <= Len(c) /\ Len(rows_y[k]) \in Nat
          /\ DOMAIN rows_y[k] = 1 .. Len(rows_y[k])
          /\ \A i \in DOMAIN rows_y[k] : rows_y[k][i] = c[i]
          /\ Buffered(k) = {c[i] : i \in Len(rows_y[k]) + 1 .. Len(c)}
      BY <1>1, <1>8, <2>0, <2>2, DataFacts DEF TableHolds, BufferHolds, c
    <3>2. \A i \in DOMAIN rows_y[k] : rows_y[k][i] = d[i]
      BY <1>4, <1>5, <3>1
    <3>3. {c[i] : i \in Len(rows_y[k]) + 1 .. Len(c)} = {d[i] : i \in Len(rows_y[k]) + 1 .. Len(c)}
      BY <1>4, <1>5, <3>1
    <3>4. /\ changes_y'[k] = d /\ rows_y' = rows_y
          /\ Logged(k)' = Len(c) /\ Buffered(k)' = Buffered(k)
      BY <1>8, <1>10 DEF d
    <3>5. TableHolds(k)'
      BY <3>1, <3>2, <3>4 DEF TableHolds
    <3>6. BufferHolds(k)'
      BY <3>1, <3>3, <3>4 DEF BufferHolds
    <3>7. QED
      BY <2>2, <3>5, <3>6
  <2>3. QED
    BY <2>1, <2>2
<1>14. ReadersAreTold'
  <2> SUFFICES ASSUME NEW r \in RpcWriters, step_y'[r] = "reads"
               PROVE  rows_y[key_y'[r]] = changes_y'[key_y'[r]]
    BY DEF ReadersAreTold
  <2>1. r \in HistThreads /\ r # t /\ r # HistMain
    BY <1>3, ThreadFacts
  <2>2. step_y[r] = "reads" /\ key_y'[r] = key_y[r]
    BY <1>2, <1>3, <2>1
  <2>3. r \in Sharing
    BY <2>1, <2>2 DEF Sharing, ReadsEntry
  <2>4. key_y[r] # k /\ key_y[r] \in RdbKeys
    BY <1>1, <2>1, <2>3 DEF HistoryTypeOK
  <2>5. QED
    BY <1>2, <2>2, <2>4 DEF HistData, ReadersAreTold
<1>15. QED
  BY <1>11, <1>12, <1>13, <1>14 DEF HistData, ChangesLogged

(* The record of a write that was under way is added.                        *)
LEMMA AddData ==
  ASSUME Places, HistData, NEW t \in HistThreads, WritesEntry(t),
         hist_y' = Append(hist_y, Record(t)), At(t, "idle"),
         UNCHANGED <<rows_y, changes_y, made_y, key_y>>
  PROVE  HistData'
<1> DEFINE k == key_y[t]
           c == changes_y[k]
           r == Record(t)
           n == Len(hist_y)
<1>1. HistoryTypeOK /\ WritersAlone
  BY DEF Places
<1>2. r \in Records /\ r.key = k /\ k \in RdbKeys /\ Len(c) \in DOMAIN c /\ r.n = c[Len(c)]
  BY <1>1, RecordFacts
<1>3. /\ hist_y \in Seq(Records) /\ n \in Nat /\ DOMAIN hist_y = 1 .. n
      /\ c \in Seq(1 .. MaxHistChanges) /\ Len(c) \in Nat /\ DOMAIN c = 1 .. Len(c)
      /\ Logged(k) = IF Writing(k) THEN Len(c) - 1 ELSE Len(c)
  BY <1>1, <1>2, DataFacts
<1> HIDE DEF r
<1>4. /\ DOMAIN hist_y' = 1 .. n + 1 /\ hist_y'[n + 1] = r
      /\ \A i \in 1 .. n : hist_y'[i] = hist_y[i]
  BY <1>2, <1>3, AppendProperties DEF r
<1>5. step_y'[t] = "idle" /\ \A u \in HistThreads : u # t => step_y'[u] = step_y[u]
  BY <1>1, OneMoves DEF Steps
<1>6. Writing(k) /\ ~ Writing(k)'
  <2>1. Writing(k)
    BY DEF Writing
  <2>2. ASSUME NEW u \in HistThreads, WritesEntry(u)', key_y'[u] = k PROVE FALSE
    <3>1. u # t /\ WritesEntry(u) /\ key_y[u] = k
      BY <1>5, <2>2 DEF WritesEntry
    <3>2. QED
      BY <1>1, <3>1 DEF WritersAlone, Sharing
  <2>3. QED
    BY <2>1, <2>2 DEF Writing
<1>7. \A l \in RdbKeys : l # k => (Writing(l)' <=> Writing(l))
  BY <1>5 DEF Writing, WritesEntry
<1>8. Logged(k) = Len(c) - 1 /\ Logged(k)' = Len(c)
  BY <1>3, <1>6 DEF Logged
<1>9. \A l \in RdbKeys : l # k => Logged(l)' = Logged(l)
  BY <1>7 DEF Logged
<1>10. Buffered(k)' = Buffered(k) \cup {r.n} /\ \A l \in RdbKeys : l # k => Buffered(l)' = Buffered(l)
  <2>1. ASSUME NEW l \in RdbKeys
        PROVE  Buffered(l)' = IF l = k THEN Buffered(l) \cup {r.n} ELSE Buffered(l)
    <3>1. \A x : x \in Buffered(l) <=> \E i \in 1 .. n : hist_y[i].key = l /\ x = hist_y[i].n
      BY <1>3 DEF Buffered
    <3>2. \A x : x \in Buffered(l)' <=> \E i \in 1 .. n + 1 : hist_y'[i].key = l /\ x = hist_y'[i].n
      BY <1>4 DEF Buffered
    <3>3. ASSUME NEW x
          PROVE  x \in Buffered(l)' <=> (x \in Buffered(l) \/ (l = k /\ x = r.n))
      <4>1. ASSUME x \in Buffered(l)' PROVE x \in Buffered(l) \/ (l = k /\ x = r.n)
        <5>1. PICK i \in 1 .. n + 1 : hist_y'[i].key = l /\ x = hist_y'[i].n
          BY <3>2, <4>1
        <5>2. CASE i = n + 1
          BY <1>2, <1>4, <5>1, <5>2
        <5>3. CASE i # n + 1
          BY <1>3, <1>4, <3>1, <5>1, <5>3
        <5>4. QED
          BY <5>2, <5>3
      <4>2. ASSUME x \in Buffered(l) PROVE x \in Buffered(l)'
        BY <1>3, <1>4, <3>1, <3>2, <4>2
      <4>3. ASSUME l = k, x = r.n PROVE x \in Buffered(l)'
        BY <1>2, <1>3, <1>4, <3>2, <4>3
      <4>4. QED
        BY <4>1, <4>2, <4>3
    <3>4. QED
      BY <3>3
  <2>2. QED
    BY <1>2, <2>1
<1>11. ChangesNumbered'
  BY DEF HistData, ChangesNumbered
<1>12. TableHolds(k) /\ BufferHolds(k) /\ BufferInOrder
  BY <1>2 DEF HistData, ChangesLogged
<1>13. \A i \in 1 .. Len(c) - 1 : c[i] < c[Len(c)]
  <2>1. \A i, j \in DOMAIN c : i < j => c[i] < c[j]
    BY <1>2 DEF HistData, ChangesNumbered
  <2>2. \A i \in 1 .. Len(c) - 1 : i \in DOMAIN c /\ i < Len(c)
    BY <1>3
  <2>3. QED
    BY <1>2, <2>1, <2>2
<1>14. BufferInOrder'
  <2> SUFFICES ASSUME NEW i \in 1 .. n + 1, NEW j \in 1 .. n + 1, i < j, hist_y'[i].key = hist_y'[j].key
               PROVE  hist_y'[i].n < hist_y'[j].n
    BY <1>4 DEF BufferInOrder
  <2>1. i \in 1 .. n /\ hist_y'[i] = hist_y[i]
    BY <1>3, <1>4
  <2>2. CASE j = n + 1
    <3>1. hist_y[i].key = k /\ hist_y'[j].n = c[Len(c)]
      BY <1>2, <1>4, <2>1, <2>2
    <3>2. hist_y[i].n \in Buffered(k)
      BY <1>3, <2>1, <3>1 DEF Buffered
    <3>3. PICK m \in Len(rows_y[k]) + 1 .. Len(c) - 1 : hist_y[i].n = c[m]
      BY <1>8, <1>12, <3>2 DEF BufferHolds
    <3>4. m \in 1 .. Len(c) - 1
      BY <1>1, <1>2, <1>3, <3>3, DataFacts
    <3>5. QED
      BY <1>13, <2>1, <3>1, <3>3, <3>4
  <2>3. CASE j # n + 1
    <3>1. j \in 1 .. n /\ hist_y'[j] = hist_y[j]
      BY <1>3, <1>4, <2>3
    <3>2. QED
      BY <1>3, <1>12, <2>1, <3>1 DEF BufferInOrder
  <2>4. QED
    BY <2>2, <2>3
<1>15. \A l \in RdbKeys : TableHolds(l)' /\ BufferHolds(l)'
  <2> SUFFICES ASSUME NEW l \in RdbKeys PROVE TableHolds(l)' /\ BufferHolds(l)'
    OBVIOUS
  <2>1. CASE l # k
    BY <1>9, <1>10, <2>1 DEF HistData, ChangesLogged, TableHolds, BufferHolds
  <2>2. CASE l = k
    <3>1. Len(rows_y[k]) <= Len(c) - 1 /\ Len(rows_y[k]) \in Nat
      BY <1>1, <1>2, <1>8, <1>12, DataFacts DEF TableHolds
    <3>2. TableHolds(k)'
      BY <1>3, <1>8, <1>12, <3>1 DEF TableHolds
    <3>3. Len(rows_y[k]) + 1 .. Len(c) = (Len(rows_y[k]) + 1 .. Len(c) - 1) \cup {Len(c)}
      BY <1>3, <3>1
    <3>4. Buffered(k) = {c[i] : i \in Len(rows_y[k]) + 1 .. Len(c) - 1}
      BY <1>8, <1>12 DEF BufferHolds
    <3>5. Buffered(k)' = {c[i] : i \in Len(rows_y[k]) + 1 .. Len(c)}
      BY <1>2, <1>10, <3>3, <3>4
    <3>6. BufferHolds(k)'
      BY <1>8, <3>5 DEF BufferHolds
    <3>7. QED
      BY <2>2, <3>2, <3>6
  <2>3. QED
    BY <2>1, <2>2
<1>16. ReadersAreTold'
  BY <1>1, <1>5, ThreadFacts DEF HistData, ReadersAreTold
<1>17. QED
  BY <1>11, <1>14, <1>15, <1>16 DEF HistData, ChangesLogged

(* The oldest record goes from the buffer to the table.                      *)
LEMMA FlushData ==
  ASSUME Places, HistData, NEW t \in HistThreads, FlushRow(t),
         NEW r, r = Head(hist_y), NEW k, k = r.key
  PROVE  HistData'
<1> DEFINE c == changes_y[k]
           rows == rows_y[k]
           f == Len(rows)
           n == Len(hist_y)
<1>1. HistoryTypeOK
  BY DEF Places
<1>2. /\ hist_y # <<>> /\ hist_y' = Tail(hist_y)
      /\ rows_y' = [rows_y EXCEPT ![k] = Append(rows, r.n)]
      /\ UNCHANGED <<changes_y, made_y, step_y, key_y>>
  BY DEF FlushRow, calls_z
<1>3. hist_y \in Seq(Records) /\ r \in Records
  BY <1>1, <1>2, HeadTailProperties DEF HistoryTypeOK, Records
<1>4. k \in RdbKeys /\ r.n \in 1 .. MaxHistChanges
  BY <1>3 DEF Records
<1>5. /\ n \in Nat /\ n > 0 /\ DOMAIN hist_y = 1 .. n /\ hist_y[1] = r
      /\ DOMAIN hist_y' = 1 .. n - 1 /\ \A i \in 1 .. n - 1 : hist_y'[i] = hist_y[i + 1]
  BY <1>2, <1>3
<1>6. /\ c \in Seq(1 .. MaxHistChanges) /\ rows \in Seq(1 .. MaxHistChanges)
      /\ Len(c) \in Nat /\ DOMAIN c = 1 .. Len(c) /\ f \in Nat /\ DOMAIN rows = 1 .. f
      /\ Logged(k) \in Int /\ Logged(k) <= Len(c)
  BY <1>1, <1>4, DataFacts
<1>7. /\ f <= Logged(k) /\ \A i \in 1 .. f : rows[i] = c[i]
  BY <1>4, <1>6 DEF HistData, ChangesLogged, TableHolds
<1>8. Buffered(k) = {c[i] : i \in f + 1 .. Logged(k)}
  BY <1>4 DEF HistData, ChangesLogged, BufferHolds
<1>9. \A i, j \in 1 .. Len(c) : i < j => c[i] < c[j]
  BY <1>4, <1>6 DEF HistData, ChangesNumbered
<1>10. \A i \in 1 .. Len(c) : c[i] \in 1 .. MaxHistChanges
  BY <1>1, <1>4, DataFacts
<1>11. rows_y'[k] = Append(rows, r.n) /\ \A l \in RdbKeys : l # k => rows_y'[l] = rows_y[l]
  BY <1>1, <1>2, <1>4 DEF HistoryTypeOK
<1>12. /\ Len(rows_y'[k]) = f + 1 /\ DOMAIN rows_y'[k] = 1 .. f + 1 /\ rows_y'[k][f + 1] = r.n
       /\ \A i \in 1 .. f : rows_y'[k][i] = rows[i]
  <2>1. Append(rows, r.n) \in Seq(1 .. MaxHistChanges)
    BY <1>4, <1>6, AppendProperties
  <2>2. QED
    BY SMTT(30), <1>4, <1>6, <1>11, <2>1, AppendProperties
<1>13. \A l \in RdbKeys : Logged(l)' = Logged(l)
  BY <1>2 DEF Logged, Writing, WritesEntry
<1>14. BufferInOrder
  BY DEF HistData, ChangesLogged
<1> HIDE DEF c, rows, f, n
<1>15. \A j \in 2 .. n : hist_y[j].key = k => r.n < hist_y[j].n
  BY <1>5, <1>14 DEF BufferInOrder
<1>16. ASSUME NEW l \in RdbKeys, NEW x
       PROVE  /\ x \in Buffered(l) <=> \E i \in 1 .. n : hist_y[i].key = l /\ x = hist_y[i].n
              /\ x \in Buffered(l)' <=> \E i \in 2 .. n : hist_y[i].key = l /\ x = hist_y[i].n
  <2>1. x \in Buffered(l) <=> \E i \in 1 .. n : hist_y[i].key = l /\ x = hist_y[i].n
    BY <1>5 DEF Buffered
  <2>2. x \in Buffered(l)' <=> \E i \in 1 .. n - 1 : hist_y'[i].key = l /\ x = hist_y'[i].n
    BY <1>5 DEF Buffered
  <2>3. \A i \in 1 .. n - 1 : i + 1 \in 2 .. n /\ hist_y'[i] = hist_y[i + 1]
    BY <1>5
  <2>4. \A i \in 2 .. n : i - 1 \in 1 .. n - 1 /\ hist_y'[i - 1] = hist_y[i]
    BY <1>5
  <2>5. QED
    BY <2>1, <2>2, <2>3, <2>4
(* The record is the first change of its key that is not in the table.       *)
<1>17. f + 1 <= Logged(k) /\ r.n = c[f + 1]
  <2>1. r.n \in Buffered(k)
    BY <1>4, <1>5, <1>16
  <2>2. PICK m \in f + 1 .. Logged(k) : r.n = c[m]
    BY <1>8, <2>1
  <2>3. f + 1 \in f + 1 .. Logged(k) /\ f + 1 \in 1 .. Len(c) /\ m \in 1 .. Len(c) /\ m \in Nat
    BY <1>6, <2>2
  <2>4. c[f + 1] \in Buffered(k)
    BY <1>8, <2>3
  <2>5. PICK j \in 1 .. n : hist_y[j].key = k /\ c[f + 1] = hist_y[j].n
    BY <1>4, <1>16, <2>4
  <2>6. c[f + 1] = r.n \/ r.n < c[f + 1]
    BY <1>5, <1>15, <2>5
  <2>7. m = f + 1
    <3>1. ASSUME f + 1 < m PROVE FALSE
      <4>1. c[f + 1] < c[m] /\ c[m] \in Nat /\ c[f + 1] \in Nat
        BY <1>9, <1>10, <2>3, <3>1, HistoryAssumption
      <4>2. QED
        BY <2>2, <2>6, <4>1
    <3>2. QED
      BY <1>6, <2>2, <2>3, <3>1
  <2>8. QED
    BY <2>2, <2>3, <2>7
<1>18. \A i \in f + 2 .. Logged(k) : i \in 1 .. Len(c) /\ c[f + 1] < c[i]
  BY <1>6, <1>9, <1>17
<1>19. Buffered(k)' = {c[i] : i \in f + 2 .. Logged(k)}
  <2>1. ASSUME NEW x PROVE x \in Buffered(k)' <=> x \in Buffered(k) /\ x # r.n
    <3>1. ASSUME x \in Buffered(k)' PROVE x \in Buffered(k) /\ x # r.n
      <4>1. PICK i \in 2 .. n : hist_y[i].key = k /\ x = hist_y[i].n
        BY <1>4, <1>16, <3>1
      <4>2. i \in 1 .. n /\ r.n < x
        BY <1>5, <1>15, <4>1
      <4>3. x \in Buffered(k)
        BY <1>4, <1>16, <4>1, <4>2
      <4>4. QED
        BY <1>4, <4>2, <4>3
    <3>2. ASSUME x \in Buffered(k), x # r.n PROVE x \in Buffered(k)'
      <4>1. PICK i \in 1 .. n : hist_y[i].key = k /\ x = hist_y[i].n
        BY <1>4, <1>16, <3>2
      <4>2. i \in 2 .. n
        BY <1>5, <3>2, <4>1
      <4>3. QED
        BY <1>4, <1>16, <4>1, <4>2
    <3>3. QED
      BY <3>1, <3>2
  <2>2. f + 1 .. Logged(k) = {f + 1} \cup (f + 2 .. Logged(k))
    BY <1>6, <1>17
  <2>3. ASSUME NEW x PROVE x \in Buffered(k) /\ x # r.n <=> \E i \in f + 2 .. Logged(k) : x = c[i]
    <3>1. \A i \in f + 2 .. Logged(k) : c[i] # c[f + 1]
      <4>1. c[f + 1] \in Int
        BY <1>4, <1>17
      <4>2. QED
        BY <1>18, <4>1
    <3>2. QED
      BY <1>8, <1>17, <2>2, <3>1
  <2>4. QED
    BY <2>1, <2>3
<1>20. \A l \in RdbKeys : l # k => Buffered(l)' = Buffered(l)
  <2> SUFFICES ASSUME NEW l \in RdbKeys, l # k, NEW x PROVE x \in Buffered(l)' <=> x \in Buffered(l)
    OBVIOUS
  <2>1. 1 .. n = {1} \cup (2 .. n) /\ hist_y[1].key = k
    BY <1>5
  <2>2. QED
    BY <1>16, <2>1
<1>21. TableHolds(k)'
  <2>1. Len(rows_y'[k]) <= Logged(k)'
    BY <1>4, <1>12, <1>13, <1>17
  <2>2. \A i \in 1 .. f + 1 : rows_y'[k][i] = c[i]
    BY <1>6, <1>7, <1>12, <1>17
  <2>3. QED
    BY <1>2, <1>12, <2>1, <2>2 DEF TableHolds, c
<1>22. BufferHolds(k)'
  <2>1. Len(rows_y'[k]) + 1 = f + 2
    BY <1>6, <1>12
  <2>2. QED
    BY <1>2, <1>4, <1>13, <1>19, <2>1 DEF BufferHolds, c
<1>23. \A l \in RdbKeys : l # k => TableHolds(l)' /\ BufferHolds(l)'
  BY <1>2, <1>11, <1>13, <1>20 DEF HistData, ChangesLogged, TableHolds, BufferHolds
<1>24. BufferInOrder'
  <2> SUFFICES ASSUME NEW i \in 1 .. n - 1, NEW j \in 1 .. n - 1, i < j,
                      hist_y'[i].key = hist_y'[j].key
               PROVE  hist_y'[i].n < hist_y'[j].n
    BY <1>5 DEF BufferInOrder
  <2>1. i + 1 \in 1 .. n /\ j + 1 \in 1 .. n /\ i + 1 < j + 1
    BY <1>5
  <2>2. QED
    BY <1>5, <1>14, <2>1 DEF BufferInOrder
<1>25. ChangesNumbered'
  BY <1>2 DEF HistData, ChangesNumbered
<1>26. ReadersAreTold'
  <2> SUFFICES ASSUME NEW u \in RpcWriters, step_y[u] = "reads"
               PROVE  rows_y'[key_y[u]] = changes_y[key_y[u]]
    BY <1>2 DEF ReadersAreTold
  <2>1. rows_y[key_y[u]] = changes_y[key_y[u]] /\ key_y[u] \in RdbKeys
    BY <1>1, ThreadFacts DEF HistData, ReadersAreTold, HistoryTypeOK
  <2>2. key_y[u] # k
    <3>1. ASSUME key_y[u] = k PROVE FALSE
      <4>1. f = Len(c)
        BY <2>1, <3>1 DEF f, rows, c
      <4>2. QED
        BY <1>6, <1>17, <4>1
    <3>2. QED
      BY <3>1
  <2>3. QED
    BY <1>11, <2>1, <2>2
<1>27. \A l \in RdbKeys : TableHolds(l)' /\ BufferHolds(l)'
  BY <1>21, <1>22, <1>23
<1>28. QED
  BY <1>24, <1>25, <1>26, <1>27 DEF HistData, ChangesLogged

(* When the buffer is empty and nobody writes a key, its table holds them all. *)
LEMMA AllInTable ==
  ASSUME Places, HistData, NEW k \in RdbKeys, hist_y = <<>>, ~ Writing(k)
  PROVE  rows_y[k] = changes_y[k]
<1>1. HistoryTypeOK
  BY DEF Places
<1>2. /\ changes_y[k] \in Seq(1 .. MaxHistChanges) /\ rows_y[k] \in Seq(1 .. MaxHistChanges)
      /\ Len(changes_y[k]) \in Nat /\ Len(rows_y[k]) \in Nat
      /\ DOMAIN rows_y[k] = 1 .. Len(rows_y[k])
      /\ Logged(k) = Len(changes_y[k])
  BY <1>1, DataFacts
<1>3. /\ Len(rows_y[k]) <= Len(changes_y[k]) /\ Buffered(k) = {}
      /\ \A i \in 1 .. Len(rows_y[k]) : rows_y[k][i] = changes_y[k][i]
      /\ Buffered(k) = {changes_y[k][i] : i \in Len(rows_y[k]) + 1 .. Len(changes_y[k])}
  <2>1. TableHolds(k) /\ BufferHolds(k)
    BY DEF HistData, ChangesLogged
  <2>2. DOMAIN hist_y = {}
    OBVIOUS
  <2>3. Buffered(k) = {}
    BY <2>2 DEF Buffered
  <2>4. QED
    BY <1>2, <2>1, <2>3 DEF TableHolds, BufferHolds
<1>4. Len(rows_y[k]) + 1 .. Len(changes_y[k]) = {}
  BY <1>3
<1>5. Len(rows_y[k]) = Len(changes_y[k])
  BY <1>2, <1>3, <1>4
<1>6. QED
  BY <1>2, <1>3, <1>5, SeqEqual

(* When the server is killed only the table is left: what it holds is all   *)
(* there is from here on.                                                   *)
LEMMA KilledData ==
  ASSUME Places, HistData, Killed
  PROVE  HistData'
<1>1. HistoryTypeOK
  BY DEF Places
<1>2. /\ hist_y' = <<>> /\ changes_y' = rows_y /\ step_y' = AllIdle
      /\ UNCHANGED <<rows_y, key_y, made_y>>
  BY DEF Killed, stored_z
<1>3. \A k \in RdbKeys : ~ Writing(k)' /\ Buffered(k)' = {}
  BY <1>2, ThreadFacts DEF Writing, WritesEntry, Buffered
<1>4. \A k \in RdbKeys : Len(rows_y[k]) \in Nat /\ Logged(k)' = Len(rows_y[k])
  <2> SUFFICES ASSUME NEW k \in RdbKeys
               PROVE  Len(rows_y[k]) \in Nat /\ Logged(k)' = Len(rows_y[k])
    OBVIOUS
  <2>1. Len(rows_y[k]) \in Nat
    BY <1>1, DataFacts
  <2>2. Logged(k)' = Len(rows_y[k]) - 0
    BY <1>2, <1>3 DEF Logged
  <2>3. QED
    BY <2>1, <2>2
<1>5. \A k \in RdbKeys : TableHolds(k)'
  BY <1>2, <1>4 DEF TableHolds
<1>6. \A k \in RdbKeys : BufferHolds(k)'
  BY <1>2, <1>3, <1>4 DEF BufferHolds
<1>7. BufferInOrder'
  BY <1>2 DEF BufferInOrder
<1>8. ChangesNumbered'
  <2> SUFFICES ASSUME NEW k \in RdbKeys
               PROVE  /\ \A i \in DOMAIN rows_y[k] : rows_y[k][i] <= made_y
                      /\ \A i, j \in DOMAIN rows_y[k] : i < j => rows_y[k][i] < rows_y[k][j]
    BY <1>2 DEF ChangesNumbered
  <2>1. \A i \in DOMAIN rows_y[k] : i \in DOMAIN changes_y[k] /\ rows_y[k][i] = changes_y[k][i]
    BY <1>1, DataFacts DEF HistData, ChangesLogged, TableHolds
  <2>2. QED
    BY <2>1 DEF HistData, ChangesNumbered
<1>9. ReadersAreTold'
  BY <1>2, ThreadFacts DEF ReadersAreTold
<1>10. QED
  BY <1>5, <1>6, <1>7, <1>8, <1>9 DEF HistData, ChangesLogged

(* A step that changes neither the table, the buffer nor the changes, and    *)
(* moves no thread but t, from s to s2, no writer.                           *)
LEMMA DataOneMoves ==
  ASSUME Places, HistData, UNCHANGED <<rows_y, hist_y, changes_y, made_y, key_y>>,
         NEW t \in HistThreads, NEW s \in Steps, At(t, s),
         s \in {"logs", "makes_room"} <=> WritesEntry(t),
         s = "reads" => rows_y[key_y[t]] = changes_y[key_y[t]]
  PROVE  HistData'
<1>1. HistoryTypeOK
  BY DEF Places
<1>2. step_y'[t] = s /\ \A u \in HistThreads : u # t => step_y'[u] = step_y[u]
  BY <1>1, OneMoves
<1>3. \A k \in RdbKeys : Writing(k)' <=> Writing(k)
  BY <1>2 DEF Writing, WritesEntry
<1>4. \A u \in RpcWriters : step_y'[u] = "reads" => rows_y[key_y'[u]] = changes_y[key_y'[u]]
  BY <1>2, ThreadFacts DEF HistData, ReadersAreTold
<1>5. QED
  BY <1>3, <1>4, DataKept

(* A step of the main thread alone.                                         *)
LEMMA DataNoneMoves ==
  ASSUME HistData, UNCHANGED <<rows_y, hist_y, changes_y, made_y, key_y, step_y>>
  PROVE  HistData'
<1>1. \A k \in RdbKeys : Writing(k)' <=> Writing(k)
  BY DEF Writing, WritesEntry
<1>2. \A u \in RpcWriters : step_y'[u] = "reads" => rows_y[key_y'[u]] = changes_y[key_y'[u]]
  BY DEF HistData, ReadersAreTold
<1>3. QED
  BY <1>1, <1>2, DataKept

(* Every step that meets no fault.                                          *)
LEMMA DataStep ==
  ASSUME Places, HistData, [HistoryNext]_vars_z, fault_y' = <<>>
  PROVE  HistData'
<1>0. HistoryTypeOK /\ \A t \in HistThreads : step_y[t] \in Steps
  BY DEF Places, HistoryTypeOK, Steps
<1>1. ASSUME NEW t \in HistThreads, NEW how, Falls(t, how) PROVE FALSE
  BY <1>1 DEF Falls
<1>2. ASSUME NEW t \in HistThreads, NEW how, NEW h, Unnoticed(t, how, h) PROVE FALSE
  BY <1>2 DEF Unnoticed
<1>3. ASSUME NEW t \in HistThreads, NEW k \in RdbKeys, HistoryWrites(t, k) PROVE HistData'
  <2>1. /\ Changes(t, k) /\ At(t, "logs") /\ UNCHANGED <<rows_y, hist_y>>
        /\ t \notin Sharing /\ \A u \in Sharing : key_y[u] # k
    BY <1>3 DEF HistoryWrites, EntryFree, Sharing, WritesEntry, ReadsEntry, stored_z, memory_z
  <2>2. QED
    BY <2>1, ChangesData
<1>4. ASSUME NEW t \in HistThreads, NEW k \in RdbKeys, HistoryAsks(t, k) PROVE HistData'
  <2>1. /\ UNCHANGED <<rows_y, hist_y, changes_y, made_y>> /\ step_y[t] = "idle"
        /\ At(t, "asks") /\ key_y' = [key_y EXCEPT ![t] = k]
    BY <1>4 DEF HistoryAsks, stored_z, memory_z
  <2>2. /\ step_y'[t] = "asks"
        /\ \A u \in HistThreads : u # t => step_y'[u] = step_y[u] /\ key_y'[u] = key_y[u]
    BY <1>0, <2>1, OneMoves DEF HistoryTypeOK, Steps
  <2>3. \A l \in RdbKeys : Writing(l)' <=> Writing(l)
    BY <2>1, <2>2 DEF Writing, WritesEntry
  <2>4. \A u \in RpcWriters : step_y'[u] = "reads" => rows_y[key_y'[u]] = changes_y[key_y'[u]]
    BY <2>2, ThreadFacts DEF HistData, ReadersAreTold
  <2>5. QED
    BY <2>1, <2>3, <2>4, DataKept
<1>5. ASSUME NEW t \in HistThreads, HistoryAdds(t) PROVE HistData'
  BY <1>5, AddData DEF HistoryAdds, WritesEntry, stored_z
<1>6. ASSUME NEW t \in HistThreads, RoomMade(t) PROVE HistData'
  <2>1. /\ WritesEntry(t) /\ hist_y = <<>> /\ hist_y' = <<Record(t)>> /\ At(t, "idle")
        /\ UNCHANGED <<rows_y, changes_y, made_y, key_y>>
    BY <1>1, <1>2, <1>6 DEF RoomMade, WritesEntry, stored_z
  <2>2. hist_y' = Append(hist_y, Record(t))
    BY <2>1
  <2>3. QED
    BY <2>1, <2>2, AddData
<1>7. ASSUME NEW t \in HistThreads, FlushRow(t) PROVE HistData'
  BY <1>7, FlushData
<1>8. ASSUME NEW t \in HistThreads, FlushEnds_y(t) PROVE HistData'
  <2>1. /\ UNCHANGED <<rows_y, hist_y, changes_y, made_y, key_y>> /\ At(t, "reads")
        /\ step_y[t] = "flushes" /\ t # HistMain /\ hist_y = <<>>
    BY <1>8 DEF FlushEnds_y, stored_z, memory_z
  <2>2. ~ WritesEntry(t) /\ t \in Sharing /\ key_y[t] \in RdbKeys
    BY <1>0, <2>1 DEF WritesEntry, Sharing, ReadsEntry, HistoryTypeOK
  <2>3. ~ Writing(key_y[t])
    BY <2>2 DEF Writing, Places, WritersAlone
  <2>4. rows_y[key_y[t]] = changes_y[key_y[t]]
    BY <2>1, <2>2, <2>3, AllInTable
  <2>5. QED
    BY <2>1, <2>2, <2>4, DataOneMoves DEF Steps
<1>9. ASSUME NEW t \in HistThreads, HistoryFull(t) PROVE HistData'
  BY <1>9, DataOneMoves DEF HistoryFull, WritesEntry, Steps, stored_z, memory_z
<1>10. ASSUME NEW t \in HistThreads, FlushBegins(t) \/ HistoryReads(t) PROVE HistData'
  <2>1. /\ UNCHANGED <<rows_y, hist_y, changes_y, made_y, key_y>> /\ ~ WritesEntry(t)
        /\ At(t, "flushes") \/ At(t, "idle")
    BY <1>10 DEF FlushBegins, HistoryReads, WritesEntry, stored_z, memory_z
  <2>2. QED
    BY <2>1, DataOneMoves DEF Steps
<1>11. ASSUME RdbCloseHistoryBuffer \/ CloseFrees PROVE HistData'
  <2>1. /\ UNCHANGED <<rows_y, hist_y, changes_y, made_y, key_y>> /\ ~ WritesEntry(HistMain)
        /\ At(HistMain, "flushes") \/ At(HistMain, "idle")
    BY <1>11 DEF RdbCloseHistoryBuffer, CloseFrees, WritesEntry, Places, WhoActs, stored_z,
       memory_z
  <2>2. QED
    BY <2>1, DataOneMoves, ThreadFacts DEF Steps
<1>12. ASSUME RdbInit PROVE HistData'
  <2>1. CASE FirstMetric \in binary
    <3>1. /\ Changes(HistMain, FirstMetric) /\ At(HistMain, "logs") /\ UNCHANGED <<rows_y, hist_y>>
      BY <1>12, <2>1 DEF RdbInit, memory_z
    <3>2. Sharing = {}
      BY <1>12, ThreadFacts DEF RdbInit, Places, WhoActs, Sharing, WritesEntry, ReadsEntry
    <3>3. QED
      BY <3>1, <3>2, ThreadFacts, ChangesData
  <2>2. CASE FirstMetric \notin binary
    BY <1>12, <2>2, DataNoneMoves DEF RdbInit, memory_z, calls_z
  <2>3. QED
    BY <2>1, <2>2
<1>13. ASSUME RdbInitHistoryBuffer PROVE HistData'
  <2>1. hist_y = <<>>
    BY <1>13 DEF RdbInitHistoryBuffer, Places, BufferThere
  <2>2. QED
    BY <1>13, <2>1, DataNoneMoves DEF RdbInitHistoryBuffer, stored_z, calls_z
<1>14. ASSUME NEW t \in HistThreads, NEW k \in RdbKeys, RdbToggleHistory(t, k) PROVE HistData'
  BY <1>14, DataNoneMoves DEF RdbToggleHistory, memory_z, calls_z
<1>15. ASSUME \/ SysStartPerformanceMetricsThread \/ InitLocksHistory \/ RdbClose
              \/ UNCHANGED vars_z
       PROVE  HistData'
  <2>1. UNCHANGED <<rows_y, hist_y, changes_y, made_y, key_y, step_y>>
    BY <1>15 DEF SysStartPerformanceMetricsThread, InitLocksHistory, RdbClose, vars_z,
       stored_z, memory_z, calls_z
  <2>2. QED
    BY <2>1, DataNoneMoves
<1>16. ASSUME Killed PROVE HistData'
  BY <1>16, KilledData
<1>17. ASSUME NEW t \in HistThreads, AddsTooEarly(t) \/ AddsTooLate(t) PROVE HistData'
  BY <1>1, <1>2, <1>17 DEF AddsTooEarly, AddsTooLate
<1>18. QED
  BY <1>3, <1>4, <1>5, <1>6, <1>7, <1>8, <1>9, <1>10, <1>11, <1>12, <1>13, <1>14, <1>15,
     <1>16, <1>17 DEF HistoryNext, HistoryServes

------------------------------------------------------------------------------
(* The server is down and nothing was written.                              *)
LEMMA HistoryInitSound == HistoryInit => HistorySound
<1> SUFFICES ASSUME HistoryInit PROVE HistorySound
  OBVIOUS
<1>1. /\ rows_y = [k \in RdbKeys |-> <<>>] /\ changes_y = rows_y /\ hist_y = <<>>
      /\ \A t \in HistThreads : step_y[t] = "idle"
  BY ThreadFacts DEF HistoryInit
<1>2. Places
  <2>1. rows_y \in [RdbKeys -> Seq(1 .. MaxHistChanges)]
    BY <1>1
  <2>2. hist_y \in Seq([key : RdbKeys, n : 1 .. MaxHistChanges])
    BY <1>1
  <2>3. HistoryTypeOK
    BY <1>1, <2>1, <2>2, ThreadFacts, HistoryAssumption DEF HistoryInit, HistoryTypeOK, Steps
  <2>4. WhoActs /\ BufferThere /\ WritersAlone
    BY <1>1, ThreadFacts DEF HistoryInit, WhoActs, BufferThere, WritersAlone, WritesEntry
  <2>5. QED
    BY <2>3, <2>4 DEF Places
<1>3. FaultsKnown
  BY DEF HistoryInit, FaultsKnown
<1>4. HistData
  <2>1. ASSUME NEW k \in RdbKeys
        PROVE  rows_y[k] = <<>> /\ changes_y[k] = <<>> /\ ~ Writing(k)
    BY <1>1 DEF Writing, WritesEntry
  <2>2. ChangesNumbered /\ BufferInOrder /\ ReadersAreTold
    BY <1>1, <2>1, ThreadFacts DEF ChangesNumbered, BufferInOrder, ReadersAreTold
  <2>3. ASSUME NEW k \in RdbKeys PROVE TableHolds(k) /\ BufferHolds(k)
    <3>1. Len(rows_y[k]) = 0 /\ Logged(k) = 0
      BY <2>1 DEF Logged
    <3>2. Buffered(k) = {}
      BY <1>1 DEF Buffered
    <3>3. QED
      BY <2>1, <3>1, <3>2 DEF TableHolds, BufferHolds
  <2>4. QED
    BY <2>2, <2>3 DEF HistData, ChangesLogged
<1>5. QED
  BY <1>2, <1>3, <1>4, Standoffs DEF Places, HistData, HistorySound

(* Every step; one that meets a fault may leave the data as it pleases.     *)
LEMMA HistoryStepSound == HistorySound /\ [HistoryNext]_vars_z => HistorySound'
<1> SUFFICES ASSUME HistorySound, [HistoryNext]_vars_z PROVE HistorySound'
  OBVIOUS
<1>1. Places /\ FaultsKnown /\ (fault_y = <<>> => HistData)
  BY DEF HistorySound, Places, HistData
<1>2. Places' /\ FaultsKnown'
  BY <1>1, PlacesStep, FaultsStep
<1>3. StandoffOnlyAtStart'
  BY <1>2, Standoffs, PTL
<1>4. ASSUME fault_y' = <<>> PROVE fault_y = <<>>
  BY <1>4 DEF HistoryNext, HistoryServes, HistoryWrites, HistoryAsks, RdbToggleHistory,
     HistoryAdds, Fits, HistoryFull, FlushRow, RoomMade, AddsTooEarly, AddsTooLate, Falls,
     Unnoticed, FlushBegins, FlushEnds_y, HistoryReads, RdbInit,
     SysStartPerformanceMetricsThread, InitLocksHistory, RdbInitHistoryBuffer,
     RdbCloseHistoryBuffer, CloseFrees, RdbClose, Killed, vars_z
<1>5. fault_y' = <<>> => HistData'
  BY <1>1, <1>4, DataStep
<1>6. QED
  BY <1>2, <1>3, <1>5 DEF HistorySound, Places, HistData

(* Unless a record did not fit the buffer or there was none, the table and the*)
(* buffer together hold every change of a key whose history is on, each once*)
(* and in order, and who reads a history is given all of them, whatever is  *)
(* written, flushed, switched, stopped and killed in between; the faults are*)
(* those of the start, the end and records that are too long; and threads wait*)
(* for each other only at the start (mxrdb.cpp:336-552, 829, 1033).         *)
THEOREM HistoryInvariant == HistorySpec => []HistorySound
<1>1. HistoryInit => HistorySound
  BY HistoryInitSound
<1>2. HistorySound /\ [HistoryNext]_vars_z => HistorySound'
  BY HistoryStepSound
<1>3. QED
  BY <1>1, <1>2, PTL DEF HistorySpec
==============================================================================
