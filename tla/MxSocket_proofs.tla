--------------------------- MODULE MxSocket_proofs ---------------------------
(***************************************************************************)
(* Proofs about the web client's connection, for any requests, events,      *)
(* losses and bounds.  First come facts about sequences of messages; then    *)
(* the type, the phases of the connection, the calls, the subscriptions and  *)
(* the last request about an event, each with a lemma for each action; the  *)
(* theorems are at the end.  Liveness (GoesOn) stays with TLC.              *)
(***************************************************************************)
EXTENDS MxSocket, SequenceTheorems, WellFoundedInduction, TLAPS

------------------------------------------------------------------------------
(* A set of numbers that is not empty has a least one.                      *)
LEMMA LeastExists ==
  ASSUME NEW T, T \subseteq Nat, T # {}
  PROVE  \E x \in T : \A y \in T : x <= y
<1> DEFINE R == OpToRel(<, Nat)
<1>1. IsWellFoundedOn(R, Nat)
  BY NatLessThanWellFounded
<1>2. PICK x \in T : \A y \in T : ~ (<<y, x>> \in R)
  <2> HIDE DEF R
  <2> QED BY <1>1, WFMin, Zenon
<1>3. \A y \in T : y \in Nat /\ x \in Nat /\ ~(y < x)
  BY <1>2 DEF OpToRel
<1>4. \A y \in T : x <= y
  BY <1>3
<1> QED BY <1>4

(* A set of places that is not empty has a greatest one, and Max is it.     *)
LEMMA MaxProperties ==
  ASSUME NEW n \in Nat, NEW S, S \subseteq 1 .. n, S # {}
  PROVE  Max(S) \in S /\ \A y \in S : y <= Max(S)
<1> DEFINE T == {k \in 0 .. n : n - k \in S}
<1>1. T \subseteq Nat
  OBVIOUS
<1>2. PICK i \in S : TRUE
  OBVIOUS
<1>3. n - i \in 0 .. n /\ n - (n - i) = i
  BY <1>2
<1>4. T # {}
  BY <1>3
<1>5. \E x \in T : \A y \in T : x <= y
  <2> HIDE DEF T
  <2> QED BY <1>1, <1>4, LeastExists
<1>6. PICK x \in T : \A y \in T : x <= y
  BY <1>5
<1>7. n - x \in S
  BY <1>6
<1>8. ASSUME NEW j \in S PROVE n - x >= j
  <2>1. n - j \in 0 .. n /\ n - (n - j) = j /\ x \in 0 .. n
    BY <1>6
  <2>2. n - j \in T
    BY <2>1
  <2>3. x <= n - j /\ j \in 1 .. n
    BY <2>2, <1>6
  <2> HIDE DEF T
  <2> QED BY <2>1, <2>3
<1>9. Max(S) \in S /\ \A y \in S : Max(S) >= y
  BY <1>7, <1>8 DEF Max
<1> QED BY <1>9

(* An upper bound in the set is its maximum.                                *)
LEMMA MaxUnique ==
  ASSUME NEW S, S \subseteq Nat, NEW x \in S, \A y \in S : y <= x
  PROVE  Max(S) = x
<1>1. \A y \in S : x >= y
  OBVIOUS
<1>2. Max(S) \in S /\ \A y \in S : Max(S) >= y
  BY <1>1 DEF Max
<1>3. Max(S) >= x /\ Max(S) <= x /\ Max(S) \in Nat /\ x \in Nat
  BY <1>2
<1> QED BY <1>3

------------------------------------------------------------------------------
(* The messages of a set that a sequence has, and the last of them.         *)
Places(s, M) == {i \in DOMAIN s : s[i] \in M}
LastOf(s, M) == s[Max(Places(s, M))]

(* The last of some messages is one of them.                                *)
LEMMA LastOfProperties ==
  ASSUME NEW B, NEW s \in Seq(B), NEW M, Places(s, M) # {}
  PROVE  /\ Max(Places(s, M)) \in DOMAIN s /\ LastOf(s, M) \in M
         /\ LastOf(s, M) \in B
<1>1. Places(s, M) \subseteq 1 .. Len(s) /\ Len(s) \in Nat
  BY LenProperties DEF Places
<1>2. Max(Places(s, M)) \in Places(s, M)
  BY <1>1, MaxProperties
<1> QED BY <1>2, ElementOfSeq, LenProperties DEF Places, LastOf

(* What is appended is last, if it is one of them.                          *)
LEMMA AppendPlaces ==
  ASSUME NEW B, NEW s \in Seq(B), NEW m \in B, NEW M
  PROVE  /\ m \in M => Places(Append(s, m), M) # {} /\ LastOf(Append(s, m), M) = m
         /\ m \notin M => /\ Places(Append(s, m), M) = Places(s, M)
                          /\ Places(s, M) # {} => LastOf(Append(s, m), M) = LastOf(s, M)
<1> DEFINE t == Append(s, m)
<1>1. /\ Len(s) \in Nat /\ DOMAIN s = 1 .. Len(s) /\ t \in Seq(B)
      /\ DOMAIN t = 1 .. Len(s) + 1
      /\ \A i \in 1 .. Len(s) : t[i] = s[i]
      /\ t[Len(s) + 1] = m
  BY AppendProperties, LenProperties
<1> HIDE DEF t
<1>2. ASSUME m \in M PROVE Places(t, M) # {} /\ LastOf(t, M) = m
  <2>1. Places(t, M) \subseteq Nat /\ Len(s) + 1 \in Places(t, M)
    BY <1>1, <1>2 DEF Places
  <2>2. \A y \in Places(t, M) : y <= Len(s) + 1
    BY <1>1 DEF Places
  <2>3. Max(Places(t, M)) = Len(s) + 1
    BY <2>1, <2>2, MaxUnique
  <2> QED BY <2>1, <2>3, <1>1 DEF LastOf
<1>3. ASSUME m \notin M
      PROVE  /\ Places(t, M) = Places(s, M)
             /\ Places(s, M) # {} => LastOf(t, M) = LastOf(s, M)
  <2>1. Places(t, M) = Places(s, M)
    BY <1>1, <1>3 DEF Places
  <2>2. ASSUME Places(s, M) # {} PROVE LastOf(t, M) = LastOf(s, M)
    <3>1. Max(Places(s, M)) \in DOMAIN s
      BY <2>2, LastOfProperties
    <3> QED BY <3>1, <2>1, <1>1 DEF LastOf
  <2> QED BY <2>1, <2>2
<1> QED BY <1>2, <1>3 DEF t

(* The first is last only when it is alone.                                 *)
LEMMA TailPlaces ==
  ASSUME NEW B, NEW s \in Seq(B), s # <<>>, NEW M
  PROVE  /\ Places(Tail(s), M) # {} => /\ Places(s, M) # {}
                                       /\ LastOf(Tail(s), M) = LastOf(s, M)
         /\ Places(Tail(s), M) = {} /\ Head(s) \in M =>
              Places(s, M) # {} /\ LastOf(s, M) = Head(s)
         /\ Places(Tail(s), M) = {} /\ Head(s) \notin M => Places(s, M) = {}
<1> DEFINE t == Tail(s)
<1>1. /\ Len(s) \in Nat \ {0} /\ DOMAIN s = 1 .. Len(s) /\ t \in Seq(B)
      /\ Len(t) = Len(s) - 1 /\ DOMAIN t = 1 .. Len(s) - 1
      /\ \A i \in 1 .. Len(s) - 1 : t[i] = s[i + 1]
      /\ Head(s) = s[1]
  BY HeadTailProperties, LenProperties, EmptySeq
<1> HIDE DEF t
<1>2. \A i \in Places(t, M) : i + 1 \in Places(s, M)
  BY <1>1 DEF Places
<1>3. \A i \in Places(s, M) : i = 1 \/ i - 1 \in Places(t, M)
  BY <1>1 DEF Places
<1>4. Places(s, M) \subseteq Nat /\ Places(t, M) \subseteq 1 .. Len(t) /\ Len(t) \in Nat
  BY <1>1 DEF Places
<1>5. ASSUME Places(t, M) # {}
      PROVE  Places(s, M) # {} /\ LastOf(t, M) = LastOf(s, M)
  <2> DEFINE x == Max(Places(t, M))
  <2>1. x \in Places(t, M) /\ \A y \in Places(t, M) : y <= x
    BY <1>4, <1>5, MaxProperties
  <2> HIDE DEF x
  <2>2. x + 1 \in Places(s, M)
    BY <2>1, <1>2
  <2>3. \A y \in Places(s, M) : y <= x + 1
    BY <2>1, <1>3, <1>4
  <2>4. Max(Places(s, M)) = x + 1
    BY <2>2, <2>3, <1>4, MaxUnique
  <2>5. t[x] = s[x + 1]
    BY <2>1, <1>1 DEF Places
  <2> QED BY <2>2, <2>4, <2>5 DEF LastOf, x
<1>6. ASSUME Places(t, M) = {}, Head(s) \in M
      PROVE  Places(s, M) # {} /\ LastOf(s, M) = Head(s)
  <2>1. 1 \in Places(s, M)
    BY <1>1, <1>6 DEF Places
  <2>2. \A y \in Places(s, M) : y <= 1
    BY <1>3, <1>6
  <2>3. Max(Places(s, M)) = 1
    BY <2>1, <2>2, <1>4, MaxUnique
  <2> QED BY <2>1, <2>3, <1>1 DEF LastOf
<1>7. ASSUME Places(t, M) = {}, Head(s) \notin M PROVE Places(s, M) = {}
  <2>1. 1 \notin Places(s, M)
    BY <1>1, <1>7 DEF Places
  <2> QED BY <2>1, <1>3, <1>7
<1> QED BY <1>5, <1>6, <1>7 DEF t

------------------------------------------------------------------------------
(* A sequence that has some of the messages of another, each once.          *)
LEMMA PickedRpcs ==
  ASSUME NEW s, NEW t, NEW f \in [DOMAIN t -> DOMAIN s],
         \A i, j \in DOMAIN t : f[i] = f[j] => i = j,
         \A i \in DOMAIN t : t[i] = s[f[i]]
  PROVE  Rpcs(t) \subseteq Rpcs(s) /\ (Single(s) => Single(t))
<1>1. Rpcs(t) \subseteq Rpcs(s)
  BY DEF Rpcs
<1>2. ASSUME Single(s) PROVE Single(t)
  BY <1>2 DEF Single
<1> QED BY <1>1, <1>2

(* An rpc message of another request can be appended.                       *)
LEMMA AppendRpcs ==
  ASSUME NEW B, NEW s \in Seq(B), NEW m \in B
  PROVE  /\ m.rpc => Rpcs(Append(s, m)) = Rpcs(s) \cup {m}
         /\ ~ m.rpc => Rpcs(Append(s, m)) = Rpcs(s)
         /\ Single(s) /\ (m.rpc => \A n \in Rpcs(s) : n.of # m.of) => Single(Append(s, m))
<1> DEFINE t == Append(s, m)
<1>1. /\ Len(s) \in Nat /\ DOMAIN s = 1 .. Len(s) /\ t \in Seq(B)
      /\ DOMAIN t = 1 .. Len(s) + 1
      /\ \A i \in 1 .. Len(s) : t[i] = s[i]
      /\ t[Len(s) + 1] = m
  BY AppendProperties, LenProperties
<1> HIDE DEF t
<1>2. Rpcs(s) \subseteq Rpcs(t)
  BY <1>1 DEF Rpcs
<1>3. m.rpc => m \in Rpcs(t)
  BY <1>1 DEF Rpcs
<1>4. Rpcs(t) \subseteq Rpcs(s) \cup {m}
  BY <1>1 DEF Rpcs
<1>5. ~ m.rpc => m \notin Rpcs(t)
  BY DEF Rpcs
<1>6. ASSUME Single(s), m.rpc => \A n \in Rpcs(s) : n.of # m.of
      PROVE  Single(t)
  <2> SUFFICES ASSUME NEW i \in DOMAIN t, NEW j \in DOMAIN t,
                      t[i].rpc, t[j].rpc, t[i].of = t[j].of
               PROVE  i = j
    BY DEF Single
  <2>1. CASE i \in DOMAIN s /\ j \in DOMAIN s
    BY <2>1, <1>1, <1>6 DEF Single
  <2>2. \A k \in DOMAIN s : s[k].rpc => s[k] \in Rpcs(s)
    BY DEF Rpcs
  <2>3. ASSUME i \in DOMAIN s, j = Len(s) + 1 PROVE FALSE
    BY <2>3, <2>2, <1>1, <1>6
  <2>4. ASSUME j \in DOMAIN s, i = Len(s) + 1 PROVE FALSE
    BY <2>4, <2>2, <1>1, <1>6
  <2> QED BY <2>1, <2>3, <2>4, <1>1
<1> QED BY <1>2, <1>3, <1>4, <1>5, <1>6 DEF t

(* The first message leaves no other of its request behind.                 *)
LEMMA TailRpcs ==
  ASSUME NEW B, NEW s \in Seq(B), s # <<>>
  PROVE  /\ Tail(s) \in Seq(B) /\ Head(s) \in B
         /\ Rpcs(Tail(s)) \subseteq Rpcs(s)
         /\ Head(s).rpc => Head(s) \in Rpcs(s)
         /\ Single(s) => Single(Tail(s))
         /\ Single(s) /\ Head(s).rpc => \A n \in Rpcs(Tail(s)) : n.of # Head(s).of
<1> DEFINE t == Tail(s)
           f == [i \in DOMAIN t |-> i + 1]
<1>1. /\ Len(s) \in Nat \ {0} /\ DOMAIN s = 1 .. Len(s) /\ t \in Seq(B)
      /\ DOMAIN t = 1 .. Len(s) - 1
      /\ \A i \in 1 .. Len(s) - 1 : t[i] = s[i + 1]
      /\ Head(s) = s[1] /\ s[1] \in B
  BY HeadTailProperties, LenProperties, EmptySeq, ElementOfSeq
<1> HIDE DEF t
<1>2. /\ f \in [DOMAIN t -> DOMAIN s]
      /\ \A i, j \in DOMAIN t : f[i] = f[j] => i = j
      /\ \A i \in DOMAIN t : t[i] = s[f[i]]
  BY <1>1
<1> HIDE DEF f
<1>3. Rpcs(t) \subseteq Rpcs(s) /\ (Single(s) => Single(t))
  BY <1>2, PickedRpcs
<1>4. Head(s).rpc => Head(s) \in Rpcs(s)
  BY <1>1 DEF Rpcs
<1>5. ASSUME Single(s), Head(s).rpc, NEW n \in Rpcs(t) PROVE n.of # Head(s).of
  <2>1. PICK i \in DOMAIN t : t[i].rpc /\ n = t[i]
    BY DEF Rpcs
  <2>2. n = s[i + 1] /\ i + 1 \in DOMAIN s /\ 1 \in DOMAIN s /\ i + 1 # 1
    BY <2>1, <1>1
  <2> QED BY <2>1, <2>2, <1>1, <1>5 DEF Single
<1> QED BY <1>1, <1>3, <1>4, <1>5 DEF t

(* Nor does one that is taken from anywhere.                                *)
LEMMA RemoveAtRpcs ==
  ASSUME NEW B, NEW s \in Seq(B), NEW k \in DOMAIN s
  PROVE  /\ RemoveAt(s, k) \in Seq(B)
         /\ s[k] \in B /\ (s[k].rpc => s[k] \in Rpcs(s))
         /\ Rpcs(RemoveAt(s, k)) \subseteq Rpcs(s)
         /\ Single(s) => Single(RemoveAt(s, k))
         /\ Single(s) /\ s[k].rpc => \A n \in Rpcs(RemoveAt(s, k)) : n.of # s[k].of
         /\ k = 1 => RemoveAt(s, k) = Tail(s) /\ s # <<>> /\ s[k] = Head(s)
<1> DEFINE a == SubSeq(s, 1, k - 1)
           b == SubSeq(s, k + 1, Len(s))
           t == RemoveAt(s, k)
           f == [i \in DOMAIN t |-> IF i < k THEN i ELSE i + 1]
<1>1. Len(s) \in Nat /\ DOMAIN s = 1 .. Len(s) /\ k \in 1 .. Len(s) /\ s[k] \in B
  BY LenProperties, ElementOfSeq
<1>2. a \in Seq(B) /\ Len(a) = k - 1 /\ \A i \in 1 .. k - 1 : a[i] = s[i]
  BY <1>1, SubSeqProperties
<1>3. b \in Seq(B) /\ Len(b) = Len(s) - k /\ \A i \in 1 .. Len(s) - k : b[i] = s[k + i]
  BY SMTT(30), <1>1, SubSeqProperties
<1>4. t = a \o b
  BY DEF RemoveAt
<1> HIDE DEF a, b, t
<1>5. /\ t \in Seq(B) /\ Len(t) = Len(s) - 1
      /\ \A i \in 1 .. Len(t) : t[i] = IF i < k THEN s[i] ELSE s[i + 1]
  <2>1. t \in Seq(B) /\ Len(t) = Len(a) + Len(b)
    BY <1>2, <1>3, <1>4, ConcatProperties
  <2>2. \A i \in 1 .. Len(a) + Len(b) : t[i] = IF i <= Len(a) THEN a[i] ELSE b[i - Len(a)]
    BY <1>2, <1>3, <1>4, ConcatProperties
  <2>3. ASSUME NEW i \in 1 .. Len(t)
        PROVE  t[i] = IF i < k THEN s[i] ELSE s[i + 1]
    <3>1. CASE i < k
      BY SMTT(30), <3>1, <2>1, <2>2, <1>1, <1>2, <1>3
    <3>2. CASE i >= k
      <4>1. i \in Nat /\ i - (k - 1) \in 1 .. Len(s) - k /\ ~ i <= Len(a)
        BY SMTT(30), <3>2, <2>1, <1>1, <1>2, <1>3
      <4>2. k + (i - (k - 1)) = i + 1
        BY <4>1, <1>1
      <4>3. t[i] = b[i - (k - 1)]
        BY <4>1, <2>1, <2>2, <1>2
      <4>4. b[i - (k - 1)] = s[k + (i - (k - 1))]
        BY <4>1, <1>3
      <4>5. ~ i < k
        BY <4>1, <3>2, <1>1
      <4> QED BY <4>2, <4>3, <4>4, <4>5
    <3>3. i \in Nat /\ k \in Nat
      BY <2>1, <1>1, <1>2, <1>3
    <3> QED BY <3>1, <3>2, <3>3
  <2>4. Len(t) = Len(s) - 1
    BY <2>1, <1>1, <1>2, <1>3
  <2> QED BY <2>1, <2>3, <2>4
<1>6. DOMAIN t = 1 .. Len(s) - 1
  BY <1>5, <1>1, LenProperties
<1>7. /\ f \in [DOMAIN t -> DOMAIN s]
      /\ \A i, j \in DOMAIN t : f[i] = f[j] => i = j
      /\ \A i \in DOMAIN t : t[i] = s[f[i]]
      /\ \A i \in DOMAIN t : f[i] # k
  BY <1>1, <1>5, <1>6
<1> HIDE DEF f
<1>8. Rpcs(t) \subseteq Rpcs(s) /\ (Single(s) => Single(t))
  BY <1>7, PickedRpcs
<1>9. s[k].rpc => s[k] \in Rpcs(s)
  BY <1>1 DEF Rpcs
<1>10. ASSUME Single(s), s[k].rpc, NEW n \in Rpcs(t) PROVE n.of # s[k].of
  <2>1. PICK i \in DOMAIN t : t[i].rpc /\ n = t[i]
    BY DEF Rpcs
  <2>2. n = s[f[i]] /\ f[i] \in DOMAIN s /\ f[i] # k
    BY <2>1, <1>7
  <2> QED BY <2>1, <2>2, <1>1, <1>10 DEF Single
<1>11. ASSUME k = 1 PROVE t = Tail(s) /\ s # <<>> /\ s[k] = Head(s)
  <2>1. s # <<>>
    BY <1>1, EmptySeq
  <2>2. /\ Tail(s) \in Seq(B) /\ Len(Tail(s)) = Len(s) - 1
        /\ \A i \in 1 .. Len(s) - 1 : Tail(s)[i] = s[i + 1]
        /\ Head(s) = s[1]
    BY <2>1, HeadTailProperties
  <2>3. \A i \in 1 .. Len(t) : t[i] = Tail(s)[i]
    BY <2>2, <1>5, <1>1, <1>11
  <2>4. t = Tail(s)
    BY <2>2, <2>3, <1>5, SeqEqual
  <2> QED BY <2>1, <2>2, <2>4, <1>11
<1> QED BY <1>1, <1>5, <1>8, <1>9, <1>10, <1>11 DEF t

(* A part of the messages may be lost.                                      *)
LEMMA PrefixRpcs ==
  ASSUME NEW B, NEW s \in Seq(B), NEW n \in 0 .. Len(s)
  PROVE  /\ SubSeq(s, 1, n) \in Seq(B)
         /\ Rpcs(SubSeq(s, 1, n)) \subseteq Rpcs(s)
         /\ Single(s) => Single(SubSeq(s, 1, n))
<1> DEFINE t == SubSeq(s, 1, n)
           f == [i \in DOMAIN t |-> i]
<1>1. Len(s) \in Nat /\ DOMAIN s = 1 .. Len(s) /\ n \in Nat
  BY LenProperties
<1>2. t \in Seq(B) /\ Len(t) = n /\ \A i \in 1 .. n : t[i] = s[i]
  BY <1>1, SubSeqProperties
<1>3. DOMAIN t = 1 .. n
  BY <1>2, LenProperties
<1> HIDE DEF t
<1>4. /\ f \in [DOMAIN t -> DOMAIN s]
      /\ \A i, j \in DOMAIN t : f[i] = f[j] => i = j
      /\ \A i \in DOMAIN t : t[i] = s[f[i]]
  BY <1>1, <1>2, <1>3
<1> HIDE DEF f
<1>5. Rpcs(t) \subseteq Rpcs(s) /\ (Single(s) => Single(t))
  BY <1>4, PickedRpcs
<1> QED BY <1>2, <1>5 DEF t

(* Nothing is in the empty sequence.                                        *)
LEMMA EmptyRpcs == Rpcs(<<>>) = {} /\ Single(<<>>) /\ DOMAIN <<>> = {}
  BY DEF Rpcs, Single
(* Sending one message appends it.                                          *)
LEMMA AppendOne ==
  ASSUME NEW B, NEW s \in Seq(B), NEW m \in B
  PROVE  s \o <<m>> = Append(s, m)
<1>1. /\ Len(s) \in Nat /\ Append(s, m) \in Seq(B) /\ Len(Append(s, m)) = Len(s) + 1
      /\ \A i \in 1 .. Len(s) : Append(s, m)[i] = s[i]
      /\ Append(s, m)[Len(s) + 1] = m
  BY AppendProperties, LenProperties
<1>2. /\ <<m>> \in Seq(B) /\ Len(<<m>>) = 1 /\ <<m>>[1] = m
  OBVIOUS
<1>3. /\ s \o <<m>> \in Seq(B) /\ Len(s \o <<m>>) = Len(s) + 1
      /\ \A i \in 1 .. Len(s) : (s \o <<m>>)[i] = s[i]
      /\ (s \o <<m>>)[Len(s) + 1] = m
  BY <1>1, <1>2, ConcatProperties
<1>4. \A i \in 1 .. Len(s) + 1 : Append(s, m)[i] = (s \o <<m>>)[i]
  BY <1>1, <1>3
<1> QED BY <1>1, <1>3, <1>4, SeqEqual

------------------------------------------------------------------------------
(* What the fields of messages and answers are.                             *)
LEMMA MessageFields ==
  /\ \A m \in Messages : /\ m.of \in Requests /\ m.rpc \in BOOLEAN
                         /\ m.rpc => m.id \in Nat
                         /\ ~ m.rpc => m.add \in BOOLEAN
  /\ \A m \in Answers : /\ m.rpc \in BOOLEAN
                        /\ m.rpc => m.of \in Requests /\ m.id \in Nat /\ m.ok \in BOOLEAN
                        /\ ~ m.rpc => m.of \in Events
<1>1. ASSUME NEW m \in Messages
      PROVE  /\ m.of \in Requests /\ m.rpc \in BOOLEAN
             /\ m.rpc => m.id \in Nat
             /\ ~ m.rpc => m.add \in BOOLEAN
  <2>1. CASE m \in [rpc : {TRUE}, of : Requests, id : Nat]
    BY <2>1
  <2>2. CASE m \in [rpc : {FALSE}, of : Requests, add : BOOLEAN]
    BY <2>2
  <2> QED BY <2>1, <2>2 DEF Messages
<1>2. ASSUME NEW m \in Answers
      PROVE  /\ m.rpc \in BOOLEAN
             /\ m.rpc => m.of \in Requests /\ m.id \in Nat /\ m.ok \in BOOLEAN
             /\ ~ m.rpc => m.of \in Events
  <2>1. CASE m \in [rpc : {TRUE}, of : Requests, id : Nat, ok : BOOLEAN]
    BY <2>1
  <2>2. CASE m \in [rpc : {FALSE}, of : Events]
    BY <2>2
  <2> QED BY <2>1, <2>2 DEF Answers
<1> QED BY <1>1, <1>2, Zenon

(* The same of the rpc messages in a sequence.                              *)
LEMMA RpcsFields ==
  /\ \A s \in Seq(Messages) : \A m \in Rpcs(s) :
       m \in Messages /\ m.rpc /\ m.of \in Requests /\ m.id \in Nat
  /\ \A s \in Seq(Answers) : \A m \in Rpcs(s) :
       m \in Answers /\ m.rpc /\ m.of \in Requests /\ m.id \in Nat /\ m.ok \in BOOLEAN
<1>1. ASSUME NEW s \in Seq(Messages), NEW m \in Rpcs(s) PROVE m \in Messages /\ m.rpc
  BY ElementOfSeq, LenProperties DEF Rpcs
<1>2. ASSUME NEW s \in Seq(Answers), NEW m \in Rpcs(s) PROVE m \in Answers /\ m.rpc
  BY ElementOfSeq, LenProperties DEF Rpcs
<1> QED BY <1>1, <1>2, MessageFields, Zenon

(* The messages that are made have their type.                              *)
LEMMA MessageTypes ==
  ASSUME NEW r \in Requests
  PROVE  /\ \A id \in Nat : /\ Message(r, id) \in Messages /\ Message(r, id).rpc
                            /\ Message(r, id).of = r /\ Message(r, id).id = id
         /\ EvtMessage(r) \in Messages /\ ~ EvtMessage(r).rpc
         /\ EvtMessage(r).of = r /\ (EvtMessage(r).add <=> Adds(r))
         /\ \A id \in Nat, ok \in BOOLEAN :
              [rpc |-> TRUE, of |-> r, id |-> id, ok |-> ok] \in Answers
         /\ Adds(r) \in BOOLEAN /\ IsCall(r) \in BOOLEAN
<1>1. Adds(r) \in BOOLEAN /\ IsCall(r) \in BOOLEAN
  BY DEF Adds, IsCall
<1>2. ASSUME NEW id \in Nat
      PROVE  /\ Message(r, id) \in [rpc : {TRUE}, of : Requests, id : Nat]
             /\ Message(r, id).rpc
             /\ Message(r, id).of = r /\ Message(r, id).id = id
  BY DEF Message
<1>3. /\ EvtMessage(r) \in [rpc : {FALSE}, of : Requests, add : BOOLEAN]
      /\ ~ EvtMessage(r).rpc
      /\ EvtMessage(r).of = r /\ (EvtMessage(r).add <=> Adds(r))
  BY <1>1, Zenon DEF EvtMessage
<1>4. ASSUME NEW id \in Nat, NEW ok \in BOOLEAN
      PROVE  [rpc |-> TRUE, of |-> r, id |-> id, ok |-> ok]
                \in [rpc : {TRUE}, of : Requests, id : Nat, ok : BOOLEAN]
  OBVIOUS
<1> QED BY <1>1, <1>2, <1>3, <1>4 DEF Messages, Answers

------------------------------------------------------------------------------
(* The evt messages about an event.                                         *)
EvtsOf(e) == {m \in Messages : ~ m.rpc /\ EventOf[m.of] = e}

(* The evt messages about an event, as places.                              *)
LEMMA AboutPlaces ==
  ASSUME NEW s \in Seq(Messages), NEW e
  PROVE  About(s, e) = Places(s, EvtsOf(e)) /\ LastAbout(s, e) = LastOf(s, EvtsOf(e))
<1>1. \A i \in DOMAIN s : s[i] \in Messages
  BY ElementOfSeq, LenProperties
<1>2. About(s, e) = Places(s, EvtsOf(e))
  BY <1>1 DEF About, Places, EvtsOf
<1> QED BY <1>2 DEF LastAbout, LastOf

(* Those that waited leave callbacks of the pages.                          *)
LEMMA SubscriptionsTyped ==
  ASSUME NEW subs \in [Events -> Requests \cup {None}], NEW s \in Seq(Messages)
  PROVE  Subscriptions(subs, s) \in [Events -> Requests \cup {None}]
<1>1. ASSUME NEW e \in Events, About(s, e) # {}
      PROVE  CallbackOf(LastAbout(s, e)) \in Requests \cup {None}
  <2>1. LastAbout(s, e) \in Messages
    BY <1>1, AboutPlaces, LastOfProperties
  <2> QED BY <2>1, MessageFields DEF CallbackOf
<1> QED BY <1>1 DEF Subscriptions

(* So does one evt message; it changes one event.                           *)
LEMMA SubscriptionTyped ==
  ASSUME NEW subs \in [Events -> Requests \cup {None}], NEW r \in Requests
  PROVE  /\ Subscription(subs, EvtMessage(r)) \in [Events -> Requests \cup {None}]
         /\ Subscription(subs, EvtMessage(r)) =
              [subs EXCEPT ![EventOf[r]] = IF Adds(r) THEN r ELSE None]
<1>1. Subscription(subs, EvtMessage(r)) = [subs EXCEPT ![EventOf[r]] = IF Adds(r) THEN r ELSE None]
  <2>1. EvtMessage(r).of = r /\ EvtMessage(r).add = Adds(r)
    BY DEF EvtMessage
  <2> QED BY <2>1 DEF Subscription, CallbackOf
<1> QED BY <1>1

(* A message is sent when the socket is open, and else discarded.           *)
LEMMA SendTyped ==
  ASSUME up \in Seq(Messages), NEW m \in Messages, Send(<<m>>)
  PROVE  /\ up' \in Seq(Messages)
         /\ sock = "open" => up' = Append(up, m)
         /\ sock # "open" => up' = up
<1>1. up \o <<m>> = Append(up, m) /\ Append(up, m) \in Seq(Messages)
  BY AppendOne, AppendProperties
<1> QED BY <1>1 DEF Send

(* Calls are deferred under numbers.                                        *)
LEMMA DeferTyped ==
  ASSUME TypeOK, NEW calls, \A c \in calls : c.id \in Nat /\ c.of \in Requests, Defer(calls)
  PROVE  /\ DOMAIN deferred_p' \subseteq Nat
         /\ \A i \in DOMAIN deferred_p' : deferred_p'[i] \in Requests
BY DEF TypeOK, Defer

(* Every step keeps the state in its type.                                  *)
LEMMA InitTyped == Init => TypeOK
<1> SUFFICES ASSUME Init PROVE TypeOK
  OBVIOUS
<1>1. MxEvents \subseteq Requests
  BY DEF MxEvents
<1>2. DOMAIN <<>> = {} /\ <<>> \in Seq(Messages) /\ <<>> \in Seq(Answers)
  BY EmptyRpcs
<1>3. reconnect \in BOOLEAN /\ isready \in BOOLEAN /\ inorder \in BOOLEAN
  BY Zenon DEF Init
<1>4. /\ sock = "connecting" /\ epoch \in Nat /\ emits \in Nat /\ messageid \in Nat
      /\ up \in Seq(Messages) /\ waiting_p \in Seq(Messages)
      /\ down \in Seq(Answers) /\ decoding \in Seq(Answers)
      /\ DOMAIN deferred_p = {}
  BY <1>2 DEF Init
<1>5. /\ held \subseteq Requests /\ finalizer \subseteq Requests /\ collected \subseteq Requests
      /\ registered \subseteq Events /\ subscribed \subseteq Events /\ missed \subseteq Events
  BY <1>1, RegisteredAssumption DEF Init
<1>6. /\ event_subscriptions \in [Events -> Requests \cup {None}]
      /\ executed \in [Requests -> Nat]
      /\ state \in [Requests -> {"idle", "waiting", "sent", "resolved", "rejected", "forgotten"}]
      /\ answer \in [Requests -> Requests \cup {None}]
      /\ last \in [Events -> Requests \cup {None}]
  BY DEF Init
<1> QED BY <1>3, <1>4, <1>5, <1>6 DEF TypeOK

(* Requests of pages keep the type.                                         *)
LEMMA PagesTyped ==
  ASSUME TypeOK, NEW r \in Requests,
         RpcCall(r) \/ RpcCallWaits(r) \/ EvtCall(r) \/ EvtCallWaits(r)
  PROVE  TypeOK'
<1>1. ASSUME Asked(r)
      PROVE  last' \in [Events -> Requests \cup {None}]
  BY <1>1, EventAssumption DEF TypeOK, Asked
<1>2. ASSUME NextId PROVE messageid' \in Nat
  BY <1>2 DEF TypeOK, NextId
<1>3. ASSUME Register(r) PROVE finalizer' \subseteq Requests
  BY <1>3 DEF TypeOK, Register
<1>4. Message(r, messageid) \in Messages /\ EvtMessage(r) \in Messages
  BY MessageTypes DEF TypeOK
<1>5. CASE RpcCall(r)
  <2>1. /\ DOMAIN deferred_p' \subseteq Nat
        /\ \A i \in DOMAIN deferred_p' : deferred_p'[i] \in Requests
    <3>1. \A c \in {[of |-> r, id |-> messageid]} : c.id \in Nat /\ c.of \in Requests
      BY DEF TypeOK
    <3> QED BY <1>5, <3>1, DeferTyped DEF RpcCall
  <2>2. up' \in Seq(Messages)
    BY <1>4, <1>5, SendTyped DEF RpcCall, TypeOK
  <2>3. state' \in [Requests -> {"idle", "waiting", "sent", "resolved", "rejected", "forgotten"}]
    BY <1>5 DEF RpcCall, TypeOK
  <2> QED BY <1>1, <1>2, <1>5, <2>1, <2>2, <2>3 DEF RpcCall, TypeOK, objects, gateway
<1>6. CASE RpcCallWaits(r)
  <2>1. waiting_p' \in Seq(Messages)
    BY <1>4, <1>6, AppendProperties DEF RpcCallWaits, TypeOK
  <2>2. state' \in [Requests -> {"idle", "waiting", "sent", "resolved", "rejected", "forgotten"}]
    BY <1>6 DEF RpcCallWaits, TypeOK
  <2> QED BY <1>1, <1>2, <1>6, <2>1, <2>2 DEF RpcCallWaits, TypeOK, connection, objects, gateway
<1>7. CASE EvtCall(r)
  <2>1. event_subscriptions' \in [Events -> Requests \cup {None}]
    BY <1>7, SubscriptionTyped DEF EvtCall, TypeOK
  <2>2. up' \in Seq(Messages)
    BY <1>4, <1>7, SendTyped DEF EvtCall, TypeOK
  <2>3. state' \in [Requests -> {"idle", "waiting", "sent", "resolved", "rejected", "forgotten"}]
    BY <1>7 DEF EvtCall, TypeOK
  <2> QED BY <1>1, <1>3, <1>7, <2>1, <2>2, <2>3 DEF EvtCall, TypeOK, gateway
<1>8. CASE EvtCallWaits(r)
  <2>1. waiting_p' \in Seq(Messages)
    BY <1>4, <1>8, AppendProperties DEF EvtCallWaits, TypeOK
  <2>2. state' \in [Requests -> {"idle", "waiting", "sent", "resolved", "rejected", "forgotten"}]
    BY <1>8 DEF EvtCallWaits, TypeOK
  <2> QED BY <1>1, <1>3, <1>8, <2>1, <2>2 DEF EvtCallWaits, TypeOK, connection, gateway
<1> QED BY <1>5, <1>6, <1>7, <1>8

(* The handler of messages keeps the type.                                  *)
LEMMA HandlersTyped ==
  ASSUME TypeOK, NEW i \in DOMAIN decoding, Handles(i)
  PROVE  TypeOK'
<1>1. ASSUME Decoded(i) PROVE decoding' \in Seq(Answers)
  BY <1>1, RemoveAtRpcs DEF TypeOK, Decoded
<1>2. CASE Settle(i)
  <2> DEFINE m == decoding[i]
             r == deferred_p[m.id]
  <2>1. /\ m \in Answers /\ m.rpc /\ m.id \in DOMAIN deferred_p /\ m.of \in Requests
        /\ r \in Requests
    <3>1. m \in Answers
      BY RemoveAtRpcs DEF TypeOK
    <3>2. m.rpc /\ m.id \in DOMAIN deferred_p
      BY <1>2 DEF Settle
    <3>3. m.of \in Requests
      BY <3>1, <3>2, MessageFields, Zenon
    <3> QED BY <3>1, <3>2, <3>3 DEF TypeOK
  <2>2. /\ Decoded(i) /\ Removed(m.id)
        /\ answer' = [answer EXCEPT ![r] = m.of]
        /\ state' = [state EXCEPT ![r] = IF m.ok THEN "resolved" ELSE "rejected"]
        /\ \/ /\ Send(<<EvtMessage(r)>>)
              /\ event_subscriptions' = Subscription(event_subscriptions, EvtMessage(r))
           \/ UNCHANGED <<up, event_subscriptions>>
        /\ UNCHANGED <<sock, epoch, down, reconnect, isready, messageid, waiting_p, objects,
                       gateway, last, missed, inorder>>
    BY <1>2 DEF Settle
  <2> HIDE DEF m, r
  <2>3. event_subscriptions' \in [Events -> Requests \cup {None}]
    BY <2>1, <2>2, SubscriptionTyped DEF TypeOK
  <2>4. up' \in Seq(Messages)
    BY <2>1, <2>2, SendTyped, MessageTypes DEF TypeOK
  <2>5. state' \in [Requests -> {"idle", "waiting", "sent", "resolved", "rejected", "forgotten"}]
    BY <2>1, <2>2 DEF TypeOK
  <2>6. answer' \in [Requests -> Requests \cup {None}]
    BY <2>1, <2>2 DEF TypeOK
  <2>7. /\ DOMAIN deferred_p' \subseteq Nat
        /\ \A j \in DOMAIN deferred_p' : deferred_p'[j] \in Requests
    BY <2>2 DEF TypeOK, Removed
  <2> QED BY <1>1, <2>2, <2>3, <2>4, <2>5, <2>6, <2>7 DEF TypeOK, objects, gateway
<1>3. CASE SettleNobody(i)
  BY <1>1, <1>3 DEF SettleNobody, TypeOK, connection, objects, gateway, history
<1>4. CASE RunCallback(i)
  BY <1>1, <1>4 DEF RunCallback, TypeOK, connection, objects, gateway, history
<1> QED BY <1>2, <1>3, <1>4 DEF Handles

(* The gateway keeps the type.                                              *)
LEMMA GatewayTyped ==
  ASSUME TypeOK, Gateway
  PROVE  TypeOK'
<1>1. up # <<>>
  BY DEF Gateway, GatewayRefuses, GatewayCalls, GatewaySubscribes, GatewayUnsubscribes
<1>2. /\ Tail(up) \in Seq(Messages) /\ Head(up) \in Messages /\ Head(up).of \in Requests
      /\ EventOf[Head(up).of] \in Events
  BY <1>1, TailRpcs, MessageFields, EventAssumption DEF TypeOK
<1>3. Head(up).rpc => \A ok \in BOOLEAN : Answer(Head(up), ok) \in Seq(Answers)
  <2> SUFFICES ASSUME Head(up).rpc, NEW ok \in BOOLEAN
               PROVE  Answer(Head(up), ok) \in Seq(Answers)
    OBVIOUS
  <2>1. Head(up).id \in Nat
    BY <1>2, MessageFields
  <2>2. [rpc |-> TRUE, of |-> Head(up).of, id |-> Head(up).id, ok |-> ok] \in Answers
    BY <1>2, <2>1, MessageTypes
  <2> QED BY <2>2, AppendProperties DEF Answer, TypeOK
<1>4. CASE GatewayRefuses
  BY <1>2, <1>3, <1>4 DEF GatewayRefuses, TypeOK, client, objects, gateway, history
<1>5. CASE GatewayCalls
  <2>1. executed' \in [Requests -> Nat] /\ registered' \subseteq Events
    BY <1>2, <1>5 DEF GatewayCalls, TypeOK
  <2> QED BY <1>2, <1>3, <1>5, <2>1 DEF GatewayCalls, TypeOK, client, objects, history
<1>6. CASE GatewaySubscribes
  <2>1. subscribed' \subseteq Events /\ missed' \subseteq Events
    BY <1>2, <1>6 DEF GatewaySubscribes, TypeOK
  <2> QED BY <1>2, <1>6, <2>1 DEF GatewaySubscribes, TypeOK, client, objects
<1>7. CASE GatewayUnsubscribes
  BY <1>2, <1>7 DEF GatewayUnsubscribes, TypeOK, client, objects
<1> QED BY <1>4, <1>5, <1>6, <1>7 DEF Gateway

(* The server, the garbage collector, losses and onclose keep the type.     *)
LEMMA OthersTyped ==
  ASSUME TypeOK, Server \/ Objects \/ OnMessage \/ OnClose \/ Reconnect \/ Lose \/ Close
  PROVE  TypeOK'
<1>1. ASSUME NEW e \in Events, Registers(e) PROVE TypeOK'
  BY <1>1 DEF Registers, TypeOK, connection, client, objects, history
<1>2. ASSUME NEW e \in Events, Emit(e) PROVE TypeOK'
  <2>1. [rpc |-> FALSE, of |-> e] \in Answers
    BY DEF Answers
  <2>2. down' \in Seq(Answers)
    BY <1>2, <2>1, AppendProperties DEF Emit, TypeOK
  <2> QED BY <1>2, <2>2 DEF Emit, TypeOK, client, objects, history
<1>3. ASSUME NEW o \in MxEvents, Drop(o) PROVE TypeOK'
  BY <1>3 DEF Drop, TypeOK, connection, client, gateway, history
<1>4. ASSUME NEW o \in MxEvents, Collect(o) PROVE TypeOK'
  <2>1. o \in Requests /\ collected' = collected \cup {o} /\ UNCHANGED <<up, event_subscriptions>>
    BY <1>4 DEF Collect, MxEvents, Reachable
  <2> QED BY <1>4, <2>1 DEF Collect, TypeOK, gateway, history
<1>5. CASE OnMessage
  <2>1. decoding' \in Seq(Answers) /\ down' \in Seq(Answers)
    BY <1>5, TailRpcs, AppendProperties DEF OnMessage, TypeOK
  <2> QED BY <1>5, <2>1 DEF OnMessage, TypeOK, objects, gateway, history
<1>6. CASE OnClose
  <2>1. state' \in [Requests -> {"idle", "waiting", "sent", "resolved", "rejected", "forgotten"}]
    BY <1>6 DEF OnClose, TypeOK
  <2>2. deferred_p' = <<>> /\ DOMAIN <<>> = {} /\ waiting_p' \in Seq(Messages)
    BY <1>6, EmptyRpcs DEF OnClose
  <2>3. sock' \in {"connecting", "open", "closing", "closed", "ended"}
    BY <1>6 DEF OnClose, AfterClose
  <2> QED BY <1>6, <2>1, <2>2, <2>3 DEF OnClose, TypeOK, objects, gateway
<1>7. CASE Reconnect
  BY <1>7 DEF Reconnect, TypeOK, client, objects, gateway, history
<1>8. CASE Lose
  <2>1. down' \in Seq(Answers) /\ up' \in Seq(Messages)
    BY <1>8, PrefixRpcs DEF Lose, TypeOK
  <2> QED BY <1>8, <2>1 DEF Lose, TypeOK, client, objects, history
<1>9. CASE Close
  <2>1. up' \in Seq(Messages) /\ sock' = "closing" /\ subscribed' \subseteq Events
    BY <1>9 DEF Close
  <2>2. reconnect' \in BOOLEAN
    BY <1>9, Zenon DEF Close
  <2> QED BY <1>9, <2>1, <2>2 DEF Close, TypeOK, objects, history
<1> QED BY <1>1, <1>2, <1>3, <1>4, <1>5, <1>6, <1>7, <1>8, <1>9 DEF Server, Objects

(* onopen keeps the type.                                                   *)
LEMMA OnOpenTyped ==
  ASSUME TypeOK, OnOpen
  PROVE  TypeOK'
<1> DEFINE calls == {[of |-> m.of, id |-> m.id] : m \in {x \in Range(waiting_p) : x.rpc}}
<1>1. \A m \in Range(waiting_p) : m \in Messages
  BY ElementOfSeq, LenProperties DEF TypeOK, Range
<1>2. \A c \in calls : c.id \in Nat /\ c.of \in Requests
  BY <1>1, MessageFields
<1>3. Defer(calls)
  BY DEF OnOpen
<1> HIDE DEF calls
<1>4. DOMAIN deferred_p' \subseteq Nat /\ \A i \in DOMAIN deferred_p' : deferred_p'[i] \in Requests
  BY <1>2, <1>3, DeferTyped
<1>5. up' \in Seq(Messages) /\ waiting_p' \in Seq(Messages)
  BY ConcatProperties DEF OnOpen, TypeOK, Resumed
<1>6. event_subscriptions' \in [Events -> Requests \cup {None}]
  BY SubscriptionsTyped DEF OnOpen, TypeOK, Resumed
<1>7. state' \in [Requests -> {"idle", "waiting", "sent", "resolved", "rejected", "forgotten"}]
  BY DEF OnOpen, TypeOK
<1>8. isready' \in BOOLEAN
  BY Zenon DEF OnOpen
<1> QED BY <1>4, <1>5, <1>6, <1>7, <1>8 DEF OnOpen, TypeOK, objects, gateway

(* Each step keeps the type.                                                *)
LEMMA NextTyped ==
  ASSUME TypeOK, [Next]_vars
  PROVE  TypeOK'
<1>1. CASE UNCHANGED vars
  BY <1>1 DEF vars, connection, client, objects, gateway, history, TypeOK
<1> QED BY <1>1, PagesTyped, HandlersTyped, GatewayTyped, OthersTyped, OnOpenTyped
        DEF Next, Pages, Handlers

------------------------------------------------------------------------------
(* Phases                                                                   *)
LEMMA PhasesStep ==
  ASSUME TypeOK, Phases, [Next]_vars
  PROVE  Phases'
<1>1. CASE UNCHANGED vars
  BY <1>1 DEF vars, connection, client, objects, gateway, history, Phases
<1>2. ASSUME NEW r \in Requests, RpcCall(r) PROVE Phases'
  <2>1. /\ UNCHANGED <<sock, epoch, down, reconnect, isready, waiting_p, event_subscriptions,
                       decoding, subscribed>>
        /\ isready
    BY <1>2 DEF RpcCall, gateway
  <2>2. sock # "open" => up' = up
    BY <1>2 DEF RpcCall, Send
  <2> QED BY <2>1, <2>2 DEF Phases
<1>3. ASSUME NEW r \in Requests, RpcCallWaits(r) PROVE Phases'
  BY <1>3 DEF RpcCallWaits, connection, gateway, Phases
<1>4. ASSUME NEW r \in Requests, EvtCall(r) PROVE Phases'
  <2>1. /\ UNCHANGED <<sock, epoch, down, reconnect, isready, deferred_p, waiting_p,
                       decoding, subscribed>>
        /\ isready
    BY <1>4 DEF EvtCall, gateway
  <2>2. sock # "open" => up' = up
    BY <1>4 DEF EvtCall, Send
  <2> QED BY <2>1, <2>2 DEF Phases
<1>5. ASSUME NEW r \in Requests, EvtCallWaits(r) PROVE Phases'
  BY <1>5 DEF EvtCallWaits, connection, gateway, Phases
<1>6. CASE OnOpen
  BY <1>6 DEF OnOpen, Phases, gateway
<1>7. CASE OnMessage
  BY <1>7 DEF OnMessage, Phases, gateway
<1>8. ASSUME NEW i \in DOMAIN decoding, Settle(i) PROVE Phases'
  <2>1. /\ UNCHANGED <<sock, epoch, down, reconnect, isready, waiting_p, subscribed>>
        /\ isready /\ sock # "connecting"
    BY <1>8 DEF Settle, gateway, Phases
  <2>2. sock # "open" => up' = up
    BY <1>8 DEF Settle, Send
  <2> QED BY <2>1, <2>2 DEF Phases
<1>9. ASSUME NEW i \in DOMAIN decoding, SettleNobody(i) \/ RunCallback(i) PROVE Phases'
  <2>1. UNCHANGED <<connection, reconnect, isready, messageid, deferred_p, waiting_p,
                    event_subscriptions, objects, gateway, history>>
    BY <1>9 DEF SettleNobody, RunCallback
  <2>2. sock # "connecting"
    BY EmptyRpcs DEF Phases
  <2> QED BY <2>1, <2>2 DEF Phases, connection, gateway
<1>10. CASE Lose
  <2>1. ASSUME ~ isready PROVE down' = <<>>
    <3>1. down = <<>> /\ <<>> \in Seq(Answers) /\ Len(<<>>) = 0
      BY <2>1 DEF Phases
    <3>2. PICK n \in 0 .. Len(down) : down' = SubSeq(down, 1, n)
      BY <1>10 DEF Lose
    <3>3. n = 0
      BY <3>1, <3>2
    <3>4. down' \in Seq(Answers) /\ Len(down') = 0
      BY <3>1, <3>2, <3>3, SubSeqProperties
    <3> QED BY <3>4, EmptySeq
  <2>2. epoch' # 0
    BY <1>10 DEF Lose, TypeOK
  <2> QED BY <1>10, <2>1, <2>2 DEF Lose, Phases, client
<1>11. CASE Close
  BY <1>11 DEF Close, Phases
<1>12. CASE OnClose
  <2>1. deferred_p' = <<>> /\ DOMAIN <<>> = {}
    BY <1>12, EmptyRpcs DEF OnClose
  <2> QED BY <1>12, <2>1 DEF OnClose, AfterClose, Phases, gateway
<1>13. CASE Reconnect
  BY <1>13 DEF Reconnect, Phases, client, gateway
<1>14. CASE Gateway
  <2>1. /\ UNCHANGED <<sock, epoch, client>> /\ up # <<>>
        /\ sock = "open" \/ subscribed' = subscribed
    BY <1>14 DEF Gateway, GatewayRefuses, GatewayCalls, GatewaySubscribes, GatewayUnsubscribes,
                 gateway, Phases
  <2> QED BY <2>1 DEF Phases, client
<1>15. ASSUME NEW e \in Events, Registers(e) PROVE Phases'
  BY <1>15 DEF Registers, Phases, connection, client
<1>16. ASSUME NEW e \in Events, Emit(e) PROVE Phases'
  BY <1>16 DEF Emit, Phases, client
<1>17. ASSUME NEW o \in MxEvents, Drop(o) \/ Collect(o) PROVE Phases'
  <2>1. UNCHANGED <<connection, reconnect, isready, deferred_p, waiting_p, event_subscriptions,
                    decoding, subscribed>>
    BY <1>17 DEF Drop, Collect, Reachable, connection, client, gateway
  <2> QED BY <2>1 DEF Phases, connection
<1> QED BY <1>1, <1>2, <1>3, <1>4, <1>5, <1>6, <1>7, <1>8, <1>9, <1>10, <1>11, <1>12, <1>13,
           <1>14, <1>15, <1>16, <1>17
        DEF Next, Pages, Handlers, Handles, Server, Objects

------------------------------------------------------------------------------
(* Calls                                                                    *)
CallsSound == WaitingSound /\ OnTheirWay /\ ExecutedSound /\ OwnAnswer

(* What sending does to the calls on their way.                             *)
LEMMA SendRpcs ==
  ASSUME up \in Seq(Messages), NEW m \in Messages, Send(<<m>>)
  PROVE  /\ ~ m.rpc => Rpcs(up') = Rpcs(up) /\ (Single(up) => Single(up'))
         /\ (m.rpc /\ \A n \in Rpcs(up) : n.of # m.of) =>
              Rpcs(up') \subseteq Rpcs(up) \cup {m} /\ (Single(up) => Single(up'))
<1>1. up' = Append(up, m) \/ up' = up
  BY SendTyped
<1>2. CASE up' = up
  BY <1>2
<1>3. CASE up' = Append(up, m)
  <2>1. /\ m.rpc => Rpcs(up') = Rpcs(up) \cup {m}
        /\ ~ m.rpc => Rpcs(up') = Rpcs(up)
        /\ Single(up) /\ (m.rpc => \A n \in Rpcs(up) : n.of # m.of) => Single(up')
    BY <1>3, AppendRpcs
  <2> QED BY <2>1
<1> QED BY <1>1, <1>2, <1>3

(* Calls are as they were when messages only leave their sequences.         *)
LEMMA CallsFrame ==
  ASSUME CallsSound,
         UNCHANGED <<isready, messageid, deferred_p, waiting_p, executed, state, answer>>,
         Rpcs(up') \subseteq Rpcs(up), Single(up) => Single(up'),
         Rpcs(down') \subseteq Rpcs(down), Single(down) => Single(down'),
         Rpcs(decoding') \subseteq Rpcs(decoding), Single(decoding) => Single(decoding')
  PROVE  CallsSound'
<1>1. WaitingSound'
  BY DEF CallsSound, WaitingSound
<1>2. OnTheirWay'
  <2>1. \A i \in DOMAIN deferred_p' : i < messageid'
    BY DEF CallsSound, OnTheirWay
  <2>2. ASSUME isready'
        PROVE  /\ \A m \in Rpcs(up') \cup Rpcs(down') \cup Rpcs(decoding') : Known(m)'
               /\ Single(up') /\ Single(down') /\ Single(decoding')
               /\ Apart(up', down') /\ Apart(up', decoding') /\ Apart(down', decoding')
    BY <2>2 DEF CallsSound, OnTheirWay, Known, Apart
  <2> QED BY <2>1, <2>2 DEF OnTheirWay
<1>3. ExecutedSound'
  BY DEF CallsSound, ExecutedSound, Done
<1>4. OwnAnswer'
  BY DEF CallsSound, OwnAnswer
<1> QED BY <1>1, <1>2, <1>3, <1>4 DEF CallsSound

(* A call that is made while the connection is ready has an id of its own    *)
(* and is on its way once.                                                  *)
LEMMA RpcCallSound ==
  ASSUME TypeOK, Phases, CallsSound, NEW r \in Requests, RpcCall(r)
  PROVE  CallsSound'
<1>0. PICK msg \in Messages :
        msg = Message(r, messageid) /\ msg.rpc /\ msg.of = r /\ msg.id = messageid
  BY MessageTypes DEF TypeOK
<1>1. /\ msg \in Messages /\ msg.rpc /\ msg.of = r /\ msg.id = messageid
      /\ messageid \in Nat /\ up \in Seq(Messages) /\ down \in Seq(Answers)
      /\ decoding \in Seq(Answers)
  BY <1>0 DEF TypeOK
<1>2. /\ isready /\ IsCall(r) /\ state[r] = "idle" /\ messageid' = messageid + 1
      /\ Send(<<msg>>) /\ Defer({[of |-> r, id |-> messageid]})
      /\ state' = [state EXCEPT ![r] = "sent"]
      /\ UNCHANGED <<sock, down, isready, waiting_p, decoding, executed, answer>>
  BY <1>0 DEF RpcCall, Asked, NextId, gateway
<1>3. /\ DOMAIN deferred_p' = DOMAIN deferred_p \cup {messageid}
      /\ deferred_p'[messageid] = r
      /\ \A i \in DOMAIN deferred_p : i # messageid => deferred_p'[i] = deferred_p[i]
  BY <1>2 DEF Defer
<1>4. waiting_p = <<>> /\ DOMAIN waiting_p = {}
  BY <1>2, EmptyRpcs DEF Phases
<1>5. \A m \in Rpcs(up) \cup Rpcs(down) \cup Rpcs(decoding) :
        Known(m) /\ m.of \in Requests /\ m.of # r
  BY <1>1, <1>2, RpcsFields DEF CallsSound, OnTheirWay, Known
<1>6. \A m \in Rpcs(up) \cup Rpcs(down) \cup Rpcs(decoding) : Known(m)'
  <2> TAKE m \in Rpcs(up) \cup Rpcs(down) \cup Rpcs(decoding)
  <2>1. m.id \in DOMAIN deferred_p /\ m.id < messageid /\ m.id # messageid
    BY <1>1, <1>5 DEF CallsSound, OnTheirWay, Known, TypeOK
  <2> QED BY <2>1, <1>2, <1>3, <1>5 DEF Known, TypeOK
<1>7. Known(msg)'
  BY <1>1, <1>2, <1>3 DEF Known, TypeOK
<1>8. Rpcs(up') \subseteq Rpcs(up) \cup {msg} /\ Single(up')
  <2>1. Single(up)
    BY <1>2 DEF CallsSound, OnTheirWay
  <2> QED BY <2>1, <1>1, <1>2, <1>5, SendRpcs
<1>9. WaitingSound'
  BY <1>2, <1>4 DEF WaitingSound
<1>10. OnTheirWay'
  <2>1. \A i \in DOMAIN deferred_p' : i < messageid'
    BY <1>1, <1>2, <1>3 DEF CallsSound, OnTheirWay, TypeOK
  <2>2. \A m \in Rpcs(up') \cup Rpcs(down') \cup Rpcs(decoding') : Known(m)'
    BY <1>2, <1>6, <1>7, <1>8
  <2>3. Single(up') /\ Single(down') /\ Single(decoding')
    BY <1>2, <1>8 DEF CallsSound, OnTheirWay
  <2>4. Apart(up', down') /\ Apart(up', decoding') /\ Apart(down', decoding')
    BY <1>1, <1>2, <1>5, <1>8 DEF CallsSound, OnTheirWay, Apart
  <2> QED BY <2>1, <2>2, <2>3, <2>4 DEF OnTheirWay
<1>11. ExecutedSound'
  <2>1. \A q \in Requests : state'[q] \in {"idle", "waiting"} => executed'[q] = 0
    BY <1>2 DEF CallsSound, ExecutedSound, TypeOK
  <2>2. executed[r] = 0
    BY <1>2 DEF CallsSound, ExecutedSound
  <2>3. \A m \in Rpcs(up') : executed'[m.of] = 0
    BY <1>1, <1>2, <1>8, <2>2 DEF CallsSound, ExecutedSound
  <2>4. \A m \in Rpcs(down') \cup Rpcs(decoding') : Done(m)'
    BY <1>2 DEF CallsSound, ExecutedSound, Done
  <2> QED BY <2>1, <2>3, <2>4 DEF ExecutedSound
<1>12. OwnAnswer'
  BY <1>2 DEF CallsSound, OwnAnswer, TypeOK
<1> QED BY <1>9, <1>10, <1>11, <1>12 DEF CallsSound

(* What is added to the list of those that wait.                            *)
LEMMA WaitsSound ==
  ASSUME TypeOK, CallsSound, NEW r \in Requests, NEW m \in Messages, m.of = r, state[r] = "idle",
         m.rpc => m.id = messageid, ~ m.rpc => (m.add <=> Adds(r)), m.rpc <=> IsCall(r),
         IF m.rpc THEN messageid' = messageid + 1 ELSE messageid' = messageid,
         waiting_p' = Append(waiting_p, m), state' = [state EXCEPT ![r] = "waiting"],
         ~ isready,
         UNCHANGED <<up, down, isready, deferred_p, decoding, executed, answer>>
  PROVE  CallsSound'
<1>1. /\ messageid \in Nat /\ messageid' \in Nat /\ messageid <= messageid'
      /\ m.rpc => messageid < messageid'
  BY DEF TypeOK
<1>2. /\ Len(waiting_p) \in Nat /\ DOMAIN waiting_p = 1 .. Len(waiting_p)
      /\ DOMAIN waiting_p' = 1 .. Len(waiting_p) + 1
      /\ \A i \in 1 .. Len(waiting_p) : waiting_p'[i] = waiting_p[i]
      /\ waiting_p'[Len(waiting_p) + 1] = m
  BY AppendProperties, LenProperties DEF TypeOK
<1>3. \A i \in DOMAIN waiting_p :
        /\ waiting_p[i] \in Messages /\ waiting_p[i].of \in Requests
        /\ waiting_p[i].rpc => waiting_p[i].id \in Nat
  BY ElementOfSeq, LenProperties, MessageFields DEF TypeOK
<1>4. \A i \in DOMAIN waiting_p :
        /\ waiting_p[i].of # r /\ state[waiting_p[i].of] = "waiting"
        /\ waiting_p[i].rpc => waiting_p[i].id < messageid
        /\ waiting_p[i].rpc <=> IsCall(waiting_p[i].of)
        /\ ~ waiting_p[i].rpc => (waiting_p[i].add <=> Adds(waiting_p[i].of))
  BY DEF CallsSound, WaitingSound
<1>5. WaitingSound'
  <2>1. ASSUME NEW i \in DOMAIN waiting_p'
        PROVE  LET n == waiting_p'[i]
               IN /\ state'[n.of] = "waiting"
                  /\ n.rpc <=> IsCall(n.of)
                  /\ n.rpc => n.id < messageid'
                  /\ ~ n.rpc => (n.add <=> Adds(n.of))
    <3>1. CASE i \in DOMAIN waiting_p
      <4>1. waiting_p'[i] = waiting_p[i]
        BY <3>1, <1>2
      <4>2. state'[waiting_p[i].of] = "waiting"
        BY <3>1, <1>3, <1>4 DEF TypeOK
      <4>3. waiting_p[i].rpc => waiting_p[i].id < messageid'
        BY <3>1, <1>1, <1>3, <1>4
      <4> QED BY <3>1, <4>1, <4>2, <4>3, <1>4
    <3>2. CASE i = Len(waiting_p) + 1
      <4>1. waiting_p'[i] = m /\ state'[r] = "waiting"
        BY <3>2, <1>2 DEF TypeOK
      <4> QED BY <4>1, <1>1
    <3> QED BY <3>1, <3>2, <1>2
  <2>2. ASSUME NEW i \in DOMAIN waiting_p', NEW j \in DOMAIN waiting_p'
        PROVE  /\ waiting_p'[i].of = waiting_p'[j].of => i = j
               /\ (waiting_p'[i].rpc /\ waiting_p'[j].rpc
                     /\ waiting_p'[i].id = waiting_p'[j].id) => i = j
    <3>1. CASE i \in DOMAIN waiting_p /\ j \in DOMAIN waiting_p
      BY <3>1, <1>2 DEF CallsSound, WaitingSound
    <3>2. CASE i \in DOMAIN waiting_p /\ j = Len(waiting_p) + 1
      BY <3>2, <1>1, <1>2, <1>3, <1>4
    <3>3. CASE j \in DOMAIN waiting_p /\ i = Len(waiting_p) + 1
      BY <3>3, <1>1, <1>2, <1>3, <1>4
    <3> QED BY <3>1, <3>2, <3>3, <1>2
  <2> QED BY <2>1, <2>2 DEF WaitingSound
<1>6. OnTheirWay'
  BY <1>1 DEF CallsSound, OnTheirWay, TypeOK
<1>7. ExecutedSound'
  BY DEF CallsSound, ExecutedSound, TypeOK
<1>8. OwnAnswer'
  BY DEF CallsSound, OwnAnswer, TypeOK
<1> QED BY <1>5, <1>6, <1>7, <1>8 DEF CallsSound

(* A request that is made too early waits, with an id of its own.           *)
LEMMA CallWaitsSound ==
  ASSUME TypeOK, CallsSound, NEW r \in Requests, RpcCallWaits(r) \/ EvtCallWaits(r)
  PROVE  CallsSound'
<1>1. CASE RpcCallWaits(r)
  <2> DEFINE m == Message(r, messageid)
  <2>1. m \in Messages /\ m.rpc /\ m.of = r /\ m.id = messageid
    BY MessageTypes DEF TypeOK
  <2>2. /\ waiting_p' = Append(waiting_p, m) /\ messageid' = messageid + 1
        /\ state' = [state EXCEPT ![r] = "waiting"] /\ state[r] = "idle" /\ IsCall(r) /\ ~ isready
        /\ UNCHANGED <<up, down, isready, deferred_p, decoding, executed, answer>>
    BY <1>1 DEF RpcCallWaits, Asked, NextId, connection, gateway
  <2> HIDE DEF m
  <2> QED BY <2>1, <2>2, WaitsSound
<1>2. CASE EvtCallWaits(r)
  <2> DEFINE m == EvtMessage(r)
  <2>1. m \in Messages /\ ~ m.rpc /\ m.of = r /\ (m.add <=> Adds(r))
    BY MessageTypes
  <2>2. /\ waiting_p' = Append(waiting_p, m) /\ messageid' = messageid
        /\ state' = [state EXCEPT ![r] = "waiting"] /\ state[r] = "idle" /\ ~ IsCall(r) /\ ~ isready
        /\ UNCHANGED <<up, down, isready, deferred_p, decoding, executed, answer>>
    BY <1>2 DEF EvtCallWaits, Asked, connection, gateway
  <2> HIDE DEF m
  <2> QED BY <2>1, <2>2, WaitsSound
<1> QED BY <1>1, <1>2

(* A subscription leaves calls alone.                                       *)
LEMMA EvtCallSound ==
  ASSUME TypeOK, Phases, CallsSound, NEW r \in Requests, EvtCall(r)
  PROVE  CallsSound'
<1>1. /\ isready /\ ~ IsCall(r) /\ state[r] = "idle"
      /\ Send(<<EvtMessage(r)>>)
      /\ state' = [state EXCEPT ![r] = "resolved"]
      /\ UNCHANGED <<down, isready, messageid, deferred_p, waiting_p, decoding, executed, answer>>
  BY DEF EvtCall, Asked, gateway
<1>2. Rpcs(up') = Rpcs(up) /\ (Single(up) => Single(up'))
  <2>1. EvtMessage(r) \in Messages /\ ~ EvtMessage(r).rpc /\ up \in Seq(Messages)
    BY MessageTypes DEF TypeOK
  <2> QED BY <2>1, <1>1, SendRpcs
<1>3. waiting_p = <<>> /\ DOMAIN waiting_p = {}
  BY <1>1, EmptyRpcs DEF Phases
<1>4. WaitingSound'
  BY <1>1, <1>3 DEF WaitingSound
<1>5. \A m \in Rpcs(up) \cup Rpcs(down) \cup Rpcs(decoding) : Known(m)'
  <2> TAKE m \in Rpcs(up) \cup Rpcs(down) \cup Rpcs(decoding)
  <2>1. Known(m)
    BY <1>1 DEF CallsSound, OnTheirWay
  <2> QED BY <2>1, <1>1 DEF Known, TypeOK
<1>6. OnTheirWay'
  BY <1>1, <1>2, <1>5 DEF CallsSound, OnTheirWay, Apart
<1>7. ExecutedSound'
  BY <1>1, <1>2 DEF CallsSound, ExecutedSound, Done, TypeOK
<1>8. OwnAnswer'
  BY <1>1 DEF CallsSound, OwnAnswer, TypeOK
<1> QED BY <1>4, <1>6, <1>7, <1>8 DEF CallsSound

(* Calls that waited are sent and deferred under their ids, once each.      *)
LEMMA OnOpenSound ==
  ASSUME TypeOK, Phases, CallsSound, OnOpen
  PROVE  CallsSound'
<1> DEFINE calls == {[of |-> m.of, id |-> m.id] : m \in {x \in Range(waiting_p) : x.rpc}}
<1>1. /\ sock = "connecting" /\ isready' = TRUE /\ Defer(calls)
      /\ up' = up \o waiting_p /\ waiting_p' = <<>>
      /\ state' = [r \in Requests |->
                     IF \E m \in Range(waiting_p) : m.of = r
                     THEN IF IsCall(r) THEN "sent" ELSE "resolved"
                     ELSE state[r]]
      /\ UNCHANGED <<down, messageid, decoding, executed, answer>>
  BY DEF OnOpen, Resumed, gateway
<1>2. ~ isready /\ up = <<>> /\ down = <<>> /\ decoding = <<>> /\ DOMAIN deferred_p = {}
  BY <1>1 DEF Phases
<1>3. up' = waiting_p
  BY <1>1, <1>2 DEF TypeOK
<1>4. \A i \in DOMAIN waiting_p :
        /\ waiting_p[i] \in Range(waiting_p)
        /\ waiting_p[i] \in Messages /\ waiting_p[i].of \in Requests
        /\ waiting_p[i].rpc => waiting_p[i].id \in Nat
        /\ state[waiting_p[i].of] = "waiting"
        /\ waiting_p[i].rpc <=> IsCall(waiting_p[i].of)
        /\ waiting_p[i].rpc => waiting_p[i].id < messageid
  BY ElementOfSeq, LenProperties, MessageFields
     DEF TypeOK, Range, CallsSound, WaitingSound
<1>5. \A m \in Range(waiting_p) : \E i \in DOMAIN waiting_p : m = waiting_p[i]
  BY DEF Range
<1>6. \A c \in calls : \E i \in DOMAIN waiting_p :
        waiting_p[i].rpc /\ c.of = waiting_p[i].of /\ c.id = waiting_p[i].id
  BY <1>5
<1>7. \A i \in DOMAIN waiting_p : waiting_p[i].rpc =>
        \E c \in calls : c.of = waiting_p[i].of /\ c.id = waiting_p[i].id
  <2> SUFFICES ASSUME NEW i \in DOMAIN waiting_p, waiting_p[i].rpc
               PROVE  \E c \in calls : c.of = waiting_p[i].of /\ c.id = waiting_p[i].id
    OBVIOUS
  <2>1. [of |-> waiting_p[i].of, id |-> waiting_p[i].id] \in calls
    BY <1>4
  <2> QED BY <2>1
<1>8. deferred_p' = [i \in DOMAIN deferred_p \cup {c.id : c \in calls} |->
                       IF \E c \in calls : c.id = i
                       THEN (CHOOSE c \in calls : c.id = i).of
                       ELSE deferred_p[i]]
  BY <1>1 DEF Defer
<1> HIDE DEF calls
<1>9. \A i \in DOMAIN deferred_p' : i < messageid'
  <2> TAKE i \in DOMAIN deferred_p'
  <2>1. PICK c \in calls : c.id = i
    BY <1>2, <1>8
  <2> QED BY <2>1, <1>1, <1>4, <1>6
<1>10. \A m \in Messages : (\E i \in DOMAIN waiting_p : m = waiting_p[i] /\ m.rpc) => Known(m)'
  <2> SUFFICES ASSUME NEW m \in Messages, NEW i \in DOMAIN waiting_p, m = waiting_p[i], m.rpc
               PROVE  Known(m)'
    OBVIOUS
  <2>1. PICK c \in calls : c.of = m.of /\ c.id = m.id
    BY <1>7
  <2>2. m.id \in DOMAIN deferred_p'
    BY <2>1, <1>8
  <2>3. \A d \in calls : d.id = m.id => d.of = m.of
    BY <1>6 DEF CallsSound, WaitingSound
  <2>4. deferred_p'[m.id] = m.of
    BY <2>1, <2>2, <2>3, <1>8
  <2>5. state'[m.of] = "sent" /\ IsCall(m.of)
    BY <1>1, <1>4
  <2> QED BY <2>2, <2>4, <2>5 DEF Known
<1>11. /\ Rpcs(down') = {} /\ Rpcs(decoding') = {} /\ Single(down') /\ Single(decoding')
       /\ DOMAIN waiting_p' = {}
  BY <1>1, <1>2, EmptyRpcs
<1>12. WaitingSound'
  BY <1>11 DEF WaitingSound
<1>13. OnTheirWay'
  <2>1. \A m \in Rpcs(up') : \E i \in DOMAIN waiting_p : m = waiting_p[i] /\ m.rpc
    BY <1>3 DEF Rpcs
  <2>2. \A m \in Rpcs(up') : Known(m)'
    BY <2>1, <1>4, <1>10
  <2>3. Single(up')
    BY <1>3 DEF Single, CallsSound, WaitingSound
  <2> QED BY <2>2, <2>3, <1>9, <1>11 DEF OnTheirWay, Apart
<1>14. ExecutedSound'
  <2>1. \A r \in Requests : state'[r] \in {"idle", "waiting"} => executed'[r] = 0
    BY <1>1 DEF CallsSound, ExecutedSound
  <2>2. \A m \in Rpcs(up') : executed'[m.of] = 0
    BY <1>1, <1>3, <1>4 DEF Rpcs, CallsSound, ExecutedSound
  <2> QED BY <2>1, <2>2, <1>11 DEF ExecutedSound
<1>15. OwnAnswer'
  <2>1. \A r \in Requests :
          IsCall(r) /\ state'[r] \in {"resolved", "rejected"} => state'[r] = state[r]
    BY <1>1
  <2> QED BY <2>1, <1>1 DEF CallsSound, OwnAnswer
<1> QED BY <1>12, <1>13, <1>14, <1>15 DEF CallsSound

(* An answer that begins to be decoded is no longer on its way down.        *)
LEMMA OnMessageSound ==
  ASSUME TypeOK, Phases, CallsSound, OnMessage
  PROVE  CallsSound'
<1>1. /\ down # <<>> /\ down' = Tail(down)
      /\ UNCHANGED <<up, isready, messageid, deferred_p, waiting_p, executed, state, answer>>
      /\ up \in Seq(Messages) /\ down \in Seq(Answers) /\ decoding \in Seq(Answers) /\ isready
  BY DEF OnMessage, TypeOK, Phases, gateway, history
<1>2. PICK h \in Answers : h = Head(down) /\ decoding' = Append(decoding, h)
  BY <1>1, TailRpcs DEF OnMessage
<1>3. /\ Rpcs(down') \subseteq Rpcs(down) /\ Single(down')
      /\ h.rpc => h \in Rpcs(down) /\ \A n \in Rpcs(down') : n.of # h.of
  BY <1>1, <1>2, TailRpcs DEF CallsSound, OnTheirWay
<1>4. h.rpc => /\ \A n \in Rpcs(decoding) : n.of # h.of
               /\ \A n \in Rpcs(up) : n.of # h.of
  BY <1>1, <1>3 DEF CallsSound, OnTheirWay, Apart
<1>5. /\ h.rpc => Rpcs(decoding') = Rpcs(decoding) \cup {h}
      /\ ~ h.rpc => Rpcs(decoding') = Rpcs(decoding)
      /\ Single(decoding')
  <2>1. Single(decoding)
    BY <1>1 DEF CallsSound, OnTheirWay
  <2> QED BY <2>1, <1>1, <1>2, <1>4, AppendRpcs
<1>6. Rpcs(down') \cup Rpcs(decoding') \subseteq Rpcs(down) \cup Rpcs(decoding)
  BY <1>3, <1>5
<1>7. OnTheirWay'
  <2>1. \A m \in Rpcs(up') \cup Rpcs(down') \cup Rpcs(decoding') : Known(m)'
    BY <1>1, <1>6 DEF CallsSound, OnTheirWay, Known
  <2>2. Apart(up', down') /\ Apart(up', decoding') /\ Apart(down', decoding')
    BY <1>1, <1>3, <1>4, <1>5 DEF CallsSound, OnTheirWay, Apart
  <2> QED BY <2>1, <2>2, <1>1, <1>3, <1>5 DEF CallsSound, OnTheirWay
<1>8. ExecutedSound'
  BY <1>1, <1>6 DEF CallsSound, ExecutedSound, Done
<1> QED BY <1>1, <1>7, <1>8 DEF CallsSound, WaitingSound, OwnAnswer

(* The request under the id of an answer is the one it answers.             *)
LEMMA SettleSound ==
  ASSUME TypeOK, Phases, CallsSound, NEW i \in DOMAIN decoding, Settle(i)
  PROVE  CallsSound'
<1>1. PICK m \in Answers : m = decoding[i]
  BY RemoveAtRpcs DEF TypeOK
<1>2. PICK r \in Requests : r = deferred_p[m.id] /\ m.id \in DOMAIN deferred_p
  BY <1>1 DEF Settle, TypeOK
<1>3. /\ m.rpc /\ Removed(m.id) /\ decoding' = RemoveAt(decoding, i)
      /\ answer' = [answer EXCEPT ![r] = m.of]
      /\ state' = [state EXCEPT ![r] = IF m.ok THEN "resolved" ELSE "rejected"]
      /\ UNCHANGED <<down, isready, messageid, waiting_p, executed>>
      /\ Send(<<EvtMessage(r)>>) \/ up' = up
  BY <1>1, <1>2 DEF Settle, Decoded, gateway
<1>4. isready
  BY <1>2 DEF Phases
<1>5. /\ Rpcs(decoding') \subseteq Rpcs(decoding) /\ Single(decoding')
      /\ m \in Rpcs(decoding) /\ \A n \in Rpcs(decoding') : n.of # m.of
  BY <1>1, <1>3, <1>4, RemoveAtRpcs DEF TypeOK, CallsSound, OnTheirWay
<1>6. m.of = r /\ state[r] = "sent" /\ IsCall(r) /\ Done(m)
  BY <1>2, <1>4, <1>5 DEF CallsSound, OnTheirWay, ExecutedSound, Known
<1>7. Rpcs(up') = Rpcs(up) /\ Single(up')
  <2>1. EvtMessage(r) \in Messages /\ ~ EvtMessage(r).rpc /\ up \in Seq(Messages)
    BY MessageTypes DEF TypeOK
  <2> QED BY <2>1, <1>3, <1>4, SendRpcs DEF CallsSound, OnTheirWay
<1>8. \A n \in Rpcs(up') \cup Rpcs(down') \cup Rpcs(decoding') :
        Known(n) /\ n.of # m.of
  BY <1>3, <1>4, <1>5, <1>7 DEF CallsSound, OnTheirWay, Apart
<1>9. \A n \in Rpcs(up') \cup Rpcs(down') \cup Rpcs(decoding') : Known(n)'
  <2> TAKE n \in Rpcs(up') \cup Rpcs(down') \cup Rpcs(decoding')
  <2>1. n.id # m.id /\ n.id \in DOMAIN deferred_p
    BY <1>2, <1>6, <1>8 DEF Known
  <2>2. n.id \in DOMAIN deferred_p' /\ deferred_p'[n.id] = n.of
    BY <2>1, <1>3, <1>8 DEF Removed, Known
  <2>3. state'[n.of] = "sent"
    BY <1>3, <1>6, <1>8 DEF Known, TypeOK
  <2> QED BY <2>2, <2>3, <1>8 DEF Known
<1>10. WaitingSound'
  <2>1. waiting_p = <<>> /\ DOMAIN waiting_p = {}
    BY <1>4, EmptyRpcs DEF Phases
  <2> QED BY <2>1, <1>3 DEF WaitingSound
<1>11. OnTheirWay'
  <2>1. \A k \in DOMAIN deferred_p' : k < messageid'
    BY <1>3 DEF Removed, CallsSound, OnTheirWay
  <2>2. Apart(up', down') /\ Apart(up', decoding') /\ Apart(down', decoding')
    BY <1>3, <1>4, <1>5, <1>7 DEF CallsSound, OnTheirWay, Apart
  <2>3. Single(down')
    BY <1>3, <1>4 DEF CallsSound, OnTheirWay
  <2> QED BY <2>1, <2>2, <2>3, <1>5, <1>7, <1>9 DEF OnTheirWay
<1>12. ExecutedSound'
  <2>1. \A q \in Requests : state'[q] \in {"idle", "waiting"} => executed'[q] = 0
    BY <1>3 DEF CallsSound, ExecutedSound, TypeOK
  <2>2. \A n \in Rpcs(up') : executed'[n.of] = 0
    BY <1>3, <1>7 DEF CallsSound, ExecutedSound
  <2>3. \A n \in Rpcs(down') \cup Rpcs(decoding') : Done(n)'
    BY <1>3, <1>4, <1>5 DEF CallsSound, ExecutedSound, Done
  <2> QED BY <2>1, <2>2, <2>3 DEF ExecutedSound
<1>13. OwnAnswer'
  <2> SUFFICES ASSUME NEW q \in Requests, IsCall(q), state'[q] \in {"resolved", "rejected"}
               PROVE  answer'[q] = q /\ executed'[q] = IF state'[q] = "resolved" THEN 1 ELSE 0
    BY DEF OwnAnswer
  <2>1. CASE q = r
    BY <2>1, <1>3, <1>6 DEF Done, TypeOK
  <2>2. CASE q # r
    BY <2>2, <1>3 DEF CallsSound, OwnAnswer, TypeOK
  <2> QED BY <2>1, <2>2
<1> QED BY <1>10, <1>11, <1>12, <1>13 DEF CallsSound

(* The gateway answers a call once; it is executed if the answer says so.    *)
LEMMA GatewayAnswersSound ==
  ASSUME TypeOK, Phases, CallsSound, GatewayRefuses \/ GatewayCalls
  PROVE  CallsSound'
<1>1. up # <<>> /\ isready
  BY DEF GatewayRefuses, GatewayCalls, Phases
<1>2. PICK h \in Messages : h = Head(up)
  BY <1>1, TailRpcs DEF TypeOK
<1>3. PICK ok \in BOOLEAN :
        /\ h.rpc /\ (ok <=> h.of \notin Forbidden)
        /\ down' = Append(down, [rpc |-> TRUE, of |-> h.of, id |-> h.id, ok |-> ok])
        /\ up' = Tail(up)
        /\ executed' = IF ok THEN [executed EXCEPT ![h.of] = @ + 1] ELSE executed
        /\ UNCHANGED <<isready, messageid, deferred_p, waiting_p, decoding, state, answer>>
  <2>1. CASE GatewayRefuses
    BY <2>1, <1>2 DEF GatewayRefuses, Answer, client, gateway, history
  <2>2. CASE GatewayCalls
    BY <2>2, <1>2 DEF GatewayCalls, Answer, client, history
  <2> QED BY <2>1, <2>2
<1>4. h.of \in Requests /\ h.id \in Nat
  BY <1>3, MessageFields
<1>5. PICK a \in Answers :
        /\ a = [rpc |-> TRUE, of |-> h.of, id |-> h.id, ok |-> ok]
        /\ a.rpc /\ a.of = h.of /\ a.id = h.id /\ a.ok = ok
  <2>1. [rpc |-> TRUE, of |-> h.of, id |-> h.id, ok |-> ok] \in Answers
    BY <1>4, MessageTypes
  <2> QED BY <2>1
<1>6. /\ Rpcs(up') \subseteq Rpcs(up) /\ Single(up')
      /\ h \in Rpcs(up) /\ \A n \in Rpcs(up') : n.of # h.of
  BY <1>1, <1>2, <1>3, TailRpcs DEF TypeOK, CallsSound, OnTheirWay
<1>7. /\ \A n \in Rpcs(up') \cup Rpcs(down) \cup Rpcs(decoding) : n.of # h.of /\ n.of \in Requests
      /\ Known(h) /\ executed[h.of] = 0
  <2>1. \A n \in Rpcs(up) \cup Rpcs(down) \cup Rpcs(decoding) : n.of \in Requests
    BY RpcsFields DEF TypeOK
  <2> QED BY <2>1, <1>1, <1>6 DEF CallsSound, OnTheirWay, ExecutedSound, Apart
<1>8. Rpcs(down') = Rpcs(down) \cup {a} /\ Single(down')
  <2>1. Single(down) /\ down \in Seq(Answers) /\ down' = Append(down, a)
    BY <1>1, <1>3, <1>5 DEF CallsSound, OnTheirWay, TypeOK
  <2>2. \A n \in Rpcs(down) : n.of # a.of
    BY <1>5, <1>7
  <2>3. Rpcs(Append(down, a)) = Rpcs(down) \cup {a} /\ Single(Append(down, a))
    <3>1. a.rpc /\ a \in Answers
      BY <1>5
    <3>2. Single(down) /\ (a.rpc => \A n \in Rpcs(down) : n.of # a.of)
      BY <2>1, <2>2
    <3>3. /\ a.rpc => Rpcs(Append(down, a)) = Rpcs(down) \cup {a}
          /\ Single(down) /\ (a.rpc => \A n \in Rpcs(down) : n.of # a.of) => Single(Append(down, a))
      BY <2>1, <3>1, AppendRpcs
    <3> QED BY <3>1, <3>2, <3>3, Zenon
  <2> QED BY <2>1, <2>3
<1>9. OnTheirWay'
  <2>1. Known(a)
    BY <1>5, <1>7 DEF Known
  <2>2. \A m \in Rpcs(up') \cup Rpcs(down') \cup Rpcs(decoding') : Known(m)'
    BY <2>1, <1>1, <1>3, <1>6, <1>8 DEF CallsSound, OnTheirWay, Known
  <2>3. Apart(up', down') /\ Apart(up', decoding') /\ Apart(down', decoding')
    BY ZenonT(30), <1>1, <1>3, <1>5, <1>6, <1>7, <1>8 DEF CallsSound, OnTheirWay, Apart
  <2>4. Single(decoding') /\ \A k \in DOMAIN deferred_p' : k < messageid'
    BY <1>1, <1>3 DEF CallsSound, OnTheirWay
  <2> QED BY <2>2, <2>3, <2>4, <1>6, <1>8 DEF OnTheirWay
<1>10. /\ \A r \in Requests : r # h.of => executed'[r] = executed[r]
       /\ executed'[h.of] = IF ok THEN 1 ELSE 0
  BY <1>3, <1>4, <1>7 DEF TypeOK
<1>11. ExecutedSound'
  <2>1. state[h.of] = "sent"
    BY <1>7 DEF Known
  <2>2. \A r \in Requests : state'[r] \in {"idle", "waiting"} => executed'[r] = 0
    BY <2>1, <1>3, <1>10 DEF CallsSound, ExecutedSound
  <2>3. \A m \in Rpcs(up') : executed'[m.of] = 0
    BY <1>6, <1>7, <1>10 DEF CallsSound, ExecutedSound
  <2>4. Done(a)'
    BY <1>3, <1>5, <1>10 DEF Done
  <2>5. \A m \in Rpcs(down) \cup Rpcs(decoding) : Done(m)'
    BY <1>1, <1>7, <1>10 DEF CallsSound, ExecutedSound, Done
  <2> QED BY <2>2, <2>3, <2>4, <2>5, <1>3, <1>8 DEF ExecutedSound
<1>12. OwnAnswer'
  <2>1. state[h.of] = "sent"
    BY <1>7 DEF Known
  <2> QED BY <2>1, <1>3, <1>10 DEF CallsSound, OwnAnswer
<1>13. WaitingSound'
  BY <1>3 DEF CallsSound, WaitingSound
<1> QED BY <1>9, <1>11, <1>12, <1>13 DEF CallsSound

(* onclose forgets all calls, so that ids may start from 0 again.           *)
LEMMA OnCloseSound ==
  ASSUME TypeOK, Phases, CallsSound, OnClose
  PROVE  CallsSound'
<1>1. /\ sock = "closing" /\ messageid' = 0 /\ deferred_p' = <<>> /\ isready' = FALSE
      /\ waiting_p' = <<>>
      /\ state' = [r \in Requests |-> IF state[r] \in {"sent", "waiting"} THEN "forgotten"
                                      ELSE state[r]]
      /\ UNCHANGED <<up, executed, answer>>
  BY DEF OnClose, gateway
<1>2. DOMAIN deferred_p' = {} /\ DOMAIN waiting_p' = {}
  BY <1>1, EmptyRpcs
<1>3. \A r \in Requests : state'[r] # "forgotten" => state'[r] = state[r]
  BY <1>1
<1>4. WaitingSound' /\ OnTheirWay'
  BY <1>1, <1>2 DEF WaitingSound, OnTheirWay
<1>5. ExecutedSound'
  BY <1>1, <1>3 DEF CallsSound, ExecutedSound
<1>6. OwnAnswer'
  BY <1>1, <1>3 DEF CallsSound, OwnAnswer
<1> QED BY <1>4, <1>5, <1>6 DEF CallsSound

(* Nothing is on its way at the start.                                      *)
LEMMA CallsInit ==
  ASSUME Init
  PROVE  Phases /\ CallsSound
<1>1. /\ up = <<>> /\ down = <<>> /\ decoding = <<>> /\ DOMAIN waiting_p = {}
      /\ DOMAIN deferred_p = {} /\ Rpcs(up) = {} /\ isready = FALSE
      /\ state = [r \in Requests |-> "idle"] /\ executed = [r \in Requests |-> 0]
  BY EmptyRpcs DEF Init
<1>2. Phases
  BY <1>1 DEF Init, Phases
<1>3. WaitingSound /\ OnTheirWay
  BY <1>1 DEF WaitingSound, OnTheirWay
<1>4. ExecutedSound /\ OwnAnswer
  BY <1>1 DEF ExecutedSound, OwnAnswer
<1> QED BY <1>2, <1>3, <1>4 DEF CallsSound

(* Each step keeps calls sound.                                             *)
LEMMA CallsStep ==
  ASSUME TypeOK, Phases, CallsSound, [Next]_vars
  PROVE  CallsSound'
<1> USE DEF connection, client, objects, gateway, history
<1>1. CASE UNCHANGED vars
  <2>1. UNCHANGED <<isready, messageid, deferred_p, waiting_p, executed, state, answer, up, down,
                    decoding>>
    BY <1>1 DEF vars
  <2> QED BY <2>1, CallsFrame
<1>2. ASSUME NEW i \in DOMAIN decoding, SettleNobody(i) \/ RunCallback(i) PROVE CallsSound'
  <2>1. /\ UNCHANGED <<isready, messageid, deferred_p, waiting_p, executed, state, answer, up,
                       down>>
        /\ decoding' = RemoveAt(decoding, i)
    BY <1>2 DEF SettleNobody, RunCallback, Decoded
  <2>2. Rpcs(decoding') \subseteq Rpcs(decoding) /\ (Single(decoding) => Single(decoding'))
    BY <2>1, RemoveAtRpcs DEF TypeOK
  <2> QED BY <2>1, <2>2, CallsFrame
<1>3. CASE Lose \/ Close
  <2>1. UNCHANGED <<isready, messageid, deferred_p, waiting_p, executed, state, answer, decoding>>
    BY <1>3 DEF Lose, Close
  <2>2. up' = <<>> /\ Rpcs(up') = {} /\ Single(up')
    BY <1>3, EmptyRpcs DEF Lose, Close
  <2>3. Rpcs(down') \subseteq Rpcs(down) /\ (Single(down) => Single(down'))
    BY ZenonT(30), <1>3, PrefixRpcs DEF Lose, Close, TypeOK
  <2> QED BY <2>1, <2>2, <2>3, CallsFrame
<1>4. CASE GatewaySubscribes \/ GatewayUnsubscribes
  <2>1. /\ UNCHANGED <<isready, messageid, deferred_p, waiting_p, executed, state, answer, down,
                       decoding>>
        /\ up # <<>> /\ up' = Tail(up)
    BY <1>4 DEF GatewaySubscribes, GatewayUnsubscribes
  <2>2. Rpcs(up') \subseteq Rpcs(up) /\ (Single(up) => Single(up'))
    BY <2>1, TailRpcs DEF TypeOK
  <2> QED BY <2>1, <2>2, CallsFrame
<1>5. ASSUME NEW e \in Events, Emit(e) PROVE CallsSound'
  <2>1. UNCHANGED <<isready, messageid, deferred_p, waiting_p, executed, state, answer, up,
                    decoding>>
    BY <1>5 DEF Emit
  <2>2. PICK a \in Answers : down' = Append(down, a) /\ ~ a.rpc
    <3>1. [rpc |-> FALSE, of |-> e] \in Answers /\ ~ [rpc |-> FALSE, of |-> e].rpc
      BY DEF Answers
    <3> QED BY <3>1, <1>5 DEF Emit
  <2>3. Rpcs(down') \subseteq Rpcs(down) /\ (Single(down) => Single(down'))
    BY <2>2, AppendRpcs DEF TypeOK
  <2> QED BY <2>1, <2>3, CallsFrame
<1>6. ASSUME NEW e \in Events, Registers(e) PROVE CallsSound'
  <2>1. UNCHANGED <<isready, messageid, deferred_p, waiting_p, executed, state, answer, up, down,
                    decoding>>
    BY <1>6 DEF Registers
  <2> QED BY <2>1, CallsFrame
<1>7. ASSUME NEW o \in MxEvents, Drop(o) \/ Collect(o) PROVE CallsSound'
  <2>1. UNCHANGED <<isready, messageid, deferred_p, waiting_p, executed, state, answer, up, down,
                    decoding>>
    BY <1>7 DEF Drop, Collect, Reachable
  <2> QED BY <2>1, CallsFrame
<1>8. CASE Reconnect
  <2>1. UNCHANGED <<isready, messageid, deferred_p, waiting_p, executed, state, answer, up, down,
                    decoding>>
    BY <1>8 DEF Reconnect
  <2> QED BY <2>1, CallsFrame
<1> QED BY <1>1, <1>2, <1>3, <1>4, <1>5, <1>6, <1>7, <1>8, RpcCallSound, CallWaitsSound,
           EvtCallSound, OnOpenSound, OnMessageSound, SettleSound, GatewayAnswersSound,
           OnCloseSound
        DEF Next, Pages, Handlers, Handles, Server, Objects, Gateway

------------------------------------------------------------------------------
(* Subscriptions                                                            *)
LEMMA CallbacksFrame ==
  ASSUME CallbacksSound, UNCHANGED <<sock, epoch, up, event_subscriptions, subscribed, missed>>
  PROVE  CallbacksSound'
BY DEF CallbacksSound

(* An evt message is sent when its callback is set.                         *)
LEMMA SendCallbacks ==
  ASSUME TypeOK, CallbacksSound, NEW m \in Messages, Send(<<m>>),
         m.rpc => event_subscriptions' = event_subscriptions,
         ~ m.rpc => event_subscriptions' = Subscription(event_subscriptions, m),
         UNCHANGED <<sock, epoch, subscribed, missed>>
  PROVE  CallbacksSound'
<1> SUFFICES ASSUME sock' = "open", NEW e \in Events
             PROVE  IF About(up', e) # {}
                    THEN LastAbout(up', e).add <=> event_subscriptions'[e] # None
                    ELSE /\ e \in subscribed' => event_subscriptions'[e] # None
                         /\ (epoch' = 0 /\ event_subscriptions'[e] # None)
                              => e \in subscribed' \cup missed'
  BY DEF CallbacksSound
<1>1. /\ up \in Seq(Messages) /\ up' \in Seq(Messages) /\ up' = Append(up, m)
      /\ m.of \in Requests /\ m.rpc \in BOOLEAN /\ (~ m.rpc => m.add \in BOOLEAN)
      /\ event_subscriptions \in [Events -> Requests \cup {None}]
  BY SendTyped, MessageFields DEF TypeOK
<1>4. /\ About(up, e) = Places(up, EvtsOf(e)) /\ LastAbout(up, e) = LastOf(up, EvtsOf(e))
      /\ About(up', e) = Places(up', EvtsOf(e)) /\ LastAbout(up', e) = LastOf(up', EvtsOf(e))
  BY <1>1, AboutPlaces
<1>5. /\ m \in EvtsOf(e) => /\ Places(up', EvtsOf(e)) # {}
                           /\ LastOf(up', EvtsOf(e)) = m
      /\ m \notin EvtsOf(e) =>
           /\ Places(up', EvtsOf(e)) = Places(up, EvtsOf(e))
           /\ Places(up, EvtsOf(e)) # {} => LastOf(up', EvtsOf(e)) = LastOf(up, EvtsOf(e))
  BY <1>1, AppendPlaces
<1>2. CASE m \in EvtsOf(e)
  <2>1. About(up', e) # {} /\ LastAbout(up', e) = m
    BY <1>2, <1>4, <1>5
  <2>2. event_subscriptions'[e] = IF m.add THEN m.of ELSE None
    BY <1>1, <1>2 DEF EvtsOf, Subscription, CallbackOf
  <2>3. event_subscriptions'[e] # None <=> m.add
    BY <2>2, <1>1, NoneAssumption
  <2> QED BY <2>1, <2>3
<1>3. CASE m \notin EvtsOf(e)
  <2>1. /\ About(up', e) = About(up, e)
        /\ About(up, e) # {} => LastAbout(up', e) = LastAbout(up, e)
    BY <1>3, <1>4, <1>5
  <2>2. event_subscriptions'[e] = event_subscriptions[e]
    <3>1. CASE m.rpc
      BY <3>1
    <3>2. CASE ~ m.rpc
      <4>1. EventOf[m.of] # e
        BY <3>2, <1>3 DEF EvtsOf
      <4> QED BY <4>1, <3>2, <1>1 DEF Subscription
    <3> QED BY <3>1, <3>2
  <2> QED BY <2>1, <2>2 DEF CallbacksSound
<1> QED BY <1>2, <1>3

(* The callbacks after onopen are those of the last messages that waited.   *)
LEMMA OnOpenCallbacks ==
  ASSUME TypeOK, Phases, OnOpen
  PROVE  CallbacksSound'
<1>1. /\ sock = "connecting" /\ up' = up \o waiting_p
      /\ event_subscriptions' = Subscriptions(event_subscriptions, waiting_p)
      /\ UNCHANGED <<epoch, subscribed>>
  BY DEF OnOpen, Resumed, gateway
<1>2. up' = waiting_p /\ waiting_p \in Seq(Messages) /\ subscribed = {}
  BY <1>1 DEF Phases, TypeOK
<1>3. ASSUME NEW e \in Events
      PROVE  IF About(up', e) # {}
             THEN LastAbout(up', e).add <=> event_subscriptions'[e] # None
             ELSE /\ e \in subscribed' => event_subscriptions'[e] # None
                  /\ (epoch' = 0 /\ event_subscriptions'[e] # None)
                       => e \in subscribed' \cup missed'
  <2>1. CASE About(waiting_p, e) # {}
    <3>1. PICK m \in EvtsOf(e) : m = LastAbout(waiting_p, e)
      BY <2>1, <1>2, AboutPlaces, LastOfProperties
    <3>2. m.of \in Requests /\ m.add \in BOOLEAN
      BY <3>1, MessageFields DEF EvtsOf
    <3>3. event_subscriptions'[e] = IF m.add THEN m.of ELSE None
      BY <2>1, <3>1, <1>1 DEF Subscriptions, CallbackOf
    <3>4. event_subscriptions'[e] # None <=> m.add
      BY <3>2, <3>3, NoneAssumption
    <3> QED BY <2>1, <3>1, <3>4, <1>2
  <2>2. CASE About(waiting_p, e) = {}
    <3>1. event_subscriptions'[e] = event_subscriptions[e]
      BY <2>2, <1>1 DEF Subscriptions
    <3>2. epoch' = 0 => event_subscriptions'[e] = None
      BY <3>1, <1>1 DEF Phases
    <3> QED BY <2>2, <3>2, <1>1, <1>2
  <2> QED BY <2>1, <2>2
<1> QED BY <1>3 DEF CallbacksSound

(* The gateway does what the message says that was on its way.              *)
LEMMA GatewayCallbacks ==
  ASSUME TypeOK, CallbacksSound, Gateway
  PROVE  CallbacksSound'
<1>1. /\ up # <<>> /\ up' = Tail(up) /\ UNCHANGED <<sock, epoch, event_subscriptions>>
      /\ up \in Seq(Messages)
  BY DEF Gateway, GatewayRefuses, GatewayCalls, GatewaySubscribes, GatewayUnsubscribes, client,
         TypeOK
<1>2. PICK h \in Messages : h = Head(up)
  BY <1>1, TailRpcs
<1>3. h.of \in Requests /\ h.rpc \in BOOLEAN /\ (~ h.rpc => h.add \in BOOLEAN)
  BY <1>2, MessageFields
<1>4. h.rpc => UNCHANGED <<subscribed, missed>>
  BY <1>2 DEF Gateway, GatewayRefuses, GatewayCalls, GatewaySubscribes, GatewayUnsubscribes,
              gateway, history
<1>5. ~ h.rpc /\ h.add =>
        \/ /\ subscribed' = subscribed \cup {EventOf[h.of]}
           /\ missed' = missed \ {EventOf[h.of]}
        \/ /\ subscribed' = subscribed
           /\ missed' = missed \cup {EventOf[h.of]}
  BY <1>2 DEF Gateway, GatewayRefuses, GatewayCalls, GatewaySubscribes, GatewayUnsubscribes
<1>6. ~ h.rpc /\ ~ h.add => /\ subscribed' = subscribed \ {EventOf[h.of]}
                            /\ missed' = missed \ {EventOf[h.of]}
  BY <1>2 DEF Gateway, GatewayRefuses, GatewayCalls, GatewaySubscribes, GatewayUnsubscribes
<1>7. \A e \in Events : h \notin EvtsOf(e) => /\ e \in subscribed' <=> e \in subscribed
                                              /\ e \in missed' <=> e \in missed
  BY <1>2, <1>3, <1>4, <1>5, <1>6 DEF EvtsOf
<1>8. ASSUME sock = "open", NEW e \in Events
      PROVE  IF About(up', e) # {}
             THEN LastAbout(up', e).add <=> event_subscriptions'[e] # None
             ELSE /\ e \in subscribed' => event_subscriptions'[e] # None
                  /\ (epoch' = 0 /\ event_subscriptions'[e] # None)
                       => e \in subscribed' \cup missed'
  <2>1. up' \in Seq(Messages)
    BY <1>1, TailRpcs
  <2>5. /\ About(up, e) = Places(up, EvtsOf(e)) /\ LastAbout(up, e) = LastOf(up, EvtsOf(e))
        /\ About(up', e) = Places(up', EvtsOf(e)) /\ LastAbout(up', e) = LastOf(up', EvtsOf(e))
    BY <2>1, <1>1, AboutPlaces
  <2>6. /\ Places(up', EvtsOf(e)) # {} => /\ Places(up, EvtsOf(e)) # {}
                                          /\ LastOf(up', EvtsOf(e)) = LastOf(up, EvtsOf(e))
        /\ Places(up', EvtsOf(e)) = {} /\ h \in EvtsOf(e) =>
             Places(up, EvtsOf(e)) # {} /\ LastOf(up, EvtsOf(e)) = h
        /\ Places(up', EvtsOf(e)) = {} /\ h \notin EvtsOf(e) => Places(up, EvtsOf(e)) = {}
    BY <1>1, <1>2, TailPlaces
  <2>2. CASE About(up', e) # {}
    <3>1. About(up, e) # {} /\ LastAbout(up', e) = LastAbout(up, e)
      BY <2>2, <2>5, <2>6
    <3> QED BY <2>2, <3>1, <1>1, <1>8 DEF CallbacksSound
  <2>3. CASE About(up', e) = {} /\ h \in EvtsOf(e)
    <3>1. About(up, e) # {} /\ LastAbout(up, e) = h
      BY <2>3, <2>5, <2>6
    <3>2. h.add <=> event_subscriptions[e] # None
      BY <3>1, <1>8 DEF CallbacksSound
    <3>3. ~ h.rpc /\ EventOf[h.of] = e
      BY <2>3 DEF EvtsOf
    <3> QED BY <2>3, <3>2, <3>3, <1>1, <1>3, <1>5, <1>6
  <2>4. CASE About(up', e) = {} /\ h \notin EvtsOf(e)
    <3>1. About(up, e) = {}
      BY <2>4, <2>5, <2>6
    <3> QED BY <2>4, <3>1, <1>1, <1>7, <1>8 DEF CallbacksSound
  <2> QED BY <2>2, <2>3, <2>4
<1> QED BY <1>1, <1>8 DEF CallbacksSound

(* Each step keeps callbacks and subscriptions in agreement.                *)
LEMMA CallbacksStep ==
  ASSUME TypeOK, Phases, CallsSound, CallbacksSound, [Next]_vars
  PROVE  CallbacksSound'
<1>1. ASSUME NEW r \in Requests, RpcCall(r) PROVE CallbacksSound'
  <2>1. PICK m \in Messages : m = Message(r, messageid) /\ m.rpc
    BY MessageTypes DEF TypeOK
  <2>2. /\ Send(<<m>>) /\ event_subscriptions' = event_subscriptions
        /\ UNCHANGED <<sock, epoch, subscribed, missed>>
    BY <1>1, <2>1 DEF RpcCall, gateway
  <2> QED BY <2>1, <2>2, SendCallbacks
<1>2. ASSUME NEW r \in Requests, EvtCall(r) PROVE CallbacksSound'
  <2>1. PICK m \in Messages : m = EvtMessage(r) /\ ~ m.rpc
    BY MessageTypes
  <2>2. /\ Send(<<m>>) /\ event_subscriptions' = Subscription(event_subscriptions, m)
        /\ UNCHANGED <<sock, epoch, subscribed, missed>>
    BY <1>2, <2>1 DEF EvtCall, gateway
  <2> QED BY <2>1, <2>2, SendCallbacks
<1>3. ASSUME NEW i \in DOMAIN decoding, Settle(i) PROVE CallbacksSound'
  <2>1. PICK r : r = deferred_p[decoding[i].id]
    OBVIOUS
  <2>2. r \in Requests
    BY <1>3, <2>1 DEF Settle, TypeOK
  <2>3. PICK m \in Messages : m = EvtMessage(r) /\ ~ m.rpc
    BY <2>2, MessageTypes
  <2>4. UNCHANGED <<sock, epoch, subscribed, missed>>
    BY <1>3 DEF Settle, gateway
  <2>5. \/ Send(<<m>>) /\ event_subscriptions' = Subscription(event_subscriptions, m)
        \/ UNCHANGED <<up, event_subscriptions>>
    BY <1>3, <2>1, <2>3 DEF Settle
  <2>6. CASE UNCHANGED <<up, event_subscriptions>>
    BY <2>4, <2>6, CallbacksFrame
  <2> QED BY <2>3, <2>4, <2>5, <2>6, SendCallbacks
<1>4. ASSUME NEW i \in DOMAIN decoding, SettleNobody(i) \/ RunCallback(i) PROVE CallbacksSound'
  <2>1. UNCHANGED <<sock, epoch, up, event_subscriptions, subscribed, missed>>
    BY <1>4 DEF SettleNobody, RunCallback, connection, gateway, history
  <2> QED BY <2>1, CallbacksFrame
<1>5. ASSUME NEW r \in Requests, RpcCallWaits(r) \/ EvtCallWaits(r) PROVE CallbacksSound'
  <2>1. UNCHANGED <<sock, epoch, up, event_subscriptions, subscribed, missed>>
    BY <1>5 DEF RpcCallWaits, EvtCallWaits, connection, gateway
  <2> QED BY <2>1, CallbacksFrame
<1>6. ASSUME Server \/ Objects \/ OnMessage \/ UNCHANGED vars PROVE CallbacksSound'
  <2>1. UNCHANGED <<sock, epoch, up, event_subscriptions, subscribed, missed>>
    BY <1>6 DEF Server, Registers, Emit, Objects, Drop, Collect, Reachable, OnMessage, vars,
                connection, client, gateway, history
  <2> QED BY <2>1, CallbacksFrame
<1>7. ASSUME OnClose \/ Reconnect \/ Lose \/ Close PROVE CallbacksSound'
  <2>1. sock' # "open"
    BY <1>7 DEF OnClose, AfterClose, Reconnect, Lose, Close
  <2> QED BY <2>1 DEF CallbacksSound
<1> QED BY <1>1, <1>2, <1>3, <1>4, <1>5, <1>6, <1>7, OnOpenCallbacks, GatewayCallbacks
        DEF Next, Pages, Handlers, Handles

------------------------------------------------------------------------------
(* The last request                                                         *)
(* Rpc messages and answers of watches and unwatches of the event's key, and *)
(* whatever waits that is about the event.                                  *)
AskSet(e) == {m \in Messages \cup Answers : m.rpc /\ Kind[m.of] # "call" /\ EventOf[m.of] = e}
WaitSet(e) == {m \in Messages : Kind[m.of] # "call" /\ EventOf[m.of] = e}

(* The callback that the request asks for.                                  *)
Wanted(r) == IF r # None /\ Adds(r) THEN r ELSE None

(* LastRequest, of any four sequences.                                      *)
Pipe(e, w, u, d, c, l, s) ==
  /\ Places(w, WaitSet(e)) # {} => l = LastOf(w, WaitSet(e)).of
  /\ Places(w, WaitSet(e)) = {} =>
     /\ Places(u, AskSet(e)) # {} => l = LastOf(u, AskSet(e)).of
     /\ Places(u, AskSet(e)) = {} =>
        /\ Places(d, AskSet(e)) # {} => l = LastOf(d, AskSet(e)).of
        /\ Places(d, AskSet(e)) = {} =>
           /\ Places(c, AskSet(e)) # {} => l = LastOf(c, AskSet(e)).of
           /\ Places(c, AskSet(e)) = {} => s = Wanted(l)

(* The requests about an event that are on their way, as places.            *)
LEMMA AskPlaces ==
  ASSUME NEW s, s \in Seq(Messages) \/ s \in Seq(Answers), NEW e
  PROVE  Asks(s, e) = Places(s, AskSet(e))
<1>1. \A i \in DOMAIN s : s[i] \in Messages \cup Answers
  BY ElementOfSeq, LenProperties
<1> QED BY <1>1 DEF Asks, Places, AskSet

(* Those that wait, as places.                                              *)
LEMMA WaitPlaces ==
  ASSUME NEW s \in Seq(Messages), NEW e
  PROVE  Waits(s, e) = Places(s, WaitSet(e))
<1>1. \A i \in DOMAIN s : s[i] \in Messages
  BY ElementOfSeq, LenProperties
<1> QED BY <1>1 DEF Waits, Places, WaitSet

(* LastRequest says this of the state.                                      *)
LEMMA PipeForm ==
  ASSUME TypeOK, NEW e
  PROVE  LastRequest(e) <=>
           Pipe(e, waiting_p, up, down, decoding, last[e], event_subscriptions[e])
<1>1. /\ Waits(waiting_p, e) = Places(waiting_p, WaitSet(e))
      /\ Asks(up, e) = Places(up, AskSet(e))
      /\ Asks(down, e) = Places(down, AskSet(e))
      /\ Asks(decoding, e) = Places(decoding, AskSet(e))
  BY AskPlaces, WaitPlaces DEF TypeOK
<1> QED BY <1>1 DEF LastRequest, Pipe, LastOf, Wanted

(* And this of the next state.                                              *)
LEMMA PipeFormAfter ==
  ASSUME TypeOK', NEW e
  PROVE  LastRequest(e)' <=>
           Pipe(e, waiting_p', up', down', decoding', last'[e], event_subscriptions'[e])
<1>1. /\ Waits(waiting_p', e) = Places(waiting_p', WaitSet(e))
      /\ Asks(up', e) = Places(up', AskSet(e))
      /\ Asks(down', e) = Places(down', AskSet(e))
      /\ Asks(decoding', e) = Places(decoding', AskSet(e))
  BY AskPlaces, WaitPlaces DEF TypeOK
<1> QED BY <1>1 DEF LastRequest, Pipe, LastOf, Wanted

(* No message is in the empty sequence.                                     *)
LEMMA EmptyPlaces == \A M : Places(<<>>, M) = {}
BY EmptyRpcs DEF Places

(* No request about an event of which none is of that kind.                 *)
LEMMA RpcsPlaces ==
  ASSUME NEW s, s \in Seq(Messages) \/ s \in Seq(Answers), NEW e,
         \A m \in Rpcs(s) : ~ (Kind[m.of] # "call" /\ EventOf[m.of] = e)
  PROVE  Places(s, AskSet(e)) = {}
<1>1. \A i \in DOMAIN s : s[i].rpc => s[i] \in Rpcs(s)
  BY DEF Rpcs
<1> QED BY <1>1 DEF Places, AskSet

(* A request that waits.                                                    *)
LEMMA PipeWaits ==
  ASSUME NEW e, NEW w \in Seq(Messages), NEW m \in Messages, NEW u, NEW d, NEW c,
         NEW l, NEW k, NEW s, Pipe(e, w, u, d, c, l, s),
         k = IF m \in WaitSet(e) THEN m.of ELSE l
  PROVE  Pipe(e, Append(w, m), u, d, c, k, s)
<1>1. /\ m \in WaitSet(e) => Places(Append(w, m), WaitSet(e)) # {}
                             /\ LastOf(Append(w, m), WaitSet(e)) = m
      /\ m \notin WaitSet(e) =>
           /\ Places(Append(w, m), WaitSet(e)) = Places(w, WaitSet(e))
           /\ Places(w, WaitSet(e)) # {} =>
                LastOf(Append(w, m), WaitSet(e)) = LastOf(w, WaitSet(e))
  BY AppendPlaces
<1>2. CASE m \in WaitSet(e)
  BY <1>1, <1>2 DEF Pipe
<1>3. CASE m \notin WaitSet(e)
  BY <1>1, <1>3 DEF Pipe
<1> QED BY <1>2, <1>3

(* A request that is sent while none waits.                                 *)
LEMMA PipeSends ==
  ASSUME NEW e, NEW w, Places(w, WaitSet(e)) = {},
         NEW u \in Seq(Messages), NEW m \in Messages, NEW d, NEW c,
         NEW l, NEW k, NEW s, Pipe(e, w, u, d, c, l, s),
         k = IF m \in AskSet(e) THEN m.of ELSE l
  PROVE  Pipe(e, w, Append(u, m), d, c, k, s)
<1>1. /\ m \in AskSet(e) => Places(Append(u, m), AskSet(e)) # {}
                            /\ LastOf(Append(u, m), AskSet(e)) = m
      /\ m \notin AskSet(e) =>
           /\ Places(Append(u, m), AskSet(e)) = Places(u, AskSet(e))
           /\ Places(u, AskSet(e)) # {} =>
                LastOf(Append(u, m), AskSet(e)) = LastOf(u, AskSet(e))
  BY AppendPlaces
<1>2. CASE m \in AskSet(e)
  BY <1>1, <1>2 DEF Pipe
<1>3. CASE m \notin AskSet(e)
  BY <1>1, <1>3 DEF Pipe
<1> QED BY <1>2, <1>3

(* The first of the messages of a sequence, if it does not matter.          *)
LEMMA TailWithout ==
  ASSUME NEW B, NEW s \in Seq(B), s # <<>>, NEW M, Head(s) \notin M
  PROVE  /\ Places(Tail(s), M) = {} <=> Places(s, M) = {}
         /\ Places(s, M) # {} => LastOf(Tail(s), M) = LastOf(s, M)
BY TailPlaces

(* The first message to the gateway becomes an answer to the same request.   *)
LEMMA PipeAnswers ==
  ASSUME NEW e, NEW w, NEW u \in Seq(Messages), u # <<>>, NEW d \in Seq(Answers), NEW c,
         NEW l, NEW s, Pipe(e, w, u, d, c, l, s),
         NEW a \in Answers, a.of = Head(u).of, a \in AskSet(e) <=> Head(u) \in AskSet(e)
  PROVE  Pipe(e, w, Tail(u), Append(d, a), c, l, s)
<1>1. /\ Places(Tail(u), AskSet(e)) # {} => /\ Places(u, AskSet(e)) # {}
                                            /\ LastOf(Tail(u), AskSet(e)) = LastOf(u, AskSet(e))
      /\ Places(Tail(u), AskSet(e)) = {} /\ Head(u) \in AskSet(e) =>
           Places(u, AskSet(e)) # {} /\ LastOf(u, AskSet(e)) = Head(u)
      /\ Places(Tail(u), AskSet(e)) = {} /\ Head(u) \notin AskSet(e) => Places(u, AskSet(e)) = {}
  BY TailPlaces
<1>2. /\ a \in AskSet(e) => Places(Append(d, a), AskSet(e)) # {}
                            /\ LastOf(Append(d, a), AskSet(e)) = a
      /\ a \notin AskSet(e) =>
           /\ Places(Append(d, a), AskSet(e)) = Places(d, AskSet(e))
           /\ Places(d, AskSet(e)) # {} =>
                LastOf(Append(d, a), AskSet(e)) = LastOf(d, AskSet(e))
  BY AppendPlaces
<1>3. CASE Places(Tail(u), AskSet(e)) # {}
  BY <1>1, <1>3 DEF Pipe
<1>4. CASE Places(Tail(u), AskSet(e)) = {} /\ a \in AskSet(e)
  BY <1>1, <1>2, <1>4 DEF Pipe
<1>5. CASE Places(Tail(u), AskSet(e)) = {} /\ a \notin AskSet(e)
  BY <1>1, <1>2, <1>5 DEF Pipe
<1> QED BY <1>3, <1>4, <1>5

(* The first of the answers begins to be decoded.                           *)
LEMMA PipeDecodes ==
  ASSUME NEW e, NEW w, NEW u, NEW d \in Seq(Answers), d # <<>>, NEW c \in Seq(Answers),
         NEW l, NEW s, Pipe(e, w, u, d, c, l, s)
  PROVE  Pipe(e, w, u, Tail(d), Append(c, Head(d)), l, s)
<1> DEFINE a == Head(d)
<1>1. /\ Places(Tail(d), AskSet(e)) # {} => /\ Places(d, AskSet(e)) # {}
                                            /\ LastOf(Tail(d), AskSet(e)) = LastOf(d, AskSet(e))
      /\ Places(Tail(d), AskSet(e)) = {} /\ a \in AskSet(e) =>
           Places(d, AskSet(e)) # {} /\ LastOf(d, AskSet(e)) = a
      /\ Places(Tail(d), AskSet(e)) = {} /\ a \notin AskSet(e) => Places(d, AskSet(e)) = {}
  BY TailPlaces
<1>2. a \in Answers
  BY TailRpcs
<1> HIDE DEF a
<1>3. /\ a \in AskSet(e) => Places(Append(c, a), AskSet(e)) # {}
                            /\ LastOf(Append(c, a), AskSet(e)) = a
      /\ a \notin AskSet(e) =>
           /\ Places(Append(c, a), AskSet(e)) = Places(c, AskSet(e))
           /\ Places(c, AskSet(e)) # {} =>
                LastOf(Append(c, a), AskSet(e)) = LastOf(c, AskSet(e))
  BY <1>2, AppendPlaces
<1>4. CASE Places(Tail(d), AskSet(e)) # {}
  BY <1>1, <1>4 DEF Pipe, a
<1>5. CASE Places(Tail(d), AskSet(e)) = {} /\ a \in AskSet(e)
  BY <1>1, <1>3, <1>5 DEF Pipe, a
<1>6. CASE Places(Tail(d), AskSet(e)) = {} /\ a \notin AskSet(e)
  BY <1>1, <1>3, <1>6 DEF Pipe, a
<1> QED BY <1>4, <1>5, <1>6

(* The first of the answers that are decoded does what it asked for.        *)
LEMMA PipeSettles ==
  ASSUME NEW e, NEW w, NEW u, NEW d, NEW c \in Seq(Answers), c # <<>>,
         NEW l, NEW s, NEW t, Pipe(e, w, u, d, c, l, s),
         t = IF Head(c) \in AskSet(e) THEN Wanted(Head(c).of) ELSE s
  PROVE  Pipe(e, w, u, d, Tail(c), l, t)
<1>1. /\ Places(Tail(c), AskSet(e)) # {} => /\ Places(c, AskSet(e)) # {}
                                            /\ LastOf(Tail(c), AskSet(e)) = LastOf(c, AskSet(e))
      /\ Places(Tail(c), AskSet(e)) = {} /\ Head(c) \in AskSet(e) =>
           Places(c, AskSet(e)) # {} /\ LastOf(c, AskSet(e)) = Head(c)
      /\ Places(Tail(c), AskSet(e)) = {} /\ Head(c) \notin AskSet(e) => Places(c, AskSet(e)) = {}
  BY TailPlaces
<1>2. CASE Head(c) \in AskSet(e)
  BY <1>1, <1>2 DEF Pipe
<1>3. CASE Head(c) \notin AskSet(e)
  BY <1>1, <1>3 DEF Pipe
<1> QED BY <1>2, <1>3

(* A message to the gateway, an event for the client, and the first of those *)
(* that are decoded, if it is not about such a request.                     *)
LEMMA PipeIgnores ==
  ASSUME NEW e, NEW w, NEW u, NEW d, NEW c, NEW l, NEW s, Pipe(e, w, u, d, c, l, s)
  PROVE  /\ u \in Seq(Messages) /\ u # <<>> /\ Head(u) \notin AskSet(e) =>
              Pipe(e, w, Tail(u), d, c, l, s)
         /\ d \in Seq(Answers) =>
              \A a \in Answers \ AskSet(e) : Pipe(e, w, u, Append(d, a), c, l, s)
<1>1. ASSUME u \in Seq(Messages), u # <<>>, Head(u) \notin AskSet(e)
      PROVE  Pipe(e, w, Tail(u), d, c, l, s)
  <2>1. /\ Places(Tail(u), AskSet(e)) = {} <=> Places(u, AskSet(e)) = {}
        /\ Places(u, AskSet(e)) # {} => LastOf(Tail(u), AskSet(e)) = LastOf(u, AskSet(e))
    BY <1>1, TailWithout
  <2> QED BY <2>1 DEF Pipe
<1>2. ASSUME d \in Seq(Answers), NEW a \in Answers \ AskSet(e)
      PROVE  Pipe(e, w, u, Append(d, a), c, l, s)
  <2>1. a \in Answers /\ a \notin AskSet(e)
    OBVIOUS
  <2>2. /\ Places(Append(d, a), AskSet(e)) = Places(d, AskSet(e))
        /\ Places(d, AskSet(e)) # {} =>
             LastOf(Append(d, a), AskSet(e)) = LastOf(d, AskSet(e))
    BY <1>2, <2>1, AppendPlaces
  <2> QED BY <2>2 DEF Pipe
<1> QED BY <1>1, <1>2

(* The connection has not been lost or closed, and decodes in order.        *)
Quiet == inorder /\ epoch = 0 /\ reconnect

(* Until then the connection is open, or nothing is on its way.             *)
LEMMA QuietPhases ==
  ASSUME Phases, Quiet
  PROVE  /\ isready => sock = "open" /\ waiting_p = <<>>
         /\ ~ isready => sock = "connecting" /\ up = <<>> /\ down = <<>> /\ decoding = <<>>
BY DEF Phases, Quiet

(* A call that is sent is the last request about its key.                   *)
LEMMA RpcCallRequests ==
  ASSUME TypeOK, TypeOK', Phases, RequestsSound, NEW r \in Requests, RpcCall(r)
  PROVE  RequestsSound'
<1>1. PICK m \in Messages : m = Message(r, messageid) /\ m.rpc /\ m.of = r
  BY MessageTypes DEF TypeOK
<1>2. /\ isready /\ Send(<<m>>)
      /\ UNCHANGED <<epoch, reconnect, inorder, waiting_p, down, decoding, event_subscriptions>>
      /\ last' = IF Kind[r] = "call" THEN last ELSE [last EXCEPT ![EventOf[r]] = r]
  BY <1>1 DEF RpcCall, Asked
<1> SUFFICES ASSUME Quiet, NEW e \in Events PROVE LastRequest(e)'
  BY <1>2 DEF RequestsSound, Quiet
<1>3. Pipe(e, waiting_p, up, down, decoding, last[e], event_subscriptions[e])
  BY PipeForm DEF RequestsSound, Quiet
<1>4. up \in Seq(Messages) /\ up' = Append(up, m)
  BY <1>1, <1>2, SendTyped, QuietPhases DEF TypeOK
<1>5. m \in AskSet(e) <=> Kind[r] # "call" /\ EventOf[r] = e
  BY <1>1 DEF AskSet
<1>6. last'[e] = IF m \in AskSet(e) THEN m.of ELSE last[e]
  BY <1>1, <1>2, <1>5 DEF TypeOK
<1>7. Places(waiting_p, WaitSet(e)) = {}
  BY <1>2, QuietPhases, EmptyPlaces
<1>8. Pipe(e, waiting_p, Append(up, m), down, decoding, last'[e], event_subscriptions[e])
  BY <1>3, <1>4, <1>6, <1>7, PipeSends
<1> QED BY <1>2, <1>4, <1>8, PipeFormAfter

(* So is one that waits.                                                    *)
LEMMA WaitsRequests ==
  ASSUME TypeOK, TypeOK', RequestsSound, NEW r \in Requests, RpcCallWaits(r) \/ EvtCallWaits(r)
  PROVE  RequestsSound'
<1>1. PICK m \in Messages : waiting_p' = Append(waiting_p, m) /\ m.of = r
  BY SMTT(30), MessageTypes DEF RpcCallWaits, EvtCallWaits, TypeOK
<1>2. /\ UNCHANGED <<epoch, reconnect, inorder, up, down, decoding, event_subscriptions>>
      /\ last' = IF Kind[r] = "call" THEN last ELSE [last EXCEPT ![EventOf[r]] = r]
  BY DEF RpcCallWaits, EvtCallWaits, Asked, connection
<1> SUFFICES ASSUME Quiet, NEW e \in Events PROVE LastRequest(e)'
  BY <1>2 DEF RequestsSound, Quiet
<1>3. Pipe(e, waiting_p, up, down, decoding, last[e], event_subscriptions[e])
  BY PipeForm DEF RequestsSound, Quiet
<1>4. m \in WaitSet(e) <=> Kind[r] # "call" /\ EventOf[r] = e
  BY <1>1 DEF WaitSet
<1>5. last'[e] = IF m \in WaitSet(e) THEN m.of ELSE last[e]
  BY <1>1, <1>2, <1>4 DEF TypeOK
<1>6. waiting_p \in Seq(Messages)
  BY DEF TypeOK
<1>7. Pipe(e, Append(waiting_p, m), up, down, decoding, last'[e], event_subscriptions[e])
  BY <1>1, <1>3, <1>5, <1>6, PipeWaits
<1> QED BY <1>1, <1>2, <1>7, PipeFormAfter

(* A subscription takes effect at once: no call is about its event.         *)
LEMMA EvtCallRequests ==
  ASSUME TypeOK, TypeOK', Phases, CallsSound, RequestsSound, NEW r \in Requests, EvtCall(r)
  PROVE  RequestsSound'
<1>1. PICK m \in Messages : m = EvtMessage(r) /\ ~ m.rpc /\ m.of = r
  BY MessageTypes
<1>2. /\ isready /\ Send(<<m>>) /\ ~ IsCall(r) /\ Kind[r] # "call"
      /\ event_subscriptions' = Subscription(event_subscriptions, EvtMessage(r))
      /\ UNCHANGED <<epoch, reconnect, inorder, waiting_p, down, decoding>>
      /\ last' = [last EXCEPT ![EventOf[r]] = r]
  BY <1>1 DEF EvtCall, Asked, IsCall
<1> SUFFICES ASSUME Quiet, NEW e \in Events PROVE LastRequest(e)'
  BY <1>2 DEF RequestsSound, Quiet
<1>3. Pipe(e, waiting_p, up, down, decoding, last[e], event_subscriptions[e])
  BY PipeForm DEF RequestsSound, Quiet
<1>4. up \in Seq(Messages) /\ up' = Append(up, m)
  BY <1>1, <1>2, SendTyped, QuietPhases DEF TypeOK
<1>5. m \notin AskSet(e)
  BY <1>1 DEF AskSet
<1>6. Places(waiting_p, WaitSet(e)) = {}
  BY <1>2, QuietPhases, EmptyPlaces
<1>7. Pipe(e, waiting_p, up', down, decoding, last[e], event_subscriptions[e])
  BY <1>3, <1>4, <1>5, <1>6, PipeSends
<1>8. event_subscriptions' =
        [event_subscriptions EXCEPT ![EventOf[r]] = IF Adds(r) THEN r ELSE None]
  BY <1>2, SubscriptionTyped DEF TypeOK
<1>9. CASE EventOf[r] # e
  <2>1. last'[e] = last[e] /\ event_subscriptions'[e] = event_subscriptions[e]
    BY <1>2, <1>8, <1>9 DEF TypeOK
  <2> QED BY <2>1, <1>2, <1>7, PipeFormAfter
<1>10. CASE EventOf[r] = e
  <2>1. last'[e] = r /\ event_subscriptions'[e] = Wanted(r)
    BY <1>2, <1>8, <1>10, NoneAssumption DEF TypeOK, Wanted
  <2>2. \A n \in Rpcs(up) \cup Rpcs(down) \cup Rpcs(decoding) :
          n.of \in Requests /\ IsCall(n.of)
    BY <1>2, RpcsFields DEF TypeOK, CallsSound, OnTheirWay, Known
  <2>3. \A n \in Rpcs(up) \cup Rpcs(down) \cup Rpcs(decoding) :
          ~ (Kind[n.of] # "call" /\ EventOf[n.of] = e)
    BY <2>2, <1>2, <1>10, WatchEventAssumption
  <2>4. Rpcs(up') = Rpcs(up) /\ up' \in Seq(Messages)
    BY <1>1, <1>4, AppendRpcs DEF TypeOK
  <2>5. Places(up', AskSet(e)) = {} /\ Places(down, AskSet(e)) = {}
        /\ Places(decoding, AskSet(e)) = {}
    BY <2>3, <2>4, RpcsPlaces DEF TypeOK
  <2>6. Pipe(e, waiting_p, up', down, decoding, last'[e], event_subscriptions'[e])
    BY <2>1, <2>5, <1>6 DEF Pipe
  <2> QED BY <2>6, <1>2, PipeFormAfter
<1> QED BY <1>9, <1>10

(* Those that wait go on in order: calls are on their way in the order in   *)
(* which pages made them, and subscriptions take effect in that order.      *)
LEMMA OnOpenRequests ==
  ASSUME TypeOK, TypeOK', Phases, CallsSound, RequestsSound, OnOpen
  PROVE  RequestsSound'
<1>1. /\ sock = "connecting" /\ up' = up \o waiting_p /\ waiting_p' = <<>>
      /\ event_subscriptions' = Subscriptions(event_subscriptions, waiting_p)
      /\ UNCHANGED <<epoch, reconnect, inorder, down, decoding, last>>
  BY DEF OnOpen, Resumed
<1>2. /\ down = <<>> /\ decoding = <<>> /\ up = <<>>
      /\ waiting_p \in Seq(Messages) /\ up' = waiting_p
  BY <1>1 DEF Phases, TypeOK
<1> SUFFICES ASSUME Quiet, NEW e \in Events PROVE LastRequest(e)'
  BY <1>1 DEF RequestsSound, Quiet
<1>3. Pipe(e, waiting_p, <<>>, <<>>, <<>>, last[e], event_subscriptions[e])
  BY <1>2, PipeForm DEF RequestsSound, Quiet
<1>4. \A i \in DOMAIN waiting_p :
        /\ waiting_p[i] \in Messages /\ waiting_p[i].of \in Requests
        /\ waiting_p[i].rpc <=> IsCall(waiting_p[i].of)
        /\ ~ waiting_p[i].rpc => /\ Kind[waiting_p[i].of] # "call"
                                 /\ waiting_p[i].add <=> Adds(waiting_p[i].of)
  BY <1>2, ElementOfSeq, LenProperties, MessageFields DEF CallsSound, WaitingSound, IsCall
<1>5. Places(waiting_p, AskSet(e)) \subseteq Places(waiting_p, WaitSet(e))
      /\ Places(waiting_p, EvtsOf(e)) \subseteq Places(waiting_p, WaitSet(e))
  BY <1>4 DEF Places, AskSet, EvtsOf, WaitSet
<1>6. /\ About(waiting_p, e) = Places(waiting_p, EvtsOf(e))
      /\ LastAbout(waiting_p, e) = LastOf(waiting_p, EvtsOf(e))
  BY <1>2, AboutPlaces
<1>7. \A M : Places(<<>>, M) = {}
  BY EmptyPlaces
<1>8. event_subscriptions'[e] = IF About(waiting_p, e) = {} THEN event_subscriptions[e]
                                ELSE CallbackOf(LastAbout(waiting_p, e))
  BY <1>1 DEF Subscriptions
<1>9. Pipe(e, <<>>, waiting_p, <<>>, <<>>, last[e], event_subscriptions'[e])
  <2>1. CASE Places(waiting_p, WaitSet(e)) = {}
    <3>1. Places(waiting_p, AskSet(e)) = {} /\ About(waiting_p, e) = {}
      BY <2>1, <1>5, <1>6
    <3>2. event_subscriptions[e] = Wanted(last[e])
      BY <2>1, <1>3, <1>7 DEF Pipe
    <3> QED BY <3>1, <3>2, <1>7, <1>8 DEF Pipe
  <2>2. CASE Places(waiting_p, WaitSet(e)) # {}
    <3>1. PICK m \in WaitSet(e) : m = LastOf(waiting_p, WaitSet(e))
      BY <2>2, <1>2, LastOfProperties
    <3>2. PICK k \in DOMAIN waiting_p : m = waiting_p[k]
      BY <2>2, <3>1, <1>2, LastOfProperties DEF LastOf
    <3>3. last[e] = m.of
      BY <2>2, <3>1, <1>3 DEF Pipe
    <3>4. m.of \in Requests /\ Kind[m.of] # "call" /\ EventOf[m.of] = e
          /\ (m.rpc <=> IsCall(m.of)) /\ (~ m.rpc => (m.add <=> Adds(m.of)))
      BY <3>1, <3>2, <1>4 DEF WaitSet
    <3>5. \A i \in Places(waiting_p, WaitSet(e)) :
            /\ i \in DOMAIN waiting_p
            /\ waiting_p[i].rpc <=> m.rpc
      <4> TAKE i \in Places(waiting_p, WaitSet(e))
      <4>1. i \in DOMAIN waiting_p /\ Kind[waiting_p[i].of] # "call" /\ EventOf[waiting_p[i].of] = e
        BY DEF Places, WaitSet
      <4>2. IsCall(waiting_p[i].of) <=> IsCall(m.of)
        BY <4>1, <3>4, <1>4, WatchEventAssumption
      <4> QED BY <4>1, <4>2, <3>4, <1>4
    <3>6. CASE m.rpc
      <4>1. Places(waiting_p, AskSet(e)) = Places(waiting_p, WaitSet(e))
        BY <3>5, <3>6, <1>4, <1>5 DEF Places, AskSet, WaitSet
      <4>2. LastOf(waiting_p, AskSet(e)) = m
        BY <4>1, <3>1 DEF LastOf
      <4> QED BY <4>1, <4>2, <2>2, <3>3, <1>7 DEF Pipe
    <3>7. CASE ~ m.rpc
      <4>1. Places(waiting_p, EvtsOf(e)) = Places(waiting_p, WaitSet(e))
        BY <3>5, <3>7, <1>4, <1>5 DEF Places, EvtsOf, WaitSet
      <4>2. Places(waiting_p, AskSet(e)) = {}
        BY <3>5, <3>7, <1>5 DEF Places, AskSet
      <4>3. LastAbout(waiting_p, e) = m /\ About(waiting_p, e) # {}
        BY <4>1, <2>2, <3>1, <1>6 DEF LastOf
      <4>4. event_subscriptions'[e] = Wanted(m.of)
        BY <4>3, <3>4, <3>7, <1>8, NoneAssumption DEF CallbackOf, Wanted
      <4> QED BY <4>2, <4>4, <3>3, <1>7 DEF Pipe
    <3> QED BY <3>6, <3>7
  <2> QED BY <2>1, <2>2
<1> QED BY <1>1, <1>2, <1>9, PipeFormAfter

(* The answer to a watch does what the watch asked for.                     *)
LEMMA SettleRequests ==
  ASSUME TypeOK, TypeOK', Phases, CallsSound, RequestsSound, NEW i \in DOMAIN decoding, Settle(i)
  PROVE  RequestsSound'
<1>1. UNCHANGED <<epoch, reconnect, inorder, waiting_p, down, last>>
  BY DEF Settle
<1> SUFFICES ASSUME Quiet, NEW e \in Events PROVE LastRequest(e)'
  BY <1>1 DEF RequestsSound, Quiet
<1>2. Pipe(e, waiting_p, up, down, decoding, last[e], event_subscriptions[e])
  BY PipeForm DEF RequestsSound, Quiet
<1>3. PICK m \in Answers : m = decoding[i]
  BY RemoveAtRpcs DEF TypeOK
<1>4. i = 1 /\ decoding' = Tail(decoding) /\ decoding # <<>> /\ m = Head(decoding)
      /\ decoding \in Seq(Answers)
  BY SMTT(30), <1>3, RemoveAtRpcs DEF Settle, Decoded, Quiet, TypeOK
<1>5. PICK r \in Requests : r = deferred_p[m.id] /\ m.id \in DOMAIN deferred_p /\ m.rpc
  BY <1>3 DEF Settle, TypeOK
<1>6. isready /\ m \in Rpcs(decoding)
  BY <1>3, <1>5, RemoveAtRpcs DEF Phases, TypeOK
<1>7. m.of = r /\ IsCall(r) /\ (m.ok <=> r \notin Forbidden)
  BY <1>5, <1>6 DEF CallsSound, OnTheirWay, Known, ExecutedSound, Done
<1>8. m \in AskSet(e) <=> Kind[r] # "call" /\ EventOf[r] = e
  BY <1>3, <1>5, <1>7 DEF AskSet
<1>9. IF m.ok /\ Kind[r] \in {"watch", "unwatch"}
      THEN /\ Send(<<EvtMessage(r)>>)
           /\ event_subscriptions' = Subscription(event_subscriptions, EvtMessage(r))
      ELSE UNCHANGED <<up, event_subscriptions>>
  BY <1>3, <1>5 DEF Settle
<1>10. Kind[r] # "call" => m.ok /\ Kind[r] \in {"watch", "unwatch"}
  BY <1>7, ForbiddenAssumption DEF IsCall
<1>11. event_subscriptions'[e] = IF m \in AskSet(e) THEN Wanted(m.of) ELSE event_subscriptions[e]
  <2>1. CASE m \in AskSet(e)
    <3>1. event_subscriptions' = Subscription(event_subscriptions, EvtMessage(r))
      BY <2>1, <1>8, <1>9, <1>10
    <3>2. event_subscriptions' =
            [event_subscriptions EXCEPT ![EventOf[r]] = IF Adds(r) THEN r ELSE None]
      BY <3>1, SubscriptionTyped DEF TypeOK
    <3> QED BY <2>1, <3>2, <1>7, <1>8, NoneAssumption DEF TypeOK, Wanted
  <2>2. CASE m \notin AskSet(e)
    <3>1. CASE UNCHANGED <<up, event_subscriptions>>
      BY <2>2, <3>1
    <3>2. CASE Kind[r] \in {"watch", "unwatch"}
               /\ event_subscriptions' = Subscription(event_subscriptions, EvtMessage(r))
      <4>1. EventOf[r] # e
        BY <2>2, <3>2, <1>8
      <4>2. event_subscriptions' =
              [event_subscriptions EXCEPT ![EventOf[r]] = IF Adds(r) THEN r ELSE None]
        BY <3>2, SubscriptionTyped DEF TypeOK
      <4> QED BY <2>2, <4>1, <4>2 DEF TypeOK
    <3> QED BY <3>1, <3>2, <1>9
  <2> QED BY <2>1, <2>2
<1>12. Pipe(e, waiting_p, up, down, Tail(decoding), last[e], event_subscriptions'[e])
  BY <1>2, <1>4, <1>11, PipeSettles
<1>13. Pipe(e, waiting_p, up', down, Tail(decoding), last[e], event_subscriptions'[e])
  <2>1. CASE up' = up
    BY <2>1, <1>12
  <2>2. CASE Send(<<EvtMessage(r)>>)
    <3>1. PICK n \in Messages : n = EvtMessage(r) /\ ~ n.rpc
      BY MessageTypes
    <3>2. up' = Append(up, n) /\ up \in Seq(Messages)
      BY <2>2, <3>1, <1>6, SendTyped, QuietPhases DEF TypeOK
    <3>3. n \notin AskSet(e)
      BY <3>1 DEF AskSet
    <3>4. Places(waiting_p, WaitSet(e)) = {}
      BY <1>6, QuietPhases, EmptyPlaces
    <3> QED BY <3>2, <3>3, <3>4, <1>12, PipeSends
  <2> QED BY <2>1, <2>2, <1>9
<1> QED BY <1>1, <1>4, <1>13, PipeFormAfter

(* Other messages are not about requests: no answer comes that nobody        *)
(* waits for while the connection is the first.                             *)
LEMMA DecodedRequests ==
  ASSUME TypeOK, TypeOK', Phases, CallsSound, RequestsSound, NEW i \in DOMAIN decoding,
         SettleNobody(i) \/ RunCallback(i)
  PROVE  RequestsSound'
<1>1. UNCHANGED <<epoch, reconnect, inorder, waiting_p, up, down, last, event_subscriptions>>
  BY DEF SettleNobody, RunCallback, connection, history
<1> SUFFICES ASSUME Quiet, NEW e \in Events PROVE LastRequest(e)'
  BY <1>1 DEF RequestsSound, Quiet
<1>2. Pipe(e, waiting_p, up, down, decoding, last[e], event_subscriptions[e])
  BY PipeForm DEF RequestsSound, Quiet
<1>3. PICK m \in Answers : m = decoding[i]
  BY RemoveAtRpcs DEF TypeOK
<1>4. i = 1 /\ decoding' = Tail(decoding) /\ decoding # <<>> /\ m = Head(decoding)
      /\ decoding \in Seq(Answers)
  BY <1>3, RemoveAtRpcs DEF SettleNobody, RunCallback, Decoded, Quiet, TypeOK
<1>5. isready
  BY <1>4, QuietPhases
<1>6. ~ m.rpc
  <2> SUFFICES ASSUME m.rpc PROVE FALSE
    OBVIOUS
  <2>1. m \in Rpcs(decoding) /\ m.id \notin DOMAIN deferred_p
    BY <1>3, RemoveAtRpcs DEF SettleNobody, RunCallback, TypeOK
  <2> QED BY <2>1, <1>5 DEF CallsSound, OnTheirWay, Known
<1>7. m \notin AskSet(e)
  BY <1>6 DEF AskSet
<1>8. Pipe(e, waiting_p, up, down, Tail(decoding), last[e], event_subscriptions[e])
  BY <1>2, <1>4, <1>7, PipeSettles
<1> QED BY <1>1, <1>4, <1>8, PipeFormAfter

(* Answers begin to be decoded in order.                                    *)
LEMMA OnMessageRequests ==
  ASSUME TypeOK, TypeOK', RequestsSound, OnMessage
  PROVE  RequestsSound'
<1>1. /\ down # <<>> /\ down' = Tail(down) /\ decoding' = Append(decoding, Head(down))
      /\ UNCHANGED <<epoch, reconnect, inorder, waiting_p, up, last, event_subscriptions>>
  BY DEF OnMessage, history
<1> SUFFICES ASSUME Quiet, NEW e \in Events PROVE LastRequest(e)'
  BY <1>1 DEF RequestsSound, Quiet
<1>2. Pipe(e, waiting_p, up, down, decoding, last[e], event_subscriptions[e])
  BY PipeForm DEF RequestsSound, Quiet
<1>3. Pipe(e, waiting_p, up, Tail(down), Append(decoding, Head(down)), last[e],
           event_subscriptions[e])
  BY <1>1, <1>2, PipeDecodes DEF TypeOK
<1> QED BY <1>1, <1>3, PipeFormAfter

(* The gateway answers in order.                                            *)
LEMMA GatewayRequests ==
  ASSUME TypeOK, TypeOK', RequestsSound, Gateway
  PROVE  RequestsSound'
<1>1. /\ up # <<>> /\ up' = Tail(up) /\ up \in Seq(Messages)
      /\ UNCHANGED <<epoch, reconnect, inorder, waiting_p, decoding, last, event_subscriptions>>
  BY DEF Gateway, GatewayRefuses, GatewayCalls, GatewaySubscribes, GatewayUnsubscribes, client,
         history, TypeOK
<1> SUFFICES ASSUME Quiet, NEW e \in Events PROVE LastRequest(e)'
  BY <1>1 DEF RequestsSound, Quiet
<1>2. Pipe(e, waiting_p, up, down, decoding, last[e], event_subscriptions[e])
  BY PipeForm DEF RequestsSound, Quiet
<1>3. PICK h \in Messages : h = Head(up)
  BY <1>1, TailRpcs
<1>4. CASE ~ h.rpc
  <2>1. UNCHANGED down
    BY <1>3, <1>4 DEF Gateway, GatewayRefuses, GatewayCalls, GatewaySubscribes,
                      GatewayUnsubscribes
  <2>2. h \notin AskSet(e)
    BY <1>4 DEF AskSet
  <2>3. Pipe(e, waiting_p, Tail(up), down, decoding, last[e], event_subscriptions[e])
    BY <2>2, <1>1, <1>2, <1>3, PipeIgnores
  <2> QED BY <2>1, <2>3, <1>1, PipeFormAfter
<1>5. CASE h.rpc
  <2>1. h.of \in Requests /\ h.id \in Nat
    BY <1>3, <1>5, MessageFields
  <2>2. PICK ok \in BOOLEAN :
          down' = Append(down, [rpc |-> TRUE, of |-> h.of, id |-> h.id, ok |-> ok])
    BY <1>3, <1>5 DEF Gateway, GatewayRefuses, GatewayCalls, GatewaySubscribes,
                      GatewayUnsubscribes, Answer
  <2>3. PICK a \in Answers : down' = Append(down, a) /\ a.rpc /\ a.of = h.of
    <3>1. [rpc |-> TRUE, of |-> h.of, id |-> h.id, ok |-> ok] \in Answers
      BY <2>1, MessageTypes
    <3> QED BY <2>2, <3>1
  <2>4. a \in AskSet(e) <=> h \in AskSet(e)
    BY <1>3, <1>5, <2>3 DEF AskSet
  <2>5. Pipe(e, waiting_p, Tail(up), Append(down, a), decoding, last[e], event_subscriptions[e])
    BY <2>3, <2>4, <1>1, <1>2, <1>3, PipeAnswers DEF TypeOK
  <2> QED BY <2>3, <2>5, <1>1, PipeFormAfter
<1> QED BY <1>4, <1>5

(* Nothing changes for requests.                                            *)
LEMMA RequestsFrame ==
  ASSUME RequestsSound,
         UNCHANGED <<inorder, epoch, reconnect, waiting_p, up, down, decoding, last,
                     event_subscriptions>>
  PROVE  RequestsSound'
BY DEF RequestsSound, LastRequest

(* Each step keeps the last request in charge.                              *)
LEMMA RequestsStep ==
  ASSUME TypeOK, TypeOK', Phases, CallsSound, RequestsSound, [Next]_vars
  PROVE  RequestsSound'
<1>1. ASSUME NEW e \in Events, Emit(e) PROVE RequestsSound'
  <2>1. /\ UNCHANGED <<epoch, reconnect, inorder, waiting_p, up, decoding, last,
                       event_subscriptions>>
        /\ down' = Append(down, [rpc |-> FALSE, of |-> e])
    BY <1>1 DEF Emit, client, history
  <2>2. PICK a \in Answers : a = [rpc |-> FALSE, of |-> e] /\ ~ a.rpc
    <3>1. [rpc |-> FALSE, of |-> e] \in Answers /\ ~ [rpc |-> FALSE, of |-> e].rpc
      BY DEF Answers
    <3> QED BY <3>1
  <2> SUFFICES ASSUME Quiet, NEW f \in Events PROVE LastRequest(f)'
    BY <2>1 DEF RequestsSound, Quiet
  <2>3. Pipe(f, waiting_p, up, down, decoding, last[f], event_subscriptions[f])
    BY PipeForm DEF RequestsSound, Quiet
  <2>4. a \in Answers \ AskSet(f)
    BY <2>2 DEF AskSet
  <2>5. Pipe(f, waiting_p, up, Append(down, a), decoding, last[f], event_subscriptions[f])
    BY <2>3, <2>4, PipeIgnores DEF TypeOK
  <2> QED BY <2>1, <2>2, <2>5, PipeFormAfter
<1>2. ASSUME NEW e \in Events, Registers(e) PROVE RequestsSound'
  <2>1. UNCHANGED <<inorder, epoch, reconnect, waiting_p, up, down, decoding, last,
                    event_subscriptions>>
    BY <1>2 DEF Registers, connection, client, history
  <2> QED BY <2>1, RequestsFrame
<1>3. ASSUME Objects \/ UNCHANGED vars PROVE RequestsSound'
  <2>1. UNCHANGED <<inorder, epoch, reconnect, waiting_p, up, down, decoding, last,
                    event_subscriptions>>
    BY <1>3 DEF Objects, Drop, Collect, Reachable, vars, connection, client, history
  <2> QED BY <2>1, RequestsFrame
<1>4. ASSUME Lose \/ Close PROVE RequestsSound'
  <2>1. epoch' # 0 \/ ~ reconnect'
    BY <1>4 DEF Lose, Close, TypeOK
  <2> QED BY <2>1 DEF RequestsSound
<1>5. ASSUME OnClose \/ Reconnect PROVE RequestsSound'
  <2>1. epoch # 0 \/ ~ reconnect
    BY <1>5 DEF OnClose, Reconnect, Phases
  <2>2. UNCHANGED <<epoch, reconnect>>
    BY <1>5 DEF OnClose, Reconnect, client
  <2> QED BY <2>1, <2>2 DEF RequestsSound
<1> QED BY <1>1, <1>2, <1>3, <1>4, <1>5, RpcCallRequests, WaitsRequests, EvtCallRequests,
           OnOpenRequests, SettleRequests, DecodedRequests, OnMessageRequests, GatewayRequests
        DEF Next, Pages, Handlers, Handles, Server

(* No page has asked for anything at the start.                             *)
LEMMA SubscriptionsInit ==
  ASSUME Init
  PROVE  CallbacksSound /\ RequestsSound
<1>1. /\ up = <<>> /\ down = <<>> /\ decoding = <<>> /\ waiting_p = <<>>
      /\ last = [e \in Events |-> None] /\ event_subscriptions = [e \in Events |-> None]
      /\ sock = "connecting"
  BY DEF Init
<1>2. DOMAIN <<>> = {}
  BY EmptyRpcs
<1>3. RequestsSound
  BY <1>1, <1>2 DEF RequestsSound, LastRequest, Waits, Asks
<1> QED BY <1>1, <1>3 DEF CallbacksSound

------------------------------------------------------------------------------
(* The invariant of the connection holds in every state: calls are settled   *)
(* by their own answers and executed at most once, and what is on its way    *)
(* agrees with both ends (websocket.ts, mxhttp.cpp).                         *)
THEOREM SocketAlwaysSound == Spec => []SocketInvariant
<1>1. Init => SocketInvariant
  BY InitTyped, CallsInit, SubscriptionsInit DEF SocketInvariant, CallsSound
<1>2. SocketInvariant /\ [Next]_vars => SocketInvariant'
  <2> SUFFICES ASSUME SocketInvariant, [Next]_vars PROVE SocketInvariant'
    OBVIOUS
  <2>1. TypeOK /\ Phases /\ CallsSound /\ CallbacksSound /\ RequestsSound
    BY DEF SocketInvariant, CallsSound
  <2>2. TypeOK'
    BY <2>1, NextTyped
  <2>3. Phases' /\ CallsSound' /\ CallbacksSound' /\ RequestsSound'
    BY <2>1, <2>2, PhasesStep, CallsStep, CallbacksStep, RequestsStep
  <2> QED BY <2>2, <2>3 DEF SocketInvariant, CallsSound
<1> QED BY <1>1, <1>2, PTL DEF Spec

(* A call that is settled is settled by its own answer, whatever the order   *)
(* in which answers are decoded and however often ids start again.          *)
THEOREM CallsGetTheirOwnAnswer == Spec => []OwnAnswer
<1>1. SocketInvariant => OwnAnswer
  BY DEF SocketInvariant
<1> QED BY <1>1, SocketAlwaysSound, PTL

(* The gateway and the client agree about subscriptions (MxWebsocket,        *)
(* HttpSubscribeEvent, HttpUnsubscribeEvent).                               *)
THEOREM SubscriptionsAlwaysAgree == Spec => []SubscriptionsAgree
<1>1. SocketInvariant => SubscriptionsAgree
  BY DEF SocketInvariant, CallbacksSound, SubscriptionsAgree
<1> QED BY <1>1, SocketAlwaysSound, PTL

(* Before the connection is lost or closed, and when messages are decoded in *)
(* order, the last request of the pages about a key decides (MxRdb).        *)
THEOREM LastRequestAlwaysWins == Spec => []LastRequestWins
<1>1. ASSUME SocketInvariant PROVE LastRequestWins
  <2> SUFFICES ASSUME Quiet, NEW e \in Events,
                      \A r \in Requests : (Kind[r] # "call" /\ EventOf[r] = e) =>
                                            state[r] \notin {"waiting", "sent"}
               PROVE  event_subscriptions[e] = Wanted(last[e])
    BY DEF LastRequestWins, Quiet, Wanted
  <2>1. TypeOK /\ Phases /\ WaitingSound /\ OnTheirWay /\ RequestsSound
    BY <1>1 DEF SocketInvariant
  <2>2. Pipe(e, waiting_p, up, down, decoding, last[e], event_subscriptions[e])
    BY <2>1, PipeForm DEF RequestsSound, Quiet
  <2>3. Places(waiting_p, WaitSet(e)) = {}
    <3>1. \A i \in DOMAIN waiting_p :
            waiting_p[i].of \in Requests /\ state[waiting_p[i].of] = "waiting"
      BY <2>1, ElementOfSeq, LenProperties, MessageFields DEF WaitingSound, TypeOK
    <3> QED BY <3>1 DEF Places, WaitSet
  <2>4. \A m \in Rpcs(up) \cup Rpcs(down) \cup Rpcs(decoding) :
          ~ (Kind[m.of] # "call" /\ EventOf[m.of] = e)
    <3>1. CASE isready
      <4>1. \A m \in Rpcs(up) \cup Rpcs(down) \cup Rpcs(decoding) :
              m.of \in Requests /\ state[m.of] = "sent"
        BY <2>1, <3>1, RpcsFields DEF OnTheirWay, Known, TypeOK
      <4> QED BY <4>1
    <3>2. CASE ~ isready
      <4>1. up = <<>> /\ down = <<>> /\ decoding = <<>>
        BY <2>1, <3>2, QuietPhases
      <4> QED BY <4>1, EmptyRpcs
    <3> QED BY <3>1, <3>2
  <2>5. /\ Places(up, AskSet(e)) = {} /\ Places(down, AskSet(e)) = {}
        /\ Places(decoding, AskSet(e)) = {}
    BY <2>1, <2>4, RpcsPlaces DEF TypeOK
  <2> QED BY <2>2, <2>3, <2>5 DEF Pipe
<1> QED BY <1>1, SocketAlwaysSound, PTL

=============================================================================
