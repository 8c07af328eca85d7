----------------------------- MODULE Pages_proofs -----------------------------
(***************************************************************************)
(* Proofs about pages of the web interface, for any keys, names, files,      *)
(* numbers and bounds.  First come lists of messages; then, page by page,    *)
(* the invariant, which says what the calls, answers and events under way    *)
(* will still do to the page, a lemma for the initial states and one for     *)
(* each action.  The theorems, about the page that is shown, are in          *)
(* WebPages_proofs.                                                          *)
(***************************************************************************)
EXTENDS HomeView, ClientsView, PluginsView, ValueControl, Accounts, RdbView, KeyTable,
        FiniteSetTheorems, SequenceTheorems, WellFoundedInduction, TLAPS

------------------------------------------------------------------------------
(* Lists of messages, whatever these are, by their positions: what is left   *)
(* when the first is taken, when some are put behind the last, and when one  *)
(* is put between.                                                           *)
IsList(s) == s \in Seq(Range(s))

LEMMA ListedFacts ==
  ASSUME NEW s, IsList(s)
  PROVE  /\ Len(s) \in Nat /\ DOMAIN s = 1 .. Len(s)
         /\ s = <<>> <=> Len(s) = 0
<1>1. s \in Seq(Range(s))
  BY DEF IsList
<1> QED BY <1>1, LenProperties, EmptySeq

LEMMA ListedIs ==
  ASSUME NEW B, NEW s \in Seq(B)
  PROVE  IsList(s)
<1>1. Len(s) \in Nat /\ DOMAIN s = 1 .. Len(s) /\ s = [i \in 1 .. Len(s) |-> s[i]]
  BY LenProperties, SeqDef
<1>2. s \in [1 .. Len(s) -> Range(s)]
  BY <1>1 DEF Range
<1> QED BY <1>1, <1>2, SeqDef DEF IsList

LEMMA FirstGone ==
  ASSUME NEW s, IsList(s), s # <<>>
  PROVE  /\ IsList(Tail(s))
         /\ Len(Tail(s)) = Len(s) - 1 /\ Len(s) \in Nat \ {0}
         /\ DOMAIN Tail(s) = 1 .. Len(s) - 1 /\ DOMAIN s = 1 .. Len(s)
         /\ \A i \in 1 .. Len(s) - 1 : Tail(s)[i] = s[i + 1] /\ i + 1 \in DOMAIN s
         /\ Head(s) = s[1] /\ 1 \in DOMAIN s
<1> DEFINE B == Range(s)
<1>1. s \in Seq(B)
  BY DEF IsList
<1> HIDE DEF B
<1>2. /\ Len(s) \in Nat \ {0} /\ DOMAIN s = 1 .. Len(s) /\ Tail(s) \in Seq(B)
      /\ Len(Tail(s)) = Len(s) - 1 /\ DOMAIN Tail(s) = 1 .. Len(s) - 1
      /\ \A i \in 1 .. Len(s) - 1 : Tail(s)[i] = s[i + 1]
      /\ Head(s) = s[1]
  BY <1>1, HeadTailProperties, LenProperties, EmptySeq
<1>3. 1 \in DOMAIN s /\ \A i \in 1 .. Len(s) - 1 : i + 1 \in DOMAIN s
  BY <1>2
<1>4. IsList(Tail(s))
  BY <1>2, ListedIs
<1> HIDE DEF IsList
<1> QED BY <1>2, <1>3, <1>4

LEMMA PutBehind ==
  ASSUME NEW s, IsList(s), NEW a
  PROVE  /\ IsList(Append(s, a)) /\ s \o <<a>> = Append(s, a)
         /\ Len(Append(s, a)) = Len(s) + 1 /\ Len(s) \in Nat
         /\ DOMAIN Append(s, a) = 1 .. Len(s) + 1 /\ DOMAIN s = 1 .. Len(s)
         /\ \A i \in 1 .. Len(s) : Append(s, a)[i] = s[i]
         /\ Append(s, a)[Len(s) + 1] = a
<1> DEFINE D == Range(s) \cup {a}
<1>1. s \in Seq(D) /\ a \in D
  BY SeqMonotonic DEF IsList
<1> HIDE DEF D
<1>2. /\ Append(s, a) \in Seq(D) /\ s \o <<a>> = Append(s, a)
      /\ Len(s) \in Nat /\ DOMAIN s = 1 .. Len(s)
      /\ Len(Append(s, a)) = Len(s) + 1
      /\ \A i \in 1 .. Len(s) : Append(s, a)[i] = s[i]
      /\ Append(s, a)[Len(s) + 1] = a
  BY <1>1, AppendProperties, LenProperties, AppendIsConcat
<1>3. DOMAIN Append(s, a) = 1 .. Len(s) + 1
  BY <1>2, LenProperties
<1> QED BY <1>2, <1>3, ListedIs

LEMMA PutBehindTwo ==
  ASSUME NEW s, IsList(s), NEW a, NEW b
  PROVE  /\ IsList(s \o <<a, b>>) /\ Len(s \o <<a, b>>) = Len(s) + 2 /\ Len(s) \in Nat
         /\ DOMAIN (s \o <<a, b>>) = 1 .. Len(s) + 2 /\ DOMAIN s = 1 .. Len(s)
         /\ \A i \in 1 .. Len(s) : (s \o <<a, b>>)[i] = s[i]
         /\ (s \o <<a, b>>)[Len(s) + 1] = a /\ (s \o <<a, b>>)[Len(s) + 2] = b
<1> DEFINE D == Range(s) \cup {a, b}
           p == <<a, b>>
           t == s \o p
<1>1. s \in Seq(D) /\ p \in Seq(D) /\ Len(p) = 2 /\ p[1] = a /\ p[2] = b
  BY SeqMonotonic DEF IsList
<1> HIDE DEF D, p
<1>2. /\ t \in Seq(D) /\ Len(t) = Len(s) + 2 /\ Len(s) \in Nat
      /\ \A i \in 1 .. Len(s) : t[i] = s[i]
      /\ t[Len(s) + 1] = a /\ t[Len(s) + 2] = b
  <2>1. Len(s) \in Nat
    BY <1>1, LenProperties
  <2>2. /\ t \in Seq(D) /\ Len(t) = Len(s) + Len(p)
        /\ \A i \in 1 .. Len(s) + Len(p) : t[i] = IF i <= Len(s) THEN s[i] ELSE p[i - Len(s)]
    BY <1>1, ConcatProperties
  <2>3. Len(s) + 1 \in 1 .. Len(s) + Len(p) /\ Len(s) + 2 \in 1 .. Len(s) + Len(p)
        /\ Len(s) + 1 - Len(s) = 1 /\ Len(s) + 2 - Len(s) = 2
        /\ ~ (Len(s) + 1 <= Len(s)) /\ ~ (Len(s) + 2 <= Len(s))
    BY <1>1, <2>1
  <2>4. t[Len(s) + 1] = p[1] /\ t[Len(s) + 2] = p[2]
    BY <2>2, <2>3
  <2>5. \A i \in 1 .. Len(s) : t[i] = s[i]
    BY <1>1, <2>1, <2>2
  <2> QED BY <1>1, <2>1, <2>2, <2>4, <2>5
<1>3. DOMAIN t = 1 .. Len(s) + 2 /\ DOMAIN s = 1 .. Len(s) /\ IsList(t)
  BY <1>1, <1>2, LenProperties, ListedIs
<1> QED BY <1>2, <1>3 DEF p

LEMMA PutBetween ==
  ASSUME NEW s, IsList(s), NEW a, NEW n \in 0 .. Len(s)
  PROVE  LET t == InsertAt(s, n + 1, a)
         IN /\ IsList(t) /\ Len(t) = Len(s) + 1 /\ Len(s) \in Nat /\ n \in Nat
            /\ DOMAIN t = 1 .. Len(s) + 1 /\ DOMAIN s = 1 .. Len(s)
            /\ \A i \in 1 .. n : t[i] = s[i]
            /\ t[n + 1] = a
            /\ \A i \in n + 1 .. Len(s) : t[i + 1] = s[i]
<1> DEFINE D == Range(s) \cup {a}
           f == SubSeq(s, 1, n)
           o == <<a>>
           g == SubSeq(s, n + 1, Len(s))
           t == f \o o \o g
<1>1. s \in Seq(D) /\ Len(s) \in Nat /\ DOMAIN s = 1 .. Len(s) /\ n \in Nat /\ n <= Len(s)
  BY SeqMonotonic, LenProperties DEF IsList
<1>2. InsertAt(s, n + 1, a) = t
  <2>1. \A k : InsertAt(s, k, a) = SubSeq(s, 1, k - 1) \o <<a>> \o SubSeq(s, k, Len(s))
    BY DEF InsertAt
  <2> DEFINE k == n + 1
  <2>2. k - 1 = n
    BY <1>1
  <2> HIDE DEF k
  <2>3. InsertAt(s, k, a) = SubSeq(s, 1, n) \o <<a>> \o SubSeq(s, k, Len(s))
    BY <2>1, <2>2, Zenon
  <2> QED BY <2>3, Zenon DEF k
<1>3. o \in Seq(D) /\ Len(o) = 1 /\ o[1] = a
  OBVIOUS
<1> HIDE DEF D, o
<1>4. /\ f \in Seq(D) /\ Len(f) = n /\ \A i \in 1 .. n : f[i] = s[i]
  <2>1. \A i \in 1 .. n : s[i] \in D
    BY <1>1, ElementOfSeq
  <2>2. /\ SubSeq(s, 1, n) \in Seq(D)
        /\ Len(SubSeq(s, 1, n)) = IF 1 <= n THEN n - 1 + 1 ELSE 0
        /\ \A i \in 1 .. n - 1 + 1 : SubSeq(s, 1, n)[i] = s[1 + i - 1]
    BY <1>1, <2>1, SubSeqProperties
  <2> QED BY <1>1, <2>2
<1>5. /\ g \in Seq(D) /\ Len(g) = Len(s) - n /\ \A i \in 1 .. Len(s) - n : g[i] = s[n + i]
  <2>1. \A i \in n + 1 .. Len(s) : s[i] \in D
    BY <1>1, ElementOfSeq
  <2>2. /\ SubSeq(s, n + 1, Len(s)) \in Seq(D)
        /\ Len(SubSeq(s, n + 1, Len(s))) = IF n + 1 <= Len(s) THEN Len(s) - (n + 1) + 1 ELSE 0
        /\ \A i \in 1 .. Len(s) - (n + 1) + 1 : SubSeq(s, n + 1, Len(s))[i] = s[n + 1 + i - 1]
    <3>1. n + 1 \in Nat /\ Len(s) \in Nat
      BY <1>1
    <3> QED BY <1>1, <2>1, <3>1, SubSeqProperties
  <2> QED BY <1>1, <2>2
<1> HIDE DEF f, g
<1>6. /\ f \o o \in Seq(D) /\ Len(f \o o) = n + 1
      /\ \A i \in 1 .. n : (f \o o)[i] = s[i]
      /\ (f \o o)[n + 1] = a
  BY <1>1, <1>3, <1>4, ConcatProperties
<1> DEFINE h == f \o o
<1> HIDE DEF h
<1>7. h \in Seq(D) /\ Len(h) = n + 1 /\ (\A i \in 1 .. n : h[i] = s[i]) /\ h[n + 1] = a /\ t = h \o g
  BY <1>6 DEF h
<1>8. /\ t \in Seq(D) /\ Len(t) = Len(s) + 1
      /\ \A i \in 1 .. n + 1 : t[i] = h[i]
      /\ \A i \in n + 1 .. Len(s) : t[i + 1] = s[i]
  <2>1. /\ h \o g \in Seq(D) /\ Len(h \o g) = Len(h) + Len(g)
        /\ \A i \in 1 .. Len(h) + Len(g) : (h \o g)[i] = IF i <= Len(h) THEN h[i] ELSE g[i - Len(h)]
    BY <1>5, <1>7, ConcatProperties
  <2>2. Len(h) + Len(g) = Len(s) + 1
    BY <1>1, <1>5, <1>7
  <2>3. ASSUME NEW i \in n + 1 .. Len(s) PROVE (h \o g)[i + 1] = s[i]
    <3>1. i + 1 \in 1 .. Len(h) + Len(g) /\ ~ (i + 1 <= Len(h)) /\ i + 1 - Len(h) = i - n
          /\ i - n \in 1 .. Len(s) - n /\ n + (i - n) = i
      BY <1>1, <1>7, <2>2
    <3>0. (h \o g)[i + 1] = IF i + 1 <= Len(h) THEN h[i + 1] ELSE g[i + 1 - Len(h)]
      BY <2>1, <3>1
    <3>2. (h \o g)[i + 1] = g[i - n]
      BY <3>0, <3>1, ZenonT(20)
    <3>3. g[i - n] = s[n + (i - n)]
      BY <1>5, <3>1, ZenonT(20)
    <3> QED BY <3>1, <3>2, <3>3, ZenonT(20)
  <2>4. \A i \in 1 .. n + 1 : (h \o g)[i] = h[i]
    BY <1>1, <1>7, <2>1, <2>2
  <2> QED BY <1>7, <2>1, <2>2, <2>3, <2>4
<1> HIDE DEF t
<1>9. DOMAIN t = 1 .. Len(s) + 1 /\ IsList(t)
  BY <1>8, LenProperties, ListedIs
<1>10. \A i \in 1 .. n : t[i] = s[i]
  BY <1>1, <1>7, <1>8
<1>11. t[n + 1] = a
  BY <1>1, <1>7, <1>8
<1> QED BY <1>1, <1>2, <1>8, <1>9, <1>10, <1>11

------------------------------------------------------------------------------
(* The last message of one of these kinds that is on its way to the page,    *)
(* and which it is after the messages moved.                                 *)
LastDown(i, whats) ==
  /\ i \in DOMAIN down /\ down[i].what \in whats
  /\ \A j \in DOMAIN down : i < j => down[j].what \notin whats

LEMMA DownAppended ==
  ASSUME IsList(down), NEW a, down' = Append(down, a), NEW W
  PROVE  /\ IsList(down')
         /\ \A i \in DOMAIN down : i \in DOMAIN down' /\ down'[i] = down[i]
         /\ \A i \in DOMAIN down' : down'[i] = a \/ (i \in DOMAIN down /\ down'[i] = down[i])
         /\ \E i \in DOMAIN down' : down'[i] = a
         /\ \A i : LastDown(i, W)' =>
              down'[i] = a \/ (LastDown(i, W) /\ down'[i] = down[i] /\ a.what \notin W)
<1>1. /\ IsList(down') /\ Len(down) \in Nat
      /\ DOMAIN down' = 1 .. Len(down) + 1 /\ DOMAIN down = 1 .. Len(down)
      /\ \A i \in 1 .. Len(down) : down'[i] = down[i]
      /\ down'[Len(down) + 1] = a
  BY PutBehind
<1>2. \A i \in DOMAIN down : i \in DOMAIN down' /\ down'[i] = down[i]
  BY <1>1
<1>3. \A i \in DOMAIN down' : i = Len(down) + 1 \/ i \in DOMAIN down
  BY <1>1
<1>4. ASSUME NEW i, LastDown(i, W)', i # Len(down) + 1
      PROVE  LastDown(i, W) /\ down'[i] = down[i] /\ a.what \notin W
  <2>1. i \in DOMAIN down' /\ down'[i].what \in W
        /\ \A j \in DOMAIN down' : i < j => down'[j].what \notin W
    BY <1>4 DEF LastDown
  <2>2. i \in DOMAIN down /\ down'[i] = down[i]
    BY <1>2, <1>3, <1>4, <2>1
  <2>3. i < Len(down) + 1 /\ Len(down) + 1 \in DOMAIN down'
    BY <1>1, <2>2
  <2> QED BY <1>1, <1>2, <2>1, <2>2, <2>3 DEF LastDown
<1>5. Len(down) + 1 \in DOMAIN down'
  BY <1>1
<1> HIDE DEF IsList
<1> QED BY <1>1, <1>2, <1>3, <1>4, <1>5

LEMMA DownTaken ==
  ASSUME IsList(down), down # <<>>, Got, NEW W
  PROVE  /\ IsList(down') /\ 1 \in DOMAIN down /\ Head(down) = down[1]
         /\ \A i \in DOMAIN down' : i + 1 \in DOMAIN down /\ down'[i] = down[i + 1]
         /\ \A i \in DOMAIN down : i = 1 \/ \E j \in DOMAIN down' : i = j + 1
         /\ \A i : LastDown(i, W)' => LastDown(i + 1, W) /\ down'[i] = down[i + 1]
         /\ (\A i \in DOMAIN down' : down'[i].what \notin W) =>
              IF Head(down).what \in W THEN LastDown(1, W)
              ELSE \A i \in DOMAIN down : down[i].what \notin W
<1>1. /\ IsList(down') /\ Len(down) \in Nat \ {0}
      /\ DOMAIN down' = 1 .. Len(down) - 1 /\ DOMAIN down = 1 .. Len(down)
      /\ \A i \in 1 .. Len(down) - 1 : down'[i] = down[i + 1] /\ i + 1 \in DOMAIN down
      /\ Head(down) = down[1] /\ 1 \in DOMAIN down
  BY FirstGone DEF Got
<1>2. ASSUME NEW i \in DOMAIN down, i # 1 PROVE i - 1 \in DOMAIN down' /\ down'[i - 1] = down[i] /\ i = (i - 1) + 1
  <2>1. i - 1 \in 1 .. Len(down) - 1 /\ (i - 1) + 1 = i
    BY <1>1, <1>2
  <2> QED BY <1>1, <2>1
<1>3. ASSUME NEW i, LastDown(i, W)' PROVE LastDown(i + 1, W) /\ down'[i] = down[i + 1]
  <2>1. i \in DOMAIN down' /\ down'[i].what \in W
        /\ \A j \in DOMAIN down' : i < j => down'[j].what \notin W
    BY <1>3 DEF LastDown
  <2>2. ASSUME NEW j \in DOMAIN down, i + 1 < j PROVE down[j].what \notin W
    <3>1. j # 1 /\ i < j - 1
      BY <1>1, <2>1, <2>2
    <3> QED BY <1>2, <2>1, <3>1
  <2> QED BY <1>1, <2>1, <2>2 DEF LastDown
<1>4. ASSUME \A i \in DOMAIN down' : down'[i].what \notin W
      PROVE  \A i \in DOMAIN down : i # 1 => down[i].what \notin W
  BY <1>2, <1>4
<1>5. ASSUME \A i \in DOMAIN down' : down'[i].what \notin W
      PROVE  IF Head(down).what \in W THEN LastDown(1, W)
             ELSE \A i \in DOMAIN down : down[i].what \notin W
  <2>1. \A i \in DOMAIN down : 1 < i => i # 1
    BY <1>1
  <2> QED BY <1>1, <1>4, <1>5, <2>1 DEF LastDown
<1> HIDE DEF IsList
<1>6. \A i \in DOMAIN down' : i + 1 \in DOMAIN down /\ down'[i] = down[i + 1]
  BY <1>1
<1>7. \A i \in DOMAIN down : i = 1 \/ \E j \in DOMAIN down' : i = j + 1
  BY <1>2
<1> QED BY <1>1, <1>3, <1>5, <1>6, <1>7

(* The server's answer overtakes events only.                                *)
LEMMA DownServed ==
  ASSUME IsList(up), IsList(down), up # <<>>, NEW a, Serve(a), NEW W
  PROVE  /\ up' = Tail(up) /\ IsList(down')
         /\ \A i \in DOMAIN down' : down'[i] = a \/ \E j \in DOMAIN down : down'[i] = down[j]
         /\ \A j \in DOMAIN down : \E i \in DOMAIN down' : down'[i] = down[j]
         /\ \E i \in DOMAIN down' : down'[i] = a
         /\ \A i : LastDown(i, W)' =>
              \/ down'[i] = a
              \/ \E j : /\ LastDown(j, W) /\ down'[i] = down[j]
                        /\ a.what \in W => "event" \in DOMAIN down[j]
<1>1. PICK n \in 0 .. Len(down) : Overtaking(n) /\ down' = InsertAt(down, n + 1, a)
  BY DEF Serve
<1>2. /\ IsList(down') /\ Len(down) \in Nat /\ n \in Nat
      /\ DOMAIN down' = 1 .. Len(down) + 1 /\ DOMAIN down = 1 .. Len(down)
      /\ \A i \in 1 .. n : down'[i] = down[i]
      /\ down'[n + 1] = a
      /\ \A i \in n + 1 .. Len(down) : down'[i + 1] = down[i]
  BY <1>1, PutBetween
<1>3. ASSUME NEW i \in DOMAIN down', n + 1 < i PROVE i - 1 \in n + 1 .. Len(down) /\ down'[i] = down[i - 1]
  <2>1. i - 1 \in n + 1 .. Len(down) /\ (i - 1) + 1 = i
    BY <1>2, <1>3
  <2> QED BY <1>2, <2>1
<1>4. ASSUME NEW i \in DOMAIN down', i < n + 1 PROVE i \in 1 .. n /\ i \in DOMAIN down /\ down'[i] = down[i]
  BY <1>1, <1>2, <1>4
<1>5. \A i \in DOMAIN down' : i = n + 1 \/ i < n + 1 \/ n + 1 < i
  BY <1>2
<1>6. \A j \in DOMAIN down : \E i \in DOMAIN down' : down'[i] = down[j]
  <2> SUFFICES ASSUME NEW j \in DOMAIN down PROVE \E i \in DOMAIN down' : down'[i] = down[j]
    OBVIOUS
  <2>1. CASE j <= n
    <3>1. j \in 1 .. n /\ j \in DOMAIN down'
      BY <1>2, <2>1
    <3> QED BY <1>2, <3>1
  <2>2. CASE ~ (j <= n)
    <3>1. j \in n + 1 .. Len(down) /\ j + 1 \in DOMAIN down'
      BY <1>2, <2>2
    <3> QED BY <1>2, <3>1
  <2> QED BY <2>1, <2>2
<1>7. \A i \in n + 1 .. Len(down) : i \in DOMAIN down
  BY <1>2
<1>8. \A i \in DOMAIN down' : down'[i] = a \/ \E j \in DOMAIN down : down'[i] = down[j]
  BY <1>2, <1>3, <1>4, <1>5, <1>7
<1>9. ASSUME NEW i, LastDown(i, W)', i # n + 1
      PROVE  \E j : LastDown(j, W) /\ down'[i] = down[j] /\ (a.what \in W => "event" \in DOMAIN down[j])
  <2>1. i \in DOMAIN down' /\ down'[i].what \in W
        /\ \A j \in DOMAIN down' : i < j => down'[j].what \notin W
    BY <1>9 DEF LastDown
  <2>2. CASE i < n + 1
    <3>1. i \in 1 .. n /\ i \in DOMAIN down /\ down'[i] = down[i]
      BY <1>4, <2>1, <2>2
    <3>2. n + 1 \in DOMAIN down'
      BY <1>2, <1>1
    <3>3. a.what \notin W
      BY <1>2, <2>1, <2>2, <3>2
    <3>4. ASSUME NEW j \in DOMAIN down, i < j PROVE down[j].what \notin W
      <4>1. CASE j <= n
        <5>1. j \in 1 .. n /\ j \in DOMAIN down'
          BY <1>2, <4>1
        <5> QED BY <1>2, <2>1, <3>4, <5>1
      <4>2. CASE ~ (j <= n)
        <5>1. j \in n + 1 .. Len(down) /\ j + 1 \in DOMAIN down' /\ i < j + 1
          BY <1>2, <4>2, <3>1, <3>4
        <5> QED BY <1>2, <2>1, <5>1
      <4> QED BY <4>1, <4>2
    <3> QED BY <2>1, <3>1, <3>3, <3>4 DEF LastDown
  <2>3. CASE n + 1 < i
    <3>1. i - 1 \in n + 1 .. Len(down) /\ down'[i] = down[i - 1] /\ i - 1 \in DOMAIN down
      BY <1>3, <1>7, <2>1, <2>3
    <3>2. ASSUME NEW j \in DOMAIN down, i - 1 < j PROVE down[j].what \notin W
      <4>1. j \in n + 1 .. Len(down) /\ j + 1 \in DOMAIN down' /\ i < j + 1
        BY <1>2, <2>1, <2>3, <3>1, <3>2
      <4> QED BY <1>2, <2>1, <4>1
    <3>3. "event" \in DOMAIN down[i - 1]
      BY <1>1, <3>1 DEF Overtaking
    <3> QED BY <2>1, <3>1, <3>2, <3>3 DEF LastDown
  <2> QED BY <1>5, <1>9, <2>1, <2>2, <2>3
<1>10. n + 1 \in DOMAIN down'
  BY <1>1, <1>2
<1> HIDE DEF IsList
<1> QED BY <1>2, <1>6, <1>8, <1>9, <1>10 DEF Serve

(* The server takes a call, and the page makes one.                          *)
LEMMA UpTaken ==
  ASSUME IsList(up), up # <<>>, up' = Tail(up)
  PROVE  /\ IsList(up') /\ 1 \in DOMAIN up /\ Head(up) = up[1]
         /\ \A i \in DOMAIN up' : i + 1 \in DOMAIN up /\ up'[i] = up[i + 1]
         /\ \A i \in DOMAIN up : i = 1 \/ \E j \in DOMAIN up' : i = j + 1
<1>1. /\ IsList(up') /\ Len(up) \in Nat \ {0}
      /\ DOMAIN up' = 1 .. Len(up) - 1 /\ DOMAIN up = 1 .. Len(up)
      /\ \A i \in 1 .. Len(up) - 1 : up'[i] = up[i + 1] /\ i + 1 \in DOMAIN up
      /\ Head(up) = up[1] /\ 1 \in DOMAIN up
  BY FirstGone
<1>2. ASSUME NEW i \in DOMAIN up, i # 1 PROVE i - 1 \in DOMAIN up' /\ i = (i - 1) + 1
  BY <1>1, <1>2
<1> HIDE DEF IsList
<1>3. \A i \in DOMAIN up : i = 1 \/ \E j \in DOMAIN up' : i = j + 1
  BY <1>2
<1>4. \A i \in DOMAIN up' : i + 1 \in DOMAIN up /\ up'[i] = up[i + 1]
  BY <1>1
<1> QED BY <1>1, <1>3, <1>4

LEMMA UpAsked ==
  ASSUME IsList(up), NEW c, Ask(<<c>>)
  PROVE  /\ up' = Append(up, c) /\ IsList(up')
         /\ \A i \in DOMAIN up : i \in DOMAIN up' /\ up'[i] = up[i]
         /\ \A i \in DOMAIN up' : up'[i] = c \/ (i \in DOMAIN up /\ up'[i] = up[i])
         /\ \E i \in DOMAIN up' : up'[i] = c
<1>1. up' = Append(up, c)
  BY PutBehind DEF Ask
<1>2. /\ IsList(up') /\ Len(up) \in Nat
      /\ DOMAIN up' = 1 .. Len(up) + 1 /\ DOMAIN up = 1 .. Len(up)
      /\ \A i \in 1 .. Len(up) : up'[i] = up[i]
      /\ up'[Len(up) + 1] = c
  BY <1>1, PutBehind
<1>3. \A i \in DOMAIN up' : i = Len(up) + 1 \/ i \in DOMAIN up
  BY <1>2
<1>4. \A i \in DOMAIN up : i \in DOMAIN up' /\ up'[i] = up[i]
  BY <1>2
<1>5. Len(up) + 1 \in DOMAIN up'
  BY <1>2
<1> HIDE DEF IsList
<1> QED BY <1>1, <1>2, <1>3, <1>4, <1>5

------------------------------------------------------------------------------
(* The value control: what was put in last is the number whenever it is      *)
(* within the limits, so that putting it back shows the number.              *)
LastIsNumber == last_input_value \in ValueMin .. ValueMax => last_input_value = number
ValueInv == ValueTypeOK /\ LimitsHold /\ ShownIsSet /\ LastIsNumber

LEMMA ValueInitSound == ValueInit => ValueInv
  BY ValueAssumption
  DEF ValueInit, ValueInv, ValueTypeOK, LimitsHold, ShownIsSet, LastIsNumber

(* The effect leaves a number as it is exactly when it is within the limits. *)
LEMMA LimitedWithin ==
  ASSUME NEW v \in Int \cup {NotANumber}
  PROVE  /\ Limited(v) = NotANumber \/ Limited(v) \in ValueMin .. ValueMax
         /\ v \in ValueMin .. ValueMax => Limited(v) = v
         /\ v = NotANumber => Limited(v) = v
  BY ValueAssumption DEF Limited

LEMMA BlurSound ==
  ASSUME ValueInv, NEW t \in TypedNumbers \cup {Nothing, NotANumber, AWord}, Blur(t)
  PROVE  ValueInv'
<1> USE ValueAssumption
<1> USE DEF ValueInv, ValueTypeOK, LimitsHold, ShownIsSet, LastIsNumber
<1>0. valueActs' \in 0 .. MaxValueActs
  BY DEF Blur
<1>1. CASE t = Nothing \/ t = last_input_value
  <2>1. last_input_value # Nothing
    BY <1>1 DEF Blur
  <2>2. text' = last_input_value /\ UNCHANGED <<number, last_input_value>>
    BY <1>1 DEF Blur
  <2> QED BY <1>0, <2>1, <2>2
<1>2. CASE ~ (t = Nothing \/ t = last_input_value)
  <2>1. last_input_value' = t /\ number' = Limited(NumberOf(t))
        /\ text' = IF NumberOf(t) = number THEN t ELSE Limited(NumberOf(t))
    BY <1>2 DEF Blur, Changes
  <2>2. NumberOf(t) \in Int \cup {NotANumber} /\ (t \in Int => NumberOf(t) = t)
        /\ (t \notin Int => NumberOf(t) = NotANumber)
    BY <1>2 DEF NumberOf
  <2>3. /\ number' = NotANumber \/ number' \in ValueMin .. ValueMax
        /\ NumberOf(t) \in ValueMin .. ValueMax => number' = NumberOf(t)
        /\ NumberOf(t) = NotANumber => number' = NotANumber
    BY <2>1, <2>2, LimitedWithin
  <2> QED BY <1>0, <1>2, <2>1, <2>2, <2>3
<1> QED BY <1>1, <1>2

LEMMA StepSound ==
  ASSUME ValueInv, NEW d \in {Increment, 0 - Increment}, Step(d)
  PROVE  ValueInv'
<1> USE ValueAssumption
<1> USE DEF ValueInv, ValueTypeOK, LimitsHold, ShownIsSet, LastIsNumber
<1> DEFINE v == IF number = NotANumber THEN number ELSE number + d
<1>1. v \in Int \cup {NotANumber}
  OBVIOUS
<1>2. /\ valueActs' \in 0 .. MaxValueActs /\ number' = Limited(v)
      /\ text' = IF v = number THEN text ELSE Limited(v)
      /\ last_input_value' = Limited(v)
  BY DEF Step, Changes, Stepped
<1>3. v = number => number = NotANumber \/ number \in ValueMin .. ValueMax
  OBVIOUS
<1> HIDE DEF v
<1>4. /\ number' = NotANumber \/ number' \in ValueMin .. ValueMax
      /\ v \in ValueMin .. ValueMax => number' = v
      /\ v = NotANumber => number' = NotANumber
  BY <1>1, <1>2, LimitedWithin
<1> QED BY <1>1, <1>2, <1>3, <1>4

LEMMA ValueStepSound ==
  ASSUME ValueInv, ValueNext \/ UNCHANGED vars_y
  PROVE  ValueInv'
<1>1. CASE UNCHANGED vars_y
  BY <1>1 DEF vars_y, ValueInv, ValueTypeOK, LimitsHold, ShownIsSet, LastIsNumber
<1> QED BY <1>1, BlurSound, StepSound DEF ValueNext

------------------------------------------------------------------------------
(* The page of a plug-in: the callbacks are kept in the order in which they  *)
(* were handed over, and none of them is called while the page is shown.     *)
CallbacksKept ==
  /\ Len(cleanupCallbacks) = Len(ran)
  /\ \A i \in DOMAIN cleanupCallbacks : cleanupCallbacks[i] = i
  /\ onPage => tooLate = {}
PluginPageInv == PluginPageTypeOK /\ CleanedUp /\ CallbacksKept

LEMMA PluginPageInitSound == PluginPageInit => PluginPageInv
<1> SUFFICES ASSUME PluginPageInit PROVE PluginPageInv
  OBVIOUS
<1>1. cleanupCallbacks = <<>> /\ ran = <<>> /\ DOMAIN ran = {} /\ Len(ran) = 0 /\ tooLate = {}
      /\ onPage = TRUE /\ showDocs = FALSE /\ instances = 1 /\ breaks \subseteq 1 .. MaxCleanups
  BY DEF PluginPageInit
<1>2. cleanupCallbacks \in Seq(DOMAIN ran) /\ ran \in Seq({0, 1})
  BY <1>1, EmptySeq
<1>3. PluginPageTypeOK
  <2>1. 1 \in 1 .. MaxInstances
    BY PluginPageAssumption
  <2> QED BY <1>1, <1>2, <2>1 DEF PluginPageTypeOK
<1>4. CleanedUp /\ CallbacksKept
  BY <1>1 DEF CleanedUp, CallbacksKept
<1> QED BY <1>3, <1>4 DEF PluginPageInv

LEMMA HandsOverSound ==
  ASSUME PluginPageInv, HandsOver
  PROVE  PluginPageInv'
<1> USE DEF PluginPageInv, PluginPageTypeOK, CleanedUp, CallbacksKept
<1> DEFINE n == Len(ran)
<1>1. /\ n \in Nat /\ DOMAIN ran = 1 .. n /\ Len(cleanupCallbacks) = n
      /\ DOMAIN cleanupCallbacks = 1 .. n /\ ran \in Seq({0, 1})
      /\ cleanupCallbacks \in Seq(1 .. n)
  BY LenProperties
<1>2. ran' = Append(ran, 0) /\ cleanupCallbacks' = Append(cleanupCallbacks, n + 1)
      /\ tooLate' = (IF onPage THEN tooLate ELSE tooLate \cup {n + 1})
      /\ UNCHANGED <<onPage, showDocs, instances, breaks>>
  BY DEF HandsOver
<1> HIDE DEF n
<1>3. /\ ran' \in Seq({0, 1}) /\ Len(ran') = n + 1 /\ DOMAIN ran' = 1 .. n + 1
      /\ \A i \in 1 .. n : ran'[i] = ran[i]
      /\ ran'[n + 1] = 0
  BY <1>1, <1>2, AppendProperties, LenProperties DEF n
<1>4. cleanupCallbacks \in Seq(1 .. n + 1) /\ n + 1 \in 1 .. n + 1
  BY <1>1, SeqMonotonic
<1>5. /\ cleanupCallbacks' \in Seq(1 .. n + 1) /\ Len(cleanupCallbacks') = n + 1
      /\ DOMAIN cleanupCallbacks' = 1 .. n + 1
      /\ \A i \in 1 .. n : cleanupCallbacks'[i] = cleanupCallbacks[i]
      /\ cleanupCallbacks'[n + 1] = n + 1
  BY <1>1, <1>2, <1>4, AppendProperties, LenProperties
<1>6. CallbacksKept'
  BY <1>1, <1>2, <1>3, <1>5
<1>7. CleanedUp'
  BY <1>1, <1>2, <1>3
<1>8. PluginPageTypeOK'
  BY <1>1, <1>2, <1>3, <1>5
<1> QED BY <1>6, <1>7, <1>8

LEMMA ShownSound ==
  ASSUME PluginPageInv, ShowsDocs \/ BackToPlugin
  PROVE  PluginPageInv'
<1>1. UNCHANGED <<onPage, cleanupCallbacks, ran, breaks, tooLate>>
  BY DEF ShowsDocs, KeptForLater, BackToPlugin
<1>2. showDocs' \in BOOLEAN
  BY DEF ShowsDocs, BackToPlugin
<1>3. instances' \in 1 .. MaxInstances
  BY PluginPageAssumption DEF PluginPageInv, PluginPageTypeOK, ShowsDocs, BackToPlugin
<1>4. PluginPageTypeOK'
  BY <1>1, <1>2, <1>3 DEF PluginPageInv, PluginPageTypeOK
<1> QED BY <1>1, <1>4 DEF PluginPageInv, CleanedUp, CallbacksKept

LEMMA LeavesPluginSound ==
  ASSUME PluginPageInv, LeavesPlugin
  PROVE  PluginPageInv'
<1> USE DEF PluginPageInv, PluginPageTypeOK, CleanedUp, CallbacksKept
<1> DEFINE n == Len(ran)
<1>1. /\ n \in Nat /\ DOMAIN ran = 1 .. n /\ DOMAIN cleanupCallbacks = 1 .. n
      /\ \A c \in 1 .. n : ran[c] = 0
  BY LenProperties DEF LeavesPlugin
<1>2. \A i \in 1 .. n : cleanupCallbacks[i] = i
  BY <1>1
<1>3. Reached(cleanupCallbacks) = {i \in 1 .. n : \A k \in 1 .. i - 1 : k \notin breaks}
  <2> DEFINE cs == cleanupCallbacks
             J == {j \in DOMAIN cs : \A k \in 1 .. j - 1 : cs[k] \notin breaks}
             N == {i \in 1 .. n : \A k \in 1 .. i - 1 : k \notin breaks}
  <2>1. J \subseteq N
    <3> SUFFICES ASSUME NEW j \in 1 .. n, \A k \in 1 .. j - 1 : cs[k] \notin breaks,
                        NEW k \in 1 .. j - 1
                 PROVE  k \notin breaks
      BY <1>1
    <3>1. k \in 1 .. n
      BY <1>1
    <3> QED BY <1>2, <3>1
  <2>2. N \subseteq J
    <3> SUFFICES ASSUME NEW j \in 1 .. n, \A k \in 1 .. j - 1 : k \notin breaks,
                        NEW k \in 1 .. j - 1
                 PROVE  cs[k] \notin breaks
      BY <1>1
    <3>1. k \in 1 .. n
      BY <1>1
    <3> QED BY <1>2, <3>1
  <2>3. \A j \in J : cs[j] = j
    BY <1>1, <1>2
  <2>4. Reached(cs) = {cs[i] : i \in J}
    BY DEF Reached
  <2> HIDE DEF J, N, cs
  <2>5. {cs[i] : i \in J} = J
    BY <2>3
  <2> QED BY <2>1, <2>2, <2>4, <2>5 DEF cs, N
<1>4. ran' = [c \in 1 .. n |-> IF c \in Reached(cleanupCallbacks) THEN 1 ELSE 0]
  BY <1>1 DEF LeavesPlugin
<1>5. onPage' = FALSE /\ UNCHANGED <<showDocs, instances, cleanupCallbacks, breaks, tooLate>>
  BY DEF LeavesPlugin
<1> HIDE DEF n
<1>6. ran' \in Seq({0, 1}) /\ Len(ran') = n /\ DOMAIN ran' = 1 .. n
  <2>1. ran' \in [1 .. n -> {0, 1}]
    BY <1>4
  <2>2. ran' \in Seq({0, 1})
    BY <1>1, <2>1, SeqDef
  <2> QED BY <1>1, <1>4, <2>2, LenProperties
<1>7. CleanedUp'
  BY <1>3, <1>4, <1>5, <1>6
<1>8. CallbacksKept'
  BY <1>5, <1>6, <1>1 DEF n
<1>9. PluginPageTypeOK'
  <2>1. DOMAIN ran' = DOMAIN ran
    BY <1>1, <1>6
  <2>2. cleanupCallbacks' \in Seq(DOMAIN ran')
    BY <1>5, <2>1
  <2>3. {onPage', showDocs'} \subseteq BOOLEAN /\ tooLate' \subseteq DOMAIN ran'
    BY <1>5, <2>1
  <2> QED BY <1>5, <1>6, <2>2, <2>3
<1> QED BY <1>7, <1>8, <1>9

LEMMA PluginPageStepSound ==
  ASSUME PluginPageInv, PluginPageNext \/ UNCHANGED vars_p
  PROVE  PluginPageInv'
<1>1. CASE UNCHANGED vars_p
  BY <1>1 DEF vars_p, PluginPageInv, PluginPageTypeOK, CleanedUp, CallbacksKept
<1> QED BY <1>1, HandsOverSound, ShownSound, LeavesPluginSound DEF PluginPageNext

------------------------------------------------------------------------------
(* The login page: a refusal clears the timer before it, so that there is    *)
(* one timer at most, that of the last refusal.                              *)
OneTimer ==
  /\ ftimeout = lastFailure
  /\ timers_i # <<>> => timers_i = <<ftimeout>> /\ ftimeout \in 1 .. MaxLogins
LoginInv == LoginTypeOK /\ BannerLasts /\ OneTimer

LEMMA LoginInitSound == LoginInit => LoginInv
<1> SUFFICES ASSUME LoginInit PROVE LoginInv
  OBVIOUS
<1>1. Range(timers_i) = {} /\ timers_i = <<>> /\ timers_i \in Seq(1 .. MaxLogins)
  BY EmptySeq DEF LoginInit, Range
<1>2. LoginTypeOK
  <2>1. fields = FALSE /\ failed = FALSE /\ reloaded = FALSE /\ tries = 0 /\ logins = {}
        /\ ftimeout = 0 /\ lastFailure = 0
    BY DEF LoginInit
  <2>2. 0 \in 0 .. MaxLogins
    BY LoginAssumption
  <2> QED BY <1>1, <2>1, <2>2 DEF LoginTypeOK
<1>3. BannerLasts /\ OneTimer
  BY <1>1 DEF LoginInit, BannerLasts, OneTimer
<1> QED BY <1>2, <1>3 DEF LoginInv

LEMMA LoginAnsweredSound ==
  ASSUME LoginInv, NEW m \in logins, LoginAnswered(m)
  PROVE  LoginInv'
<1> USE DEF LoginInv, LoginTypeOK, OneTimer
<1>1. CASE m.right
  BY <1>1 DEF LoginAnswered, BannerLasts
<1>2. CASE ~ m.right
  <2>1. m.id \in 1 .. MaxLogins /\ m \in [id : 1 .. MaxLogins, right : BOOLEAN]
    OBVIOUS
  <2>2. ClearsTimer(ftimeout) = <<>>
    <3>1. CASE timers_i = <<>>
      BY <3>1 DEF ClearsTimer, Range
    <3>2. CASE timers_i # <<>>
      <4> DEFINE s == <<ftimeout>>
                 i == CHOOSE i \in DOMAIN s : s[i] = ftimeout
      <4>1. timers_i = s /\ s \in Seq(1 .. MaxLogins) /\ Len(s) = 1 /\ DOMAIN s = {1}
        BY <3>2
      <4>2. i = 1 /\ ftimeout \in Range(s)
        BY <4>1 DEF Range
      <4>3. ClearsTimer(ftimeout) = RemoveAt(s, 1)
        BY <4>1, <4>2 DEF ClearsTimer
      <4>4. \A k : RemoveAt(s, k) = SubSeq(s, 1, k - 1) \o SubSeq(s, k + 1, Len(s))
        BY DEF RemoveAt
      <4> HIDE DEF s
      <4>5. SubSeq(s, 1, 1 - 1) = <<>> /\ SubSeq(s, 1 + 1, Len(s)) = <<>>
        BY <4>1, SubSeqEmpty
      <4>6. RemoveAt(s, 1) = <<>> \o <<>>
        BY <4>4, <4>5
      <4>7. <<>> \o <<>> = <<>>
        OBVIOUS
      <4> QED BY <4>3, <4>6, <4>7
    <3> QED BY <3>1, <3>2
  <2>3. /\ failed' = TRUE /\ timers_i' = <<m.id>> /\ ftimeout' = m.id /\ lastFailure' = m.id
        /\ logins' \subseteq logins /\ UNCHANGED <<reloaded, fields, tries>>
    BY <1>2, <2>2 DEF LoginAnswered
  <2>4. m.id \in Range(<<m.id>>)
    BY DEF Range
  <2> QED BY <2>1, <2>3, <2>4 DEF BannerLasts
<1> QED BY <1>1, <1>2

LEMMA LoginStepSound ==
  ASSUME LoginInv, LoginNext \/ UNCHANGED vars_i
  PROVE  LoginInv'
<1> USE DEF LoginInv, LoginTypeOK, OneTimer
<1>1. CASE UNCHANGED vars_i
  BY <1>1 DEF vars_i, BannerLasts
<1>2. CASE TypeCredentials
  BY <1>2 DEF TypeCredentials, BannerLasts
<1>3. CASE LoginRequest
  <2>1. tries' \in 0 .. MaxLogins /\ tries + 1 \in 1 .. MaxLogins
    BY <1>3, LoginAssumption DEF LoginRequest
  <2>2. logins' \subseteq [id : 1 .. MaxLogins, right : BOOLEAN]
    BY <1>3, <2>1 DEF LoginRequest
  <2>3. UNCHANGED <<fields, failed, timers_i, ftimeout, reloaded, lastFailure>>
    BY <1>3 DEF LoginRequest
  <2> QED BY <2>1, <2>2, <2>3 DEF BannerLasts
<1>4. CASE BannerTimer
  <2>1. timers_i = <<ftimeout>> /\ ftimeout \in 1 .. MaxLogins
    BY <1>4 DEF BannerTimer
  <2>2. timers_i' = <<>> /\ failed' = FALSE
        /\ UNCHANGED <<fields, logins, ftimeout, reloaded, tries, lastFailure>>
    BY <1>4, <2>1 DEF BannerTimer
  <2>3. Range(<<>>) = {}
    BY DEF Range
  <2>4. timers_i' \in Seq(1 .. MaxLogins) /\ OneTimer'
    BY <2>2, EmptySeq
  <2>5. BannerLasts'
    BY <2>2, <2>3 DEF BannerLasts
  <2>6. LoginTypeOK'
    BY <2>2, <2>4
  <2> QED BY <2>4, <2>5, <2>6
<1> QED BY <1>1, <1>2, <1>3, <1>4, LoginAnsweredSound DEF LoginNext

------------------------------------------------------------------------------
(* The home page.  Calls for runs, and what the server says of the run.      *)
HomeMessages ==
  /\ IsList(up) /\ IsList(down)
  /\ \A i \in DOMAIN up : up[i].what = "runcall" => up[i].op \in {"start", "stop", "reset"}
  /\ \A i \in DOMAIN down :
       /\ down[i].what = "runstatus" => down[i].v \in {"Stopped", "Running"}
       /\ down[i].what \in {"metric", "readmetric"} => down[i].n \in 0 .. MaxMetrics
       /\ down[i].what = "readmetric" => "event" \notin DOMAIN down[i]

(* The metric's event is only sent to a page that listens, and the last one  *)
(* says what the metric is.  Once the answer to the reading is sent, so does *)
(* the last of both, or else the page shows it.                              *)
Figures == {"metric", "readmetric"}
MetricFollowed ==
  /\ metrictold => listening_o
  /\ \A i \in DOMAIN up : up[i].what = "followmetric" => listening_o
  /\ \A i \in DOMAIN down : down[i].what = "metric" => metrictold
  /\ \A i \in DOMAIN down : LastDown(i, {"metric"}) => down[i].n = metric
FiguresCome ==
  (~ slipped /\ \A i \in DOMAIN up : up[i].what # "readmetric") =>
    /\ \A i \in DOMAIN down : LastDown(i, Figures) => down[i].n = metric
    /\ (\A i \in DOMAIN down : down[i].what \notin Figures) => usage = metric
PairedRuns == rows_o.runs - rows_o.ended = (IF statuskey = "Running" THEN 1 ELSE 0)
HomeInv == HomeTypeOK /\ HomeMessages /\ PairedRuns /\ MetricFollowed /\ FiguresCome

LEMMA HomeImplies == HomeInv => HomeTypeOK /\ RunsPaired /\ UsageRight
<1> SUFFICES ASSUME HomeInv PROVE HomeTypeOK /\ RunsPaired /\ UsageRight
  OBVIOUS
<1>1. RunsPaired
  BY DEF HomeInv, PairedRuns, RunsPaired
<1>2. UsageRight
  BY DEF HomeInv, FiguresCome, UsageRight, Quiet
<1> QED BY <1>1, <1>2 DEF HomeInv

LEMMA HomeInitSound ==
  ASSUME HomeInit, up = HomeCalls, down = <<>>
  PROVE  HomeInv
<1> DEFINE w == [what |-> "watchmetric"]  r == [what |-> "readmetric"]
           s == <<w>>  t == s \o <<r>>
<1>1. IsList(s) /\ Len(s) = 1 /\ s[1] = w
  <2>1. s \in Seq({w})
    OBVIOUS
  <2> HIDE DEF s, w
  <2>2. IsList(s)
    BY <2>1, ListedIs
  <2> QED BY <2>2 DEF s
<1>2. up = t \o <<w>>
  BY DEF HomeCalls, WatchMetric
<1>3. w.what = "watchmetric" /\ r.what = "readmetric"
  OBVIOUS
<1> HIDE DEF s, w, r
<1>4. IsList(t) /\ Len(t) = 2 /\ t[1] = w /\ t[2] = r
  <2>1. t = Append(s, r)
    BY <1>1, PutBehind
  <2>2. /\ IsList(Append(s, r)) /\ Len(Append(s, r)) = Len(s) + 1
        /\ \A i \in 1 .. Len(s) : Append(s, r)[i] = s[i]
        /\ Append(s, r)[Len(s) + 1] = r
    BY <1>1, PutBehind
  <2> HIDE DEF t, IsList
  <2> QED BY <1>1, <2>1, <2>2
<1> HIDE DEF t
<1>5. IsList(up) /\ DOMAIN up = 1 .. 3 /\ up[1] = w /\ up[2] = r /\ up[3] = w
  <2>1. up = Append(t, w)
    BY <1>2, <1>4, PutBehind
  <2> DEFINE u == Append(t, w)
  <2>2. /\ IsList(u) /\ DOMAIN u = 1 .. Len(t) + 1
        /\ \A i \in 1 .. Len(t) : u[i] = t[i]
        /\ u[Len(t) + 1] = w
    BY <1>4, PutBehind, ZenonT(20)
  <2> HIDE DEF IsList, u
  <2>3. DOMAIN u = 1 .. 3 /\ u[1] = w /\ u[2] = r /\ u[3] = w
    BY <1>4, <2>2
  <2> QED BY <2>1, <2>2, <2>3 DEF u
<1>6. IsList(down) /\ DOMAIN down = {}
  <2>1. down \in Seq({w}) /\ DOMAIN down = {}
    BY EmptySeq
  <2> QED BY <2>1, ListedIs
<1> HIDE DEF IsList
<1>7. HomeMessages
  BY <1>3, <1>5, <1>6 DEF HomeMessages
<1>8. MetricFollowed
  BY <1>3, <1>5, <1>6 DEF HomeInit, MetricFollowed, LastDown
<1>9. FiguresCome
  BY <1>3, <1>5, <1>6 DEF HomeInit, FiguresCome, LastDown
<1>10. HomeTypeOK /\ PairedRuns
  <2>1. 0 \in 0 .. MaxMetrics
    BY HomeAssumption
  <2>2. /\ {statuskey, statusShown} \subseteq {"Stopped", "Running"}
        /\ {runReset, understood, metrictold, listening_o, slipped} \subseteq BOOLEAN
        /\ {metric, usage} \subseteq 0 .. MaxMetrics
    BY <2>1 DEF HomeInit
  <2>3. rows_o \in [runs : Nat, ended : Nat] /\ PairedRuns
    BY DEF HomeInit, PairedRuns
  <2> QED BY <2>2, <2>3 DEF HomeTypeOK
<1> QED BY <1>7, <1>8, <1>9, <1>10 DEF HomeInv

(* What changes neither the metric nor what is known of it keeps the figures. *)
Untouched == UNCHANGED <<metric, metrictold, usage, slipped>>

LEMMA CallKeepsFigures ==
  ASSUME HomeInv, NEW c, Ask(<<c>>), down' = down, Untouched,
         c.what = "runcall" => c.op \in {"start", "stop", "reset"},
         c.what # "readmetric",
         listening_o => listening_o',
         c.what = "followmetric" => listening_o'
  PROVE  HomeMessages' /\ MetricFollowed' /\ FiguresCome'
<1> USE DEF HomeInv, Untouched
<1>1. IsList(up) /\ IsList(down)
  BY DEF HomeMessages
<1>2. /\ IsList(up')
      /\ \A i \in DOMAIN up : i \in DOMAIN up' /\ up'[i] = up[i]
      /\ \A i \in DOMAIN up' : up'[i] = c \/ (i \in DOMAIN up /\ up'[i] = up[i])
  BY <1>1, UpAsked
<1>3. \A i, W : LastDown(i, W)' <=> LastDown(i, W)
  BY DEF LastDown
<1>4. HomeMessages'
  BY <1>1, <1>2 DEF HomeMessages
<1>5. MetricFollowed'
  BY <1>2, <1>3 DEF MetricFollowed
<1>6. FiguresCome'
  BY <1>2, <1>3 DEF FiguresCome
<1> QED BY <1>4, <1>5, <1>6

LEMMA TellKeepsFigures ==
  ASSUME HomeInv, NEW a, down' = Append(down, a), Untouched, listening_o' = listening_o,
         a.what = "runstatus" /\ a.v \in {"Stopped", "Running"},
         up' = up \/ (Serving("runcall") /\ up' = Tail(up))
  PROVE  HomeMessages' /\ MetricFollowed' /\ FiguresCome'
<1> USE DEF HomeInv, Untouched
<1>1. IsList(up) /\ IsList(down)
  BY DEF HomeMessages
<1>2. /\ IsList(down')
      /\ \A i \in DOMAIN down : i \in DOMAIN down' /\ down'[i] = down[i]
      /\ \A i \in DOMAIN down' : down'[i] = a \/ (i \in DOMAIN down /\ down'[i] = down[i])
      /\ \A W, i : LastDown(i, W)' =>
              down'[i] = a \/ (LastDown(i, W) /\ down'[i] = down[i] /\ a.what \notin W)
  BY <1>1, DownAppended
<1>3. /\ IsList(up')
      /\ \A i \in DOMAIN up' : \E j \in DOMAIN up : up'[i] = up[j]
      /\ \A i \in DOMAIN up : up[i].what = "readmetric" => \E j \in DOMAIN up' : up'[j] = up[i]
  <2>1. CASE up' = up
    BY <1>1, <2>1
  <2>2. CASE Serving("runcall") /\ up' = Tail(up)
    <3>1. up # <<>> /\ Head(up).what = "runcall"
      BY <2>2 DEF Serving
    <3>2. /\ IsList(up') /\ Head(up) = up[1]
          /\ \A i \in DOMAIN up' : i + 1 \in DOMAIN up /\ up'[i] = up[i + 1]
          /\ \A i \in DOMAIN up : i = 1 \/ \E j \in DOMAIN up' : i = j + 1
      BY <1>1, <2>2, <3>1, UpTaken
    <3> QED BY <3>1, <3>2
  <2> QED BY <2>1, <2>2
<1>4. HomeMessages'
  BY <1>2, <1>3 DEF HomeMessages
<1>5. MetricFollowed'
  <2>1. \A i \in DOMAIN up' : up'[i].what = "followmetric" => listening_o'
    BY <1>3 DEF MetricFollowed
  <2>2. \A i \in DOMAIN down' : down'[i].what = "metric" => metrictold'
    BY <1>2 DEF MetricFollowed
  <2>3. \A i : LastDown(i, {"metric"})' =>
          down'[i] = a \/ (LastDown(i, {"metric"}) /\ down'[i] = down[i])
    BY <1>2
  <2>4. \A i \in DOMAIN down' : LastDown(i, {"metric"})' => down'[i].n = metric'
    BY <2>3 DEF MetricFollowed, LastDown
  <2> QED BY <2>1, <2>2, <2>4 DEF MetricFollowed
<1>6. FiguresCome'
  <2>1. ASSUME \A i \in DOMAIN up' : up'[i].what # "readmetric"
        PROVE  \A i \in DOMAIN up : up[i].what # "readmetric"
    BY <1>3, <2>1
  <2>2. a.what \notin Figures
    BY DEF Figures
  <2>3. ASSUME \A i \in DOMAIN down' : down'[i].what \notin Figures
        PROVE  \A i \in DOMAIN down : down[i].what \notin Figures
    BY <1>2, <2>3
  <2>4. \A i : LastDown(i, Figures)' => LastDown(i, Figures) /\ down'[i] = down[i] /\ i \in DOMAIN down
    BY <1>2, <2>2 DEF LastDown
  <2> QED BY <2>1, <2>3, <2>4 DEF FiguresCome
<1> QED BY <1>4, <1>5, <1>6

(* A message that is no figure arrives, or the server takes a call that asks *)
(* for none and says nothing.                                                *)
LEMMA OtherMovesKeepFigures ==
  ASSUME HomeInv, Untouched, listening_o' = listening_o,
         \/ Getting("runstatus") /\ Got /\ up' = up
         \/ Serving("runcall") /\ up' = Tail(up) /\ down' = down
         \/ up' = up /\ down' = down
  PROVE  HomeMessages' /\ MetricFollowed' /\ FiguresCome'
<1> USE DEF HomeInv, Untouched
<1>1. IsList(up) /\ IsList(down)
  BY DEF HomeMessages
<1>2. CASE Getting("runstatus") /\ Got /\ up' = up
  <2>1. down # <<>> /\ Head(down).what = "runstatus" /\ Head(down).what \notin Figures
    BY <1>2 DEF Getting, Figures
  <2>2. /\ IsList(down')
        /\ \A i \in DOMAIN down' : i + 1 \in DOMAIN down /\ down'[i] = down[i + 1]
        /\ \A W, i : LastDown(i, W)' => LastDown(i + 1, W) /\ down'[i] = down[i + 1]
        /\ (\A i \in DOMAIN down' : down'[i].what \notin Figures) =>
             \A i \in DOMAIN down : down[i].what \notin Figures
    BY <1>1, <1>2, <2>1, DownTaken
  <2>3. HomeMessages'
    BY <1>1, <1>2, <2>2 DEF HomeMessages
  <2>4. \A W, i : LastDown(i, W)' => i + 1 \in DOMAIN down
    BY <2>2 DEF LastDown
  <2>5. MetricFollowed'
    BY <1>2, <2>2, <2>4 DEF MetricFollowed
  <2>6. FiguresCome'
    BY <1>2, <2>2, <2>4 DEF FiguresCome
  <2> QED BY <2>3, <2>5, <2>6
<1>3. CASE Serving("runcall") /\ up' = Tail(up) /\ down' = down
  <2>1. up # <<>> /\ Head(up).what = "runcall"
    BY <1>3 DEF Serving
  <2>2. /\ IsList(up') /\ Head(up) = up[1]
        /\ \A i \in DOMAIN up' : i + 1 \in DOMAIN up /\ up'[i] = up[i + 1]
        /\ \A i \in DOMAIN up : i = 1 \/ \E j \in DOMAIN up' : i = j + 1
    BY <1>1, <1>3, <2>1, UpTaken
  <2>3. \A i, W : LastDown(i, W)' <=> LastDown(i, W)
    BY <1>3 DEF LastDown
  <2>4. HomeMessages' /\ MetricFollowed'
    BY <1>1, <1>3, <2>2, <2>3 DEF HomeMessages, MetricFollowed
  <2>5. ASSUME \A i \in DOMAIN up' : up'[i].what # "readmetric"
        PROVE  \A i \in DOMAIN up : up[i].what # "readmetric"
    BY <2>1, <2>2, <2>5
  <2>6. FiguresCome'
    BY <1>3, <2>3, <2>5 DEF FiguresCome
  <2> QED BY <2>4, <2>6
<1>4. CASE up' = up /\ down' = down
  <2>1. \A i, W : LastDown(i, W)' <=> LastDown(i, W)
    BY <1>4 DEF LastDown
  <2> QED BY <1>1, <1>4, <2>1 DEF HomeMessages, MetricFollowed, FiguresCome
<1> QED BY <1>2, <1>3, <1>4

LEMMA RunsSound ==
  ASSUME HomeInv, ServeRun \/ \E op \in {"start", "stop", "reset"} : OthersRun(op)
  PROVE  HomeInv'
<1>1. PICK op \in {"start", "stop", "reset"} :
        /\ RunDoes(op) /\ UNCHANGED <<buttons_o, panel_o>>
        /\ up' = up \/ (Serving("runcall") /\ up' = Tail(up))
  <2>1. CASE ServeRun
    <3>1. Serving("runcall") /\ up # <<>> /\ Head(up).what = "runcall"
      BY <2>1 DEF ServeRun, Serving
    <3>2. 1 \in DOMAIN up /\ Head(up) = up[1]
      BY <3>1, FirstGone DEF HomeInv, HomeMessages
    <3>3. Head(up).op \in {"start", "stop", "reset"}
      BY <3>1, <3>2 DEF HomeInv, HomeMessages
    <3> QED BY <2>1, <3>3 DEF ServeRun
  <2> QED BY <2>1 DEF OthersRun
<1>2. Untouched /\ listening_o' = listening_o
  BY <1>1 DEF panel_o, Untouched
<1> DEFINE done == Requires(IF op = "stop" THEN "Running" ELSE "Stopped")
           v == Runs(op).status
<1>3. v \in {"Stopped", "Running"} /\ rows_o \in [runs : Nat, ended : Nat]
      /\ statuskey \in {"Stopped", "Running"}
  BY DEF Runs, HomeInv, HomeTypeOK
<1>4. /\ statuskey' = IF done THEN v ELSE statuskey
      /\ rows_o' = IF done THEN Runs(op).rows ELSE rows_o
      /\ down' = IF done /\ op # "reset" THEN Append(down, Event([what |-> "runstatus", v |-> v])) ELSE down
  BY <1>1 DEF RunDoes
<1>5. PairedRuns' /\ rows_o' \in [runs : Nat, ended : Nat] /\ statuskey' \in {"Stopped", "Running"}
  BY <1>3, <1>4 DEF HomeInv, PairedRuns, Requires, Runs
<1>6. HomeTypeOK'
  <2>1. UNCHANGED <<statusShown, runReset, understood, metric, metrictold, usage, listening_o, slipped>>
    BY <1>1 DEF buttons_o, panel_o
  <2> QED BY <1>5, <2>1 DEF HomeInv, HomeTypeOK
<1>7. HomeMessages' /\ MetricFollowed' /\ FiguresCome'
  <2>1. CASE done /\ op # "reset"
    <3> DEFINE a == Event([what |-> "runstatus", v |-> v])
    <3>1. a.what = "runstatus" /\ a.v \in {"Stopped", "Running"}
      BY <1>3 DEF Event
    <3>2. down' = Append(down, a)
      BY <1>4, <2>1
    <3> HIDE DEF a
    <3> QED BY <1>1, <1>2, <3>1, <3>2, TellKeepsFigures
  <2>2. CASE ~ (done /\ op # "reset")
    <3>1. down' = down
      BY <1>4, <2>2
    <3> QED BY <1>1, <1>2, <3>1, OtherMovesKeepFigures
  <2> QED BY <2>1, <2>2
<1> QED BY <1>5, <1>6, <1>7 DEF HomeInv

LEMMA ButtonsSound ==
  ASSUME HomeInv,
         \/ \E op \in {"start", "stop", "reset"} : PressRun(op)
         \/ AskReset \/ TypePhrase \/ CloseReset \/ ConfirmReset \/ StatusArrives
  PROVE  HomeInv'
<1>1. UNCHANGED <<statuskey, rows_o, metric, metrictold, usage, listening_o, slipped>>
  BY DEF PressRun, AskReset, TypePhrase, CloseReset, ConfirmReset, StatusArrives, run_o, panel_o
<1>2. runReset' \in BOOLEAN /\ understood' \in BOOLEAN
  BY DEF PressRun, AskReset, TypePhrase, CloseReset, ConfirmReset, StatusArrives, HomeInv, HomeTypeOK
<1>3. statusShown' \in {"Stopped", "Running"}
  <2>1. CASE StatusArrives
    <3>1. down # <<>> /\ Head(down).what = "runstatus" /\ statusShown' = Head(down).v
      BY <2>1 DEF StatusArrives, Getting
    <3>2. 1 \in DOMAIN down /\ Head(down) = down[1]
      BY <3>1, FirstGone DEF HomeInv, HomeMessages
    <3> QED BY <3>1, <3>2 DEF HomeInv, HomeMessages
  <2>2. CASE ~ StatusArrives
    <3>1. statusShown' = statusShown
      BY <2>2 DEF PressRun, AskReset, TypePhrase, CloseReset, ConfirmReset
    <3> QED BY <3>1 DEF HomeInv, HomeTypeOK
  <2> QED BY <2>1, <2>2
<1>4. HomeTypeOK' /\ PairedRuns'
  BY <1>1, <1>2, <1>3 DEF HomeInv, HomeTypeOK, PairedRuns
<1>5. HomeMessages' /\ MetricFollowed' /\ FiguresCome'
  <2>1. Untouched /\ listening_o' = listening_o
    BY <1>1 DEF Untouched
  <2>2. ASSUME NEW op \in {"start", "stop", "reset"}, Ask(<<[what |-> "runcall", op |-> op]>>), down' = down
        PROVE  HomeMessages' /\ MetricFollowed' /\ FiguresCome'
    <3> DEFINE c == [what |-> "runcall", op |-> op]
    <3>1. c.what = "runcall" /\ c.op = op
      OBVIOUS
    <3>2. Ask(<<c>>)
      BY <2>2
    <3> HIDE DEF c
    <3> QED BY <2>1, <2>2, <3>1, <3>2, CallKeepsFigures
  <2>3. \/ \E op \in {"start", "stop", "reset"} : Ask(<<[what |-> "runcall", op |-> op]>>) /\ down' = down
        \/ Getting("runstatus") /\ Got /\ up' = up
        \/ up' = up /\ down' = down
    BY DEF PressRun, AskReset, TypePhrase, CloseReset, ConfirmReset, StatusArrives, calls
  <2> QED BY <2>1, <2>2, <2>3, OtherMovesKeepFigures
<1> QED BY <1>4, <1>5 DEF HomeInv

LEMMA MetricChangesSound ==
  ASSUME HomeInv, MetricChanges
  PROVE  HomeInv'
<1> USE DEF HomeInv
<1>1. /\ UNCHANGED <<up, run_o, buttons_o, metrictold, usage, listening_o>>
      /\ metric < MaxMetrics /\ metric' = metric + 1
      /\ slipped' = (slipped \/ ~ metrictold)
  BY DEF MetricChanges
<1>2. metric' \in 0 .. MaxMetrics /\ 0 .. MaxMetrics \subseteq 0 .. MaxMetrics
  BY <1>1, HomeAssumption DEF HomeTypeOK
<1>3. HomeTypeOK' /\ PairedRuns'
  <2>1. UNCHANGED <<statuskey, rows_o, statusShown, runReset, understood, metrictold, usage, listening_o>>
    BY <1>1 DEF run_o, buttons_o
  <2>2. slipped' \in BOOLEAN
    BY <1>1
  <2> QED BY <1>2, <2>1, <2>2 DEF HomeTypeOK, PairedRuns
<1>4. IsList(up) /\ IsList(down)
  BY DEF HomeMessages
<1>5. CASE metrictold
  <2> DEFINE a == Event([what |-> "metric", n |-> metric + 1])
  <2>1. a.what = "metric" /\ a.n = metric' /\ a.what # "readmetric"
    BY <1>1 DEF Event
  <2>2. down' = Append(down, a)
    BY <1>5 DEF MetricChanges, Tell
  <2> HIDE DEF a
  <2>3. /\ IsList(down')
        /\ \A i \in DOMAIN down' : down'[i] = a \/ (i \in DOMAIN down /\ down'[i] = down[i])
        /\ \E i \in DOMAIN down' : down'[i] = a
        /\ \A W, i : LastDown(i, W)' =>
             down'[i] = a \/ (LastDown(i, W) /\ down'[i] = down[i] /\ a.what \notin W)
    BY <1>4, <2>2, DownAppended
  <2>4. HomeMessages'
    BY <1>1, <1>2, <1>4, <2>1, <2>3 DEF HomeMessages
  <2>5. \A i : LastDown(i, {"metric"})' => down'[i] = a
    BY <2>1, <2>3
  <2>6. \A i : LastDown(i, Figures)' => down'[i] = a
    BY <2>1, <2>3 DEF Figures
  <2>7. MetricFollowed'
    BY <1>1, <1>5, <2>1, <2>3, <2>5 DEF MetricFollowed
  <2>8. FiguresCome'
    BY <2>1, <2>3, <2>6 DEF FiguresCome, Figures
  <2> QED BY <1>3, <2>4, <2>7, <2>8
<1>6. CASE ~ metrictold
  <2>1. down' = down /\ slipped'
    BY <1>1, <1>6 DEF MetricChanges
  <2>2. HomeMessages' /\ FiguresCome'
    BY <1>1, <1>4, <2>1 DEF HomeMessages, FiguresCome
  <2>3. MetricFollowed'
    BY <1>1, <1>6, <2>1 DEF MetricFollowed, LastDown
  <2> QED BY <1>3, <2>2, <2>3
<1> QED BY <1>5, <1>6

LEMMA ServePanelSound ==
  ASSUME HomeInv, ServePanel
  PROVE  HomeInv'
<1> USE DEF HomeInv
<1>1. /\ UNCHANGED <<run_o, buttons_o, metric, usage, listening_o>>
      /\ metrictold' \in BOOLEAN /\ slipped' \in BOOLEAN
  BY DEF ServePanel, HomeTypeOK
<1>2. HomeTypeOK' /\ PairedRuns'
  BY <1>1 DEF HomeTypeOK, PairedRuns, run_o, buttons_o
<1>3. IsList(up) /\ IsList(down) /\ up # <<>>
  BY DEF HomeMessages, ServePanel, Serving
<1>4. up' = Tail(up)
  BY DEF ServePanel, Serve
<1>5. /\ IsList(up') /\ 1 \in DOMAIN up /\ Head(up) = up[1]
      /\ \A i \in DOMAIN up' : i + 1 \in DOMAIN up /\ up'[i] = up[i + 1]
      /\ \A i \in DOMAIN up : i = 1 \/ \E j \in DOMAIN up' : i = j + 1
  BY <1>3, <1>4, UpTaken
<1>6. CASE Serving("watchmetric") /\ Serve(Head(up)) /\ UNCHANGED <<metrictold, slipped>>
  <2> DEFINE a == Head(up)
  <2>1. a.what = "watchmetric" /\ a.what \notin Figures
    BY <1>6 DEF Serving, Figures
  <2>2. Serve(a)
    BY <1>6
  <2> HIDE DEF a
  <2>3. /\ IsList(down')
        /\ \A i \in DOMAIN down' : down'[i] = a \/ \E j \in DOMAIN down : down'[i] = down[j]
        /\ \A j \in DOMAIN down : \E i \in DOMAIN down' : down'[i] = down[j]
        /\ \A W, i : LastDown(i, W)' =>
              \/ down'[i] = a
              \/ \E j : /\ LastDown(j, W) /\ down'[i] = down[j]
                        /\ a.what \in W => "event" \in DOMAIN down[j]
    BY <1>3, <2>2, DownServed
  <2>4. HomeMessages'
    BY <1>5, <2>1, <2>3 DEF HomeMessages, Figures
  <2>5. ASSUME NEW i, NEW W \in {{"metric"}, Figures}, LastDown(i, W)'
        PROVE  \E j \in DOMAIN down : LastDown(j, W) /\ down'[i] = down[j]
    <3>1. down'[i].what \in W /\ a.what \notin W
      BY <2>1, <2>5 DEF LastDown, Figures
    <3>2. down'[i] # a
      BY <3>1
    <3> QED BY <2>3, <2>5, <3>2 DEF LastDown
  <2>6. MetricFollowed'
    <3>1. \A i \in DOMAIN up' : up'[i].what = "followmetric" => listening_o'
      BY <1>1, <1>5 DEF MetricFollowed
    <3>2. \A i \in DOMAIN down' : down'[i].what = "metric" => metrictold'
      BY <1>6, <2>1, <2>3 DEF MetricFollowed, Figures
    <3>3. \A i \in DOMAIN down' : LastDown(i, {"metric"})' => down'[i].n = metric'
      BY <1>1, <2>5 DEF MetricFollowed
    <3> QED BY <1>1, <1>6, <3>1, <3>2, <3>3 DEF MetricFollowed
  <2>7. FiguresCome'
    <3> SUFFICES ASSUME ~ slipped', \A i \in DOMAIN up' : up'[i].what # "readmetric"
                 PROVE  /\ \A i \in DOMAIN down' : LastDown(i, Figures)' => down'[i].n = metric'
                        /\ (\A i \in DOMAIN down' : down'[i].what \notin Figures) => usage' = metric'
      BY DEF FiguresCome
    <3>1. ~ slipped /\ \A i \in DOMAIN up : up[i].what # "readmetric"
      BY <1>5, <1>6, <2>1 DEF a
    <3>2. /\ \A i \in DOMAIN down : LastDown(i, Figures) => down[i].n = metric
          /\ (\A i \in DOMAIN down : down[i].what \notin Figures) => usage = metric
      BY <3>1 DEF FiguresCome
    <3>3. (\A i \in DOMAIN down' : down'[i].what \notin Figures)
            => \A i \in DOMAIN down : down[i].what \notin Figures
      BY <2>3
    <3> QED BY <1>1, <2>5, <3>2, <3>3
  <2> QED BY <1>2, <2>4, <2>6, <2>7
<1>7. CASE /\ Serving("readmetric") /\ Serve([what |-> "readmetric", n |-> metric])
           /\ slipped' = FALSE /\ UNCHANGED metrictold
  <2> DEFINE a == [what |-> "readmetric", n |-> metric]
  <2>1. a.what = "readmetric" /\ a.what \in Figures /\ a.n = metric /\ a.what # "metric"
        /\ "event" \notin DOMAIN a
    BY DEF Figures
  <2>2. Serve(a)
    BY <1>7
  <2> HIDE DEF a
  <2>3. /\ IsList(down')
        /\ \A i \in DOMAIN down' : down'[i] = a \/ \E j \in DOMAIN down : down'[i] = down[j]
        /\ \E i \in DOMAIN down' : down'[i] = a
        /\ \A W, i : LastDown(i, W)' =>
              \/ down'[i] = a
              \/ \E j : /\ LastDown(j, W) /\ down'[i] = down[j]
                        /\ a.what \in W => "event" \in DOMAIN down[j]
    BY <1>3, <2>2, DownServed
  <2>4. HomeMessages'
    BY <1>1, <1>5, <2>1, <2>3 DEF HomeMessages, HomeTypeOK
  <2>5. MetricFollowed'
    <3>1. \A i \in DOMAIN up' : up'[i].what = "followmetric" => listening_o'
      BY <1>1, <1>5 DEF MetricFollowed
    <3>2. \A i \in DOMAIN down' : down'[i].what = "metric" => metrictold'
      BY <1>7, <2>1, <2>3 DEF MetricFollowed
    <3>3. ASSUME NEW i, LastDown(i, {"metric"})'
          PROVE  \E j \in DOMAIN down : LastDown(j, {"metric"}) /\ down'[i] = down[j]
      <4>1. down'[i].what = "metric"
        BY <3>3 DEF LastDown
      <4>2. PICK j : LastDown(j, {"metric"}) /\ down'[i] = down[j]
        BY <2>1, <2>3, <3>3, <4>1
      <4> QED BY <4>2 DEF LastDown
    <3>4. \A i \in DOMAIN down' : LastDown(i, {"metric"})' => down'[i].n = metric'
      BY <1>1, <3>3 DEF MetricFollowed
    <3> QED BY <1>1, <1>7, <3>1, <3>2, <3>4 DEF MetricFollowed
  <2>6. ASSUME NEW i, LastDown(i, Figures)'
        PROVE  down'[i].n = metric'
    <3>1. CASE down'[i] = a
      BY <1>1, <2>1, <3>1
    <3>2. CASE down'[i] # a
      <4>1. PICK j : LastDown(j, Figures) /\ down'[i] = down[j] /\ "event" \in DOMAIN down[j]
        BY <2>1, <2>3, <2>6, <3>2
      <4>2. j \in DOMAIN down /\ down[j].what = "metric"
        BY <4>1 DEF LastDown, Figures, HomeMessages
      <4>3. LastDown(j, {"metric"})
        BY <4>1, <4>2 DEF LastDown, Figures
      <4> QED BY <1>1, <4>1, <4>2, <4>3 DEF MetricFollowed
    <3> QED BY <3>1, <3>2
  <2>7. FiguresCome'
    BY <2>1, <2>3, <2>6 DEF FiguresCome
  <2> QED BY <1>2, <2>4, <2>5, <2>7
<1>8. CASE Serving("followmetric") /\ down' = down /\ metrictold' = TRUE /\ UNCHANGED slipped
  <2>1. up[1].what = "followmetric"
    BY <1>5, <1>8 DEF Serving
  <2>2. \A i, W : LastDown(i, W)' <=> LastDown(i, W)
    BY <1>8 DEF LastDown
  <2>3. HomeMessages' /\ MetricFollowed'
    BY <1>1, <1>3, <1>5, <1>8, <2>1, <2>2 DEF HomeMessages, MetricFollowed
  <2>4. (\A i \in DOMAIN up' : up'[i].what # "readmetric") => \A i \in DOMAIN up : up[i].what # "readmetric"
    BY <1>5, <2>1
  <2>5. FiguresCome'
    BY <1>1, <1>8, <2>2, <2>4 DEF FiguresCome
  <2> QED BY <1>2, <2>3, <2>5
<1> QED BY <1>6, <1>7, <1>8 DEF ServePanel

LEMMA WatchMetricArrivesSound ==
  ASSUME HomeInv, WatchMetricArrives
  PROVE  HomeInv'
<1>1. /\ UNCHANGED <<run_o, buttons_o, metric, metrictold, usage, slipped>>
      /\ listening_o' = TRUE /\ Ask(<<[what |-> "followmetric"]>>)
      /\ down # <<>> /\ Head(down).what = "watchmetric" /\ Got
  BY DEF WatchMetricArrives, Getting
<1> USE DEF HomeInv
<1>2. HomeTypeOK' /\ PairedRuns'
  BY <1>1 DEF HomeTypeOK, PairedRuns, run_o, buttons_o
<1>3. IsList(up) /\ IsList(down) /\ Head(down).what \notin Figures
  BY <1>1 DEF HomeMessages, Figures
<1>4. /\ IsList(down')
      /\ \A i \in DOMAIN down' : i + 1 \in DOMAIN down /\ down'[i] = down[i + 1]
      /\ \A W, i : LastDown(i, W)' => LastDown(i + 1, W) /\ down'[i] = down[i + 1]
      /\ (\A i \in DOMAIN down' : down'[i].what \notin Figures) =>
             \A i \in DOMAIN down : down[i].what \notin Figures
  BY <1>1, <1>3, DownTaken
<1> DEFINE c == [what |-> "followmetric"]
<1>5. c.what = "followmetric"
  OBVIOUS
<1>6. Ask(<<c>>)
  BY <1>1
<1> HIDE DEF c
<1>7. /\ IsList(up')
      /\ \A i \in DOMAIN up : i \in DOMAIN up' /\ up'[i] = up[i]
      /\ \A i \in DOMAIN up' : up'[i] = c \/ (i \in DOMAIN up /\ up'[i] = up[i])
  BY <1>3, <1>6, UpAsked
<1>8. HomeMessages'
  BY <1>1, <1>4, <1>5, <1>7 DEF HomeMessages
<1>9. \A W, i : LastDown(i, W)' => i + 1 \in DOMAIN down
  BY <1>4 DEF LastDown
<1>10. MetricFollowed'
  BY <1>1, <1>4, <1>9 DEF MetricFollowed
<1>11. FiguresCome'
  BY <1>1, <1>4, <1>7, <1>9 DEF FiguresCome
<1> QED BY <1>2, <1>8, <1>10, <1>11

LEMMA MetricArrivesSound ==
  ASSUME HomeInv, MetricArrives
  PROVE  HomeInv'
<1> USE DEF HomeInv
<1>1. /\ UNCHANGED <<up, run_o, buttons_o, metric, metrictold, listening_o, slipped>>
      /\ down # <<>> /\ Head(down).what \in Figures /\ Got
  BY DEF MetricArrives, Getting, Figures
<1>2. IsList(up) /\ IsList(down)
  BY DEF HomeMessages
<1>3. /\ IsList(down') /\ 1 \in DOMAIN down /\ Head(down) = down[1]
      /\ \A i \in DOMAIN down' : i + 1 \in DOMAIN down /\ down'[i] = down[i + 1]
      /\ \A W, i : LastDown(i, W)' => LastDown(i + 1, W) /\ down'[i] = down[i + 1]
      /\ (\A i \in DOMAIN down' : down'[i].what \notin Figures) => LastDown(1, Figures)
  BY <1>1, <1>2, DownTaken
<1>4. usage' = Head(down).n
  BY <1>3 DEF MetricArrives, Getting, MetricFollowed, Taken
<1>5. usage' \in 0 .. MaxMetrics
  BY <1>1, <1>3, <1>4 DEF HomeMessages, Figures
<1>6. HomeTypeOK' /\ PairedRuns'
  BY <1>1, <1>5 DEF HomeTypeOK, PairedRuns, run_o, buttons_o
<1>7. HomeMessages'
  BY <1>1, <1>2, <1>3 DEF HomeMessages
<1>8. \A W, i : LastDown(i, W)' => i + 1 \in DOMAIN down
  BY <1>3 DEF LastDown
<1>9. MetricFollowed'
  BY <1>1, <1>3, <1>8 DEF MetricFollowed
<1>10. FiguresCome'
  BY <1>1, <1>3, <1>4, <1>8 DEF FiguresCome
<1> QED BY <1>6, <1>7, <1>9, <1>10

LEMMA HomeStepSound ==
  ASSUME HomeInv, HomeNext \/ UNCHANGED <<calls, vars_o>>
  PROVE  HomeInv'
<1>1. CASE UNCHANGED <<calls, vars_o>>
  BY <1>1 DEF calls, vars_o, run_o, buttons_o, panel_o, HomeInv, HomeTypeOK, HomeMessages, PairedRuns,
              MetricFollowed, FiguresCome, LastDown
<1> QED BY <1>1, RunsSound, ButtonsSound, MetricChangesSound, ServePanelSound,
           WatchMetricArrivesSound, MetricArrivesSound DEF HomeNext

------------------------------------------------------------------------------
(* The table of clients.  The page asks for the list between its             *)
(* subscriptions, of which the server has taken the first few.               *)
Subscribing ==
  /\ IsList(up) /\ Len(up) <= 5
  /\ \A i \in DOMAIN up :
       /\ up[i].what = IF i + 5 - Len(up) = 3 THEN "clients" ELSE "follow"
       /\ up[i].what = "follow" => up[i].e = IF i + 5 - Len(up) \in {1, 4} THEN "newclient" ELSE "delclient"
  /\ following = IF Len(up) = 5 THEN {} ELSE IF Len(up) = 4 THEN {"newclient"} ELSE {"newclient", "delclient"}
  /\ following = {} => down = <<>>

Opened(d, i, c) == d[i].what = "newclient" /\ d[i].id = c
Closed(d, i, c) == d[i].what = "delclient" /\ d[i].id = c
ListIs(i) == down[i].what = "clients"

(* What a table shows, and the table a list makes.                           *)
Shows(f, c, ip) == ip \in DOMAIN f /\ c \in f[ip]
TableOf(cs) == [ip \in Range(cs) |-> {c \in DOMAIN cs : cs[c] = ip}]

(* The events of connections that are on their way.                          *)
OpeningsRight ==
  \A i \in DOMAIN down : down[i].what = "newclient" =>
    LET c == down[i].id
    IN /\ c \in 1 .. identifiers /\ down[i].ip \in Addresses
       /\ c \in DOMAIN connections => down[i].ip = connections[c]
       /\ (c \notin DOMAIN connections /\ c \notin escaped) =>
            \E j \in DOMAIN down : i < j /\ Closed(down, j, c)
       /\ \A j \in DOMAIN down : /\ Opened(down, j, c) => down[j].ip = down[i].ip
                                 /\ Closed(down, j, c) => i < j
ClosingsRight ==
  \A i \in DOMAIN down : down[i].what = "delclient" =>
    down[i].id \in 1 .. identifiers \ DOMAIN connections
ListsRight ==
  /\ \A i \in DOMAIN down : ListIs(i) =>
       /\ DOMAIN down[i].cs \subseteq 1 .. identifiers /\ Range(down[i].cs) \subseteq Addresses
       /\ Len(up) < 3
       /\ \A j \in DOMAIN down : ListIs(j) => i = j

(* A table, with the events of d behind q, becomes that of the connections:  *)
(* n were numbered, cn are open, and those that escaped are not asked about.  *)
Becomes(d, cn, n, gone, f, q) ==
  /\ \A c \in DOMAIN cn :
       Shows(f, c, cn[c]) \/ \E i \in DOMAIN d : q < i /\ Opened(d, i, c)
  /\ \A c \in 1 .. n, ip \in Addresses : Shows(f, c, ip) =>
       /\ c \in DOMAIN cn => ip = cn[c]
       /\ (c \notin DOMAIN cn /\ c \notin gone) => \E i \in DOMAIN d : q < i /\ Closed(d, i, c)
       /\ \A a \in Addresses : Shows(f, c, a) => a = ip
       /\ \A i \in DOMAIN d : (q < i /\ Opened(d, i, c)) => d[i].ip = ip
ListBecomes ==
  \A i \in DOMAIN down : ListIs(i) =>
    Becomes(down, connections, identifiers, escaped, TableOf(down[i].cs), i)
TableBecomes ==
  (Len(up) < 3 /\ \A i \in DOMAIN down : ~ ListIs(i)) =>
    Becomes(down, connections, identifiers, escaped, clients, 0)

NoneEmpty == \A ip \in DOMAIN clients : clients[ip] # {}
EscapedGone == escaped \cap DOMAIN connections = {} /\ 1 \in DOMAIN connections

ClientsInv ==
  /\ ClientsViewTypeOK
  /\ IsList(down)
  /\ Subscribing
  /\ OpeningsRight
  /\ ClosingsRight
  /\ ListsRight
  /\ ListBecomes
  /\ TableBecomes
  /\ NoneEmpty
  /\ EscapedGone

LEMMA ClientsImply == ASSUME ClientsInv PROVE ClientsViewTypeOK /\ ClientsRight
<1> USE DEF ClientsInv
<1>1. ASSUME Quiet("clients"), NEW ip \in Addresses, NEW c
      PROVE  (Shows(clients, c, ip) /\ c \notin escaped) <=> (c \in DOMAIN connections /\ connections[c] = ip)
  <2>1. Len(up) = 0 /\ DOMAIN down = {}
    BY <1>1 DEF Quiet
  <2>2. Becomes(down, connections, identifiers, escaped, clients, 0)
    BY <2>1 DEF TableBecomes
  <2>3. c \in DOMAIN connections => c \in 1 .. identifiers
    BY DEF ClientsViewTypeOK
  <2>4. Shows(clients, c, ip) => c \in 1 .. identifiers
    BY DEF ClientsViewTypeOK, Shows
  <2>5. ASSUME c \in DOMAIN connections, connections[c] = ip
        PROVE  Shows(clients, c, ip) /\ c \notin escaped
    BY <2>1, <2>2, <2>5 DEF Becomes, EscapedGone
  <2>6. ASSUME Shows(clients, c, ip), c \notin escaped
        PROVE  c \in DOMAIN connections /\ connections[c] = ip
    BY <2>1, <2>2, <2>4, <2>6 DEF Becomes
  <2> QED BY <2>5, <2>6
<1>2. ClientsRight
  <2> DEFINE real(ip) == {c \in DOMAIN connections : connections[c] = ip}
             shown(ip) == IF ip \in DOMAIN clients THEN clients[ip] ELSE {}
  <2>1. ASSUME Quiet("clients"), NEW ip \in Addresses
        PROVE  shown(ip) \ escaped = real(ip) /\ (ip \in DOMAIN clients => clients[ip] # {})
    <3>1. \A c : c \in shown(ip) \ escaped <=> c \in real(ip)
      BY <1>1, <2>1 DEF Shows
    <3> QED BY <3>1 DEF NoneEmpty
  <2> QED BY <2>1 DEF ClientsRight
<1> QED BY <1>2

------------------------------------------------------------------------------
(* addClient and removeClient.                                               *)
LEMMA AddedShows ==
  ASSUME NEW f, NEW id, NEW ip, NEW c, NEW a
  PROVE  Shows(AddClient(f, id, ip), c, a) <=> (Shows(f, c, a) \/ (c = id /\ a = ip))
<1>1. CASE ip \in DOMAIN f
  <2>1. AddClient(f, id, ip) = [f EXCEPT ![ip] = @ \cup {id}]
    BY <1>1 DEF AddClient
  <2> QED BY <1>1, <2>1 DEF Shows
<1>2. CASE ip \notin DOMAIN f
  <2>1. AddClient(f, id, ip) = [x \in DOMAIN f \cup {ip} |-> IF x = ip THEN {id} ELSE f[x]]
    BY <1>2 DEF AddClient, With
  <2> QED BY <1>2, <2>1 DEF Shows
<1> QED BY <1>1, <1>2

(* No address without connections, and none that there is not.               *)
LEMMA AddedKeeps ==
  ASSUME NEW f, NEW id, NEW ip, NEW S, NEW A, DOMAIN f \subseteq A, ip \in A, id \in S,
         \A a \in DOMAIN f : f[a] \subseteq S /\ f[a] # {}
  PROVE  /\ DOMAIN AddClient(f, id, ip) \subseteq A
         /\ \A a \in DOMAIN AddClient(f, id, ip) :
              AddClient(f, id, ip)[a] \subseteq S /\ AddClient(f, id, ip)[a] # {}
<1> DEFINE g == AddClient(f, id, ip)
<1>1. CASE ip \in DOMAIN f
  <2>1. g = [f EXCEPT ![ip] = @ \cup {id}]
    BY <1>1 DEF AddClient
  <2> HIDE DEF g
  <2>2. DOMAIN g \subseteq A /\ \A a \in DOMAIN g : g[a] \subseteq S /\ g[a] # {}
    BY <1>1, <2>1
  <2> QED BY <2>2 DEF g
<1>2. CASE ip \notin DOMAIN f
  <2>1. g = [x \in DOMAIN f \cup {ip} |-> IF x = ip THEN {id} ELSE f[x]]
    BY <1>2 DEF AddClient, With
  <2> HIDE DEF g
  <2>2. DOMAIN g \subseteq A /\ \A a \in DOMAIN g : g[a] \subseteq S /\ g[a] # {}
    BY <1>2, <2>1
  <2> QED BY <2>2 DEF g
<1> QED BY <1>1, <1>2

LEMMA SmallSets ==
  ASSUME NEW n \in Nat, NEW S, S \subseteq 1 .. n
  PROVE  /\ IsFiniteSet(S) /\ Cardinality(S) \in Nat
         /\ \A x \in S : Cardinality(S) > 1 \/ S = {x}
         /\ \A x \in S : Cardinality(S) > 1 => S \ {x} # {}
<1>1. IsFiniteSet(1 .. n)
  BY FS_Interval
<1>2. IsFiniteSet(S)
  BY <1>1, FS_Subset
<1>3. Cardinality(S) \in Nat
  BY <1>2, FS_CardinalityType
<1>4. \A x \in S : Cardinality(S \ {x}) = Cardinality(S) - 1 /\ IsFiniteSet(S \ {x})
  BY <1>2, FS_RemoveElement
<1>5. ASSUME NEW x \in S PROVE Cardinality(S) > 1 \/ S = {x}
  <2>1. SUFFICES ASSUME ~ (Cardinality(S) > 1) PROVE S = {x}
    OBVIOUS
  <2>2. Cardinality(S) # 0
    BY <1>2, FS_EmptySet
  <2>3. Cardinality(S \ {x}) = 0
    BY <1>3, <1>4, <2>1, <2>2
  <2>4. S \ {x} = {}
    BY <1>4, <2>3, FS_EmptySet
  <2> QED BY <2>4
<1>6. ASSUME NEW x \in S, Cardinality(S) > 1 PROVE S \ {x} # {}
  <2>1. Cardinality({}) = 0
    BY FS_EmptySet
  <2> QED BY <1>3, <1>4, <1>6, <2>1
<1> QED BY <1>2, <1>3, <1>5, <1>6

LEMMA RemovedShows ==
  ASSUME NEW n \in Nat, NEW f, \A a \in DOMAIN f : f[a] \subseteq 1 .. n, NEW id
  PROVE  LET g == RemoveClient(f, id)
         IN /\ (\A a \in DOMAIN f : f[a] # {}) => \A a \in DOMAIN g : g[a] # {}
            /\ DOMAIN g \subseteq DOMAIN f /\ \A a \in DOMAIN g : g[a] \subseteq f[a]
            /\ (\A a, b \in DOMAIN f : Shows(f, id, a) /\ Shows(f, id, b) => a = b) =>
                 \A c, a : Shows(g, c, a) <=> (Shows(f, c, a) /\ c # id)
<1> DEFINE A == AddressesOf(f, id)
           g == RemoveClient(f, id)
<1>1. \A a : a \in A <=> Shows(f, id, a)
  BY DEF AddressesOf, Shows
<1>2. CASE Cardinality(A) = 1
  <2> DEFINE ip == CHOOSE ip \in A : TRUE
  <2>1. A # {}
    BY <1>2, FS_EmptySet
  <2>2. ip \in A /\ ip \in DOMAIN f /\ id \in f[ip]
    BY <2>1 DEF AddressesOf
  <2>3. g = RemoveFrom(f, ip, id)
    BY <1>2 DEF RemoveClient
  <2> HIDE DEF ip, A
  <2>4. CASE Cardinality(f[ip]) > 1
    <3>1. g = [f EXCEPT ![ip] = @ \ {id}]
      BY <2>3, <2>4 DEF RemoveFrom
    <3>2. f[ip] \ {id} # {}
      BY <2>2, <2>4, SmallSets
    <3> HIDE DEF g
    <3>3. DOMAIN g = DOMAIN f /\ \A a \in DOMAIN f : g[a] = IF a = ip THEN f[a] \ {id} ELSE f[a]
      BY <3>1
    <3>4. ASSUME \A a, b \in DOMAIN f : Shows(f, id, a) /\ Shows(f, id, b) => a = b, NEW c, NEW a
          PROVE  Shows(g, c, a) <=> (Shows(f, c, a) /\ c # id)
      <4>1. Shows(f, id, a) => a = ip
        BY <2>2, <3>4 DEF Shows
      <4> QED BY <3>3, <4>1 DEF Shows
    <3>5. /\ (\A a \in DOMAIN f : f[a] # {}) => \A a \in DOMAIN g : g[a] # {}
          /\ DOMAIN g \subseteq DOMAIN f /\ \A a \in DOMAIN g : g[a] \subseteq f[a]
      BY <3>2, <3>3
    <3> QED BY <3>4, <3>5 DEF g
  <2>5. CASE ~ (Cardinality(f[ip]) > 1)
    <3>1. g = [x \in DOMAIN f \ {ip} |-> f[x]]
      BY <2>3, <2>5 DEF RemoveFrom, Without
    <3>2. f[ip] = {id}
      BY <2>2, <2>5, SmallSets
    <3> HIDE DEF g
    <3>3. DOMAIN g = DOMAIN f \ {ip} /\ \A a \in DOMAIN g : g[a] = f[a]
      BY <3>1
    <3>4. ASSUME \A a, b \in DOMAIN f : Shows(f, id, a) /\ Shows(f, id, b) => a = b, NEW c, NEW a
          PROVE  Shows(g, c, a) <=> (Shows(f, c, a) /\ c # id)
      <4>1. Shows(f, id, a) => a = ip
        BY <2>2, <3>4 DEF Shows
      <4>2. Shows(f, c, ip) => c = id
        BY <3>2 DEF Shows
      <4> QED BY <3>3, <4>1, <4>2 DEF Shows
    <3>5. /\ (\A a \in DOMAIN f : f[a] # {}) => \A a \in DOMAIN g : g[a] # {}
          /\ DOMAIN g \subseteq DOMAIN f /\ \A a \in DOMAIN g : g[a] \subseteq f[a]
      BY <3>3
    <3> QED BY <3>4, <3>5 DEF g
  <2> QED BY <2>4, <2>5
<1>3. CASE Cardinality(A) # 1
  <2>1. g = f
    BY <1>3 DEF RemoveClient
  <2>2. ASSUME \A a, b \in DOMAIN f : Shows(f, id, a) /\ Shows(f, id, b) => a = b, NEW a, Shows(f, id, a)
        PROVE  FALSE
    <3>1. A = {a}
      BY <1>1, <2>2 DEF Shows
    <3> QED BY <1>3, <3>1, FS_Singleton
  <2> QED BY <2>1, <2>2
<1> QED BY <1>2, <1>3

------------------------------------------------------------------------------
(* What becomes of a table when the first message is gone, when that message *)
(* has told it of a connection, and when one more is sent.                   *)
LEMMA BecomesBehind ==
  ASSUME NEW d, IsList(d), d # <<>>, NEW cn, NEW n, NEW gone, NEW f, NEW q \in Nat,
         Becomes(d, cn, n, gone, f, q + 1)
  PROVE  Becomes(Tail(d), cn, n, gone, f, q)
<1> DEFINE t == Tail(d)
<1>1. /\ Len(d) \in Nat \ {0} /\ DOMAIN t = 1 .. Len(d) - 1 /\ DOMAIN d = 1 .. Len(d)
      /\ \A i \in 1 .. Len(d) - 1 : t[i] = d[i + 1] /\ i + 1 \in DOMAIN d
  BY FirstGone
<1> HIDE DEF t
<1>2. ASSUME NEW i \in DOMAIN d, q + 1 < i
      PROVE  i - 1 \in DOMAIN t /\ t[i - 1] = d[i] /\ q < i - 1
  <2>1. i - 1 \in 1 .. Len(d) - 1 /\ (i - 1) + 1 = i /\ q < i - 1
    BY <1>1, <1>2
  <2> QED BY <1>1, <2>1
<1>3. ASSUME NEW i \in DOMAIN t, q < i PROVE i + 1 \in DOMAIN d /\ t[i] = d[i + 1] /\ q + 1 < i + 1
  BY <1>1, <1>3
<1>4. ASSUME NEW c, NEW i \in DOMAIN d, q + 1 < i
      PROVE  /\ Opened(d, i, c) => \E j \in DOMAIN t : q < j /\ Opened(t, j, c)
             /\ Closed(d, i, c) => \E j \in DOMAIN t : q < j /\ Closed(t, j, c)
  BY <1>2, <1>4 DEF Opened, Closed
<1>5. ASSUME NEW c, NEW i \in DOMAIN t, q < i, Opened(t, i, c), NEW ip,
             \A j \in DOMAIN d : (q + 1 < j /\ Opened(d, j, c)) => d[j].ip = ip
      PROVE  t[i].ip = ip
  BY <1>3, <1>5 DEF Opened
<1>6. \A c \in DOMAIN cn : Shows(f, c, cn[c]) \/ \E i \in DOMAIN t : q < i /\ Opened(t, i, c)
  BY <1>4 DEF Becomes
<1>7. ASSUME NEW c \in 1 .. n, NEW ip \in Addresses, Shows(f, c, ip)
      PROVE  /\ c \in DOMAIN cn => ip = cn[c]
             /\ (c \notin DOMAIN cn /\ c \notin gone) => \E i \in DOMAIN t : q < i /\ Closed(t, i, c)
             /\ \A a \in Addresses : Shows(f, c, a) => a = ip
             /\ \A i \in DOMAIN t : (q < i /\ Opened(t, i, c)) => t[i].ip = ip
  <2>1. /\ c \in DOMAIN cn => ip = cn[c]
        /\ (c \notin DOMAIN cn /\ c \notin gone) => \E i \in DOMAIN d : q + 1 < i /\ Closed(d, i, c)
        /\ \A a \in Addresses : Shows(f, c, a) => a = ip
        /\ \A i \in DOMAIN d : (q + 1 < i /\ Opened(d, i, c)) => d[i].ip = ip
    BY <1>7 DEF Becomes
  <2>2. \A i \in DOMAIN t : (q < i /\ Opened(t, i, c)) => t[i].ip = ip
    BY <1>5, <2>1
  <2> QED BY <1>4, <2>1, <2>2
<1>8. Becomes(t, cn, n, gone, f, q)
  BY <1>6, <1>7 DEF Becomes
<1> QED BY <1>8 DEF t

LEMMA BecomesTold ==
  ASSUME NEW d, IsList(d), d # <<>>, NEW cn, NEW n \in Nat, NEW gone, NEW f,
         Becomes(d, cn, n, gone, f, 0),
         d[1].what = "newclient", NEW id, NEW ip, id = d[1].id, ip = d[1].ip,
         id \in 1 .. n, ip \in Addresses,
         id \in DOMAIN cn => ip = cn[id],
         (id \notin DOMAIN cn /\ id \notin gone) => \E j \in DOMAIN d : 1 < j /\ Closed(d, j, id),
         \A j \in DOMAIN d : Opened(d, j, id) => d[j].ip = ip
  PROVE  Becomes(d, cn, n, gone, AddClient(f, id, ip), 1)
<1> DEFINE g == AddClient(f, id, ip)
<1>1. \A c, a : Shows(g, c, a) <=> (Shows(f, c, a) \/ (c = id /\ a = ip))
  BY AddedShows
<1>2. DOMAIN d = 1 .. Len(d) /\ Len(d) \in Nat /\ 1 \in DOMAIN d
  BY FirstGone
<1> HIDE DEF g
<1>3. \A i \in DOMAIN d : 0 < i /\ (i = 1 \/ 1 < i)
  BY <1>2
<1>4. ASSUME NEW c \in DOMAIN cn
      PROVE  Shows(g, c, cn[c]) \/ \E i \in DOMAIN d : 1 < i /\ Opened(d, i, c)
  <2>1. Shows(f, c, cn[c]) \/ \E i \in DOMAIN d : 0 < i /\ Opened(d, i, c)
    BY DEF Becomes
  <2> QED BY <1>1, <1>3, <2>1 DEF Opened
<1>5. Opened(d, 1, id) /\ \A c : ~ Closed(d, 1, c)
  BY DEF Opened, Closed
<1>6. ASSUME NEW c \in 1 .. n, NEW a \in Addresses, Shows(f, c, a)
      PROVE  /\ c \in DOMAIN cn => a = cn[c]
             /\ (c \notin DOMAIN cn /\ c \notin gone) => \E i \in DOMAIN d : 1 < i /\ Closed(d, i, c)
             /\ \A b \in Addresses : Shows(f, c, b) => b = a
             /\ \A i \in DOMAIN d : Opened(d, i, c) => d[i].ip = a
  <2>1. /\ c \in DOMAIN cn => a = cn[c]
        /\ (c \notin DOMAIN cn /\ c \notin gone) => \E i \in DOMAIN d : 0 < i /\ Closed(d, i, c)
        /\ \A b \in Addresses : Shows(f, c, b) => b = a
        /\ \A i \in DOMAIN d : (0 < i /\ Opened(d, i, c)) => d[i].ip = a
    BY <1>6 DEF Becomes
  <2> QED BY <1>3, <1>5, <2>1
<1>7. ASSUME NEW c \in 1 .. n, NEW a \in Addresses, Shows(g, c, a)
      PROVE  /\ c \in DOMAIN cn => a = cn[c]
             /\ (c \notin DOMAIN cn /\ c \notin gone) => \E i \in DOMAIN d : 1 < i /\ Closed(d, i, c)
             /\ \A b \in Addresses : Shows(g, c, b) => b = a
             /\ \A i \in DOMAIN d : (1 < i /\ Opened(d, i, c)) => d[i].ip = a
  <2>1. CASE Shows(f, c, a)
    <3>1. c = id => ip = a
      BY <1>2, <1>5, <1>6, <2>1
    <3> QED BY <1>1, <1>6, <2>1, <3>1
  <2>2. CASE c = id /\ a = ip
    <3>1. \A b \in Addresses : Shows(f, id, b) => b = ip
      BY <1>2, <1>5, <1>6
    <3> QED BY <1>1, <2>2, <3>1
  <2> QED BY <1>1, <1>7, <2>1, <2>2
<1>8. Becomes(d, cn, n, gone, g, 1)
  BY <1>4, <1>7 DEF Becomes
<1> QED BY <1>8 DEF g

LEMMA BecomesTorn ==
  ASSUME NEW d, IsList(d), d # <<>>, NEW cn, NEW n \in Nat, NEW gone, NEW f,
         Becomes(d, cn, n, gone, f, 0), DOMAIN f \subseteq Addresses,
         \A a \in DOMAIN f : f[a] \subseteq 1 .. n,
         d[1].what = "delclient", NEW id, id = d[1].id, id \in 1 .. n \ DOMAIN cn
  PROVE  Becomes(d, cn, n, gone, RemoveClient(f, id), 1)
<1> DEFINE g == RemoveClient(f, id)
<1>1. \A a, b \in DOMAIN f : Shows(f, id, a) /\ Shows(f, id, b) => a = b
  BY DEF Becomes
<1>2. \A c, a : Shows(g, c, a) <=> (Shows(f, c, a) /\ c # id)
  BY <1>1, RemovedShows
<1>3. DOMAIN d = 1 .. Len(d) /\ Len(d) \in Nat /\ 1 \in DOMAIN d
  BY FirstGone
<1> HIDE DEF g
<1>4. \A i \in DOMAIN d : 0 < i /\ (i = 1 \/ 1 < i)
  BY <1>3
<1>5. \A c : ~ Opened(d, 1, c) /\ (Closed(d, 1, c) => c = id)
  BY DEF Opened, Closed
<1>6. ASSUME NEW c \in DOMAIN cn
      PROVE  Shows(g, c, cn[c]) \/ \E i \in DOMAIN d : 1 < i /\ Opened(d, i, c)
  <2>1. Shows(f, c, cn[c]) \/ \E i \in DOMAIN d : 0 < i /\ Opened(d, i, c)
    BY DEF Becomes
  <2> QED BY <1>2, <1>4, <1>5, <2>1
<1>7. ASSUME NEW c \in 1 .. n, NEW a \in Addresses, Shows(g, c, a)
      PROVE  /\ c \in DOMAIN cn => a = cn[c]
             /\ (c \notin DOMAIN cn /\ c \notin gone) => \E i \in DOMAIN d : 1 < i /\ Closed(d, i, c)
             /\ \A b \in Addresses : Shows(g, c, b) => b = a
             /\ \A i \in DOMAIN d : (1 < i /\ Opened(d, i, c)) => d[i].ip = a
  <2>1. Shows(f, c, a) /\ c # id
    BY <1>2, <1>7
  <2>2. /\ c \in DOMAIN cn => a = cn[c]
        /\ (c \notin DOMAIN cn /\ c \notin gone) => \E i \in DOMAIN d : 0 < i /\ Closed(d, i, c)
        /\ \A b \in Addresses : Shows(f, c, b) => b = a
        /\ \A i \in DOMAIN d : (0 < i /\ Opened(d, i, c)) => d[i].ip = a
    BY <2>1 DEF Becomes
  <2> QED BY <1>2, <1>4, <1>5, <2>1, <2>2
<1>8. Becomes(d, cn, n, gone, g, 1)
  BY <1>6, <1>7 DEF Becomes
<1> QED BY <1>8 DEF g

LEMMA BecomesOpening ==
  ASSUME NEW d, IsList(d), NEW cn, NEW n \in Nat, NEW gone, NEW f, NEW q \in 0 .. Len(d),
         Becomes(d, cn, n, gone, f, q), DOMAIN cn \subseteq 1 .. n,
         \A a \in DOMAIN f : f[a] \subseteq 1 .. n,
         NEW m, m.what = "newclient", m.id = n + 1, NEW a0
  PROVE  Becomes(Append(d, m), With(cn, n + 1, a0), n + 1, gone, f, q)
<1> DEFINE e == Append(d, m)
           w == With(cn, n + 1, a0)
<1>1. /\ Len(d) \in Nat /\ DOMAIN e = 1 .. Len(d) + 1 /\ DOMAIN d = 1 .. Len(d)
      /\ \A i \in 1 .. Len(d) : e[i] = d[i]
      /\ e[Len(d) + 1] = m
  BY PutBehind
<1>2. DOMAIN w = DOMAIN cn \cup {n + 1} /\ \A c \in DOMAIN cn : w[c] = cn[c]
  <2>1. \A c \in DOMAIN cn : c # n + 1
    OBVIOUS
  <2> QED BY <2>1 DEF With
<1> HIDE DEF e, w
<1>3. /\ \A i \in DOMAIN d : i \in DOMAIN e /\ e[i] = d[i]
      /\ \A i \in DOMAIN e : i \in DOMAIN d \/ i = Len(d) + 1
      /\ Len(d) + 1 \in DOMAIN e /\ q < Len(d) + 1
  BY <1>1
<1>4. ASSUME NEW c \in DOMAIN w PROVE Shows(f, c, w[c]) \/ \E i \in DOMAIN e : q < i /\ Opened(e, i, c)
  <2>1. CASE c = n + 1
    BY <1>1, <1>3, <2>1 DEF Opened
  <2>2. CASE c # n + 1
    BY <1>2, <1>3, <2>2 DEF Becomes, Opened
  <2> QED BY <2>1, <2>2
<1>5. ASSUME NEW c \in 1 .. n + 1, NEW ip \in Addresses, Shows(f, c, ip)
      PROVE  /\ c \in DOMAIN w => ip = w[c]
             /\ (c \notin DOMAIN w /\ c \notin gone) => \E i \in DOMAIN e : q < i /\ Closed(e, i, c)
             /\ \A a \in Addresses : Shows(f, c, a) => a = ip
             /\ \A i \in DOMAIN e : (q < i /\ Opened(e, i, c)) => e[i].ip = ip
  <2>1. c \in 1 .. n /\ c # n + 1
    BY <1>5 DEF Shows
  <2>2. /\ c \in DOMAIN cn => ip = cn[c]
        /\ (c \notin DOMAIN cn /\ c \notin gone) => \E i \in DOMAIN d : q < i /\ Closed(d, i, c)
        /\ \A a \in Addresses : Shows(f, c, a) => a = ip
        /\ \A i \in DOMAIN d : (q < i /\ Opened(d, i, c)) => d[i].ip = ip
    BY <1>5, <2>1 DEF Becomes
  <2>3. \A i \in DOMAIN e : (q < i /\ Opened(e, i, c)) => e[i].ip = ip
    BY <1>1, <1>3, <2>1, <2>2 DEF Opened
  <2>4. (c \notin DOMAIN w /\ c \notin gone) => \E i \in DOMAIN e : q < i /\ Closed(e, i, c)
    BY <1>2, <1>3, <2>2 DEF Closed
  <2> QED BY <1>2, <2>1, <2>2, <2>3, <2>4
<1>6. Becomes(e, w, n + 1, gone, f, q)
  BY <1>4, <1>5 DEF Becomes
<1> QED BY <1>6 DEF e, w

LEMMA BecomesClosing ==
  ASSUME NEW d, IsList(d), NEW cn, NEW n \in Nat, NEW gone, NEW f, NEW q \in 0 .. Len(d),
         Becomes(d, cn, n, gone, f, q),
         NEW m, NEW c0, m.what = "delclient", m.id = c0
  PROVE  Becomes(Append(d, m), Without(cn, c0), n, gone, f, q)
<1> DEFINE e == Append(d, m)
           w == Without(cn, c0)
<1>1. /\ Len(d) \in Nat /\ DOMAIN e = 1 .. Len(d) + 1 /\ DOMAIN d = 1 .. Len(d)
      /\ \A i \in 1 .. Len(d) : e[i] = d[i]
      /\ e[Len(d) + 1] = m
  BY PutBehind
<1>2. DOMAIN w = DOMAIN cn \ {c0} /\ \A c \in DOMAIN w : w[c] = cn[c]
  BY DEF Without
<1> HIDE DEF e, w
<1>3. /\ \A i \in DOMAIN d : i \in DOMAIN e /\ e[i] = d[i]
      /\ \A i \in DOMAIN e : i \in DOMAIN d \/ i = Len(d) + 1
      /\ Len(d) + 1 \in DOMAIN e /\ q < Len(d) + 1
  BY <1>1
<1>4. ASSUME NEW c \in DOMAIN w PROVE Shows(f, c, w[c]) \/ \E i \in DOMAIN e : q < i /\ Opened(e, i, c)
  BY <1>2, <1>3 DEF Becomes, Opened
<1>5. ASSUME NEW c \in 1 .. n, NEW ip \in Addresses, Shows(f, c, ip)
      PROVE  /\ c \in DOMAIN w => ip = w[c]
             /\ (c \notin DOMAIN w /\ c \notin gone) => \E i \in DOMAIN e : q < i /\ Closed(e, i, c)
             /\ \A a \in Addresses : Shows(f, c, a) => a = ip
             /\ \A i \in DOMAIN e : (q < i /\ Opened(e, i, c)) => e[i].ip = ip
  <2>2. /\ c \in DOMAIN cn => ip = cn[c]
        /\ (c \notin DOMAIN cn /\ c \notin gone) => \E i \in DOMAIN d : q < i /\ Closed(d, i, c)
        /\ \A a \in Addresses : Shows(f, c, a) => a = ip
        /\ \A i \in DOMAIN d : (q < i /\ Opened(d, i, c)) => d[i].ip = ip
    BY <1>5 DEF Becomes
  <2>3. \A i \in DOMAIN e : (q < i /\ Opened(e, i, c)) => e[i].ip = ip
    BY <1>1, <1>3, <2>2 DEF Opened
  <2>4. ASSUME c \notin DOMAIN w, c \notin gone PROVE \E i \in DOMAIN e : q < i /\ Closed(e, i, c)
    <3>1. CASE c = c0
      BY <1>1, <1>3, <3>1 DEF Closed
    <3>2. CASE c # c0
      BY <1>2, <1>3, <2>2, <2>4, <3>2 DEF Closed
    <3> QED BY <3>1, <3>2
  <2> QED BY <1>2, <2>2, <2>3, <2>4
<1>6. Becomes(e, w, n, gone, f, q)
  BY <1>4, <1>5 DEF Becomes
<1> QED BY <1>6 DEF e, w

LEMMA ClientsInitSound ==
  ASSUME ClientsInit, up = ClientsCalls, down = <<>>
  PROVE  ClientsInv
<1> DEFINE a == [what |-> "follow", e |-> "newclient"]  b == [what |-> "follow", e |-> "delclient"]
           l == [what |-> "clients"]
           s == <<a, b>>  t == s \o <<l>>
<1> DEFINE o == <<l>>  B == {a, b, l}
<1>1. /\ s \in Seq(B) /\ Len(s) = 2 /\ s[1] = a /\ s[2] = b
      /\ o \in Seq(B) /\ Len(o) = 1 /\ o[1] = l
  OBVIOUS
<1>2. up = t \o s /\ t = s \o o
  BY DEF ClientsCalls, WatchClients
<1>3. /\ a.what = "follow" /\ a.e = "newclient" /\ b.what = "follow" /\ b.e = "delclient"
      /\ l.what = "clients"
  OBVIOUS
<1> HIDE DEF s, o, a, b, l, B, t
<1>4. t \in Seq(B) /\ Len(t) = 3 /\ t[1] = a /\ t[2] = b /\ t[3] = l
  <2>1. /\ t \in Seq(B) /\ Len(t) = Len(s) + Len(o)
        /\ \A i \in 1 .. Len(s) + Len(o) : t[i] = IF i <= Len(s) THEN s[i] ELSE o[i - Len(s)]
    BY <1>1, <1>2, ConcatProperties
  <2> QED BY <1>1, <2>1
<1>5. IsList(up) /\ Len(up) = 5 /\ DOMAIN up = 1 .. 5
      /\ up[1] = a /\ up[2] = b /\ up[3] = l /\ up[4] = a /\ up[5] = b
  <2>1. up \in Seq(B) /\ Len(up) = 5
        /\ up[1] = a /\ up[2] = b /\ up[3] = l /\ up[4] = a /\ up[5] = b
    <3>1. /\ up \in Seq(B) /\ Len(up) = Len(t) + Len(s)
          /\ \A i \in 1 .. Len(t) + Len(s) : up[i] = IF i <= Len(t) THEN t[i] ELSE s[i - Len(t)]
      BY <1>1, <1>2, <1>4, ConcatProperties, SMTT(20)
    <3> QED BY <1>1, <1>4, <3>1
  <2> QED BY <2>1, ListedIs, LenProperties
<1>6. IsList(down) /\ DOMAIN down = {} /\ down = <<>>
  <2>1. down \in Seq({a}) /\ DOMAIN down = {}
    BY EmptySeq
  <2> QED BY <2>1, ListedIs
<1> HIDE DEF IsList
<1>7. Subscribing
  BY <1>3, <1>5, <1>6 DEF Subscribing, ClientsInit
<1>8. OpeningsRight /\ ClosingsRight /\ ListsRight /\ ListBecomes /\ TableBecomes
  BY <1>5, <1>6 DEF OpeningsRight, ClosingsRight, ListsRight, ListBecomes, TableBecomes
<1>9. ClientsViewTypeOK /\ NoneEmpty /\ EscapedGone
  <2>1. PICK x \in Addresses : connections = [c \in {1} |-> x]
    BY DEF ClientsInit
  <2>2. DOMAIN clients = {} /\ identifiers = 1 /\ following = {} /\ escaped = {} /\ 1 \in 1 .. MaxConnections
    BY ClientsAssumption, EmptySeq DEF ClientsInit
  <2>3. Range(connections) \subseteq Addresses
    BY <2>1 DEF Range
  <2> QED BY <2>1, <2>2, <2>3 DEF ClientsViewTypeOK, NoneEmpty, EscapedGone
<1> QED BY <1>6, <1>7, <1>8, <1>9 DEF ClientsInv

(* What comes from the server.                                               *)
LEMMA ClientsMessageGone ==
  ASSUME ClientsInv, down # <<>>, Got, UNCHANGED <<up, connections, identifiers, following, escaped>>
  PROVE  /\ IsList(down') /\ Subscribing' /\ OpeningsRight' /\ ClosingsRight' /\ ListsRight'
         /\ ListBecomes' /\ EscapedGone'
         /\ \A i \in DOMAIN down' : ListIs(i)' <=> ListIs(i + 1)
         /\ \A i \in DOMAIN down : i = 1 \/ (i - 1 \in DOMAIN down' /\ (ListIs(i - 1)' <=> ListIs(i)))
<1> USE DEF ClientsInv
<1>1. /\ IsList(down') /\ Len(down) \in Nat \ {0} /\ down' = Tail(down)
      /\ DOMAIN down' = 1 .. Len(down) - 1 /\ DOMAIN down = 1 .. Len(down)
      /\ \A i \in 1 .. Len(down) - 1 : down'[i] = down[i + 1] /\ i + 1 \in DOMAIN down
  BY FirstGone DEF Got
<1>2. \A i \in DOMAIN down' : i + 1 \in DOMAIN down /\ down'[i] = down[i + 1] /\ i \in Nat
  BY <1>1
<1>3. ASSUME NEW i \in DOMAIN down, i # 1 PROVE i - 1 \in DOMAIN down' /\ down'[i - 1] = down[i]
  <2>1. i - 1 \in 1 .. Len(down) - 1 /\ (i - 1) + 1 = i
    BY <1>1, <1>3
  <2> QED BY <1>1, <2>1
<1>4. Subscribing'
  BY DEF Subscribing
<1>5. ASSUME NEW i \in DOMAIN down', down'[i].what = "newclient"
      PROVE  LET c == down'[i].id
             IN /\ c \in 1 .. identifiers /\ down'[i].ip \in Addresses
                /\ c \in DOMAIN connections => down'[i].ip = connections[c]
                /\ (c \notin DOMAIN connections /\ c \notin escaped) =>
                     \E j \in DOMAIN down' : i < j /\ Closed(down', j, c)
                /\ \A j \in DOMAIN down' : /\ Opened(down', j, c) => down'[j].ip = down'[i].ip
                                           /\ Closed(down', j, c) => i < j
  <2> DEFINE c == down[i + 1].id
  <2>1. i + 1 \in DOMAIN down /\ down'[i] = down[i + 1] /\ down[i + 1].what = "newclient" /\ i \in Nat
    BY <1>2, <1>5
  <2>2. /\ c \in 1 .. identifiers /\ down[i + 1].ip \in Addresses
        /\ c \in DOMAIN connections => down[i + 1].ip = connections[c]
        /\ (c \notin DOMAIN connections /\ c \notin escaped) =>
             \E j \in DOMAIN down : i + 1 < j /\ Closed(down, j, c)
        /\ \A j \in DOMAIN down : /\ Opened(down, j, c) => down[j].ip = down[i + 1].ip
                                  /\ Closed(down, j, c) => i + 1 < j
    BY <2>1 DEF OpeningsRight
  <2> HIDE DEF c
  <2>3. ASSUME NEW j \in DOMAIN down, i + 1 < j, Closed(down, j, c)
        PROVE  \E k \in DOMAIN down' : i < k /\ Closed(down', k, c)
    <3>1. j # 1 /\ i < j - 1
      BY <1>1, <2>1, <2>3
    <3> QED BY <1>3, <2>3, <3>1 DEF Closed
  <2>4. ASSUME NEW j \in DOMAIN down'
        PROVE  /\ Opened(down', j, c) => down'[j].ip = down'[i].ip
               /\ Closed(down', j, c) => i < j
    <3>1. j + 1 \in DOMAIN down /\ down'[j] = down[j + 1] /\ j \in Nat
      BY <1>2
    <3>2. /\ Opened(down, j + 1, c) => down[j + 1].ip = down[i + 1].ip
          /\ Closed(down, j + 1, c) => i + 1 < j + 1
      BY <2>2, <3>1
    <3> QED BY <2>1, <3>1, <3>2 DEF Opened, Closed
  <2>5. c = down'[i].id /\ down'[i].ip = down[i + 1].ip
    BY <2>1 DEF c
  <2> QED BY <2>2, <2>3, <2>4, <2>5
<1>6. OpeningsRight'
  BY <1>5 DEF OpeningsRight
<1>7. ClosingsRight'
  BY <1>2 DEF ClosingsRight
<1>8. ListsRight'
  <2>1. ASSUME NEW i \in DOMAIN down', ListIs(i)', NEW j \in DOMAIN down', ListIs(j)' PROVE i = j
    <3>1. ListIs(i + 1) /\ ListIs(j + 1) /\ i + 1 \in DOMAIN down /\ j + 1 \in DOMAIN down
          /\ i \in Nat /\ j \in Nat
      BY <1>2, <2>1 DEF ListIs
    <3>2. i + 1 = j + 1
      BY <3>1 DEF ListsRight
    <3> QED BY <3>1, <3>2
  <2>2. ASSUME NEW i \in DOMAIN down', ListIs(i)'
        PROVE  DOMAIN down'[i].cs \subseteq 1 .. identifiers' /\ Range(down'[i].cs) \subseteq Addresses
               /\ Len(up') < 3
    BY <1>2, <2>2 DEF ListsRight, ListIs
  <2> QED BY <2>1, <2>2 DEF ListsRight
<1>9. ListBecomes'
  <2> SUFFICES ASSUME NEW i \in DOMAIN down', ListIs(i)'
               PROVE  Becomes(down', connections, identifiers, escaped, TableOf(down'[i].cs), i)
    BY DEF ListBecomes
  <2>1. i + 1 \in DOMAIN down /\ ListIs(i + 1) /\ down'[i] = down[i + 1] /\ i \in Nat
    BY <1>2 DEF ListIs
  <2>2. Becomes(down, connections, identifiers, escaped, TableOf(down[i + 1].cs), i + 1)
    BY <2>1 DEF ListBecomes
  <2>3. Becomes(Tail(down), connections, identifiers, escaped, TableOf(down[i + 1].cs), i)
    BY <2>1, <2>2, BecomesBehind
  <2> QED BY <1>1, <2>1, <2>3
<1>10. \A i \in DOMAIN down' : ListIs(i)' <=> ListIs(i + 1)
  BY <1>2 DEF ListIs
<1>11. \A i \in DOMAIN down : i = 1 \/ (i - 1 \in DOMAIN down' /\ (ListIs(i - 1)' <=> ListIs(i)))
  BY <1>3 DEF ListIs
<1>12. EscapedGone'
  BY DEF EscapedGone
<1> QED BY <1>1, <1>4, <1>6, <1>7, <1>8, <1>9, <1>10, <1>11, <1>12

(* The table at the list, and at an event.                                   *)
LEMMA ClientListSound == ASSUME ClientsInv, ClientListArrives PROVE ClientsInv'
<1> USE DEF ClientsInv
<1> DEFINE cs == Head(down).cs
<1>1. /\ down # <<>> /\ Head(down).what = "clients" /\ Got
      /\ clients' = TableOf(cs)
      /\ UNCHANGED <<up, connections, identifiers, following, escaped>>
  BY DEF ClientListArrives, Getting, TableOf
<1>2. /\ IsList(down') /\ Subscribing' /\ OpeningsRight' /\ ClosingsRight' /\ ListsRight'
      /\ ListBecomes' /\ EscapedGone'
  BY <1>1, ClientsMessageGone
<1>3. Head(down) = down[1] /\ 1 \in DOMAIN down /\ ListIs(1)
  BY <1>1, FirstGone DEF ListIs
<1>4. DOMAIN cs \subseteq 1 .. identifiers /\ Range(cs) \subseteq Addresses
  BY <1>3 DEF ListsRight
<1>5. Becomes(Tail(down), connections, identifiers, escaped, TableOf(cs), 0)
  <2>1. Becomes(down, connections, identifiers, escaped, TableOf(cs), 0 + 1)
    BY <1>3 DEF ListBecomes
  <2> QED BY <1>1, <2>1, BecomesBehind
<1>6. TableBecomes'
  BY <1>1, <1>5 DEF TableBecomes, Got
<1>7. NoneEmpty' /\ DOMAIN clients' \subseteq Addresses /\ \A ip \in DOMAIN clients' : clients'[ip] \subseteq 1 .. identifiers
  <2> HIDE DEF cs
  <2>1. /\ DOMAIN clients' = Range(cs)
        /\ \A ip \in DOMAIN clients' : clients'[ip] = {c \in DOMAIN cs : cs[c] = ip}
    BY <1>1 DEF TableOf
  <2> QED BY <1>4, <2>1 DEF NoneEmpty, Range
<1>8. ClientsViewTypeOK'
  BY <1>1, <1>7 DEF ClientsViewTypeOK
<1> QED BY <1>2, <1>6, <1>7, <1>8 DEF ClientsInv

LEMMA ClientEventSound == ASSUME ClientsInv, ClientEventArrives PROVE ClientsInv'
<1> USE DEF ClientsInv
<1> DEFINE m == Head(down)
<1>1. /\ down # <<>> /\ Got
      /\ UNCHANGED <<up, connections, identifiers, following, escaped>>
      /\ \/ m.what = "newclient" /\ clients' = AddClient(clients, m.id, m.ip)
         \/ m.what = "delclient" /\ clients' = RemoveClient(clients, m.id)
  BY DEF ClientEventArrives, Getting
<1>2. /\ IsList(down') /\ Subscribing' /\ OpeningsRight' /\ ClosingsRight' /\ ListsRight'
      /\ ListBecomes' /\ EscapedGone'
      /\ \A i \in DOMAIN down : i = 1 \/ (i - 1 \in DOMAIN down' /\ (ListIs(i - 1)' <=> ListIs(i)))
  BY <1>1, ClientsMessageGone
<1>3. m = down[1] /\ 1 \in DOMAIN down /\ ~ ListIs(1) /\ down' = Tail(down)
  BY <1>1, FirstGone DEF ListIs, Got
<1> HIDE DEF m
<1>4. identifiers \in Nat /\ identifiers' = identifiers
  BY <1>1 DEF ClientsViewTypeOK
<1>5. ASSUME Len(up) < 3, \A i \in DOMAIN down' : ~ ListIs(i)'
      PROVE  Becomes(down, connections, identifiers, escaped, clients, 0)
  <2>1. \A i \in DOMAIN down : ~ ListIs(i)
    BY <1>2, <1>3, <1>5
  <2> QED BY <1>5, <2>1 DEF TableBecomes
<1>6. CASE m.what = "newclient" /\ clients' = AddClient(clients, m.id, m.ip)
  <2>1. /\ m.id \in 1 .. identifiers /\ m.ip \in Addresses
        /\ m.id \in DOMAIN connections => m.ip = connections[m.id]
        /\ (m.id \notin DOMAIN connections /\ m.id \notin escaped) =>
             \E j \in DOMAIN down : 1 < j /\ Closed(down, j, m.id)
        /\ \A j \in DOMAIN down : Opened(down, j, m.id) => down[j].ip = m.ip
    BY <1>3, <1>6 DEF OpeningsRight
  <2>2. ASSUME Len(up) < 3, \A i \in DOMAIN down' : ~ ListIs(i)'
        PROVE  Becomes(down', connections, identifiers, escaped, clients', 0)
    <3>1. Becomes(down, connections, identifiers, escaped, clients', 0 + 1)
      BY <1>1, <1>3, <1>4, <1>5, <1>6, <2>1, <2>2, BecomesTold, SMTT(20)
    <3> QED BY <1>1, <1>3, <3>1, BecomesBehind
  <2>3. TableBecomes'
    BY <1>1, <2>2 DEF TableBecomes
  <2>4. \A a \in DOMAIN clients : clients[a] \subseteq 1 .. identifiers /\ clients[a] # {}
    BY DEF ClientsViewTypeOK, NoneEmpty
  <2>5. /\ DOMAIN clients' \subseteq Addresses
        /\ \A a \in DOMAIN clients' : clients'[a] \subseteq 1 .. identifiers /\ clients'[a] # {}
    <3>1. DOMAIN clients \subseteq Addresses /\ m.ip \in Addresses /\ m.id \in 1 .. identifiers
      BY <2>1 DEF ClientsViewTypeOK
    <3>2. /\ DOMAIN AddClient(clients, m.id, m.ip) \subseteq Addresses
          /\ \A a \in DOMAIN AddClient(clients, m.id, m.ip) :
               /\ AddClient(clients, m.id, m.ip)[a] \subseteq 1 .. identifiers
               /\ AddClient(clients, m.id, m.ip)[a] # {}
      BY <2>4, <3>1, AddedKeeps
    <3> QED BY <1>6, <3>2
  <2> QED BY <1>1, <1>2, <2>3, <2>5 DEF ClientsViewTypeOK, NoneEmpty
<1>7. CASE m.what = "delclient" /\ clients' = RemoveClient(clients, m.id)
  <2>1. m.id \in 1 .. identifiers \ DOMAIN connections
    BY <1>3, <1>7 DEF ClosingsRight
  <2>2. DOMAIN clients \subseteq Addresses /\ \A a \in DOMAIN clients : clients[a] \subseteq 1 .. identifiers
    BY DEF ClientsViewTypeOK
  <2>3. ASSUME Len(up) < 3, \A i \in DOMAIN down' : ~ ListIs(i)'
        PROVE  Becomes(down', connections, identifiers, escaped, clients', 0)
    <3>1. Becomes(down, connections, identifiers, escaped, clients', 0 + 1)
      BY <1>1, <1>3, <1>4, <1>5, <1>7, <2>1, <2>2, <2>3, BecomesTorn
    <3> QED BY <1>1, <1>3, <3>1, BecomesBehind
  <2>4. TableBecomes'
    BY <1>1, <2>3 DEF TableBecomes
  <2>5. /\ (\A a \in DOMAIN clients : clients[a] # {}) => \A a \in DOMAIN clients' : clients'[a] # {}
        /\ DOMAIN clients' \subseteq DOMAIN clients /\ \A a \in DOMAIN clients' : clients'[a] \subseteq clients[a]
    BY <1>4, <1>7, <2>2, RemovedShows
  <2>6. NoneEmpty'
    BY <2>5 DEF NoneEmpty
  <2>7. ClientsViewTypeOK'
    BY <1>1, <2>2, <2>5 DEF ClientsViewTypeOK
  <2> QED BY <1>2, <2>4, <2>6, <2>7
<1> QED BY <1>1, <1>6, <1>7

(* Connections that are opened and closed.                                   *)
LEMMA FollowedWhen ==
  ASSUME ClientsInv
  PROVE  /\ Len(up) \in Nat /\ DOMAIN up = 1 .. Len(up)
         /\ "newclient" \in following <=> Len(up) < 5
         /\ "delclient" \in following <=> Len(up) < 4
         /\ following = {"newclient"} <=> Len(up) = 4
         /\ "newclient" \notin following => down = <<>> /\ DOMAIN down = {}
<1>1. Len(up) \in Nat /\ Len(up) <= 5 /\ DOMAIN up = 1 .. Len(up)
  BY ListedFacts DEF Subscribing, ClientsInv
<1>2. following = IF Len(up) = 5 THEN {} ELSE IF Len(up) = 4 THEN {"newclient"} ELSE {"newclient", "delclient"}
  BY DEF Subscribing, ClientsInv
<1>3. following = {} => down = <<>> /\ DOMAIN down = {}
  <2>1. following = {} => down = <<>>
    BY DEF Subscribing, ClientsInv
  <2>2. down = <<>> => DOMAIN down = {}
    BY EmptySeq
  <2> QED BY <2>1, <2>2
<1>4. PICK n \in 0 .. 5 : n = Len(up)
  BY <1>1
<1>5. following = IF n = 5 THEN {} ELSE IF n = 4 THEN {"newclient"} ELSE {"newclient", "delclient"}
  BY <1>2, <1>4
<1>6. /\ "newclient" \in following <=> n < 5
      /\ "delclient" \in following <=> n < 4
      /\ following = {"newclient"} <=> n = 4
      /\ "newclient" \notin following => following = {}
  <2>1. CASE n = 5
    BY <1>5, <2>1
  <2>2. CASE n = 4
    BY <1>5, <2>2
  <2>3. CASE n # 5 /\ n # 4
    <3>1. n < 4 /\ following = {"newclient", "delclient"}
      BY <1>5, <2>3
    <3> QED BY <3>1
  <2> QED BY <2>1, <2>2, <2>3
<1> QED BY <1>1, <1>3, <1>4, <1>6

LEMMA ClientOpensSound == ASSUME ClientsInv, ClientOpens PROVE ClientsInv'
<1> USE DEF ClientsInv
<1>1. PICK a \in Addresses :
        /\ connections' = With(connections, identifiers + 1, a)
        /\ Emit([what |-> "newclient", id |-> identifiers + 1, ip |-> a])
  BY DEF ClientOpens
<1>2. /\ identifiers < MaxConnections /\ identifiers' = identifiers + 1
      /\ UNCHANGED <<up, following, clients, escaped>>
  BY DEF ClientOpens
<1> DEFINE n == identifiers
           c1 == n + 1
           m == Event([what |-> "newclient", id |-> c1, ip |-> a])
<1>3. /\ n \in Nat /\ c1 \in Nat /\ c1 > n /\ c1 \in 1 .. MaxConnections /\ n' = c1
      /\ DOMAIN connections \subseteq 1 .. n /\ escaped \subseteq 1 .. n /\ 1 .. n \subseteq 1 .. c1
      /\ MaxConnections \in Nat
  BY <1>2, ClientsAssumption DEF ClientsViewTypeOK
<1>4. m.what = "newclient" /\ m.id = c1 /\ m.ip = a
  BY DEF Event
<1>5. /\ "newclient" \in following => down' = Append(down, m)
      /\ "newclient" \notin following => down' = down
  BY <1>1 DEF Emit, Tell
<1>6. DOMAIN connections' = DOMAIN connections \cup {c1} /\ connections'[c1] = a
      /\ \A c \in 1 .. n : /\ c \in DOMAIN connections' <=> c \in DOMAIN connections
                           /\ c \in DOMAIN connections => connections'[c] = connections[c]
                           /\ c # c1
  <2>1. connections' = With(connections, c1, a)
    BY <1>1
  <2>2. \A c \in 1 .. n : c # c1
    BY <1>3
  <2> HIDE DEF c1
  <2> QED BY <2>1, <2>2 DEF With
<1> HIDE DEF m, c1, n
<1>7. ClientsViewTypeOK' /\ NoneEmpty' /\ EscapedGone'
  <2>1. Range(connections') \subseteq Addresses
    BY <1>1, <1>3, <1>6 DEF Range, ClientsViewTypeOK
  <2> QED BY <1>2, <1>3, <1>6, <2>1 DEF ClientsViewTypeOK, NoneEmpty, EscapedGone, n
<1>8. CASE "newclient" \notin following
  <2>1. DOMAIN down' = {} /\ Len(up') = 5 /\ IsList(down')
    BY <1>2, <1>5, <1>8, FollowedWhen DEF Subscribing
  <2>2. Subscribing'
    BY <1>2, <1>5, <1>8 DEF Subscribing
  <2>3. OpeningsRight' /\ ClosingsRight' /\ ListsRight' /\ ListBecomes' /\ TableBecomes'
    BY <2>1 DEF OpeningsRight, ClosingsRight, ListsRight, ListBecomes, TableBecomes
  <2> QED BY <1>7, <2>1, <2>2, <2>3
<1>9. CASE "newclient" \in following
  <2>1. down' = Append(down, m)
    BY <1>5, <1>9
  <2>2. /\ IsList(down') /\ Len(down) \in Nat /\ DOMAIN down' = 1 .. Len(down) + 1 /\ DOMAIN down = 1 .. Len(down)
        /\ \A i \in 1 .. Len(down) : down'[i] = down[i]
        /\ down'[Len(down) + 1] = m
    BY <2>1, PutBehind
  <2>3. /\ \A i \in DOMAIN down : i \in DOMAIN down' /\ down'[i] = down[i]
        /\ \A i \in DOMAIN down' : i \in DOMAIN down \/ (i = Len(down) + 1 /\ down'[i] = m)
        /\ Len(down) + 1 \in DOMAIN down' /\ \A i \in DOMAIN down : i < Len(down) + 1
    BY <2>2
  <2>4. Subscribing'
    BY <1>2, <1>9 DEF Subscribing
  <2>5. \A i \in DOMAIN down : /\ down[i].what = "newclient" => down[i].id \in 1 .. n
                               /\ down[i].what = "delclient" => down[i].id \in 1 .. n
    BY DEF OpeningsRight, ClosingsRight, n
  <2>6. ASSUME NEW i \in DOMAIN down', down'[i].what = "newclient"
        PROVE  LET c == down'[i].id
               IN /\ c \in 1 .. n' /\ down'[i].ip \in Addresses
                  /\ c \in DOMAIN connections' => down'[i].ip = connections'[c]
                  /\ (c \notin DOMAIN connections' /\ c \notin escaped') =>
                       \E j \in DOMAIN down' : i < j /\ Closed(down', j, c)
                  /\ \A j \in DOMAIN down' : /\ Opened(down', j, c) => down'[j].ip = down'[i].ip
                                             /\ Closed(down', j, c) => i < j
    <3> DEFINE c == down'[i].id
    <3>1. CASE i \in DOMAIN down
      <4>1. down'[i] = down[i] /\ c \in 1 .. n /\ c # c1
        BY <1>6, <2>3, <2>5, <2>6, <3>1
      <4>2. /\ c \in 1 .. n /\ down[i].ip \in Addresses
            /\ c \in DOMAIN connections => down[i].ip = connections[c]
            /\ (c \notin DOMAIN connections /\ c \notin escaped) =>
                 \E j \in DOMAIN down : i < j /\ Closed(down, j, c)
            /\ \A j \in DOMAIN down : /\ Opened(down, j, c) => down[j].ip = down[i].ip
                                      /\ Closed(down, j, c) => i < j
        BY <2>6, <3>1, <4>1 DEF OpeningsRight, n
      <4> HIDE DEF c
      <4>3. ASSUME NEW j \in DOMAIN down'
            PROVE  /\ Opened(down', j, c) => down'[j].ip = down'[i].ip
                   /\ Closed(down', j, c) => i < j
        BY <1>4, <2>3, <4>1, <4>2 DEF Opened, Closed
      <4>4. (c \notin DOMAIN connections' /\ c \notin escaped') =>
               \E j \in DOMAIN down' : i < j /\ Closed(down', j, c)
        BY <1>2, <1>6, <2>3, <4>1, <4>2 DEF Closed
      <4>5. c \in DOMAIN connections' => down'[i].ip = connections'[c]
        BY <1>6, <4>1, <4>2
      <4> QED BY <1>3, <4>1, <4>2, <4>3, <4>4, <4>5 DEF c
    <3>2. CASE i \notin DOMAIN down
      <4>1. down'[i] = m /\ c = c1 /\ down'[i].ip = a
        BY <1>4, <2>3, <3>2
      <4> HIDE DEF c
      <4>2. ASSUME NEW j \in DOMAIN down'
            PROVE  /\ Opened(down', j, c) => down'[j].ip = down'[i].ip
                   /\ ~ Closed(down', j, c)
        <5>1. CASE j \in DOMAIN down
          BY <1>6, <2>3, <2>5, <4>1, <5>1 DEF Opened, Closed
        <5>2. CASE j \notin DOMAIN down
          BY <1>4, <2>3, <4>1, <5>2 DEF Opened, Closed
        <5> QED BY <5>1, <5>2
      <4>3. c \in 1 .. n'
        BY <1>3, <4>1
      <4> QED BY <1>1, <1>6, <4>1, <4>2, <4>3 DEF c
    <3> QED BY <3>1, <3>2
  <2>7. OpeningsRight'
    BY <2>6 DEF OpeningsRight, n
  <2>8. ClosingsRight'
    <3> SUFFICES ASSUME NEW i \in DOMAIN down', down'[i].what = "delclient"
                 PROVE  down'[i].id \in 1 .. n' \ DOMAIN connections'
      BY DEF ClosingsRight, n
    <3>1. i \in DOMAIN down /\ down'[i] = down[i]
      BY <1>4, <2>3
    <3>2. down[i].id \in 1 .. n \ DOMAIN connections
      BY <3>1 DEF ClosingsRight, n
    <3> QED BY <1>3, <1>6, <3>1, <3>2
  <2>9. ~ (m.what = "clients")
    BY <1>4
  <2>10. \A i \in DOMAIN down' : ListIs(i)' => i \in DOMAIN down /\ ListIs(i) /\ down'[i] = down[i]
    BY <2>3, <2>9 DEF ListIs
  <2>11. ListsRight'
    <3>1. ASSUME NEW i \in DOMAIN down', ListIs(i)'
          PROVE  /\ DOMAIN down'[i].cs \subseteq 1 .. n' /\ Range(down'[i].cs) \subseteq Addresses
                 /\ Len(up') < 3
                 /\ \A j \in DOMAIN down' : ListIs(j)' => i = j
      <4>1. i \in DOMAIN down /\ ListIs(i) /\ down'[i] = down[i]
        BY <2>10, <3>1
      <4>2. /\ DOMAIN down[i].cs \subseteq 1 .. n /\ Range(down[i].cs) \subseteq Addresses
            /\ Len(up) < 3
            /\ \A j \in DOMAIN down : ListIs(j) => i = j
        BY <4>1 DEF ListsRight, n
      <4> QED BY <1>2, <1>3, <2>10, <4>1, <4>2
    <3> QED BY <3>1 DEF ListsRight, n
  <2>12. ASSUME NEW f, NEW q \in 0 .. Len(down), Becomes(down, connections, identifiers, escaped, f, q),
                \A x \in DOMAIN f : f[x] \subseteq 1 .. n
         PROVE  Becomes(down', connections', identifiers', escaped', f, q)
    <3>1. Becomes(Append(down, m), With(connections, n + 1, a), n + 1, escaped, f, q)
      BY <1>3, <1>4, <2>12, BecomesOpening DEF n, c1
    <3> QED BY <1>1, <1>2, <2>1, <3>1 DEF n
  <2>13. ListBecomes'
    <3> SUFFICES ASSUME NEW i \in DOMAIN down', ListIs(i)'
                 PROVE  Becomes(down', connections', identifiers', escaped', TableOf(down'[i].cs), i)
      BY DEF ListBecomes
    <3>1. i \in DOMAIN down /\ ListIs(i) /\ down'[i] = down[i] /\ i \in 0 .. Len(down)
      BY <2>2, <2>10
    <3>2. Becomes(down, connections, identifiers, escaped, TableOf(down[i].cs), i)
      BY <3>1 DEF ListBecomes
    <3>3. \A x \in DOMAIN TableOf(down[i].cs) : TableOf(down[i].cs)[x] \subseteq 1 .. n
      BY <3>1 DEF ListsRight, TableOf, n
    <3> QED BY <2>12, <3>1, <3>2, <3>3
  <2>14. TableBecomes'
    <3> SUFFICES ASSUME Len(up') < 3, \A i \in DOMAIN down' : ~ ListIs(i)'
                 PROVE  Becomes(down', connections', identifiers', escaped', clients', 0)
      BY DEF TableBecomes
    <3>1. \A i \in DOMAIN down : ~ ListIs(i)
      BY <2>3 DEF ListIs
    <3>2. Becomes(down, connections, identifiers, escaped, clients, 0)
      BY <1>2, <3>1 DEF TableBecomes
    <3>3. 0 \in 0 .. Len(down) /\ \A x \in DOMAIN clients : clients[x] \subseteq 1 .. n
      BY <2>2 DEF ClientsViewTypeOK, n
    <3> QED BY <1>2, <2>12, <3>2, <3>3
  <2> QED BY <1>7, <2>2, <2>4, <2>7, <2>8, <2>11, <2>13, <2>14
<1> QED BY <1>8, <1>9

LEMMA ClientClosesSound == ASSUME ClientsInv, ClientCloses PROVE ClientsInv'
<1> USE DEF ClientsInv
<1>1. PICK c0 \in DOMAIN connections \ {1} :
        /\ connections' = Without(connections, c0)
        /\ Emit([what |-> "delclient", id |-> c0])
        /\ escaped' = IF following = {"newclient"} THEN escaped \cup {c0} ELSE escaped
  BY DEF ClientCloses
<1>2. UNCHANGED <<up, identifiers, following, clients>>
  BY DEF ClientCloses
<1> DEFINE n == identifiers
           m == Event([what |-> "delclient", id |-> c0])
<1>3. /\ n \in Nat /\ n' = n /\ c0 \in 1 .. n /\ c0 \in DOMAIN connections
      /\ DOMAIN connections \subseteq 1 .. n /\ escaped \subseteq 1 .. n
  BY <1>1, <1>2 DEF ClientsViewTypeOK
<1>4. m.what = "delclient" /\ m.id = c0
  BY DEF Event
<1>5. /\ "delclient" \in following => down' = Append(down, m)
      /\ "delclient" \notin following => down' = down
  BY <1>1 DEF Emit, Tell
<1>6. DOMAIN connections' = DOMAIN connections \ {c0}
      /\ \A c \in DOMAIN connections' : connections'[c] = connections[c]
  BY <1>1 DEF Without
<1> HIDE DEF m, n
<1>7. ClientsViewTypeOK' /\ NoneEmpty' /\ EscapedGone'
  <2>1. Range(connections') \subseteq Addresses
    BY <1>6 DEF Range, ClientsViewTypeOK
  <2>2. escaped' \subseteq escaped \cup {c0} /\ 1 \in DOMAIN connections'
    BY <1>1, <1>6 DEF EscapedGone
  <2> QED BY <1>2, <1>3, <1>6, <2>1, <2>2 DEF ClientsViewTypeOK, NoneEmpty, EscapedGone, n
<1>8. CASE "newclient" \notin following
  <2>1. Len(up) \in Nat /\ DOMAIN down = {} /\ down = <<>> /\ ~ (Len(up) < 5) /\ ~ (Len(up) < 4)
    BY <1>8, FollowedWhen
  <2>2. DOMAIN down' = {} /\ down' = down /\ ~ (Len(up) < 3)
    BY <1>5, <2>1, FollowedWhen
  <2>3. Subscribing'
    BY <1>2, <2>2 DEF Subscribing
  <2>4. OpeningsRight' /\ ClosingsRight' /\ ListsRight' /\ ListBecomes' /\ TableBecomes'
    BY <1>2, <2>2 DEF OpeningsRight, ClosingsRight, ListsRight, ListBecomes, TableBecomes
  <2> QED BY <1>7, <2>2, <2>3, <2>4
<1>9. CASE following = {"newclient"}
  <2>1. Len(up) = 4 /\ down' = down /\ escaped' = escaped \cup {c0} /\ ~ (Len(up) < 3)
    BY <1>1, <1>5, <1>9, FollowedWhen
  <2>2. Subscribing'
    BY <1>2, <2>1 DEF Subscribing
  <2>3. \A i \in DOMAIN down : ~ ListIs(i)
    BY <2>1 DEF ListsRight
  <2>4. ListsRight' /\ ListBecomes' /\ TableBecomes'
    BY <1>2, <2>1, <2>3 DEF ListsRight, ListBecomes, TableBecomes, ListIs
  <2>5. ClosingsRight'
    BY <1>2, <1>6, <2>1 DEF ClosingsRight
  <2>6. OpeningsRight'
    <3> SUFFICES ASSUME NEW i \in DOMAIN down, down[i].what = "newclient"
                 PROVE  LET c == down[i].id
                        IN /\ c \in 1 .. n' /\ down[i].ip \in Addresses
                           /\ c \in DOMAIN connections' => down[i].ip = connections'[c]
                           /\ (c \notin DOMAIN connections' /\ c \notin escaped') =>
                                \E j \in DOMAIN down : i < j /\ Closed(down, j, c)
                           /\ \A j \in DOMAIN down : /\ Opened(down, j, c) => down[j].ip = down[i].ip
                                                     /\ Closed(down, j, c) => i < j
      BY <2>1 DEF OpeningsRight, n
    <3> DEFINE c == down[i].id
    <3>1. /\ c \in 1 .. n /\ down[i].ip \in Addresses
          /\ c \in DOMAIN connections => down[i].ip = connections[c]
          /\ (c \notin DOMAIN connections /\ c \notin escaped) =>
               \E j \in DOMAIN down : i < j /\ Closed(down, j, c)
          /\ \A j \in DOMAIN down : /\ Opened(down, j, c) => down[j].ip = down[i].ip
                                    /\ Closed(down, j, c) => i < j
      BY DEF OpeningsRight, n
    <3> HIDE DEF c
    <3>2. /\ c \in 1 .. n' /\ down[i].ip \in Addresses
          /\ c \in DOMAIN connections' => down[i].ip = connections'[c]
          /\ (c \notin DOMAIN connections' /\ c \notin escaped') =>
               \E j \in DOMAIN down : i < j /\ Closed(down, j, c)
          /\ \A j \in DOMAIN down : /\ Opened(down, j, c) => down[j].ip = down[i].ip
                                    /\ Closed(down, j, c) => i < j
      BY <1>3, <1>6, <2>1, <3>1
    <3> QED BY <3>2 DEF c
  <2> QED BY <1>7, <2>1, <2>2, <2>4, <2>5, <2>6
<1>10. CASE "newclient" \in following /\ following # {"newclient"}
  <2>1. "delclient" \in following /\ down' = Append(down, m) /\ escaped' = escaped
    <3>1. "delclient" \in following
      BY <1>10, FollowedWhen
    <3> QED BY <1>1, <1>5, <1>10, <3>1
  <2>2. /\ IsList(down') /\ Len(down) \in Nat /\ DOMAIN down' = 1 .. Len(down) + 1 /\ DOMAIN down = 1 .. Len(down)
        /\ \A i \in 1 .. Len(down) : down'[i] = down[i]
        /\ down'[Len(down) + 1] = m
    BY <2>1, PutBehind
  <2>3. /\ \A i \in DOMAIN down : i \in DOMAIN down' /\ down'[i] = down[i]
        /\ \A i \in DOMAIN down' : i \in DOMAIN down \/ (i = Len(down) + 1 /\ down'[i] = m)
        /\ Len(down) + 1 \in DOMAIN down' /\ down'[Len(down) + 1] = m
        /\ \A i \in DOMAIN down : i < Len(down) + 1
    BY <2>2
  <2>4. Subscribing'
    BY <1>2, <1>10 DEF Subscribing
  <2>5. Closed(down', Len(down) + 1, c0) /\ \A c : ~ Opened(down', Len(down) + 1, c)
    BY <1>4, <2>3 DEF Closed, Opened
  <2>6. ASSUME NEW i \in DOMAIN down', down'[i].what = "newclient"
        PROVE  LET c == down'[i].id
               IN /\ c \in 1 .. n' /\ down'[i].ip \in Addresses
                  /\ c \in DOMAIN connections' => down'[i].ip = connections'[c]
                  /\ (c \notin DOMAIN connections' /\ c \notin escaped') =>
                       \E j \in DOMAIN down' : i < j /\ Closed(down', j, c)
                  /\ \A j \in DOMAIN down' : /\ Opened(down', j, c) => down'[j].ip = down'[i].ip
                                             /\ Closed(down', j, c) => i < j
    <3> DEFINE c == down'[i].id
    <3>1. i \in DOMAIN down /\ down'[i] = down[i] /\ i < Len(down) + 1
      BY <1>4, <2>3, <2>6
    <3>2. /\ c \in 1 .. n /\ down[i].ip \in Addresses
          /\ c \in DOMAIN connections => down[i].ip = connections[c]
          /\ (c \notin DOMAIN connections /\ c \notin escaped) =>
               \E j \in DOMAIN down : i < j /\ Closed(down, j, c)
          /\ \A j \in DOMAIN down : /\ Opened(down, j, c) => down[j].ip = down[i].ip
                                    /\ Closed(down, j, c) => i < j
      BY <2>6, <3>1 DEF OpeningsRight, n
    <3> HIDE DEF c
    <3>3. ASSUME NEW j \in DOMAIN down'
          PROVE  /\ Opened(down', j, c) => down'[j].ip = down'[i].ip
                 /\ Closed(down', j, c) => i < j
      <4>1. CASE j \in DOMAIN down
        BY <2>3, <3>1, <3>2, <4>1 DEF Opened, Closed
      <4>2. CASE j \notin DOMAIN down
        BY <2>3, <2>5, <3>1, <4>2
      <4> QED BY <4>1, <4>2
    <3>4. ASSUME c \notin DOMAIN connections', c \notin escaped'
          PROVE  \E j \in DOMAIN down' : i < j /\ Closed(down', j, c)
      <4>1. CASE c = c0
        BY <2>3, <2>5, <3>1, <4>1
      <4>2. CASE c # c0
        BY <1>6, <2>1, <2>3, <3>2, <3>4, <4>2 DEF Closed
      <4> QED BY <4>1, <4>2
    <3>5. c \in DOMAIN connections' => down'[i].ip = connections'[c]
      BY <1>6, <3>1, <3>2
    <3> QED BY <1>3, <3>1, <3>2, <3>3, <3>4, <3>5 DEF c
  <2>7. OpeningsRight'
    BY <2>6 DEF OpeningsRight, n
  <2>8. ClosingsRight'
    <3> SUFFICES ASSUME NEW i \in DOMAIN down', down'[i].what = "delclient"
                 PROVE  down'[i].id \in 1 .. n' \ DOMAIN connections'
      BY DEF ClosingsRight, n
    <3>1. CASE i \in DOMAIN down
      <4>1. down'[i] = down[i]
        BY <2>3, <3>1
      <4>2. down[i].id \in 1 .. n \ DOMAIN connections
        BY <3>1, <4>1 DEF ClosingsRight, n
      <4> QED BY <1>3, <1>6, <4>1, <4>2
    <3>2. CASE i \notin DOMAIN down
      BY <1>3, <1>4, <1>6, <2>3, <3>2
    <3> QED BY <3>1, <3>2
  <2>9. ~ (m.what = "clients")
    BY <1>4
  <2>10. \A i \in DOMAIN down' : ListIs(i)' => i \in DOMAIN down /\ ListIs(i) /\ down'[i] = down[i]
    BY <2>3, <2>9 DEF ListIs
  <2>11. ListsRight'
    <3>1. ASSUME NEW i \in DOMAIN down', ListIs(i)'
          PROVE  /\ DOMAIN down'[i].cs \subseteq 1 .. n' /\ Range(down'[i].cs) \subseteq Addresses
                 /\ Len(up') < 3
                 /\ \A j \in DOMAIN down' : ListIs(j)' => i = j
      <4>1. i \in DOMAIN down /\ ListIs(i) /\ down'[i] = down[i]
        BY <2>10, <3>1
      <4>2. /\ DOMAIN down[i].cs \subseteq 1 .. n /\ Range(down[i].cs) \subseteq Addresses
            /\ Len(up) < 3
            /\ \A j \in DOMAIN down : ListIs(j) => i = j
        BY <4>1 DEF ListsRight, n
      <4> QED BY <1>2, <1>3, <2>10, <4>1, <4>2
    <3> QED BY <3>1 DEF ListsRight, n
  <2>12. ASSUME NEW f, NEW q \in 0 .. Len(down), Becomes(down, connections, identifiers, escaped, f, q)
         PROVE  Becomes(down', connections', identifiers', escaped', f, q)
    <3>1. Becomes(Append(down, m), Without(connections, c0), n, escaped, f, q)
      BY <1>3, <1>4, <2>12, BecomesClosing DEF n
    <3> QED BY <1>1, <1>2, <2>1, <3>1 DEF n
  <2>13. ListBecomes'
    <3> SUFFICES ASSUME NEW i \in DOMAIN down', ListIs(i)'
                 PROVE  Becomes(down', connections', identifiers', escaped', TableOf(down'[i].cs), i)
      BY DEF ListBecomes
    <3>1. i \in DOMAIN down /\ ListIs(i) /\ down'[i] = down[i] /\ i \in 0 .. Len(down)
      BY <2>2, <2>10
    <3>2. Becomes(down, connections, identifiers, escaped, TableOf(down[i].cs), i)
      BY <3>1 DEF ListBecomes
    <3> QED BY <2>12, <3>1, <3>2
  <2>14. TableBecomes'
    <3> SUFFICES ASSUME Len(up') < 3, \A i \in DOMAIN down' : ~ ListIs(i)'
                 PROVE  Becomes(down', connections', identifiers', escaped', clients', 0)
      BY DEF TableBecomes
    <3>1. \A i \in DOMAIN down : ~ ListIs(i)
      BY <2>3 DEF ListIs
    <3>2. Becomes(down, connections, identifiers, escaped, clients, 0)
      BY <1>2, <3>1 DEF TableBecomes
    <3>3. 0 \in 0 .. Len(down)
      BY <2>2
    <3> QED BY <1>2, <2>12, <3>2, <3>3
  <2> QED BY <1>7, <2>2, <2>4, <2>7, <2>8, <2>11, <2>13, <2>14
<1> QED BY <1>8, <1>9, <1>10

(* The server takes the calls.                                               *)
LEMMA SubscribingGoesOn ==
  ASSUME ClientsInv, up # <<>>, up' = Tail(up), down # <<>> => following # {},
         following' = IF Head(up).what = "follow" THEN following \cup {Head(up).e} ELSE following
  PROVE  Subscribing' /\ following' # {} /\ (Len(up) < 3 => Len(up') < 3)
         /\ (Head(up).what = "clients" => Len(up) = 3 /\ Len(up') < 3)
         /\ (Head(up).what = "follow" => (Len(up') < 3 => Len(up) < 3))
<1>1. /\ IsList(up') /\ Len(up) \in Nat \ {0} /\ Len(up') = Len(up) - 1
      /\ DOMAIN up' = 1 .. Len(up) - 1 /\ DOMAIN up = 1 .. Len(up)
      /\ \A i \in 1 .. Len(up) - 1 : up'[i] = up[i + 1] /\ i + 1 \in DOMAIN up
      /\ Head(up) = up[1] /\ 1 \in DOMAIN up
  BY FirstGone DEF Subscribing, ClientsInv
<1>2. /\ Len(up) <= 5
      /\ \A i \in DOMAIN up :
           /\ up[i].what = IF i + 5 - Len(up) = 3 THEN "clients" ELSE "follow"
           /\ up[i].what = "follow" => up[i].e = IF i + 5 - Len(up) \in {1, 4} THEN "newclient" ELSE "delclient"
      /\ following = IF Len(up) = 5 THEN {} ELSE IF Len(up) = 4 THEN {"newclient"} ELSE {"newclient", "delclient"}
  BY DEF Subscribing, ClientsInv
<1>a. Len(up) \in 1 .. 5
  <2>1. Len(up) \in Nat /\ Len(up) # 0
    BY <1>1
  <2>2. \A x \in Nat : (x # 0 /\ x <= 5) => x \in 1 .. 5
    OBVIOUS
  <2>3. Len(up) <= 5
    BY <1>2
  <2> QED BY <2>1, <2>2, <2>3
<1>3. PICK n \in 1 .. 5 : n = Len(up)
  BY <1>a
<1>4. /\ Len(up') = n - 1 /\ DOMAIN up' = 1 .. n - 1 /\ DOMAIN up = 1 .. n
      /\ \A i \in 1 .. n - 1 : up'[i] = up[i + 1] /\ i + 1 \in DOMAIN up
  BY <1>1, <1>3
<1>5. /\ \A i \in 1 .. n :
           /\ up[i].what = IF i + 5 - n = 3 THEN "clients" ELSE "follow"
           /\ up[i].what = "follow" => up[i].e = IF i + 5 - n \in {1, 4} THEN "newclient" ELSE "delclient"
      /\ following = IF n = 5 THEN {} ELSE IF n = 4 THEN {"newclient"} ELSE {"newclient", "delclient"}
  BY <1>2, <1>3, <1>4
<1> DEFINE h == Head(up)
<1>6. /\ h.what = IF n = 3 THEN "clients" ELSE "follow"
      /\ h.what = "follow" => h.e = IF n \in {2, 5} THEN "newclient" ELSE "delclient"
  <2>1. 1 \in 1 .. n /\ (1 + 5 - n = 3 <=> n = 3) /\ (1 + 5 - n \in {1, 4} <=> n \in {2, 5})
    OBVIOUS
  <2>2. /\ up[1].what = IF 1 + 5 - n = 3 THEN "clients" ELSE "follow"
        /\ up[1].what = "follow" => up[1].e = IF 1 + 5 - n \in {1, 4} THEN "newclient" ELSE "delclient"
    BY <1>5, <2>1
  <2> QED BY <1>1, <2>1, <2>2
<1>7. following' = IF h.what = "follow" THEN following \cup {h.e} ELSE following
  OBVIOUS
<1> HIDE DEF h
<1> DEFINE k == n - 1
<1>8. \A i \in 1 .. k :
        /\ up'[i].what = IF i + 5 - k = 3 THEN "clients" ELSE "follow"
        /\ up'[i].what = "follow" => up'[i].e = IF i + 5 - k \in {1, 4} THEN "newclient" ELSE "delclient"
  <2> SUFFICES ASSUME NEW i \in 1 .. k
               PROVE  /\ up'[i].what = IF i + 5 - k = 3 THEN "clients" ELSE "follow"
                      /\ up'[i].what = "follow" => up'[i].e = IF i + 5 - k \in {1, 4} THEN "newclient" ELSE "delclient"
    OBVIOUS
  <2>1. i + 1 \in 1 .. n /\ up'[i] = up[i + 1] /\ i + 5 - k = i + 1 + 5 - n
    BY <1>4
  <2> HIDE DEF k
  <2> QED BY <1>5, <2>1
<1>9. following' = IF k = 5 THEN {} ELSE IF k = 4 THEN {"newclient"} ELSE {"newclient", "delclient"}
  <2>1. CASE n = 5
    <3>1. h.what = "follow" /\ h.e = "newclient" /\ following = {} /\ k = 4
      BY <1>5, <1>6, <2>1
    <3>2. following' = {"newclient"}
      BY <1>7, <3>1
    <3> HIDE DEF k
    <3> QED BY <3>1, <3>2
  <2>2. CASE n = 4
    <3>1. h.what = "follow" /\ h.e = "delclient" /\ following = {"newclient"} /\ k # 4 /\ k # 5
      BY <1>5, <1>6, <2>2
    <3>2. following' = {"newclient", "delclient"}
      BY <1>7, <3>1
    <3> HIDE DEF k
    <3> QED BY <3>1, <3>2
  <2>3. CASE n # 5 /\ n # 4
    <3>1. following = {"newclient", "delclient"} /\ k # 4 /\ k # 5
      BY <1>5, <2>3
    <3>2. h.what = "follow" => h.e \in {"newclient", "delclient"}
      BY <1>6
    <3>3. following' = {"newclient", "delclient"}
      BY <1>7, <3>1, <3>2
    <3> HIDE DEF k
    <3> QED BY <3>1, <3>3
  <2> QED BY <2>1, <2>2, <2>3
<1>10. k # 5 /\ k <= 5 /\ k = Len(up')
  BY <1>4
<1>11. following' # {}
  BY <1>9, <1>10
<1>12. DOMAIN up' = 1 .. k
  BY <1>4
<1>13. (n < 3 => k < 3) /\ (h.what = "clients" => n = 3 /\ k < 3) /\ (h.what = "follow" => (k < 3 => n < 3))
  BY <1>6
<1> HIDE DEF k
<1>14. Subscribing'
  BY <1>1, <1>8, <1>9, <1>10, <1>11, <1>12 DEF Subscribing
<1> QED BY <1>3, <1>10, <1>11, <1>13, <1>14 DEF h

LEMMA ServeFollowSound == ASSUME ClientsInv, ServeFollow PROVE ClientsInv'
<1> USE DEF ClientsInv
<1>1. /\ up # <<>> /\ Head(up).what = "follow" /\ up' = Tail(up)
      /\ following' = following \cup {Head(up).e}
      /\ UNCHANGED <<down, connections, identifiers, clients, escaped>>
  BY DEF ServeFollow, Serving
<1>2. Subscribing' /\ (Len(up') < 3 <=> Len(up) < 3)
  BY <1>1, SubscribingGoesOn DEF Subscribing
<1>3. Len(up') < 3 <=> Len(up) < 3
  BY <1>2
<1>4. OpeningsRight' /\ ClosingsRight' /\ ListsRight' /\ ListBecomes' /\ TableBecomes'
  BY <1>1, <1>3 DEF OpeningsRight, ClosingsRight, ListsRight, ListBecomes, TableBecomes, ListIs
<1>5. following' \subseteq {"newclient", "delclient"}
  BY <1>2 DEF Subscribing
<1>6. ClientsViewTypeOK' /\ NoneEmpty' /\ EscapedGone'
  BY <1>1, <1>5 DEF ClientsViewTypeOK, NoneEmpty, EscapedGone
<1> QED BY <1>1, <1>2, <1>4, <1>6

LEMMA HttpGetClientsSound == ASSUME ClientsInv, HttpGetClients PROVE ClientsInv'
<1> USE DEF ClientsInv
<1> DEFINE m == [what |-> "clients", cs |-> connections]
<1>1. /\ up # <<>> /\ Head(up).what = "clients" /\ up' = Tail(up) /\ Serve(m)
      /\ UNCHANGED <<connections, identifiers, following, clients, escaped>>
  BY DEF HttpGetClients, Serving, Serve, vars_n
<1>2. Subscribing' /\ Len(up) = 3 /\ Len(up') < 3
  BY <1>1, SubscribingGoesOn DEF Subscribing
<1>3. m.what = "clients" /\ m.cs = connections
  OBVIOUS
<1> HIDE DEF m
<1>4. PICK q \in 0 .. Len(down) : Overtaking(q) /\ down' = InsertAt(down, q + 1, m)
  BY <1>1 DEF Serve
<1>5. /\ IsList(down') /\ Len(down) \in Nat /\ q \in Nat
      /\ DOMAIN down' = 1 .. Len(down) + 1 /\ DOMAIN down = 1 .. Len(down)
      /\ \A i \in 1 .. q : down'[i] = down[i]
      /\ down'[q + 1] = m
      /\ \A i \in q + 1 .. Len(down) : down'[i + 1] = down[i]
  BY <1>4, PutBetween
<1> DEFINE from(i) == IF i <= q THEN i ELSE i - 1
           to(i) == IF i <= q THEN i ELSE i + 1
<1>6. ASSUME NEW i \in DOMAIN down', i # q + 1
      PROVE  from(i) \in DOMAIN down /\ down'[i] = down[from(i)] /\ i \in Nat
  <2>1. CASE i <= q
    <3>1. i \in 1 .. q /\ i \in DOMAIN down
      BY <1>5, <2>1
    <3> QED BY <1>5, <2>1, <3>1
  <2>2. CASE ~ (i <= q)
    <3>1. i \in 1 .. Len(down) + 1 /\ i # q + 1
      BY <1>5, <1>6
    <3>2. i - 1 \in q + 1 .. Len(down) /\ (i - 1) + 1 = i
      BY <1>5, <2>2, <3>1
    <3>3. i - 1 \in DOMAIN down
      BY <1>5, <3>2
    <3> QED BY <1>5, <2>2, <3>1, <3>2, <3>3
  <2> QED BY <2>1, <2>2
<1>7. ASSUME NEW j \in DOMAIN down
      PROVE  to(j) \in DOMAIN down' /\ down'[to(j)] = down[j] /\ j \in Nat /\ to(j) # q + 1
  <2>1. CASE j <= q
    <3>1. j \in 1 .. q /\ j \in DOMAIN down' /\ j # q + 1
      BY <1>5, <2>1
    <3> QED BY <1>5, <2>1, <3>1
  <2>2. CASE ~ (j <= q)
    <3>1. j \in q + 1 .. Len(down) /\ j + 1 \in DOMAIN down' /\ j + 1 # q + 1
      BY <1>5, <2>2
    <3> QED BY <1>5, <2>2, <3>1
  <2> QED BY <2>1, <2>2
<1>8. ASSUME NEW i \in DOMAIN down', i # q + 1, NEW j \in DOMAIN down, from(i) < j PROVE i < to(j)
  BY <1>5, <1>6, <1>7, <1>8
<1>9. ASSUME NEW i \in DOMAIN down', i # q + 1, NEW j \in DOMAIN down', j # q + 1, from(i) < from(j) PROVE i < j
  BY <1>5, <1>6, <1>9
<1> HIDE DEF from, to
<1>10. \A i \in DOMAIN down : ~ ListIs(i)
  BY <1>2 DEF ListsRight
<1>11. \A i \in DOMAIN down' : ListIs(i)' <=> i = q + 1
  BY <1>3, <1>5, <1>6, <1>10 DEF ListIs
<1>12. ASSUME NEW i \in DOMAIN down', down'[i].what = "newclient"
       PROVE  LET c == down'[i].id
              IN /\ c \in 1 .. identifiers /\ down'[i].ip \in Addresses
                 /\ c \in DOMAIN connections => down'[i].ip = connections[c]
                 /\ (c \notin DOMAIN connections /\ c \notin escaped) =>
                      \E j \in DOMAIN down' : i < j /\ Closed(down', j, c)
                 /\ \A j \in DOMAIN down' : /\ Opened(down', j, c) => down'[j].ip = down'[i].ip
                                            /\ Closed(down', j, c) => i < j
  <2> DEFINE c == down'[i].id
  <2>1. i # q + 1
    BY <1>3, <1>5, <1>12
  <2>2. from(i) \in DOMAIN down /\ down'[i] = down[from(i)]
    BY <1>6, <2>1
  <2>3. /\ c \in 1 .. identifiers /\ down'[i].ip \in Addresses
        /\ c \in DOMAIN connections => down'[i].ip = connections[c]
        /\ (c \notin DOMAIN connections /\ c \notin escaped) =>
             \E j \in DOMAIN down : from(i) < j /\ Closed(down, j, c)
        /\ \A j \in DOMAIN down : /\ Opened(down, j, c) => down[j].ip = down'[i].ip
                                  /\ Closed(down, j, c) => from(i) < j
    BY <1>12, <2>2 DEF OpeningsRight
  <2> HIDE DEF c
  <2>4. ASSUME NEW j \in DOMAIN down, from(i) < j, Closed(down, j, c)
        PROVE  \E k \in DOMAIN down' : i < k /\ Closed(down', k, c)
    BY <1>7, <1>8, <2>1, <2>4 DEF Closed
  <2>5. ASSUME NEW j \in DOMAIN down'
        PROVE  /\ Opened(down', j, c) => down'[j].ip = down'[i].ip
               /\ Closed(down', j, c) => i < j
    <3>1. CASE j = q + 1
      BY <1>3, <1>5, <3>1 DEF Opened, Closed
    <3>2. CASE j # q + 1
      <4>1. from(j) \in DOMAIN down /\ down'[j] = down[from(j)]
        BY <1>6, <3>2
      <4>2. /\ Opened(down, from(j), c) => down[from(j)].ip = down'[i].ip
            /\ Closed(down, from(j), c) => from(i) < from(j)
        BY <2>3, <4>1
      <4> QED BY <1>9, <2>1, <3>2, <4>1, <4>2 DEF Opened, Closed
    <3> QED BY <3>1, <3>2
  <2> QED BY <2>3, <2>4, <2>5 DEF c
<1>13. OpeningsRight'
  BY <1>1, <1>12 DEF OpeningsRight
<1>14. ClosingsRight'
  BY <1>1, <1>3, <1>5, <1>6 DEF ClosingsRight
<1>15. DOMAIN connections \subseteq 1 .. identifiers /\ Range(connections) \subseteq Addresses
       /\ escaped \cap DOMAIN connections = {}
  BY DEF ClientsViewTypeOK, EscapedGone
<1>16. ListsRight'
  BY <1>1, <1>2, <1>3, <1>5, <1>11, <1>15 DEF ListsRight
<1>17. Becomes(down', connections, identifiers, escaped, TableOf(connections), q + 1)
  <2> DEFINE f == TableOf(connections)
  <2>1. \A c, ip : Shows(f, c, ip) <=> (c \in DOMAIN connections /\ connections[c] = ip)
    <3>1. DOMAIN f = Range(connections) /\ \A ip \in DOMAIN f : f[ip] = {c \in DOMAIN connections : connections[c] = ip}
      BY DEF TableOf
    <3> HIDE DEF f
    <3> QED BY <3>1 DEF Shows, Range
  <2> HIDE DEF f
  <2>2. ASSUME NEW c \in 1 .. identifiers, NEW ip \in Addresses, Shows(f, c, ip)
        PROVE  /\ c \in DOMAIN connections => ip = connections[c]
               /\ (c \notin DOMAIN connections /\ c \notin escaped) =>
                    \E i \in DOMAIN down' : q + 1 < i /\ Closed(down', i, c)
               /\ \A a \in Addresses : Shows(f, c, a) => a = ip
               /\ \A i \in DOMAIN down' : (q + 1 < i /\ Opened(down', i, c)) => down'[i].ip = ip
    <3>1. c \in DOMAIN connections /\ connections[c] = ip
      BY <2>1, <2>2
    <3>2. ASSUME NEW i \in DOMAIN down', Opened(down', i, c) PROVE down'[i].ip = ip
      <4>1. down'[i].what = "newclient" /\ down'[i].id = c
        BY <3>2 DEF Opened
      <4> QED BY <1>12, <3>1, <4>1
    <3> QED BY <2>1, <3>1, <3>2
  <2>3. \A c \in DOMAIN connections : Shows(f, c, connections[c])
    BY <2>1
  <2> QED BY <2>2, <2>3 DEF Becomes, f
<1>18. ListBecomes'
  BY <1>1, <1>3, <1>5, <1>11, <1>17 DEF ListBecomes
<1>19. TableBecomes'
  <2>1. q + 1 \in DOMAIN down'
    BY <1>4, <1>5
  <2> QED BY <1>11, <2>1 DEF TableBecomes
<1>20. ClientsViewTypeOK' /\ NoneEmpty' /\ EscapedGone'
  BY <1>1 DEF ClientsViewTypeOK, NoneEmpty, EscapedGone
<1> QED BY <1>2, <1>5, <1>13, <1>14, <1>16, <1>18, <1>19, <1>20

LEMMA ClientsStepSound ==
  ASSUME ClientsInv, ClientsNext \/ UNCHANGED <<calls, vars_n>>
  PROVE  ClientsInv'
<1>1. CASE UNCHANGED <<calls, vars_n>>
  <2>1. UNCHANGED <<up, down, connections, identifiers, following, clients, escaped>>
    BY <1>1 DEF calls, vars_n
  <2> QED BY <2>1 DEF ClientsInv, ClientsViewTypeOK, Subscribing, OpeningsRight, ClosingsRight,
                      ListsRight, ListBecomes, TableBecomes, ListIs, NoneEmpty, EscapedGone
<1> QED BY <1>1, ClientOpensSound, ClientClosesSound, ServeFollowSound, HttpGetClientsSound,
           ClientListSound, ClientEventSound DEF ClientsNext

------------------------------------------------------------------------------
(* The project page.                                                         *)
PluginMessages ==
  /\ IsList(up) /\ IsList(down)
  /\ \A i \in DOMAIN up : up[i].what = "plugread" => up[i].f \in PluginFiles
  /\ \A i \in DOMAIN down :
       /\ down[i].what \in {"plugged", "unplugged", "plugread"} => down[i].f \in PluginFiles
       /\ down[i].what \in {"plugged", "plugread"} => down[i].t \in 0 .. MaxFileChanges
       /\ down[i].what = "pluglist" => down[i].fs \in Seq(PluginFiles)
  /\ \A f \in DOMAIN plugged : plugged[f] \in 0 .. filechanges

(* The first loop does one thing at a time, and that for the first file it   *)
(* has yet to load.                                                          *)
Looping(m) == m.what \in {"pluglist", "plugread"}
Idle(s) == \A i \in DOMAIN s : ~ Looping(s[i])
AtMostOnce(s) == \A i, j \in DOMAIN s : Looping(s[i]) /\ Looping(s[j]) => i = j
NoneByLoop == \A i \in imports : ~ i.loop
OneByLoop == \A i, j \in imports : i.loop /\ j.loop => i = j
OneAtATime ==
  \/ AtMostOnce(up) /\ Idle(down) /\ NoneByLoop
  \/ Idle(up) /\ AtMostOnce(down) /\ NoneByLoop
  \/ Idle(up) /\ Idle(down) /\ OneByLoop
ForTheFirst(s) ==
  \A i \in DOMAIN s : /\ s[i].what = "plugread" => toLoad # <<>> /\ s[i].f = toLoad[1]
                      /\ s[i].what = "pluglist" => toLoad = <<>>
LoopRight ==
  /\ OneAtATime
  /\ ForTheFirst(up) /\ ForTheFirst(down)
  /\ \A i \in imports : i.loop => toLoad # <<>> /\ i.f = toLoad[1]
  /\ ~ loadingPlugins => toLoad = <<>>

(* The last that is told of a file is so, and what is read after.            *)
About(m, f) == m.what \in {"plugged", "unplugged"} /\ m.f = f
Agrees(m, f, p) ==
  /\ m.what = "plugged" => f \in DOMAIN p /\ m.t = p[f]
  /\ m.what = "unplugged" => f \notin DOMAIN p
  /\ m.what = "plugread" => (f \in DOMAIN p => m.t = p[f])
ReadOf(m, f) == m.what = "plugread" /\ m.f = f
Tells(d, f, p) ==
  \A i \in DOMAIN d :
    /\ About(d[i], f) \/ ReadOf(d[i], f)
    /\ \A j \in DOMAIN d : i < j => ~ About(d[j], f)
    => Agrees(d[i], f, p)
Untold(d, f) == \A i \in DOMAIN d : ~ About(d[i], f)

(* A file that did not change unseen, nor while it was imported.             *)
ToBeLoaded(f) ==
  \/ \E i \in DOMAIN up : up[i].what = "pluglist"
  \/ \E i \in DOMAIN down : down[i].what = "pluglist" /\ f \in Range(down[i].fs)
  \/ f \in Range(toLoad)
Importing(f) == \E i \in imports : i.f = f
FileFollowed(f) ==
  /\ Tells(down, f, plugged)
  /\ \A i \in imports : i.f = f =>
       /\ i.fetched = "file" => f \in DOMAIN plugged
       /\ i.fetched = "nothing" => f \notin DOMAIN plugged
  /\ Untold(down, f) =>
       /\ f \notin DOMAIN plugged => f \notin DOMAIN plugins
       /\ f \in DOMAIN plugged =>
            /\ \A i \in imports : i.f = f => i.t = plugged[f]
            /\ ToBeLoaded(f) \/ Importing(f) \/ (f \in DOMAIN plugins /\ plugins[f] = plugged[f])
FilesFollowed == \A f \in PluginFiles : (f \notin crossed /\ f \notin unseen) => FileFollowed(f)

PluginsInv ==
  /\ PluginsViewTypeOK
  /\ PluginMessages
  /\ LoopRight
  /\ FilesFollowed
  /\ RoutesMatch

LEMMA PluginsImply == ASSUME PluginsInv PROVE PluginsViewTypeOK /\ PluginsRight /\ RoutesMatch
<1> USE DEF PluginsInv
<1>1. ASSUME Quiet("project"), imports = {}, ~ loadingPlugins,
             NEW f \in PluginFiles, f \notin crossed, f \notin unseen
      PROVE  /\ f \in DOMAIN plugins <=> f \in DOMAIN plugged
             /\ f \in DOMAIN plugged => plugins[f] = plugged[f]
  <2>1. DOMAIN up = {} /\ DOMAIN down = {}
    BY <1>1, EmptySeq DEF Quiet
  <2>2. toLoad = <<>>
    BY <1>1 DEF LoopRight
  <2>3. Range(toLoad) = {}
    BY <2>2 DEF Range
  <2>4. FileFollowed(f) /\ Untold(down, f) /\ ~ ToBeLoaded(f) /\ ~ Importing(f)
    BY <1>1, <2>1, <2>3 DEF FilesFollowed, Untold, ToBeLoaded, Importing
  <2> QED BY <2>4 DEF FileFollowed
<1>2. PluginsRight
  BY <1>1 DEF PluginsRight
<1> QED BY <1>2

------------------------------------------------------------------------------
(* What the loop does next, in a list of messages that changes.              *)
LEMMA LoopTaken ==
  ASSUME NEW s, IsList(s), s # <<>>
  PROVE  /\ Idle(s) => Idle(Tail(s)) /\ ~ Looping(Head(s))
         /\ AtMostOnce(s) => AtMostOnce(Tail(s))
         /\ (AtMostOnce(s) /\ Looping(Head(s))) => Idle(Tail(s))
<1> DEFINE t == Tail(s)
<1>1. /\ Len(s) \in Nat \ {0} /\ DOMAIN t = 1 .. Len(s) - 1 /\ DOMAIN s = 1 .. Len(s)
      /\ \A i \in 1 .. Len(s) - 1 : t[i] = s[i + 1] /\ i + 1 \in DOMAIN s
      /\ Head(s) = s[1] /\ 1 \in DOMAIN s
  BY FirstGone
<1> HIDE DEF t
<1>2. \A i \in DOMAIN t : i \in Nat /\ i # 0 /\ i + 1 \in DOMAIN s /\ t[i] = s[i + 1]
  BY <1>1
<1>3. Idle(s) => Idle(t) /\ ~ Looping(Head(s))
  BY <1>1, <1>2 DEF Idle
<1>4. ASSUME AtMostOnce(s), NEW i \in DOMAIN t, NEW j \in DOMAIN t, Looping(t[i]), Looping(t[j]) PROVE i = j
  <2>1. i + 1 = j + 1
    BY <1>2, <1>4 DEF AtMostOnce
  <2> QED BY <1>2, <2>1
<1>5. ASSUME AtMostOnce(s), Looping(Head(s)), NEW i \in DOMAIN t, Looping(t[i]) PROVE FALSE
  <2>1. i + 1 = 1
    BY <1>1, <1>2, <1>5 DEF AtMostOnce
  <2> QED BY <1>2, <2>1
<1>6. /\ AtMostOnce(s) => AtMostOnce(t)
      /\ (AtMostOnce(s) /\ Looping(Head(s))) => Idle(t)
  BY <1>4, <1>5 DEF AtMostOnce, Idle
<1> QED BY <1>3, <1>6 DEF t

LEMMA LoopPut ==
  ASSUME NEW s, IsList(s), NEW a, NEW n \in 0 .. Len(s)
  PROVE  LET t == InsertAt(s, n + 1, a)
         IN /\ (Idle(s) /\ ~ Looping(a)) => Idle(t)
            /\ Idle(s) => AtMostOnce(t)
            /\ (AtMostOnce(s) /\ ~ Looping(a)) => AtMostOnce(t)
<1> DEFINE t == InsertAt(s, n + 1, a)
<1>1. /\ Len(s) \in Nat /\ n \in Nat
      /\ DOMAIN t = 1 .. Len(s) + 1 /\ DOMAIN s = 1 .. Len(s)
      /\ \A i \in 1 .. n : t[i] = s[i]
      /\ t[n + 1] = a
      /\ \A i \in n + 1 .. Len(s) : t[i + 1] = s[i]
  BY PutBetween
<1> HIDE DEF t
<1> DEFINE g(i) == IF i <= n THEN i ELSE i - 1
<1>2. ASSUME NEW i \in DOMAIN t, i # n + 1 PROVE g(i) \in DOMAIN s /\ t[i] = s[g(i)]
  <2>1. CASE i <= n
    <3>1. i \in 1 .. n /\ i \in DOMAIN s
      BY <1>1, <2>1
    <3> QED BY <1>1, <2>1, <3>1
  <2>2. CASE ~ (i <= n)
    <3>1. i \in 1 .. Len(s) + 1 /\ i # n + 1
      BY <1>1, <1>2
    <3>2. i - 1 \in n + 1 .. Len(s) /\ (i - 1) + 1 = i
      BY <1>1, <2>2, <3>1
    <3>3. i - 1 \in DOMAIN s
      BY <1>1, <3>2
    <3> QED BY <1>1, <2>2, <3>1, <3>2, <3>3
  <2> QED BY <2>1, <2>2
<1>3. ASSUME NEW i \in DOMAIN t, i # n + 1, NEW j \in DOMAIN t, j # n + 1, g(i) = g(j) PROVE i = j
  BY <1>1, <1>3
<1> HIDE DEF g
<1>4. (Idle(s) /\ ~ Looping(a)) => Idle(t)
  BY <1>1, <1>2 DEF Idle
<1>5. Idle(s) => AtMostOnce(t)
  BY <1>1, <1>2 DEF Idle, AtMostOnce
<1>6. (AtMostOnce(s) /\ ~ Looping(a)) => AtMostOnce(t)
  BY <1>1, <1>2, <1>3 DEF AtMostOnce
<1> QED BY <1>4, <1>5, <1>6 DEF t

LEMMA LoopPutBehind ==
  ASSUME NEW s, IsList(s), NEW a
  PROVE  /\ (Idle(s) /\ ~ Looping(a)) => Idle(Append(s, a))
         /\ Idle(s) => AtMostOnce(Append(s, a))
         /\ (AtMostOnce(s) /\ ~ Looping(a)) => AtMostOnce(Append(s, a))
<1> DEFINE t == Append(s, a)
<1>1. /\ Len(s) \in Nat
      /\ DOMAIN t = 1 .. Len(s) + 1 /\ DOMAIN s = 1 .. Len(s)
      /\ \A i \in 1 .. Len(s) : t[i] = s[i]
      /\ t[Len(s) + 1] = a
  BY PutBehind
<1> HIDE DEF t
<1>2. \A i \in DOMAIN t : (i = Len(s) + 1 /\ t[i] = a) \/ (i \in DOMAIN s /\ t[i] = s[i])
  BY <1>1
<1>3. (Idle(s) /\ ~ Looping(a)) => Idle(t)
  BY <1>2 DEF Idle
<1>4. Idle(s) => AtMostOnce(t)
  BY <1>2 DEF Idle, AtMostOnce
<1>5. (AtMostOnce(s) /\ ~ Looping(a)) => AtMostOnce(t)
  BY <1>2 DEF AtMostOnce
<1> QED BY <1>3, <1>4, <1>5 DEF t

(* What is told of a file, in a list of messages that changes.               *)
LEMMA TellsBehind ==
  ASSUME NEW d, IsList(d), d # <<>>, NEW f, NEW p
  PROVE  /\ Tells(d, f, p) => Tells(Tail(d), f, p)
         /\ (Untold(Tail(d), f) /\ ~ About(Head(d), f)) => Untold(d, f)
         /\ (Tells(d, f, p) /\ Untold(Tail(d), f) /\ (About(Head(d), f) \/ ReadOf(Head(d), f))) =>
              Agrees(Head(d), f, p)
<1> DEFINE t == Tail(d)
<1>1. /\ Len(d) \in Nat \ {0} /\ DOMAIN t = 1 .. Len(d) - 1 /\ DOMAIN d = 1 .. Len(d)
      /\ \A i \in 1 .. Len(d) - 1 : t[i] = d[i + 1] /\ i + 1 \in DOMAIN d
      /\ Head(d) = d[1] /\ 1 \in DOMAIN d
  BY FirstGone
<1> HIDE DEF t
<1>2. \A i \in DOMAIN t : i \in Nat /\ i + 1 \in DOMAIN d /\ t[i] = d[i + 1]
  BY <1>1
<1>3. ASSUME NEW j \in DOMAIN d, j # 1 PROVE j - 1 \in DOMAIN t /\ t[j - 1] = d[j] /\ j \in Nat
  <2>1. j - 1 \in 1 .. Len(d) - 1 /\ (j - 1) + 1 = j
    BY <1>1, <1>3
  <2> QED BY <1>1, <2>1
<1>4. ASSUME Tells(d, f, p), NEW i \in DOMAIN t, About(t[i], f) \/ ReadOf(t[i], f),
             \A j \in DOMAIN t : i < j => ~ About(t[j], f)
      PROVE  Agrees(t[i], f, p)
  <2>1. i + 1 \in DOMAIN d /\ t[i] = d[i + 1] /\ i \in Nat
    BY <1>2
  <2>2. ASSUME NEW j \in DOMAIN d, i + 1 < j PROVE ~ About(d[j], f)
    <3>1. j # 1 /\ i < j - 1
      BY <1>1, <2>1, <2>2
    <3> QED BY <1>3, <1>4, <3>1
  <2> QED BY <1>4, <2>1, <2>2 DEF Tells
<1>5. ASSUME Untold(t, f), NEW j \in DOMAIN d, j # 1 PROVE ~ About(d[j], f)
  BY <1>3, <1>5 DEF Untold
<1>6. Tells(d, f, p) => Tells(t, f, p)
  BY <1>4 DEF Tells
<1>7. (Untold(t, f) /\ ~ About(Head(d), f)) => Untold(d, f)
  BY <1>1, <1>5 DEF Untold
<1>8. \A j \in DOMAIN d : 1 < j => j # 1
  BY <1>1
<1>9. (Tells(d, f, p) /\ Untold(t, f) /\ (About(Head(d), f) \/ ReadOf(Head(d), f))) => Agrees(Head(d), f, p)
  BY <1>1, <1>5, <1>8 DEF Tells
<1> QED BY <1>6, <1>7, <1>9 DEF t

LEMMA TellsMore ==
  ASSUME NEW d, IsList(d), NEW a, NEW f, NEW p
  PROVE  /\ (About(a, f) /\ Agrees(a, f, p)) => Tells(Append(d, a), f, p)
         /\ (Tells(d, f, p) /\ ~ About(a, f) /\ ~ ReadOf(a, f)) => Tells(Append(d, a), f, p)
         /\ Untold(Append(d, a), f) => Untold(d, f) /\ ~ About(a, f)
<1> DEFINE t == Append(d, a)
<1>1. /\ Len(d) \in Nat
      /\ DOMAIN t = 1 .. Len(d) + 1 /\ DOMAIN d = 1 .. Len(d)
      /\ \A i \in 1 .. Len(d) : t[i] = d[i]
      /\ t[Len(d) + 1] = a
  BY PutBehind
<1> HIDE DEF t
<1>2. /\ \A i \in DOMAIN t : (i = Len(d) + 1 /\ t[i] = a) \/ (i \in DOMAIN d /\ t[i] = d[i])
      /\ \A i \in DOMAIN d : i < Len(d) + 1 /\ i \in DOMAIN t /\ t[i] = d[i]
      /\ Len(d) + 1 \in DOMAIN t /\ t[Len(d) + 1] = a
  BY <1>1
<1>3. (About(a, f) /\ Agrees(a, f, p)) => Tells(t, f, p)
  BY <1>2 DEF Tells
<1>4. (Tells(d, f, p) /\ ~ About(a, f) /\ ~ ReadOf(a, f)) => Tells(t, f, p)
  BY <1>2 DEF Tells
<1>5. Untold(t, f) => Untold(d, f) /\ ~ About(a, f)
  BY <1>2 DEF Untold
<1> QED BY <1>3, <1>4, <1>5 DEF t

LEMMA TellsAnswer ==
  ASSUME NEW d, IsList(d), NEW a, NEW f, NEW p, NEW n \in 0 .. Len(d), ~ About(a, f),
         ReadOf(a, f) => Agrees(a, f, p)
  PROVE  /\ Tells(d, f, p) => Tells(InsertAt(d, n + 1, a), f, p)
         /\ Untold(InsertAt(d, n + 1, a), f) => Untold(d, f)
<1> DEFINE t == InsertAt(d, n + 1, a)
<1>1. /\ Len(d) \in Nat /\ n \in Nat
      /\ DOMAIN t = 1 .. Len(d) + 1 /\ DOMAIN d = 1 .. Len(d)
      /\ \A i \in 1 .. n : t[i] = d[i]
      /\ t[n + 1] = a
      /\ \A i \in n + 1 .. Len(d) : t[i + 1] = d[i]
  BY PutBetween
<1> HIDE DEF t
<1> DEFINE g(i) == IF i <= n THEN i ELSE i - 1
           h(i) == IF i <= n THEN i ELSE i + 1
<1>2. ASSUME NEW i \in DOMAIN t, i # n + 1 PROVE g(i) \in DOMAIN d /\ t[i] = d[g(i)]
  <2>1. CASE i <= n
    <3>1. i \in 1 .. n /\ i \in DOMAIN d
      BY <1>1, <2>1
    <3> QED BY <1>1, <2>1, <3>1
  <2>2. CASE ~ (i <= n)
    <3>1. i \in 1 .. Len(d) + 1 /\ i # n + 1
      BY <1>1, <1>2
    <3>2. i - 1 \in n + 1 .. Len(d) /\ (i - 1) + 1 = i
      BY <1>1, <2>2, <3>1
    <3>3. i - 1 \in DOMAIN d
      BY <1>1, <3>2
    <3> QED BY <1>1, <2>2, <3>1, <3>2, <3>3
  <2> QED BY <2>1, <2>2
<1>3. ASSUME NEW j \in DOMAIN d PROVE h(j) \in DOMAIN t /\ t[h(j)] = d[j]
  <2>1. CASE j <= n
    <3>1. j \in 1 .. n /\ j \in DOMAIN t
      BY <1>1, <2>1
    <3> QED BY <1>1, <2>1, <3>1
  <2>2. CASE ~ (j <= n)
    <3>1. j \in n + 1 .. Len(d) /\ j + 1 \in DOMAIN t
      BY <1>1, <2>2
    <3> QED BY <1>1, <2>2, <3>1
  <2> QED BY <2>1, <2>2
<1>4. ASSUME NEW i \in DOMAIN t, i # n + 1, NEW j \in DOMAIN d, g(i) < j PROVE i < h(j)
  <2>1. i \in Nat /\ j \in Nat
    BY <1>1
  <2> QED BY <1>1, <1>4, <2>1
<1> HIDE DEF g, h
<1>5. ASSUME Tells(d, f, p), NEW i \in DOMAIN t, About(t[i], f) \/ ReadOf(t[i], f),
             \A j \in DOMAIN t : i < j => ~ About(t[j], f)
      PROVE  Agrees(t[i], f, p)
  <2>1. CASE i = n + 1
    BY <1>1, <1>5, <2>1
  <2>2. CASE i # n + 1
    <3>1. g(i) \in DOMAIN d /\ t[i] = d[g(i)]
      BY <1>2, <2>2
    <3>2. \A j \in DOMAIN d : g(i) < j => ~ About(d[j], f)
      BY <1>3, <1>4, <1>5, <2>2
    <3> QED BY <1>5, <3>1, <3>2 DEF Tells
  <2> QED BY <2>1, <2>2
<1>6. Tells(d, f, p) => Tells(t, f, p)
  BY <1>5 DEF Tells
<1>7. Untold(t, f) => Untold(d, f)
  BY <1>3 DEF Untold
<1> QED BY <1>6, <1>7 DEF t

(* The list of the keys there are has all of them.                           *)
LEMMA AllListed ==
  ASSUME NEW S, IsFiniteSet(S)
  PROVE  SetToSeq(S) \in Seq(S) /\ Range(SetToSeq(S)) = S
<1> DEFINE n == Cardinality(S)
           l == SetToSeq(S)
<1>1. n \in Nat /\ IsFiniteSet(1 .. n) /\ Cardinality(1 .. n) = n
  <2>1. n \in Nat
    BY FS_CardinalityType
  <2> HIDE DEF n
  <2>2. IsFiniteSet(1 .. n) /\ Cardinality(1 .. n) = IF 1 > n THEN 0 ELSE n - 1 + 1
    BY <2>1, FS_Interval
  <2> QED BY <2>1, <2>2
<1>2. ExistsBijection(1 .. n, S)
  BY <1>1, FS_SameCardinalityBij
<1>3. \E f \in [1 .. n -> S] : IsInjective(f)
  BY <1>2 DEF ExistsBijection, Bijection, Injection
<1>4. l \in [1 .. n -> S] /\ IsInjective(l)
  BY <1>3 DEF SetToSeq
<1> HIDE DEF l, n
<1>5. l \in Injection(1 .. n, S)
  BY <1>4 DEF Injection
<1>6. l \in Surjection(1 .. n, S)
  BY <1>1, <1>5, FS_Injection DEF n
<1>7. Range(l) = S
  BY <1>4, <1>6 DEF Surjection, Range
<1>8. l \in Seq(S)
  BY <1>1, <1>4, SeqDef
<1> QED BY <1>7, <1>8 DEF l

LEMMA TellsSame ==
  ASSUME NEW d, NEW f, NEW p, NEW q, f \in DOMAIN p <=> f \in DOMAIN q,
         f \in DOMAIN p => p[f] = q[f], Tells(d, f, p)
  PROVE  Tells(d, f, q)
BY DEF Tells, Agrees

LEMMA FileKept ==
  ASSUME NEW f, FileFollowed(f),
         Tells(down', f, plugged'), Untold(down', f) => Untold(down, f),
         f \in DOMAIN plugged' <=> f \in DOMAIN plugged, f \in DOMAIN plugged => plugged'[f] = plugged[f],
         f \in DOMAIN plugins' <=> f \in DOMAIN plugins, f \in DOMAIN plugins => plugins'[f] = plugins[f],
         \A i \in imports' : i.f = f => i \in imports,
         \A i \in imports : i.f = f => i \in imports',
         (f \in DOMAIN plugged /\ ToBeLoaded(f)) => ToBeLoaded(f)'
  PROVE  FileFollowed(f)'
<1>1. \A i \in imports' : i.f = f =>
        /\ i.fetched = "file" => f \in DOMAIN plugged'
        /\ i.fetched = "nothing" => f \notin DOMAIN plugged'
  BY DEF FileFollowed
<1>2. ASSUME Untold(down', f)
      PROVE  /\ f \notin DOMAIN plugged' => f \notin DOMAIN plugins'
             /\ f \in DOMAIN plugged' =>
                  /\ \A i \in imports' : i.f = f => i.t = plugged'[f]
                  /\ ToBeLoaded(f)' \/ Importing(f)' \/ (f \in DOMAIN plugins' /\ plugins'[f] = plugged'[f])
  BY <1>2 DEF FileFollowed, Importing
<1> QED BY <1>1, <1>2 DEF FileFollowed

(* The messages, and what the loop does, when nothing is new.                *)
LEMMA LoopKept ==
  ASSUME LoopRight, toLoad' = toLoad, loadingPlugins' = loadingPlugins, imports' = imports,
         \A i \in DOMAIN up' : Looping(up'[i]) => \E j \in DOMAIN up : up'[i] = up[j],
         \A i \in DOMAIN down' : Looping(down'[i]) => \E j \in DOMAIN down : down'[i] = down[j],
         Idle(up) => Idle(up'), AtMostOnce(up) => AtMostOnce(up'),
         Idle(down) => Idle(down'), AtMostOnce(down) => AtMostOnce(down')
  PROVE  LoopRight'
<1>1. OneAtATime'
  BY DEF LoopRight, OneAtATime, NoneByLoop, OneByLoop
<1>2. ForTheFirst(up)'
  BY DEF LoopRight, ForTheFirst, Looping
<1>3. ForTheFirst(down)'
  BY DEF LoopRight, ForTheFirst, Looping
<1> QED BY <1>1, <1>2, <1>3 DEF LoopRight

------------------------------------------------------------------------------
(* The directory changes.                                                    *)
LEMMA FileChangesSound ==
  ASSUME PluginsInv, NEW f0 \in PluginFiles, FileChanges(f0)
  PROVE  PluginsInv'
<1> USE DEF PluginsInv
<1> DEFINE n == filechanges + 1
           a == Event([what |-> "plugged", f |-> f0, t |-> n])
           b == Event([what |-> "unplugged", f |-> f0])
<1>1. /\ filechanges < MaxFileChanges /\ filechanges' = n
      /\ crossed' = crossed \cup Imported(f0)
      /\ UNCHANGED <<up, pluginWatch, deletionWatch, plugins, routes, dynamicRoutes, toLoad, loadingPlugins, imports>>
      /\ \/ /\ plugged' = With(plugged, f0, n)
            /\ down' = IF pluginWatch THEN Append(down, a) ELSE down
            /\ unseen' = IF pluginWatch THEN unseen ELSE unseen \cup {f0}
         \/ /\ plugged' = Without(plugged, f0)
            /\ down' = IF deletionWatch THEN Append(down, b) ELSE down
            /\ unseen' = IF deletionWatch THEN unseen ELSE unseen \cup {f0}
  BY DEF FileChanges, Tell, shown_q
<1>2. filechanges \in Nat /\ MaxFileChanges \in Nat /\ n \in 0 .. MaxFileChanges /\ n \in Nat
      /\ filechanges \in 0 .. n
  BY <1>1, PluginFilesAssumption DEF PluginsViewTypeOK
<1>3. /\ a.what = "plugged" /\ a.f = f0 /\ a.t = n
      /\ b.what = "unplugged" /\ b.f = f0
  BY DEF Event
<1> HIDE DEF a, b, n
<1>4. ASSUME plugged' = With(plugged, f0, n)
      PROVE  /\ DOMAIN plugged' = DOMAIN plugged \cup {f0} /\ plugged'[f0] = n
             /\ \A g \in DOMAIN plugged : g # f0 => plugged'[g] = plugged[g]
  BY <1>4 DEF With
<1>5. ASSUME plugged' = Without(plugged, f0)
      PROVE  /\ DOMAIN plugged' = DOMAIN plugged \ {f0}
             /\ \A g \in DOMAIN plugged' : plugged'[g] = plugged[g]
  BY <1>5 DEF Without
<1>6. PICK m : /\ m.what \in {"plugged", "unplugged"} /\ m.f = f0 /\ (m.what = "plugged" => m.t = n)
               /\ Agrees(m, f0, plugged')
               /\ \/ down' = Append(down, m) /\ unseen' = unseen
                  \/ down' = down /\ unseen' = unseen \cup {f0}
  <2>1. CASE /\ plugged' = With(plugged, f0, n)
             /\ down' = IF pluginWatch THEN Append(down, a) ELSE down
             /\ unseen' = IF pluginWatch THEN unseen ELSE unseen \cup {f0}
    <3>1. Agrees(a, f0, plugged')
      BY <1>3, <1>4, <2>1 DEF Agrees
    <3> QED BY <1>3, <2>1, <3>1
  <2>2. CASE /\ plugged' = Without(plugged, f0)
             /\ down' = IF deletionWatch THEN Append(down, b) ELSE down
             /\ unseen' = IF deletionWatch THEN unseen ELSE unseen \cup {f0}
    <3>1. Agrees(b, f0, plugged')
      BY <1>3, <1>5, <2>2 DEF Agrees
    <3> QED BY <1>3, <2>2, <3>1
  <2> QED BY <1>1, <2>1, <2>2
<1>7. /\ DOMAIN plugged' \subseteq DOMAIN plugged \cup {f0}
      /\ \A g : g # f0 => /\ g \in DOMAIN plugged' <=> g \in DOMAIN plugged
                          /\ g \in DOMAIN plugged => plugged'[g] = plugged[g]
      /\ f0 \in DOMAIN plugged' => plugged'[f0] \in {n}
  BY <1>1, <1>4, <1>5
<1>8. /\ IsList(down')
      /\ \A i \in DOMAIN down' : down'[i] = m \/ \E j \in DOMAIN down : down'[i] = down[j]
  <2>1. IsList(down)
    BY DEF PluginMessages
  <2> QED BY <1>6, <2>1, DownAppended
<1>9. PluginsViewTypeOK' /\ RoutesMatch'
  <2>1. crossed' \subseteq PluginFiles /\ unseen' \subseteq PluginFiles
    BY <1>1, <1>6 DEF Imported, PluginsViewTypeOK
  <2>2. DOMAIN plugged' \subseteq PluginFiles
    BY <1>7 DEF PluginsViewTypeOK
  <2> QED BY <1>1, <1>2, <2>1, <2>2 DEF PluginsViewTypeOK, RoutesMatch
<1>10. PluginMessages'
  <2>1. \A f \in DOMAIN plugged' : plugged'[f] \in 0 .. filechanges'
    <3> SUFFICES ASSUME NEW f \in DOMAIN plugged' PROVE plugged'[f] \in 0 .. n
      BY <1>1
    <3>1. CASE f = f0
      BY <1>2, <1>7, <3>1
    <3>2. CASE f # f0
      <4>1. plugged'[f] = plugged[f] /\ f \in DOMAIN plugged
        BY <1>7, <3>2
      <4>2. plugged[f] \in 0 .. filechanges
        BY <4>1 DEF PluginMessages
      <4> QED BY <1>2, <4>1, <4>2
    <3> QED BY <3>1, <3>2
  <2>2. \A i \in DOMAIN down' :
           /\ down'[i].what \in {"plugged", "unplugged", "plugread"} => down'[i].f \in PluginFiles
           /\ down'[i].what \in {"plugged", "plugread"} => down'[i].t \in 0 .. MaxFileChanges
           /\ down'[i].what = "pluglist" => down'[i].fs \in Seq(PluginFiles)
    <3> SUFFICES ASSUME NEW i \in DOMAIN down'
                 PROVE  /\ down'[i].what \in {"plugged", "unplugged", "plugread"} => down'[i].f \in PluginFiles
                        /\ down'[i].what \in {"plugged", "plugread"} => down'[i].t \in 0 .. MaxFileChanges
                        /\ down'[i].what = "pluglist" => down'[i].fs \in Seq(PluginFiles)
      OBVIOUS
    <3>1. CASE down'[i] = m
      BY <1>2, <1>6, <3>1
    <3>2. CASE \E j \in DOMAIN down : down'[i] = down[j]
      BY <3>2 DEF PluginMessages
    <3> QED BY <1>8, <3>1, <3>2
  <2> QED BY <1>1, <1>8, <2>1, <2>2 DEF PluginMessages
<1>11. ~ Looping(m)
  BY <1>6 DEF Looping
<1>12. LoopRight'
  <2>1. (Idle(down) => Idle(down')) /\ (AtMostOnce(down) => AtMostOnce(down'))
    BY <1>6, <1>11, LoopPutBehind DEF PluginMessages
  <2> QED BY <1>1, <1>8, <1>11, <2>1, LoopKept
<1>13. ASSUME NEW f \in PluginFiles, f \notin crossed', f \notin unseen' PROVE FileFollowed(f)'
  <2>1. FileFollowed(f) /\ IsList(down)
    BY <1>1, <1>6, <1>13 DEF FilesFollowed, PluginMessages
  <2>2. CASE f = f0
    <3>1. \A i \in imports' : i.f # f
      BY <1>1, <1>13, <2>2 DEF Imported
    <3>2. down' = Append(down, m) /\ About(m, f) /\ Agrees(m, f, plugged')
      BY <1>6, <1>13, <2>2 DEF About
    <3>3. Tells(down', f, plugged') /\ ~ Untold(down', f)
      BY <2>1, <3>2, TellsMore
    <3> QED BY <3>1, <3>3 DEF FileFollowed
  <2>3. CASE f # f0
    <3>1. ~ About(m, f) /\ ~ ReadOf(m, f)
      BY <1>6, <2>3 DEF About, ReadOf
    <3>2. Tells(down, f, plugged) /\ (f \in DOMAIN plugged' <=> f \in DOMAIN plugged)
          /\ (f \in DOMAIN plugged => plugged'[f] = plugged[f])
      BY <1>7, <2>1, <2>3 DEF FileFollowed
    <3>3. Tells(down, f, plugged')
      BY <3>2, TellsSame
    <3>4. Tells(down', f, plugged') /\ (Untold(down', f) => Untold(down, f))
      BY <1>6, <2>1, <3>1, <3>3, TellsMore
    <3>5. \A i \in DOMAIN down : \E j \in DOMAIN down' : down'[j] = down[i]
      BY <1>6, <2>1, DownAppended
    <3>6. ToBeLoaded(f) => ToBeLoaded(f)'
      BY <1>1, <3>5 DEF ToBeLoaded
    <3> QED BY <1>1, <2>1, <3>2, <3>4, <3>6, FileKept
  <2> QED BY <2>2, <2>3
<1> QED BY <1>9, <1>10, <1>12, <1>13 DEF FilesFollowed

(* The server takes the calls.                                               *)
Unmoved ==
  UNCHANGED <<plugged, filechanges, plugins, routes, dynamicRoutes, toLoad, loadingPlugins,
              imports, crossed, unseen>>

LEMMA CallTaken ==
  ASSUME PluginsInv, up # <<>>, up' = Tail(up), down' = down, Unmoved,
         pluginWatch' \in BOOLEAN, deletionWatch' \in BOOLEAN, ~ Looping(Head(up))
  PROVE  PluginsInv'
<1> USE DEF PluginsInv, Unmoved
<1>1. IsList(up) /\ IsList(down)
  BY DEF PluginMessages
<1>2. /\ IsList(up') /\ Head(up) = up[1]
      /\ \A i \in DOMAIN up' : i + 1 \in DOMAIN up /\ up'[i] = up[i + 1]
      /\ \A i \in DOMAIN up : i = 1 \/ \E j \in DOMAIN up' : i = j + 1
  BY <1>1, UpTaken
<1>3. (Idle(up) => Idle(up')) /\ (AtMostOnce(up) => AtMostOnce(up'))
  BY <1>1, LoopTaken
<1>4. PluginMessages'
  BY <1>1, <1>2 DEF PluginMessages
<1>5. LoopRight'
  BY <1>2, <1>3, LoopKept
<1>6. ASSUME NEW f, ToBeLoaded(f) PROVE ToBeLoaded(f)'
  <2>1. \A i \in DOMAIN up : up[i].what = "pluglist" => \E j \in DOMAIN up' : up'[j].what = "pluglist"
    BY <1>2 DEF Looping
  <2> QED BY <1>6, <2>1 DEF ToBeLoaded
<1>7. FilesFollowed'
  <2> SUFFICES ASSUME NEW f \in PluginFiles, f \notin crossed, f \notin unseen PROVE FileFollowed(f)'
    BY DEF FilesFollowed
  <2>1. FileFollowed(f)
    BY DEF FilesFollowed
  <2>2. Tells(down', f, plugged')
    BY <2>1 DEF FileFollowed
  <2> QED BY <1>6, <2>1, <2>2, FileKept
<1>8. PluginsViewTypeOK' /\ RoutesMatch'
  BY DEF PluginsViewTypeOK, RoutesMatch
<1> QED BY <1>4, <1>5, <1>7, <1>8

LEMMA AnswerSent ==
  ASSUME PluginsInv, up # <<>>, NEW a, Serve(a), Unmoved, UNCHANGED <<pluginWatch, deletionWatch>>,
         a.what \notin {"plugged", "unplugged"},
         a.what = "plugread" => /\ a.f \in PluginFiles /\ a.t \in 0 .. MaxFileChanges
                                /\ Agrees(a, a.f, plugged) /\ toLoad # <<>> /\ a.f = toLoad[1],
         a.what = "pluglist" => a.fs \in Seq(PluginFiles) /\ Range(a.fs) = DOMAIN plugged /\ toLoad = <<>>,
         Looping(a) <=> Looping(Head(up)),
         Head(up).what = "pluglist" => a.what = "pluglist"
  PROVE  PluginsInv'
<1> USE DEF PluginsInv, Unmoved
<1>1. IsList(up) /\ IsList(down)
  BY DEF PluginMessages
<1>2. up' = Tail(up)
  BY DEF Serve
<1>3. /\ IsList(up') /\ Head(up) = up[1] /\ 1 \in DOMAIN up
      /\ \A i \in DOMAIN up' : i + 1 \in DOMAIN up /\ up'[i] = up[i + 1]
      /\ \A i \in DOMAIN up : i = 1 \/ \E j \in DOMAIN up' : i = j + 1
  BY <1>1, <1>2, UpTaken
<1>4. PICK n \in 0 .. Len(down) : down' = InsertAt(down, n + 1, a)
  BY DEF Serve
<1>5. /\ IsList(down')
      /\ \A i \in DOMAIN down' : down'[i] = a \/ \E j \in DOMAIN down : down'[i] = down[j]
      /\ \A j \in DOMAIN down : \E i \in DOMAIN down' : down'[i] = down[j]
      /\ \E i \in DOMAIN down' : down'[i] = a
  BY <1>1, DownServed
<1>6. PluginMessages'
  <2>1. \A i \in DOMAIN down' :
           /\ down'[i].what \in {"plugged", "unplugged", "plugread"} => down'[i].f \in PluginFiles
           /\ down'[i].what \in {"plugged", "plugread"} => down'[i].t \in 0 .. MaxFileChanges
           /\ down'[i].what = "pluglist" => down'[i].fs \in Seq(PluginFiles)
    <3> SUFFICES ASSUME NEW i \in DOMAIN down'
                 PROVE  /\ down'[i].what \in {"plugged", "unplugged", "plugread"} => down'[i].f \in PluginFiles
                        /\ down'[i].what \in {"plugged", "plugread"} => down'[i].t \in 0 .. MaxFileChanges
                        /\ down'[i].what = "pluglist" => down'[i].fs \in Seq(PluginFiles)
      OBVIOUS
    <3>1. CASE down'[i] = a
      BY <3>1
    <3>2. CASE \E j \in DOMAIN down : down'[i] = down[j]
      BY <3>2 DEF PluginMessages
    <3> QED BY <1>5, <3>1, <3>2
  <2> QED BY <1>3, <1>5, <2>1 DEF PluginMessages
<1>7. /\ Idle(up) => Idle(up') /\ ~ Looping(Head(up))
      /\ AtMostOnce(up) => AtMostOnce(up')
      /\ (AtMostOnce(up) /\ Looping(Head(up))) => Idle(up')
  BY <1>1, <1>2, LoopTaken
<1>8. /\ (Idle(down) /\ ~ Looping(a)) => Idle(down')
      /\ Idle(down) => AtMostOnce(down')
      /\ (AtMostOnce(down) /\ ~ Looping(a)) => AtMostOnce(down')
  BY <1>1, <1>4, LoopPut
<1>9. OneAtATime'
  <2>1. (NoneByLoop => NoneByLoop') /\ (OneByLoop => OneByLoop')
    BY DEF NoneByLoop, OneByLoop
  <2>2. OneAtATime
    BY DEF LoopRight
  <2> QED BY <1>7, <1>8, <2>1, <2>2 DEF OneAtATime
<1>10. ForTheFirst(up)'
  BY <1>3 DEF LoopRight, ForTheFirst
<1>11. ForTheFirst(down)'
  BY <1>5 DEF LoopRight, ForTheFirst
<1>12. LoopRight'
  BY <1>9, <1>10, <1>11 DEF LoopRight
<1>13. FilesFollowed'
  <2> SUFFICES ASSUME NEW f \in PluginFiles, f \notin crossed, f \notin unseen PROVE FileFollowed(f)'
    BY DEF FilesFollowed
  <2>1. FileFollowed(f)
    BY DEF FilesFollowed
  <2>2. ~ About(a, f) /\ (ReadOf(a, f) => Agrees(a, f, plugged))
    BY DEF About, ReadOf
  <2>3. Tells(down', f, plugged') /\ (Untold(down', f) => Untold(down, f))
    BY <1>1, <1>4, <2>1, <2>2, TellsAnswer DEF FileFollowed
  <2>4. ASSUME f \in DOMAIN plugged, ToBeLoaded(f) PROVE ToBeLoaded(f)'
    <3>1. CASE Head(up).what = "pluglist"
      <4>1. PICK i \in DOMAIN down' : down'[i] = a
        BY <1>5
      <4>2. down'[i].what = "pluglist" /\ f \in Range(down'[i].fs)
        BY <2>4, <3>1, <4>1
      <4> QED BY <4>2 DEF ToBeLoaded
    <3>2. CASE Head(up).what # "pluglist"
      <4>1. \A i \in DOMAIN up : up[i].what = "pluglist" => \E j \in DOMAIN up' : up'[j].what = "pluglist"
        BY <1>3, <3>2
      <4>2. \A j \in DOMAIN down : (down[j].what = "pluglist" /\ f \in Range(down[j].fs)) =>
              \E i \in DOMAIN down' : down'[i].what = "pluglist" /\ f \in Range(down'[i].fs)
        BY <1>5
      <4> QED BY <2>4, <4>1, <4>2 DEF ToBeLoaded
    <3> QED BY <3>1, <3>2
  <2> QED BY <2>1, <2>3, <2>4, FileKept
<1>14. PluginsViewTypeOK' /\ RoutesMatch'
  BY DEF PluginsViewTypeOK, RoutesMatch
<1> QED BY <1>6, <1>12, <1>13, <1>14

LEMMA ServePluginsSound == ASSUME PluginsInv, ServePlugins PROVE PluginsInv'
<1>1. Unmoved
  BY DEF ServePlugins, Unmoved, shown_q
<1>2. pluginWatch \in BOOLEAN /\ deletionWatch \in BOOLEAN /\ DOMAIN plugged \subseteq PluginFiles
      /\ IsFiniteSet(DOMAIN plugged)
  BY FS_Subset, PluginFilesAssumption DEF PluginsInv, PluginsViewTypeOK
<1>3. up # <<>> => Head(up) = up[1] /\ 1 \in DOMAIN up
  BY FirstGone DEF PluginsInv, PluginMessages
<1>4. CASE Serving("plugwatch") /\ Serve([what |-> "plugwatch"]) /\ UNCHANGED <<pluginWatch, deletionWatch>>
  BY <1>1, <1>4, AnswerSent DEF Serving, Looping
<1>5. CASE Serving("plugsub") /\ up' = Tail(up) /\ pluginWatch' = TRUE /\ UNCHANGED <<down, deletionWatch>>
  BY <1>1, <1>2, <1>5, CallTaken DEF Serving, Looping
<1>6. CASE Serving("plugdeletions") /\ up' = Tail(up) /\ deletionWatch' = TRUE /\ UNCHANGED <<down, pluginWatch>>
  BY <1>1, <1>2, <1>6, CallTaken DEF Serving, Looping
<1>7. CASE /\ Serving("pluglist") /\ Serve([what |-> "pluglist", fs |-> SetToSeq(DOMAIN plugged)])
           /\ UNCHANGED <<pluginWatch, deletionWatch>>
  <2> DEFINE a == [what |-> "pluglist", fs |-> SetToSeq(DOMAIN plugged)]
  <2>1. SetToSeq(DOMAIN plugged) \in Seq(DOMAIN plugged) /\ Range(SetToSeq(DOMAIN plugged)) = DOMAIN plugged
    BY <1>2, AllListed
  <2>2. SetToSeq(DOMAIN plugged) \in Seq(PluginFiles)
    BY <1>2, <2>1, SeqMonotonic
  <2>3. toLoad = <<>>
    BY <1>3, <1>7 DEF Serving, PluginsInv, LoopRight, ForTheFirst
  <2>4. a.what = "pluglist" /\ a.fs \in Seq(PluginFiles) /\ Range(a.fs) = DOMAIN plugged
    BY <2>1, <2>2
  <2>5. up # <<>> /\ Head(up).what = "pluglist" /\ Serve(a) /\ UNCHANGED <<pluginWatch, deletionWatch>>
    BY <1>7 DEF Serving
  <2> HIDE DEF a
  <2>6. Looping(a) /\ Looping(Head(up))
    BY <2>4, <2>5 DEF Looping
  <2> QED BY <1>1, <2>3, <2>4, <2>5, <2>6, AnswerSent
<1>8. CASE /\ Serving("plugread")
           /\ Serve([what |-> "plugread", f |-> Head(up).f,
                     t |-> IF Head(up).f \in DOMAIN plugged THEN plugged[Head(up).f] ELSE 0])
           /\ UNCHANGED <<pluginWatch, deletionWatch>>
  <2> DEFINE f == Head(up).f
             a == [what |-> "plugread", f |-> f, t |-> IF f \in DOMAIN plugged THEN plugged[f] ELSE 0]
  <2>1. f \in PluginFiles /\ toLoad # <<>> /\ f = toLoad[1]
    BY <1>3, <1>8 DEF Serving, PluginsInv, PluginMessages, LoopRight, ForTheFirst
  <2>2. (IF f \in DOMAIN plugged THEN plugged[f] ELSE 0) \in 0 .. MaxFileChanges
    <3>1. filechanges \in 0 .. MaxFileChanges
      BY DEF PluginsInv, PluginsViewTypeOK
    <3>2. f \in DOMAIN plugged => plugged[f] \in 0 .. filechanges
      BY DEF PluginsInv, PluginMessages
    <3> HIDE DEF f
    <3> QED BY <3>1, <3>2, PluginFilesAssumption
  <2>3. /\ a.what = "plugread" /\ a.f = f /\ a.t \in 0 .. MaxFileChanges
        /\ f \in DOMAIN plugged => a.t = plugged[f]
    BY <2>2
  <2>4. up # <<>> /\ Head(up).what = "plugread" /\ Serve(a) /\ UNCHANGED <<pluginWatch, deletionWatch>>
    BY <1>8 DEF Serving
  <2> HIDE DEF a, f
  <2>5. Agrees(a, a.f, plugged) /\ Looping(a) /\ Looping(Head(up))
    BY <2>3, <2>4 DEF Agrees, Looping
  <2> QED BY <1>1, <2>1, <2>3, <2>4, <2>5, AnswerSent
<1> QED BY <1>4, <1>5, <1>6, <1>7, <1>8 DEF ServePlugins

(* The loop takes up a list of files.                                        *)
LEMMA Loaded ==
  ASSUME PluginMessages, Idle(up), NEW fs \in Seq(PluginFiles), Load(fs)
  PROVE  /\ IsList(up') /\ AtMostOnce(up') /\ ForTheFirst(up)'
         /\ toLoad' = fs /\ loadingPlugins' \in BOOLEAN /\ (~ loadingPlugins' => toLoad' = <<>>)
         /\ \A i \in DOMAIN up' : up'[i].what = "plugread" => up'[i].f \in PluginFiles
         /\ \A i \in DOMAIN up : \E j \in DOMAIN up' : up'[j] = up[i]
<1>1. IsList(up)
  BY DEF PluginMessages
<1>2. toLoad' = fs /\ loadingPlugins' = (fs # <<>>)
      /\ Ask(IF fs = <<>> THEN <<>> ELSE <<[what |-> "plugread", f |-> fs[1]]>>)
  BY DEF Load
<1>3. toLoad' = fs /\ loadingPlugins' \in BOOLEAN /\ (~ loadingPlugins' => toLoad' = <<>>)
  BY <1>2
<1>4. CASE fs = <<>>
  <2>1. up' = up
    <3>1. up' = up \o <<>>
      BY <1>2, <1>4 DEF Ask
    <3>2. up \in Seq(Range(up))
      BY <1>1 DEF IsList
    <3> QED BY <3>1, <3>2, ConcatEmptySeq
  <2>2. AtMostOnce(up') /\ ForTheFirst(up)'
    BY <2>1 DEF Idle, AtMostOnce, ForTheFirst, Looping
  <2> QED BY <1>1, <1>3, <2>1, <2>2 DEF PluginMessages
<1>5. CASE fs # <<>>
  <2> DEFINE c == [what |-> "plugread", f |-> fs[1]]
  <2>1. Ask(<<c>>)
    BY <1>2, <1>5
  <2>2. c.what = "plugread" /\ c.f = fs[1] /\ fs[1] \in PluginFiles
    <3>1. fs[1] \in PluginFiles
      BY <1>5, EmptySeq, ElementOfSeq
    <3> QED BY <3>1
  <2> HIDE DEF c
  <2>3. /\ up' = Append(up, c) /\ IsList(up')
        /\ \A i \in DOMAIN up : i \in DOMAIN up' /\ up'[i] = up[i]
        /\ \A i \in DOMAIN up' : up'[i] = c \/ (i \in DOMAIN up /\ up'[i] = up[i])
    BY <1>1, <2>1, UpAsked
  <2>4. AtMostOnce(up')
    BY <1>1, <2>3, LoopPutBehind
  <2>5. \A i \in DOMAIN up' : /\ up'[i].what = "plugread" => toLoad' # <<>> /\ up'[i].f = toLoad'[1]
                              /\ up'[i].what = "pluglist" => toLoad' = <<>>
    BY <1>3, <1>5, <2>2, <2>3 DEF Idle, Looping
  <2>6. ForTheFirst(up)'
    BY <2>5 DEF ForTheFirst
  <2>7. \A i \in DOMAIN up' : up'[i].what = "plugread" => up'[i].f \in PluginFiles
    BY <2>2, <2>3 DEF PluginMessages
  <2> QED BY <1>3, <2>3, <2>4, <2>6, <2>7
<1> QED BY <1>4, <1>5

(* The page takes the first message.                                         *)
LEMMA FirstTaken ==
  ASSUME PluginsInv, down # <<>>, Got
  PROVE  /\ IsList(up) /\ IsList(down') /\ down' = Tail(down) /\ Head(down) = down[1] /\ 1 \in DOMAIN down
         /\ \A i \in DOMAIN down' : i + 1 \in DOMAIN down /\ down'[i] = down[i + 1]
         /\ \A i \in DOMAIN down : i = 1 \/ \E j \in DOMAIN down' : i = j + 1
         /\ \A i \in DOMAIN down' :
              /\ down'[i].what \in {"plugged", "unplugged", "plugread"} => down'[i].f \in PluginFiles
              /\ down'[i].what \in {"plugged", "plugread"} => down'[i].t \in 0 .. MaxFileChanges
              /\ down'[i].what = "pluglist" => down'[i].fs \in Seq(PluginFiles)
         /\ Head(down).what \in {"plugged", "unplugged", "plugread"} => Head(down).f \in PluginFiles
         /\ Head(down).what \in {"plugged", "plugread"} => Head(down).t \in 0 .. MaxFileChanges
         /\ Head(down).what = "pluglist" => Head(down).fs \in Seq(PluginFiles)
<1>1. IsList(up) /\ IsList(down)
  BY DEF PluginsInv, PluginMessages
<1>2. /\ IsList(down') /\ 1 \in DOMAIN down /\ Head(down) = down[1]
      /\ \A i \in DOMAIN down' : i + 1 \in DOMAIN down /\ down'[i] = down[i + 1]
      /\ \A i \in DOMAIN down : i = 1 \/ \E j \in DOMAIN down' : i = j + 1
  BY <1>1, DownTaken
<1>3. \A i \in DOMAIN down :
        /\ down[i].what \in {"plugged", "unplugged", "plugread"} => down[i].f \in PluginFiles
        /\ down[i].what \in {"plugged", "plugread"} => down[i].t \in 0 .. MaxFileChanges
        /\ down[i].what = "pluglist" => down[i].fs \in Seq(PluginFiles)
  BY DEF PluginsInv, PluginMessages
<1>4. \A i \in DOMAIN down' :
        /\ down'[i].what \in {"plugged", "unplugged", "plugread"} => down'[i].f \in PluginFiles
        /\ down'[i].what \in {"plugged", "plugread"} => down'[i].t \in 0 .. MaxFileChanges
        /\ down'[i].what = "pluglist" => down'[i].fs \in Seq(PluginFiles)
  BY <1>2, <1>3
<1> QED BY <1>1, <1>2, <1>3, <1>4 DEF Got

LEMMA PluginListSound == ASSUME PluginsInv, PluginListArrives PROVE PluginsInv'
<1> USE DEF PluginsInv
<1>1. /\ down # <<>> /\ Got
      /\ UNCHANGED <<plugged, filechanges, pluginWatch, deletionWatch, plugins, routes, dynamicRoutes,
                     imports, crossed, unseen>>
      /\ \/ Head(down).what = "plugwatch" /\ Ask(<<[what |-> "plugsub"]>>) /\ UNCHANGED <<toLoad, loadingPlugins>>
         \/ Head(down).what = "pluglist" /\ Load(Head(down).fs)
  BY DEF PluginListArrives, Getting, server_q, shown_q
<1>2. /\ IsList(up) /\ IsList(down') /\ down' = Tail(down) /\ Head(down) = down[1] /\ 1 \in DOMAIN down
      /\ \A i \in DOMAIN down' : i + 1 \in DOMAIN down /\ down'[i] = down[i + 1]
      /\ \A i \in DOMAIN down : i = 1 \/ \E j \in DOMAIN down' : i = j + 1
      /\ \A i \in DOMAIN down' :
              /\ down'[i].what \in {"plugged", "unplugged", "plugread"} => down'[i].f \in PluginFiles
              /\ down'[i].what \in {"plugged", "plugread"} => down'[i].t \in 0 .. MaxFileChanges
              /\ down'[i].what = "pluglist" => down'[i].fs \in Seq(PluginFiles)
      /\ Head(down).what = "pluglist" => Head(down).fs \in Seq(PluginFiles)
  BY <1>1, FirstTaken
<1>3. IsList(down)
  BY DEF PluginMessages
<1>4. /\ Idle(down) => Idle(down') /\ ~ Looping(Head(down))
      /\ AtMostOnce(down) => AtMostOnce(down')
      /\ (AtMostOnce(down) /\ Looping(Head(down))) => Idle(down')
  BY <1>1, <1>2, <1>3, LoopTaken
<1>5. ASSUME NEW f, FileFollowed(f)
      PROVE  Tells(down', f, plugged') /\ (Untold(down', f) => Untold(down, f))
  <2>1. ~ About(Head(down), f)
    BY <1>1 DEF About
  <2> QED BY <1>1, <1>2, <1>3, <1>5, <2>1, TellsBehind DEF FileFollowed
<1>6. CASE /\ Head(down).what = "plugwatch" /\ Ask(<<[what |-> "plugsub"]>>)
           /\ UNCHANGED <<toLoad, loadingPlugins>>
  <2> DEFINE c == [what |-> "plugsub"]
  <2>1. c.what = "plugsub" /\ Ask(<<c>>)
    BY <1>6
  <2> HIDE DEF c
  <2>2. /\ up' = Append(up, c) /\ IsList(up')
        /\ \A i \in DOMAIN up : i \in DOMAIN up' /\ up'[i] = up[i]
        /\ \A i \in DOMAIN up' : up'[i] = c \/ (i \in DOMAIN up /\ up'[i] = up[i])
    BY <1>2, <2>1, UpAsked
  <2>3. ~ Looping(c)
    BY <2>1 DEF Looping
  <2>4. (Idle(up) => Idle(up')) /\ (AtMostOnce(up) => AtMostOnce(up'))
    BY <1>2, <2>2, <2>3, LoopPutBehind
  <2>5. LoopRight'
    BY <1>1, <1>2, <1>4, <1>6, <2>2, <2>3, <2>4, LoopKept
  <2>6. PluginMessages'
    BY <1>1, <1>2, <2>1, <2>2 DEF PluginMessages
  <2>7. FilesFollowed'
    <3> SUFFICES ASSUME NEW f \in PluginFiles, f \notin crossed, f \notin unseen PROVE FileFollowed(f)'
      BY <1>1 DEF FilesFollowed
    <3>1. FileFollowed(f)
      BY DEF FilesFollowed
    <3>2. ASSUME ToBeLoaded(f) PROVE ToBeLoaded(f)'
      <4>1. \A i \in DOMAIN down : (down[i].what = "pluglist" /\ f \in Range(down[i].fs)) =>
              \E j \in DOMAIN down' : down'[j].what = "pluglist" /\ f \in Range(down'[j].fs)
        BY <1>2, <1>6
      <4> QED BY <1>6, <2>2, <3>2, <4>1 DEF ToBeLoaded
    <3> QED BY <1>1, <1>5, <3>1, <3>2, FileKept
  <2>8. PluginsViewTypeOK' /\ RoutesMatch'
    BY <1>1, <1>6 DEF PluginsViewTypeOK, RoutesMatch
  <2> QED BY <2>5, <2>6, <2>7, <2>8
<1>7. CASE Head(down).what = "pluglist" /\ Load(Head(down).fs)
  <2> DEFINE fs == Head(down).fs
  <2>1. Looping(Head(down)) /\ fs \in Seq(PluginFiles) /\ Load(fs)
    BY <1>2, <1>7 DEF Looping
  <2>2. Idle(up) /\ AtMostOnce(down) /\ NoneByLoop
    BY <1>4, <2>1 DEF LoopRight, OneAtATime, Idle
  <2>3. toLoad = <<>>
    BY <1>2, <1>7 DEF LoopRight, ForTheFirst
  <2>4. \A i \in DOMAIN down : down[i].what = "pluglist" => down[i] = Head(down)
    BY <1>2, <2>1, <2>2 DEF AtMostOnce, Looping
  <2> HIDE DEF fs
  <2>5. /\ IsList(up') /\ AtMostOnce(up') /\ ForTheFirst(up)'
        /\ toLoad' = fs /\ loadingPlugins' \in BOOLEAN /\ (~ loadingPlugins' => toLoad' = <<>>)
        /\ \A i \in DOMAIN up' : up'[i].what = "plugread" => up'[i].f \in PluginFiles
        /\ \A i \in DOMAIN up : \E j \in DOMAIN up' : up'[j] = up[i]
    BY <2>1, <2>2, Loaded
  <2>6. Idle(down')
    BY <1>4, <2>1, <2>2
  <2>7. LoopRight'
    <3>1. OneAtATime'
      BY <1>1, <2>2, <2>5, <2>6 DEF OneAtATime, NoneByLoop
    <3>2. ForTheFirst(down)'
      BY <2>6 DEF ForTheFirst, Idle, Looping
    <3> QED BY <1>1, <2>2, <2>5, <3>1, <3>2 DEF LoopRight, NoneByLoop
  <2>8. PluginMessages'
    BY <1>1, <1>2, <2>5 DEF PluginMessages
  <2>9. FilesFollowed'
    <3> SUFFICES ASSUME NEW f \in PluginFiles, f \notin crossed, f \notin unseen PROVE FileFollowed(f)'
      BY <1>1 DEF FilesFollowed
    <3>1. FileFollowed(f)
      BY DEF FilesFollowed
    <3>2. ASSUME ToBeLoaded(f) PROVE ToBeLoaded(f)'
      <4>1. ~ (f \in Range(toLoad))
        BY <2>3 DEF Range
      <4>2. ~ \E i \in DOMAIN up : up[i].what = "pluglist"
        BY <2>2 DEF Idle, Looping
      <4>3. f \in Range(fs)
        BY <2>4, <3>2, <4>1, <4>2 DEF ToBeLoaded, fs
      <4> QED BY <2>5, <4>3 DEF ToBeLoaded
    <3> QED BY <1>1, <1>5, <3>1, <3>2, FileKept
  <2>10. PluginsViewTypeOK' /\ RoutesMatch'
    BY <1>1, <2>1, <2>5 DEF PluginsViewTypeOK, RoutesMatch
  <2> QED BY <2>7, <2>8, <2>9, <2>10
<1> QED BY <1>1, <1>6, <1>7

(* An import starts.                                                         *)
LEMMA ImportStarted ==
  ASSUME PluginsInv, down # <<>>, Got, NEW loop \in BOOLEAN,
         Head(down).what \in {"plugged", "plugread"}, loop <=> Head(down).what = "plugread",
         StartImport(Head(down).f, Head(down).t, loop),
         UNCHANGED <<up, plugged, filechanges, pluginWatch, deletionWatch, plugins, routes, dynamicRoutes,
                     toLoad, loadingPlugins, unseen>>
  PROVE  PluginsInv'
<1> USE DEF PluginsInv
<1> DEFINE m == Head(down)
           k == Import(m.f, m.t, loop)
<1>1. /\ IsList(up) /\ IsList(down') /\ down' = Tail(down) /\ m = down[1] /\ 1 \in DOMAIN down
      /\ \A i \in DOMAIN down' : i + 1 \in DOMAIN down /\ down'[i] = down[i + 1]
      /\ \A i \in DOMAIN down : i = 1 \/ \E j \in DOMAIN down' : i = j + 1
      /\ \A i \in DOMAIN down' :
              /\ down'[i].what \in {"plugged", "unplugged", "plugread"} => down'[i].f \in PluginFiles
              /\ down'[i].what \in {"plugged", "plugread"} => down'[i].t \in 0 .. MaxFileChanges
              /\ down'[i].what = "pluglist" => down'[i].fs \in Seq(PluginFiles)
      /\ m.f \in PluginFiles /\ m.t \in 0 .. MaxFileChanges
  BY FirstTaken
<1>2. IsList(down)
  BY DEF PluginMessages
<1>3. /\ Idle(down) => Idle(down') /\ ~ Looping(m)
      /\ AtMostOnce(down) => AtMostOnce(down')
      /\ (AtMostOnce(down) /\ Looping(m)) => Idle(down')
  BY <1>1, <1>2, LoopTaken
<1>4. /\ imports' = imports \cup {k} /\ crossed' = crossed \cup Imported(m.f)
      /\ k.f = m.f /\ k.t = m.t /\ k.loop = loop /\ k.fetched = "no"
      /\ k \in [f : PluginFiles, t : 0 .. MaxFileChanges, loop : BOOLEAN, fetched : {"no", "file", "nothing"}]
  BY <1>1 DEF StartImport, Import
<1>5. Looping(m) <=> loop
  BY DEF Looping
<1>6. m.what \in {"plugged", "plugread"} /\ (loop <=> m.what = "plugread")
  OBVIOUS
<1> HIDE DEF m, k
<1>7. PluginsViewTypeOK' /\ RoutesMatch'
  <2>1. crossed' \subseteq PluginFiles
    BY <1>1, <1>4 DEF Imported, PluginsViewTypeOK
  <2>2. imports' \subseteq [f : PluginFiles, t : 0 .. MaxFileChanges, loop : BOOLEAN, fetched : {"no", "file", "nothing"}]
    BY <1>4 DEF PluginsViewTypeOK
  <2> QED BY <2>1, <2>2 DEF PluginsViewTypeOK, RoutesMatch
<1>8. PluginMessages'
  BY <1>1 DEF PluginMessages
<1>9. OneAtATime'
  <2>1. OneAtATime
    BY DEF LoopRight
  <2>2. CASE loop
    <3>1. Idle(up) /\ Idle(down') /\ NoneByLoop
      BY <1>3, <1>5, <2>1, <2>2 DEF OneAtATime
    <3>2. OneByLoop'
      BY <1>4, <3>1 DEF NoneByLoop, OneByLoop
    <3> QED BY <3>1, <3>2 DEF OneAtATime
  <2>3. CASE ~ loop
    <3>1. (NoneByLoop => NoneByLoop') /\ (OneByLoop => OneByLoop')
      BY <1>4, <2>3 DEF NoneByLoop, OneByLoop
    <3> QED BY <1>3, <2>1, <3>1 DEF OneAtATime
  <2> QED BY <2>2, <2>3
<1>10. LoopRight'
  <2>1. ForTheFirst(down)' /\ ForTheFirst(up)'
    BY <1>1 DEF LoopRight, ForTheFirst
  <2>2. loop => toLoad # <<>> /\ k.f = toLoad[1]
    BY <1>1, <1>4, <1>6 DEF LoopRight, ForTheFirst
  <2>3. \A i \in imports' : i.loop => toLoad # <<>> /\ i.f = toLoad[1]
    BY <1>4, <2>2 DEF LoopRight
  <2> QED BY <1>9, <2>1, <2>3 DEF LoopRight
<1>11. ASSUME NEW g \in PluginFiles, g \notin crossed', g \notin unseen PROVE FileFollowed(g)'
  <2>1. FileFollowed(g)
    BY <1>4, <1>11 DEF FilesFollowed
  <2>2. /\ Tells(down, g, plugged) => Tells(down', g, plugged)
        /\ (Untold(down', g) /\ ~ About(m, g)) => Untold(down, g)
        /\ (Tells(down, g, plugged) /\ Untold(down', g) /\ (About(m, g) \/ ReadOf(m, g))) => Agrees(m, g, plugged)
    BY <1>1, <1>2, TellsBehind DEF m
  <2>3. Tells(down', g, plugged')
    BY <2>1, <2>2 DEF FileFollowed
  <2>4. CASE g = m.f
    <3>1. \A i \in imports : i.f # g
      BY <1>4, <1>11, <2>4 DEF Imported
    <3>2. \A i \in imports' : i.f = g => i = k
      BY <1>4, <3>1
    <3>3. About(m, g) \/ ReadOf(m, g)
      BY <1>6, <2>4 DEF About, ReadOf
    <3>4. ASSUME Untold(down', g)
          PROVE  /\ g \notin DOMAIN plugged => g \notin DOMAIN plugins
                 /\ g \in DOMAIN plugged => m.t = plugged[g]
      <4>1. Agrees(m, g, plugged)
        BY <2>1, <2>2, <3>3, <3>4 DEF FileFollowed
      <4>2. CASE m.what = "plugged"
        BY <4>1, <4>2 DEF Agrees
      <4>3. CASE m.what = "plugread"
        <5>1. Untold(down, g)
          BY <2>2, <3>4, <4>3 DEF About
        <5> QED BY <2>1, <4>1, <4>3, <5>1 DEF Agrees, FileFollowed
      <4> QED BY <1>6, <4>2, <4>3
    <3>5. \A i \in imports' : i.f = g => i.fetched = "no" /\ i.t = m.t
      BY <1>4, <3>2
    <3>6. Importing(g)'
      BY <1>4, <2>4 DEF Importing
    <3> QED BY <2>3, <3>4, <3>5, <3>6 DEF FileFollowed
  <2>5. CASE g # m.f
    <3>1. ~ About(m, g)
      BY <2>5 DEF About
    <3>2. \A i \in imports' : i.f = g => i \in imports
      BY <1>4, <2>5
    <3>3. ASSUME ToBeLoaded(g) PROVE ToBeLoaded(g)'
      <4>1. \A i \in DOMAIN down : (down[i].what = "pluglist" /\ g \in Range(down[i].fs)) =>
              \E j \in DOMAIN down' : down'[j].what = "pluglist" /\ g \in Range(down'[j].fs)
        BY <1>1, <1>6
      <4> QED BY <3>3, <4>1 DEF ToBeLoaded
    <3> QED BY <1>4, <2>1, <2>2, <2>3, <3>1, <3>2, <3>3, FileKept
  <2> QED BY <2>4, <2>5
<1> QED BY <1>7, <1>8, <1>10, <1>11 DEF FilesFollowed

LEMMA PluginReadSound == ASSUME PluginsInv, PluginReadArrives PROVE PluginsInv'
BY ImportStarted DEF PluginReadArrives, Getting, server_q, shown_q

LEMMA PluginChangeSound == ASSUME PluginsInv, PluginChangeArrives PROVE PluginsInv'
BY ImportStarted DEF PluginChangeArrives, Getting, server_q, shown_q

(* A plugin is deleted.                                                      *)
LEMMA DeletePluginSound == ASSUME PluginsInv, DeletePlugin PROVE PluginsInv'
<1> USE DEF PluginsInv
<1> DEFINE m == Head(down)
           f == m.f
<1>1. /\ down # <<>> /\ Got /\ m.what = "unplugged"
      /\ plugins' = Without(plugins, f)
      /\ routes' = routes \ {f} /\ dynamicRoutes' = dynamicRoutes \ {f}
      /\ crossed' = crossed \cup Imported(f)
      /\ UNCHANGED <<up, plugged, filechanges, pluginWatch, deletionWatch, toLoad, loadingPlugins, imports, unseen>>
  BY DEF DeletePlugin, Getting, server_q, RemoveRoute
<1>2. /\ IsList(up) /\ IsList(down') /\ down' = Tail(down) /\ m = down[1] /\ 1 \in DOMAIN down
      /\ \A i \in DOMAIN down' : i + 1 \in DOMAIN down /\ down'[i] = down[i + 1]
      /\ \A i \in DOMAIN down : i = 1 \/ \E j \in DOMAIN down' : i = j + 1
      /\ \A i \in DOMAIN down' :
              /\ down'[i].what \in {"plugged", "unplugged", "plugread"} => down'[i].f \in PluginFiles
              /\ down'[i].what \in {"plugged", "plugread"} => down'[i].t \in 0 .. MaxFileChanges
              /\ down'[i].what = "pluglist" => down'[i].fs \in Seq(PluginFiles)
      /\ f \in PluginFiles
  BY <1>1, FirstTaken
<1>3. IsList(down)
  BY DEF PluginMessages
<1>4. /\ Idle(down) => Idle(down')
      /\ AtMostOnce(down) => AtMostOnce(down')
  BY <1>1, <1>2, <1>3, LoopTaken
<1> HIDE DEF m, f
<1>5. DOMAIN plugins' = DOMAIN plugins \ {f} /\ \A g \in DOMAIN plugins' : plugins'[g] = plugins[g]
  BY <1>1 DEF Without
<1>6. PluginsViewTypeOK' /\ RoutesMatch'
  <2>1. crossed' \subseteq PluginFiles
    BY <1>1 DEF Imported, PluginsViewTypeOK
  <2> QED BY <1>1, <1>5, <2>1 DEF PluginsViewTypeOK, RoutesMatch
<1>7. PluginMessages'
  BY <1>1, <1>2 DEF PluginMessages
<1>8. LoopRight'
  BY <1>1, <1>2, <1>4, LoopKept
<1>9. ASSUME NEW g \in PluginFiles, g \notin crossed', g \notin unseen PROVE FileFollowed(g)'
  <2>1. FileFollowed(g)
    BY <1>1, <1>9 DEF FilesFollowed
  <2>2. /\ Tells(down, g, plugged) => Tells(down', g, plugged)
        /\ (Untold(down', g) /\ ~ About(m, g)) => Untold(down, g)
        /\ (Tells(down, g, plugged) /\ Untold(down', g) /\ (About(m, g) \/ ReadOf(m, g))) => Agrees(m, g, plugged)
    BY <1>1, <1>2, <1>3, TellsBehind DEF m
  <2>3. Tells(down', g, plugged')
    BY <1>1, <2>1, <2>2 DEF FileFollowed
  <2>4. CASE g = f
    <3>1. \A i \in imports' : i.f # g
      BY <1>1, <1>9, <2>4 DEF Imported
    <3>2. Untold(down', g) => g \notin DOMAIN plugged
      <4>1. About(m, g)
        BY <1>1, <2>4 DEF About, f
      <4>2. Untold(down', g) => Agrees(m, g, plugged)
        BY <2>1, <2>2, <4>1 DEF FileFollowed
      <4> QED BY <1>1, <4>2 DEF Agrees
    <3>3. g \notin DOMAIN plugins'
      BY <1>5, <2>4
    <3> QED BY <1>1, <2>3, <3>1, <3>2, <3>3 DEF FileFollowed
  <2>5. CASE g # f
    <3>1. ~ About(m, g)
      BY <2>5 DEF About, f
    <3>2. ASSUME ToBeLoaded(g) PROVE ToBeLoaded(g)'
      <4>1. \A i \in DOMAIN down : (down[i].what = "pluglist" /\ g \in Range(down[i].fs)) =>
              \E j \in DOMAIN down' : down'[j].what = "pluglist" /\ g \in Range(down'[j].fs)
        BY <1>1, <1>2
      <4> QED BY <1>1, <3>2, <4>1 DEF ToBeLoaded
    <3> QED BY <1>1, <1>5, <2>1, <2>2, <2>3, <2>5, <3>1, <3>2, FileKept
  <2> QED BY <2>4, <2>5
<1> QED BY <1>6, <1>7, <1>8, <1>9, <1>1 DEF FilesFollowed

(* A file is fetched, and the import ends.                                   *)
LEMMA FetchSound == ASSUME PluginsInv, NEW i \in imports, Fetch(i) PROVE PluginsInv'
<1> USE DEF PluginsInv
<1> DEFINE k == [i EXCEPT !.fetched = IF i.f \in DOMAIN plugged THEN "file" ELSE "nothing"]
<1>1. /\ imports' = (imports \ {i}) \cup {k}
      /\ UNCHANGED <<up, down, plugged, filechanges, pluginWatch, deletionWatch, plugins, routes, dynamicRoutes,
                     toLoad, loadingPlugins, crossed, unseen>>
  BY DEF Fetch, calls, server_q, shown_q
<1>2. i \in [f : PluginFiles, t : 0 .. MaxFileChanges, loop : BOOLEAN, fetched : {"no", "file", "nothing"}]
  BY DEF PluginsViewTypeOK
<1>3. /\ k.f = i.f /\ k.t = i.t /\ k.loop = i.loop
      /\ k.fetched = IF i.f \in DOMAIN plugged THEN "file" ELSE "nothing"
      /\ k \in [f : PluginFiles, t : 0 .. MaxFileChanges, loop : BOOLEAN, fetched : {"no", "file", "nothing"}]
  BY <1>2
<1> HIDE DEF k
<1>4. PluginsViewTypeOK' /\ RoutesMatch' /\ PluginMessages'
  BY <1>1, <1>3 DEF PluginsViewTypeOK, RoutesMatch, PluginMessages
<1>5. LoopRight'
  <2>1. (NoneByLoop => NoneByLoop') /\ (OneByLoop => OneByLoop')
    BY <1>1, <1>3 DEF NoneByLoop, OneByLoop
  <2>2. OneAtATime'
    BY <1>1, <2>1 DEF LoopRight, OneAtATime
  <2>3. \A j \in imports' : j.loop => toLoad # <<>> /\ j.f = toLoad[1]
    BY <1>1, <1>3 DEF LoopRight
  <2>4. ForTheFirst(up)' /\ ForTheFirst(down)'
    BY <1>1 DEF LoopRight, ForTheFirst
  <2> QED BY <1>1, <2>2, <2>3, <2>4 DEF LoopRight
<1>6. ASSUME NEW g \in PluginFiles, g \notin crossed, g \notin unseen PROVE FileFollowed(g)'
  <2>1. FileFollowed(g)
    BY <1>6 DEF FilesFollowed
  <2>2. \A j \in imports' : j.f = g =>
          /\ j.fetched = "file" => g \in DOMAIN plugged
          /\ j.fetched = "nothing" => g \notin DOMAIN plugged
    <3> SUFFICES ASSUME NEW j \in imports', j.f = g
                 PROVE  /\ j.fetched = "file" => g \in DOMAIN plugged
                        /\ j.fetched = "nothing" => g \notin DOMAIN plugged
      OBVIOUS
    <3>1. CASE j = k
      BY <1>3, <3>1
    <3>2. CASE j # k
      BY <1>1, <2>1, <3>2 DEF FileFollowed
    <3> QED BY <3>1, <3>2
  <2>3. \A j \in imports' : \E h \in imports : j.f = h.f /\ j.t = h.t
    BY <1>1, <1>3
  <2>4. Importing(g) => Importing(g)'
    BY <1>1, <1>3 DEF Importing
  <2>5. ToBeLoaded(g) => ToBeLoaded(g)'
    BY <1>1 DEF ToBeLoaded
  <2> QED BY <1>1, <2>1, <2>2, <2>3, <2>4, <2>5 DEF FileFollowed
<1> QED BY <1>1, <1>4, <1>5, <1>6 DEF FilesFollowed

LEMMA ImportEndsSound == ASSUME PluginsInv, NEW i \in imports, ImportEnds(i) PROVE PluginsInv'
<1> USE DEF PluginsInv
<1>1. /\ i.fetched # "no" /\ imports' = imports \ {i}
      /\ UNCHANGED <<down, plugged, filechanges, pluginWatch, deletionWatch, crossed, unseen>>
      /\ IF i.fetched = "file" THEN Register(i) ELSE UNCHANGED <<plugins, routes, dynamicRoutes>>
      /\ IF i.loop /\ i.fetched = "file" THEN Load(Tail(toLoad)) ELSE UNCHANGED <<up, toLoad, loadingPlugins>>
  BY DEF ImportEnds, server_q, shown_q
<1>2. i.fetched \in {"no", "file", "nothing"} /\ i.f \in PluginFiles /\ i.loop \in BOOLEAN
  BY DEF PluginsViewTypeOK
<1>3. i.fetched = "file" =>
        /\ DOMAIN plugins' = DOMAIN plugins \cup {i.f} /\ plugins'[i.f] = i.t
        /\ \A g \in DOMAIN plugins : g # i.f => plugins'[g] = plugins[g]
        /\ routes' = routes \cup {i.f} /\ dynamicRoutes' = dynamicRoutes \cup {i.f}
  BY <1>1 DEF Register, With
<1>4. RoutesMatch' /\ DOMAIN plugins' \subseteq PluginFiles /\ dynamicRoutes' \subseteq PluginFiles
  BY <1>1, <1>2, <1>3 DEF RoutesMatch, PluginsViewTypeOK
<1>5. IsList(up) /\ IsList(down)
  BY DEF PluginMessages
<1>6. /\ LoopRight' /\ toLoad' \in Seq(PluginFiles) /\ loadingPlugins' \in BOOLEAN /\ IsList(up')
      /\ \A j \in DOMAIN up' : up'[j].what = "plugread" => up'[j].f \in PluginFiles
      /\ \A g : ToBeLoaded(g) => ToBeLoaded(g)' \/ (g = i.f /\ i.fetched = "file")
  <2>1. CASE i.loop /\ i.fetched = "file"
    <3>1. Idle(up) /\ Idle(down) /\ OneByLoop
      BY <2>1 DEF LoopRight, OneAtATime, NoneByLoop
    <3>2. toLoad # <<>> /\ i.f = toLoad[1] /\ toLoad \in Seq(PluginFiles)
      BY <2>1 DEF LoopRight, PluginsViewTypeOK
    <3> DEFINE fs == Tail(toLoad)
    <3>3. fs \in Seq(PluginFiles) /\ \A g \in Range(toLoad) : g = i.f \/ g \in Range(fs)
      <4>1. IsList(toLoad)
        BY <3>2, ListedIs
      <4>2. /\ Len(toLoad) \in Nat \ {0}
            /\ DOMAIN Tail(toLoad) = 1 .. Len(toLoad) - 1 /\ DOMAIN toLoad = 1 .. Len(toLoad)
            /\ \A j \in 1 .. Len(toLoad) - 1 : Tail(toLoad)[j] = toLoad[j + 1]
        BY <3>2, <4>1, FirstGone
      <4>3. fs \in Seq(PluginFiles)
        BY <3>2, HeadTailProperties
      <4> HIDE DEF fs
      <4>4. ASSUME NEW j \in DOMAIN toLoad, j # 1 PROVE toLoad[j] \in Range(fs)
        <5>1. j - 1 \in DOMAIN fs /\ fs[j - 1] = toLoad[j]
          <6>1. j - 1 \in 1 .. Len(toLoad) - 1 /\ (j - 1) + 1 = j
            BY <4>2, <4>4
          <6> QED BY <4>2, <6>1 DEF fs
        <5> QED BY <5>1 DEF Range
      <4>5. \A g \in Range(toLoad) : g = i.f \/ g \in Range(fs)
        BY <3>2, <4>4 DEF Range
      <4> QED BY <4>3, <4>5
    <3>4. Load(fs)
      BY <1>1, <2>1
    <3> HIDE DEF fs
    <3>5. /\ IsList(up') /\ AtMostOnce(up') /\ ForTheFirst(up)'
          /\ toLoad' = fs /\ loadingPlugins' \in BOOLEAN /\ (~ loadingPlugins' => toLoad' = <<>>)
          /\ \A j \in DOMAIN up' : up'[j].what = "plugread" => up'[j].f \in PluginFiles
          /\ \A j \in DOMAIN up : \E h \in DOMAIN up' : up'[h] = up[j]
      BY <3>1, <3>3, <3>4, Loaded
    <3>6. NoneByLoop'
      BY <1>1, <2>1, <3>1 DEF NoneByLoop, OneByLoop
    <3>7. OneAtATime'
      BY <1>1, <3>1, <3>5, <3>6 DEF OneAtATime, Idle
    <3>8. ForTheFirst(down)'
      BY <1>1, <3>1 DEF ForTheFirst, Idle, Looping
    <3>9. LoopRight'
      BY <3>5, <3>6, <3>7, <3>8 DEF LoopRight, NoneByLoop
    <3>10. \A g : ToBeLoaded(g) => ToBeLoaded(g)' \/ (g = i.f /\ i.fetched = "file")
      <4>1. ~ \E j \in DOMAIN up : up[j].what = "pluglist"
        BY <3>1 DEF Idle, Looping
      <4> QED BY <1>1, <2>1, <3>3, <3>5, <4>1 DEF ToBeLoaded
    <3> QED BY <3>3, <3>5, <3>9, <3>10
  <2>2. CASE ~ (i.loop /\ i.fetched = "file")
    <3>1. UNCHANGED <<up, down, toLoad, loadingPlugins>>
      BY <1>1, <2>2
    <3>2. (NoneByLoop => NoneByLoop') /\ (OneByLoop => OneByLoop')
      BY <1>1 DEF NoneByLoop, OneByLoop
    <3>3. OneAtATime'
      BY <3>1, <3>2 DEF LoopRight, OneAtATime
    <3>4. ForTheFirst(up)' /\ ForTheFirst(down)'
      BY <3>1 DEF LoopRight, ForTheFirst
    <3>5. LoopRight'
      BY <1>1, <3>1, <3>3, <3>4 DEF LoopRight
    <3>6. \A g : ToBeLoaded(g) => ToBeLoaded(g)'
      BY <3>1 DEF ToBeLoaded
    <3> QED BY <1>5, <3>1, <3>5, <3>6 DEF PluginsViewTypeOK, PluginMessages
  <2> QED BY <2>1, <2>2
<1>7. PluginsViewTypeOK' /\ PluginMessages'
  BY <1>1, <1>4, <1>6 DEF PluginsViewTypeOK, PluginMessages
<1>8. ASSUME NEW g \in PluginFiles, g \notin crossed, g \notin unseen PROVE FileFollowed(g)'
  <2>1. FileFollowed(g)
    BY <1>8 DEF FilesFollowed
  <2>2. Tells(down', g, plugged')
    BY <1>1, <2>1 DEF FileFollowed
  <2>3. g = i.f => /\ i.fetched = "file" => g \in DOMAIN plugged
                   /\ i.fetched = "nothing" => g \notin DOMAIN plugged
    BY <2>1 DEF FileFollowed
  <2>4. ASSUME Untold(down', g), g \notin DOMAIN plugged' PROVE g \notin DOMAIN plugins'
    BY <1>1, <1>2, <1>3, <2>1, <2>3, <2>4 DEF FileFollowed
  <2>5. ASSUME Untold(down', g), g \in DOMAIN plugged'
        PROVE  ToBeLoaded(g)' \/ Importing(g)' \/ (g \in DOMAIN plugins' /\ plugins'[g] = plugged'[g])
    <3>1. /\ \A j \in imports : j.f = g => j.t = plugged[g]
          /\ ToBeLoaded(g) \/ Importing(g) \/ (g \in DOMAIN plugins /\ plugins[g] = plugged[g])
      BY <1>1, <2>1, <2>5 DEF FileFollowed
    <3>2. CASE g = i.f
      <4>1. i.fetched = "file"
        BY <1>1, <1>2, <2>3, <2>5, <3>2
      <4> QED BY <1>1, <1>3, <3>1, <3>2, <4>1
    <3>3. CASE g # i.f
      <4>1. Importing(g) => Importing(g)'
        BY <1>1, <3>3 DEF Importing
      <4>2. g \in DOMAIN plugins => g \in DOMAIN plugins' /\ plugins'[g] = plugins[g]
        BY <1>1, <1>3, <3>3
      <4> QED BY <1>1, <1>6, <3>1, <3>3, <4>1, <4>2
    <3> QED BY <3>2, <3>3
  <2> QED BY <1>1, <2>1, <2>2, <2>4, <2>5 DEF FileFollowed
<1> QED BY <1>1, <1>4, <1>6, <1>7, <1>8 DEF FilesFollowed

LEMMA PluginsInitSound ==
  ASSUME PluginsInit, up = PluginsCalls, down = <<>>
  PROVE  PluginsInv
<1> DEFINE w == [what |-> "plugwatch"]  d == [what |-> "plugdeletions"]  l == [what |-> "pluglist"]
           B == {w, d, l}
<1>1. up \in Seq(B) /\ Len(up) = 3 /\ up[1] = w /\ up[2] = d /\ up[3] = l
  BY DEF PluginsCalls
<1>2. w.what = "plugwatch" /\ d.what = "plugdeletions" /\ l.what = "pluglist"
  OBVIOUS
<1> HIDE DEF w, d, l, B
<1>3. IsList(up) /\ DOMAIN up = 1 .. 3
  BY <1>1, ListedIs, LenProperties
<1>4. IsList(down) /\ DOMAIN down = {}
  <2>1. down \in Seq(B) /\ DOMAIN down = {}
    BY EmptySeq
  <2> QED BY <2>1, ListedIs
<1>5. 3 \in DOMAIN up /\ \A i \in DOMAIN up : (Looping(up[i]) => i = 3) /\ up[i].what # "plugread"
  BY <1>1, <1>2, <1>3 DEF Looping
<1>6. PICK fs \in SUBSET PluginFiles : plugged \in [fs -> {0}]
  BY DEF PluginsInit
<1>7. PluginMessages
  BY <1>3, <1>4, <1>5, <1>6 DEF PluginMessages, PluginsInit
<1>8. LoopRight
  BY <1>4, <1>5 DEF LoopRight, OneAtATime, AtMostOnce, Idle, NoneByLoop, OneByLoop, ForTheFirst, PluginsInit
<1>9. PluginsViewTypeOK /\ RoutesMatch
  <2>1. /\ plugins = <<>> /\ DOMAIN plugins = {} /\ toLoad \in Seq(PluginFiles)
        /\ filechanges \in 0 .. MaxFileChanges
    BY PluginFilesAssumption, EmptySeq DEF PluginsInit
  <2> QED BY <1>6, <2>1 DEF PluginsViewTypeOK, RoutesMatch, PluginsInit
<1>10. FilesFollowed
  <2> SUFFICES ASSUME NEW f \in PluginFiles PROVE FileFollowed(f)
    BY DEF FilesFollowed
  <2>1. ToBeLoaded(f)
    BY <1>1, <1>2, <1>5 DEF ToBeLoaded
  <2>2. imports = {} /\ f \notin DOMAIN plugins
    BY <1>9 DEF PluginsInit, RoutesMatch
  <2> QED BY <1>4, <2>1, <2>2 DEF FileFollowed, Tells
<1> QED BY <1>7, <1>8, <1>9, <1>10 DEF PluginsInv

LEMMA PluginsStepSound ==
  ASSUME PluginsInv, PluginsNext \/ UNCHANGED <<calls, vars_q>>
  PROVE  PluginsInv'
<1>1. CASE UNCHANGED <<calls, vars_q>>
  <2>1. UNCHANGED <<up, down, plugged, filechanges, pluginWatch, deletionWatch, plugins, routes, dynamicRoutes,
                    toLoad, loadingPlugins, imports, crossed, unseen>>
    BY <1>1 DEF calls, vars_q
  <2>2. PluginsViewTypeOK' /\ RoutesMatch' /\ PluginMessages'
    BY <2>1 DEF PluginsInv, PluginsViewTypeOK, RoutesMatch, PluginMessages
  <2>3. LoopRight'
    BY <2>1, LoopKept DEF PluginsInv
  <2>4. FilesFollowed'
    BY <2>1 DEF PluginsInv, FilesFollowed, FileFollowed, ToBeLoaded, Importing
  <2> QED BY <2>2, <2>3, <2>4 DEF PluginsInv
<1> QED BY <1>1, FileChangesSound, ServePluginsSound, PluginListSound, PluginReadSound, PluginChangeSound,
           DeletePluginSound, FetchSound, ImportEndsSound DEF PluginsNext

------------------------------------------------------------------------------
(* The table of keys and its dialog.  What a key is made with, in a call or  *)
(* on the server: it is what the dialog showed, or was never picked.         *)
AsShown(e) ==
  /\ e.type = e.shown[1] \/ "type" \notin e.picked
  /\ e.data = e.shown[2] \/ (e.type = "BOOL" /\ "bool" \notin e.picked)

KeyMessages ==
  /\ IsList(up) /\ IsList(down)
  /\ \A i \in DOMAIN up : up[i].k \in TableKeys /\ AsShown(up[i])
  /\ \A i \in DOMAIN down : down[i].what \in {"keycreated", "keydeleted"} => down[i].k \in TableKeys

(* What the effect of the search bar and the two tests of the dialog found   *)
(* last is what they would find now, the tests while the dialog is open.     *)
TableFiltered ==
  /\ IsFiniteSet(listed)
  /\ filteredItems = IF keyquery # "" THEN Matches(Items(listed, hideSystemKeys), keyquery)
                     ELSE Items(listed, hideSystemKeys)
  /\ flen = Cardinality(Matches(Items(listed, hideSystemKeys), keyquery))
TestsCurrent ==
  newKeyDialogOpen => /\ validKey = ~ NameTaken(newValueKey, listed)
                      /\ Numeric(newValueType) => validValue = IsNumber(newValueData)

(* A combo that was picked from since it was put up shows what it gave.      *)
CombosShow ==
  /\ "type" \in picked_t => typeLabel = newValueType
  /\ ("bool" \in picked_t /\ newValueType = "BOOL") => boolLabel = newValueData

KeyTableInv ==
  KeyTableTypeOK /\ MadeAsShown /\ KeyMessages /\ TableFiltered /\ TestsCurrent /\ CombosShow

LEMMA KeyTableImplies ==
  ASSUME KeyTableInv
  PROVE  KeyTableTypeOK /\ TableRight /\ CreateOffered /\ MadeAsShown
<1>1. TableRight
  BY DEF TableRight, KeyTableInv, TableFiltered, Matches, Items
<1>2. CreateOffered
  BY DEF CreateOffered, KeyTableInv, TestsCurrent, NameTaken
<1> QED BY <1>1, <1>2 DEF KeyTableInv

(* The matches are keys that are listed, and as finite as these.             *)
LEMMA MatchesFinite ==
  ASSUME NEW ks, ks \subseteq TableKeys, IsFiniteSet(ks), NEW q, NEW hide \in BOOLEAN
  PROVE  /\ Items(ks, hide) \subseteq TableKeys
         /\ Matches(Items(ks, hide), q) \subseteq TableKeys
         /\ Cardinality(Matches(Items(ks, hide), q)) \in Nat
<1>1. Items(ks, hide) \subseteq ks /\ Matches(Items(ks, hide), q) \subseteq ks
  BY DEF Items, Matches
<1>2. IsFiniteSet(Matches(Items(ks, hide), q))
  BY <1>1, FS_Subset
<1> QED BY <1>1, <1>2, FS_CardinalityType

LEMMA NoMessages == IsList(<<>>) /\ \A i : i \notin DOMAIN <<>>
<1>1. IsList(<<>>)
  BY EmptySeq, ListedIs
<1> QED BY <1>1

LEMMA KeyTableInitSound ==
  ASSUME KeyTableInit, up = <<>>, down = <<>>
  PROVE  KeyTableInv
<1> USE TableAssumption
<1>1. DOMAIN stored = SystemKeys /\ listed = SystemKeys
      /\ \A k \in DOMAIN stored : stored[k] = [type |-> "UINT8", data |-> "0", shown |-> <<"UINT8", "0">>, picked |-> {}]
  BY DEF KeyTableInit
<1>2. TableFiltered
  <2>1. Matches(Items(listed, FALSE), "") = {}
    BY DEF Matches
  <2> QED BY <1>1, <2>1, FS_EmptySet DEF TableFiltered, KeyTableInit, Items
<1>3. KeyTableTypeOK
  <2>1. flen \in Nat /\ filteredItems = listed
    BY DEF KeyTableInit
  <2> QED BY <1>1, <2>1 DEF KeyTableTypeOK, KeyTableInit, EntryTypes
<1>4. MadeAsShown
  <2> SUFFICES ASSUME NEW k \in DOMAIN stored
               PROVE  stored[k].type = stored[k].shown[1] /\ stored[k].data = stored[k].shown[2]
    BY DEF MadeAsShown
  <2> DEFINE s == <<"UINT8", "0">>
             e == [type |-> "UINT8", data |-> "0", shown |-> s, picked |-> {}]
  <2>1. e.type = "UINT8" /\ e.data = "0" /\ e.shown = s /\ s[1] = "UINT8" /\ s[2] = "0"
    OBVIOUS
  <2>2. stored[k] = e
    BY <1>1
  <2> HIDE DEF e, s
  <2> QED BY <2>1, <2>2
<1>5. KeyMessages
  BY NoMessages DEF KeyMessages
<1>6. TestsCurrent /\ CombosShow
  BY DEF TestsCurrent, CombosShow, KeyTableInit
<1> QED BY <1>2, <1>3, <1>4, <1>5, <1>6 DEF KeyTableInv

(* What is searched or listed now is filtered again.                         *)
LEMMA FiltersSound ==
  ASSUME NEW ks, NEW q, NEW hide \in BOOLEAN, ks \subseteq TableKeys, IsFiniteSet(ks),
         listed' = ks, keyquery' = q, hideSystemKeys' = hide, Filters(ks, q, hide)
  PROVE  TableFiltered' /\ filteredItems' \subseteq TableKeys /\ flen' \in Nat
BY MatchesFinite DEF TableFiltered, Filters, Matches, Items

LEMMA SearchSound ==
  ASSUME KeyTableInv, ToggleSystemKeys \/ \E q \in DOMAIN Containing \cup {""} : Search(q)
  PROVE  KeyTableInv'
<1>1. /\ UNCHANGED <<calls, stored, keyevents, listed, newKeyDialogOpen, entry_t, valid_t, combos_t>>
      /\ keyquery' \in DOMAIN Containing \cup {""} /\ hideSystemKeys' \in BOOLEAN
      /\ Filters(listed, keyquery', hideSystemKeys')
  BY DEF Search, ToggleSystemKeys, KeyTableInv, KeyTableTypeOK
<1>2. listed \subseteq TableKeys /\ IsFiniteSet(listed) /\ listed' = listed
  BY <1>1 DEF KeyTableInv, KeyTableTypeOK, TableFiltered
<1>3. TableFiltered' /\ filteredItems' \subseteq TableKeys /\ flen' \in Nat
  BY <1>1, <1>2, FiltersSound
<1>4. UNCHANGED <<up, down, stored, listed, newKeyDialogOpen, newValueType, newValueData, newValueKey,
                  validKey, validValue, typeLabel, boolLabel, picked_t>>
  BY <1>1 DEF calls, entry_t, valid_t, combos_t
<1>5. KeyTableTypeOK'
  BY <1>1, <1>3, <1>4 DEF KeyTableInv, KeyTableTypeOK
<1>6. MadeAsShown' /\ KeyMessages'
  BY <1>4 DEF KeyTableInv, MadeAsShown, KeyMessages
<1>7. TestsCurrent' /\ CombosShow'
  BY <1>4 DEF KeyTableInv, TestsCurrent, CombosShow
<1> QED BY <1>3, <1>5, <1>6, <1>7 DEF KeyTableInv

(* The dialog.                                                               *)
LEMMA TestsBoolean ==
  /\ \A k, ks : (~ NameTaken(k, ks)) \in BOOLEAN
  /\ \A txt : IsNumber(txt) \in BOOLEAN
BY DEF NameTaken, IsNumber

LEMMA DialogSound ==
  ASSUME KeyTableInv,
         \/ ShowsDialog \/ CancelsDialog
         \/ \E k \in TableKeys : NamesKey(k)
         \/ \E t \in EntryTypes : ChoosesType(t)
         \/ \E txt \in DataTexts : TypesData(txt)
         \/ \E b \in {"0", "1"} : ChoosesBool(b)
  PROVE  KeyTableInv'
<1>1. UNCHANGED <<calls, stored, listed, search_t>>
  BY DEF ShowsDialog, CancelsDialog, NamesKey, ChoosesType, TypesData, ChoosesBool
<1>2. UNCHANGED <<up, down, stored, listed, keyquery, hideSystemKeys, filteredItems, flen>>
  BY <1>1 DEF calls, search_t
<1>3. MadeAsShown' /\ KeyMessages' /\ TableFiltered'
  BY <1>2 DEF KeyTableInv, MadeAsShown, KeyMessages, TableFiltered
<1>4. KeyTableTypeOK' /\ TestsCurrent' /\ CombosShow'
  <2> USE DEF KeyTableInv, KeyTableTypeOK, TestsCurrent, CombosShow, valid_t, entry_t, combos_t,
              ValidatesKey, ValidatesData
  <2>1. CASE ShowsDialog
    <3>1. /\ newKeyDialogOpen' = TRUE /\ UNCHANGED <<newValueType, newValueData, newValueKey>>
          /\ typeLabel' = "UINT8" /\ boolLabel' = "1" /\ picked_t' = {}
          /\ validKey' = ~ NameTaken(newValueKey, listed)
          /\ validValue' = IF Numeric(newValueType) THEN IsNumber(newValueData) ELSE validValue
      BY <2>1 DEF ShowsDialog
    <3>2. hideSystemKeys' \in BOOLEAN /\ newKeyDialogOpen' \in BOOLEAN /\ validKey' \in BOOLEAN
          /\ validValue' \in BOOLEAN
      BY <1>2, <3>1, TestsBoolean
    <3>3. KeyTableTypeOK'
      BY <1>2, <3>1, <3>2 DEF EntryTypes
    <3>4. TestsCurrent' /\ CombosShow'
      BY <1>2, <3>1
    <3> QED BY <3>3, <3>4
  <2>2. CASE CancelsDialog
    BY <1>2, <2>2 DEF CancelsDialog
  <2>3. ASSUME NEW k \in TableKeys, NamesKey(k)
        PROVE  KeyTableTypeOK' /\ TestsCurrent' /\ CombosShow'
    BY <1>2, <2>3 DEF NamesKey
  <2>4. ASSUME NEW t \in EntryTypes, ChoosesType(t)
        PROVE  KeyTableTypeOK' /\ TestsCurrent' /\ CombosShow'
    <3>1. /\ newKeyDialogOpen' = newKeyDialogOpen /\ UNCHANGED <<newValueData, newValueKey, validKey>>
          /\ typeLabel' = t /\ newValueType' = t
          /\ boolLabel' = IF newValueType # "BOOL" /\ t = "BOOL" THEN "1" ELSE boolLabel
          /\ picked_t' = {"type"} \cup (IF newValueType = "BOOL" /\ t = "BOOL" THEN picked_t ELSE {})
          /\ validValue' = IF Numeric(t) THEN IsNumber(newValueData) ELSE validValue
      BY <2>4 DEF ChoosesType
    <3>2. hideSystemKeys' \in BOOLEAN /\ newKeyDialogOpen' \in BOOLEAN /\ validKey' \in BOOLEAN
          /\ validValue' \in BOOLEAN
      BY <1>2, <3>1, TestsBoolean
    <3>3. KeyTableTypeOK'
      BY <1>2, <3>1, <3>2
    <3>4. TestsCurrent' /\ CombosShow'
      BY <1>2, <3>1
    <3> QED BY <3>3, <3>4
  <2>5. ASSUME NEW txt \in DataTexts, TypesData(txt)
        PROVE  KeyTableTypeOK' /\ TestsCurrent' /\ CombosShow'
    <3>1. /\ newKeyDialogOpen' = newKeyDialogOpen /\ newValueType # "BOOL"
          /\ UNCHANGED <<newValueType, newValueKey, validKey, typeLabel, boolLabel, picked_t>>
          /\ newValueData' = txt
          /\ validValue' = IF Numeric(newValueType) THEN IsNumber(txt) ELSE validValue
      BY <2>5 DEF TypesData
    <3>2. hideSystemKeys' \in BOOLEAN /\ newKeyDialogOpen' \in BOOLEAN /\ validKey' \in BOOLEAN
          /\ validValue' \in BOOLEAN
      BY <1>2, <3>1, TestsBoolean
    <3>3. txt \in DataTexts
      OBVIOUS
    <3>4. KeyTableTypeOK'
      BY <1>2, <3>1, <3>2
    <3>5. TestsCurrent' /\ CombosShow'
      BY <1>2, <3>1
    <3> QED BY <3>4, <3>5
  <2>6. ASSUME NEW b \in {"0", "1"}, ChoosesBool(b)
        PROVE  KeyTableTypeOK' /\ TestsCurrent' /\ CombosShow'
    <3>1. /\ newKeyDialogOpen' = newKeyDialogOpen /\ newValueType = "BOOL"
          /\ UNCHANGED <<newValueType, newValueKey, validKey, validValue, typeLabel>>
          /\ boolLabel' = b /\ newValueData' = b /\ picked_t' = picked_t \cup {"bool"}
      BY <2>6 DEF ChoosesBool, PicksBool
    <3>2. KeyTableTypeOK'
      BY <1>2, <3>1
    <3>3. TestsCurrent' /\ CombosShow'
      BY <1>2, <3>1 DEF Numeric
    <3> QED BY <3>2, <3>3
  <2> QED BY <2>1, <2>2, <2>3, <2>4, <2>5, <2>6
<1> QED BY <1>3, <1>4 DEF KeyTableInv

(* What Create sends is what the dialog shows.                               *)
LEMMA CreateEntrySound == ASSUME KeyTableInv, CreateRdbEntry PROVE KeyTableInv'
<1> DEFINE data == ValueMade(newValueType, newValueData)
           shown == <<typeLabel, IF newValueType = "BOOL" THEN boolLabel ELSE data>>
           c == [what |-> "make", k |-> newValueKey, picked |-> picked_t,
                 type |-> newValueType, data |-> data, shown |-> shown]
<1>1. Ask(<<c>>)
  BY DEF CreateRdbEntry
<1>2. /\ c.k = newValueKey /\ c.picked = picked_t /\ c.type = newValueType /\ c.data = data
      /\ c.shown[1] = typeLabel /\ c.shown[2] = IF newValueType = "BOOL" THEN boolLabel ELSE data
  OBVIOUS
<1>3. (newValueType = "BOOL" /\ boolLabel = newValueData) => data = boolLabel
  BY DEF ValueMade, KeyTableInv, KeyTableTypeOK
<1> HIDE DEF c, data, shown
<1>4. c.k \in TableKeys /\ AsShown(c)
  BY <1>2, <1>3 DEF AsShown, KeyTableInv, KeyTableTypeOK, CombosShow
<1>5. /\ UNCHANGED <<down, stored, listed, keyquery, hideSystemKeys, filteredItems, flen, newValueType,
                     newValueData, newValueKey, validKey, validValue, typeLabel, boolLabel, picked_t>>
      /\ newKeyDialogOpen' = FALSE
  BY DEF CreateRdbEntry, search_t, entry_t, valid_t, combos_t
<1>6. KeyMessages'
  <2>1. IsList(up') /\ \A i \in DOMAIN up' : up'[i] = c \/ (i \in DOMAIN up /\ up'[i] = up[i])
    BY <1>1, UpAsked DEF KeyTableInv, KeyMessages
  <2> QED BY <1>4, <1>5, <2>1 DEF KeyTableInv, KeyMessages, AsShown
<1>7. KeyTableTypeOK'
  BY <1>5 DEF KeyTableInv, KeyTableTypeOK
<1>8. MadeAsShown' /\ TableFiltered' /\ TestsCurrent' /\ CombosShow'
  BY <1>5 DEF KeyTableInv, MadeAsShown, TableFiltered, TestsCurrent, CombosShow
<1> QED BY <1>6, <1>7, <1>8 DEF KeyTableInv

(* The server.                                                               *)
LEMMA KeyStored ==
  ASSUME KeyTableInv, NEW k \in TableKeys, NEW e, AsShown(e), stored' = With(stored, k, e)
  PROVE  MadeAsShown' /\ DOMAIN stored' \subseteq TableKeys
BY DEF KeyTableInv, KeyTableTypeOK, MadeAsShown, AsShown, With

LEMMA ServerStepSound ==
  ASSUME KeyTableInv, KeyMessages', MadeAsShown', DOMAIN stored' \subseteq TableKeys,
         UNCHANGED <<listed, search_t, newKeyDialogOpen, entry_t, valid_t, combos_t>>
  PROVE  KeyTableInv'
<1>1. UNCHANGED <<listed, keyquery, hideSystemKeys, filteredItems, flen, newKeyDialogOpen, newValueType,
                  newValueData, newValueKey, validKey, validValue, typeLabel, boolLabel, picked_t>>
  BY DEF search_t, entry_t, valid_t, combos_t
<1>2. KeyTableTypeOK'
  BY <1>1 DEF KeyTableInv, KeyTableTypeOK
<1>3. TableFiltered' /\ TestsCurrent' /\ CombosShow'
  <2>1. TestsCurrent' /\ CombosShow'
    BY <1>1 DEF KeyTableInv, TestsCurrent, CombosShow
  <2> QED BY <1>1, <2>1 DEF KeyTableInv, TableFiltered
<1> QED BY <1>2, <1>3 DEF KeyTableInv

LEMMA KeyEventTold ==
  ASSUME NEW k \in TableKeys, NEW w \in {"keycreated", "keydeleted"}
  PROVE  LET m == Event([what |-> w, k |-> k]) IN m.what = w /\ m.k = k
BY DEF Event

LEMMA ServeMakeSound == ASSUME KeyTableInv, ServeMake PROVE KeyTableInv'
<1> DEFINE m == Head(up)  new == m.k \notin DOMAIN stored
           entry == [type |-> m.type, data |-> m.data, shown |-> m.shown, picked |-> m.picked]
           made == [what |-> "made", ok |-> new]
           told == Event([what |-> "keycreated", k |-> m.k])
           mid == down \o (IF new THEN <<told>> ELSE <<>>)
<1>1. /\ up # <<>> /\ up' = Tail(up)
      /\ stored' = IF new THEN With(stored, m.k, entry) ELSE stored
      /\ down' = mid \o <<made>>
      /\ UNCHANGED <<listed, search_t, newKeyDialogOpen, entry_t, valid_t, combos_t>>
  BY DEF ServeMake, Serving
<1>2. IsList(up) /\ IsList(down)
  BY DEF KeyTableInv, KeyMessages
<1>3. /\ IsList(up') /\ 1 \in DOMAIN up /\ Head(up) = up[1]
      /\ \A i \in DOMAIN up' : i + 1 \in DOMAIN up /\ up'[i] = up[i + 1]
  BY <1>1, <1>2, UpTaken
<1>4. m.k \in TableKeys /\ AsShown(m)
  BY <1>3 DEF KeyTableInv, KeyMessages
<1>5. AsShown(entry)
  BY <1>4 DEF AsShown
<1>6. told.what = "keycreated" /\ told.k = m.k
  BY <1>4, KeyEventTold
<1>7. made.what = "made"
  OBVIOUS
<1> HIDE DEF made, told, entry, m
<1>8. MadeAsShown' /\ DOMAIN stored' \subseteq TableKeys
  <2>1. CASE new
    BY <1>1, <1>4, <1>5, <2>1, KeyStored
  <2>2. CASE ~ new
    BY <1>1, <2>2 DEF KeyTableInv, KeyTableTypeOK, MadeAsShown
  <2> QED BY <2>1, <2>2
<1>9. KeyMessages'
  <2>1. /\ IsList(mid)
        /\ \A i \in DOMAIN mid : mid[i] = told \/ (i \in DOMAIN down /\ mid[i] = down[i])
    <3>1. CASE new
      <4>1. mid = down \o <<told>>
        BY <3>1
      <4>2. mid = Append(down, told)
        BY <1>2, <4>1, PutBehind
      <4> HIDE DEF mid
      <4>3. /\ IsList(mid) /\ DOMAIN mid = 1 .. Len(down) + 1 /\ DOMAIN down = 1 .. Len(down) /\ Len(down) \in Nat
            /\ \A i \in 1 .. Len(down) : mid[i] = down[i]
            /\ mid[Len(down) + 1] = told
        BY <1>2, <4>2, PutBehind
      <4> QED BY <4>3
    <3>2. CASE ~ new
      <4>1. down \in Seq(Range(down))
        BY <1>2 DEF IsList
      <4>2. mid = down
        BY <3>2, <4>1, ConcatEmptySeq
      <4> QED BY <1>2, <4>2
    <3> QED BY <3>1, <3>2
  <2> HIDE DEF mid
  <2>2. IsList(down') /\ \A i \in DOMAIN down' : down'[i] = made \/ (i \in DOMAIN mid /\ down'[i] = mid[i])
    <3>1. down' = mid \o <<made>>
      BY <1>1 DEF mid
    <3>2. /\ down' = Append(mid, made)
      BY <2>1, <3>1, PutBehind
    <3>3. /\ IsList(down') /\ DOMAIN down' = 1 .. Len(mid) + 1 /\ DOMAIN mid = 1 .. Len(mid) /\ Len(mid) \in Nat
          /\ \A i \in 1 .. Len(mid) : down'[i] = mid[i]
          /\ down'[Len(mid) + 1] = made
      BY <2>1, <3>2, PutBehind
    <3> QED BY <3>3
  <2>3. \A i \in DOMAIN down' : down'[i] = made \/ down'[i] = told \/ (i \in DOMAIN down /\ down'[i] = down[i])
    BY <2>1, <2>2
  <2>4. \A i \in DOMAIN down' : down'[i].what \in {"keycreated", "keydeleted"} => down'[i].k \in TableKeys
    BY <1>4, <1>6, <1>7, <2>3 DEF KeyTableInv, KeyMessages
  <2> QED BY <1>3, <2>2, <2>4 DEF KeyTableInv, KeyMessages, AsShown
<1> QED BY <1>1, <1>8, <1>9, ServerStepSound

LEMMA OthersMakeSound == ASSUME KeyTableInv, OthersMakeKey PROVE KeyTableInv'
<1> DEFINE e == [type |-> "UINT8", data |-> "0", shown |-> <<"UINT8", "0">>, picked |-> {}]
<1>1. PICK k \in TableKeys :
        IF k \in DOMAIN stored
        THEN stored' = Without(stored, k) /\ Tell([what |-> "keydeleted", k |-> k])
        ELSE stored' = With(stored, k, e) /\ Tell([what |-> "keycreated", k |-> k])
  BY DEF OthersMakeKey
<1>2. up' = up /\ UNCHANGED <<listed, search_t, newKeyDialogOpen, entry_t, valid_t, combos_t>>
  BY DEF OthersMakeKey
<1>3. AsShown(e)
  BY DEF AsShown
<1>4. PICK w \in {"keycreated", "keydeleted"} : Tell([what |-> w, k |-> k])
  BY <1>1
<1> HIDE DEF e
<1>5. MadeAsShown' /\ DOMAIN stored' \subseteq TableKeys
  <2>1. CASE k \in DOMAIN stored
    BY <1>1, <2>1 DEF Without, KeyTableInv, KeyTableTypeOK, MadeAsShown
  <2>2. CASE k \notin DOMAIN stored
    BY <1>1, <1>3, <2>2, KeyStored
  <2> QED BY <2>1, <2>2
<1>6. KeyMessages'
  <2> DEFINE told == Event([what |-> w, k |-> k])
  <2>1. told.what = w /\ told.k = k /\ down' = Append(down, told)
    BY <1>4, KeyEventTold DEF Tell
  <2> HIDE DEF told
  <2>2. IsList(down') /\ \A i \in DOMAIN down' : down'[i] = told \/ (i \in DOMAIN down /\ down'[i] = down[i])
    BY <2>1, DownAppended DEF KeyTableInv, KeyMessages
  <2> QED BY <1>2, <2>1, <2>2 DEF KeyTableInv, KeyMessages
<1> QED BY <1>2, <1>5, <1>6, ServerStepSound

(* An event of a key: the table, the counts and the test of the name follow. *)
LEMMA KeyEventSound == ASSUME KeyTableInv, KeyEventArrives PROVE KeyTableInv'
<1> DEFINE m == Head(down)
<1>1. /\ down # <<>> /\ m.what \in {"keycreated", "keydeleted"} /\ Got
      /\ listed' = listed \cup {m.k} \/ listed' = listed \ {m.k}
      /\ Filters(listed', keyquery, hideSystemKeys)
      /\ IF newKeyDialogOpen THEN ValidatesKey(newValueKey, listed') ELSE UNCHANGED validKey
      /\ UNCHANGED <<up, stored, keyquery, hideSystemKeys, newKeyDialogOpen, newValueType, newValueData,
                     newValueKey, validValue, typeLabel, boolLabel, picked_t>>
  BY DEF KeyEventArrives, Getting, entry_t, combos_t
<1>2. /\ IsList(down') /\ 1 \in DOMAIN down /\ m = down[1]
      /\ \A i \in DOMAIN down' : i + 1 \in DOMAIN down /\ down'[i] = down[i + 1]
  BY <1>1, DownTaken DEF KeyTableInv, KeyMessages
<1>3. m.k \in TableKeys
  BY <1>1, <1>2 DEF KeyTableInv, KeyMessages
<1>4. listed' \subseteq TableKeys /\ IsFiniteSet(listed')
  <2>1. listed \subseteq TableKeys /\ IsFiniteSet(listed)
    BY DEF KeyTableInv, KeyTableTypeOK, TableFiltered
  <2>2. IsFiniteSet(listed \cup {m.k})
    BY <2>1, FS_AddElement
  <2>3. IsFiniteSet(listed \ {m.k})
    BY <2>1, FS_RemoveElement
  <2> QED BY <1>1, <1>3, <2>1, <2>2, <2>3
<1>5. TableFiltered' /\ filteredItems' \subseteq TableKeys /\ flen' \in Nat
  BY <1>1, <1>4, FiltersSound DEF KeyTableInv, KeyTableTypeOK
<1>6. KeyMessages' /\ MadeAsShown' /\ CombosShow'
  BY <1>1, <1>2 DEF KeyTableInv, KeyMessages, MadeAsShown, CombosShow
<1>7. TestsCurrent' /\ validKey' \in BOOLEAN
  BY <1>1 DEF KeyTableInv, TestsCurrent, ValidatesKey, NameTaken, KeyTableTypeOK
<1>8. KeyTableTypeOK'
  BY <1>1, <1>4, <1>5, <1>7 DEF KeyTableInv, KeyTableTypeOK
<1> QED BY <1>5, <1>6, <1>7, <1>8 DEF KeyTableInv

LEMMA MadeSound == ASSUME KeyTableInv, MadeArrives PROVE KeyTableInv'
<1>1. down # <<>> /\ Got /\ up' = up /\ UNCHANGED vars_t
  BY DEF MadeArrives, Getting
<1>2. IsList(down') /\ \A i \in DOMAIN down' : i + 1 \in DOMAIN down /\ down'[i] = down[i + 1]
  BY <1>1, DownTaken DEF KeyTableInv, KeyMessages
<1>3. KeyMessages'
  BY <1>1, <1>2 DEF KeyTableInv, KeyMessages
<1>4. MadeAsShown' /\ DOMAIN stored' \subseteq TableKeys
      /\ UNCHANGED <<listed, search_t, newKeyDialogOpen, entry_t, valid_t, combos_t>>
  BY <1>1 DEF vars_t, KeyTableInv, KeyTableTypeOK, MadeAsShown
<1> QED BY <1>3, <1>4, ServerStepSound

LEMMA KeyTableStepSound ==
  ASSUME KeyTableInv, KeyTableNext \/ UNCHANGED <<calls, vars_t>>
  PROVE  KeyTableInv'
<1>1. CASE UNCHANGED <<calls, vars_t>>
  <2>1. /\ UNCHANGED <<up, down, stored, listed, search_t, newKeyDialogOpen, entry_t, valid_t, combos_t>>
    BY <1>1 DEF calls, vars_t
  <2>2. KeyMessages' /\ MadeAsShown' /\ DOMAIN stored' \subseteq TableKeys
    BY <2>1 DEF KeyTableInv, KeyTableTypeOK, KeyMessages, MadeAsShown
  <2> QED BY <2>1, <2>2, ServerStepSound
<1> QED BY <1>1, SearchSound, DialogSound, CreateEntrySound, ServeMakeSound, OthersMakeSound,
           KeyEventSound, MadeSound DEF KeyTableNext

------------------------------------------------------------------------------
(* The page of the database.  A message of one of some kinds about a key,    *)
(* and the last of these in a list.                                          *)
IsAbout(m, W, k) == m.what \in W /\ m.k = k
Silent(s, W, k) == \A i \in DOMAIN s : ~ IsAbout(s[i], W, k)
LastOf(s, i, W, k) ==
  /\ i \in DOMAIN s /\ IsAbout(s[i], W, k)
  /\ \A j \in DOMAIN s : j > i => ~ IsAbout(s[j], W, k)
None(s, w) == \A i \in DOMAIN s : s[i].what # w
LastA(s, i, w) ==
  /\ i \in DOMAIN s /\ s[i].what = w
  /\ \A j \in DOMAIN s : j > i => s[j].what # w

Behind(s, i, v) == \E j \in DOMAIN s : j > i /\ s[j].what = v
Never(s, W, w) == \A i \in DOMAIN s : s[i].what \in W => ~ Behind(s, i, w)
BehindOf(s, i, v, k) == \E j \in DOMAIN s : j > i /\ s[j].what = v /\ s[j].k = k

(* The messages, of which one at most asks for a change.                     *)
OnTheirWay(m) ==
  /\ m.what \in {"read", "watch"} => m.k \in RdbNames \cup {NoKey} /\ m.type \in ValueTypes \cup {NoType}
  /\ m.what = "watch" => m.on \in BOOLEAN
  /\ m.what = "read" => m.first \in BOOLEAN
RdbCall(m) ==
  /\ OnTheirWay(m) /\ "event" \notin DOMAIN m
  /\ m.what \in {"meta", "subscribe", "unsubscribe"} => m.k \in RdbNames \cup {NoKey}
  /\ m.what = "change" => m.k \in RdbNames /\ (m.e = "created" => m.type \in ValueTypes)
RdbAnswer(m) ==
  /\ OnTheirWay(m) /\ ("event" \in DOMAIN m <=> m.what \in {"changed", "created", "deleted"})
  /\ m.what \in {"changed", "created", "deleted"} => m.k \in RdbNames
  /\ m.what = "meta" => m.type \in ValueTypes \cup {NoType}
  /\ m.what = "keys" => m.keys \subseteq RdbNames
RdbMessages ==
  /\ IsList(up) /\ \A i \in DOMAIN up : RdbCall(up[i])
  /\ IsList(down) /\ \A i \in DOMAIN down : RdbAnswer(down[i])
  /\ \A k \in DOMAIN watches : watches[k] \in ValueTypes \cup {NoType}
OneChange ==
  /\ Never(up, {"change"}, "change")
  /\ ~ None(up, "change") => rdbchanges <= MaxRdbActs

(* The list of keys: it is made, then kept, and what the last message about  *)
(* a key says of it is so, once it was made.                                 *)
Asked ==
  /\ Never(up, {"keys"}, "keys") /\ Never(up, {"keep"}, "keep")
  /\ Never(down, {"keys", "created", "deleted"}, "keys")
  /\ listing = "untold" =>
       /\ 1 \in DOMAIN up /\ up[1].what = "keys" /\ 2 \in DOMAIN up /\ up[2].what = "keep"
       /\ None(down, "keys") /\ None(down, "created") /\ None(down, "deleted")
  /\ listing = "told" =>
       /\ 1 \in DOMAIN up /\ up[1].what = "keep" /\ None(up, "keys")
       /\ None(down, "created") /\ None(down, "deleted")
  /\ listing = "kept" => None(up, "keys") /\ None(up, "keep")
KeysTold ==
  (listing # "untold" /\ ~ unheard) =>
    \A k \in RdbNames :
      /\ \A i \in DOMAIN down : LastOf(down, i, {"created", "deleted"}, k) =>
                                  (down[i].what = "created" <=> k \in DOMAIN rdb)
      /\ Silent(down, {"created", "deleted"}, k) =>
           /\ \A i \in DOMAIN down : down[i].what = "keys" => (k \in down[i].keys <=> k \in DOMAIN rdb)
           /\ None(down, "keys") => (k \in rdbKeys <=> k \in DOMAIN rdb)

(* Whose metadata is under way, and watches.  The last subscription says     *)
(* whether there is a callback, the last watch whether the key is selected,  *)
(* and watches that are of others have metadata behind them.                 *)
Subs == {"subscribe", "unsubscribe"}
NoMeta == None(up, "meta") /\ None(down, "meta")
SubscriptionFollows(k) ==
  /\ Silent(up, Subs, k) => (k \in watched <=> k \in DOMAIN watches)
  /\ \A i \in DOMAIN up : LastOf(up, i, Subs, k) => (up[i].what = "subscribe" <=> k \in DOMAIN watches)
SubscriptionsFollow == \A k \in RdbNames \cup {NoKey} : SubscriptionFollows(k)
WatchRight(k, on) ==
  /\ on => k = selectedItem
  /\ (k = selectedItem /\ NoMeta) => on
WatchFollows(k) ==
  /\ \A i \in DOMAIN up : LastOf(up, i, {"watch"}, k) => WatchRight(k, up[i].on)
  /\ Silent(up, {"watch"}, k) =>
       /\ \A i \in DOMAIN down : LastOf(down, i, {"watch"}, k) => WatchRight(k, down[i].on)
       /\ Silent(down, {"watch"}, k) => WatchRight(k, k \in DOMAIN watches)
WatchesFollow == \A k \in RdbNames : WatchFollows(k)
OfOther(m, k) == m.what = "watch" /\ ~ (m.on /\ m.k = k)
MetaBehind ==
  selectedItem # NoKey =>
    /\ \A i \in DOMAIN up : OfOther(up[i], selectedItem) => Behind(up, i, "meta")
    /\ \A i \in DOMAIN down : OfOther(down[i], selectedItem) => Behind(down, i, "meta") \/ ~ None(up, "meta")
ReadBehind ==
  (selectedItem # NoKey /\ NoMeta) =>
    /\ \A i \in DOMAIN up : up[i].what = "unsubscribe" => Behind(up, i, "read")
    /\ \A i \in DOMAIN up : LastA(up, i, "read") => up[i].k = selectedItem

(* What the value shows in the end: the last read is right, or a change      *)
(* comes behind it; and the last read allows the next again, unless it could *)
(* not be decoded.                                                           *)
ReadPending ==
  ~ last_resolve =>
    /\ \A i \in DOMAIN up : LastA(up, i, "read") => ~ up[i].first
    /\ None(up, "read") => /\ \A i \in DOMAIN down : LastA(down, i, "read") => ~ down[i].first
                           /\ None(down, "read") => thrown
Warned(r) == selectedItem \in DOMAIN watches /\ BehindOf(down, r, "changed", selectedItem)
Fresh(k, n) == k = selectedItem /\ n = rdb[selectedItem].n
LastFresh ==
  (selectedItem \in DOMAIN rdb /\ ~ late /\ NoMeta /\ None(up, "read")) =>
    /\ \A r \in DOMAIN down : LastA(down, r, "read") => Fresh(down[r].k, down[r].read.n) \/ Warned(r)
    /\ None(down, "read") /\ ~ thrown => Fresh(value.k, value.n) \/ Warned(0)

(* What type is shown in the end, and what the value is decoded as.          *)
LastTyped ==
  (selectedItem # NoKey /\ ~ remade) =>
    /\ selectedItem \in DOMAIN rdb
    /\ \A i \in DOMAIN up : LastA(up, i, "meta") => up[i].k = selectedItem
    /\ None(up, "meta") => /\ \A i \in DOMAIN down : LastA(down, i, "meta") => down[i].type = rdb[selectedItem].type
                           /\ None(down, "meta") => type = rdb[selectedItem].type
LastDecoded ==
  (selectedItem # NoKey /\ ~ misread /\ NoMeta) =>
    /\ \A i \in DOMAIN up : LastA(up, i, "read") => up[i].type = type
    /\ None(up, "read") => /\ \A i \in DOMAIN down : LastA(down, i, "read") => down[i].type = type
                           /\ None(down, "read") /\ ~ thrown => value.as = type

(* The last value read is of the type of the key selected.                   *)
LastReadable ==
  (selectedItem # NoKey /\ ~ remade /\ ~ misread /\ NoMeta /\ None(up, "read")) =>
    /\ \A i \in DOMAIN down : LastA(down, i, "read") => down[i].read.type = rdb[selectedItem].type
    /\ None(down, "read") => ~ thrown

RdbViewInv ==
  /\ RdbViewTypeOK /\ RdbMessages /\ OneChange /\ Asked /\ KeysTold
  /\ SubscriptionsFollow /\ WatchesFollow /\ MetaBehind /\ ReadBehind
  /\ ReadPending /\ LastFresh /\ LastTyped /\ LastDecoded /\ LastReadable

(* What one list says as another does: the last of a kind, the last about a  *)
(* key, which changes come behind the last read, which messages have others  *)
(* behind them and which have not.  All of it is as before but for the       *)
(* messages R that were taken and A that were added.                         *)
LastFrom(s, t, w) ==
  \A i \in DOMAIN t : LastA(t, i, w) => \E j \in DOMAIN s : LastA(s, j, w) /\ t[i] = s[j]
SameKind(s, t, w) == (None(t, w) <=> None(s, w)) /\ LastFrom(s, t, w)
SameWord(s, t, W, k) ==
  /\ Silent(t, W, k) <=> Silent(s, W, k)
  /\ \A i \in DOMAIN t : LastOf(t, i, W, k) => \E j \in DOMAIN s : LastOf(s, j, W, k) /\ t[i] = s[j]
SameReads(s, t, k) ==
  /\ None(t, "read") => None(s, "read") /\ (BehindOf(s, 0, "changed", k) => BehindOf(t, 0, "changed", k))
  /\ \A i \in DOMAIN t : LastA(t, i, "read") =>
       \E j \in DOMAIN s : /\ LastA(s, j, "read") /\ t[i] = s[j]
                           /\ BehindOf(s, j, "changed", k) => BehindOf(t, i, "changed", k)
SameOrder(s, t, A) ==
  \A i \in DOMAIN t : \/ t[i] \in A
                      \/ \E j \in DOMAIN s : t[i] = s[j] /\ \A v : Behind(s, j, v) => Behind(t, i, v)
StillIn(s, t, R) == \A j \in DOMAIN s : s[j] \in R \/ \E i \in DOMAIN t : t[i] = s[j]
NoneOf(N, w) == \A m \in N : m.what # w
Moved(s, t, R, A) ==
  /\ IsList(t) /\ SameOrder(s, t, A) /\ StillIn(s, t, R)
  /\ \A w : NoneOf(R, w) /\ NoneOf(A, w) => SameKind(s, t, w)
  /\ \A W, k : (\A m \in R \cup A : ~ IsAbout(m, W, k)) => SameWord(s, t, W, k)
  /\ \A k : (\A m \in R \cup A : m.what # "read" /\ ~ IsAbout(m, {"changed"}, k)) => SameReads(s, t, k)
  /\ \A W, w : (\A m \in A : m.what # w /\ m.what \notin W) => (Never(s, W, w) => Never(t, W, w))

LEMMA MovedNot ==
  ASSUME NEW s, IsList(s)
  PROVE  Moved(s, s, {}, {})
<1>1. SameOrder(s, s, {}) /\ StillIn(s, s, {})
  BY DEF SameOrder, StillIn
<1>2. \A w : SameKind(s, s, w)
  BY DEF SameKind, LastFrom
<1>3. \A W, k : SameWord(s, s, W, k)
  BY DEF SameWord
<1>4. \A k : SameReads(s, s, k)
  BY DEF SameReads
<1> HIDE DEF IsList
<1> QED BY <1>1, <1>2, <1>3, <1>4 DEF Moved

LEMMA MovedTwice ==
  ASSUME NEW s, NEW t, NEW u, NEW R, NEW A, NEW Q, NEW B, Moved(s, t, R, A), Moved(t, u, Q, B)
  PROVE  Moved(s, u, R \cup Q, A \cup B)
<1>1. ASSUME NEW w, NoneOf(R \cup Q, w), NoneOf(A \cup B, w) PROVE SameKind(s, u, w)
  <2>1. SameKind(s, t, w) /\ SameKind(t, u, w)
    BY <1>1 DEF Moved, NoneOf
  <2> QED BY <2>1 DEF SameKind, LastFrom
<1>2. ASSUME NEW W, NEW k, \A m \in (R \cup Q) \cup (A \cup B) : ~ IsAbout(m, W, k) PROVE SameWord(s, u, W, k)
  <2>1. SameWord(s, t, W, k) /\ SameWord(t, u, W, k)
    BY <1>2 DEF Moved
  <2> QED BY <2>1 DEF SameWord
<1>3. SameOrder(s, u, A \cup B)
  <2>1. SameOrder(s, t, A) /\ SameOrder(t, u, B)
    BY DEF Moved
  <2> SUFFICES ASSUME NEW i \in DOMAIN u, u[i] \notin A \cup B
               PROVE  \E j \in DOMAIN s : u[i] = s[j] /\ \A v : Behind(s, j, v) => Behind(u, i, v)
    BY DEF SameOrder
  <2>2. PICK l \in DOMAIN t : u[i] = t[l] /\ \A v : Behind(t, l, v) => Behind(u, i, v)
    BY <2>1 DEF SameOrder
  <2>3. PICK j \in DOMAIN s : t[l] = s[j] /\ \A v : Behind(s, j, v) => Behind(t, l, v)
    BY <2>1, <2>2 DEF SameOrder
  <2> QED BY <2>2, <2>3
<1>4. ASSUME NEW k, \A m \in (R \cup Q) \cup (A \cup B) : m.what # "read" /\ ~ IsAbout(m, {"changed"}, k)
      PROVE  SameReads(s, u, k)
  <2>1. SameReads(s, t, k) /\ SameReads(t, u, k)
    BY <1>4 DEF Moved
  <2> QED BY <2>1 DEF SameReads
<1>5. StillIn(s, u, R \cup Q) /\ IsList(u)
  BY DEF Moved, StillIn
<1>6. ASSUME NEW W, NEW w, \A m \in A \cup B : m.what # w /\ m.what \notin W, Never(s, W, w) PROVE Never(u, W, w)
  <2>1. Never(t, W, w)
    BY <1>6 DEF Moved
  <2> QED BY <1>6, <2>1 DEF Moved
<1> HIDE DEF IsList
<1> QED BY <1>1, <1>2, <1>3, <1>4, <1>5, <1>6 DEF Moved

(* The first message is taken.                                               *)
TookFirst(s, t) ==
  /\ Moved(s, t, {s[1]}, {})
  /\ 1 \in DOMAIN s /\ Head(s) = s[1]
  /\ \A i \in DOMAIN t : i + 1 \in DOMAIN s /\ t[i] = s[i + 1]
  /\ \A j \in DOMAIN s : j = 1 \/ \E i \in DOMAIN t : j = i + 1
  /\ \A w : None(t, w) => None(s, w) \/ LastA(s, 1, w)
  /\ \A w : LastFrom(s, t, w) /\ \A i \in DOMAIN t : LastA(t, i, w) => LastA(s, i + 1, w)
  /\ \A W, w : Never(s, W, w) => Never(t, W, w) /\ (s[1].what \in W => None(t, w))
  /\ \A W, k : Silent(t, W, k) => Silent(s, W, k) \/ LastOf(s, 1, W, k)
  /\ \A W, k : \A i \in DOMAIN t : LastOf(t, i, W, k) => LastOf(s, i + 1, W, k)
  /\ \A v, k : \A i \in DOMAIN t : BehindOf(s, i + 1, v, k) => BehindOf(t, i, v, k)
  /\ \A v, k : BehindOf(s, 1, v, k) => BehindOf(t, 0, v, k)
  /\ \A v : Behind(s, 1, v) => ~ None(t, v)
  /\ \A w : None(s, w) => None(t, w)

LEMMA MovedFirst ==
  ASSUME NEW s, IsList(s), s # <<>>, NEW t, t = Tail(s)
  PROVE  TookFirst(s, t)
<1>0. /\ IsList(t) /\ Len(s) \in Nat \ {0} /\ DOMAIN t = 1 .. Len(s) - 1 /\ DOMAIN s = 1 .. Len(s)
      /\ \A i \in 1 .. Len(s) - 1 : t[i] = s[i + 1] /\ i + 1 \in DOMAIN s
      /\ Head(s) = s[1] /\ 1 \in DOMAIN s
  BY FirstGone
<1> DEFINE n == Len(s)
<1> HIDE DEF n
<1>1. /\ n \in Nat \ {0} /\ DOMAIN t = 1 .. n - 1 /\ DOMAIN s = 1 .. n
      /\ \A i \in DOMAIN t : t[i] = s[i + 1] /\ i + 1 \in DOMAIN s
  BY <1>0 DEF n
<1> HIDE DEF IsList
<1>2. \A j \in DOMAIN s : j = 1 \/ (j - 1 \in DOMAIN t /\ t[j - 1] = s[j] /\ j = (j - 1) + 1)
  <2> SUFFICES ASSUME NEW j \in DOMAIN s, j # 1 PROVE j - 1 \in DOMAIN t /\ t[j - 1] = s[j] /\ j = (j - 1) + 1
    OBVIOUS
  <2>1. j - 1 \in DOMAIN t /\ (j - 1) + 1 = j
    BY <1>1
  <2> QED BY <1>1, <2>1
<1>3. \A i \in DOMAIN t, j \in DOMAIN s : j > i + 1 => j # 1 /\ j - 1 > i
  BY <1>1
<1>4. \A j \in DOMAIN s : j > 1 => j # 1 /\ j - 1 > 0
  BY <1>1
<1>5. ASSUME NEW w, None(t, w) PROVE None(s, w) \/ LastA(s, 1, w)
  BY <1>0, <1>2, <1>4, <1>5 DEF None, LastA
<1>6. ASSUME NEW w, NEW i \in DOMAIN t, LastA(t, i, w) PROVE LastA(s, i + 1, w)
  BY <1>1, <1>2, <1>3, <1>6 DEF LastA
<1>7. ASSUME NEW W, NEW k, Silent(t, W, k) PROVE Silent(s, W, k) \/ LastOf(s, 1, W, k)
  BY <1>0, <1>2, <1>4, <1>7 DEF Silent, LastOf
<1>8. ASSUME NEW W, NEW k, NEW i \in DOMAIN t, LastOf(t, i, W, k) PROVE LastOf(s, i + 1, W, k)
  BY <1>1, <1>2, <1>3, <1>8 DEF LastOf
<1>9. ASSUME NEW v, NEW k, NEW i \in DOMAIN t, BehindOf(s, i + 1, v, k) PROVE BehindOf(t, i, v, k)
  BY <1>2, <1>3, <1>9 DEF BehindOf
<1>10. ASSUME NEW v, NEW k, BehindOf(s, 1, v, k) PROVE BehindOf(t, 0, v, k)
  BY <1>2, <1>4, <1>10 DEF BehindOf
<1>11. ASSUME NEW v, NEW i \in DOMAIN t, Behind(s, i + 1, v) PROVE Behind(t, i, v)
  BY <1>2, <1>3, <1>11 DEF Behind
<1>12. ASSUME NEW v, Behind(s, 1, v) PROVE ~ None(t, v)
  BY <1>2, <1>4, <1>12 DEF Behind, None
<1>14. ASSUME NEW W, NEW w, Never(s, W, w) PROVE Never(t, W, w) /\ (s[1].what \in W => None(t, w))
  <2>1. ASSUME NEW i \in DOMAIN t, Behind(t, i, w) PROVE Behind(s, i + 1, w)
    <3>1. PICK j \in DOMAIN t : j > i /\ t[j].what = w
      BY <2>1 DEF Behind
    <3>2. j + 1 > i + 1
      BY <1>1, <3>1
    <3> QED BY <1>1, <3>1, <3>2 DEF Behind
  <2>2. ASSUME NEW j \in DOMAIN t, t[j].what = w PROVE Behind(s, 1, w)
    <3>1. j + 1 > 1
      BY <1>1
    <3> QED BY <1>1, <2>2, <3>1 DEF Behind
  <2> QED BY <1>0, <1>1, <1>14, <2>1, <2>2 DEF Never, None
<1>15. \A w : LastFrom(s, t, w)
  BY <1>1, <1>6 DEF LastFrom
<1>13. Moved(s, t, {s[1]}, {})
  <2>1. ASSUME NEW w, s[1].what # w PROVE SameKind(s, t, w)
    <3>1. None(t, w) <=> None(s, w)
      BY <1>1, <1>2, <2>1, SMTT(40) DEF None
    <3> QED BY <1>15, <3>1 DEF SameKind
  <2>2. ASSUME NEW W, NEW k, ~ IsAbout(s[1], W, k) PROVE SameWord(s, t, W, k)
    <3>1. Silent(t, W, k) <=> Silent(s, W, k)
      BY <1>1, <1>2, <2>2 DEF Silent
    <3> QED BY <1>1, <1>8, <3>1 DEF SameWord
  <2>3. SameOrder(s, t, {})
    BY <1>1, <1>11 DEF SameOrder
  <2>4. ASSUME NEW k, s[1].what # "read", ~ IsAbout(s[1], {"changed"}, k) PROVE SameReads(s, t, k)
    <3>1. None(t, "read") => None(s, "read")
      BY <1>5, <2>4 DEF LastA
    <3>2. BehindOf(s, 0, "changed", k) => BehindOf(s, 1, "changed", k)
      <4> SUFFICES ASSUME NEW j \in DOMAIN s, s[j].what = "changed", s[j].k = k PROVE j > 1
        BY DEF BehindOf
      <4>1. j # 1
        BY <2>4 DEF IsAbout
      <4> QED BY <1>1, <4>1
    <3> QED BY <1>1, <1>6, <1>9, <1>10, <3>1, <3>2 DEF SameReads
  <2>5. StillIn(s, t, {s[1]})
    BY <1>2 DEF StillIn
  <2> QED BY <1>0, <1>14, <2>1, <2>2, <2>3, <2>4, <2>5 DEF Moved, NoneOf
<1>16. \A w : None(s, w) => None(t, w)
  BY <1>1 DEF None
<1> QED BY <1>0, <1>1, <1>2, <1>5, <1>6, <1>7, <1>8, <1>9, <1>10, <1>12, <1>13, <1>14, <1>15, <1>16 DEF TookFirst

(* One message is put after the first n.                                     *)
PutAt(s, t, a, l, n) ==
  /\ l \in Nat /\ n \in 0 .. l /\ DOMAIN s = 1 .. l /\ DOMAIN t = 1 .. l + 1
  /\ \A i \in 1 .. n : t[i] = s[i]
  /\ t[n + 1] = a
  /\ \A i \in n + 1 .. l : t[i + 1] = s[i]

LEMMA MovedAt ==
  ASSUME NEW s, NEW t, IsList(t), NEW a, NEW l, NEW n, PutAt(s, t, a, l, n)
  PROVE  /\ Moved(s, t, {}, {a})
         /\ ~ None(t, a.what) /\ (\E i \in DOMAIN t : t[i] = a)
         /\ \A W, k : IsAbout(a, W, k) => ~ Silent(t, W, k)
         /\ \A W, w : (\A j \in DOMAIN s : s[j].what \notin W) /\ w \in W => Never(t, W, w)
         /\ \A j \in DOMAIN s : \E i \in DOMAIN t : t[i] = s[j]
         /\ \A i \in DOMAIN t : \/ t[i] = a
                                \/ /\ \E j \in DOMAIN s : t[i] = s[j]
                                   /\ \/ \E j \in DOMAIN s : j > n /\ t[i] = s[j]
                                      \/ Behind(t, i, a.what) /\ BehindOf(t, i, a.what, a.k)
         /\ \A w : \A i \in DOMAIN t : (LastA(t, i, w) /\ w = a.what) =>
              t[i] = a \/ \E j \in DOMAIN s : j > n /\ s[j].what = w
         /\ \A W, k : \A i \in DOMAIN t : (LastOf(t, i, W, k) /\ IsAbout(a, W, k)) =>
              t[i] = a \/ \E j \in DOMAIN s : j > n /\ s[j].what \in W
<1> USE DEF PutAt
<1> HIDE DEF IsList
<1> DEFINE To(j) == IF j <= n THEN j ELSE j + 1
<1>1. \A j \in DOMAIN s : To(j) \in DOMAIN t /\ t[To(j)] = s[j]
  <2> SUFFICES ASSUME NEW j \in DOMAIN s PROVE To(j) \in DOMAIN t /\ t[To(j)] = s[j]
    OBVIOUS
  <2>1. CASE j <= n
    <3>1. j \in 1 .. n
      BY <2>1
    <3> QED BY <2>1, <3>1
  <2>2. CASE ~ (j <= n)
    <3>1. j \in n + 1 .. l
      BY <2>2
    <3> QED BY <2>2, <3>1
  <2> QED BY <2>1, <2>2
<1>2. \A i \in DOMAIN t : i = n + 1 \/ \E j \in DOMAIN s : i = To(j)
  <2> SUFFICES ASSUME NEW i \in DOMAIN t, i # n + 1 PROVE \E j \in DOMAIN s : i = To(j)
    OBVIOUS
  <2>1. CASE i <= n
    <3>1. i \in DOMAIN s /\ i = To(i)
      BY <2>1
    <3> QED BY <3>1
  <2>2. CASE ~ (i <= n)
    <3>1. i - 1 \in DOMAIN s /\ ~ (i - 1 <= n) /\ i = (i - 1) + 1
      BY <2>2
    <3>2. i = To(i - 1)
      BY <3>1
    <3> QED BY <3>1, <3>2
  <2> QED BY <2>1, <2>2
<1>3. \A i, j \in DOMAIN s : j > i => To(j) > To(i)
  OBVIOUS
<1>4. \A j \in DOMAIN s : /\ To(j) > n + 1 => j > n
                          /\ n + 1 > To(j) \/ j > n
                          /\ To(j) > 0
  OBVIOUS
<1>5. n + 1 \in DOMAIN t
  OBVIOUS
<1>6. \A i, j \in DOMAIN s : To(j) > To(i) => j > i
  OBVIOUS
<1>7. \A j \in DOMAIN s : j > 0
  OBVIOUS
<1> HIDE DEF To
<1>8. ASSUME NEW w, a.what # w PROVE SameKind(s, t, w)
  <2>1. None(t, w) <=> None(s, w)
    BY <1>1, <1>2, <1>8 DEF None
  <2>2. ASSUME NEW i \in DOMAIN t, LastA(t, i, w) PROVE \E j \in DOMAIN s : LastA(s, j, w) /\ t[i] = s[j]
    <3>1. PICK j \in DOMAIN s : i = To(j)
      BY <1>2, <1>8, <2>2 DEF LastA
    <3>2. LastA(s, j, w)
      BY <1>1, <1>3, <2>2, <3>1 DEF LastA
    <3> QED BY <1>1, <3>1, <3>2
  <2> QED BY <2>1, <2>2 DEF SameKind, LastFrom
<1>9. ASSUME NEW W, NEW k, ~ IsAbout(a, W, k) PROVE SameWord(s, t, W, k)
  <2>1. Silent(t, W, k) <=> Silent(s, W, k)
    BY <1>1, <1>2, <1>9 DEF Silent
  <2>2. ASSUME NEW i \in DOMAIN t, LastOf(t, i, W, k) PROVE \E j \in DOMAIN s : LastOf(s, j, W, k) /\ t[i] = s[j]
    <3>1. PICK j \in DOMAIN s : i = To(j)
      BY <1>2, <1>9, <2>2 DEF LastOf
    <3>2. LastOf(s, j, W, k)
      BY <1>1, <1>3, <2>2, <3>1 DEF LastOf
    <3> QED BY <1>1, <3>1, <3>2
  <2> QED BY <2>1, <2>2 DEF SameWord
<1>10. \A j \in DOMAIN s : \A v : Behind(s, j, v) => Behind(t, To(j), v)
  BY <1>1, <1>3 DEF Behind
<1>11. \A j \in DOMAIN s : \A v, k : BehindOf(s, j, v, k) => BehindOf(t, To(j), v, k)
  BY <1>1, <1>3 DEF BehindOf
<1>12. SameOrder(s, t, {a})
  <2> SUFFICES ASSUME NEW i \in DOMAIN t, t[i] # a
               PROVE  \E j \in DOMAIN s : t[i] = s[j] /\ \A v : Behind(s, j, v) => Behind(t, i, v)
    BY DEF SameOrder
  <2>1. PICK j \in DOMAIN s : i = To(j)
    BY <1>2
  <2> QED BY <1>1, <1>10, <2>1
<1>13. ASSUME NEW k, a.what # "read" PROVE SameReads(s, t, k)
  <2>1. None(t, "read") => None(s, "read")
    BY <1>1 DEF None
  <2>2. BehindOf(s, 0, "changed", k) => BehindOf(t, 0, "changed", k)
    BY <1>1, <1>4 DEF BehindOf
  <2>3. ASSUME NEW i \in DOMAIN t, LastA(t, i, "read")
        PROVE  \E j \in DOMAIN s : /\ LastA(s, j, "read") /\ t[i] = s[j]
                                   /\ BehindOf(s, j, "changed", k) => BehindOf(t, i, "changed", k)
    <3>1. PICK j \in DOMAIN s : i = To(j)
      BY <1>2, <1>13, <2>3 DEF LastA
    <3>2. LastA(s, j, "read")
      BY <1>1, <1>3, <2>3, <3>1 DEF LastA
    <3> QED BY <1>1, <1>11, <3>1, <3>2
  <2> QED BY <2>1, <2>2, <2>3 DEF SameReads
<1>20. ASSUME NEW W, NEW w, NEW i \in DOMAIN s, Behind(t, To(i), w)
       PROVE  Behind(s, i, w) \/ w = a.what
  <2>1. PICK j \in DOMAIN t : j > To(i) /\ t[j].what = w
    BY <1>20 DEF Behind
  <2>2. CASE j = n + 1
    BY <2>1, <2>2
  <2>3. ASSUME NEW h \in DOMAIN s, j = To(h) PROVE Behind(s, i, w)
    <3>1. h > i /\ s[h].what = w
      BY <1>1, <1>6, <2>1, <2>3
    <3> QED BY <3>1 DEF Behind
  <2> QED BY <1>2, <2>2, <2>3
<1>21. ASSUME NEW W, NEW w, a.what # w, a.what \notin W, Never(s, W, w) PROVE Never(t, W, w)
  <2> SUFFICES ASSUME NEW i \in DOMAIN t, t[i].what \in W, Behind(t, i, w) PROVE FALSE
    BY DEF Never
  <2>1. PICK j \in DOMAIN s : i = To(j)
    BY <1>2, <1>21
  <2> QED BY <1>1, <1>20, <1>21, <2>1 DEF Never
<1>22. ASSUME NEW W, NEW w \in W, \A j \in DOMAIN s : s[j].what \notin W PROVE Never(t, W, w)
  <2> SUFFICES ASSUME NEW i \in DOMAIN t, t[i].what \in W, NEW h \in DOMAIN t, h > i, t[h].what \in W PROVE FALSE
    BY DEF Never, Behind
  <2>1. i = n + 1 /\ h = n + 1
    BY <1>1, <1>2, <1>22
  <2> QED BY <2>1
<1>23. StillIn(s, t, {})
  BY <1>1 DEF StillIn
<1>14. Moved(s, t, {}, {a})
  BY <1>8, <1>9, <1>12, <1>13, <1>21, <1>23 DEF Moved, NoneOf
<1>15. \A j \in DOMAIN s : \E i \in DOMAIN t : t[i] = s[j]
  BY <1>1
<1>16. ~ None(t, a.what) /\ (\E i \in DOMAIN t : t[i] = a) /\ \A W, k : IsAbout(a, W, k) => ~ Silent(t, W, k)
  BY <1>5 DEF None, Silent
<1>17. ASSUME NEW i \in DOMAIN t, t[i] # a
       PROVE  /\ \E j \in DOMAIN s : t[i] = s[j]
              /\ \/ \E j \in DOMAIN s : j > n /\ t[i] = s[j]
                 \/ Behind(t, i, a.what) /\ BehindOf(t, i, a.what, a.k)
  <2>1. PICK j \in DOMAIN s : i = To(j)
    BY <1>2, <1>17
  <2> QED BY <1>1, <1>4, <1>5, <2>1 DEF Behind, BehindOf
<1>18. ASSUME NEW w, NEW i \in DOMAIN t, LastA(t, i, w), w = a.what, t[i] # a
       PROVE  \E j \in DOMAIN s : j > n /\ s[j].what = w
  <2>1. PICK j \in DOMAIN s : i = To(j)
    BY <1>2, <1>18
  <2>2. ~ (n + 1 > i)
    BY <1>5, <1>18 DEF LastA
  <2> QED BY <1>1, <1>4, <1>18, <2>1, <2>2 DEF LastA
<1>19. ASSUME NEW W, NEW k, NEW i \in DOMAIN t, LastOf(t, i, W, k), IsAbout(a, W, k), t[i] # a
       PROVE  \E j \in DOMAIN s : j > n /\ s[j].what \in W
  <2>1. PICK j \in DOMAIN s : i = To(j)
    BY <1>2, <1>19
  <2>2. ~ (n + 1 > i)
    BY <1>5, <1>19 DEF LastOf
  <2> QED BY <1>1, <1>4, <1>19, <2>1, <2>2 DEF LastOf, IsAbout
<1> QED BY <1>14, <1>15, <1>16, <1>17, <1>18, <1>19, <1>22

(* A message is put behind the last.                                         *)
PutLast(s, t, a) ==
  /\ Moved(s, t, {}, {a})
  /\ ~ None(t, a.what) /\ (\E i \in DOMAIN t : t[i] = a)
  /\ \A W, k : IsAbout(a, W, k) => ~ Silent(t, W, k)
  /\ \A W, w : (\A j \in DOMAIN s : s[j].what \notin W) /\ w \in W => Never(t, W, w)
  /\ \A j \in DOMAIN s : j \in DOMAIN t /\ t[j] = s[j]
  /\ \A i \in DOMAIN t : \/ t[i] = a
                         \/ /\ i \in DOMAIN s /\ t[i] = s[i]
                            /\ Behind(t, i, a.what) /\ BehindOf(t, i, a.what, a.k)
  /\ \A w : \A i \in DOMAIN t : (LastA(t, i, w) /\ w = a.what) => t[i] = a
  /\ \A W, k : \A i \in DOMAIN t : (LastOf(t, i, W, k) /\ IsAbout(a, W, k)) => t[i] = a
  /\ BehindOf(t, 0, a.what, a.k)
  /\ \A W, w : a.what # w /\ Never(s, W, w) => Never(t, W, w)

LEMMA MovedLast ==
  ASSUME NEW s, IsList(s), NEW a, NEW t, t = Append(s, a)
  PROVE  PutLast(s, t, a)
<1>1. /\ IsList(t) /\ Len(s) \in Nat /\ DOMAIN t = 1 .. Len(s) + 1 /\ DOMAIN s = 1 .. Len(s)
      /\ \A i \in 1 .. Len(s) : t[i] = s[i]
      /\ t[Len(s) + 1] = a
  BY PutBehind
<1> DEFINE n == Len(s)
<1> HIDE DEF n
<1>2. /\ n \in Nat /\ DOMAIN t = 1 .. n + 1 /\ DOMAIN s = 1 .. n
      /\ \A i \in 1 .. n : t[i] = s[i]
      /\ t[n + 1] = a
  BY <1>1 DEF n
<1> HIDE DEF IsList
<1>3. n \in 0 .. n /\ \A i \in n + 1 .. n : t[i + 1] = s[i]
  BY <1>2
<1>4. \A j \in DOMAIN s : ~ (j > n) /\ j \in DOMAIN t /\ t[j] = s[j]
  BY <1>2
<1>5. \A i \in DOMAIN t : t[i] = a \/ (i \in DOMAIN s /\ n + 1 > i)
  BY <1>2
<1>6. n + 1 \in DOMAIN t /\ n + 1 > 0
  BY <1>2
<1>7. /\ Moved(s, t, {}, {a}) /\ ~ None(t, a.what) /\ (\E i \in DOMAIN t : t[i] = a) /\ \A W, k : IsAbout(a, W, k) => ~ Silent(t, W, k)
      /\ \A W, w : (\A j \in DOMAIN s : s[j].what \notin W) /\ w \in W => Never(t, W, w)
  <2>1. PutAt(s, t, a, n, n)
    BY <1>2, <1>3 DEF PutAt
  <2>2. Moved(s, t, {}, {a}) /\ ~ None(t, a.what) /\ (\E i \in DOMAIN t : t[i] = a)
    BY <1>1, <2>1, MovedAt
  <2>3. \A W, k : IsAbout(a, W, k) => ~ Silent(t, W, k)
    BY <1>1, <2>1, MovedAt
  <2>4. \A W, w : (\A j \in DOMAIN s : s[j].what \notin W) /\ w \in W => Never(t, W, w)
    BY <1>1, <2>1, MovedAt
  <2> QED BY <2>2, <2>3, <2>4
<1>8. \A i \in DOMAIN t : \/ t[i] = a
                          \/ i \in DOMAIN s /\ t[i] = s[i] /\ Behind(t, i, a.what) /\ BehindOf(t, i, a.what, a.k)
  BY <1>2, <1>4, <1>5, <1>6 DEF Behind, BehindOf
<1>9. BehindOf(t, 0, a.what, a.k)
  BY <1>2, <1>6 DEF BehindOf
<1>10. /\ \A w : \A i \in DOMAIN t : (LastA(t, i, w) /\ w = a.what) => t[i] = a
       /\ \A W, k : \A i \in DOMAIN t : (LastOf(t, i, W, k) /\ IsAbout(a, W, k)) => t[i] = a
  BY <1>2, <1>5, <1>6 DEF LastA, LastOf
<1>11. ASSUME NEW W, NEW w, a.what # w, Never(s, W, w) PROVE Never(t, W, w)
  <2> SUFFICES ASSUME NEW i \in DOMAIN t, t[i].what \in W, NEW h \in DOMAIN t, h > i, t[h].what = w PROVE FALSE
    BY DEF Never, Behind
  <2>1. h # n + 1 /\ i # n + 1 /\ h \in DOMAIN s /\ i \in DOMAIN s
    BY <1>2, <1>11
  <2> QED BY <1>4, <1>11, <2>1 DEF Never, Behind
<1> QED BY <1>1, <1>4, <1>7, <1>8, <1>9, <1>10, <1>11 DEF PutLast

(* The server answers.                                                       *)
PutAmong(s, t, a) ==
  /\ Moved(s, t, {}, {a})
  /\ ~ None(t, a.what) /\ (\E i \in DOMAIN t : t[i] = a)
  /\ \A W, w : (\A j \in DOMAIN s : s[j].what \notin W) /\ w \in W => Never(t, W, w)
  /\ \A W, k : IsAbout(a, W, k) => ~ Silent(t, W, k)
  /\ \A i \in DOMAIN t : \/ t[i] = a
                             \/ /\ \E j \in DOMAIN s : t[i] = s[j]
                                /\ "event" \in DOMAIN t[i] \/ Behind(t, i, a.what)
  /\ \A j \in DOMAIN s : \E i \in DOMAIN t : t[i] = s[j]
  /\ \A w : \A i \in DOMAIN t : (LastA(t, i, w) /\ w = a.what) =>
       t[i] = a \/ \E j \in DOMAIN s : "event" \in DOMAIN s[j] /\ s[j].what = w
  /\ \A W, k : \A i \in DOMAIN t : (LastOf(t, i, W, k) /\ IsAbout(a, W, k)) =>
       t[i] = a \/ \E j \in DOMAIN s : "event" \in DOMAIN s[j] /\ s[j].what \in W

LEMMA MovedServed ==
  ASSUME IsList(up), IsList(down), up # <<>>, NEW a, Serve(a)
  PROVE  PutAmong(down, down', a) /\ up' = Tail(up)
<1> DEFINE s == down
           t == down'
<1>1. PICK n \in 0 .. Len(s) : Overtaking(n) /\ t = InsertAt(s, n + 1, a)
  BY DEF Serve
<1>2. /\ IsList(t) /\ Len(s) \in Nat
      /\ DOMAIN t = 1 .. Len(s) + 1 /\ DOMAIN s = 1 .. Len(s)
      /\ \A i \in 1 .. n : t[i] = s[i]
      /\ t[n + 1] = a
      /\ \A i \in n + 1 .. Len(s) : t[i + 1] = s[i]
  BY <1>1, PutBetween
<1>3. \A j \in DOMAIN s : j > n => "event" \in DOMAIN s[j]
  <2> SUFFICES ASSUME NEW j \in DOMAIN s, j > n PROVE j \in n + 1 .. Len(s)
    BY <1>1 DEF Overtaking
  <2> QED BY <1>2
<1> HIDE DEF s, t, IsList
<1>4. /\ Moved(s, t, {}, {a})
      /\ ~ None(t, a.what) /\ (\E i \in DOMAIN t : t[i] = a)
      /\ \A W, k : IsAbout(a, W, k) => ~ Silent(t, W, k)
      /\ \A W, w : (\A j \in DOMAIN s : s[j].what \notin W) /\ w \in W => Never(t, W, w)
      /\ \A j \in DOMAIN s : \E i \in DOMAIN t : t[i] = s[j]
      /\ \A i \in DOMAIN t : \/ t[i] = a
                             \/ /\ \E j \in DOMAIN s : t[i] = s[j]
                                /\ \/ \E j \in DOMAIN s : j > n /\ t[i] = s[j]
                                   \/ Behind(t, i, a.what) /\ BehindOf(t, i, a.what, a.k)
      /\ \A w : \A i \in DOMAIN t : (LastA(t, i, w) /\ w = a.what) =>
           t[i] = a \/ \E j \in DOMAIN s : j > n /\ s[j].what = w
      /\ \A W, k : \A i \in DOMAIN t : (LastOf(t, i, W, k) /\ IsAbout(a, W, k)) =>
           t[i] = a \/ \E j \in DOMAIN s : j > n /\ s[j].what \in W
  <2>1. PutAt(s, t, a, Len(s), n)
    BY <1>2 DEF PutAt
  <2>2. IsList(t)
    BY <1>2
  <2> QED BY <2>1, <2>2, MovedAt, ZenonT(40)
<1>5. up' = Tail(up)
  BY DEF Serve
<1>6. PutAmong(s, t, a)
  BY <1>2, <1>3, <1>4 DEF PutAmong
<1> QED BY <1>5, <1>6 DEF s, t

(* Lists written in parts.                                                   *)
LEMMA InParts ==
  ASSUME NEW s, IsList(s), NEW a, NEW b
  PROVE  /\ s \o <<>> = s /\ s \o <<a>> = Append(s, a) /\ s \o <<a, b>> = Append(Append(s, a), b)
         /\ s \o (<<>> \o <<>>) = s /\ s \o (<<a>> \o <<>>) = Append(s, a) /\ s \o (<<>> \o <<b>>) = Append(s, b)
         /\ s \o (<<a>> \o <<b>>) = Append(Append(s, a), b)
<1> DEFINE D == Range(s) \cup {a, b}
<1>1. s \in Seq(D) /\ <<a>> \in Seq(D) /\ <<b>> \in Seq(D) /\ <<>> \in Seq(D) /\ a \in D /\ b \in D
  BY SeqMonotonic DEF IsList
<1>2. s \o <<a>> = Append(s, a) /\ Append(s, a) \in Seq(D) /\ s \o <<b>> = Append(s, b)
  BY <1>1, AppendIsConcat, AppendProperties
<1> HIDE DEF D
<1>3. Append(s, a) \o <<b>> = Append(Append(s, a), b)
  BY <1>1, <1>2, AppendIsConcat
<1>4. s \o (<<a>> \o <<b>>) = (s \o <<a>>) \o <<b>>
  BY <1>1, ConcatAssociative
<1>5. /\ s \o <<>> = s /\ <<>> \o <<>> = <<>> /\ <<a>> \o <<>> = <<a>> /\ <<>> \o <<b>> = <<b>>
  BY <1>1, ConcatEmptySeq
<1>6. <<a>> \o <<b>> = <<a, b>>
  <2> DEFINE x == <<a>>
             y == <<b>>
  <2>1. x \in Seq(D) /\ y \in Seq(D) /\ Len(x) = 1 /\ Len(y) = 1 /\ x[1] = a /\ y[1] = b
    BY <1>1
  <2> HIDE DEF x, y
  <2>2. /\ x \o y \in Seq(D) /\ Len(x \o y) = 2 /\ (x \o y)[1] = a /\ (x \o y)[2] = b
    BY <2>1, ConcatProperties
  <2>3. x \o y = [i \in 1 .. 2 |-> (x \o y)[i]]
    BY <2>2, SeqDef, LenProperties
  <2>4. x \o y = <<a, b>>
    BY <2>2, <2>3
  <2> QED BY <2>4 DEF x, y
<1> QED BY <1>2, <1>3, <1>4, <1>5, <1>6

(* A step that takes R from and adds A to the calls, and Q and B the         *)
(* answers, and what such a step leaves as it is.                            *)
Flow(R, A, Q, B) == Moved(up, up', R, A) /\ Moved(down, down', Q, B)
Free(R, A, Q, B, w) == NoneOf(R, w) /\ NoneOf(A, w) /\ NoneOf(Q, w) /\ NoneOf(B, w)
NotAbout(N, W, k) == \A m \in N : ~ IsAbout(m, W, k)

LEMMA MessagesKept ==
  ASSUME RdbMessages, NEW R, NEW A, NEW Q, NEW B, Flow(R, A, Q, B),
         \A m \in A : RdbCall(m), \A m \in B : RdbAnswer(m),
         \A k \in DOMAIN watches' : watches'[k] \in ValueTypes \cup {NoType}
  PROVE  RdbMessages'
<1>1. IsList(up') /\ IsList(down')
  BY DEF Flow, Moved
<1>2. \A i \in DOMAIN up' : up'[i] \in A \/ \E j \in DOMAIN up : up'[i] = up[j]
  BY DEF Flow, Moved, SameOrder
<1>3. \A i \in DOMAIN down' : down'[i] \in B \/ \E j \in DOMAIN down : down'[i] = down[j]
  BY DEF Flow, Moved, SameOrder
<1>4. (\A i \in DOMAIN up : RdbCall(up[i])) /\ (\A i \in DOMAIN down : RdbAnswer(down[i]))
  BY DEF RdbMessages
<1>5. (\A i \in DOMAIN up' : RdbCall(up'[i])) /\ (\A i \in DOMAIN down' : RdbAnswer(down'[i]))
  BY <1>2, <1>3, <1>4
<1> HIDE DEF IsList
<1>6. (\A i \in DOMAIN up' : RdbCall(up[i])') /\ (\A i \in DOMAIN down' : RdbAnswer(down[i])')
  BY <1>5 DEF RdbCall, RdbAnswer, OnTheirWay
<1> QED BY <1>1, <1>6 DEF RdbMessages

LEMMA OneChangeKept ==
  ASSUME OneChange, NEW R, NEW A, NEW Q, NEW B, Flow(R, A, Q, B),
         NoneOf(R, "change"), NoneOf(A, "change"), rdbchanges' <= MaxRdbActs \/ rdbchanges' = rdbchanges
  PROVE  OneChange'
<1>1. Never(up', {"change"}, "change")
  <2>1. Never(up, {"change"}, "change") /\ \A m \in A : m.what # "change" /\ m.what \notin {"change"}
    BY DEF OneChange, NoneOf
  <2> QED BY <2>1 DEF Flow, Moved
<1>2. None(up', "change") <=> None(up, "change")
  BY DEF Flow, Moved, SameKind
<1> QED BY <1>1, <1>2 DEF OneChange

LEMMA AskedKept ==
  ASSUME Asked, NEW R, NEW A, NEW Q, NEW B, Flow(R, A, Q, B),
         \A w \in {"keys", "keep"} : NoneOf(R, w) /\ NoneOf(A, w),
         NoneOf(Q, "keys"), NoneOf(B, "keys"),
         \A w \in {"created", "deleted"} : NoneOf(Q, w) /\ NoneOf(B, w),
         listing' = listing,
         listing = "kept" \/ \A i \in DOMAIN up : i \in DOMAIN up' /\ up'[i] = up[i]
  PROVE  Asked'
<1>1. /\ None(up', "keys") <=> None(up, "keys")
      /\ None(up', "keep") <=> None(up, "keep")
      /\ None(down', "keys") <=> None(down, "keys")
      /\ None(down', "created") <=> None(down, "created")
      /\ None(down', "deleted") <=> None(down, "deleted")
  BY DEF Flow, Moved, SameKind
<1>2. /\ Never(up', {"keys"}, "keys") /\ Never(up', {"keep"}, "keep")
      /\ Never(down', {"keys", "created", "deleted"}, "keys")
  <2>1. /\ Never(up, {"keys"}, "keys") /\ \A m \in A : m.what # "keys" /\ m.what \notin {"keys"}
        /\ Never(up, {"keep"}, "keep") /\ \A m \in A : m.what # "keep" /\ m.what \notin {"keep"}
        /\ Never(down, {"keys", "created", "deleted"}, "keys")
        /\ \A m \in B : m.what # "keys" /\ m.what \notin {"keys", "created", "deleted"}
    BY DEF Asked, NoneOf
  <2>2. Never(up', {"keys"}, "keys")
    BY <2>1 DEF Flow, Moved
  <2>3. Never(up', {"keep"}, "keep")
    BY <2>1 DEF Flow, Moved
  <2>4. Never(down', {"keys", "created", "deleted"}, "keys")
    BY <2>1 DEF Flow, Moved
  <2> QED BY <2>2, <2>3, <2>4
<1> QED BY <1>1, <1>2 DEF Asked

LEMMA KeysKept ==
  ASSUME KeysTold, NEW R, NEW A, NEW Q, NEW B, Flow(R, A, Q, B),
         \A w \in {"keys", "created", "deleted"} : NoneOf(Q, w) /\ NoneOf(B, w),
         (listing' # "untold" => listing # "untold"), (unheard => unheard'), DOMAIN rdb' = DOMAIN rdb, rdbKeys' = rdbKeys
  PROVE  KeysTold'
<1> SUFFICES ASSUME listing # "untold", ~ unheard, NEW k \in RdbNames
             PROVE  /\ \A i \in DOMAIN down' : LastOf(down', i, {"created", "deleted"}, k) =>
                                                 (down'[i].what = "created" <=> k \in DOMAIN rdb')
                    /\ Silent(down', {"created", "deleted"}, k) =>
                         /\ \A i \in DOMAIN down' : down'[i].what = "keys" => (k \in down'[i].keys <=> k \in DOMAIN rdb')
                         /\ None(down', "keys") => (k \in rdbKeys' <=> k \in DOMAIN rdb')
  BY DEF KeysTold
<1>1. SameWord(down, down', {"created", "deleted"}, k)
  <2>1. \A m \in Q \cup B : ~ IsAbout(m, {"created", "deleted"}, k)
    BY DEF NoneOf, IsAbout
  <2> QED BY <2>1 DEF Flow, Moved
<1>2. SameKind(down, down', "keys")
  BY DEF Flow, Moved
<1>3. \A i \in DOMAIN down' : down'[i].what = "keys" => \E j \in DOMAIN down : down'[i] = down[j]
  BY DEF Flow, Moved, SameOrder, NoneOf
<1>4. /\ \A i \in DOMAIN down : LastOf(down, i, {"created", "deleted"}, k) =>
                                  (down[i].what = "created" <=> k \in DOMAIN rdb)
      /\ Silent(down, {"created", "deleted"}, k) =>
           /\ \A i \in DOMAIN down : down[i].what = "keys" => (k \in down[i].keys <=> k \in DOMAIN rdb)
           /\ None(down, "keys") => (k \in rdbKeys <=> k \in DOMAIN rdb)
  BY DEF KeysTold
<1>5. \A i \in DOMAIN down' : LastOf(down', i, {"created", "deleted"}, k) =>
                                (down'[i].what = "created" <=> k \in DOMAIN rdb')
  BY <1>1, <1>4 DEF SameWord
<1>6. Silent(down', {"created", "deleted"}, k) <=> Silent(down, {"created", "deleted"}, k)
  BY <1>1 DEF SameWord
<1>7. None(down', "keys") <=> None(down, "keys")
  BY <1>2 DEF SameKind
<1> QED BY <1>3, <1>4, <1>5, <1>6, <1>7

(* The parts about the key selected.                                         *)
LEMMA NoMetaKept ==
  ASSUME NEW R, NEW A, NEW Q, NEW B, Flow(R, A, Q, B), Free(R, A, Q, B, "meta")
  PROVE  /\ NoMeta' <=> NoMeta
         /\ None(up', "meta") <=> None(up, "meta")
         /\ None(down', "meta") <=> None(down, "meta")
BY DEF Flow, Moved, SameKind, Free, NoMeta

LEMMA SubscriptionKept ==
  ASSUME NEW k, SubscriptionFollows(k), NEW R, NEW A, NEW Q, NEW B, Flow(R, A, Q, B),
         NotAbout(R, Subs, k), NotAbout(A, Subs, k),
         k \in watched' <=> k \in watched, k \in DOMAIN watches' <=> k \in DOMAIN watches
  PROVE  SubscriptionFollows(k)'
<1>1. SameWord(up, up', Subs, k)
  BY DEF Flow, Moved, NotAbout
<1>2. /\ Silent(up', Subs, k) => (k \in watched' <=> k \in DOMAIN watches')
      /\ \A i \in DOMAIN up' : LastOf(up', i, Subs, k) => (up'[i].what = "subscribe" <=> k \in DOMAIN watches')
  BY <1>1 DEF SameWord, SubscriptionFollows
<1> QED BY <1>2 DEF SubscriptionFollows, Silent, LastOf, IsAbout, Subs

LEMMA WatchKept ==
  ASSUME NEW k, WatchFollows(k), NEW R, NEW A, NEW Q, NEW B, Flow(R, A, Q, B),
         NotAbout(R, {"watch"}, k), NotAbout(A, {"watch"}, k),
         NotAbout(Q, {"watch"}, k), NotAbout(B, {"watch"}, k),
         k \in DOMAIN watches' <=> k \in DOMAIN watches,
         \A on : WatchRight(k, on) => WatchRight(k, on)'
  PROVE  WatchFollows(k)'
<1>1. SameWord(up, up', {"watch"}, k) /\ SameWord(down, down', {"watch"}, k)
  BY DEF Flow, Moved, NotAbout
<1>2. WatchRight(k, k \in DOMAIN watches) => WatchRight(k, k \in DOMAIN watches)'
  BY DEF WatchRight
<1> QED BY <1>1, <1>2 DEF SameWord, WatchFollows, Silent, LastOf, IsAbout

LEMMA MetaKept ==
  ASSUME MetaBehind, NEW R, NEW A, NEW Q, NEW B, Flow(R, A, Q, B),
         selectedItem' = selectedItem,
         \A m \in A \cup B : ~ OfOther(m, selectedItem),
         None(up', "meta") => None(up, "meta")
  PROVE  MetaBehind'
<1> SUFFICES ASSUME selectedItem # NoKey
             PROVE  /\ \A i \in DOMAIN up' : OfOther(up'[i], selectedItem) => Behind(up', i, "meta")
                    /\ \A i \in DOMAIN down' : OfOther(down'[i], selectedItem) =>
                                                 Behind(down', i, "meta") \/ ~ None(up', "meta")
  BY DEF MetaBehind
<1>1. SameOrder(up, up', A) /\ SameOrder(down, down', B)
  BY DEF Flow, Moved
<1> QED BY <1>1 DEF SameOrder, MetaBehind

LEMMA ReadsKept ==
  ASSUME ReadBehind, NEW R, NEW A, NEW Q, NEW B, Flow(R, A, Q, B),
         selectedItem' = selectedItem, NoMeta' => NoMeta,
         NoneOf(A, "unsubscribe"), LastFrom(up, up', "read")
  PROVE  ReadBehind'
<1> SUFFICES ASSUME selectedItem # NoKey, NoMeta
             PROVE  /\ \A i \in DOMAIN up' : up'[i].what = "unsubscribe" => Behind(up', i, "read")
                    /\ \A i \in DOMAIN up' : LastA(up', i, "read") => up'[i].k = selectedItem
  BY DEF ReadBehind
<1>1. SameOrder(up, up', A)
  BY DEF Flow, Moved
<1>2. \A i \in DOMAIN up' : up'[i].what = "unsubscribe" => Behind(up', i, "read")
  BY <1>1 DEF SameOrder, NoneOf, ReadBehind
<1>3. \A i \in DOMAIN up' : LastA(up', i, "read") => up'[i].k = selectedItem
  BY DEF LastFrom, ReadBehind
<1> QED BY <1>2, <1>3

LEMMA PendingKept ==
  ASSUME ReadPending, NEW R, NEW A, NEW Q, NEW B, Flow(R, A, Q, B), Free(R, A, Q, B, "read"),
         thrown' = thrown, ~ last_resolve' => ~ last_resolve
  PROVE  ReadPending'
<1> SUFFICES ASSUME ~ last_resolve
             PROVE  /\ \A i \in DOMAIN up' : LastA(up', i, "read") => ~ up'[i].first
                    /\ None(up', "read") =>
                         /\ \A i \in DOMAIN down' : LastA(down', i, "read") => ~ down'[i].first
                         /\ None(down', "read") => thrown
  BY DEF ReadPending, LastA, None
<1>1. SameKind(up, up', "read") /\ SameKind(down, down', "read")
  BY DEF Flow, Moved, Free
<1> QED BY <1>1 DEF SameKind, LastFrom, ReadPending

LEMMA FreshKept ==
  ASSUME LastFresh, selectedItem' = selectedItem, value' = value, thrown' = thrown,
         NoMeta' => NoMeta, None(up', "read") => None(up, "read"),
         SameReads(down, down', selectedItem),
         selectedItem \in DOMAIN watches => selectedItem \in DOMAIN watches',
         (selectedItem \in DOMAIN rdb' /\ ~ late') =>
           selectedItem \in DOMAIN rdb /\ ~ late /\ rdb'[selectedItem].n = rdb[selectedItem].n
  PROVE  LastFresh'
<1> DEFINE F(k, n) == k = selectedItem /\ n = rdb'[selectedItem].n
           W(r) == selectedItem \in DOMAIN watches' /\ BehindOf(down', r, "changed", selectedItem)
<1> SUFFICES ASSUME selectedItem \in DOMAIN rdb', ~ late', NoMeta', None(up', "read")
             PROVE  /\ \A r \in DOMAIN down' : LastA(down', r, "read") => F(down'[r].k, down'[r].read.n) \/ W(r)
                    /\ None(down', "read") /\ ~ thrown => F(value.k, value.n) \/ W(0)
  BY DEF LastFresh, LastA, None, Fresh, Warned, BehindOf
<1>1. /\ \A r \in DOMAIN down : LastA(down, r, "read") => Fresh(down[r].k, down[r].read.n) \/ Warned(r)
      /\ None(down, "read") /\ ~ thrown => Fresh(value.k, value.n) \/ Warned(0)
  BY DEF LastFresh
<1>2. ASSUME NEW r \in DOMAIN down', LastA(down', r, "read")
      PROVE  F(down'[r].k, down'[r].read.n) \/ W(r)
  <2>1. PICK j \in DOMAIN down : /\ LastA(down, j, "read") /\ down'[r] = down[j]
                                 /\ BehindOf(down, j, "changed", selectedItem) => BehindOf(down', r, "changed", selectedItem)
    BY <1>2 DEF SameReads
  <2>2. Fresh(down[j].k, down[j].read.n) \/ Warned(j)
    BY <1>1, <2>1
  <2> QED BY <2>1, <2>2 DEF Fresh, Warned
<1>3. ASSUME None(down', "read"), ~ thrown PROVE F(value.k, value.n) \/ W(0)
  <2>1. None(down, "read") /\ (BehindOf(down, 0, "changed", selectedItem) => BehindOf(down', 0, "changed", selectedItem))
    BY <1>3 DEF SameReads
  <2> QED BY <1>1, <1>3, <2>1 DEF Fresh, Warned
<1> QED BY <1>2, <1>3

LEMMA TypedKept ==
  ASSUME LastTyped, NEW R, NEW A, NEW Q, NEW B, Flow(R, A, Q, B), Free(R, A, Q, B, "meta"),
         selectedItem' = selectedItem, type' = type, ~ remade' => ~ remade,
         (selectedItem \in DOMAIN rdb /\ ~ remade') =>
           selectedItem \in DOMAIN rdb' /\ rdb'[selectedItem].type = rdb[selectedItem].type
  PROVE  LastTyped'
<1> SUFFICES ASSUME selectedItem # NoKey, ~ remade, ~ remade'
             PROVE  /\ selectedItem \in DOMAIN rdb'
                    /\ \A i \in DOMAIN up' : LastA(up', i, "meta") => up'[i].k = selectedItem
                    /\ None(up', "meta") =>
                         /\ \A i \in DOMAIN down' : LastA(down', i, "meta") => down'[i].type = rdb'[selectedItem].type
                         /\ None(down', "meta") => type = rdb'[selectedItem].type
  BY DEF LastTyped, LastA, None
<1>1. SameKind(up, up', "meta") /\ SameKind(down, down', "meta")
  BY DEF Flow, Moved, Free
<1>2. selectedItem \in DOMAIN rdb
  BY DEF LastTyped
<1> QED BY <1>1, <1>2 DEF SameKind, LastFrom, LastTyped

LEMMA DecodedKept ==
  ASSUME LastDecoded, NEW R, NEW A, NEW Q, NEW B, Flow(R, A, Q, B), Free(R, A, Q, B, "read"),
         selectedItem' = selectedItem, type' = type, value' = value, ~ misread' => ~ misread,
         thrown' = thrown, NoMeta' => NoMeta
  PROVE  LastDecoded'
<1> SUFFICES ASSUME selectedItem # NoKey, ~ misread, NoMeta
             PROVE  /\ \A i \in DOMAIN up' : LastA(up', i, "read") => up'[i].type = type
                    /\ None(up', "read") =>
                         /\ \A i \in DOMAIN down' : LastA(down', i, "read") => down'[i].type = type
                         /\ None(down', "read") /\ ~ thrown => value.as = type
  BY DEF LastDecoded, LastA, None
<1>1. SameKind(up, up', "read") /\ SameKind(down, down', "read")
  BY DEF Flow, Moved, Free
<1> QED BY <1>1 DEF SameKind, LastFrom, LastDecoded

LEMMA ReadableKept ==
  ASSUME LastReadable, LastTyped, NEW R, NEW A, NEW Q, NEW B, Flow(R, A, Q, B), Free(R, A, Q, B, "read"),
         selectedItem' = selectedItem, thrown' = thrown, ~ remade' => ~ remade, ~ misread' => ~ misread,
         NoMeta' => NoMeta,
         (selectedItem \in DOMAIN rdb /\ ~ remade') =>
           selectedItem \in DOMAIN rdb' /\ rdb'[selectedItem].type = rdb[selectedItem].type
  PROVE  LastReadable'
<1> SUFFICES ASSUME selectedItem # NoKey, ~ remade, ~ remade', ~ misread, NoMeta, None(up', "read")
             PROVE  /\ \A i \in DOMAIN down' : LastA(down', i, "read") =>
                                                 down'[i].read.type = rdb'[selectedItem].type
                    /\ None(down', "read") => ~ thrown
  BY DEF LastReadable, LastA, None
<1>1. SameKind(up, up', "read") /\ SameKind(down, down', "read")
  BY DEF Flow, Moved, Free
<1>2. rdb'[selectedItem].type = rdb[selectedItem].type
  BY DEF LastTyped
<1> QED BY <1>1, <1>2 DEF SameKind, LastFrom, LastReadable

(* The page gets a message.                                                  *)
LEMMA MessageTaken ==
  ASSUME RdbViewInv, down # <<>>, Got
  PROVE  TookFirst(down, down') /\ RdbAnswer(down[1]) /\ Head(down) = down[1]
<1>1. IsList(down) /\ \A i \in DOMAIN down : RdbAnswer(down[i])
  BY DEF RdbViewInv, RdbMessages
<1> HIDE DEF IsList
<1>2. TookFirst(down, down')
  BY <1>1, MovedFirst DEF Got
<1>3. 1 \in DOMAIN down /\ Head(down) = down[1]
  BY <1>2 DEF TookFirst
<1> QED BY <1>1, <1>2, <1>3

(* What of the database page stays as it is when neither the key selected    *)
(* nor what is watched changes, as is so of most steps.                      *)
LEMMA SelectionKept ==
  ASSUME RdbViewInv, NEW R, NEW A, NEW Q, NEW B, Flow(R, A, Q, B),
         UNCHANGED <<selectedItem, watched>>, DOMAIN watches' = DOMAIN watches,
         Free(R, A, Q, B, "meta"), Free(R, A, Q, B, "watch"),
         \A w \in Subs : NoneOf(R, w) /\ NoneOf(A, w)
  PROVE  SubscriptionsFollow' /\ WatchesFollow' /\ MetaBehind'
<1>1. (NoMeta' <=> NoMeta) /\ (None(up', "meta") <=> None(up, "meta"))
  BY NoMetaKept
<1>2. ASSUME NEW k \in RdbNames \cup {NoKey} PROVE SubscriptionFollows(k)'
  <2>1. SubscriptionFollows(k) /\ NotAbout(R, Subs, k) /\ NotAbout(A, Subs, k)
    BY DEF RdbViewInv, SubscriptionsFollow, NotAbout, IsAbout, NoneOf
  <2> QED BY <2>1, SubscriptionKept
<1>3. ASSUME NEW k \in RdbNames PROVE WatchFollows(k)'
  <2>1. /\ WatchFollows(k)
        /\ NotAbout(R, {"watch"}, k) /\ NotAbout(A, {"watch"}, k)
        /\ NotAbout(Q, {"watch"}, k) /\ NotAbout(B, {"watch"}, k)
    BY DEF RdbViewInv, WatchesFollow, NotAbout, IsAbout, NoneOf, Free
  <2>2. \A on : WatchRight(k, on) => WatchRight(k, on)'
    BY <1>1 DEF WatchRight
  <2> QED BY <2>1, <2>2, WatchKept
<1>4. MetaBehind'
  <2>1. MetaBehind /\ \A m \in A \cup B : ~ OfOther(m, selectedItem)
    BY DEF RdbViewInv, Free, NoneOf, OfOther
  <2> QED BY <1>1, <2>1, MetaKept
<1> QED BY <1>2, <1>3, <1>4 DEF SubscriptionsFollow, WatchesFollow

(* One lemma for each action, with a step for each part of the invariant:    *)
(* the page gets the list of keys, or hears of one key.                      *)
LEMMA KeysArriveKeeps ==
  ASSUME RdbViewInv, RdbKeysArrive
  PROVE  RdbViewInv'
<1> DEFINE m == down[1]
           Q == {m}
<1>1. /\ TookFirst(down, down') /\ RdbAnswer(m) /\ Head(down) = m /\ 1 \in DOMAIN down
  BY MessageTaken DEF RdbKeysArrive, TookFirst
<1>2. /\ m.what \in {"keys", "created", "deleted"}
      /\ rdbKeys' = CASE m.what = "keys" -> m.keys
                      [] m.what = "created" -> SetAdd(rdbKeys, m.k)
                      [] m.what = "deleted" -> SetRemove(rdbKeys, m.k)
      /\ UNCHANGED <<up, server_k, remade, selectedItem, type, value, last_resolve, watches, choices, misread, thrown>>
  BY <1>1 DEF RdbKeysArrive
<1>3. IsList(up) /\ Moved(up, up', {}, {})
  BY <1>2, MovedNot DEF RdbViewInv, RdbMessages
<1> HIDE DEF IsList, m, Q
<1>4. Flow({}, {}, {m}, {}) /\ TookFirst(down, down')
  BY <1>1, <1>3 DEF Flow, TookFirst, m
<1>5. /\ \A w : w \notin {"keys", "created", "deleted"} => Free({}, {}, {m}, {}, w)
      /\ \A w : NoneOf({}, w)
  BY <1>2 DEF Free, NoneOf
<1>6. RdbViewTypeOK'
  <2>1. rdbKeys' \subseteq RdbNames
    BY <1>1, <1>2 DEF RdbViewInv, RdbViewTypeOK, RdbAnswer, SetAdd, SetRemove
  <2> QED BY <1>2, <2>1 DEF RdbViewInv, RdbViewTypeOK, server_k
<1>7. RdbMessages' /\ OneChange'
  <2>1. RdbMessages'
    BY <1>2, <1>4, MessagesKept DEF RdbViewInv, RdbMessages
  <2>2. OneChange'
    BY <1>2, <1>4, <1>5, OneChangeKept DEF RdbViewInv, server_k
  <2> QED BY <2>1, <2>2
<1>8. Asked'
  <2>1. \A w : None(down, w) => None(down', w)
    BY <1>4 DEF TookFirst
  <2>2. Never(down', {"keys", "created", "deleted"}, "keys")
    BY <1>4 DEF TookFirst, RdbViewInv, Asked
  <2> QED BY <1>2, <2>1, <2>2 DEF RdbViewInv, Asked, server_k
<1>9. KeysTold'
  <2> SUFFICES ASSUME listing # "untold", ~ unheard, NEW k \in RdbNames
               PROVE  /\ \A i \in DOMAIN down' : LastOf(down', i, {"created", "deleted"}, k) =>
                                                   (down'[i].what = "created" <=> k \in DOMAIN rdb)
                      /\ Silent(down', {"created", "deleted"}, k) =>
                           /\ \A i \in DOMAIN down' : down'[i].what = "keys" => (k \in down'[i].keys <=> k \in DOMAIN rdb)
                           /\ None(down', "keys") => (k \in rdbKeys' <=> k \in DOMAIN rdb)
    BY <1>2 DEF KeysTold, server_k
  <2>1. /\ \A i \in DOMAIN down : LastOf(down, i, {"created", "deleted"}, k) =>
                                    (down[i].what = "created" <=> k \in DOMAIN rdb)
        /\ Silent(down, {"created", "deleted"}, k) =>
             /\ \A i \in DOMAIN down : down[i].what = "keys" => (k \in down[i].keys <=> k \in DOMAIN rdb)
             /\ None(down, "keys") => (k \in rdbKeys <=> k \in DOMAIN rdb)
    BY DEF RdbViewInv, KeysTold
  <2>2. None(down', "keys")
    <3>1. Never(down, {"keys", "created", "deleted"}, "keys")
      BY DEF RdbViewInv, Asked
    <3> QED BY <1>2, <1>4, <3>1 DEF TookFirst, m
  <2>3. \A i \in DOMAIN down' : LastOf(down', i, {"created", "deleted"}, k) =>
                                  (down'[i].what = "created" <=> k \in DOMAIN rdb)
    BY <1>4, <2>1 DEF TookFirst
  <2>4. \A i \in DOMAIN down' : down'[i].what # "keys"
    BY <2>2 DEF None
  <2>5. ASSUME Silent(down', {"created", "deleted"}, k) PROVE k \in rdbKeys' <=> k \in DOMAIN rdb
    <3>1. Silent(down, {"created", "deleted"}, k) \/ LastOf(down, 1, {"created", "deleted"}, k)
      BY <1>4, <2>5 DEF TookFirst
    <3>2. None(down, "keys") \/ (LastA(down, 1, "keys") /\ m.what = "keys")
      BY <1>4, <2>2 DEF TookFirst, LastA, m
    <3>3. CASE LastOf(down, 1, {"created", "deleted"}, k)
      <4>1. m.k = k /\ m.what \in {"created", "deleted"} /\ (m.what = "created" <=> k \in DOMAIN rdb)
        BY <1>1, <2>1, <3>3 DEF LastOf, IsAbout, m
      <4> QED BY <1>2, <4>1 DEF SetAdd, SetRemove
    <3>4. CASE Silent(down, {"created", "deleted"}, k)
      <4>1. m.what \in {"created", "deleted"} => m.k # k
        BY <1>1, <3>4 DEF Silent, IsAbout, m
      <4>2. m.what = "keys" => (k \in m.keys <=> k \in DOMAIN rdb)
        BY <1>1, <2>1, <3>4 DEF m
      <4>3. m.what # "keys" => (k \in rdbKeys <=> k \in DOMAIN rdb)
        BY <2>1, <3>2, <3>4
      <4> QED BY <1>2, <4>1, <4>2, <4>3 DEF SetAdd, SetRemove
    <3> QED BY <3>1, <3>3, <3>4
  <2> QED BY <2>3, <2>4, <2>5
<1>10. SubscriptionsFollow' /\ WatchesFollow' /\ MetaBehind'
  BY <1>2, <1>4, <1>5, SelectionKept DEF server_k
<1>11. NoMeta' <=> NoMeta
  BY <1>4, <1>5, NoMetaKept
<1>12. ReadBehind' /\ ReadPending'
  <2>1. LastFrom(up, up', "read")
    BY <1>3, <1>5 DEF Moved, SameKind
  <2>2. ReadBehind'
    BY <1>2, <1>4, <1>5, <1>11, <2>1, ReadsKept DEF RdbViewInv
  <2>3. ReadPending'
    BY <1>2, <1>4, <1>5, PendingKept DEF RdbViewInv
  <2> QED BY <2>2, <2>3
<1>13. LastFresh'
  <2>1. SameReads(down, down', selectedItem)
    <3>1. \A x \in {m} \cup {} : x.what # "read" /\ ~ IsAbout(x, {"changed"}, selectedItem)
      BY <1>2 DEF IsAbout
    <3> QED BY <1>4, <3>1 DEF Flow, Moved
  <2> QED BY <1>2, <1>11, <2>1, FreshKept DEF RdbViewInv, server_k
<1>14. LastTyped' /\ LastDecoded' /\ LastReadable'
  <2>1. LastTyped'
    BY <1>2, <1>4, <1>5, TypedKept DEF RdbViewInv, server_k
  <2>2. LastDecoded'
    BY <1>2, <1>4, <1>5, <1>11, DecodedKept DEF RdbViewInv, server_k
  <2>3. LastReadable'
    BY <1>2, <1>4, <1>5, <1>11, ReadableKept DEF RdbViewInv, server_k
  <2> QED BY <2>1, <2>2, <2>3
<1> QED BY <1>6, <1>7, <1>8, <1>9, <1>10, <1>12, <1>13, <1>14 DEF RdbViewInv

(* The value comes, which was read for a change or when the type came.       *)
LEMMA ValueArrivesKeeps ==
  ASSUME RdbViewInv, RdbValueArrives
  PROVE  RdbViewInv'
<1> DEFINE m == down[1]
<1>1. /\ TookFirst(down, down') /\ RdbAnswer(m) /\ Head(down) = m /\ 1 \in DOMAIN down
  BY MessageTaken DEF RdbValueArrives, Getting, TookFirst
<1>2. /\ m.what = "read"
      /\ \/ /\ Decodable(m.type, m.read.type) /\ value' = ShownAs(m.k, m.type, m.read)
            /\ last_resolve' = Resolved(m.first) /\ thrown' = FALSE
         \/ ~ Decodable(m.type, m.read.type) /\ thrown' = TRUE /\ UNCHANGED <<value, last_resolve>>
      /\ UNCHANGED <<up, server_k, remade, rdbKeys, selectedItem, type, watches, choices, misread>>
  BY <1>1 DEF RdbValueArrives, Getting
<1>3. IsList(up) /\ Moved(up, up', {}, {})
  BY <1>2, MovedNot DEF RdbViewInv, RdbMessages
<1> HIDE DEF IsList, m
<1>4. Flow({}, {}, {m}, {}) /\ TookFirst(down, down')
  BY <1>1, <1>3 DEF Flow, TookFirst, m
<1>5. /\ \A w : w # "read" => Free({}, {}, {m}, {}, w)
      /\ \A w : NoneOf({}, w)
  BY <1>2 DEF Free, NoneOf
<1>s. /\ m.k \in RdbNames \cup {NoKey} /\ m.type \in ValueTypes \cup {NoType} /\ m.first \in BOOLEAN
      /\ \/ /\ value'.k = m.k /\ value'.as = m.type /\ value'.n = m.read.n
            /\ last_resolve' = (last_resolve \/ ~ m.first) /\ ~ thrown'
         \/ value' = value /\ last_resolve' = last_resolve /\ thrown'
  <2>1. m.k \in RdbNames \cup {NoKey} /\ m.type \in ValueTypes \cup {NoType} /\ m.first \in BOOLEAN
    BY <1>1, <1>2 DEF RdbAnswer, OnTheirWay
  <2>2. CASE /\ value' = ShownAs(m.k, m.type, m.read)
             /\ last_resolve' = Resolved(m.first) /\ thrown' = FALSE
    BY <2>1, <2>2 DEF ShownAs, Resolved
  <2>3. CASE thrown' = TRUE /\ UNCHANGED <<value, last_resolve>>
    BY <2>1, <2>3
  <2> QED BY <1>2, <2>2, <2>3
<1>r. /\ \A i \in DOMAIN down' : LastA(down', i, "read") =>
                                   LastA(down, i + 1, "read") /\ i + 1 \in DOMAIN down /\ down'[i] = down[i + 1]
      /\ None(down', "read") => LastA(down, 1, "read")
  BY <1>1, <1>2, <1>4 DEF TookFirst, None, m
<1>6. RdbViewTypeOK'
  <2>1. last_resolve' \in BOOLEAN /\ thrown' \in BOOLEAN
    BY <1>2, <1>s DEF RdbViewInv, RdbViewTypeOK, Resolved
  <2>2. value'.k \in RdbNames \cup {NoKey} /\ value'.as \in ValueTypes \cup {NoType}
    BY <1>s DEF RdbViewInv, RdbViewTypeOK
  <2> QED BY <1>2, <2>1, <2>2 DEF RdbViewInv, RdbViewTypeOK, server_k
<1>7. RdbMessages' /\ OneChange'
  <2>1. RdbMessages'
    BY <1>2, <1>4, MessagesKept DEF RdbViewInv, RdbMessages
  <2>2. OneChange'
    BY <1>2, <1>4, <1>5, OneChangeKept DEF RdbViewInv, server_k
  <2> QED BY <2>1, <2>2
<1>8. Asked' /\ KeysTold'
  <2>1. Asked'
    BY <1>2, <1>4, <1>5, AskedKept DEF RdbViewInv, server_k, Free
  <2>2. KeysTold'
    BY <1>2, <1>4, <1>5, KeysKept DEF RdbViewInv, server_k, Free
  <2> QED BY <2>1, <2>2
<1>10. SubscriptionsFollow' /\ WatchesFollow' /\ MetaBehind'
  BY <1>2, <1>4, <1>5, SelectionKept DEF server_k
<1>11. NoMeta' <=> NoMeta
  BY <1>4, <1>5, NoMetaKept
<1>12. ReadBehind' /\ ReadPending'
  <2>1. LastFrom(up, up', "read")
    BY <1>3, <1>5 DEF Moved, SameKind
  <2>2. ReadBehind'
    BY <1>2, <1>4, <1>5, <1>11, <2>1, ReadsKept DEF RdbViewInv
  <2>3. ReadPending'
    <3>0. up' = up /\ (~ last_resolve' => ~ last_resolve)
      <4>1. ~ last_resolve' => ~ last_resolve
        BY <1>s
      <4>2. up' = up
        BY <1>2
      <4> QED BY <4>1, <4>2
    <3> SUFFICES ASSUME ~ last_resolve, ~ last_resolve'
                 PROVE  /\ \A i \in DOMAIN up : LastA(up, i, "read") => ~ up[i].first
                        /\ None(up, "read") =>
                             /\ \A i \in DOMAIN down' : LastA(down', i, "read") => ~ down'[i].first
                             /\ None(down', "read") => thrown'
      BY <3>0 DEF ReadPending, LastA, None
    <3>1. /\ \A i \in DOMAIN up : LastA(up, i, "read") => ~ up[i].first
          /\ None(up, "read") => \A i \in DOMAIN down : LastA(down, i, "read") => ~ down[i].first
      BY DEF RdbViewInv, ReadPending
    <3>2. None(up, "read") /\ None(down', "read") => thrown'
      BY <1>1, <1>r, <1>s, <3>1 DEF m
    <3> QED BY <1>r, <3>1, <3>2
  <2> QED BY <2>2, <2>3
<1>13. LastFresh'
  <2> DEFINE F(k, n) == k = selectedItem /\ n = rdb[selectedItem].n
             W(r) == selectedItem \in DOMAIN watches /\ BehindOf(down', r, "changed", selectedItem)
  <2> SUFFICES ASSUME selectedItem \in DOMAIN rdb, ~ late, NoMeta, None(up, "read")
               PROVE  /\ \A r \in DOMAIN down' : LastA(down', r, "read") => F(down'[r].k, down'[r].read.n) \/ W(r)
                      /\ None(down', "read") /\ ~ thrown' => F(m.k, m.read.n) \/ W(0)
    BY <1>2, <1>s, <1>11 DEF LastFresh, LastA, None, Fresh, Warned, BehindOf, server_k
  <2>1. \A r \in DOMAIN down : LastA(down, r, "read") => Fresh(down[r].k, down[r].read.n) \/ Warned(r)
    BY DEF RdbViewInv, LastFresh
  <2>2. ASSUME NEW r \in DOMAIN down', LastA(down', r, "read") PROVE F(down'[r].k, down'[r].read.n) \/ W(r)
    <3>1. LastA(down, r + 1, "read") /\ r + 1 \in DOMAIN down /\ down'[r] = down[r + 1]
      BY <1>r, <2>2
    <3>2. Fresh(down[r + 1].k, down[r + 1].read.n) \/ Warned(r + 1)
      BY <2>1, <3>1
    <3>3. BehindOf(down, r + 1, "changed", selectedItem) => BehindOf(down', r, "changed", selectedItem)
      BY <1>4 DEF TookFirst
    <3> QED BY <3>1, <3>2, <3>3 DEF Fresh, Warned
  <2>3. ASSUME None(down', "read") PROVE F(m.k, m.read.n) \/ W(0)
    <3>1. LastA(down, 1, "read")
      BY <1>r, <2>3
    <3>2. Fresh(m.k, m.read.n) \/ Warned(1)
      BY <1>1, <2>1, <3>1 DEF m
    <3>3. BehindOf(down, 1, "changed", selectedItem) => BehindOf(down', 0, "changed", selectedItem)
      BY <1>4 DEF TookFirst
    <3> QED BY <3>2, <3>3 DEF Fresh, Warned
  <2> QED BY <2>2, <2>3
<1>14. LastTyped'
  BY <1>2, <1>4, <1>5, TypedKept DEF RdbViewInv, server_k
<1>15. LastDecoded'
  <2> SUFFICES ASSUME selectedItem # NoKey, ~ misread, NoMeta
               PROVE  /\ \A i \in DOMAIN up : LastA(up, i, "read") => up[i].type = type
                      /\ None(up, "read") =>
                           /\ \A i \in DOMAIN down' : LastA(down', i, "read") => down'[i].type = type
                           /\ None(down', "read") /\ ~ thrown' => m.type = type
    BY <1>2, <1>s, <1>11 DEF LastDecoded, LastA, None
  <2>1. /\ \A i \in DOMAIN up : LastA(up, i, "read") => up[i].type = type
        /\ None(up, "read") => \A i \in DOMAIN down : LastA(down, i, "read") => down[i].type = type
    BY DEF RdbViewInv, LastDecoded
  <2> QED BY <1>1, <1>r, <2>1 DEF m
<1>16. LastReadable'
  <2> SUFFICES ASSUME selectedItem # NoKey, ~ remade, ~ misread, NoMeta, None(up, "read")
               PROVE  /\ \A i \in DOMAIN down' : LastA(down', i, "read") =>
                                                   down'[i].read.type = rdb[selectedItem].type
                      /\ None(down', "read") => ~ thrown'
    BY <1>2, <1>11 DEF LastReadable, LastA, None, server_k
  <2>1. /\ \A i \in DOMAIN down : LastA(down, i, "read") =>
                                    down[i].type = type /\ down[i].read.type = rdb[selectedItem].type
        /\ selectedItem \in DOMAIN rdb /\ type = rdb[selectedItem].type
    BY DEF RdbViewInv, LastReadable, LastDecoded, LastTyped, NoMeta
  <2>2. None(down', "read") => m.type = rdb[selectedItem].type /\ m.read.type = rdb[selectedItem].type
    BY <1>1, <1>r, <2>1 DEF m
  <2>3. Decodable(rdb[selectedItem].type, rdb[selectedItem].type)
    <3>1. rdb[selectedItem].type \in ValueTypes
      BY <2>1 DEF RdbViewInv, RdbViewTypeOK
    <3> QED BY <3>1, DecodesAssumption DEF Decodable
  <2>4. Decodable(m.type, m.read.type) => ~ thrown'
    BY <1>2
  <2> QED BY <1>r, <2>1, <2>2, <2>3, <2>4
<1> QED BY <1>6, <1>7, <1>8, <1>10, <1>12, <1>13, <1>14, <1>15, <1>16 DEF RdbViewInv

(* Watches of others have metadata behind them, so whoever watches when      *)
(* there is none watches the key selected.                                   *)
LEMMA OnlySelected ==
  ASSUME RdbViewInv, selectedItem # NoKey, NoMeta
  PROVE  /\ \A i \in DOMAIN up : ~ OfOther(up[i], selectedItem)
         /\ \A i \in DOMAIN down : ~ OfOther(down[i], selectedItem)
         /\ \A k \in DOMAIN watches \cap RdbNames : k = selectedItem
<1>1. /\ \A i \in DOMAIN up : ~ OfOther(up[i], selectedItem)
      /\ \A i \in DOMAIN down : ~ OfOther(down[i], selectedItem)
  BY DEF RdbViewInv, MetaBehind, NoMeta, Behind, None
<1>2. ASSUME NEW k \in DOMAIN watches \cap RdbNames PROVE k = selectedItem
  <2>1. WatchFollows(k)
    BY DEF RdbViewInv, WatchesFollow
  <2>2. ~ Silent(up, {"watch"}, k) => k = selectedItem
    BY <1>1 DEF Silent, IsAbout, OfOther
  <2>3. ~ Silent(down, {"watch"}, k) => k = selectedItem
    BY <1>1 DEF Silent, IsAbout, OfOther
  <2>4. Silent(up, {"watch"}, k) /\ Silent(down, {"watch"}, k) => k = selectedItem
    BY <1>2, <2>1 DEF WatchFollows, WatchRight
  <2> QED BY <2>2, <2>3, <2>4
<1> QED BY <1>1, <1>2

(* The page asks for nothing, once or twice.                                 *)
LEMMA Asks ==
  ASSUME RdbViewInv
  PROVE  /\ Ask(<<>>) => up' = up
         /\ \A a : Ask(<<a>>) => PutLast(up, up', a)
         /\ \A a, b : Ask(<<a, b>>) => \E t : PutLast(up, t, a) /\ PutLast(t, up', b)
<1>1. IsList(up)
  BY DEF RdbViewInv, RdbMessages
<1>2. up \o <<>> = up
  BY <1>1, InParts
<1> HIDE DEF IsList
<1>3. ASSUME NEW a, Ask(<<a>>) PROVE PutLast(up, up', a)
  <2>1. up' = Append(up, a)
    BY <1>1, <1>3, InParts DEF Ask
  <2> QED BY <1>1, <2>1, MovedLast
<1>4. ASSUME NEW a, NEW b, Ask(<<a, b>>) PROVE \E t : PutLast(up, t, a) /\ PutLast(t, up', b)
  <2> DEFINE t == Append(up, a)
  <2>1. up' = Append(t, b)
    BY <1>1, <1>4, InParts DEF Ask
  <2> HIDE DEF t
  <2>2. PutLast(up, t, a)
    BY <1>1, MovedLast DEF t
  <2>3. IsList(t)
    BY <2>2 DEF PutLast, Moved
  <2>4. PutLast(t, up', b)
    BY <2>1, <2>3, MovedLast
  <2> QED BY <2>2, <2>4
<1> QED BY <1>2, <1>3, <1>4 DEF Ask

LEMMA NoMetaFlowing ==
  NoMeta <=> ~ Flowing({"meta"})
BY DEF NoMeta, None, Flowing, Range

(* A change is heard of.                                                     *)
LEMMA ChangeArrivesKeeps ==
  ASSUME RdbViewInv, ChangeArrives
  PROVE  RdbViewInv'
<1> DEFINE m == down[1]
           k == m.k
           r == ReadFor(k, watches[k], FALSE)
<1>1. /\ TookFirst(down, down') /\ RdbAnswer(m) /\ Head(down) = m /\ 1 \in DOMAIN down
  BY MessageTaken DEF ChangeArrives, Getting, TookFirst
<1>2. /\ m.what = "changed"
      /\ IF k \in DOMAIN watches /\ last_resolve
         THEN /\ last_resolve' = FALSE /\ Ask(<<r>>)
              /\ misread' = (misread \/ (watches[k] # type /\ ~ Flowing({"meta"})))
         ELSE UNCHANGED <<last_resolve, up, misread>>
      /\ UNCHANGED <<server_k, remade, rdbKeys, selectedItem, type, value, watches, choices, thrown>>
  BY <1>1 DEF ChangeArrives, Getting
<1>r. /\ r.what = "read" /\ r.k = k /\ r.type = watches[k] /\ r.first = FALSE
      /\ "event" \notin DOMAIN r /\ k \in RdbNames
  BY <1>1, <1>2 DEF ReadFor, RdbAnswer
<1> HIDE DEF m, k, r
<1> DEFINE A == IF k \in DOMAIN watches /\ last_resolve THEN {r} ELSE {}
<1>3. Flow({}, A, {m}, {}) /\ \A i \in DOMAIN up : i \in DOMAIN up' /\ up'[i] = up[i]
  <2>1. CASE k \in DOMAIN watches /\ last_resolve
    <3>1. PutLast(up, up', r)
      BY <1>2, <2>1, Asks
    <3> QED BY <1>1, <2>1, <3>1 DEF Flow, TookFirst, PutLast, m
  <2>2. CASE ~ (k \in DOMAIN watches /\ last_resolve)
    <3>1. up' = up /\ Moved(up, up, {}, {})
      BY <1>2, <2>2, MovedNot DEF RdbViewInv, RdbMessages
    <3> QED BY <1>1, <2>2, <3>1 DEF Flow, TookFirst, m
  <2> QED BY <2>1, <2>2
<1>4. /\ \A w : w \notin {"read", "changed"} => Free({}, A, {m}, {}, w)
      /\ \A w : NoneOf({}, w) /\ (w # "changed" => NoneOf({m}, w)) /\ (w # "read" => NoneOf(A, w))
      /\ \A x \in A : x = r
  BY <1>2, <1>r DEF Free, NoneOf
<1> HIDE DEF A
<1>5. RdbViewTypeOK'
  BY <1>2 DEF RdbViewInv, RdbViewTypeOK, server_k
<1>6. RdbMessages' /\ OneChange'
  <2>1. k \in DOMAIN watches => watches[k] \in ValueTypes \cup {NoType}
    BY DEF RdbViewInv, RdbMessages
  <2>2. \A x \in A : k \in DOMAIN watches
    BY DEF A
  <2>3. \A x \in A : RdbCall(x)
    BY <1>4, <1>r, <2>1, <2>2 DEF RdbCall, OnTheirWay
  <2>4. RdbMessages'
    BY <1>2, <1>3, <2>3, MessagesKept DEF RdbViewInv, RdbMessages
  <2>5. OneChange'
    BY <1>2, <1>3, <1>4, OneChangeKept DEF RdbViewInv, server_k
  <2> QED BY <2>4, <2>5
<1>7. Asked' /\ KeysTold'
  <2>1. Asked'
    BY <1>2, <1>3, <1>4, AskedKept DEF RdbViewInv, server_k
  <2>2. KeysTold'
    BY <1>2, <1>3, <1>4, KeysKept DEF RdbViewInv, server_k
  <2> QED BY <2>1, <2>2
<1>8. SubscriptionsFollow' /\ WatchesFollow' /\ MetaBehind'
  BY <1>2, <1>3, <1>4, SelectionKept DEF server_k, Subs
<1>9. NoMeta' <=> NoMeta
  BY <1>3, <1>4, NoMetaKept
<1>10. LastTyped'
  BY <1>2, <1>3, <1>4, TypedKept DEF RdbViewInv, server_k
<1>11. CASE k \in DOMAIN watches /\ last_resolve
  <2>1. PutLast(up, up', r)
    BY <1>2, <1>11, Asks
  <2>2. /\ \A i \in DOMAIN up' : LastA(up', i, "read") => up'[i] = r
        /\ ~ None(up', "read")
        /\ \E i \in DOMAIN up' : up'[i] = r
    BY <1>r, <2>1 DEF PutLast
  <2>3. ReadPending'
    BY <1>r, <2>2 DEF ReadPending, LastA
  <2>4. ReadBehind'
    <3> SUFFICES ASSUME selectedItem # NoKey, NoMeta
                 PROVE  /\ \A i \in DOMAIN up' : up'[i].what = "unsubscribe" => Behind(up', i, "read")
                        /\ \A i \in DOMAIN up' : LastA(up', i, "read") => up'[i].k = selectedItem
      BY <1>2, <1>9 DEF ReadBehind
    <3>1. k = selectedItem
      BY <1>11, <1>r, OnlySelected
    <3>2. \A i \in DOMAIN up' : up'[i] = r \/ Behind(up', i, "read")
      BY <1>r, <2>1 DEF PutLast
    <3> QED BY <1>r, <2>2, <3>1, <3>2
  <2>5. LastFresh'
    BY <2>2 DEF LastFresh
  <2>6. LastDecoded'
    <3> SUFFICES ASSUME selectedItem # NoKey, ~ misread', NoMeta
                 PROVE  r.type = type
      BY <1>2, <1>9, <2>2 DEF LastDecoded, LastA, None
    <3> QED BY <1>2, <1>11, <1>r, NoMetaFlowing
  <2>7. LastReadable'
    BY <2>2 DEF LastReadable
  <2> QED BY <1>5, <1>6, <1>7, <1>8, <1>10, <2>3, <2>4, <2>5, <2>6, <2>7 DEF RdbViewInv
<1>12. CASE ~ (k \in DOMAIN watches /\ last_resolve)
  <2>1. A = {} /\ up' = up /\ last_resolve' = last_resolve /\ misread' = misread
    BY <1>2, <1>12 DEF A
  <2>2. Free({}, A, {m}, {}, "read")
    BY <1>4, <2>1 DEF Free, NoneOf
  <2>3. ReadBehind'
    <3>1. LastFrom(up, up', "read")
      BY <2>1 DEF LastFrom
    <3> QED BY <1>2, <1>3, <1>4, <1>9, <3>1, ReadsKept DEF RdbViewInv
  <2>4. ReadPending'
    BY <1>2, <1>3, <2>1, <2>2, PendingKept DEF RdbViewInv
  <2>5. LastDecoded'
    BY <1>2, <1>3, <1>9, <2>1, <2>2, DecodedKept DEF RdbViewInv
  <2>6. LastFresh'
    <3>1. CASE k # selectedItem
      <4>1. SameReads(down, down', selectedItem)
        <5>1. \A x \in {m} \cup {} : x.what # "read" /\ ~ IsAbout(x, {"changed"}, selectedItem)
          BY <1>2, <3>1 DEF IsAbout, k
        <5> QED BY <1>3, <5>1 DEF Flow, Moved
      <4> QED BY <1>2, <1>9, <2>1, <4>1, FreshKept DEF RdbViewInv, server_k
    <3>2. CASE k = selectedItem
      <4> DEFINE F(x, n) == x = selectedItem /\ n = rdb[selectedItem].n
                 W(i) == selectedItem \in DOMAIN watches /\ BehindOf(down', i, "changed", selectedItem)
      <4> SUFFICES ASSUME selectedItem \in DOMAIN rdb, ~ late, NoMeta, None(up, "read")
                   PROVE  /\ \A i \in DOMAIN down' : LastA(down', i, "read") => F(down'[i].k, down'[i].read.n) \/ W(i)
                          /\ None(down', "read") /\ ~ thrown => F(value.k, value.n) \/ W(0)
        BY <1>2, <1>9, <2>1 DEF LastFresh, LastA, None, Fresh, Warned, BehindOf, server_k
      <4>1. /\ \A i \in DOMAIN down : LastA(down, i, "read") => Fresh(down[i].k, down[i].read.n) \/ Warned(i)
            /\ None(down, "read") /\ ~ thrown => Fresh(value.k, value.n) \/ Warned(0)
        BY DEF RdbViewInv, LastFresh
      <4>2. ASSUME NEW i \in DOMAIN down', LastA(down', i, "read") PROVE F(down'[i].k, down'[i].read.n) \/ W(i)
        <5>1. LastA(down, i + 1, "read") /\ i + 1 \in DOMAIN down /\ down'[i] = down[i + 1]
          BY <1>1, <4>2 DEF TookFirst
        <5>2. Fresh(down[i + 1].k, down[i + 1].read.n) \/ Warned(i + 1)
          BY <4>1, <5>1
        <5>3. BehindOf(down, i + 1, "changed", selectedItem) => BehindOf(down', i, "changed", selectedItem)
          BY <1>1, <4>2 DEF TookFirst
        <5> QED BY <5>1, <5>2, <5>3 DEF Fresh, Warned
      <4>3. ASSUME None(down', "read"), ~ thrown PROVE F(value.k, value.n) \/ W(0)
        <5>1. None(down, "read")
          BY <1>1, <1>2, <4>3 DEF TookFirst, LastA, m
        <5>2. last_resolve
          BY <4>3, <5>1 DEF RdbViewInv, ReadPending
        <5>3. selectedItem \notin DOMAIN watches
          BY <1>12, <3>2, <5>2
        <5> QED BY <4>1, <4>3, <5>1, <5>3 DEF Fresh, Warned
      <4> QED BY <4>2, <4>3
    <3> QED BY <3>1, <3>2
  <2>7. LastReadable'
    BY <1>2, <1>3, <1>9, <2>1, <2>2, ReadableKept DEF RdbViewInv, server_k
  <2> QED BY <1>5, <1>6, <1>7, <1>8, <1>10, <2>3, <2>4, <2>5, <2>6, <2>7 DEF RdbViewInv
<1> QED BY <1>11, <1>12

(* A watch is acknowledged: the callback is set or taken away, and the       *)
(* subscription is asked for behind all calls.                               *)
LEMMA WatchArrivesKeeps ==
  ASSUME RdbViewInv, RdbWatchArrives
  PROVE  RdbViewInv'
<1> DEFINE m == down[1]
           k == m.k
           c == [what |-> IF m.on THEN "subscribe" ELSE "unsubscribe", k |-> k]
<1>1. /\ TookFirst(down, down') /\ RdbAnswer(m) /\ Head(down) = m /\ 1 \in DOMAIN down
  BY MessageTaken DEF RdbWatchArrives, Getting, TookFirst
<1>2. /\ m.what = "watch"
      /\ IF m.on
         THEN watches' = With(watches, k, m.type) /\ Ask(<<[what |-> "subscribe", k |-> k]>>)
         ELSE /\ watches' = Without(watches, k)
              /\ Ask(IF k \in DOMAIN watches THEN <<[what |-> "unsubscribe", k |-> k]>> ELSE <<>>)
      /\ UNCHANGED <<server_k, remade, rdbKeys, selectedItem, type, value, last_resolve, choices, misread, thrown>>
  BY <1>1 DEF RdbWatchArrives, Getting, Unwatched
<1>c. /\ c.what \in Subs /\ (c.what = "subscribe" <=> m.on) /\ (c.what = "unsubscribe" <=> ~ m.on)
      /\ c.k = k /\ "event" \notin DOMAIN c /\ c.what \notin {"read", "watch"}
      /\ k \in RdbNames \cup {NoKey} /\ m.type \in ValueTypes \cup {NoType} /\ m.on \in BOOLEAN
  BY <1>1, <1>2 DEF Subs, RdbAnswer, OnTheirWay
<1> DEFINE A == IF m.on \/ k \in DOMAIN watches THEN {c} ELSE {}
<1>3. Flow({}, A, {m}, {}) /\ (\A i \in DOMAIN up : i \in DOMAIN up' /\ up'[i] = up[i])
      /\ (m.on \/ k \in DOMAIN watches => PutLast(up, up', c))
  <2>1. CASE m.on \/ k \in DOMAIN watches
    <3>1. Ask(<<c>>)
      BY <1>2, <2>1
    <3> HIDE DEF c, m
    <3>2. PutLast(up, up', c)
      BY <3>1, Asks
    <3> QED BY <1>1, <2>1, <3>2 DEF Flow, TookFirst, PutLast, m
  <2>2. CASE ~ (m.on \/ k \in DOMAIN watches)
    <3> HIDE DEF c
    <3>0. Ask(<<>>)
      BY <1>2, <2>2
    <3>1. up' = up /\ Moved(up, up, {}, {})
      BY <3>0, Asks, MovedNot DEF RdbViewInv, RdbMessages
    <3> QED BY <1>1, <2>2, <3>1 DEF Flow, TookFirst
  <2> QED BY <2>1, <2>2
<1> HIDE DEF m, k, c
<1>4. /\ \A w : w \notin Subs \cup {"watch"} => Free({}, A, {m}, {}, w)
      /\ \A w : NoneOf({}, w) /\ (w # "watch" => NoneOf({m}, w)) /\ (w \notin Subs => NoneOf(A, w))
      /\ \A x \in A : x = c
      /\ "change" \notin Subs /\ "keys" \notin Subs /\ "keep" \notin Subs /\ "watch" \notin Subs
      /\ "meta" \notin Subs /\ "read" \notin Subs
  BY <1>2, <1>c DEF Free, NoneOf, Subs
<1>w. /\ DOMAIN watches' = IF m.on THEN DOMAIN watches \cup {k} ELSE DOMAIN watches \ {k}
      /\ \A x \in DOMAIN watches' : watches'[x] \in ValueTypes \cup {NoType}
  <2>1. \A x \in DOMAIN watches : watches[x] \in ValueTypes \cup {NoType}
    BY DEF RdbViewInv, RdbMessages
  <2>2. CASE m.on
    BY <1>2, <1>c, <2>1, <2>2 DEF With
  <2>3. CASE ~ m.on
    BY <1>2, <2>1, <2>3 DEF Without
  <2> QED BY <2>2, <2>3
<1> HIDE DEF A
<1>5. RdbViewTypeOK'
  BY <1>2, <1>c, <1>w DEF RdbViewInv, RdbViewTypeOK, server_k
<1>6. RdbMessages' /\ OneChange'
  <2>1. \A x \in A : RdbCall(x)
    BY <1>4, <1>c DEF RdbCall, OnTheirWay, Subs
  <2>2. RdbMessages'
    BY <1>3, <1>w, <2>1, MessagesKept DEF RdbViewInv
  <2>3. OneChange'
    BY <1>2, <1>3, <1>4, OneChangeKept DEF RdbViewInv, server_k
  <2> QED BY <2>2, <2>3
<1>7. Asked' /\ KeysTold'
  <2>1. Asked'
    BY <1>2, <1>3, <1>4, AskedKept DEF RdbViewInv, server_k
  <2>2. KeysTold'
    BY <1>2, <1>3, <1>4, KeysKept DEF RdbViewInv, server_k
  <2> QED BY <2>1, <2>2
<1>8. Free({}, A, {m}, {}, "meta") /\ Free({}, A, {m}, {}, "read")
  BY <1>4 DEF Subs
<1>9. (NoMeta' <=> NoMeta) /\ (None(up', "meta") <=> None(up, "meta"))
  BY <1>3, <1>8, NoMetaKept
<1>10. SubscriptionsFollow'
  <2> SUFFICES ASSUME NEW x \in RdbNames \cup {NoKey} PROVE SubscriptionFollows(x)'
    BY DEF SubscriptionsFollow
  <2>1. CASE x # k \/ ~ (m.on \/ k \in DOMAIN watches)
    <3>1. SubscriptionFollows(x) /\ NotAbout({}, Subs, x) /\ NotAbout(A, Subs, x)
      BY <1>4, <1>c, <2>1 DEF RdbViewInv, SubscriptionsFollow, NotAbout, IsAbout, A
    <3>2. x \in DOMAIN watches' <=> x \in DOMAIN watches
      BY <1>w, <2>1
    <3>3. watched' = watched
      BY <1>2 DEF server_k
    <3> QED BY <1>3, <3>1, <3>2, <3>3, SubscriptionKept
  <2>2. CASE x = k /\ (m.on \/ k \in DOMAIN watches)
    <3>1. IsAbout(c, Subs, k)
      BY <1>c DEF IsAbout
    <3>2. /\ ~ Silent(up', Subs, k)
          /\ \A i \in DOMAIN up' : LastOf(up', i, Subs, k) => up'[i] = c
      BY <1>3, <2>2, <3>1 DEF PutLast
    <3>3. c.what = "subscribe" <=> k \in DOMAIN watches'
      BY <1>c, <1>w
    <3>4. /\ Silent(up', Subs, k) => (k \in watched' <=> k \in DOMAIN watches')
          /\ \A i \in DOMAIN up' : LastOf(up', i, Subs, k) => (up'[i].what = "subscribe" <=> k \in DOMAIN watches')
      BY <3>2, <3>3
    <3> QED BY <2>2, <3>4 DEF SubscriptionFollows, Silent, LastOf, IsAbout, Subs
  <2> QED BY <2>1, <2>2
<1>11. WatchesFollow'
  <2> SUFFICES ASSUME NEW x \in RdbNames PROVE WatchFollows(x)'
    BY DEF WatchesFollow
  <2>1. WatchFollows(x) /\ selectedItem' = selectedItem
    BY <1>2 DEF RdbViewInv, WatchesFollow
  <2>2. \A on : WatchRight(x, on) => WatchRight(x, on)'
    BY <1>9, <2>1 DEF WatchRight
  <2>3. CASE x # k
    <3>1. /\ NotAbout({}, {"watch"}, x) /\ NotAbout(A, {"watch"}, x) /\ NotAbout({m}, {"watch"}, x)
          /\ x \in DOMAIN watches' <=> x \in DOMAIN watches
      BY <1>4, <1>c, <1>w, <2>3 DEF NotAbout, IsAbout, k
    <3> QED BY <1>3, <2>1, <2>2, <3>1, WatchKept
  <2>4. CASE x = k
    <3>1. SameWord(up, up', {"watch"}, k)
      <4>1. \A y \in {} \cup A : ~ IsAbout(y, {"watch"}, k)
        BY <1>4, <1>c DEF IsAbout
      <4> QED BY <1>3, <4>1 DEF Flow, Moved
    <3>2. \A i \in DOMAIN down' : LastOf(down', i, {"watch"}, k) =>
                                    LastOf(down, i + 1, {"watch"}, k) /\ i + 1 \in DOMAIN down /\ down'[i] = down[i + 1]
      BY <1>1 DEF TookFirst
    <3>3. Silent(down', {"watch"}, k) => LastOf(down, 1, {"watch"}, k)
      <4>1. ~ Silent(down, {"watch"}, k)
        BY <1>1, <1>2 DEF Silent, IsAbout, m, k
      <4> QED BY <1>1, <4>1 DEF TookFirst
    <3>4. k \in DOMAIN watches' <=> m.on
      BY <1>w
    <3>5. /\ \A i \in DOMAIN up : LastOf(up, i, {"watch"}, k) => WatchRight(k, up[i].on)
          /\ Silent(up, {"watch"}, k) => \A i \in DOMAIN down : LastOf(down, i, {"watch"}, k) => WatchRight(k, down[i].on)
      BY <2>1, <2>4 DEF WatchFollows
    <3>6. Silent(up', {"watch"}, k) /\ Silent(down', {"watch"}, k) => WatchRight(k, m.on)
      BY <1>1, <3>1, <3>3, <3>5 DEF SameWord, m
    <3>7. WatchRight(x, m.on) => WatchRight(x, x \in DOMAIN watches)'
      BY <1>9, <2>1, <2>4, <3>4 DEF WatchRight
    <3>8. /\ \A i \in DOMAIN up' : LastOf(up', i, {"watch"}, k) => WatchRight(k, up'[i].on)
          /\ Silent(up', {"watch"}, k) => \A i \in DOMAIN down' : LastOf(down', i, {"watch"}, k) => WatchRight(k, down'[i].on)
      BY <3>1, <3>2, <3>5 DEF SameWord
    <3>9. /\ \A i \in DOMAIN up' : LastOf(up', i, {"watch"}, x) => WatchRight(x, up[i].on)'
          /\ Silent(up', {"watch"}, x) => \A i \in DOMAIN down' : LastOf(down', i, {"watch"}, x) => WatchRight(x, down[i].on)'
      BY <1>9, <2>1, <2>4, <3>8 DEF WatchRight
    <3>10. Silent(up', {"watch"}, x) /\ Silent(down', {"watch"}, x) => WatchRight(x, x \in DOMAIN watches)'
      BY <2>4, <3>6, <3>7
    <3> QED BY <3>9, <3>10 DEF WatchFollows, Silent, LastOf, IsAbout
  <2> QED BY <2>3, <2>4
<1>12. MetaBehind'
  <2>1. MetaBehind /\ \A x \in A \cup {} : ~ OfOther(x, selectedItem)
    BY <1>4, <1>c DEF RdbViewInv, OfOther
  <2> QED BY <1>2, <1>3, <1>9, <2>1, MetaKept
<1>13. ReadBehind' /\ LastFresh'
  <2>1. LastFrom(up, up', "read") /\ (None(up', "read") <=> None(up, "read"))
    BY <1>3, <1>8 DEF Flow, Moved, SameKind, Free
  <2>2. CASE m.on
    <3>1. ReadBehind'
      <4>1. NoneOf(A, "unsubscribe")
        BY <1>4, <1>c, <2>2 DEF NoneOf
      <4> QED BY <1>2, <1>3, <1>9, <2>1, <4>1, ReadsKept DEF RdbViewInv
    <3>2. SameReads(down, down', selectedItem)
      <4>1. \A x \in {m} \cup {} : x.what # "read" /\ ~ IsAbout(x, {"changed"}, selectedItem)
        BY <1>2 DEF IsAbout
      <4> QED BY <1>3, <4>1 DEF Flow, Moved
    <3>3. LastFresh'
      BY <1>2, <1>9, <1>w, <2>1, <2>2, <3>2, FreshKept DEF RdbViewInv, server_k
    <3> QED BY <3>1, <3>3
  <2>3. CASE ~ m.on
    <3>1. selectedItem = NoKey \/ ~ NoMeta
      BY <1>1, <1>2, <2>3, OnlySelected DEF OfOther, m
    <3>2. NoKey \notin DOMAIN rdb
      BY RdbNamesAssumption DEF RdbViewInv, RdbViewTypeOK
    <3> QED BY <1>2, <1>9, <3>1, <3>2 DEF ReadBehind, LastFresh, server_k
  <2> QED BY <2>2, <2>3
<1>14. ReadPending'
  BY <1>2, <1>3, <1>8, PendingKept DEF RdbViewInv
<1>15. LastTyped' /\ LastDecoded' /\ LastReadable'
  <2>1. LastTyped'
    BY <1>2, <1>3, <1>8, TypedKept DEF RdbViewInv, server_k
  <2>2. LastDecoded'
    BY <1>2, <1>3, <1>8, <1>9, DecodedKept DEF RdbViewInv, server_k
  <2>3. LastReadable'
    BY <1>2, <1>3, <1>8, <1>9, ReadableKept DEF RdbViewInv, server_k
  <2> QED BY <2>1, <2>2, <2>3
<1> QED BY <1>5, <1>6, <1>7, <1>10, <1>11, <1>12, <1>13, <1>14, <1>15 DEF RdbViewInv

(* The metadata comes, of whichever key it was asked for.                    *)
LEMMA TypeArrivesKeeps ==
  ASSUME RdbViewInv, RdbTypeArrives
  PROVE  RdbViewInv'
<1> DEFINE m == down[1]
           t == m.type
           r == ReadFor(selectedItem, t, TRUE)
           w == WatchFor(selectedItem, t)
<1>1. /\ TookFirst(down, down') /\ RdbAnswer(m) /\ Head(down) = m /\ 1 \in DOMAIN down
  BY MessageTaken DEF RdbTypeArrives, Getting, TookFirst
<1>2. /\ m.what = "meta"
      /\ type' = t /\ last_resolve' = TRUE
      /\ Ask(<<r, w>>)
      /\ UNCHANGED <<server_k, remade, rdbKeys, selectedItem, value, watches, choices, misread, thrown>>
  BY <1>1 DEF RdbTypeArrives, Getting, ReadType
<1>r. /\ r.what = "read" /\ r.k = selectedItem /\ r.type = t /\ r.first = TRUE /\ "event" \notin DOMAIN r
      /\ w.what = "watch" /\ w.k = selectedItem /\ w.type = t /\ w.on = TRUE /\ "event" \notin DOMAIN w
      /\ t \in ValueTypes \cup {NoType}
  BY <1>1, <1>2 DEF ReadFor, WatchFor, RdbAnswer
<1> HIDE DEF m, t, r, w
<1>3. PICK u : PutLast(up, u, r) /\ PutLast(u, up', w)
  BY <1>2, Asks
<1> DEFINE A == {r, w}
<1>4. Flow({}, A, {m}, {}) /\ (\A i \in DOMAIN up : i \in DOMAIN up' /\ up'[i] = up[i])
  <2>1. Moved(up, u, {}, {r}) /\ Moved(u, up', {}, {w})
    BY <1>3 DEF PutLast
  <2>2. Moved(up, up', {} \cup {}, {r} \cup {w})
    BY <2>1, MovedTwice
  <2>3. {r} \cup {w} = A /\ {} \cup {} = {}
    OBVIOUS
  <2>4. Moved(up, up', {}, A)
    BY <2>2, <2>3
  <2>5. \A i \in DOMAIN up : i \in DOMAIN up' /\ up'[i] = up[i]
    BY <1>3 DEF PutLast
  <2> QED BY <1>1, <2>4, <2>5 DEF Flow, TookFirst, m
<1>5. /\ \A x \in A : x = r \/ x = w
      /\ \A v : v \notin {"meta", "read", "watch"} => Free({}, A, {m}, {}, v)
      /\ \A v : NoneOf({}, v) /\ (v # "meta" => NoneOf({m}, v)) /\ (v \notin {"read", "watch"} => NoneOf(A, v))
  BY <1>2, <1>r DEF Free, NoneOf
<1>6. /\ \A i \in DOMAIN up' : LastA(up', i, "read") => up'[i] = r
      /\ \A i \in DOMAIN up' : up'[i].what = "unsubscribe" => Behind(up', i, "read")
      /\ ~ None(up', "read")
  <2>1. Moved(u, up', {}, {w})
    BY <1>3 DEF PutLast
  <2>2. SameKind(u, up', "read") /\ SameOrder(u, up', {w})
    BY <1>r, <2>1 DEF Moved, NoneOf
  <2>3. /\ ~ None(u, "read") /\ \A i \in DOMAIN u : LastA(u, i, "read") => u[i] = r
        /\ \A i \in DOMAIN u : u[i] = r \/ Behind(u, i, "read")
    BY <1>3, <1>r DEF PutLast
  <2> QED BY <1>r, <2>2, <2>3 DEF SameKind, LastFrom, SameOrder
<1> HIDE DEF A
<1>7. RdbViewTypeOK'
  BY <1>2, <1>r DEF RdbViewInv, RdbViewTypeOK, server_k
<1>8. RdbMessages' /\ OneChange'
  <2>1. selectedItem \in RdbNames \cup {NoKey}
    BY DEF RdbViewInv, RdbViewTypeOK
  <2>2. RdbCall(r) /\ RdbCall(w)
    BY <1>r, <2>1 DEF RdbCall, OnTheirWay
  <2>3. RdbMessages'
    BY <1>2, <1>4, <1>5, <2>2, MessagesKept DEF RdbViewInv, RdbMessages
  <2>4. OneChange'
    BY <1>2, <1>4, <1>5, OneChangeKept DEF RdbViewInv, server_k
  <2> QED BY <2>3, <2>4
<1>9. Asked' /\ KeysTold'
  <2>1. Asked'
    BY <1>2, <1>4, <1>5, AskedKept DEF RdbViewInv, server_k
  <2>2. KeysTold'
    BY <1>2, <1>4, <1>5, KeysKept DEF RdbViewInv, server_k
  <2> QED BY <2>1, <2>2
<1>10. /\ None(up', "meta") <=> None(up, "meta")
       /\ SameKind(up, up', "meta")
  BY <1>4, <1>5 DEF Flow, Moved, SameKind
<1>11. SubscriptionsFollow'
  <2> SUFFICES ASSUME NEW x \in RdbNames \cup {NoKey} PROVE SubscriptionFollows(x)'
    BY DEF SubscriptionsFollow
  <2>1. SubscriptionFollows(x) /\ NotAbout({}, Subs, x) /\ NotAbout(A, Subs, x)
    BY <1>5, <1>r DEF RdbViewInv, SubscriptionsFollow, NotAbout, IsAbout, Subs
  <2>2. watched' = watched /\ watches' = watches
    BY <1>2 DEF server_k
  <2> QED BY <1>4, <2>1, <2>2, SubscriptionKept
<1>12. WatchesFollow'
  <2> SUFFICES ASSUME NEW x \in RdbNames PROVE WatchFollows(x)'
    BY DEF WatchesFollow
  <2>1. WatchFollows(x) /\ selectedItem' = selectedItem
    BY <1>2 DEF RdbViewInv, WatchesFollow
  <2>2. CASE x # selectedItem
    <3>1. /\ NotAbout({}, {"watch"}, x) /\ NotAbout(A, {"watch"}, x) /\ NotAbout({m}, {"watch"}, x)
          /\ x \in DOMAIN watches' <=> x \in DOMAIN watches
          /\ \A on : WatchRight(x, on) => WatchRight(x, on)'
      BY <1>2, <1>5, <1>r, <2>1, <2>2 DEF NotAbout, IsAbout, WatchRight
    <3> QED BY <1>4, <2>1, <3>1, WatchKept
  <2>3. CASE x = selectedItem
    <3>1. IsAbout(w, {"watch"}, x)
      BY <1>r, <2>3 DEF IsAbout
    <3>2. /\ ~ Silent(up', {"watch"}, x)
          /\ \A i \in DOMAIN up' : LastOf(up', i, {"watch"}, x) => up'[i] = w
      BY <1>3, <3>1 DEF PutLast
    <3>3. \A i \in DOMAIN up' : LastOf(up', i, {"watch"}, x) => WatchRight(x, up[i].on)'
      BY <1>r, <2>1, <2>3, <3>2 DEF WatchRight
    <3> QED BY <3>2, <3>3 DEF WatchFollows, Silent, LastOf, IsAbout
  <2> QED BY <2>2, <2>3
<1>13. MetaBehind'
  <2>1. MetaBehind /\ \A x \in A \cup {} : ~ OfOther(x, selectedItem)
    BY <1>5, <1>r DEF RdbViewInv, OfOther
  <2> QED BY <1>2, <1>4, <1>10, <2>1, MetaKept
<1>14. ReadBehind' /\ ReadPending' /\ LastFresh'
  <2>1. ReadBehind'
    BY <1>2, <1>6, <1>r DEF ReadBehind, Behind, LastA
  <2> QED BY <1>2, <1>6, <2>1 DEF ReadPending, LastFresh
<1>15. LastTyped'
  <2> SUFFICES ASSUME selectedItem # NoKey, ~ remade
               PROVE  /\ selectedItem \in DOMAIN rdb
                      /\ \A i \in DOMAIN up' : LastA(up', i, "meta") => up'[i].k = selectedItem
                      /\ None(up', "meta") =>
                           /\ \A i \in DOMAIN down' : LastA(down', i, "meta") => down'[i].type = rdb[selectedItem].type
                           /\ None(down', "meta") => t = rdb[selectedItem].type
    BY <1>2 DEF LastTyped, LastA, None, server_k
  <2>1. /\ selectedItem \in DOMAIN rdb
        /\ \A i \in DOMAIN up : LastA(up, i, "meta") => up[i].k = selectedItem
        /\ None(up, "meta") => \A i \in DOMAIN down : LastA(down, i, "meta") => down[i].type = rdb[selectedItem].type
    BY DEF RdbViewInv, LastTyped
  <2>2. \A i \in DOMAIN up' : LastA(up', i, "meta") => up'[i].k = selectedItem
    BY <1>10, <2>1 DEF SameKind, LastFrom
  <2>3. \A i \in DOMAIN down' : LastA(down', i, "meta") => LastA(down, i + 1, "meta") /\ i + 1 \in DOMAIN down /\ down'[i] = down[i + 1]
    BY <1>1 DEF TookFirst
  <2>4. None(down', "meta") => LastA(down, 1, "meta")
    BY <1>1, <1>2 DEF TookFirst, None, m
  <2> QED BY <1>1, <1>10, <2>1, <2>2, <2>3, <2>4 DEF m, t
<1>16. LastDecoded' /\ LastReadable'
  <2>1. LastDecoded'
    BY <1>2, <1>6, <1>r DEF LastDecoded, LastA, None
  <2> QED BY <1>6, <2>1 DEF LastReadable
<1> QED BY <1>7, <1>8, <1>9, <1>11, <1>12, <1>13, <1>14, <1>15, <1>16 DEF RdbViewInv

(* The server takes a call, and answers it.                                  *)
LEMMA CallIsTaken ==
  ASSUME RdbViewInv, up # <<>>, up' = Tail(up)
  PROVE  TookFirst(up, up') /\ RdbCall(up[1]) /\ Head(up) = up[1] /\ 1 \in DOMAIN up
<1>1. IsList(up) /\ \A i \in DOMAIN up : RdbCall(up[i])
  BY DEF RdbViewInv, RdbMessages
<1> HIDE DEF IsList
<1>2. TookFirst(up, up')
  BY <1>1, MovedFirst
<1>3. 1 \in DOMAIN up /\ Head(up) = up[1]
  BY <1>2 DEF TookFirst
<1> QED BY <1>1, <1>2, <1>3

LEMMA CallAnswered ==
  ASSUME RdbViewInv, up # <<>>, NEW a, Serve(a)
  PROVE  /\ TookFirst(up, up') /\ RdbCall(up[1]) /\ Head(up) = up[1] /\ 1 \in DOMAIN up
         /\ PutAmong(down, down', a) /\ Flow({up[1]}, {}, {}, {a})
<1>1. IsList(up) /\ IsList(down)
  BY DEF RdbViewInv, RdbMessages
<1>2. PutAmong(down, down', a) /\ up' = Tail(up)
  BY <1>1, MovedServed
<1> HIDE DEF IsList
<1>3. TookFirst(up, up') /\ RdbCall(up[1]) /\ Head(up) = up[1] /\ 1 \in DOMAIN up
  BY <1>2, CallIsTaken
<1>4. Flow({up[1]}, {}, {}, {a})
  BY <1>2, <1>3 DEF Flow, TookFirst, PutAmong
<1> QED BY <1>2, <1>3, <1>4

LEMMA CallTakenOnly ==
  ASSUME RdbViewInv, up # <<>>, up' = Tail(up), down' = down
  PROVE  /\ TookFirst(up, up') /\ RdbCall(up[1]) /\ Head(up) = up[1] /\ 1 \in DOMAIN up
         /\ Flow({up[1]}, {}, {}, {})
<1>1. TookFirst(up, up') /\ RdbCall(up[1]) /\ Head(up) = up[1] /\ 1 \in DOMAIN up
  BY CallIsTaken
<1>2. IsList(down)
  BY DEF RdbViewInv, RdbMessages
<1>3. Moved(down, down', {}, {})
  BY <1>2, MovedNot
<1>4. Flow({up[1]}, {}, {}, {})
  BY <1>1, <1>3 DEF Flow, TookFirst
<1> QED BY <1>1, <1>4

(* What stays as it is when the server answers a read or a watch, or takes a *)
(* subscription.                                                             *)
LEMMA ReadsFrame ==
  ASSUME RdbViewInv, NEW B, Flow({up[1]}, {}, {}, B), 1 \in DOMAIN up,
         up[1].what \in {"meta", "read", "watch"} \cup Subs,
         \A x \in B : RdbAnswer(x) /\ x.what \in {"meta", "read", "watch"},
         watched' \subseteq RdbNames \cup {NoKey},
         UNCHANGED <<rdb, rdbchanges, listing, unheard, remade, late, page_k>>
  PROVE  RdbViewTypeOK' /\ RdbMessages' /\ OneChange' /\ Asked' /\ KeysTold'
<1> DEFINE c == up[1]
<1>1. /\ \A w \in {"keys", "keep", "change", "created", "deleted"} : NoneOf({c}, w) /\ NoneOf(B, w)
      /\ \A w : NoneOf({}, w)
  BY DEF NoneOf, Subs
<1>2. RdbViewTypeOK'
  BY DEF RdbViewInv, RdbViewTypeOK, page_k
<1>3. RdbMessages'
  <2>1. \A k \in DOMAIN watches' : watches'[k] \in ValueTypes \cup {NoType}
    BY DEF RdbViewInv, RdbMessages, page_k
  <2> QED BY <2>1, MessagesKept DEF RdbViewInv
<1>4. OneChange'
  BY <1>1, OneChangeKept DEF RdbViewInv
<1>5. Asked'
  <2>1. listing = "kept"
    BY DEF RdbViewInv, RdbViewTypeOK, Asked, Subs
  <2> HIDE DEF c
  <2>2. Asked /\ Flow({c}, {}, {}, B)
    BY DEF RdbViewInv, c
  <2> QED BY <1>1, <2>1, <2>2, AskedKept
<1>6. KeysTold'
  BY <1>1, KeysKept DEF RdbViewInv, page_k
<1> QED BY <1>2, <1>3, <1>4, <1>5, <1>6

(* The server executes a call, of each kind.                                 *)
LEMMA ServeMetaKeeps ==
  ASSUME RdbViewInv, Serving("meta"), Serve([what |-> "meta", type |-> Reads(Head(up).k).type]),
         UNCHANGED <<watched, rdb, rdbchanges, listing, unheard, remade, late, page_k>>
  PROVE  RdbViewInv'
<1> DEFINE c == up[1]
           a == [what |-> "meta", type |-> Reads(c.k).type]
<1>0. Head(up) = c /\ up # <<>>
  BY CallIsTaken DEF Serving, Serve
<1>1. Serve(a)
  BY <1>0
<1>a. a.what = "meta" /\ a.type = Reads(c.k).type /\ "event" \notin DOMAIN a
  OBVIOUS
<1> HIDE DEF a
<1>2. /\ TookFirst(up, up') /\ RdbCall(c) /\ 1 \in DOMAIN up
      /\ PutAmong(down, down', a) /\ Flow({c}, {}, {}, {a}) /\ c.what = "meta"
  BY <1>0, <1>1, CallAnswered DEF Serving
<1>3. RdbAnswer(a)
  <2>1. a.type \in ValueTypes \cup {NoType}
    BY <1>a DEF RdbViewInv, RdbViewTypeOK, Reads, Absent
  <2> QED BY <1>a, <2>1 DEF RdbAnswer, OnTheirWay
<1>4. RdbViewTypeOK' /\ RdbMessages' /\ OneChange' /\ Asked' /\ KeysTold'
  <2>1. watched' \subseteq RdbNames \cup {NoKey}
    BY DEF RdbViewInv, RdbViewTypeOK
  <2> QED BY <1>2, <1>3, <1>a, <2>1, ReadsFrame
<1> HIDE DEF c
<1>5. /\ UNCHANGED <<watched, rdb, remade, late, selectedItem, type, value, last_resolve, watches, thrown>>
      /\ ~ NoMeta' /\ ~ None(down', "meta")
  BY <1>2, <1>a DEF page_k, PutAmong, NoMeta, None
<1>6. SubscriptionsFollow'
  <2> SUFFICES ASSUME NEW k \in RdbNames \cup {NoKey} PROVE SubscriptionFollows(k)'
    BY DEF SubscriptionsFollow
  <2>1. SubscriptionFollows(k) /\ NotAbout({c}, Subs, k) /\ NotAbout({}, Subs, k)
    BY <1>2 DEF RdbViewInv, SubscriptionsFollow, NotAbout, IsAbout, Subs
  <2> QED BY <1>2, <1>5, <2>1, SubscriptionKept
<1>7. WatchesFollow'
  <2> SUFFICES ASSUME NEW k \in RdbNames PROVE WatchFollows(k)'
    BY DEF WatchesFollow
  <2>1. /\ WatchFollows(k) /\ NotAbout({c}, {"watch"}, k) /\ NotAbout({}, {"watch"}, k) /\ NotAbout({a}, {"watch"}, k)
    BY <1>2, <1>a DEF RdbViewInv, WatchesFollow, NotAbout, IsAbout
  <2>2. \A on : WatchRight(k, on) => WatchRight(k, on)'
    BY <1>5 DEF WatchRight
  <2> QED BY <1>2, <1>5, <2>1, <2>2, WatchKept
<1>8. MetaBehind'
  <2> SUFFICES ASSUME selectedItem # NoKey
               PROVE  /\ \A i \in DOMAIN up' : OfOther(up'[i], selectedItem) => Behind(up', i, "meta")
                      /\ \A i \in DOMAIN down' : OfOther(down'[i], selectedItem) => Behind(down', i, "meta")
    BY <1>5 DEF MetaBehind
  <2>1. SameOrder(up, up', {})
    BY <1>2 DEF Flow, Moved
  <2>2. \A i \in DOMAIN up' : OfOther(up'[i], selectedItem) => Behind(up', i, "meta")
    BY <2>1 DEF SameOrder, RdbViewInv, MetaBehind
  <2>3. ASSUME NEW i \in DOMAIN down', OfOther(down'[i], selectedItem) PROVE Behind(down', i, "meta")
    <3>1. /\ (\E j \in DOMAIN down : down'[i] = down[j])
          /\ "event" \in DOMAIN down'[i] \/ Behind(down', i, "meta")
      BY <1>2, <1>a, <2>3 DEF PutAmong, OfOther
    <3>2. "event" \notin DOMAIN down'[i]
      BY <2>3, <3>1 DEF RdbViewInv, RdbMessages, RdbAnswer, OfOther
    <3> QED BY <3>1, <3>2
  <2> QED BY <2>2, <2>3
<1>9. ReadBehind' /\ LastFresh' /\ LastDecoded' /\ LastReadable'
  BY <1>5 DEF ReadBehind, LastFresh, LastDecoded, LastReadable
<1>10. ReadPending'
  <2>1. Free({c}, {}, {}, {a}, "read")
    BY <1>2, <1>a DEF Free, NoneOf
  <2> QED BY <1>2, <1>5, <2>1, PendingKept DEF RdbViewInv
<1>11. LastTyped'
  <2> SUFFICES ASSUME selectedItem # NoKey, ~ remade
               PROVE  /\ selectedItem \in DOMAIN rdb
                      /\ \A i \in DOMAIN up' : LastA(up', i, "meta") => up'[i].k = selectedItem
                      /\ None(up', "meta") =>
                           \A i \in DOMAIN down' : LastA(down', i, "meta") => down'[i].type = rdb[selectedItem].type
    BY <1>5 DEF LastTyped, LastA, None
  <2>1. /\ selectedItem \in DOMAIN rdb
        /\ \A i \in DOMAIN up : LastA(up, i, "meta") => up[i].k = selectedItem
    BY DEF RdbViewInv, LastTyped
  <2>2. \A i \in DOMAIN up' : LastA(up', i, "meta") => up'[i].k = selectedItem
    BY <1>2, <2>1 DEF TookFirst, LastFrom
  <2>3. ASSUME None(up', "meta") PROVE c.k = selectedItem
    <3>1. LastA(up, 1, "meta")
      <4>1. ~ None(up, "meta")
        BY <1>2 DEF None, c
      <4> QED BY <1>2, <2>3, <4>1 DEF TookFirst
    <3> QED BY <1>2, <2>1, <3>1 DEF c
  <2>4. \A i \in DOMAIN down' : LastA(down', i, "meta") => down'[i] = a
    <3>1. \A j \in DOMAIN down : "event" \in DOMAIN down[j] => down[j].what # "meta"
      BY DEF RdbViewInv, RdbMessages, RdbAnswer
    <3> QED BY <1>2, <1>a, <3>1 DEF PutAmong
  <2> QED BY <1>a, <2>1, <2>2, <2>3, <2>4 DEF Reads
<1> QED BY <1>4, <1>6, <1>7, <1>8, <1>9, <1>10, <1>11 DEF RdbViewInv

LEMMA ServeReadKeeps ==
  ASSUME RdbViewInv, Serving("read"), Serve(ReadAnswer(Head(up), Reads(Head(up).k))),
         UNCHANGED <<watched, rdb, rdbchanges, listing, unheard, remade, late, page_k>>
  PROVE  RdbViewInv'
<1> DEFINE c == up[1]
           a == ReadAnswer(c, Reads(c.k))
<1>0. Head(up) = c /\ up # <<>>
  BY CallIsTaken DEF Serving, Serve
<1>1. Serve(a)
  BY <1>0
<1>a. /\ a.what = "read" /\ a.k = c.k /\ a.type = c.type /\ a.first = c.first
      /\ a.read = Reads(c.k) /\ "event" \notin DOMAIN a
  BY DEF ReadAnswer
<1> HIDE DEF a
<1>2. /\ TookFirst(up, up') /\ RdbCall(c) /\ 1 \in DOMAIN up
      /\ PutAmong(down, down', a) /\ Flow({c}, {}, {}, {a}) /\ c.what = "read"
  BY <1>0, <1>1, CallAnswered DEF Serving
<1>3. RdbAnswer(a)
  BY <1>2, <1>a DEF RdbCall, RdbAnswer, OnTheirWay
<1>4. RdbViewTypeOK' /\ RdbMessages' /\ OneChange' /\ Asked' /\ KeysTold'
  <2>1. watched' \subseteq RdbNames \cup {NoKey}
    BY DEF RdbViewInv, RdbViewTypeOK
  <2> QED BY <1>2, <1>3, <1>a, <2>1, ReadsFrame
<1>5. /\ UNCHANGED <<watched, rdb, remade, late, selectedItem, type, value, last_resolve, watches, misread, thrown>>
      /\ ~ None(down', "read") /\ ~ None(up, "read")
  BY <1>2, <1>a DEF page_k, PutAmong, None
<1> HIDE DEF c
<1>6. /\ \A w : w # "read" => Free({c}, {}, {}, {a}, w)
      /\ \A w : NoneOf({}, w)
  BY <1>2, <1>a DEF Free, NoneOf
<1>7. SubscriptionsFollow' /\ WatchesFollow' /\ MetaBehind'
  <2>1. \A w \in Subs : NoneOf({c}, w) /\ NoneOf({}, w)
    BY <1>2 DEF NoneOf, Subs
  <2>2. Free({c}, {}, {}, {a}, "meta") /\ Free({c}, {}, {}, {a}, "watch")
    BY <1>6
  <2> QED BY <1>2, <1>5, <2>1, <2>2, SelectionKept
<1>8. NoMeta' <=> NoMeta
  BY <1>2, <1>6, NoMetaKept
<1>9. LastFrom(up, up', "read")
  BY <1>2 DEF TookFirst
<1>10. ReadBehind'
  BY <1>2, <1>5, <1>6, <1>8, <1>9, ReadsKept DEF RdbViewInv
<1>12. \A i \in DOMAIN down' : LastA(down', i, "read") => down'[i] = a
  <2>1. \A j \in DOMAIN down : "event" \in DOMAIN down[j] => down[j].what # "read"
    BY DEF RdbViewInv, RdbMessages, RdbAnswer
  <2> QED BY <1>2, <1>a, <2>1 DEF PutAmong
<1>13. None(up', "read") => LastA(up, 1, "read")
  BY <1>2, <1>5 DEF TookFirst
<1>14. ASSUME selectedItem # NoKey, NoMeta, None(up', "read") PROVE c.k = selectedItem
  BY <1>2, <1>13, <1>14 DEF RdbViewInv, ReadBehind, c
<1>15. LastFresh'
  <2> SUFFICES ASSUME selectedItem \in DOMAIN rdb, NoMeta, None(up', "read"),
                      NEW r \in DOMAIN down', LastA(down', r, "read")
               PROVE  down'[r].k = selectedItem /\ down'[r].read.n = rdb[selectedItem].n
    BY <1>5, <1>8 DEF LastFresh, LastA, None, Fresh
  <2>1. selectedItem # NoKey
    BY RdbNamesAssumption DEF RdbViewInv, RdbViewTypeOK
  <2> QED BY <1>a, <1>12, <1>14, <2>1 DEF Reads
<1>16. LastTyped'
  <2>1. Free({c}, {}, {}, {a}, "meta") /\ LastTyped
    BY <1>6 DEF RdbViewInv
  <2>2. /\ selectedItem' = selectedItem /\ type' = type /\ (~ remade' => ~ remade)
        /\ (selectedItem \in DOMAIN rdb /\ ~ remade') =>
             selectedItem \in DOMAIN rdb' /\ rdb'[selectedItem].type = rdb[selectedItem].type
    BY <1>5
  <2> QED BY <1>2, <2>1, <2>2, TypedKept
<1>17. LastDecoded'
  <2> SUFFICES ASSUME selectedItem # NoKey, ~ misread, NoMeta
               PROVE  /\ \A i \in DOMAIN up' : LastA(up', i, "read") => up'[i].type = type
                      /\ None(up', "read") => \A i \in DOMAIN down' : LastA(down', i, "read") => down'[i].type = type
    BY <1>5, <1>8 DEF LastDecoded, LastA, None
  <2>1. \A i \in DOMAIN up : LastA(up, i, "read") => up[i].type = type
    BY DEF RdbViewInv, LastDecoded
  <2>2. \A i \in DOMAIN up' : LastA(up', i, "read") => up'[i].type = type
    BY <1>9, <2>1 DEF LastFrom
  <2>3. None(up', "read") => c.type = type
    BY <1>2, <1>13, <2>1 DEF c
  <2> QED BY <1>a, <1>12, <2>2, <2>3
<1>18. ReadPending'
  <2> SUFFICES ASSUME ~ last_resolve
               PROVE  /\ \A i \in DOMAIN up' : LastA(up', i, "read") => ~ up'[i].first
                      /\ None(up', "read") => \A i \in DOMAIN down' : LastA(down', i, "read") => ~ down'[i].first
    BY <1>5 DEF ReadPending, LastA, None
  <2>1. \A i \in DOMAIN up : LastA(up, i, "read") => ~ up[i].first
    BY DEF RdbViewInv, ReadPending
  <2>2. \A i \in DOMAIN up' : LastA(up', i, "read") => ~ up'[i].first
    BY <1>9, <2>1 DEF LastFrom
  <2>3. None(up', "read") => ~ c.first
    BY <1>2, <1>13, <2>1 DEF c
  <2> QED BY <1>a, <1>12, <2>2, <2>3
<1>19. LastReadable'
  <2> SUFFICES ASSUME selectedItem # NoKey, ~ remade, NoMeta, None(up', "read"),
                      NEW i \in DOMAIN down', LastA(down', i, "read")
               PROVE  down'[i].read.type = rdb[selectedItem].type
    BY <1>5, <1>8 DEF LastReadable, LastA, None
  <2>1. selectedItem \in DOMAIN rdb
    BY DEF RdbViewInv, LastTyped
  <2> QED BY <1>a, <1>12, <1>14, <2>1 DEF Reads
<1> QED BY <1>4, <1>7, <1>10, <1>15, <1>16, <1>17, <1>18, <1>19 DEF RdbViewInv

LEMMA ServeWatchKeeps ==
  ASSUME RdbViewInv, Serving("watch"), Serve(Head(up)),
         UNCHANGED <<watched, rdb, rdbchanges, listing, unheard, remade, late, page_k>>
  PROVE  RdbViewInv'
<1> DEFINE c == up[1]
<1>0. Head(up) = c /\ up # <<>>
  BY CallIsTaken DEF Serving, Serve
<1>1. Serve(c)
  BY <1>0
<1>2. /\ TookFirst(up, up') /\ RdbCall(c) /\ 1 \in DOMAIN up
      /\ PutAmong(down, down', c) /\ Flow({c}, {}, {}, {c}) /\ c.what = "watch"
  BY <1>0, <1>1, CallAnswered DEF Serving
<1>3. RdbAnswer(c)
  BY <1>2 DEF RdbCall, RdbAnswer, OnTheirWay
<1>4. RdbViewTypeOK' /\ RdbMessages' /\ OneChange' /\ Asked' /\ KeysTold'
  <2>1. watched' \subseteq RdbNames \cup {NoKey}
    BY DEF RdbViewInv, RdbViewTypeOK
  <2> QED BY <1>2, <1>3, <2>1, ReadsFrame
<1>5. UNCHANGED <<watched, rdb, remade, late, selectedItem, type, value, last_resolve, watches, misread, thrown>>
  BY DEF page_k
<1> HIDE DEF c
<1>6. /\ \A w : w # "watch" => Free({c}, {}, {}, {c}, w)
      /\ \A w : NoneOf({}, w) /\ (w # "watch" => NoneOf({c}, w))
  BY <1>2 DEF Free, NoneOf
<1>7. (NoMeta' <=> NoMeta) /\ (None(up', "meta") <=> None(up, "meta"))
  <2>1. Free({c}, {}, {}, {c}, "meta")
    BY <1>6
  <2> QED BY <1>2, <2>1, NoMetaKept
<1>8. SubscriptionsFollow'
  <2> SUFFICES ASSUME NEW k \in RdbNames \cup {NoKey} PROVE SubscriptionFollows(k)'
    BY DEF SubscriptionsFollow
  <2>1. SubscriptionFollows(k) /\ NotAbout({c}, Subs, k) /\ NotAbout({}, Subs, k)
    BY <1>2 DEF RdbViewInv, SubscriptionsFollow, NotAbout, IsAbout, Subs
  <2> QED BY <1>2, <1>5, <2>1, SubscriptionKept
<1>9. WatchesFollow'
  <2> SUFFICES ASSUME NEW k \in RdbNames PROVE WatchFollows(k)'
    BY DEF WatchesFollow
  <2>1. WatchFollows(k)
    BY DEF RdbViewInv, WatchesFollow
  <2>2. \A on : WatchRight(k, on) => WatchRight(k, on)'
    BY <1>5, <1>7 DEF WatchRight
  <2>3. CASE c.k # k
    <3>1. NotAbout({c}, {"watch"}, k) /\ NotAbout({}, {"watch"}, k)
      BY <2>3 DEF NotAbout, IsAbout
    <3> QED BY <1>2, <1>5, <2>1, <2>2, <3>1, WatchKept
  <2>4. CASE c.k = k
    <3>1. IsAbout(c, {"watch"}, k)
      BY <1>2, <2>4 DEF IsAbout
    <3>2. \A i \in DOMAIN up : LastOf(up, i, {"watch"}, k) => WatchRight(k, up[i].on)
      BY <2>1 DEF WatchFollows
    <3>3. \A i \in DOMAIN up' : LastOf(up', i, {"watch"}, k) => WatchRight(k, up'[i].on)
      BY <1>2, <3>2 DEF TookFirst
    <3>4. Silent(up', {"watch"}, k) => WatchRight(k, c.on)
      <4>1. ~ Silent(up, {"watch"}, k)
        BY <1>2, <3>1 DEF Silent, c
      <4> QED BY <1>2, <3>2, <4>1 DEF TookFirst, c
    <3>5. /\ ~ Silent(down', {"watch"}, k)
          /\ \A i \in DOMAIN down' : LastOf(down', i, {"watch"}, k) => down'[i] = c
      <4>1. \A j \in DOMAIN down : "event" \in DOMAIN down[j] => down[j].what \notin {"watch"}
        BY DEF RdbViewInv, RdbMessages, RdbAnswer
      <4> QED BY <1>2, <3>1, <4>1 DEF PutAmong
    <3>6. /\ \A i \in DOMAIN up' : LastOf(up', i, {"watch"}, k) => WatchRight(k, up[i].on)'
          /\ Silent(up', {"watch"}, k) =>
               \A i \in DOMAIN down' : LastOf(down', i, {"watch"}, k) => WatchRight(k, down[i].on)'
      BY <1>5, <1>7, <3>3, <3>4, <3>5 DEF WatchRight
    <3> QED BY <3>5, <3>6 DEF WatchFollows, Silent, LastOf, IsAbout
  <2> QED BY <2>3, <2>4
<1>10. MetaBehind'
  <2> SUFFICES ASSUME selectedItem # NoKey
               PROVE  /\ \A i \in DOMAIN up' : OfOther(up'[i], selectedItem) => Behind(up', i, "meta")
                      /\ \A i \in DOMAIN down' : OfOther(down'[i], selectedItem) =>
                                                   Behind(down', i, "meta") \/ ~ None(up', "meta")
    BY <1>5 DEF MetaBehind
  <2>1. SameOrder(up, up', {}) /\ SameOrder(down, down', {c})
    BY <1>2 DEF Flow, Moved
  <2>2. /\ \A i \in DOMAIN up : OfOther(up[i], selectedItem) => Behind(up, i, "meta")
        /\ \A i \in DOMAIN down : OfOther(down[i], selectedItem) =>
                                    Behind(down, i, "meta") \/ ~ None(up, "meta")
    BY DEF RdbViewInv, MetaBehind
  <2>3. \A i \in DOMAIN up' : OfOther(up'[i], selectedItem) => Behind(up', i, "meta")
    BY <2>1, <2>2 DEF SameOrder
  <2>4. OfOther(c, selectedItem) => ~ None(up', "meta")
    BY <1>2, <2>2 DEF TookFirst, c
  <2>5. \A i \in DOMAIN down' : OfOther(down'[i], selectedItem) => Behind(down', i, "meta") \/ ~ None(up', "meta")
    BY <1>7, <2>1, <2>2, <2>4 DEF SameOrder
  <2> QED BY <2>3, <2>5
<1>11. ReadBehind' /\ ReadPending'
  <2>1. LastFrom(up, up', "read")
    BY <1>2 DEF TookFirst
  <2>2. ReadBehind'
    BY <1>2, <1>5, <1>6, <1>7, <2>1, ReadsKept DEF RdbViewInv
  <2>3. Free({c}, {}, {}, {c}, "read")
    BY <1>6
  <2>4. ReadPending'
    BY <1>2, <1>5, <2>3, PendingKept DEF RdbViewInv
  <2> QED BY <2>2, <2>4
<1>12. LastFresh'
  <2>1. SameReads(down, down', selectedItem)
    <3>1. \A x \in {} \cup {c} : x.what # "read" /\ ~ IsAbout(x, {"changed"}, selectedItem)
      BY <1>2 DEF IsAbout
    <3> QED BY <1>2, <3>1 DEF Flow, Moved
  <2>2. None(up', "read") <=> None(up, "read")
    BY <1>2, <1>6 DEF Flow, Moved, SameKind
  <2> QED BY <1>5, <1>7, <2>1, <2>2, FreshKept DEF RdbViewInv
<1>13. LastTyped' /\ LastDecoded' /\ LastReadable'
  <2>1. Free({c}, {}, {}, {c}, "meta") /\ LastTyped
    BY <1>6 DEF RdbViewInv
  <2>2. /\ selectedItem' = selectedItem /\ type' = type /\ (~ remade' => ~ remade)
        /\ (selectedItem \in DOMAIN rdb /\ ~ remade') =>
             selectedItem \in DOMAIN rdb' /\ rdb'[selectedItem].type = rdb[selectedItem].type
    BY <1>5
  <2>3. LastTyped'
    BY <1>2, <2>1, <2>2, TypedKept
  <2>4. LastDecoded'
    BY <1>2, <1>5, <1>6, <1>7, DecodedKept DEF RdbViewInv
  <2>5. LastReadable'
    BY <1>2, <1>5, <1>6, <1>7, <2>2, ReadableKept DEF RdbViewInv
  <2> QED BY <2>3, <2>4, <2>5
<1> QED BY <1>4, <1>8, <1>9, <1>10, <1>11, <1>12, <1>13 DEF RdbViewInv

LEMMA ServeSubscriptionKeeps ==
  ASSUME RdbViewInv, TookFirst(up, up'), Flow({up[1]}, {}, {}, {}), RdbCall(up[1]), 1 \in DOMAIN up,
         up[1].what \in Subs,
         watched' = IF up[1].what = "subscribe" THEN watched \cup {up[1].k} ELSE watched \ {up[1].k},
         UNCHANGED <<rdb, rdbchanges, listing, unheard, remade, late, page_k>>
  PROVE  RdbViewInv'
<1> DEFINE c == up[1]
<1>1. TookFirst(up, up') /\ Flow({c}, {}, {}, {}) /\ 1 \in DOMAIN up
  OBVIOUS
<1>2. /\ c.what \in Subs /\ c.k \in RdbNames \cup {NoKey}
      /\ watched' = IF c.what = "subscribe" THEN watched \cup {c.k} ELSE watched \ {c.k}
  BY DEF RdbCall, Subs
<1>4. RdbViewTypeOK' /\ RdbMessages' /\ OneChange' /\ Asked' /\ KeysTold'
  <2>1. watched' \subseteq RdbNames \cup {NoKey}
    BY <1>2 DEF RdbViewInv, RdbViewTypeOK
  <2> HIDE DEF c
  <2> QED BY <2>1, ReadsFrame
<1>5. UNCHANGED <<rdb, remade, late, selectedItem, type, value, last_resolve, watches, misread, thrown>>
  BY DEF page_k
<1> HIDE DEF c
<1>6. /\ \A w : w \notin Subs => Free({c}, {}, {}, {}, w) /\ NoneOf({c}, w)
      /\ \A w : NoneOf({}, w)
      /\ "meta" \notin Subs /\ "read" \notin Subs /\ "watch" \notin Subs
  BY <1>2 DEF Free, NoneOf, Subs
<1>7. (NoMeta' <=> NoMeta) /\ (None(up', "meta") <=> None(up, "meta"))
  BY <1>1, <1>6, NoMetaKept
<1>8. SubscriptionsFollow'
  <2> SUFFICES ASSUME NEW k \in RdbNames \cup {NoKey} PROVE SubscriptionFollows(k)'
    BY DEF SubscriptionsFollow
  <2>1. SubscriptionFollows(k)
    BY DEF RdbViewInv, SubscriptionsFollow
  <2>2. CASE c.k # k
    <3>1. NotAbout({c}, Subs, k) /\ NotAbout({}, Subs, k) /\ (k \in watched' <=> k \in watched)
      BY <1>2, <2>2 DEF NotAbout, IsAbout
    <3> QED BY <1>1, <1>5, <2>1, <3>1, SubscriptionKept
  <2>3. CASE c.k = k
    <3>1. /\ \A i \in DOMAIN up : LastOf(up, i, Subs, k) => (up[i].what = "subscribe" <=> k \in DOMAIN watches)
      BY <2>1 DEF SubscriptionFollows
    <3>2. ~ Silent(up, Subs, k)
      BY <1>1, <1>2, <2>3 DEF Silent, IsAbout, c
    <3>3. Silent(up', Subs, k) => (c.what = "subscribe" <=> k \in DOMAIN watches)
      BY <1>1, <3>1, <3>2 DEF TookFirst, c
    <3>4. \A i \in DOMAIN up' : LastOf(up', i, Subs, k) => (up'[i].what = "subscribe" <=> k \in DOMAIN watches)
      BY <1>1, <3>1 DEF TookFirst
    <3>5. k \in watched' <=> c.what = "subscribe"
      BY <1>2, <2>3
    <3> QED BY <1>5, <3>3, <3>4, <3>5 DEF SubscriptionFollows, Silent, LastOf, IsAbout, Subs
  <2> QED BY <2>2, <2>3
<1>9. WatchesFollow'
  <2> SUFFICES ASSUME NEW k \in RdbNames PROVE WatchFollows(k)'
    BY DEF WatchesFollow
  <2>1. /\ WatchFollows(k) /\ NotAbout({c}, {"watch"}, k) /\ NotAbout({}, {"watch"}, k)
    BY <1>2 DEF RdbViewInv, WatchesFollow, NotAbout, IsAbout, Subs
  <2>2. \A on : WatchRight(k, on) => WatchRight(k, on)'
    BY <1>5, <1>7 DEF WatchRight
  <2> QED BY <1>1, <1>5, <2>1, <2>2, WatchKept
<1>10. MetaBehind'
  BY <1>1, <1>5, <1>7, MetaKept DEF RdbViewInv
<1>11. ReadBehind' /\ ReadPending'
  <2>1. LastFrom(up, up', "read")
    BY <1>1 DEF TookFirst
  <2>2. ReadBehind'
    BY <1>1, <1>5, <1>6, <1>7, <2>1, ReadsKept DEF RdbViewInv
  <2>3. ReadPending'
    BY <1>1, <1>5, <1>6, PendingKept DEF RdbViewInv
  <2> QED BY <2>2, <2>3
<1>12. LastFresh'
  <2>1. SameReads(down, down', selectedItem)
    BY <1>1 DEF Flow, Moved
  <2>2. None(up', "read") <=> None(up, "read")
    BY <1>1, <1>6 DEF Flow, Moved, SameKind
  <2> QED BY <1>5, <1>7, <2>1, <2>2, FreshKept DEF RdbViewInv
<1>13. LastTyped' /\ LastDecoded' /\ LastReadable'
  <2>1. Free({c}, {}, {}, {}, "meta") /\ LastTyped
    BY <1>6 DEF RdbViewInv
  <2>2. /\ selectedItem' = selectedItem /\ type' = type /\ (~ remade' => ~ remade)
        /\ (selectedItem \in DOMAIN rdb /\ ~ remade') =>
             selectedItem \in DOMAIN rdb' /\ rdb'[selectedItem].type = rdb[selectedItem].type
    BY <1>5
  <2>3. LastTyped'
    BY <1>1, <2>1, <2>2, TypedKept
  <2>4. LastDecoded'
    BY <1>1, <1>5, <1>6, <1>7, DecodedKept DEF RdbViewInv
  <2>5. LastReadable'
    BY <1>1, <1>5, <1>6, <1>7, <2>2, ReadableKept DEF RdbViewInv
  <2> QED BY <2>3, <2>4, <2>5
<1> QED BY <1>4, <1>8, <1>9, <1>10, <1>11, <1>12, <1>13 DEF RdbViewInv

LEMMA ServeReadsKeeps ==
  ASSUME RdbViewInv, ServeReads
  PROVE  RdbViewInv'
<1>1. UNCHANGED <<rdb, rdbchanges, listing, unheard, remade, late, page_k>>
  BY DEF ServeReads
<1>2. CASE Serving("meta") /\ Serve([what |-> "meta", type |-> Reads(Head(up).k).type]) /\ watched' = watched
  BY <1>1, <1>2, ServeMetaKeeps
<1>3. CASE Serving("read") /\ Serve(ReadAnswer(Head(up), Reads(Head(up).k))) /\ watched' = watched
  BY <1>1, <1>3, ServeReadKeeps
<1>4. CASE Serving("watch") /\ Serve(Head(up)) /\ watched' = watched
  BY <1>1, <1>4, ServeWatchKeeps
<1>5. CASE /\ up # <<>> /\ Head(up).what \in Subs /\ up' = Tail(up) /\ down' = down
           /\ watched' = IF Head(up).what = "subscribe" THEN watched \cup {Head(up).k} ELSE watched \ {Head(up).k}
  <2>1. /\ TookFirst(up, up') /\ RdbCall(up[1]) /\ Head(up) = up[1] /\ 1 \in DOMAIN up
        /\ Flow({up[1]}, {}, {}, {})
    BY <1>5, CallTakenOnly
  <2>2. /\ up[1].what \in Subs
        /\ watched' = IF up[1].what = "subscribe" THEN watched \cup {up[1].k} ELSE watched \ {up[1].k}
    BY <1>5, <2>1
  <2> QED BY <1>1, <2>1, <2>2, ServeSubscriptionKeeps
<1>6. /\ Serving("subscribe") /\ up' = Tail(up) /\ down' = down /\ watched' = watched \cup {Head(up).k} => RdbViewInv'
      /\ Serving("unsubscribe") /\ up' = Tail(up) /\ down' = down /\ watched' = watched \ {Head(up).k} => RdbViewInv'
  BY <1>5 DEF Serving, Subs
<1> QED BY <1>2, <1>3, <1>4, <1>6 DEF ServeReads

(* What stays as it is when the messages are about the list of keys or a     *)
(* change that is asked for.                                                 *)
LEMMA ShownFrame ==
  ASSUME RdbViewInv, NEW R, NEW A, NEW Q, NEW B, Flow(R, A, Q, B),
         \A w \in {"meta", "watch", "read", "changed"} \cup Subs : Free(R, A, Q, B, w),
         UNCHANGED <<rdb, watched, selectedItem, type, value, last_resolve, watches, misread, remade, late, thrown>>
  PROVE  /\ SubscriptionsFollow' /\ WatchesFollow' /\ MetaBehind' /\ ReadBehind'
         /\ ReadPending' /\ LastFresh' /\ LastTyped' /\ LastDecoded' /\ LastReadable'
<1>1. /\ Free(R, A, Q, B, "meta") /\ Free(R, A, Q, B, "watch") /\ Free(R, A, Q, B, "read")
      /\ Free(R, A, Q, B, "changed")
  OBVIOUS
<1>2. \A w \in Subs : NoneOf(R, w) /\ NoneOf(A, w)
  BY DEF Free
<1>3. SubscriptionsFollow' /\ WatchesFollow' /\ MetaBehind'
  BY <1>1, <1>2, SelectionKept
<1>4. NoMeta' <=> NoMeta
  BY <1>1, NoMetaKept
<1>5. SameKind(up, up', "read")
  BY <1>1 DEF Flow, Moved, Free
<1>6. ReadBehind'
  <2>1. NoneOf(A, "unsubscribe") /\ LastFrom(up, up', "read")
    BY <1>2, <1>5 DEF Subs, SameKind
  <2> QED BY <1>4, <2>1, ReadsKept DEF RdbViewInv
<1>7. ReadPending'
  BY <1>1, PendingKept DEF RdbViewInv
<1>8. LastFresh'
  <2>1. SameReads(down, down', selectedItem)
    <3>1. \A m \in Q \cup B : m.what # "read" /\ ~ IsAbout(m, {"changed"}, selectedItem)
      BY <1>1 DEF Free, NoneOf, IsAbout
    <3> QED BY <3>1 DEF Flow, Moved
  <2>2. None(up', "read") => None(up, "read")
    BY <1>5 DEF SameKind
  <2> QED BY <1>4, <2>1, <2>2, FreshKept DEF RdbViewInv
<1>9. LastTyped' /\ LastReadable'
  <2>1. (selectedItem \in DOMAIN rdb /\ ~ remade') =>
          selectedItem \in DOMAIN rdb' /\ rdb'[selectedItem].type = rdb[selectedItem].type
    OBVIOUS
  <2>2. LastTyped'
    BY <1>1, <2>1, TypedKept DEF RdbViewInv
  <2>3. LastReadable'
    BY <1>1, <1>4, <2>1, ReadableKept DEF RdbViewInv
  <2> QED BY <2>2, <2>3
<1>10. LastDecoded'
  BY <1>1, <1>4, DecodedKept DEF RdbViewInv
<1> QED BY <1>3, <1>6, <1>7, <1>8, <1>9, <1>10

(* It makes the list of keys, and follows it from then on.                   *)
LEMMA ServeListKeeps ==
  ASSUME RdbViewInv, Serving("keys"), Serve([what |-> "keys", keys |-> DOMAIN rdb]), listing' = "told",
         UNCHANGED <<rdb, rdbchanges, watched, unheard, remade, late, page_k>>
  PROVE  RdbViewInv'
<1> DEFINE c == up[1]
           a == [what |-> "keys", keys |-> DOMAIN rdb]
<1>a. a.what = "keys" /\ a.keys = DOMAIN rdb /\ "event" \notin DOMAIN a
  OBVIOUS
<1>1. Serve(a)
  OBVIOUS
<1> HIDE DEF a
<1>2. /\ TookFirst(up, up') /\ RdbCall(c) /\ 1 \in DOMAIN up
      /\ PutAmong(down, down', a) /\ Flow({c}, {}, {}, {a}) /\ c.what = "keys"
  BY <1>1, CallAnswered DEF Serving
<1>3. /\ \A w : w # "keys" => Free({c}, {}, {}, {a}, w)
      /\ \A w : NoneOf({}, w)
  BY <1>2, <1>a DEF Free, NoneOf
<1>4. UNCHANGED <<rdb, rdbchanges, watched, selectedItem, type, value, last_resolve, watches, misread, remade, late, thrown>>
  BY DEF page_k
<1>5. RdbViewTypeOK'
  BY DEF RdbViewInv, RdbViewTypeOK, page_k
<1>6. RdbAnswer(a)
  BY <1>a DEF RdbAnswer, OnTheirWay, RdbViewInv, RdbViewTypeOK
<1> HIDE DEF c
<1>7. RdbMessages'
  <2>1. \A k \in DOMAIN watches' : watches'[k] \in ValueTypes \cup {NoType}
    BY <1>4 DEF RdbViewInv, RdbMessages
  <2> QED BY <1>2, <1>6, <2>1, MessagesKept DEF RdbViewInv
<1>8. OneChange'
  <2>1. NoneOf({c}, "change") /\ NoneOf({}, "change") /\ rdbchanges' = rdbchanges
    BY <1>2, <1>4 DEF NoneOf
  <2> QED BY <1>2, <2>1, OneChangeKept DEF RdbViewInv
<1>9. listing = "untold"
  BY <1>2 DEF RdbViewInv, RdbViewTypeOK, Asked, None, c
<1>10. /\ 2 \in DOMAIN up /\ up[2].what = "keep"
       /\ None(down, "keys") /\ None(down, "created") /\ None(down, "deleted")
  BY <1>9 DEF RdbViewInv, Asked
<1>11. None(down', "created") /\ None(down', "deleted")
  <2>1. SameKind(down, down', "created") /\ SameKind(down, down', "deleted")
    BY <1>2, <1>3 DEF Flow, Moved, Free
  <2> QED BY <1>10, <2>1 DEF SameKind
<1>12. Asked'
  <2>1. Never(up', {"keys"}, "keys") /\ Never(up', {"keep"}, "keep") /\ None(up', "keys")
    <3>1. Never(up, {"keys"}, "keys") /\ Never(up, {"keep"}, "keep")
      BY DEF RdbViewInv, Asked
    <3> QED BY <1>2, <3>1 DEF TookFirst, c
  <2>2. Never(down', {"keys", "created", "deleted"}, "keys")
    <3>1. \A j \in DOMAIN down : down[j].what \notin {"keys", "created", "deleted"}
      BY <1>10 DEF None
    <3> QED BY <1>2, <3>1 DEF PutAmong
  <2>3. 1 \in DOMAIN up' /\ up'[1] = up[2]
    <3>1. PICK i \in DOMAIN up' : 2 = i + 1
      BY <1>2, <1>10 DEF TookFirst
    <3>2. \A j \in DOMAIN up' : j \in Nat
      BY <1>7, ListedFacts DEF RdbMessages
    <3>3. i = 1
      BY <3>1, <3>2
    <3> QED BY <1>2, <3>1, <3>3 DEF TookFirst
  <2> QED BY <1>10, <1>11, <2>1, <2>2, <2>3 DEF Asked
<1>13. KeysTold'
  <2> SUFFICES ASSUME NEW k \in RdbNames
               PROVE  /\ \A i \in DOMAIN down' : ~ LastOf(down', i, {"created", "deleted"}, k)
                      /\ \A i \in DOMAIN down' : down'[i].what = "keys" => (k \in down'[i].keys <=> k \in DOMAIN rdb)
                      /\ ~ None(down', "keys")
    BY <1>4 DEF KeysTold, LastOf, IsAbout, Silent, None
  <2>1. \A i \in DOMAIN down' : ~ LastOf(down', i, {"created", "deleted"}, k)
    BY <1>11 DEF LastOf, IsAbout, None
  <2>2. \A i \in DOMAIN down' : down'[i].what = "keys" => down'[i] = a
    BY <1>2, <1>10 DEF PutAmong, None
  <2>3. ~ None(down', "keys")
    BY <1>2, <1>a DEF PutAmong
  <2> QED BY <1>a, <2>1, <2>2, <2>3
<1>14. /\ SubscriptionsFollow' /\ WatchesFollow' /\ MetaBehind' /\ ReadBehind'
       /\ ReadPending' /\ LastFresh' /\ LastTyped' /\ LastDecoded' /\ LastReadable'
  <2>1. \A w \in {"meta", "watch", "read", "changed"} \cup Subs : Free({c}, {}, {}, {a}, w)
    BY <1>3 DEF Subs
  <2> QED BY <1>2, <1>4, <2>1, ShownFrame
<1> QED BY <1>5, <1>7, <1>8, <1>12, <1>13, <1>14 DEF RdbViewInv

LEMMA ServeKeepKeeps ==
  ASSUME RdbViewInv, Serving("keep"), up' = Tail(up), down' = down, listing' = "kept",
         UNCHANGED <<rdb, rdbchanges, watched, unheard, remade, late, page_k>>
  PROVE  RdbViewInv'
<1> DEFINE c == up[1]
<1>2. /\ TookFirst(up, up') /\ RdbCall(c) /\ 1 \in DOMAIN up
      /\ Flow({c}, {}, {}, {}) /\ c.what = "keep"
  BY CallTakenOnly DEF Serving
<1>3. /\ \A w : w # "keep" => Free({c}, {}, {}, {}, w)
      /\ \A w : NoneOf({}, w)
  BY <1>2 DEF Free, NoneOf
<1>4. UNCHANGED <<rdb, rdbchanges, watched, rdbKeys, selectedItem, type, value, last_resolve, watches, misread, remade, late, thrown>>
  BY DEF page_k
<1>5. RdbViewTypeOK'
  BY DEF RdbViewInv, RdbViewTypeOK, page_k
<1>9. listing = "told"
  BY <1>2 DEF RdbViewInv, RdbViewTypeOK, Asked, None, c
<1> HIDE DEF c
<1>7. RdbMessages'
  <2>1. \A k \in DOMAIN watches' : watches'[k] \in ValueTypes \cup {NoType}
    BY <1>4 DEF RdbViewInv, RdbMessages
  <2> QED BY <1>2, <2>1, MessagesKept DEF RdbViewInv
<1>8. OneChange'
  <2>1. NoneOf({c}, "change") /\ NoneOf({}, "change") /\ rdbchanges' = rdbchanges
    BY <1>2, <1>4 DEF NoneOf
  <2> QED BY <1>2, <2>1, OneChangeKept DEF RdbViewInv
<1>12. Asked'
  <2>1. /\ Never(up, {"keys"}, "keys") /\ Never(up, {"keep"}, "keep") /\ None(up, "keys")
        /\ Never(down, {"keys", "created", "deleted"}, "keys")
    BY <1>9 DEF RdbViewInv, Asked
  <2>2. Never(up', {"keys"}, "keys") /\ Never(up', {"keep"}, "keep") /\ None(up', "keep") /\ None(up', "keys")
    BY <1>2, <2>1 DEF TookFirst, c
  <2> QED BY <2>1, <2>2 DEF Asked
<1>13. KeysTold'
  <2>1. \A w \in {"keys", "created", "deleted"} : NoneOf({}, w)
    BY <1>3
  <2> QED BY <1>2, <1>4, <1>9, <2>1, KeysKept DEF RdbViewInv
<1>14. /\ SubscriptionsFollow' /\ WatchesFollow' /\ MetaBehind' /\ ReadBehind'
       /\ ReadPending' /\ LastFresh' /\ LastTyped' /\ LastDecoded' /\ LastReadable'
  <2>1. \A w \in {"meta", "watch", "read", "changed"} \cup Subs : Free({c}, {}, {}, {}, w)
    BY <1>3 DEF Subs
  <2> QED BY <1>2, <1>4, <2>1, ShownFrame
<1> QED BY <1>5, <1>7, <1>8, <1>12, <1>13, <1>14 DEF RdbViewInv

LEMMA ServeKeysKeeps ==
  ASSUME RdbViewInv, ServeKeys
  PROVE  RdbViewInv'
<1>1. UNCHANGED <<rdb, rdbchanges, watched, unheard, remade, late, page_k>>
  BY DEF ServeKeys
<1>2. CASE Serving("keys") /\ Serve([what |-> "keys", keys |-> DOMAIN rdb]) /\ listing' = "told"
  BY <1>1, <1>2, ServeListKeeps
<1>3. CASE Serving("keep") /\ up' = Tail(up) /\ down' = down /\ listing' = "kept"
  BY <1>1, <1>3, ServeKeepKeeps
<1> QED BY <1>2, <1>3 DEF ServeKeys

(* Among messages about a key one is the last.                               *)
LEMMA LastIs ==
  ASSUME NEW s, IsList(s), NEW W, NEW k, ~ Silent(s, W, k)
  PROVE  \E i \in DOMAIN s : LastOf(s, i, W, k)
<1> DEFINE l == Len(s)
           T == {i \in DOMAIN s : IsAbout(s[i], W, k)}
           D == {l - i : i \in T}
           R == OpToRel(<, Nat)
<1>1. l \in Nat /\ DOMAIN s = 1 .. l
  BY ListedFacts
<1> HIDE DEF l
<1>2. T # {}
  BY DEF Silent
<1>3. D \subseteq Nat /\ D # {}
  BY <1>1, <1>2
<1> HIDE DEF D
<1>4. \E x \in D : \A y \in D : ~ (y < x)
  <2>1. IsWellFoundedOn(R, Nat)
    BY NatLessThanWellFounded
  <2>2. PICK x \in D : \A y \in D : <<y, x>> \notin R
    <3> HIDE DEF R
    <3> QED BY <1>3, <2>1, WFMin, Zenon
  <2> QED BY <1>3, <2>2 DEF OpToRel
<1>5. PICK x \in D : \A y \in D : ~ (y < x)
  BY <1>4
<1>6. PICK i \in T : x = l - i
  BY DEF D
<1>7. ASSUME NEW j \in T PROVE ~ (j > i)
  <2>1. l - j \in D
    BY DEF D
  <2>2. ~ (l - j < l - i)
    BY <1>5, <1>6, <2>1
  <2> QED BY <1>1, <2>2
<1> QED BY <1>6, <1>7 DEF LastOf

(* The events of a change: who watches the key, and who follows the list.    *)
Sent(k, e, B) ==
  /\ Moved(down, down', {}, B)
  /\ \A m \in B : /\ m.k = k /\ "event" \in DOMAIN m /\ m.what \in {"changed", "created", "deleted"}
                  /\ m.what # "changed" => listing = "kept" /\ e # "written"
  /\ (k \in watched /\ e # "deleted") =>
       /\ BehindOf(down', 0, "changed", k)
       /\ \A r \in DOMAIN down' : down'[r].what = "read" => BehindOf(down', r, "changed", k)
  /\ (listing = "kept" /\ e # "written") =>
       /\ ~ Silent(down', {"created", "deleted"}, k)
       /\ \A i \in DOMAIN down' : LastOf(down', i, {"created", "deleted"}, k) => down'[i].what = e
  /\ Never(down, {"keys", "created", "deleted"}, "keys") => Never(down', {"keys", "created", "deleted"}, "keys")

LEMMA EventIs ==
  ASSUME NEW k, NEW w
  PROVE  LET m == Event([what |-> w, k |-> k]) IN m.what = w /\ m.k = k /\ "event" \in DOMAIN m
BY DEF Event

LEMMA EventsSent ==
  ASSUME RdbViewInv, NEW k, NEW e \in {"written", "deleted", "created"}, down' = down \o Events(k, e)
  PROVE  \E B : Sent(k, e, B)
<1> DEFINE a == Event([what |-> "changed", k |-> k])
           b == Event([what |-> e, k |-> k])
           T == k \in watched /\ e # "deleted"
           L == listing = "kept" /\ e # "written"
           W == {"created", "deleted"}
           K == {"keys", "created", "deleted"}
<1>1. /\ a.what = "changed" /\ a.k = k /\ "event" \in DOMAIN a
      /\ b.what = e /\ b.k = k /\ "event" \in DOMAIN b
  BY EventIs
<1>2. Events(k, e) = (IF T THEN <<a>> ELSE <<>>) \o (IF L THEN <<b>> ELSE <<>>)
  BY DEF Events
<1>3. IsList(down)
  BY DEF RdbViewInv, RdbMessages
<1> HIDE DEF a, b, IsList
<1>4. CASE ~ T /\ ~ L
  <2>1. down' = down
    BY <1>2, <1>3, <1>4, InParts
  <2>2. Moved(down, down', {}, {})
    BY <1>3, <2>1, MovedNot
  <2>3. Sent(k, e, {})
    BY <1>4, <2>1, <2>2 DEF Sent
  <2> QED BY <2>3
<1>5. CASE T /\ ~ L
  <2>1. down' = Append(down, a)
    BY <1>2, <1>3, <1>5, InParts
  <2>2. PutLast(down, down', a)
    BY <1>3, <2>1, MovedLast
  <2>3. Moved(down, down', {}, {a}) /\ BehindOf(down', 0, "changed", k)
    BY <1>1, <2>2 DEF PutLast
  <2>4. \A r \in DOMAIN down' : down'[r].what = "read" => BehindOf(down', r, "changed", k)
    BY <1>1, <2>2 DEF PutLast
  <2>5. Never(down, K, "keys") => Never(down', K, "keys")
    BY <1>1, <2>2 DEF PutLast
  <2>6. \A m \in {a} : m.k = k /\ "event" \in DOMAIN m /\ m.what = "changed"
    BY <1>1
  <2>7. Sent(k, e, {a})
    BY <1>5, <2>3, <2>4, <2>5, <2>6 DEF Sent
  <2> QED BY <2>7
<1>6. CASE ~ T /\ L
  <2>1. down' = Append(down, b)
    BY <1>2, <1>3, <1>6, InParts
  <2>2. PutLast(down, down', b)
    BY <1>3, <2>1, MovedLast
  <2>3. e \in W /\ IsAbout(b, W, k)
    BY <1>1, <1>6 DEF IsAbout
  <2>4. /\ Moved(down, down', {}, {b}) /\ ~ Silent(down', W, k)
        /\ \A i \in DOMAIN down' : LastOf(down', i, W, k) => down'[i].what = e
    BY <1>1, <2>2, <2>3 DEF PutLast
  <2>5. Never(down, K, "keys") => Never(down', K, "keys")
    BY <1>1, <1>6, <2>2 DEF PutLast
  <2>6. \A m \in {b} : m.k = k /\ "event" \in DOMAIN m /\ m.what = e
    BY <1>1
  <2>7. Sent(k, e, {b})
    BY <1>6, <2>3, <2>4, <2>5, <2>6 DEF Sent
  <2> QED BY <2>7
<1>7. CASE T /\ L
  <2> DEFINE u == Append(down, a)
  <2>1. down' = Append(u, b)
    <3>1. Events(k, e) = <<a>> \o <<b>>
      BY <1>2, <1>7
    <3>2. down \o (<<a>> \o <<b>>) = Append(Append(down, a), b)
      BY <1>3, InParts
    <3> QED BY <3>1, <3>2
  <2>2. PutLast(down, u, a)
    BY <1>3, MovedLast
  <2> HIDE DEF u
  <2>3. PutLast(u, down', b)
    <3>1. IsList(u)
      BY <2>2 DEF PutLast, Moved
    <3> QED BY <2>1, <3>1, MovedLast
  <2>4. Moved(down, down', {}, {a, b})
    <3>1. Moved(down, u, {}, {a}) /\ Moved(u, down', {}, {b})
      BY <2>2, <2>3 DEF PutLast
    <3>2. Moved(down, down', {} \cup {}, {a} \cup {b})
      BY <3>1, MovedTwice
    <3>3. {} \cup {} = {} /\ {a} \cup {b} = {a, b}
      OBVIOUS
    <3> QED BY <3>2, <3>3
  <2>5. \A j \in DOMAIN u : j \in DOMAIN down' /\ down'[j] = u[j]
    BY <2>3 DEF PutLast
  <2>6. \A r : BehindOf(u, r, "changed", k) => BehindOf(down', r, "changed", k)
    BY <2>5 DEF BehindOf
  <2>7. BehindOf(down', 0, "changed", k)
    BY <1>1, <2>2, <2>6 DEF PutLast
  <2>8. ASSUME NEW r \in DOMAIN down', down'[r].what = "read" PROVE BehindOf(down', r, "changed", k)
    <3>1. r \in DOMAIN u /\ down'[r] = u[r]
      BY <1>1, <2>3, <2>8 DEF PutLast
    <3>2. BehindOf(u, r, "changed", k)
      BY <1>1, <2>2, <2>8, <3>1 DEF PutLast
    <3> QED BY <2>6, <3>2
  <2>9. e \in W /\ IsAbout(b, W, k)
    BY <1>1, <1>7 DEF IsAbout
  <2>10. /\ ~ Silent(down', W, k)
         /\ \A i \in DOMAIN down' : LastOf(down', i, W, k) => down'[i].what = e
    BY <1>1, <2>3, <2>9 DEF PutLast
  <2>11. Never(down, K, "keys") => Never(down', K, "keys")
    <3>1. Never(down, K, "keys") => Never(u, K, "keys")
      BY <1>1, <2>2 DEF PutLast
    <3>2. Never(u, K, "keys") => Never(down', K, "keys")
      BY <1>1, <1>7, <2>3 DEF PutLast
    <3> QED BY <3>1, <3>2
  <2>12. \A m \in {a, b} : m.k = k /\ "event" \in DOMAIN m /\ m.what \in {"changed", e}
    BY <1>1
  <2>13. Sent(k, e, {a, b})
    BY <1>7, <2>4, <2>7, <2>8, <2>9, <2>10, <2>11, <2>12 DEF Sent
  <2> QED BY <2>13
<1> QED BY <1>4, <1>5, <1>6, <1>7

(* What a change of a key does to the entries, and to what is remembered.    *)
Alters(k, e) ==
  /\ k \in RdbNames /\ e \in {"written", "deleted", "created"}
  /\ e = "created" <=> k \notin DOMAIN rdb
  /\ DOMAIN rdb' = IF e = "deleted" THEN DOMAIN rdb \ {k} ELSE DOMAIN rdb \cup {k}
  /\ \A x \in DOMAIN rdb' : rdb'[x] \in [type : ValueTypes, n : 0 .. MaxRdbActs + 1]
  /\ \A x \in DOMAIN rdb' : x # k => rdb'[x] = rdb[x]
  /\ e = "written" => rdb'[k].type = rdb[k].type
  /\ rdbchanges' = rdbchanges + 1 /\ rdbchanges <= MaxRdbActs
  /\ down' = down \o Events(k, e)
  /\ unheard' = (unheard \/ (e # "written" /\ listing = "told"))
  /\ remade' = (remade \/ (e = "deleted" /\ k = selectedItem))
  /\ late' = (late \/ (k = selectedItem /\ k \notin watched /\ ~ WillRead))

LEMMA ChangeAlters ==
  ASSUME RdbViewInv, NEW k \in RdbNames, rdbchanges <= MaxRdbActs, NEW t \in ValueTypes,
         RdbWriteValueDirect(k) \/ RdbDeleteValueDirect(k) \/ RdbCreateValueDirect(k, t)
  PROVE  \E e : Alters(k, e)
<1>1. /\ DOMAIN rdb \subseteq RdbNames /\ rdbchanges + 1 \in 0 .. MaxRdbActs + 1
      /\ \A x \in DOMAIN rdb : rdb[x] \in [type : ValueTypes, n : 0 .. MaxRdbActs + 1]
  BY RdbNamesAssumption DEF RdbViewInv, RdbViewTypeOK
<1>2. CASE RdbWriteValueDirect(k)
  <2> DEFINE f == [rdb EXCEPT ![k].n = rdbchanges + 1]
  <2>1. k \in DOMAIN rdb /\ Changed(k, "written", f)
    BY <1>2 DEF RdbWriteValueDirect
  <2>2. DOMAIN f = DOMAIN rdb /\ \A x \in DOMAIN rdb : x # k => f[x] = rdb[x]
    OBVIOUS
  <2>3. f[k] = [rdb[k] EXCEPT !.n = rdbchanges + 1]
    BY <2>1
  <2>4. f[k] \in [type : ValueTypes, n : 0 .. MaxRdbActs + 1] /\ f[k].type = rdb[k].type
    BY <1>1, <2>1, <2>3
  <2> HIDE DEF f
  <2>5. rdb' = f
    BY <2>1 DEF Changed
  <2>6. DOMAIN rdb' = DOMAIN rdb \cup {k}
    BY <2>1, <2>2, <2>5
  <2>7. Alters(k, "written")
    BY <1>1, <2>1, <2>2, <2>4, <2>5, <2>6 DEF Alters, Changed
  <2> QED BY <2>7
<1>3. CASE RdbDeleteValueDirect(k)
  <2>1. k \in DOMAIN rdb /\ Changed(k, "deleted", Without(rdb, k))
    BY <1>3 DEF RdbDeleteValueDirect
  <2>2. DOMAIN rdb' = DOMAIN rdb \ {k} /\ \A x \in DOMAIN rdb' : rdb'[x] = rdb[x]
    BY <2>1 DEF Changed, Without
  <2>3. Alters(k, "deleted")
    BY <1>1, <2>1, <2>2 DEF Alters, Changed
  <2> QED BY <2>3
<1>4. CASE RdbCreateValueDirect(k, t)
  <2> DEFINE v == [type |-> t, n |-> rdbchanges + 1]
  <2>1. k \notin DOMAIN rdb /\ Changed(k, "created", With(rdb, k, v))
    BY <1>4 DEF RdbCreateValueDirect
  <2>2. v \in [type : ValueTypes, n : 0 .. MaxRdbActs + 1]
    BY <1>1
  <2> HIDE DEF v
  <2>3. DOMAIN rdb' = DOMAIN rdb \cup {k} /\ \A x \in DOMAIN rdb' : rdb'[x] = IF x = k THEN v ELSE rdb[x]
    BY <2>1 DEF Changed, With
  <2>4. Alters(k, "created")
    BY <1>1, <2>1, <2>2, <2>3 DEF Alters, Changed
  <2> QED BY <2>4
<1> QED BY <1>2, <1>3, <1>4

(* A change keeps the invariant, whoever made it: if it is of the key        *)
(* selected and will be read no more, then the page has its callback.        *)
LEMMA AltersKeeps ==
  ASSUME RdbViewInv, NEW k, NEW e, Alters(k, e), NEW R, Moved(up, up', R, {}), \A m \in R : m.what = "change",
         Never(up', {"change"}, "change"), None(up', "change") \/ rdbchanges' <= MaxRdbActs,
         listing = "kept" \/ \A i \in DOMAIN up : i \in DOMAIN up' /\ up'[i] = up[i],
         UNCHANGED <<watched, listing, page_k>>
  PROVE  RdbViewInv'
<1>1. PICK B : Sent(k, e, B)
  BY EventsSent DEF Alters
<1>2. UNCHANGED <<watched, listing, rdbKeys, selectedItem, type, value, last_resolve, watches, choices, misread, thrown>>
  BY DEF page_k
<1>3. Flow(R, {}, {}, B)
  BY <1>1 DEF Flow, Sent
<1>4. /\ \A w : w \notin {"change", "changed", "created", "deleted"} => Free(R, {}, {}, B, w)
      /\ \A w : NoneOf({}, w) /\ (w # "change" => NoneOf(R, w))
      /\ \A w : w \notin {"changed", "created", "deleted"} => NoneOf(B, w)
      /\ listing # "kept" => NoneOf(B, "created") /\ NoneOf(B, "deleted")
      /\ e = "written" => NoneOf(B, "created") /\ NoneOf(B, "deleted")
  <2>1. \A m \in B : /\ m.what \in {"changed", "created", "deleted"}
                     /\ m.what # "changed" => listing = "kept" /\ e # "written"
    BY <1>1 DEF Sent
  <2> QED BY <2>1 DEF Free, NoneOf
<1>5. RdbViewTypeOK'
  <2>1. DOMAIN rdb' \subseteq RdbNames
    BY DEF RdbViewInv, RdbViewTypeOK, Alters
  <2>2. rdbchanges' \in 0 .. MaxRdbActs + 1
    BY RdbNamesAssumption DEF RdbViewInv, RdbViewTypeOK, Alters
  <2>3. {last_resolve', misread', unheard', remade', late', thrown'} \subseteq BOOLEAN
    <3>1. {last_resolve', misread', thrown'} \subseteq BOOLEAN
      BY <1>2 DEF RdbViewInv, RdbViewTypeOK
    <3>2. unheard' \in BOOLEAN /\ remade' \in BOOLEAN /\ late' \in BOOLEAN
      BY DEF Alters
    <3> QED BY <3>1, <3>2
  <2>4. \A x \in DOMAIN rdb' : rdb'[x] \in [type : ValueTypes, n : 0 .. MaxRdbActs + 1]
    BY DEF Alters
  <2> QED BY <1>2, <2>1, <2>2, <2>3, <2>4 DEF RdbViewInv, RdbViewTypeOK
<1>6. RdbMessages'
  <2>1. \A m \in B : RdbAnswer(m)
    BY <1>1 DEF Sent, RdbAnswer, OnTheirWay, Alters
  <2>2. \A x \in DOMAIN watches' : watches'[x] \in ValueTypes \cup {NoType}
    BY <1>2 DEF RdbViewInv, RdbMessages
  <2> QED BY <1>3, <2>1, <2>2, MessagesKept DEF RdbViewInv
<1>7. OneChange'
  BY DEF OneChange
<1>8. Asked'
  <2>1. CASE listing # "kept"
    <3>1. Asked /\ \A w \in {"keys", "keep"} : NoneOf(R, w) /\ NoneOf({}, w)
      BY <1>4 DEF RdbViewInv
    <3>2. /\ NoneOf({}, "keys") /\ NoneOf(B, "keys")
          /\ \A w \in {"created", "deleted"} : NoneOf({}, w) /\ NoneOf(B, w)
      BY <1>4, <2>1
    <3> QED BY <1>2, <1>3, <2>1, <3>1, <3>2, AskedKept
  <2>2. CASE listing = "kept"
    <3>1. /\ Never(up, {"keys"}, "keys") /\ Never(up, {"keep"}, "keep")
          /\ Never(down, {"keys", "created", "deleted"}, "keys")
          /\ None(up, "keys") /\ None(up, "keep")
      BY <2>2 DEF RdbViewInv, Asked
    <3>2. SameKind(up, up', "keys") /\ SameKind(up, up', "keep")
      BY <1>3, <1>4 DEF Flow, Moved
    <3>3. None(up', "keys") /\ None(up', "keep")
      BY <3>1, <3>2 DEF SameKind
    <3>4. Never(up', {"keys"}, "keys") /\ Never(up', {"keep"}, "keep")
      BY <3>3 DEF Never, Behind, None
    <3>5. Never(down', {"keys", "created", "deleted"}, "keys")
      BY <1>1, <3>1 DEF Sent
    <3> QED BY <1>2, <2>2, <3>3, <3>4, <3>5 DEF Asked
  <2> QED BY <2>1, <2>2
<1>9. KeysTold'
  <2>1. CASE e = "written"
    <3>1. \A w \in {"keys", "created", "deleted"} : NoneOf({}, w) /\ NoneOf(B, w)
      BY <1>4, <2>1
    <3>2. DOMAIN rdb' = DOMAIN rdb /\ (unheard => unheard')
      BY <2>1 DEF Alters
    <3> QED BY <1>2, <1>3, <3>1, <3>2, KeysKept DEF RdbViewInv
  <2>2. CASE e # "written"
    <3> SUFFICES ASSUME listing # "untold", ~ unheard', NEW x \in RdbNames
                 PROVE  /\ \A i \in DOMAIN down' : LastOf(down', i, {"created", "deleted"}, x) =>
                                                     (down'[i].what = "created" <=> x \in DOMAIN rdb')
                        /\ Silent(down', {"created", "deleted"}, x) =>
                             /\ \A i \in DOMAIN down' : down'[i].what = "keys" => (x \in down'[i].keys <=> x \in DOMAIN rdb')
                             /\ None(down', "keys") => (x \in rdbKeys <=> x \in DOMAIN rdb')
      BY <1>2 DEF KeysTold
    <3>1. listing = "kept" /\ ~ unheard
      BY <2>2 DEF Alters, RdbViewInv, RdbViewTypeOK
    <3>2. CASE x = k
      <4>1. /\ ~ Silent(down', {"created", "deleted"}, k)
            /\ \A i \in DOMAIN down' : LastOf(down', i, {"created", "deleted"}, k) => down'[i].what = e
        BY <1>1, <2>2, <3>1 DEF Sent
      <4>2. e = "created" <=> k \in DOMAIN rdb'
        BY <2>2 DEF Alters
      <4> QED BY <3>2, <4>1, <4>2
    <3>3. CASE x # k
      <4>1. SameWord(down, down', {"created", "deleted"}, x)
        <5>1. \A m \in {} \cup B : ~ IsAbout(m, {"created", "deleted"}, x)
          BY <1>1, <3>3 DEF Sent, IsAbout
        <5> QED BY <1>3, <5>1 DEF Flow, Moved
      <4>2. SameKind(down, down', "keys")
        <5>1. NoneOf({}, "keys") /\ NoneOf(B, "keys")
          BY <1>4
        <5> QED BY <1>3, <5>1 DEF Flow, Moved
      <4>3. \A i \in DOMAIN down' : down'[i].what = "keys" => \E j \in DOMAIN down : down'[i] = down[j]
        <5>1. SameOrder(down, down', B) /\ NoneOf(B, "keys")
          BY <1>3, <1>4 DEF Flow, Moved
        <5> QED BY <5>1 DEF SameOrder, NoneOf
      <4>4. /\ \A i \in DOMAIN down : LastOf(down, i, {"created", "deleted"}, x) =>
                                        (down[i].what = "created" <=> x \in DOMAIN rdb)
            /\ Silent(down, {"created", "deleted"}, x) =>
                 /\ \A i \in DOMAIN down : down[i].what = "keys" => (x \in down[i].keys <=> x \in DOMAIN rdb)
                 /\ None(down, "keys") => (x \in rdbKeys <=> x \in DOMAIN rdb)
        BY <3>1 DEF RdbViewInv, KeysTold
      <4>5. x \in DOMAIN rdb' <=> x \in DOMAIN rdb
        BY <3>3 DEF Alters
      <4>6. \A i \in DOMAIN down' : LastOf(down', i, {"created", "deleted"}, x) =>
                                      (down'[i].what = "created" <=> x \in DOMAIN rdb')
        BY <4>1, <4>4, <4>5 DEF SameWord
      <4>7. /\ Silent(down', {"created", "deleted"}, x) <=> Silent(down, {"created", "deleted"}, x)
            /\ None(down', "keys") <=> None(down, "keys")
        BY <4>1, <4>2 DEF SameWord, SameKind
      <4> QED BY <4>3, <4>4, <4>5, <4>6, <4>7
    <3> QED BY <3>2, <3>3
  <2> QED BY <2>1, <2>2
<1>10. Free(R, {}, {}, B, "meta") /\ Free(R, {}, {}, B, "watch") /\ Free(R, {}, {}, B, "read")
  BY <1>4
<1>11. SubscriptionsFollow' /\ WatchesFollow' /\ MetaBehind'
  <2>1. \A w \in Subs : NoneOf(R, w) /\ NoneOf({}, w)
    BY <1>4 DEF Subs
  <2> QED BY <1>2, <1>3, <1>10, <2>1, SelectionKept
<1>12. NoMeta' <=> NoMeta
  BY <1>3, <1>10, NoMetaKept
<1>13. LastFrom(up, up', "read") /\ (None(up', "read") <=> None(up, "read"))
  BY <1>3, <1>10 DEF Flow, Moved, SameKind, Free
<1>14. ReadBehind' /\ ReadPending'
  <2>1. ReadBehind'
    BY <1>2, <1>3, <1>4, <1>12, <1>13, ReadsKept DEF RdbViewInv
  <2>2. ReadPending'
    BY <1>2, <1>3, <1>10, PendingKept DEF RdbViewInv
  <2> QED BY <2>1, <2>2
<1>15. LastFresh'
  <2>1. CASE k # selectedItem
    <3>1. SameReads(down, down', selectedItem)
      <4>1. \A m \in {} \cup B : m.what # "read" /\ ~ IsAbout(m, {"changed"}, selectedItem)
        BY <1>1, <2>1 DEF Sent, IsAbout
      <4> QED BY <1>3, <4>1 DEF Flow, Moved
    <3>2. (selectedItem \in DOMAIN rdb' /\ ~ late') =>
            selectedItem \in DOMAIN rdb /\ ~ late /\ rdb'[selectedItem].n = rdb[selectedItem].n
      BY <2>1 DEF Alters
    <3> QED BY <1>2, <1>12, <1>13, <3>1, <3>2, FreshKept DEF RdbViewInv
  <2>2. CASE k = selectedItem
    <3> SUFFICES ASSUME k \in DOMAIN rdb', ~ late', NoMeta, None(up, "read")
                 PROVE  /\ k \in DOMAIN watches /\ BehindOf(down', 0, "changed", k)
                        /\ \A r \in DOMAIN down' : down'[r].what = "read" => BehindOf(down', r, "changed", k)
      BY <1>2, <1>12, <1>13, <2>2 DEF LastFresh, Warned, BehindOf, LastA, None
    <3>1. k \in watched
      <4>1. ~ Flowing({"meta"})
        BY NoMetaFlowing
      <4>2. ~ \E m \in Range(up) : m.what = "read"
        BY DEF None, Range
      <4> QED BY <2>2, <4>1, <4>2 DEF Alters, WillRead
    <3>2. e # "deleted"
      BY DEF Alters
    <3>3. BehindOf(down', 0, "changed", k) /\ \A r \in DOMAIN down' : down'[r].what = "read" => BehindOf(down', r, "changed", k)
      BY <1>1, <3>1, <3>2 DEF Sent
    <3>4. k \in DOMAIN watches
      <4>1. SubscriptionFollows(k)
        BY DEF RdbViewInv, SubscriptionsFollow, Alters
      <4>2. CASE Silent(up, Subs, k)
        BY <3>1, <4>1, <4>2 DEF SubscriptionFollows
      <4>3. CASE ~ Silent(up, Subs, k)
        <5>1. IsList(up)
          BY DEF RdbViewInv, RdbMessages
        <5>2. PICK i \in DOMAIN up : LastOf(up, i, Subs, k)
          BY <4>3, <5>1, LastIs
        <5>3. selectedItem # NoKey
          BY <2>2, RdbNamesAssumption DEF Alters
        <5>4. up[i].what # "unsubscribe"
          BY <5>3 DEF RdbViewInv, ReadBehind, Behind, None
        <5> QED BY <4>1, <5>2, <5>4 DEF SubscriptionFollows, LastOf, IsAbout, Subs
      <4> QED BY <4>2, <4>3
    <3> QED BY <3>3, <3>4
  <2> QED BY <2>1, <2>2
<1>16. LastTyped' /\ LastReadable'
  <2>1. (selectedItem \in DOMAIN rdb /\ ~ remade') =>
          selectedItem \in DOMAIN rdb' /\ rdb'[selectedItem].type = rdb[selectedItem].type
    BY DEF Alters
  <2>2. ~ remade' => ~ remade
    BY DEF Alters
  <2>3. LastTyped'
    BY <1>2, <1>3, <1>10, <2>1, <2>2, TypedKept DEF RdbViewInv
  <2>4. LastReadable'
    BY <1>2, <1>3, <1>10, <1>12, <2>1, <2>2, ReadableKept DEF RdbViewInv
  <2> QED BY <2>3, <2>4
<1>17. LastDecoded'
  BY <1>2, <1>3, <1>10, <1>12, DecodedKept DEF RdbViewInv
<1> QED BY <1>5, <1>6, <1>7, <1>8, <1>9, <1>11, <1>14, <1>15, <1>16, <1>17 DEF RdbViewInv

(* A change by others, and one that the page asked for.                      *)
LEMMA OthersChangeKeeps ==
  ASSUME RdbViewInv, OthersChangeRdb
  PROVE  RdbViewInv'
<1>1. PICK k \in RdbNames : \/ RdbWriteValueDirect(k)
                            \/ RdbDeleteValueDirect(k)
                            \/ \E t \in ValueTypes : RdbCreateValueDirect(k, t)
  BY DEF OthersChangeRdb
<1>2. up' = up /\ UNCHANGED <<watched, listing, page_k>> /\ rdbchanges + choices < MaxRdbActs
  BY DEF OthersChangeRdb
<1>3. rdbchanges \in Nat /\ choices \in Nat /\ MaxRdbActs \in Nat
  BY RdbNamesAssumption DEF RdbViewInv, RdbViewTypeOK
<1>4. rdbchanges <= MaxRdbActs /\ rdbchanges + 1 <= MaxRdbActs
  BY <1>2, <1>3
<1>5. PICK e : Alters(k, e)
  <2>1. CASE \E t \in ValueTypes : RdbCreateValueDirect(k, t)
    BY <1>4, <2>1, ChangeAlters
  <2>2. CASE RdbWriteValueDirect(k) \/ RdbDeleteValueDirect(k)
    <3>1. PICK x \in DOMAIN rdb : TRUE
      BY <2>2 DEF RdbWriteValueDirect, RdbDeleteValueDirect
    <3>2. rdb[x].type \in ValueTypes
      BY DEF RdbViewInv, RdbViewTypeOK
    <3> QED BY <1>4, <2>2, <3>2, ChangeAlters
  <2> QED BY <1>1, <2>1, <2>2
<1>6. Moved(up, up', {}, {}) /\ Never(up', {"change"}, "change") /\ rdbchanges' <= MaxRdbActs
  <2>1. IsList(up)
    BY DEF RdbViewInv, RdbMessages
  <2>2. Moved(up, up', {}, {})
    BY <1>2, <2>1, MovedNot
  <2>3. Never(up', {"change"}, "change")
    BY <1>2 DEF RdbViewInv, OneChange
  <2>4. rdbchanges' <= MaxRdbActs
    BY <1>4, <1>5 DEF Alters
  <2> QED BY <2>2, <2>3, <2>4
<1>7. (\A i \in DOMAIN up : i \in DOMAIN up' /\ up'[i] = up[i]) /\ \A m \in {} : m.what = "change"
  BY <1>2
<1> QED BY <1>2, <1>5, <1>6, <1>7, AltersKeeps

LEMMA ServeChangeKeeps ==
  ASSUME RdbViewInv, ServeChange
  PROVE  RdbViewInv'
<1> DEFINE c == up[1]
<1>1. /\ TookFirst(up, up') /\ RdbCall(c) /\ Head(up) = c /\ 1 \in DOMAIN up /\ c.what = "change"
  BY CallIsTaken DEF ServeChange, Serving
<1>2. /\ CASE c.e = "written" /\ c.k \in DOMAIN rdb /\ c.type = rdb[c.k].type -> RdbWriteValueDirect(c.k)
           [] c.e = "deleted" /\ c.k \in DOMAIN rdb -> RdbDeleteValueDirect(c.k)
           [] c.e = "created" /\ c.k \notin DOMAIN rdb -> RdbCreateValueDirect(c.k, c.type)
           [] OTHER -> UNCHANGED <<rdb, rdbchanges, down, unheard, remade, late>>
      /\ UNCHANGED <<watched, listing, page_k>>
  BY <1>1 DEF ServeChange
<1>3. /\ rdbchanges <= MaxRdbActs /\ listing = "kept"
      /\ c.k \in RdbNames /\ (c.e = "created" => c.type \in ValueTypes)
  <2>1. ~ None(up, "change")
    BY <1>1 DEF None
  <2> QED BY <1>1, <2>1 DEF RdbViewInv, OneChange, RdbViewTypeOK, Asked, RdbCall
<1>4. /\ Moved(up, up', {c}, {}) /\ Never(up', {"change"}, "change") /\ None(up', "change")
  BY <1>1 DEF TookFirst, RdbViewInv, OneChange
<1> HIDE DEF c
<1>5. CASE UNCHANGED <<rdb, rdbchanges, down, unheard, remade, late>>
  <2>1. Flow({c}, {}, {}, {})
    <3>1. IsList(down)
      BY DEF RdbViewInv, RdbMessages
    <3>2. Moved(down, down', {}, {})
      BY <1>5, <3>1, MovedNot
    <3> QED BY <1>4, <3>2 DEF Flow
  <2>2. /\ \A w : w # "change" => Free({c}, {}, {}, {}, w)
        /\ \A w : NoneOf({}, w)
    BY <1>1 DEF Free, NoneOf, c
  <2>3. RdbViewTypeOK'
    BY <1>2, <1>5 DEF RdbViewInv, RdbViewTypeOK, page_k
  <2>4. RdbMessages'
    <3>1. \A k \in DOMAIN watches' : watches'[k] \in ValueTypes \cup {NoType}
      BY <1>2 DEF RdbViewInv, RdbMessages, page_k
    <3> QED BY <2>1, <3>1, MessagesKept DEF RdbViewInv
  <2>5. OneChange'
    BY <1>4 DEF OneChange
  <2>6. Asked'
    <3>1. /\ \A w \in {"keys", "keep"} : NoneOf({c}, w) /\ NoneOf({}, w)
          /\ \A w \in {"created", "deleted"} : NoneOf({}, w)
          /\ NoneOf({}, "keys")
      BY <2>2 DEF Free
    <3>2. listing' = listing
      BY <1>2
    <3> QED BY <1>3, <2>1, <3>1, <3>2, AskedKept DEF RdbViewInv
  <2>7. KeysTold'
    <3>1. \A w \in {"keys", "created", "deleted"} : NoneOf({}, w)
      BY <2>2
    <3>2. UNCHANGED <<rdb, listing, rdbKeys, unheard>>
      BY <1>2, <1>5 DEF page_k
    <3> QED BY <2>1, <3>1, <3>2, KeysKept DEF RdbViewInv
  <2>8. /\ SubscriptionsFollow' /\ WatchesFollow' /\ MetaBehind' /\ ReadBehind'
        /\ ReadPending' /\ LastFresh' /\ LastTyped' /\ LastDecoded' /\ LastReadable'
    <3>1. \A w \in {"meta", "watch", "read", "changed"} \cup Subs : Free({c}, {}, {}, {}, w)
      BY <2>2 DEF Subs
    <3>2. UNCHANGED <<rdb, watched, selectedItem, type, value, last_resolve, watches, misread, remade, late, thrown>>
      BY <1>2, <1>5 DEF page_k
    <3> QED BY <2>1, <3>1, <3>2, ShownFrame
  <2> QED BY <2>3, <2>4, <2>5, <2>6, <2>7, <2>8 DEF RdbViewInv
<1>6. ASSUME NEW e, Alters(c.k, e) PROVE RdbViewInv'
  <2>1. \A m \in {c} : m.what = "change"
    BY <1>1 DEF c
  <2> QED BY <1>2, <1>3, <1>4, <1>6, <2>1, AltersKeeps
<1>7. CASE RdbWriteValueDirect(c.k) \/ RdbDeleteValueDirect(c.k)
  <2>1. PICK x \in DOMAIN rdb : TRUE
    BY <1>7 DEF RdbWriteValueDirect, RdbDeleteValueDirect
  <2>2. rdb[x].type \in ValueTypes
    BY DEF RdbViewInv, RdbViewTypeOK
  <2>3. \E e : Alters(c.k, e)
    BY <1>3, <1>7, <2>2, ChangeAlters
  <2> QED BY <1>6, <2>3
<1>8. CASE c.e = "created" /\ RdbCreateValueDirect(c.k, c.type)
  <2>1. \E e : Alters(c.k, e)
    BY <1>3, <1>8, ChangeAlters
  <2> QED BY <1>6, <2>1
<1> QED BY <1>2, <1>5, <1>7, <1>8

(* Another key is selected, or none: what was selected is no longer watched, *)
(* and the metadata of what is now is asked for behind all other calls.      *)
Reselected(A) ==
  /\ Moved(up, up', {}, A) /\ \A i \in DOMAIN up : i \in DOMAIN up' /\ up'[i] = up[i]
  /\ \A m \in A : RdbCall(m) /\ m.what \in {"watch", "meta", "change"} /\ (m.what = "watch" => m.k = selectedItem)
  /\ selectedItem # NoKey => /\ ~ Silent(up', {"watch"}, selectedItem)
                             /\ \A i \in DOMAIN up' : LastOf(up', i, {"watch"}, selectedItem) => ~ up'[i].on
  /\ selectedItem' # NoKey => /\ ~ None(up', "meta")
                              /\ \A i \in DOMAIN up' : LastA(up', i, "meta") => up'[i].k = selectedItem'
                              /\ \A i \in DOMAIN up' : up'[i].what = "watch" => Behind(up', i, "meta")

LEMMA ReselectedKeeps ==
  ASSUME RdbViewInv, NEW A, Reselected(A), OneChange',
         selectedItem' # selectedItem, selectedItem' \in RdbNames \cup {NoKey}, choices' \in 0 .. MaxRdbActs,
         remade' \in BOOLEAN, late' \in BOOLEAN, misread' \in BOOLEAN,
         (selectedItem' # NoKey /\ ~ remade') => selectedItem' \in DOMAIN rdb,
         UNCHANGED <<down, rdb, rdbchanges, watched, listing, unheard, rdbKeys, type, value, last_resolve, watches, thrown>>
  PROVE  RdbViewInv'
<1>1. Flow({}, A, {}, {})
  <2>1. IsList(down)
    BY DEF RdbViewInv, RdbMessages
  <2>2. Moved(down, down', {}, {})
    BY <2>1, MovedNot
  <2> QED BY <2>2 DEF Flow, Reselected
<1>2. /\ \A w : w \notin {"watch", "meta", "change"} => Free({}, A, {}, {}, w) /\ NoneOf(A, w)
      /\ \A w : NoneOf({}, w)
  BY DEF Free, NoneOf, Reselected
<1>3. NoKey \notin DOMAIN rdb
  BY RdbNamesAssumption DEF RdbViewInv, RdbViewTypeOK
<1>4. RdbViewTypeOK'
  BY DEF RdbViewInv, RdbViewTypeOK
<1>5. RdbMessages'
  <2>1. \A m \in A : RdbCall(m)
    BY DEF Reselected
  <2>2. \A k \in DOMAIN watches' : watches'[k] \in ValueTypes \cup {NoType}
    BY DEF RdbViewInv, RdbMessages
  <2> QED BY <1>1, <2>1, <2>2, MessagesKept DEF RdbViewInv
<1>6. Asked'
  <2>1. \A w \in {"keys", "keep"} : NoneOf({}, w) /\ NoneOf(A, w)
    BY <1>2
  <2>2. NoneOf({}, "keys") /\ \A w \in {"created", "deleted"} : NoneOf({}, w)
    BY <1>2
  <2>3. \A i \in DOMAIN up : i \in DOMAIN up' /\ up'[i] = up[i]
    BY DEF Reselected
  <2> QED BY <1>1, <2>1, <2>2, <2>3, AskedKept DEF RdbViewInv
<1>7. KeysTold'
  <2>1. \A w \in {"keys", "created", "deleted"} : NoneOf({}, w)
    BY <1>2
  <2> QED BY <1>1, <2>1, KeysKept DEF RdbViewInv
<1>8. SubscriptionsFollow'
  <2> SUFFICES ASSUME NEW k \in RdbNames \cup {NoKey} PROVE SubscriptionFollows(k)'
    BY DEF SubscriptionsFollow
  <2>1. SubscriptionFollows(k) /\ NotAbout({}, Subs, k) /\ NotAbout(A, Subs, k)
    BY DEF RdbViewInv, SubscriptionsFollow, NotAbout, IsAbout, Subs, Reselected
  <2> QED BY <1>1, <2>1, SubscriptionKept
<1>9. WatchesFollow'
  <2> SUFFICES ASSUME NEW k \in RdbNames PROVE WatchFollows(k)'
    BY DEF WatchesFollow
  <2>1. WatchFollows(k) /\ k # NoKey
    BY RdbNamesAssumption DEF RdbViewInv, WatchesFollow
  <2>2. (k = selectedItem /\ NoMeta)' => FALSE
    BY <2>1 DEF NoMeta, Reselected
  <2>3. \A on : ~ on => WatchRight(k, on)'
    BY <2>2 DEF WatchRight
  <2>4. CASE k # selectedItem
    <3>1. /\ NotAbout({}, {"watch"}, k) /\ NotAbout(A, {"watch"}, k)
      BY <2>4 DEF NotAbout, IsAbout, Reselected
    <3>2. \A on : WatchRight(k, on) => WatchRight(k, on)'
      BY <2>3, <2>4 DEF WatchRight
    <3> QED BY <1>1, <2>1, <3>1, <3>2, WatchKept
  <2>5. CASE k = selectedItem
    <3>1. /\ ~ Silent(up', {"watch"}, k)
          /\ \A i \in DOMAIN up' : LastOf(up', i, {"watch"}, k) => ~ up'[i].on
      BY <2>1, <2>5 DEF Reselected
    <3>2. \A i \in DOMAIN up' : LastOf(up', i, {"watch"}, k) => WatchRight(k, up[i].on)'
      BY <2>3, <3>1
    <3> QED BY <3>1, <3>2 DEF WatchFollows, Silent, LastOf, IsAbout
  <2> QED BY <2>4, <2>5
<1>10. MetaBehind'
  BY DEF MetaBehind, OfOther, Reselected
<1>11. ReadPending'
  <2>1. Free({}, A, {}, {}, "read")
    BY <1>2
  <2> QED BY <1>1, <2>1, PendingKept DEF RdbViewInv
<1>12. ReadBehind' /\ LastFresh' /\ LastDecoded' /\ LastReadable'
  <2>1. ~ (selectedItem' # NoKey /\ NoMeta')
    BY DEF NoMeta, Reselected
  <2> QED BY <1>3, <2>1 DEF ReadBehind, LastFresh, LastDecoded, LastReadable
<1>13. LastTyped'
  BY DEF LastTyped, LastA, None, Reselected
<1> QED BY <1>4, <1>5, <1>6, <1>7, <1>8, <1>9, <1>10, <1>11, <1>12, <1>13 DEF RdbViewInv

(* What stays when neither is asked for.                                     *)
LEMMA OneChangeAs ==
  ASSUME RdbViewInv, NEW A, Moved(up, up', {}, A), NoneOf(A, "change"), rdbchanges' = rdbchanges
  PROVE  OneChange'
<1>1. Never(up', {"change"}, "change")
  <2>1. Never(up, {"change"}, "change") /\ \A m \in A : m.what # "change" /\ m.what \notin {"change"}
    BY DEF RdbViewInv, OneChange, NoneOf
  <2> QED BY <2>1 DEF Moved
<1>2. None(up', "change") <=> None(up, "change")
  <2>1. NoneOf({}, "change")
    BY DEF NoneOf
  <2> QED BY <2>1 DEF Moved, SameKind
<1> QED BY <1>1, <1>2 DEF RdbViewInv, OneChange

LEMMA SelectKeeps ==
  ASSUME RdbViewInv, NEW k \in RdbNames \cup {NoKey}, SelectKey(k)
  PROVE  RdbViewInv'
<1> DEFINE a == UnwatchFor(selectedItem)
           b == [what |-> "meta", k |-> k]
<1>a. /\ a.what = "watch" /\ a.k = selectedItem /\ a.on = FALSE /\ a.type = NoType /\ "event" \notin DOMAIN a
      /\ b.what = "meta" /\ b.k = k /\ "event" \notin DOMAIN b
  BY DEF UnwatchFor
<1>1. /\ k # selectedItem /\ selectedItem' = k /\ choices' = choices + 1 /\ rdbchanges + choices < MaxRdbActs
      /\ remade' = (k \notin DOMAIN rdb) /\ late' = FALSE /\ misread' = FALSE
      /\ Ask((IF selectedItem # NoKey THEN <<a>> ELSE <<>>) \o (IF k # NoKey THEN <<b>> ELSE <<>>))
      /\ UNCHANGED <<down, rdb, rdbchanges, watched, listing, unheard, rdbKeys, type, value, last_resolve, watches, thrown>>
  BY DEF SelectKey, Chosen
<1>2. selectedItem \in RdbNames \cup {NoKey} /\ IsList(up) /\ k \in RdbNames \cup {NoKey}
  BY DEF RdbViewInv, RdbViewTypeOK, RdbMessages
<1>3. RdbCall(a) /\ RdbCall(b)
  BY <1>a, <1>2 DEF RdbCall, OnTheirWay
<1> HIDE DEF a, b, IsList
<1>4. \E A : Reselected(A) /\ NoneOf(A, "change")
  <2>1. CASE selectedItem # NoKey /\ k = NoKey
    <3>1. up' = Append(up, a)
      BY <1>1, <1>2, <2>1, InParts DEF Ask
    <3>2. PutLast(up, up', a)
      BY <1>2, <3>1, MovedLast
    <3>3. IsAbout(a, {"watch"}, selectedItem)
      BY <1>a DEF IsAbout
    <3>4. /\ ~ Silent(up', {"watch"}, selectedItem)
          /\ \A i \in DOMAIN up' : LastOf(up', i, {"watch"}, selectedItem) => up'[i] = a
      BY <3>2, <3>3 DEF PutLast
    <3>5. Moved(up, up', {}, {a}) /\ \A i \in DOMAIN up : i \in DOMAIN up' /\ up'[i] = up[i]
      BY <3>2 DEF PutLast
    <3>6. Reselected({a}) /\ NoneOf({a}, "change")
      BY <1>a, <1>1, <1>3, <2>1, <3>4, <3>5 DEF Reselected, NoneOf
    <3> QED BY <3>6
  <2>2. CASE selectedItem = NoKey /\ k # NoKey
    <3>1. up' = Append(up, b)
      BY <1>1, <1>2, <2>2, InParts DEF Ask
    <3>2. PutLast(up, up', b)
      BY <1>2, <3>1, MovedLast
    <3>3. /\ ~ None(up', "meta")
          /\ \A i \in DOMAIN up' : LastA(up', i, "meta") => up'[i] = b
          /\ \A i \in DOMAIN up' : up'[i] # b => Behind(up', i, "meta")
      BY <1>a, <3>2 DEF PutLast
    <3>4. \A i \in DOMAIN up' : up'[i].what = "watch" => Behind(up', i, "meta")
      BY <1>a, <3>3
    <3>5. Moved(up, up', {}, {b}) /\ \A i \in DOMAIN up : i \in DOMAIN up' /\ up'[i] = up[i]
      BY <3>2 DEF PutLast
    <3>6. Reselected({b}) /\ NoneOf({b}, "change")
      BY <1>a, <1>1, <1>3, <2>2, <3>3, <3>4, <3>5 DEF Reselected, NoneOf
    <3> QED BY <3>6
  <2>3. CASE selectedItem # NoKey /\ k # NoKey
    <3> DEFINE u == Append(up, a)
    <3>1. up' = Append(u, b)
      <4>1. Ask(<<a>> \o <<b>>)
        BY <1>1, <2>3
      <4>2. up \o (<<a>> \o <<b>>) = Append(Append(up, a), b)
        BY <1>2, InParts
      <4> QED BY <4>1, <4>2 DEF Ask
    <3>2. PutLast(up, u, a)
      BY <1>2, MovedLast
    <3> HIDE DEF u
    <3>3. PutLast(u, up', b)
      <4>1. IsList(u)
        BY <3>2 DEF PutLast, Moved
      <4> QED BY <3>1, <4>1, MovedLast
    <3>4. Moved(up, up', {}, {a, b})
      <4>1. Moved(up, u, {}, {a}) /\ Moved(u, up', {}, {b})
        BY <3>2, <3>3 DEF PutLast
      <4>2. Moved(up, up', {} \cup {}, {a} \cup {b})
        BY <4>1, MovedTwice
      <4>3. {} \cup {} = {} /\ {a} \cup {b} = {a, b}
        OBVIOUS
      <4> QED BY <4>2, <4>3
    <3>5. /\ \A i \in DOMAIN up : i \in DOMAIN u /\ u[i] = up[i]
          /\ \A i \in DOMAIN u : i \in DOMAIN up' /\ up'[i] = u[i]
      BY <3>2, <3>3 DEF PutLast
    <3>6. /\ ~ None(up', "meta")
          /\ \A i \in DOMAIN up' : LastA(up', i, "meta") => up'[i] = b
          /\ \A i \in DOMAIN up' : up'[i] # b => Behind(up', i, "meta")
      BY <1>a, <3>3 DEF PutLast
    <3>7. /\ ~ Silent(up', {"watch"}, selectedItem)
          /\ \A i \in DOMAIN up' : LastOf(up', i, {"watch"}, selectedItem) => up'[i] = a
      <4>1. IsAbout(a, {"watch"}, selectedItem) /\ ~ IsAbout(b, {"watch"}, selectedItem)
        BY <1>a DEF IsAbout
      <4>2. /\ ~ Silent(u, {"watch"}, selectedItem)
            /\ \A i \in DOMAIN u : LastOf(u, i, {"watch"}, selectedItem) => u[i] = a
        BY <3>2, <4>1 DEF PutLast
      <4>3. SameWord(u, up', {"watch"}, selectedItem)
        BY <3>3, <4>1 DEF PutLast, Moved
      <4> QED BY <4>2, <4>3 DEF SameWord
    <3>8. \A i \in DOMAIN up' : up'[i].what = "watch" => Behind(up', i, "meta")
      BY <1>a, <3>6
    <3>9. \A m \in {a, b} : RdbCall(m) /\ m.what \in {"watch", "meta"} /\ (m.what = "watch" => m.k = selectedItem)
      BY <1>a, <1>3
    <3>10. \A i \in DOMAIN up : i \in DOMAIN up' /\ up'[i] = up[i]
      BY <3>5
    <3>11. Reselected({a, b})
      BY <1>a, <1>1, <2>3, <3>4, <3>6, <3>7, <3>8, <3>9, <3>10 DEF Reselected
    <3>12. NoneOf({a, b}, "change")
      BY <1>a DEF NoneOf
    <3> QED BY <3>11, <3>12
  <2> QED BY <1>1, <2>1, <2>2, <2>3
<1>5. PICK A : Reselected(A) /\ NoneOf(A, "change")
  BY <1>4
<1>6. OneChange'
  BY <1>1, <1>5, OneChangeAs DEF Reselected
<1>7. choices' \in 0 .. MaxRdbActs
  <2>1. rdbchanges \in Nat /\ choices \in Nat /\ MaxRdbActs \in Nat
    BY RdbNamesAssumption DEF RdbViewInv, RdbViewTypeOK
  <2> QED BY <1>1, <2>1
<1> QED BY <1>1, <1>2, <1>5, <1>6, <1>7, ReselectedKeeps

(* The user asks for a change, or clears the selection.                      *)
LEMMA RequestKeeps ==
  ASSUME RdbViewInv, NEW k \in RdbNames, NEW e \in {"written", "deleted", "created"},
         NEW t \in ValueTypes \cup {NoType}, e = "created" => t # NoType, RequestChange(k, e, t)
  PROVE  RdbViewInv'
<1> DEFINE a == [what |-> "change", k |-> k, e |-> e, type |-> t]
           b == UnwatchFor(k)
<1>a. /\ a.what = "change" /\ a.k = k /\ a.e = e /\ a.type = t /\ "event" \notin DOMAIN a
      /\ b.what = "watch" /\ b.k = k /\ b.on = FALSE /\ b.type = NoType /\ "event" \notin DOMAIN b
  BY DEF UnwatchFor
<1>1. /\ rdbchanges + choices < MaxRdbActs /\ ~ Flowing({"change"})
      /\ IF e = "created" THEN k \notin rdbKeys ELSE k = selectedItem
      /\ Ask(<<a>> \o IF e = "deleted" THEN <<b>> ELSE <<>>)
      /\ IF e = "deleted" THEN selectedItem' = NoKey ELSE UNCHANGED selectedItem
      /\ UNCHANGED <<down, server_k, remade, rdbKeys, type, value, last_resolve, watches, choices, misread, thrown>>
  BY DEF RequestChange
<1>2. IsList(up) /\ IsList(down)
  BY DEF RdbViewInv, RdbMessages
<1>3. RdbCall(a) /\ RdbCall(b)
  <2>1. e = "created" => t \in ValueTypes
    OBVIOUS
  <2> HIDE DEF a, b
  <2> QED BY <1>a, <2>1 DEF RdbCall, OnTheirWay
<1> HIDE DEF a, b, IsList
<1>4. PutLast(up, Append(up, a), a)
  BY <1>2, MovedLast
<1>5. \A j \in DOMAIN up : up[j].what \notin {"change"}
  BY <1>1 DEF Flowing, Range
<1>6. Never(Append(up, a), {"change"}, "change")
  BY <1>a, <1>4, <1>5 DEF PutLast
<1>7. rdbchanges' <= MaxRdbActs
  <2>1. rdbchanges \in Nat /\ choices \in Nat /\ MaxRdbActs \in Nat
    BY RdbNamesAssumption DEF RdbViewInv, RdbViewTypeOK
  <2> QED BY <1>1, <2>1 DEF server_k
<1>8. CASE e # "deleted"
  <2>1. up' = Append(up, a)
    BY <1>1, <1>2, <1>8, InParts DEF Ask
  <2>2. /\ Moved(up, up', {}, {a}) /\ Never(up', {"change"}, "change")
        /\ \A i \in DOMAIN up : i \in DOMAIN up' /\ up'[i] = up[i]
    BY <1>4, <1>6, <2>1 DEF PutLast
  <2>3. Flow({}, {a}, {}, {})
    <3>1. Moved(down, down', {}, {})
      BY <1>1, <1>2, MovedNot
    <3> QED BY <2>2, <3>1 DEF Flow
  <2>4. /\ \A w : w # "change" => Free({}, {a}, {}, {}, w) /\ NoneOf({a}, w)
        /\ \A w : NoneOf({}, w)
    BY <1>a DEF Free, NoneOf
  <2>5. UNCHANGED <<rdb, rdbchanges, watched, listing, unheard, late, remade, rdbKeys, selectedItem, type, value,
                    last_resolve, watches, choices, misread, thrown>>
    BY <1>1, <1>8 DEF server_k
  <2>6. RdbViewTypeOK'
    BY <2>5 DEF RdbViewInv, RdbViewTypeOK
  <2>7. RdbMessages'
    <3>1. \A x \in DOMAIN watches' : watches'[x] \in ValueTypes \cup {NoType}
      BY <2>5 DEF RdbViewInv, RdbMessages
    <3>2. \A m \in {a} : RdbCall(m)
      BY <1>3
    <3> QED BY <2>3, <3>1, <3>2, MessagesKept DEF RdbViewInv
  <2>8. OneChange'
    BY <1>7, <2>2 DEF OneChange
  <2>9. Asked'
    <3>1. \A w \in {"keys", "keep"} : NoneOf({}, w) /\ NoneOf({a}, w)
      BY <2>4
    <3>2. NoneOf({}, "keys") /\ \A w \in {"created", "deleted"} : NoneOf({}, w)
      BY <2>4
    <3> QED BY <2>2, <2>3, <2>5, <3>1, <3>2, AskedKept DEF RdbViewInv
  <2>10. KeysTold'
    <3>1. \A w \in {"keys", "created", "deleted"} : NoneOf({}, w)
      BY <2>4
    <3> QED BY <2>3, <2>5, <3>1, KeysKept DEF RdbViewInv
  <2>11. /\ SubscriptionsFollow' /\ WatchesFollow' /\ MetaBehind' /\ ReadBehind'
         /\ ReadPending' /\ LastFresh' /\ LastTyped' /\ LastDecoded' /\ LastReadable'
    <3>1. \A w \in {"meta", "watch", "read", "changed"} \cup Subs : Free({}, {a}, {}, {}, w)
      BY <2>4 DEF Subs
    <3>2. UNCHANGED <<rdb, watched, selectedItem, type, value, last_resolve, watches, misread, remade, late, thrown>>
      BY <2>5
    <3> QED BY <2>3, <3>1, <3>2, ShownFrame
  <2> QED BY <2>6, <2>7, <2>8, <2>9, <2>10, <2>11 DEF RdbViewInv
<1>9. CASE e = "deleted"
  <2> DEFINE u == Append(up, a)
  <2>1. up' = Append(u, b)
    <3>1. Ask(<<a>> \o <<b>>)
      BY <1>1, <1>9
    <3>2. up \o (<<a>> \o <<b>>) = Append(Append(up, a), b)
      BY <1>2, InParts
    <3> QED BY <3>1, <3>2 DEF Ask
  <2>2. PutLast(up, u, a) /\ Never(u, {"change"}, "change")
    BY <1>4, <1>6
  <2> HIDE DEF u
  <2>3. PutLast(u, up', b)
    <3>1. IsList(u)
      BY <2>2 DEF PutLast, Moved
    <3> QED BY <2>1, <3>1, MovedLast
  <2>4. Moved(up, up', {}, {a, b})
    <3>1. Moved(up, u, {}, {a}) /\ Moved(u, up', {}, {b})
      BY <2>2, <2>3 DEF PutLast
    <3>2. Moved(up, up', {} \cup {}, {a} \cup {b})
      BY <3>1, MovedTwice
    <3>3. {} \cup {} = {} /\ {a} \cup {b} = {a, b}
      OBVIOUS
    <3> QED BY <3>2, <3>3
  <2>5. \A i \in DOMAIN up : i \in DOMAIN up' /\ up'[i] = up[i]
    <3>1. /\ \A i \in DOMAIN up : i \in DOMAIN u /\ u[i] = up[i]
          /\ \A i \in DOMAIN u : i \in DOMAIN up' /\ up'[i] = u[i]
      BY <2>2, <2>3 DEF PutLast
    <3> QED BY <3>1
  <2>6. /\ ~ Silent(up', {"watch"}, k)
        /\ \A i \in DOMAIN up' : LastOf(up', i, {"watch"}, k) => ~ up'[i].on
    <3>1. IsAbout(b, {"watch"}, k)
      BY <1>a DEF IsAbout
    <3> QED BY <1>a, <2>3, <3>1 DEF PutLast
  <2>7. OneChange'
    <3>1. Never(up', {"change"}, "change")
      BY <1>a, <2>2, <2>3 DEF PutLast
    <3> QED BY <1>7, <3>1 DEF OneChange
  <2>8. k = selectedItem /\ selectedItem' = NoKey /\ k # NoKey
    BY <1>1, <1>9, RdbNamesAssumption
  <2>9. Reselected({a, b})
    <3>1. \A m \in {a, b} : RdbCall(m) /\ m.what \in {"watch", "meta", "change"} /\ (m.what = "watch" => m.k = selectedItem)
      BY <1>a, <1>3, <2>8
    <3> QED BY <2>4, <2>5, <2>6, <2>8, <3>1 DEF Reselected
  <2>10. /\ choices' \in 0 .. MaxRdbActs /\ remade' \in BOOLEAN /\ late' \in BOOLEAN /\ misread' \in BOOLEAN
    BY <1>1 DEF RdbViewInv, RdbViewTypeOK, server_k
  <2>11. UNCHANGED <<down, rdb, rdbchanges, watched, listing, unheard, rdbKeys, type, value, last_resolve, watches, thrown>>
    BY <1>1 DEF server_k
  <2>12. selectedItem' # selectedItem /\ selectedItem' \in RdbNames \cup {NoKey}
    BY <2>8
  <2> QED BY <2>7, <2>8, <2>9, <2>10, <2>11, <2>12, ReselectedKeeps
<1> QED BY <1>8, <1>9

LEMMA RdbViewStepSound ==
  ASSUME RdbViewInv, RdbNext \/ UNCHANGED <<calls, vars_k>>
  PROVE  RdbViewInv'
<1>1. CASE OthersChangeRdb
  BY <1>1, OthersChangeKeeps
<1>2. CASE ServeChange
  BY <1>2, ServeChangeKeeps
<1>3. CASE ServeKeys
  BY <1>3, ServeKeysKeeps
<1>4. CASE ServeReads
  BY <1>4, ServeReadsKeeps
<1>5. CASE RdbKeysArrive
  BY <1>5, KeysArriveKeeps
<1>6. CASE RdbTypeArrives
  BY <1>6, TypeArrivesKeeps
<1>7. CASE RdbWatchArrives
  BY <1>7, WatchArrivesKeeps
<1>8. CASE ChangeArrives
  BY <1>8, ChangeArrivesKeeps
<1>9. CASE RdbValueArrives
  BY <1>9, ValueArrivesKeeps
<1>10. CASE \E k \in RdbNames \cup {NoKey} : SelectKey(k)
  BY <1>10, SelectKeeps
<1>11. ASSUME NEW k \in RdbNames, NEW e \in {"written", "deleted", "created"}, NEW t \in ValueTypes \cup {NoType},
              e = "created" => t # NoType, RequestChange(k, e, t)
       PROVE  RdbViewInv'
  BY <1>11, RequestKeeps
<1>12. CASE UNCHANGED <<calls, vars_k>>
  <2>1. /\ UNCHANGED <<up, down>>
        /\ UNCHANGED <<rdb, rdbchanges, watched, listing, rdbKeys, selectedItem, type, value, last_resolve, watches,
                       choices, misread, unheard, remade, late, thrown>>
    BY <1>12 DEF calls, vars_k
  <2>2. RdbViewTypeOK' /\ OneChange' /\ Asked' /\ KeysTold'
    <3>1. RdbViewTypeOK' /\ OneChange'
      BY <2>1 DEF RdbViewInv, RdbViewTypeOK, OneChange, Never, Behind, None
    <3>2. Asked'
      BY <2>1 DEF RdbViewInv, Asked, Never, Behind, None
    <3>3. KeysTold'
      BY <2>1 DEF RdbViewInv, KeysTold, LastOf, IsAbout, Silent, None
    <3> QED BY <3>1, <3>2, <3>3
  <2>3. RdbMessages'
    BY <2>1 DEF RdbViewInv, RdbMessages, RdbCall, RdbAnswer, OnTheirWay, IsList
  <2>4. /\ SubscriptionsFollow' /\ WatchesFollow' /\ MetaBehind' /\ ReadBehind'
        /\ ReadPending' /\ LastFresh' /\ LastTyped' /\ LastDecoded' /\ LastReadable'
    <3>1. IsList(up) /\ IsList(down)
      BY DEF RdbViewInv, RdbMessages
    <3>2. Flow({}, {}, {}, {})
      BY <2>1, <3>1, MovedNot DEF Flow
    <3>3. \A w \in {"meta", "watch", "read", "changed"} \cup Subs : Free({}, {}, {}, {}, w)
      BY DEF Free, NoneOf
    <3> QED BY <2>1, <3>2, <3>3, ShownFrame
  <2> QED BY <2>2, <2>3, <2>4 DEF RdbViewInv
<1> QED BY <1>1, <1>2, <1>3, <1>4, <1>5, <1>6, <1>7, <1>8, <1>9, <1>10, <1>11, <1>12 DEF RdbNext

(* The page is shown anew: it shows nothing and asks for the list of keys.   *)
LEMMA RdbViewInitSound ==
  ASSUME RdbInit, up = RdbCalls, down = <<>>
  PROVE  RdbViewInv
<1>1. /\ IsList(up) /\ DOMAIN up = {1, 2} /\ up[1].what = "keys" /\ up[2].what = "keep"
      /\ "event" \notin DOMAIN up[1] /\ "event" \notin DOMAIN up[2]
  <2>1. [what |-> "keys"].what = "keys" /\ [what |-> "keep"].what = "keep"
    OBVIOUS
  <2>2. up \in Seq({[what |-> "keys"], [what |-> "keep"]}) /\ Len(up) = 2
    BY DEF RdbCalls
  <2>3. IsList(up)
    BY <2>2, ListedIs
  <2>4. DOMAIN up = {1, 2}
    BY DEF RdbCalls
  <2> QED BY <2>3, <2>4 DEF RdbCalls
<1>2. IsList(down) /\ \A i : i \notin DOMAIN down
  BY NoMessages
<1> HIDE DEF IsList
<1>3. /\ DOMAIN rdb = RdbNames /\ \A k \in RdbNames : rdb[k] \in [type : ValueTypes, n : {0}]
      /\ DOMAIN watches = {}
  BY DEF RdbInit
<1>4. RdbViewTypeOK
  <2>1. value.k = NoKey /\ value.as = NoType
    BY DEF RdbInit, ShownAs
  <2>2. 0 \in 0 .. MaxRdbActs /\ 0 \in 0 .. MaxRdbActs + 1
    BY RdbNamesAssumption
  <2>3. \A k \in DOMAIN rdb : rdb[k] \in [type : ValueTypes, n : 0 .. MaxRdbActs + 1]
    BY <1>3, <2>2
  <2> QED BY <1>3, <2>1, <2>2, <2>3 DEF RdbInit, RdbViewTypeOK
<1>5. RdbMessages
  BY <1>1, <1>2, <1>3 DEF RdbMessages, RdbCall, OnTheirWay
<1>6. \A w : w \notin {"keys", "keep"} => None(up, w)
  BY <1>1 DEF None
<1>7. \A w : None(down, w)
  BY <1>2 DEF None
<1>8. OneChange /\ Asked
  <2>1. /\ Never(up, {"change"}, "change") /\ Never(up, {"keys"}, "keys") /\ Never(up, {"keep"}, "keep")
        /\ Never(down, {"keys", "created", "deleted"}, "keys")
    BY <1>1, <1>2 DEF Never, Behind
  <2>2. None(up, "change")
    BY <1>6
  <2> QED BY <1>1, <1>7, <2>1, <2>2 DEF OneChange, Asked, RdbInit
<1>9. KeysTold
  BY DEF KeysTold, RdbInit
<1>10. SubscriptionsFollow
  BY <1>1, <1>3 DEF SubscriptionsFollow, SubscriptionFollows, LastOf, IsAbout, Subs, RdbInit
<1>11. WatchesFollow
  BY <1>1, <1>2, <1>3, RdbNamesAssumption DEF WatchesFollow, WatchFollows, WatchRight, LastOf, IsAbout, RdbInit
<1>12. MetaBehind /\ ReadBehind /\ ReadPending /\ LastTyped /\ LastDecoded /\ LastReadable
  BY DEF MetaBehind, ReadBehind, ReadPending, LastTyped, LastDecoded, LastReadable, RdbInit
<1>13. LastFresh
  BY <1>3, RdbNamesAssumption DEF LastFresh, RdbInit
<1> QED BY <1>4, <1>5, <1>8, <1>9, <1>10, <1>11, <1>12, <1>13 DEF RdbViewInv

(* When nothing is under way the invariant is what the page promises.        *)
LEMMA RdbViewImplies ==
  ASSUME RdbViewInv
  PROVE  KeysRight /\ ValueFresh /\ ValueReadable /\ TypeShown /\ SelectedWatched
<1> SUFFICES ASSUME up = <<>>, down = <<>>
             PROVE  KeysRight /\ ValueFresh /\ ValueReadable /\ TypeShown /\ SelectedWatched
  BY DEF KeysRight, ValueFresh, ValueReadable, TypeShown, SelectedWatched, Settled, Quiet
<1>1. (\A i : i \notin DOMAIN up) /\ \A i : i \notin DOMAIN down
  BY NoMessages
<1>2. /\ \A w : None(up, w) /\ None(down, w)
      /\ \A W, k : Silent(up, W, k) /\ Silent(down, W, k)
      /\ ~ Warned(0) /\ NoMeta
  BY <1>1 DEF None, Silent, Warned, BehindOf, NoMeta
<1>3. /\ listing # "untold"
      /\ rdbKeys \subseteq RdbNames /\ DOMAIN rdb \subseteq RdbNames
      /\ watched \subseteq RdbNames \cup {NoKey} /\ DOMAIN watches \subseteq RdbNames \cup {NoKey}
      /\ selectedItem \in RdbNames \cup {NoKey}
  BY <1>1 DEF RdbViewInv, Asked, RdbViewTypeOK
<1>4. KeysRight
  BY <1>2, <1>3 DEF RdbViewInv, KeysTold, KeysRight
<1>5. ValueFresh
  BY <1>2 DEF RdbViewInv, ReadPending, LastFresh, Fresh, ValueFresh
<1>6. ValueReadable /\ TypeShown
  <2>1. ValueReadable
    BY <1>2 DEF RdbViewInv, LastReadable, ValueReadable
  <2>2. TypeShown
    BY <1>2 DEF RdbViewInv, LastTyped, LastDecoded, LastReadable, TypeShown
  <2> QED BY <2>1, <2>2
<1>7. SelectedWatched
  <2>1. ASSUME NEW k \in RdbNames PROVE k \in watched <=> k = selectedItem
    <3>1. k \in watched <=> k \in DOMAIN watches
      BY <1>2 DEF RdbViewInv, SubscriptionsFollow, SubscriptionFollows
    <3>2. WatchRight(k, k \in DOMAIN watches)
      BY <1>2 DEF RdbViewInv, WatchesFollow, WatchFollows
    <3> QED BY <1>2, <3>1, <3>2 DEF WatchRight
  <2> QED BY <1>3, <2>1, RdbNamesAssumption DEF SelectedWatched
<1> QED BY <1>4, <1>5, <1>6, <1>7
==============================================================================
