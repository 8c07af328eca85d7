--------------------------- MODULE RdbPool_proofs ---------------------------
(***************************************************************************)
(* The blocks of the RDB pool never overlap and never leave the pool, for  *)
(* every set of keys and values, every header size, alignment and bound;   *)
(* and the pool implements the key-value store of RdbStore.                *)
(***************************************************************************)
EXTENDS RdbPool, TLAPS, SequenceTheorems, WellFoundedInduction

(* Rounding a size up to the alignment never makes it smaller.             *)
LEMMA AlignUpBound ==
  ASSUME NEW n \in Nat
  PROVE  AlignUp(n) \in Nat /\ AlignUp(n) >= n
<1> DEFINE q == n \div Align
<1>1. q \in Int /\ n = Align * q + (n % Align)
  BY PoolAssumption
<1>2. (n % Align) \in 0 .. Align - 1
  BY PoolAssumption
<1>3. q \in Nat
  BY PoolAssumption
<1>4. Align * (q + 1) = Align * q + Align /\ Align * q \in Nat
  BY <1>1, <1>3, PoolAssumption
<1>5. QED
  BY <1>1, <1>2, <1>4, PoolAssumption DEF AlignUp

(* The first of the fitting free blocks exists when there is one.          *)
LEMMA MinOfNats ==
  ASSUME NEW S, S \subseteq Nat, S # {}
  PROVE  Min(S) \in S /\ \A t \in S : Min(S) <= t
<1>1. PICK m \in S : \A t \in S : ~ (<<t, m>> \in OpToRel(<, Nat))
  BY NatLessThanWellFounded, WFMin
<1>2. \A t \in S : m <= t
  <2> SUFFICES ASSUME NEW t \in S, ~ (m <= t)
               PROVE  FALSE
    OBVIOUS
  <2>1. t \in Nat /\ m \in Nat /\ t < m
    OBVIOUS
  <2>2. <<t, m>> \in OpToRel(<, Nat)
    BY <2>1 DEF OpToRel
  <2> QED
    BY <1>1, <2>2
<1>3. QED
  BY <1>2 DEF Min

(* Erasing element i of a list shifts the later ones down by one.          *)
LEMMA RemoveAtProperties ==
  ASSUME NEW S, NEW s \in Seq(S), NEW i \in 1 .. Len(s)
  PROVE  /\ RemoveAt(s, i) \in Seq(S)
         /\ Len(RemoveAt(s, i)) = Len(s) - 1
         /\ \A j \in 1 .. Len(s) - 1 :
              RemoveAt(s, i)[j] = IF j < i THEN s[j] ELSE s[j + 1]
<1> DEFINE a == SubSeq(s, 1, i - 1)
           b == SubSeq(s, i + 1, Len(s))
<1>1. /\ a \in Seq(S) /\ Len(a) = i - 1
      /\ \A j \in 1 .. i - 1 : a[j] = s[j]
  BY SubSeqProperties
<1>2. /\ b \in Seq(S) /\ Len(b) = Len(s) - i
      /\ \A j \in 1 .. Len(s) - i : b[j] = s[i + j]
  BY SubSeqProperties
<1> HIDE DEF a, b
<1>3. /\ a \o b \in Seq(S)
      /\ Len(a \o b) = Len(a) + Len(b)
      /\ \A j \in 1 .. Len(a) + Len(b) :
           (a \o b)[j] = IF j <= Len(a) THEN a[j] ELSE b[j - Len(a)]
  BY <1>1, <1>2, ConcatProperties
<1>4. RemoveAt(s, i) = a \o b
  BY DEF RemoveAt, a, b
<1>5. Len(s) \in Nat /\ Len(a) + Len(b) = Len(s) - 1
  BY <1>1, <1>2
<1>6. ASSUME NEW j \in 1 .. Len(s) - 1
      PROVE  (a \o b)[j] = IF j < i THEN s[j] ELSE s[j + 1]
  <2>1. CASE j < i
    BY <1>1, <1>3, <1>5, <2>1
  <2>2. CASE ~ (j < i)
    <3>1. (a \o b)[j] = b[j - (i - 1)] /\ j - (i - 1) \in 1 .. Len(s) - i
      BY <1>1, <1>3, <1>5, <2>2
    <3>2. i + (j - (i - 1)) = j + 1
      BY <1>5
    <3> QED
      BY <1>2, <2>2, <3>1, <3>2
  <2> QED
    BY <2>1, <2>2
<1>7. QED
  BY <1>3, <1>4, <1>5, <1>6

------------------------------------------------------------------------------
(* Placing an entry writes its block and nothing else.                     *)
LEMMA PlacedCells ==
  ASSUME NEW sz \in Nat, NEW m \in [0 .. sz - 1 -> Nat], NEW at \in Nat,
         NEW d \in Data, at + Total(Len(d)) <= sz
  PROVE  /\ Len(d) \in Nat
         /\ Placed(m, at, d) \in [0 .. sz - 1 -> Nat]
         /\ Placed(m, at, d)[at] = Len(d)
         /\ \A i \in 1 .. Len(d) : Placed(m, at, d)[at + Hdr + i - 1] = d[i]
         /\ \A c \in 0 .. sz - 1 :
              c < at \/ c >= at + Total(Len(d)) => Placed(m, at, d)[c] = m[c]
<1>1. d \in Seq(Nat) /\ Len(d) \in Nat /\ Len(d) > 0 /\ Hdr \in Nat /\ Hdr > 0 /\ Junk \in Nat
  BY PoolAssumption
<1>2. DOMAIN m = 0 .. sz - 1
  OBVIOUS
<1>3. ASSUME NEW c \in 0 .. sz - 1, c >= at + Hdr, c < at + Total(Len(d))
      PROVE  c - at - Hdr + 1 \in 1 .. Len(d) /\ d[c - at - Hdr + 1] \in Nat
  BY <1>1, <1>3 DEF Total
<1>4. Placed(m, at, d) \in [0 .. sz - 1 -> Nat]
  BY <1>1, <1>2, <1>3 DEF Placed
<1>5. at \in 0 .. sz - 1
  BY <1>1 DEF Total
<1>6. Placed(m, at, d)[at] = Len(d)
  BY <1>2, <1>5 DEF Placed
<1>7. ASSUME NEW i \in 1 .. Len(d)
      PROVE  Placed(m, at, d)[at + Hdr + i - 1] = d[i]
  <2> DEFINE c == at + Hdr + i - 1
  <2>1. c \in 0 .. sz - 1 /\ c > at /\ c >= at + Hdr /\ c < at + Total(Len(d))
        /\ c - at - Hdr + 1 = i
    BY <1>1 DEF Total
  <2> HIDE DEF c
  <2>2. Placed(m, at, d)[c] = d[c - at - Hdr + 1]
    BY <1>1, <1>2, <2>1 DEF Placed
  <2> QED
    BY <2>1, <2>2 DEF c
<1>8. ASSUME NEW c \in 0 .. sz - 1, c < at \/ c >= at + Total(Len(d))
      PROVE  Placed(m, at, d)[c] = m[c]
  BY <1>1, <1>2, <1>8 DEF Placed, Total
<1> QED
  BY <1>1, <1>4, <1>6, <1>7, <1>8

(* Copying keeps the cells below the count.                                *)
LEMMA CopiedCells ==
  ASSUME NEW sz \in Nat, NEW m \in [0 .. sz - 1 -> Nat], NEW n \in Nat, NEW cells \in Nat
  PROVE  /\ Copied(m, sz, n, cells) \in [0 .. cells - 1 -> Nat]
         /\ \A c \in 0 .. cells - 1 :
              c < n /\ c < sz => Copied(m, sz, n, cells)[c] = m[c]
  BY PoolAssumption DEF Copied

------------------------------------------------------------------------------
(* The blocks of the entries under map mp in memory m end below n and do    *)
(* not overlap.                                                             *)
EntriesSound(mp, m, n) ==
  /\ \A k \in DOMAIN mp : mp[k] < n /\ mp[k] + Total(m[mp[k]]) <= n
  /\ \A k, l \in DOMAIN mp : k # l => Apart(EntryBlock(mp, m, k), EntryBlock(mp, m, l))

(* Only the cells below the end of the entries matter to them.             *)
LEMMA EntriesSoundCopy ==
  ASSUME NEW n \in Nat, NEW sz \in Nat, NEW tz \in Nat, n <= sz, n <= tz,
         NEW m \in [0 .. sz - 1 -> Nat], NEW t \in [0 .. tz - 1 -> Nat],
         NEW mp, mp \in [DOMAIN mp -> Nat],
         \A c \in 0 .. n - 1 : t[c] = m[c],
         EntriesSound(mp, m, n)
  PROVE  EntriesSound(mp, t, n)
<1>1. \A k \in DOMAIN mp : mp[k] \in 0 .. n - 1 /\ t[mp[k]] = m[mp[k]]
  BY DEF EntriesSound
<1> QED
  BY <1>1 DEF EntriesSound, EntryBlock

(* The offset map with one more key.                                       *)
WithEntry(mp, k, at) == [x \in DOMAIN mp \cup {k} |-> IF x = k THEN at ELSE mp[x]]

(* A pool of sz cells has room for an entry for key k at offset `at`.       *)
RoomFor(mp, m, sz, k, d, at) ==
  /\ sz \in Nat
  /\ m \in [0 .. sz - 1 -> Nat]
  /\ mp \in [DOMAIN mp -> Nat]
  /\ EntriesSound(mp, m, sz)
  /\ k \notin DOMAIN mp
  /\ d \in Data
  /\ at \in Nat
  /\ at + Total(Len(d)) <= sz
  /\ \A x \in DOMAIN mp :
       Apart(EntryBlock(mp, m, x), [off |-> at, len |-> Total(Len(d))])

(* A new entry placed where there is room leaves every entry sound.        *)
LEMMA EntriesSoundNew ==
  ASSUME NEW n, NEW m, NEW mp, NEW k, NEW d, NEW at, RoomFor(mp, m, n, k, d, at)
  PROVE  /\ EntriesSound(WithEntry(mp, k, at), Placed(m, at, d), n)
         /\ \A x \in DOMAIN mp :
              EntryBlock(WithEntry(mp, k, at), Placed(m, at, d), x) = EntryBlock(mp, m, x)
         /\ EntryBlock(WithEntry(mp, k, at), Placed(m, at, d), k)
              = [off |-> at, len |-> Total(Len(d))]
<1> DEFINE mq == [x \in DOMAIN mp \cup {k} |-> IF x = k THEN at ELSE mp[x]]
           q  == Placed(m, at, d)
<1>0. Hdr \in Nat /\ Hdr > 0
  BY PoolAssumption
<1> USE DEF RoomFor
<1>1. /\ Len(d) \in Nat
      /\ q \in [0 .. n - 1 -> Nat]
      /\ q[at] = Len(d)
      /\ \A c \in 0 .. n - 1 : c < at \/ c >= at + Total(Len(d)) => q[c] = m[c]
  <2>1. d \in Seq(Nat) /\ Len(d) \in Nat
    BY PoolAssumption
  <2>2. at + Total(Len(d)) <= n
    BY <1>0, <2>1 DEF Total
  <2> QED
    BY <2>2, PlacedCells
<1> HIDE DEF q
<1>2. ASSUME NEW x \in DOMAIN mp
      PROVE  EntryBlock(mq, q, x) = EntryBlock(mp, m, x)
  <2>1. mq[x] = mp[x] /\ mp[x] \in 0 .. n - 1 /\ m[mp[x]] \in Nat
    BY DEF EntriesSound
  <2>2. mp[x] < at \/ mp[x] >= at + Total(Len(d))
    BY <1>0, <1>1, <2>1 DEF Apart, EntryBlock, Total
  <2> QED
    BY <1>1, <2>1, <2>2 DEF EntryBlock
<1>3. EntryBlock(mq, q, k) = [off |-> at, len |-> Total(Len(d))]
  BY <1>1 DEF EntryBlock
<1>4. ASSUME NEW x \in DOMAIN mq
      PROVE  mq[x] < n /\ mq[x] + Total(q[mq[x]]) <= n
  <2>1. CASE x = k
    BY <1>0, <1>1, <2>1 DEF Total
  <2>2. CASE x \in DOMAIN mp
    <3>1. mq[x] = mp[x] /\ Total(q[mq[x]]) = Total(m[mp[x]])
      BY <1>2, <2>2 DEF EntryBlock
    <3> QED
      BY <3>1, <2>2 DEF EntriesSound
  <2> QED
    BY <2>1, <2>2
<1>5. ASSUME NEW x \in DOMAIN mq, NEW y \in DOMAIN mq, x # y
      PROVE  Apart(EntryBlock(mq, q, x), EntryBlock(mq, q, y))
  <2>1. CASE x \in DOMAIN mp /\ y \in DOMAIN mp
    BY <1>2, <1>5, <2>1 DEF EntriesSound
  <2>2. CASE x = k /\ y \in DOMAIN mp
    BY <1>2, <1>3, <2>2 DEF Apart
  <2>3. CASE y = k /\ x \in DOMAIN mp
    BY <1>2, <1>3, <2>3 DEF Apart
  <2> QED
    BY <1>5, <2>1, <2>2, <2>3
<1> QED
  BY <1>2, <1>3, <1>4, <1>5 DEF EntriesSound, q, WithEntry

------------------------------------------------------------------------------
(* The invariant in terms of EntriesSound, which the steps below preserve.  *)
FreeSound ==
  /\ \A i \in DOMAIN free : /\ free[i].off + free[i].len <= size
                            /\ free[i].off + free[i].len <= offset
  /\ \A i, j \in DOMAIN free : i # j => Apart(free[i], free[j])
  /\ \A k \in DOMAIN map : \A i \in DOMAIN free : Apart(BlockOf(k), free[i])

(* The invariant but for OverrunByReuse, which has a lemma of its own.     *)
Layout == TypeOK /\ BlocksApart /\ BlocksInPool /\ FileSound /\ Dormant

LEMMA PoolInvParts ==
  PoolInv <=> /\ TypeOK
              /\ EntriesSound(map, mem, size)
              /\ \A k \in DOMAIN map : map[k] + Total(mem[map[k]]) <= offset
              /\ FreeSound
              /\ EntriesSound(file.map, file.mem, file.offset)
              /\ Dormant
              /\ OverrunByReuse
  BY DEF PoolInv, BlocksApart, BlocksInPool, FileSound, EntriesSound, FreeSound,
         BlockOf, EntryBlock

LEMMA InitPoolInv == Init => PoolInv
<1> SUFFICES ASSUME Init PROVE PoolInv
  OBVIOUS
<1>1. TypeOK
  BY DEF Init, TypeOK, EmptyMap, NoMemory
<1>2. DOMAIN map = {} /\ DOMAIN file.map = {} /\ DOMAIN free = {}
  BY DEF Init, EmptyMap
<1> QED
  BY <1>1, <1>2 DEF Init, PoolInv, BlocksApart, BlocksInPool, FileSound, Dormant,
                    OverrunByReuse

(* RdbInit on an empty or missing file.                                    *)
LEMMA StartEmptyInv == PoolInv /\ StartEmpty => Layout'
<1> SUFFICES ASSUME PoolInv, StartEmpty PROVE Layout'
  OBVIOUS
<1>1. DOMAIN map = {} /\ free = <<>> /\ offset = 0
  BY DEF PoolInv, Dormant, StartEmpty
<1>2. AlignUp(InitSize) \in Nat
  BY AlignUpBound, PoolAssumption
<1>3. mem' \in [0 .. size' - 1 -> Nat]
  BY <1>2, PoolAssumption DEF StartEmpty, Copied
<1>4. TypeOK'
  BY <1>2, <1>3 DEF PoolInv, TypeOK, StartEmpty
<1>5. DOMAIN map' = {} /\ DOMAIN free' = {} /\ file' = file /\ phase' = "up"
  BY <1>1 DEF StartEmpty
<1>6. BlocksApart' /\ BlocksInPool'
  BY <1>5 DEF BlocksApart, BlocksInPool
<1>7. FileSound' /\ Dormant'
  BY <1>5 DEF PoolInv, FileSound, Dormant, EntryBlock
<1> QED
  BY <1>4, <1>6, <1>7 DEF Layout

(* RdbInit on a saved pool: what was sound in the file is sound in memory.  *)
LEMMA LoadInv == PoolInv /\ RdbLoadFromFile => Layout'
<1> SUFFICES ASSUME PoolInv, RdbLoadFromFile PROVE Layout'
  OBVIOUS
<1> USE DEF RdbLoadFromFile
<1>1. TypeOK /\ EntriesSound(file.map, file.mem, file.offset) /\ free = <<>>
  BY PoolInvParts DEF PoolInv, Dormant
<1>2. file.offset \in Nat /\ file.mem \in [0 .. file.offset - 1 -> Nat]
      /\ file.map \in [DOMAIN file.map -> Nat]
  BY <1>1 DEF TypeOK
<1> DEFINE sz == AlignUp(file.offset)
           t  == Copied(file.mem, file.offset, file.offset, sz)
<1>3. sz \in Nat /\ sz >= file.offset
  BY <1>2, AlignUpBound
<1>4. t \in [0 .. sz - 1 -> Nat] /\ \A c \in 0 .. file.offset - 1 : t[c] = file.mem[c]
  <2> HIDE DEF sz
  <2> QED
    BY SMTT(30), <1>2, <1>3, PoolAssumption DEF Copied
<1> HIDE DEF sz
<1>5. size' = sz /\ mem' = t /\ map' = file.map /\ offset' = file.offset
      /\ DOMAIN free' = {} /\ free' = free /\ phase' = "up" /\ file' = file
      /\ reused' = reused
  BY <1>1 DEF sz
<1> HIDE DEF t
<1>6. EntriesSound(file.map, t, file.offset)
  <2> DEFINE n == file.offset
             m == file.mem
             mp == file.map
  <2>1. n \in Nat /\ n <= n /\ n <= sz /\ m \in [0 .. n - 1 -> Nat] /\ mp \in [DOMAIN mp -> Nat]
        /\ (\A c \in 0 .. n - 1 : t[c] = m[c]) /\ EntriesSound(mp, m, n)
    BY <1>1, <1>2, <1>3, <1>4
  <2> HIDE DEF n, m, mp
  <2>2. EntriesSound(mp, t, n)
    BY <1>3, <1>4, <2>1, EntriesSoundCopy
  <2> QED
    BY <2>2 DEF n, m, mp
<1>7. TypeOK'
  BY <1>1, <1>2, <1>3, <1>4, <1>5 DEF TypeOK
<1>9. BlocksApart'
  BY <1>5, <1>6 DEF BlocksApart, EntriesSound, BlockOf, EntryBlock
<1>10. BlocksInPool'
  <2>1. ASSUME NEW k \in DOMAIN file.map
        PROVE  /\ file.map[k] < sz
               /\ file.map[k] + Total(t[file.map[k]]) <= sz
               /\ file.map[k] + Total(t[file.map[k]]) <= file.offset
    <3>1. file.map[k] \in 0 .. sz - 1 /\ Total(t[file.map[k]]) \in Nat
      BY <1>2, <1>3, <1>4, <1>6, PoolAssumption DEF EntriesSound, Total
    <3> QED
      BY <1>2, <1>3, <1>6, <3>1 DEF EntriesSound
  <2> QED
    BY <1>5, <2>1 DEF BlocksInPool, BlockOf, EntryBlock
<1>11. FileSound' /\ Dormant'
  BY <1>5 DEF PoolInv, FileSound, Dormant, EntryBlock
<1> QED
  BY <1>7, <1>9, <1>10, <1>11 DEF Layout

(* RdbWriteValueDirect: the cells it writes are the data of one entry, and  *)
(* no entry's header is among them.                                        *)
LEMMA WriteInv ==
  ASSUME NEW k \in Keys, NEW d \in Data, PoolInv, RdbWriteValueDirect(k, d)
  PROVE  Layout'
<1>1. /\ phase' = phase /\ size' = size /\ offset' = offset /\ map' = map
      /\ free' = free /\ file' = file /\ k \in DOMAIN map /\ Len(d) = mem[map[k]]
      /\ phase = "up" /\ reused' = reused
  BY DEF RdbWriteValueDirect
<1>2. TypeOK /\ Hdr \in Nat /\ Hdr > 0 /\ d \in Seq(Nat) /\ Len(d) \in Nat
  BY PoolAssumption DEF PoolInv
<1>3. \A l \in DOMAIN map : map[l] \in 0 .. size - 1 /\ mem[map[l]] \in Nat
  BY <1>2 DEF PoolInv, TypeOK, BlocksInPool
<1>4. mem' \in [0 .. size - 1 -> Nat]
  <2>1. ASSUME NEW c \in 0 .. size - 1, c >= map[k] + Hdr, c < map[k] + Total(Len(d))
        PROVE  d[c - map[k] - Hdr + 1] \in Nat
    <3>1. c - map[k] - Hdr + 1 \in 1 .. Len(d)
      BY SMTT(30), <1>1, <1>2, <1>3, <2>1 DEF Total
    <3> QED
      BY <1>2, <3>1
  <2>2. mem \in [0 .. size - 1 -> Nat]
    BY <1>2 DEF TypeOK
  <2> QED
    BY <2>1, <2>2 DEF RdbWriteValueDirect
<1>5. TypeOK'
  BY <1>1, <1>2, <1>4 DEF TypeOK
<1>6. ASSUME NEW l \in DOMAIN map
      PROVE  mem'[map[l]] = mem[map[l]]
  <2>1. ~ (map[l] >= map[k] + Hdr /\ map[l] < map[k] + Total(Len(d)))
    <3>1. CASE l = k
      BY <1>2, <1>3, <3>1
    <3>2. CASE l # k
      <4>1. Apart(EntryBlock(map, mem, l), EntryBlock(map, mem, k))
        BY <1>1, <3>2 DEF PoolInv, BlocksApart, BlockOf
      <4> QED
        BY <1>1, <1>2, <1>3, <4>1 DEF Apart, EntryBlock, Total
    <3> QED
      BY <3>1, <3>2
  <2>2. map[l] \in DOMAIN mem
    BY <1>2, <1>3 DEF TypeOK
  <2> QED
    BY <2>1, <2>2 DEF RdbWriteValueDirect
<1>7. \A l \in DOMAIN map : BlockOf(l)' = BlockOf(l)
  BY <1>1, <1>6 DEF BlockOf, EntryBlock
<1>8. BlocksApart' /\ BlocksInPool'
  BY <1>1, <1>7 DEF PoolInv, BlocksApart, BlocksInPool
<1>9. FileSound' /\ Dormant'
  BY <1>1 DEF PoolInv, FileSound, Dormant, EntryBlock
<1> QED
  BY <1>5, <1>8, <1>9 DEF Layout

(* What Append does to a sequence.                                         *)
LEMMA AppendFacts ==
  ASSUME NEW S, NEW s \in Seq(S), NEW e \in S
  PROVE  /\ Append(s, e) \in Seq(S)
         /\ DOMAIN Append(s, e) = 1 .. Len(s) + 1 /\ DOMAIN s = 1 .. Len(s)
         /\ Len(s) \in Nat
         /\ \A i \in DOMAIN s : Append(s, e)[i] = s[i]
         /\ Append(s, e)[Len(s) + 1] = e
  OBVIOUS

(* RdbDeleteEntry and RdbFree: a live block becomes a free one.            *)
LEMMA DeleteInv ==
  ASSUME NEW k \in Keys, PoolInv, RdbDeleteEntry(k)
  PROVE  Layout'
<1>1. /\ phase' = phase /\ size' = size /\ offset' = offset /\ mem' = mem
      /\ file' = file /\ k \in DOMAIN map /\ phase = "up"
      /\ map' = [x \in DOMAIN map \ {k} |-> map[x]]
      /\ free' = Append(free, BlockOf(k)) /\ reused' = reused
  BY DEF RdbDeleteEntry
<1>2. TypeOK /\ Hdr \in Nat
  BY PoolAssumption DEF PoolInv
<1>3. BlockOf(k) \in [off : Nat, len : Nat]
  <2>1. map[k] \in Nat /\ map[k] < size /\ size \in Nat /\ mem \in [0 .. size - 1 -> Nat]
    BY <1>1, <1>2 DEF PoolInv, TypeOK, BlocksInPool
  <2>2. mem[map[k]] \in Nat
    BY <2>1
  <2> QED
    BY <1>2, <2>1, <2>2 DEF BlockOf, EntryBlock, Total
<1>4. /\ free' \in Seq([off : Nat, len : Nat])
      /\ DOMAIN free' = 1 .. Len(free) + 1 /\ DOMAIN free = 1 .. Len(free)
      /\ Len(free) \in Nat
      /\ \A i \in DOMAIN free : free'[i] = free[i]
      /\ free'[Len(free) + 1] = BlockOf(k)
  <2>1. free \in Seq([off : Nat, len : Nat])
    BY <1>2 DEF TypeOK
  <2> QED
    BY <1>1, <1>3, <2>1, AppendFacts
<1>5. /\ DOMAIN map' = DOMAIN map \ {k}
      /\ \A l \in DOMAIN map' : map'[l] = map[l] /\ BlockOf(l)' = BlockOf(l)
  BY <1>1 DEF BlockOf, EntryBlock
<1>6. TypeOK'
  BY <1>1, <1>2, <1>4, <1>5 DEF TypeOK
<1>7. BlocksInPool'
  BY <1>1, <1>4, <1>5 DEF PoolInv, BlocksInPool
<1>8. BlocksApart'
  <2>1. \A l \in DOMAIN map' : Apart(BlockOf(l), BlockOf(k)) /\ Apart(BlockOf(k), BlockOf(l))
    BY <1>1, <1>5 DEF PoolInv, BlocksApart
  <2>2. \A i \in DOMAIN free : Apart(BlockOf(k), free[i]) /\ Apart(free[i], BlockOf(k))
    BY <1>1 DEF PoolInv, BlocksApart, Apart
  <2>3. \A l, m \in DOMAIN map' : l # m => Apart(BlockOf(l)', BlockOf(m)')
    BY <1>5 DEF PoolInv, BlocksApart
  <2>4. \A l \in DOMAIN map' : \A i \in DOMAIN free' : Apart(BlockOf(l)', free'[i])
    BY <1>4, <1>5, <2>1 DEF PoolInv, BlocksApart
  <2>5. \A i, j \in DOMAIN free' : i # j => Apart(free'[i], free'[j])
    BY <1>4, <2>2, SMTT(30) DEF PoolInv, BlocksApart
  <2> QED
    BY <2>3, <2>4, <2>5 DEF BlocksApart, Apart
<1>9. FileSound' /\ Dormant'
  BY <1>1 DEF PoolInv, FileSound, Dormant, EntryBlock
<1> QED
  BY <1>6, <1>7, <1>8, <1>9 DEF Layout

(* RdbClose, before and after the truncated file is written, and a crash.  *)
LEMMA TruncateInv == PoolInv /\ RdbCloseTruncates => Layout'
<1> SUFFICES ASSUME PoolInv, RdbCloseTruncates PROVE Layout'
  OBVIOUS
<1>1. /\ phase' = "saving" /\ size' = size /\ offset' = offset /\ map' = map
      /\ free' = free /\ mem' = mem /\ reused' = reused
      /\ file' = [state |-> "torn", map |-> EmptyMap, offset |-> 0, mem |-> NoMemory]
  BY DEF RdbCloseTruncates
<1>2. TypeOK'
  BY <1>1 DEF PoolInv, TypeOK, EmptyMap, NoMemory
<1>3. BlocksApart' /\ BlocksInPool'
  BY <1>1 DEF PoolInv, BlocksApart, BlocksInPool, BlockOf, EntryBlock
<1>4. FileSound' /\ Dormant'
  BY <1>1 DEF FileSound, Dormant, EmptyMap
<1> QED
  BY <1>2, <1>3, <1>4 DEF Layout

LEMMA DownInv ==
  ASSUME TypeOK', FileSound', phase' = "down", offset' = 0, map' = EmptyMap, free' = <<>>
  PROVE  Layout'
<1>1. DOMAIN map' = {} /\ DOMAIN free' = {}
  BY DEF EmptyMap
<1> QED
  BY <1>1 DEF Layout, BlocksApart, BlocksInPool, Dormant

LEMMA CloseInv == PoolInv /\ RdbCloseWrites => Layout'
<1> SUFFICES ASSUME PoolInv, RdbCloseWrites PROVE Layout'
  OBVIOUS
<1> DEFINE t == Copied(mem, size, offset, offset)
<1>1. /\ phase' = "down" /\ size' = 0 /\ offset' = 0 /\ map' = EmptyMap
      /\ free' = <<>> /\ mem' = NoMemory /\ reused' = 0
      /\ file' = [state |-> "saved", map |-> map, offset |-> offset, mem |-> t]
  BY DEF RdbCloseWrites, MemoryGone
<1>2. /\ TypeOK /\ size \in Nat /\ offset \in Nat /\ mem \in [0 .. size - 1 -> Nat]
      /\ map \in [DOMAIN map -> Nat]
  BY DEF PoolInv, TypeOK
<1>3. t \in [0 .. offset - 1 -> Nat]
      /\ \A c \in 0 .. offset - 1 : c < size => t[c] = mem[c]
  BY <1>2, PoolAssumption DEF Copied
<1> HIDE DEF t
<1>4. TypeOK'
  BY <1>1, <1>2, <1>3 DEF TypeOK, EmptyMap, NoMemory
<1>5. \A k \in DOMAIN map :
        /\ map[k] < offset /\ map[k] + Total(mem[map[k]]) <= offset
        /\ t[map[k]] = mem[map[k]]
  <2> SUFFICES ASSUME NEW k \in DOMAIN map
               PROVE  /\ map[k] < offset /\ map[k] + Total(mem[map[k]]) <= offset
                      /\ t[map[k]] = mem[map[k]]
    OBVIOUS
  <2>1. map[k] \in 0 .. size - 1 /\ map[k] + Total(mem[map[k]]) <= offset
    BY <1>2 DEF PoolInv, BlocksInPool, BlockOf, EntryBlock
  <2>2. mem[map[k]] \in Nat /\ Hdr \in Nat /\ Hdr > 0
    BY <1>2, <2>1, PoolAssumption
  <2>3. map[k] \in 0 .. offset - 1
    BY <1>2, <2>1, <2>2 DEF Total
  <2> QED
    BY <1>2, <1>3, <2>1, <2>3
<1>6. FileSound'
  BY <1>1, <1>5 DEF FileSound, PoolInv, BlocksApart, BlockOf, EntryBlock
<1> QED
  BY <1>1, <1>4, <1>6, DownInv

LEMMA CrashInv == PoolInv /\ Crash => Layout'
<1> SUFFICES ASSUME PoolInv, Crash PROVE Layout'
  OBVIOUS
<1>1. /\ phase' = "down" /\ size' = 0 /\ offset' = 0 /\ map' = EmptyMap
      /\ free' = <<>> /\ mem' = NoMemory /\ reused' = 0 /\ file' = file
  BY DEF Crash, MemoryGone
<1>2. TypeOK'
  BY <1>1 DEF PoolInv, TypeOK, EmptyMap, NoMemory
<1>3. FileSound'
  BY <1>1 DEF PoolInv, FileSound, EntryBlock
<1> QED
  BY <1>1, <1>2, <1>3, DownInv

LEMMA OverrunSavesInv == PoolInv /\ OverrunSaves => Layout'
<1> SUFFICES ASSUME PoolInv, OverrunSaves PROVE Layout'
  OBVIOUS
<1>1. /\ phase' = "down" /\ size' = 0 /\ offset' = 0 /\ map' = EmptyMap
      /\ free' = <<>> /\ mem' = NoMemory /\ reused' = 0
      /\ file' = [state |-> "torn", map |-> EmptyMap, offset |-> 0, mem |-> NoMemory]
  BY DEF OverrunSaves, MemoryGone
<1>2. TypeOK'
  BY <1>1 DEF PoolInv, TypeOK, EmptyMap, NoMemory
<1>3. FileSound'
  BY <1>1 DEF FileSound, EmptyMap
<1> QED
  BY <1>1, <1>2, <1>3, DownInv

------------------------------------------------------------------------------
Block == [off : Nat, len : Nat]

Within(a, b) == b.off <= a.off /\ a.off + a.len <= b.off + b.len

LEMMA ApartWithin ==
  ASSUME NEW a \in Block, NEW b \in Block, NEW x \in Block, NEW y \in Block,
         Apart(a, b), Within(x, a), Within(y, b)
  PROVE  Apart(x, y)
  BY DEF Apart, Within, Block

(* What RdbAllocate leaves of the free list after it took the front of      *)
(* block i: each block lies within an old one, no two within the same one,  *)
(* and what is left of block i starts after the part taken.                 *)
LEMMA TakeFromProperties ==
  ASSUME free \in Seq(Block), NEW i \in DOMAIN free, NEW total \in Nat,
         free[i].len >= total
  PROVE  LET t == TakeFrom(i, total)
         IN  /\ t \in Seq(Block)
             /\ \E g \in [DOMAIN t -> DOMAIN free] :
                  /\ \A j \in DOMAIN t : /\ Within(t[j], free[g[j]])
                                         /\ g[j] = i => t[j].off >= free[i].off + total
                  /\ \A j, l \in DOMAIN t : j # l => g[j] # g[l]
<1> DEFINE t == TakeFrom(i, total)
<1>1. Len(free) \in Nat /\ DOMAIN free = 1 .. Len(free)
  OBVIOUS
<1>2. CASE free[i].len = total
  <2>1. t = RemoveAt(free, i)
    BY <1>2 DEF TakeFrom
  <2>2. /\ t \in Seq(Block)
        /\ DOMAIN t = 1 .. Len(free) - 1
        /\ \A j \in 1 .. Len(free) - 1 : t[j] = IF j < i THEN free[j] ELSE free[j + 1]
    <3>1. /\ t \in Seq(Block) /\ Len(t) = Len(free) - 1
          /\ \A j \in 1 .. Len(free) - 1 : t[j] = IF j < i THEN free[j] ELSE free[j + 1]
      BY ZenonT(30), <1>1, <2>1, RemoveAtProperties
    <3> HIDE DEF t
    <3> QED
      BY <3>1
  <2> HIDE DEF t
  <2> DEFINE g == [j \in DOMAIN t |-> IF j < i THEN j ELSE j + 1]
  <2>3. g \in [DOMAIN t -> DOMAIN free]
    BY <1>1, <2>2
  <2>4. \A j \in DOMAIN t : t[j] = free[g[j]] /\ g[j] # i
    BY <1>1, <2>2
  <2>5. \A j, l \in DOMAIN t : j # l => g[j] # g[l]
    BY <1>1, <2>2
  <2>6. \A j \in DOMAIN t : Within(t[j], free[g[j]])
    <3> SUFFICES ASSUME NEW j \in DOMAIN t PROVE Within(t[j], free[g[j]])
      OBVIOUS
    <3>1. t[j] \in Block /\ t[j] = free[g[j]]
      BY <2>2, <2>4
    <3> HIDE DEF g
    <3> QED
      BY <3>1 DEF Within, Block
  <2> HIDE DEF g
  <2> QED
    BY <2>2, <2>3, <2>4, <2>5, <2>6 DEF t
<1>3. CASE free[i].len # total
  <2>1. t = [free EXCEPT ![i] = [off |-> free[i].off + total, len |-> free[i].len - total]]
    BY <1>3 DEF TakeFrom
  <2>2. free[i] \in Block /\ [off |-> free[i].off + total, len |-> free[i].len - total] \in Block
    <3>1. free[i] \in Block
      OBVIOUS
    <3>2. free[i].off \in Nat /\ free[i].len \in Nat
      BY <3>1 DEF Block
    <3>3. free[i].off + total \in Nat /\ free[i].len - total \in Nat
      BY <3>2
    <3> QED
      BY <3>1, <3>3 DEF Block
  <2>3. t \in Seq(Block) /\ DOMAIN t = DOMAIN free
        /\ t[i] = [off |-> free[i].off + total, len |-> free[i].len - total]
        /\ \A j \in DOMAIN free : j # i => t[j] = free[j]
    BY <2>1, <2>2
  <2> HIDE DEF t
  <2> DEFINE g == [j \in DOMAIN t |-> j]
  <2>4. ASSUME NEW j \in DOMAIN t
        PROVE  Within(t[j], free[g[j]]) /\ (g[j] = i => t[j].off >= free[i].off + total)
    <3>1. t[j] \in Block /\ free[j] \in Block
      BY <2>3
    <3>2. CASE j = i
      BY <2>2, <2>3, <3>2, SMTT(30) DEF Within, Block
    <3>3. CASE j # i
      BY <2>3, <3>1, <3>3, SMTT(30) DEF Within, Block
    <3> QED
      BY <3>2, <3>3
  <2>5. g \in [DOMAIN t -> DOMAIN free] /\ \A j, l \in DOMAIN t : j # l => g[j] # g[l]
    BY <2>3
  <2> HIDE DEF g
  <2> QED
    BY <2>3, <2>4, <2>5 DEF t
<1> QED
  BY <1>2, <1>3

(* RdbNewEntry in a free block.                                            *)
LEMMA NewEntryInFreeBlockInv ==
  ASSUME NEW k \in Keys, NEW d \in Data, PoolInv, NewEntryInFreeBlock(k, d)
  PROVE  Layout'
<1> DEFINE total == Total(Len(d))
           i     == FirstFit(Len(d))
           at    == free[i].off
           mq    == MapWith(k, at)
           q     == Placed(mem, at, d)
           f     == TakeFrom(i, total)
           new   == [off |-> at, len |-> total]
<1>1. /\ phase' = phase /\ phase = "up" /\ size' = size /\ offset' = offset + total
      /\ map' = mq /\ mem' = q /\ free' = f /\ file' = file /\ k \notin DOMAIN map
      /\ Fitting(Len(d)) # {} /\ reused' = reused + total
  BY DEF NewEntryInFreeBlock, Creates
<1>2. /\ TypeOK /\ Hdr \in Nat /\ Hdr > 0 /\ Len(d) \in Nat /\ total \in Nat
      /\ size \in Nat /\ offset \in Nat /\ free \in Seq(Block) /\ reused \in Nat
      /\ mem \in [0 .. size - 1 -> Nat] /\ map \in [DOMAIN map -> Nat]
  <2>1. TypeOK /\ Hdr \in Nat /\ Hdr > 0 /\ Len(d) \in Nat
    BY PoolAssumption DEF PoolInv
  <2>2. total \in Nat
    BY <2>1 DEF Total
  <2>3. /\ size \in Nat /\ offset \in Nat /\ free \in Seq(Block) /\ reused \in Nat
        /\ mem \in [0 .. size - 1 -> Nat] /\ map \in [DOMAIN map -> Nat]
    BY <2>1 DEF TypeOK, Block
  <2> QED
    BY <2>1, <2>2, <2>3
<1>3. i \in DOMAIN free /\ free[i].len >= total
  <2>1. Fitting(Len(d)) \subseteq Nat
    BY <1>2 DEF Fitting
  <2>2. i \in Fitting(Len(d))
    BY <1>1, <2>1, MinOfNats DEF FirstFit
  <2> QED
    BY <2>2 DEF Fitting
<1>4. free[i] \in Block /\ at \in Nat /\ new \in Block /\ Within(new, free[i])
      /\ at + total <= size /\ at + total <= offset
  <2>1. free[i] \in Block /\ free[i].off + free[i].len <= size
        /\ free[i].off + free[i].len <= offset
    BY <1>2, <1>3 DEF PoolInv, BlocksInPool
  <2> QED
    BY <1>2, <1>3, <2>1, SMTT(30) DEF Within, Block
<1>5. ASSUME NEW x \in DOMAIN map
      PROVE  BlockOf(x) \in Block /\ Within(BlockOf(x), BlockOf(x)) /\ Apart(BlockOf(x), new)
  <2>1. map[x] \in 0 .. size - 1 /\ mem[map[x]] \in Nat
    BY <1>2 DEF PoolInv, BlocksInPool
  <2>2. BlockOf(x) \in Block
    BY <1>2, <2>1 DEF BlockOf, EntryBlock, Total, Block
  <2>3. Within(BlockOf(x), BlockOf(x))
    BY <2>2 DEF Within, Block
  <2>4. Apart(BlockOf(x), free[i])
    BY <1>3 DEF PoolInv, BlocksApart
  <2> QED
    BY <1>4, <2>2, <2>3, <2>4, ApartWithin
<1>6. EntriesSound(map, mem, size)
  BY PoolInvParts
<1> HIDE DEF total, i, at
<1>7. /\ EntriesSound(mq, q, size)
      /\ \A x \in DOMAIN map : EntryBlock(mq, q, x) = EntryBlock(map, mem, x)
      /\ EntryBlock(mq, q, k) = new
  <2>1. at + Total(Len(d)) <= size /\ total = Total(Len(d))
        /\ \A x \in DOMAIN map :
             Apart(EntryBlock(map, mem, x), [off |-> at, len |-> Total(Len(d))])
    BY <1>4, <1>5 DEF BlockOf, total
  <2> QED
    <3> HIDE DEF new, f, mq, q
    <3>1. RoomFor(map, mem, size, k, d, at)
      BY <1>1, <1>2, <1>4, <1>6, <2>1 DEF RoomFor
    <3>2. /\ EntriesSound(WithEntry(map, k, at), Placed(mem, at, d), size)
          /\ \A x \in DOMAIN map :
               EntryBlock(WithEntry(map, k, at), Placed(mem, at, d), x) = EntryBlock(map, mem, x)
          /\ EntryBlock(WithEntry(map, k, at), Placed(mem, at, d), k)
               = [off |-> at, len |-> Total(Len(d))]
      BY <3>1, EntriesSoundNew
    <3>3. mq = WithEntry(map, k, at) /\ q = Placed(mem, at, d)
      BY DEF mq, q, MapWith, WithEntry
    <3> QED
      BY <3>2, <3>3 DEF new, total
<1>8. q \in [0 .. size - 1 -> Nat]
  BY <1>2, <1>4, PlacedCells DEF total
<1>9. DOMAIN mq = DOMAIN map \cup {k} /\ mq \in [DOMAIN mq -> Nat]
  BY <1>2, <1>4 DEF MapWith
<1>10. f \in Seq(Block)
  BY <1>2, <1>3, TakeFromProperties
<1>11. PICK g \in [DOMAIN f -> DOMAIN free] :
         /\ \A j \in DOMAIN f : /\ Within(f[j], free[g[j]])
                                /\ g[j] = i => f[j].off >= free[i].off + total
         /\ \A j, l \in DOMAIN f : j # l => g[j] # g[l]
  BY <1>2, <1>3, TakeFromProperties
<1>12. TypeOK'
  BY <1>1, <1>2, <1>8, <1>9, <1>10, SMTT(30) DEF TypeOK, Block
<1> HIDE DEF mq, q, f, new
<1>13. \A x \in DOMAIN map : BlockOf(x)' = BlockOf(x)
  BY <1>1, <1>7 DEF BlockOf
<1>14. BlockOf(k)' = new
  BY <1>1, <1>7 DEF BlockOf
<1>15. ASSUME NEW j \in DOMAIN f
       PROVE  f[j] \in Block /\ free[g[j]] \in Block /\ g[j] \in DOMAIN free
              /\ f[j].off + f[j].len <= free[g[j]].off + free[g[j]].len
              /\ Within(f[j], f[j])
  <2>1. f[j] \in Block /\ g[j] \in DOMAIN free
    BY <1>10, <1>11
  <2>2. free[g[j]] \in Block
    BY <1>2, <2>1
  <2>3. f[j].off + f[j].len <= free[g[j]].off + free[g[j]].len
    BY <1>11 DEF Within
  <2>4. Within(f[j], f[j])
    BY <2>1 DEF Within, Block
  <2> QED
    BY <2>1, <2>2, <2>3, <2>4
<1>16. BlocksInPool'
  <2>1. \A x \in DOMAIN map' : /\ map'[x] < size
                                /\ BlockOf(x)'.off + BlockOf(x)'.len <= size
    BY <1>1, <1>7 DEF EntriesSound, BlockOf, EntryBlock
  <2>2. \A x \in DOMAIN map' : BlockOf(x)'.off + BlockOf(x)'.len <= offset
    BY <1>1, <1>4, <1>9, <1>13, <1>14 DEF PoolInv, BlocksInPool, new
  <2>3. \A x \in DOMAIN map' : BlockOf(x)'.off + BlockOf(x)'.len \in Nat
    <3>1. \A x \in DOMAIN map' : BlockOf(x)' \in Block
      BY <1>1, <1>4, <1>5, <1>9, <1>13, <1>14 DEF new
    <3> QED
      BY <3>1 DEF Block
  <2>4. \A j \in DOMAIN f : /\ f[j].off + f[j].len <= size
                            /\ f[j].off + f[j].len <= offset
                            /\ f[j].off + f[j].len \in Nat
    <3> SUFFICES ASSUME NEW j \in DOMAIN f
                 PROVE  /\ f[j].off + f[j].len <= size
                        /\ f[j].off + f[j].len <= offset
                        /\ f[j].off + f[j].len \in Nat
      OBVIOUS
    <3>1. /\ free[g[j]].off + free[g[j]].len <= size
          /\ free[g[j]].off + free[g[j]].len <= offset
      BY <1>15 DEF PoolInv, BlocksInPool
    <3>2. /\ f[j].off + f[j].len \in Nat
          /\ free[g[j]].off + free[g[j]].len \in Nat
      BY <1>15 DEF Block
    <3> QED
      BY <1>2, <1>15, <3>1, <3>2
  <2>5. \A x \in DOMAIN map' : BlockOf(x)'.off + BlockOf(x)'.len <= offset'
    BY <1>1, <1>2, <2>2, <2>3
  <2>6. \A j \in DOMAIN free' : /\ free'[j].off + free'[j].len <= size'
                               /\ free'[j].off + free'[j].len <= offset'
    BY <1>1, <1>2, <2>4
  <2> QED
    BY <1>1, <2>1, <2>5, <2>6 DEF BlocksInPool
<1>17. BlocksApart'
  <2>1. \A x, y \in DOMAIN map' : x # y => Apart(BlockOf(x)', BlockOf(y)')
    BY <1>1, <1>7 DEF EntriesSound, BlockOf
  <2>2. ASSUME NEW x \in DOMAIN map', NEW j \in DOMAIN f
        PROVE  Apart(BlockOf(x)', f[j])
    <3>1. CASE x \in DOMAIN map
      <4>1. Apart(BlockOf(x), free[g[j]])
        BY <1>15, <3>1 DEF PoolInv, BlocksApart
      <4> QED
        BY <1>5, <1>11, <1>13, <1>15, <3>1, <4>1, ApartWithin
    <3>2. CASE x = k /\ g[j] = i
      BY <1>11, <1>14, <3>2 DEF Apart, new, at
    <3>3. CASE x = k /\ g[j] # i
      <4>1. Apart(free[i], free[g[j]])
        BY <1>3, <1>15, <3>3 DEF PoolInv, BlocksApart
      <4> QED
        BY <1>4, <1>11, <1>14, <1>15, <3>3, <4>1, ApartWithin
    <3> QED
      BY <1>1, <1>9, <3>1, <3>2, <3>3
  <2>3. ASSUME NEW j \in DOMAIN f, NEW l \in DOMAIN f, j # l
        PROVE  Apart(f[j], f[l])
    <3>1. Apart(free[g[j]], free[g[l]])
      BY <1>11, <1>15, <2>3 DEF PoolInv, BlocksApart
    <3> QED
      BY <1>11, <1>15, <3>1, ApartWithin
  <2> QED
    BY <1>1, <2>1, <2>2, <2>3 DEF BlocksApart, Apart
<1>18. FileSound' /\ Dormant'
  BY <1>1 DEF PoolInv, FileSound, Dormant, EntryBlock
<1> QED
  BY <1>12, <1>16, <1>17, <1>18 DEF Layout

------------------------------------------------------------------------------
(* RdbGrow copies _rdb_offset cells, which every entry lies below: the      *)
(* entries of the grown pool are those of the old one.                     *)
Grown(sz) == Copied(mem, size, offset, sz)

LEMMA GrownPool ==
  ASSUME PoolInv, NEW sz \in Nat, sz >= size
  PROVE  /\ Grown(sz) \in [0 .. sz - 1 -> Nat]
         /\ EntriesSound(map, Grown(sz), sz)
         /\ \A x \in DOMAIN map : EntryBlock(map, Grown(sz), x) = BlockOf(x)
<1>1. /\ size \in Nat /\ offset \in Nat /\ mem \in [0 .. size - 1 -> Nat]
      /\ map \in [DOMAIN map -> Nat] /\ Hdr \in Nat /\ Hdr > 0
  BY PoolAssumption DEF PoolInv, TypeOK
<1>2. Grown(sz) \in [0 .. sz - 1 -> Nat]
  BY <1>1, PoolAssumption DEF Grown, Copied
<1>3. ASSUME NEW x \in DOMAIN map
      PROVE  /\ Grown(sz)[map[x]] = mem[map[x]] /\ map[x] < sz
             /\ map[x] + Total(mem[map[x]]) <= sz
  <2>1. map[x] \in 0 .. size - 1 /\ mem[map[x]] \in Nat
        /\ map[x] + Total(mem[map[x]]) <= offset /\ map[x] + Total(mem[map[x]]) <= size
    BY <1>1 DEF PoolInv, BlocksInPool, BlockOf, EntryBlock
  <2>2. map[x] < offset /\ map[x] \in 0 .. sz - 1
    BY <1>1, <2>1 DEF Total
  <2>3. Grown(sz)[map[x]] = mem[map[x]]
    <3>1. map[x] < size
      BY <1>1, <2>1
    <3> QED
      BY <2>2, <3>1 DEF Grown, Copied
  <2>4. map[x] + Total(mem[map[x]]) <= sz
    BY <1>1, <2>1 DEF Total
  <2> QED
    BY <2>2, <2>3, <2>4
<1>4. \A x \in DOMAIN map : EntryBlock(map, Grown(sz), x) = BlockOf(x)
  BY <1>3 DEF BlockOf, EntryBlock
<1>5. \A x, y \in DOMAIN map :
        x # y => Apart(EntryBlock(map, Grown(sz), x), EntryBlock(map, Grown(sz), y))
  BY <1>4 DEF PoolInv, BlocksApart
<1> QED
  BY <1>2, <1>3, <1>4, <1>5 DEF EntriesSound

(* RdbGrow: the entries stay where they are in a block of twice the size.  *)
LEMMA GrowInv == PoolInv /\ RdbGrow => Layout'
<1> SUFFICES ASSUME PoolInv, RdbGrow PROVE Layout'
  OBVIOUS
<1> DEFINE sz == 2 * size
<1>1. size \in Nat
  BY DEF PoolInv, TypeOK
<1>2. sz \in Nat /\ sz >= size
  BY <1>1
<1>3. /\ phase' = phase /\ phase = "growing" /\ size' = sz /\ mem' = Grown(sz)
      /\ offset' = offset /\ map' = map /\ free' = free /\ file' = file
      /\ wanted' = wanted /\ reused' = reused
  BY DEF RdbGrow, Grows, Grown
<1> HIDE DEF sz
<1>4. /\ Grown(sz) \in [0 .. sz - 1 -> Nat] /\ EntriesSound(map, Grown(sz), sz)
      /\ \A x \in DOMAIN map : EntryBlock(map, Grown(sz), x) = BlockOf(x)
  BY <1>2, GrownPool
<1>5. TypeOK'
  BY <1>2, <1>3, <1>4 DEF PoolInv, TypeOK
<1>6. \A x \in DOMAIN map : BlockOf(x)' = BlockOf(x)
  BY <1>3, <1>4 DEF BlockOf
<1>7. BlocksApart'
  BY <1>3, <1>6 DEF PoolInv, BlocksApart
<1>8. BlocksInPool'
  <2>1. \A x \in DOMAIN map : map[x] < sz /\ BlockOf(x).off + BlockOf(x).len <= sz
    BY <1>4 DEF EntriesSound, EntryBlock
  <2>2. ASSUME NEW i \in DOMAIN free
        PROVE  free[i].off + free[i].len <= sz
    <3>1. free[i] \in Block
      <4>1. free \in Seq(Block)
        BY DEF PoolInv, TypeOK, Block
      <4> QED
        BY <4>1
    <3>2. free[i].off + free[i].len <= size /\ free[i].off \in Nat /\ free[i].len \in Nat
      BY <3>1 DEF PoolInv, BlocksInPool, Block
    <3> QED
      BY <1>1, <1>2, <3>2
  <2> QED
    BY <1>3, <1>6, <2>1, <2>2 DEF PoolInv, BlocksInPool
<1>9. FileSound' /\ Dormant'
  BY <1>3 DEF PoolInv, FileSound, Dormant, EntryBlock
<1> QED
  BY <1>5, <1>7, <1>8, <1>9 DEF Layout

(* The steps of a creation that move nothing: it finds no room, RdbGrow      *)
(* fails, or runs over the end of the new block.                            *)
LEMMA StillInv ==
  ASSUME PoolInv,
         \/ \E k \in Keys, d \in Data : NewEntryNeedsRoom(k, d)
         \/ RdbGrowFails
         \/ RdbGrowOverruns
  PROVE  Layout'
<1>1. /\ size' = size /\ mem' = mem /\ offset' = offset /\ map' = map /\ free' = free
      /\ file' = file /\ reused' = reused /\ phase' \in {"growing", "up", "overrun"}
  BY DEF NewEntryNeedsRoom, RdbGrowFails, RdbGrowOverruns
<1>2. phase' \in {"growing", "overrun"} =>
        wanted' \in [key : Keys, data : Data] /\ wanted'.key \notin DOMAIN map'
  BY DEF NewEntryNeedsRoom, RdbGrowFails, RdbGrowOverruns, Grows, Creates, PoolInv, TypeOK
<1>3. TypeOK'
  BY <1>1, <1>2 DEF PoolInv, TypeOK
<1>4. BlocksApart' /\ BlocksInPool' /\ FileSound' /\ Dormant'
  BY <1>1 DEF PoolInv, BlocksApart, BlocksInPool, BlockOf, EntryBlock, FileSound, Dormant
<1> QED
  BY <1>3, <1>4 DEF Layout

(* RdbNewEntry at the end of the pool, which may have grown for it.        *)
LEMMA PlacedAtEndInv ==
  ASSUME NEW k \in Keys, NEW d \in Data, PoolInv, k \notin DOMAIN map,
         RoomAtEnd(d), PlacedAtEnd(k, d), phase' = "up"
  PROVE  Layout'
<1> DEFINE total == Total(Len(d))
           new == [off |-> offset, len |-> total]
           q == Placed(mem, offset, d)
           mq == WithEntry(map, k, offset)
<1>2. size \in Nat /\ offset + total <= size
  BY DEF PoolInv, TypeOK, RoomAtEnd
<1>3. /\ phase' = "up" /\ size' = size /\ mem' = q
      /\ offset' = offset + total /\ map' = mq /\ free' = free /\ file' = file
      /\ reused' = reused /\ k \notin DOMAIN map
  BY DEF PlacedAtEnd, MapWith, WithEntry
<1>4. /\ mem \in [0 .. size - 1 -> Nat] /\ EntriesSound(map, mem, size)
      /\ \A x \in DOMAIN map : EntryBlock(map, mem, x) = BlockOf(x)
  BY PoolInvParts DEF TypeOK, BlockOf
<1>5. /\ TypeOK /\ offset \in Nat /\ map \in [DOMAIN map -> Nat] /\ free \in Seq(Block)
      /\ total \in Nat /\ total > 0
  <2>1. Len(d) \in Nat /\ Hdr \in Nat /\ Hdr > 0
    BY PoolAssumption
  <2> QED
    BY <2>1, SMTT(30) DEF PoolInv, TypeOK, Total, Block
<1>6. ASSUME NEW x \in DOMAIN map
      PROVE  BlockOf(x).off + BlockOf(x).len <= offset
  BY DEF PoolInv, BlocksInPool
<1>7. ASSUME NEW i \in DOMAIN free
      PROVE  /\ free[i].off + free[i].len <= size /\ free[i].off + free[i].len <= offset
             /\ free[i].off + free[i].len \in Nat
  <2>1. free[i] \in Block
    BY <1>5
  <2>2. free[i].off \in Nat /\ free[i].len \in Nat
    BY <2>1 DEF Block
  <2> QED
    BY <2>2 DEF PoolInv, BlocksInPool
<1>8. RoomFor(map, mem, size, k, d, offset)
  <2>1. \A x \in DOMAIN map :
          Apart(EntryBlock(map, mem, x), [off |-> offset, len |-> Total(Len(d))])
    BY <1>4, <1>6 DEF Apart
  <2> QED
    BY <1>2, <1>3, <1>4, <1>5, <2>1 DEF RoomFor
<1>9. /\ EntriesSound(mq, q, size)
      /\ \A x \in DOMAIN map : EntryBlock(mq, q, x) = EntryBlock(map, mem, x)
      /\ EntryBlock(mq, q, k) = new
  <2> HIDE DEF total
  <2>1. total = Total(Len(d))
    BY DEF total
  <2> QED
    BY <1>8, <2>1, EntriesSoundNew
<1>10. q \in [0 .. size - 1 -> Nat]
  BY <1>2, <1>4, <1>5, PlacedCells
<1>11. DOMAIN mq = DOMAIN map \cup {k} /\ mq \in [DOMAIN mq -> Nat]
  BY <1>5 DEF WithEntry
<1>12. TypeOK'
  BY SMTT(30), <1>2, <1>3, <1>5, <1>10, <1>11 DEF TypeOK
<1> HIDE DEF mq, q, total
<1>13. \A x \in DOMAIN map : BlockOf(x)' = BlockOf(x)
  BY <1>3, <1>4, <1>9 DEF BlockOf
<1>14. BlockOf(k)' = new
  BY <1>3, <1>9 DEF BlockOf
<1>15. BlocksInPool'
  <2>1. \A x \in DOMAIN map' : /\ map'[x] < size
                                /\ BlockOf(x)'.off + BlockOf(x)'.len <= size
    BY <1>3, <1>9 DEF EntriesSound, BlockOf, EntryBlock
  <2>2. ASSUME NEW x \in DOMAIN map'
        PROVE  BlockOf(x)'.off + BlockOf(x)'.len <= offset + total
    <3>1. CASE x \in DOMAIN map
      <4>1. BlockOf(x).off \in Nat /\ BlockOf(x).len \in Nat
        <5>1. map[x] \in 0 .. size - 1 /\ mem[map[x]] \in Nat /\ Hdr \in Nat
          BY <1>5, <3>1, PoolAssumption, SMTT(30) DEF PoolInv, TypeOK, BlocksInPool
        <5> QED
          BY <5>1 DEF BlockOf, EntryBlock, Total
      <4> QED
        BY <1>5, <1>6, <1>13, <3>1, <4>1
    <3>2. CASE x = k
      BY <1>5, <1>14, <3>2
    <3> QED
      BY <1>3, <1>11, <3>1, <3>2
  <2>3. ASSUME NEW i \in DOMAIN free
        PROVE  free[i].off + free[i].len <= size /\ free[i].off + free[i].len <= offset + total
    BY <1>2, <1>5, <1>7
  <2> QED
    BY <1>3, <2>1, <2>2, <2>3 DEF BlocksInPool
<1>16. BlocksApart'
  <2>1. \A x, y \in DOMAIN map' : x # y => Apart(BlockOf(x)', BlockOf(y)')
    BY <1>3, <1>9 DEF EntriesSound, BlockOf
  <2>2. ASSUME NEW x \in DOMAIN map', NEW i \in DOMAIN free
        PROVE  Apart(BlockOf(x)', free[i])
    <3>1. CASE x \in DOMAIN map
      BY <1>13, <3>1 DEF PoolInv, BlocksApart
    <3>2. CASE x = k
      BY <1>7, <1>14, <3>2 DEF Apart
    <3> QED
      BY <1>3, <1>11, <3>1, <3>2
  <2> QED
    BY <1>3, <2>1, <2>2 DEF PoolInv, BlocksApart
<1>17. FileSound' /\ Dormant'
  BY <1>3 DEF PoolInv, FileSound, Dormant, EntryBlock
<1> QED
  BY <1>12, <1>15, <1>16, <1>17 DEF Layout

(* The offset runs ahead of the pool by what was reused, at most.          *)
LEMMA OverrunByReuseInv == PoolInv /\ [Next]_vars => OverrunByReuse'
<1> SUFFICES ASSUME PoolInv, [Next]_vars PROVE OverrunByReuse'
  OBVIOUS
<1>1. /\ size \in Nat /\ offset \in Nat /\ reused \in Nat /\ offset <= size + reused
      /\ phase = "overrun" => reused > size
      /\ phase = "down" => offset = 0
  BY DEF PoolInv, TypeOK, OverrunByReuse, Dormant
<1>2. CASE StartEmpty
  BY <1>1, <1>2, AlignUpBound, PoolAssumption DEF StartEmpty, OverrunByReuse
<1>3. CASE RdbLoadFromFile
  <2>1. file.offset \in Nat /\ size' >= file.offset /\ size' \in Nat
    BY <1>3, AlignUpBound DEF RdbLoadFromFile, PoolInv, TypeOK
  <2> QED
    BY <1>1, <1>3, <2>1 DEF RdbLoadFromFile, OverrunByReuse
<1>4. CASE \E k \in Keys, d \in Data : RdbNewEntry(k, d)
  <2> SUFFICES ASSUME NEW k \in Keys, NEW d \in Data, RdbNewEntry(k, d)
               PROVE  OverrunByReuse'
    BY <1>4
  <2>1. Total(Len(d)) \in Nat
    BY PoolAssumption DEF Total
  <2>2. CASE NewEntryInFreeBlock(k, d)
    BY <1>1, <2>1, <2>2 DEF NewEntryInFreeBlock, Creates, OverrunByReuse
  <2>3. CASE NewEntryAtEnd(k, d)
    BY <1>1, <2>1, <2>3 DEF NewEntryAtEnd, Creates, RoomAtEnd, PlacedAtEnd, OverrunByReuse
  <2>4. CASE NewEntryNeedsRoom(k, d)
    BY <1>1, <2>4 DEF NewEntryNeedsRoom, OverrunByReuse
  <2> QED
    BY <2>2, <2>3, <2>4 DEF RdbNewEntry
<1>5. CASE GrownEnough
  <2>1. wanted.data \in Data
    BY <1>5 DEF GrownEnough, PoolInv, TypeOK
  <2>2. Total(Len(wanted.data)) \in Nat
    BY <2>1, PoolAssumption DEF Total
  <2> QED
    BY <1>1, <1>5, <2>2 DEF GrownEnough, RoomAtEnd, PlacedAtEnd, OverrunByReuse
<1>6. CASE RdbGrow \/ RdbGrowOverruns \/ RdbGrowFails
  BY <1>1, <1>6 DEF RdbGrow, RdbGrowOverruns, RdbGrowFails, Grows, OverrunByReuse
<1>7. CASE RdbCloseWrites \/ Crash \/ OverrunSaves
  BY <1>7 DEF RdbCloseWrites, Crash, OverrunSaves, MemoryGone, OverrunByReuse
<1>8. CASE \/ \E k \in Keys, d \in Data : RdbWriteValueDirect(k, d)
           \/ \E k \in Keys : RdbDeleteEntry(k)
           \/ RdbCloseTruncates
  BY <1>1, <1>8 DEF RdbWriteValueDirect, RdbDeleteEntry, RdbCloseTruncates, OverrunByReuse
<1>9. CASE UNCHANGED vars
  BY <1>1, <1>9 DEF vars, OverrunByReuse
<1> QED
  BY <1>2, <1>3, <1>4, <1>5, <1>6, <1>7, <1>8, <1>9 DEF Next

------------------------------------------------------------------------------
LEMMA NextInv == PoolInv /\ [Next]_vars => PoolInv'
<1> SUFFICES ASSUME PoolInv, [Next]_vars PROVE Layout'
  BY OverrunByReuseInv DEF PoolInv, Layout
<1>1. CASE StartEmpty
  BY <1>1, StartEmptyInv
<1>2. CASE RdbLoadFromFile
  BY <1>2, LoadInv
<1>3. CASE \E k \in Keys, d \in Data : RdbNewEntry(k, d)
  <2>1. ASSUME NEW k \in Keys, NEW d \in Data, NewEntryAtEnd(k, d)
        PROVE  Layout'
    BY <2>1, PlacedAtEndInv DEF NewEntryAtEnd, Creates
  <2> QED
    BY <1>3, <2>1, NewEntryInFreeBlockInv, StillInv DEF RdbNewEntry
<1>4. CASE \E k \in Keys, d \in Data : RdbWriteValueDirect(k, d)
  BY <1>4, WriteInv
<1>5. CASE \E k \in Keys : RdbDeleteEntry(k)
  BY <1>5, DeleteInv
<1>6. CASE RdbCloseTruncates
  BY <1>6, TruncateInv
<1>7. CASE RdbCloseWrites
  BY <1>7, CloseInv
<1>8. CASE Crash \/ OverrunSaves
  BY <1>8, CrashInv, OverrunSavesInv
<1>9. CASE RdbGrow \/ RdbGrowOverruns \/ RdbGrowFails
  BY <1>9, GrowInv, StillInv
<1>10. CASE GrownEnough
  <2>1. wanted.key \in Keys /\ wanted.data \in Data /\ wanted.key \notin DOMAIN map
    BY <1>10 DEF GrownEnough, PoolInv, TypeOK
  <2> QED
    BY <1>10, <2>1, PlacedAtEndInv DEF GrownEnough
<1>11. CASE UNCHANGED vars
  BY <1>11 DEF vars, PoolInv, Layout, TypeOK, BlocksApart, BlocksInPool, FileSound, Dormant,
               BlockOf, EntryBlock
<1> QED
  BY <1>1, <1>2, <1>3, <1>4, <1>5, <1>6, <1>7, <1>8, <1>9, <1>10, <1>11 DEF Next

(* The inductive invariant holds of every behaviour of the pool.           *)
THEOREM PoolInvariant == Spec => []PoolInv
<1>1. Init => PoolInv
  BY InitPoolInv
<1>2. PoolInv /\ [Next]_vars => PoolInv'
  BY NextInv
<1> QED
  BY <1>1, <1>2, PTL DEF Spec

(* Every variable of the pool keeps its shape: in particular memory is      *)
(* always exactly _rdb_size cells (RdbInit, RdbGrow).                       *)
THEOREM PoolTypeCorrect == Spec => []TypeOK
<1>1. PoolInv => TypeOK
  BY DEF PoolInv
<1> QED
  BY <1>1, PoolInvariant, PTL

(* Writing one entry can never change another, nor can an entry be placed   *)
(* over a live one (RdbAllocate, RdbFree, RdbGrow, RdbLoadFromFile).        *)
THEOREM EntriesNeverOverlap == Spec => []BlocksApart
<1>1. PoolInv => BlocksApart
  BY DEF PoolInv
<1> QED
  BY <1>1, PoolInvariant, PTL

(* No entry is ever written outside the pool, and every entry lies in the   *)
(* part of it that RdbGrow and RdbSaveToFile copy.                          *)
THEOREM EntriesStayInPool == Spec => []BlocksInPool
<1>1. PoolInv => BlocksInPool
  BY DEF PoolInv
<1> QED
  BY <1>1, PoolInvariant, PTL

------------------------------------------------------------------------------
(* The pool implements RdbStore.  A value is read from the cells of its     *)
(* block, so what leaves those cells alone leaves the value alone; and a    *)
(* file that was not written by RdbClose holds no key.                      *)
FileBlank == file.state # "saved" => DOMAIN file.map = {}
StoreInv == PoolInv /\ FileBlank

ValueAt(m, a) == [i \in 1 .. m[a] |-> m[a + Hdr + i - 1]]

LEMMA ValueSame ==
  ASSUME NEW m, NEW t, NEW a \in Nat, m[a] \in Nat,
         \A c \in a .. a + Total(m[a]) - 1 : t[c] = m[c]
  PROVE  ValueAt(t, a) = ValueAt(m, a)
<1>1. Hdr \in Nat /\ Hdr > 0
  BY PoolAssumption
<1>2. t[a] = m[a]
  BY <1>1 DEF Total
<1>3. \A i \in 1 .. m[a] : a + Hdr + i - 1 \in a .. a + Total(m[a]) - 1
  BY <1>1 DEF Total
<1> QED
  BY <1>2, <1>3 DEF ValueAt

(* The entries of mp lie below cell n of memory m.                          *)
EntriesBelow(mp, m, n) ==
  \A k \in DOMAIN mp : mp[k] \in Nat /\ m[mp[k]] \in Nat /\ mp[k] + Total(m[mp[k]]) <= n

LEMMA ValuesSame ==
  ASSUME NEW mp, NEW m, NEW t, NEW n \in Nat, EntriesBelow(mp, m, n),
         \A c \in 0 .. n - 1 : t[c] = m[c]
  PROVE  Values(mp, t) = Values(mp, m)
<1>1. Hdr \in Nat
  BY PoolAssumption
<1>2. ASSUME NEW k \in DOMAIN mp
      PROVE  ValueAt(t, mp[k]) = ValueAt(m, mp[k])
  <2> DEFINE a == mp[k]
  <2>1. a \in Nat /\ m[a] \in Nat /\ a + Total(m[a]) <= n
    BY DEF EntriesBelow
  <2>2. Total(m[a]) \in Nat
    BY <1>1, <2>1 DEF Total
  <2> HIDE DEF a
  <2>3. \A c \in a .. a + Total(m[a]) - 1 : t[c] = m[c]
    BY <2>1, <2>2
  <2>4. ValueAt(t, a) = ValueAt(m, a)
    BY <2>1, <2>3, ValueSame
  <2> QED
    BY <2>4 DEF a
<1> QED
  BY <1>2 DEF Values, ValueAt

LEMMA LiveBelow ==
  ASSUME PoolInv
  PROVE  EntriesBelow(map, mem, size) /\ EntriesBelow(map, mem, offset)
<1>1. /\ size \in Nat /\ mem \in [0 .. size - 1 -> Nat] /\ map \in [DOMAIN map -> Nat]
  BY DEF PoolInv, TypeOK
<1>2. ASSUME NEW k \in DOMAIN map
      PROVE  /\ map[k] \in 0 .. size - 1
             /\ map[k] + Total(mem[map[k]]) <= size /\ map[k] + Total(mem[map[k]]) <= offset
  BY <1>1 DEF PoolInv, BlocksInPool, BlockOf, EntryBlock
<1> QED
  BY <1>1, <1>2 DEF EntriesBelow

LEMMA SavedBelow == PoolInv => EntriesBelow(file.map, file.mem, file.offset)
<1> SUFFICES ASSUME PoolInv PROVE EntriesBelow(file.map, file.mem, file.offset)
  OBVIOUS
<1>1. /\ file.offset \in Nat /\ file.mem \in [0 .. file.offset - 1 -> Nat]
      /\ file.map \in [DOMAIN file.map -> Nat]
  BY DEF PoolInv, TypeOK
<1>2. ASSUME NEW k \in DOMAIN file.map
      PROVE  /\ file.map[k] \in 0 .. file.offset - 1
             /\ file.map[k] + Total(file.mem[file.map[k]]) <= file.offset
  BY <1>1 DEF PoolInv, FileSound
<1> QED
  BY <1>1, <1>2 DEF EntriesBelow

(* The values vs and one more.                                              *)
ValuesWith(vs, k, d) == [x \in DOMAIN vs \cup {k} |-> IF x = k THEN d ELSE vs[x]]

(* A new entry holds the value it was created with, and the others keep     *)
(* theirs.                                                                  *)
LEMMA PlacedValues ==
  ASSUME NEW n, NEW m, NEW mp, NEW k, NEW d, NEW at, RoomFor(mp, m, n, k, d, at)
  PROVE  Values(WithEntry(mp, k, at), Placed(m, at, d)) = ValuesWith(Values(mp, m), k, d)
<1> DEFINE q == Placed(m, at, d)
           mq == WithEntry(mp, k, at)
<1>1. /\ n \in Nat /\ m \in [0 .. n - 1 -> Nat] /\ mp \in [DOMAIN mp -> Nat] /\ k \notin DOMAIN mp
      /\ d \in Data /\ at \in Nat /\ at + Total(Len(d)) <= n /\ Hdr \in Nat /\ Hdr > 0
  BY PoolAssumption DEF RoomFor
<1>2. /\ Len(d) \in Nat /\ q[at] = Len(d)
      /\ \A i \in 1 .. Len(d) : q[at + Hdr + i - 1] = d[i]
      /\ \A c \in 0 .. n - 1 : c < at \/ c >= at + Total(Len(d)) => q[c] = m[c]
  BY SMTT(30), <1>1, PlacedCells
<1> HIDE DEF q
<1>3. ValueAt(q, at) = d
  <2>1. d \in Seq(Nat)
    BY <1>1, PoolAssumption
  <2> QED
    BY <1>2, <2>1 DEF ValueAt
<1>4. ASSUME NEW x \in DOMAIN mp
      PROVE  ValueAt(q, mp[x]) = ValueAt(m, mp[x])
  <2> DEFINE a == mp[x]
  <2>1. a \in 0 .. n - 1 /\ m[a] \in Nat /\ a + Total(m[a]) <= n
    BY <1>1 DEF RoomFor, EntriesSound
  <2>2. a + Total(m[a]) <= at \/ at + Total(Len(d)) <= a
    BY DEF RoomFor, Apart, EntryBlock
  <2>3. Total(m[a]) \in Nat /\ Total(Len(d)) \in Nat
    BY <1>1, <1>2, <2>1 DEF Total
  <2> HIDE DEF a
  <2>4. ASSUME NEW c \in a .. a + Total(m[a]) - 1
        PROVE  c \in 0 .. n - 1 /\ (c < at \/ c >= at + Total(Len(d)))
    BY <1>1, <2>1, <2>2, <2>3
  <2>5. \A c \in a .. a + Total(m[a]) - 1 : q[c] = m[c]
    BY <1>2, <2>4
  <2>6. ValueAt(q, a) = ValueAt(m, a)
    BY <2>1, <2>5, ValueSame
  <2> QED
    BY <2>6 DEF a
<1>5. Values(mq, q) = [x \in DOMAIN mp \cup {k} |-> ValueAt(q, IF x = k THEN at ELSE mp[x])]
  BY DEF Values, ValueAt, WithEntry
<1>6. /\ DOMAIN Values(mp, m) = DOMAIN mp
      /\ \A x \in DOMAIN mp : Values(mp, m)[x] = ValueAt(m, mp[x])
  BY DEF Values, ValueAt
<1> QED
  BY <1>1, <1>3, <1>4, <1>5, <1>6 DEF q, ValuesWith

------------------------------------------------------------------------------
(* Each step of the pool is a step of the store or leaves it as it is.      *)
LEMMA StoreInit == Init => Store!Init
  BY DEF Init, Store!Init, Store!Nothing, Values, EmptyMap

LEMMA StartEmptyStores == StoreInv /\ StartEmpty => Store!Start
<1> SUFFICES ASSUME StoreInv, StartEmpty PROVE Store!Start
  OBVIOUS
<1>1. DOMAIN map = {} /\ map' = map /\ file' = file /\ phase' = "up" /\ phase = "down"
      /\ file.state # "torn"
  BY DEF StoreInv, PoolInv, Dormant, StartEmpty
<1>2. DOMAIN file.map = {}
  BY DEF StoreInv, PoolInv, FileSound, FileBlank, StartEmpty, TypeOK
<1>3. Values(map, mem)' = Values(file.map, file.mem)
  BY <1>1, <1>2 DEF Values
<1> QED
  BY <1>1, <1>3 DEF Store!Start

LEMMA LoadStores == StoreInv /\ RdbLoadFromFile => Store!Start
<1> SUFFICES ASSUME StoreInv, RdbLoadFromFile PROVE Store!Start
  OBVIOUS
<1> DEFINE sz == AlignUp(file.offset)
<1>1. file.offset \in Nat /\ file.mem \in [0 .. file.offset - 1 -> Nat]
  BY DEF StoreInv, PoolInv, TypeOK
<1>2. sz \in Nat /\ sz >= file.offset
  BY <1>1, AlignUpBound
<1>3. /\ mem' = Copied(file.mem, file.offset, file.offset, sz) /\ map' = file.map
      /\ file' = file /\ phase = "down" /\ phase' = "up" /\ file.state # "torn"
  BY DEF RdbLoadFromFile
<1> HIDE DEF sz
<1>4. \A c \in 0 .. file.offset - 1 : mem'[c] = file.mem[c]
  BY <1>1, <1>2, <1>3 DEF Copied
<1>5. Values(file.map, mem') = Values(file.map, file.mem)
  BY <1>1, <1>4, SavedBelow, ValuesSame DEF StoreInv
<1> QED
  BY <1>3, <1>5 DEF Store!Start

LEMMA FreeBlockRoom ==
  ASSUME PoolInv, NEW k \in Keys, NEW d \in Data, NewEntryInFreeBlock(k, d)
  PROVE  \E at \in Nat : /\ RoomFor(map, mem, size, k, d, at)
                         /\ map' = WithEntry(map, k, at) /\ mem' = Placed(mem, at, d)
<1> DEFINE i == FirstFit(Len(d))
<1>1. /\ free \in Seq(Block) /\ mem \in [0 .. size - 1 -> Nat] /\ map \in [DOMAIN map -> Nat]
      /\ size \in Nat /\ Len(d) \in Nat /\ Total(Len(d)) \in Nat
  BY PoolAssumption, SMTT(30) DEF PoolInv, TypeOK, Block, Total
<1>2. i \in DOMAIN free /\ free[i].len >= Total(Len(d))
  <2>1. Fitting(Len(d)) \subseteq Nat /\ Fitting(Len(d)) # {}
    BY <1>1 DEF Fitting, NewEntryInFreeBlock
  <2>2. i \in Fitting(Len(d))
    BY <2>1, MinOfNats DEF FirstFit
  <2> QED
    BY <2>2 DEF Fitting
<1>3. map' = WithEntry(map, k, free[i].off) /\ mem' = Placed(mem, free[i].off, d)
      /\ k \notin DOMAIN map
  BY DEF NewEntryInFreeBlock, Creates, MapWith, WithEntry
<1> HIDE DEF i
<1>4. free[i].off \in Nat /\ free[i].len \in Nat /\ free[i].off + free[i].len <= size
  <2>1. free[i] \in Block /\ free[i].off + free[i].len <= size
    BY <1>1, <1>2 DEF PoolInv, BlocksInPool
  <2> QED
    BY <2>1 DEF Block
<1>5. ASSUME NEW x \in DOMAIN map
      PROVE  Apart(EntryBlock(map, mem, x), [off |-> free[i].off, len |-> Total(Len(d))])
  <2>1. Apart(BlockOf(x), free[i])
    BY <1>2 DEF PoolInv, BlocksApart
  <2>2. map[x] \in Nat /\ mem[map[x]] \in Nat /\ Hdr \in Nat
    BY LiveBelow, PoolAssumption DEF EntriesBelow
  <2> QED
    BY SMTT(30), <1>1, <1>2, <1>4, <2>1, <2>2 DEF Apart, BlockOf, EntryBlock, Total
<1>6. EntriesSound(map, mem, size)
  BY PoolInvParts
<1>7. RoomFor(map, mem, size, k, d, free[i].off)
  BY <1>1, <1>2, <1>3, <1>4, <1>5, <1>6 DEF RoomFor
<1> QED
  BY <1>3, <1>4, <1>7

LEMMA EndRoom ==
  ASSUME PoolInv, NEW k \in Keys, NEW d \in Data, k \notin DOMAIN map,
         RoomAtEnd(d), PlacedAtEnd(k, d)
  PROVE  /\ RoomFor(map, mem, size, k, d, offset)
         /\ map' = WithEntry(map, k, offset)
         /\ mem' = Placed(mem, offset, d)
<1>1. map' = WithEntry(map, k, offset) /\ mem' = Placed(mem, offset, d)
  BY DEF PlacedAtEnd, MapWith, WithEntry
<1>2. /\ offset \in Nat /\ size \in Nat /\ map \in [DOMAIN map -> Nat]
      /\ mem \in [0 .. size - 1 -> Nat] /\ offset + Total(Len(d)) <= size
  BY DEF PoolInv, TypeOK, RoomAtEnd
<1>3. \A x \in DOMAIN map :
        Apart(EntryBlock(map, mem, x), [off |-> offset, len |-> Total(Len(d))])
  BY DEF Apart, PoolInv, BlocksInPool, BlockOf
<1>4. EntriesSound(map, mem, size)
  BY PoolInvParts
<1>5. RoomFor(map, mem, size, k, d, offset)
  BY <1>2, <1>3, <1>4 DEF RoomFor
<1> QED
  BY <1>1, <1>5

LEMMA GrownValues ==
  ASSUME PoolInv, NEW sz \in Nat, sz >= size
  PROVE  Values(map, Grown(sz)) = Values(map, mem)
<1>1. /\ size \in Nat /\ offset \in Nat /\ mem \in [0 .. size - 1 -> Nat]
  BY DEF PoolInv, TypeOK
<1> DEFINE n == IF offset <= size THEN offset ELSE size
<1>2. n \in Nat /\ n <= size /\ n <= offset
  BY <1>1
<1>3. EntriesBelow(map, mem, n)
  BY LiveBelow DEF EntriesBelow
<1> HIDE DEF n
<1>4. \A c \in 0 .. n - 1 : Grown(sz)[c] = mem[c]
  BY <1>1, <1>2 DEF Grown, Copied
<1> QED
  BY <1>2, <1>3, <1>4, ValuesSame

(* An entry placed where there is room is one more value.                  *)
LEMMA RoomValues ==
  ASSUME NEW k \in Keys, NEW d \in Data, NEW at \in Nat,
         RoomFor(map, mem, size, k, d, at),
         map' = WithEntry(map, k, at), mem' = Placed(mem, at, d)
  PROVE  /\ k \notin DOMAIN Values(map, mem)
         /\ Values(map, mem)' = ValuesWith(Values(map, mem), k, d)
<1>1. k \notin DOMAIN Values(map, mem)
  BY DEF RoomFor, Values
<1>2. Values(map, mem)' = Values(WithEntry(map, k, at), Placed(mem, at, d))
  BY DEF Values
<1>3. Values(WithEntry(map, k, at), Placed(mem, at, d)) = ValuesWith(Values(map, mem), k, d)
  BY PlacedValues
<1> QED
  BY <1>1, <1>2, <1>3

LEMMA CreateStores ==
  ASSUME StoreInv, NEW k \in Keys, NEW d \in Data, RdbNewEntry(k, d)
  PROVE  Store!Create(k, d) \/ UNCHANGED Store!vars
<1>1. phase = "up" /\ file' = file
  BY DEF RdbNewEntry, NewEntryInFreeBlock, NewEntryAtEnd, PlacedAtEnd, NewEntryNeedsRoom, Creates
<1>2. CASE NewEntryInFreeBlock(k, d)
  <2>1. PICK at \in Nat : /\ RoomFor(map, mem, size, k, d, at)
                          /\ map' = WithEntry(map, k, at) /\ mem' = Placed(mem, at, d)
    BY <1>2, FreeBlockRoom DEF StoreInv
  <2>2. /\ k \notin DOMAIN Values(map, mem)
        /\ Values(map, mem)' = ValuesWith(Values(map, mem), k, d)
    BY <2>1, RoomValues
  <2>3. phase' = "up"
    BY <1>1, <1>2 DEF NewEntryInFreeBlock
  <2> QED
    BY <1>1, <2>2, <2>3 DEF Store!Create, ValuesWith
<1>3. CASE NewEntryAtEnd(k, d)
  <2>1. /\ RoomFor(map, mem, size, k, d, offset)
        /\ map' = WithEntry(map, k, offset) /\ mem' = Placed(mem, offset, d)
    BY <1>3, EndRoom DEF StoreInv, NewEntryAtEnd, Creates
  <2>2. /\ k \notin DOMAIN Values(map, mem)
        /\ Values(map, mem)' = ValuesWith(Values(map, mem), k, d)
    BY <2>1, RoomValues DEF RoomFor
  <2>3. phase' = "up"
    BY <1>1, <1>3 DEF NewEntryAtEnd
  <2> QED
    BY <1>1, <2>2, <2>3 DEF Store!Create, ValuesWith
<1>4. CASE NewEntryNeedsRoom(k, d)
  BY <1>1, <1>4 DEF NewEntryNeedsRoom, Store!vars, Values
<1> QED
  BY <1>2, <1>3, <1>4 DEF RdbNewEntry

(* A step of RdbGrow changes no value; or it overruns the pool.            *)
LEMMA GrowStores ==
  ASSUME StoreInv, RdbGrow \/ RdbGrowFails \/ RdbGrowOverruns
  PROVE  Store!Overrun \/ UNCHANGED Store!vars
<1>1. CASE RdbGrow
  <2>1. size \in Nat
    BY DEF StoreInv, PoolInv, TypeOK
  <2>2. Values(map, Grown(2 * size)) = Values(map, mem)
    BY <2>1, GrownValues DEF StoreInv
  <2>3. Values(map, mem)' = Values(map, mem)
    BY <1>1, <2>2 DEF RdbGrow, Grown, Values
  <2> QED
    BY <1>1, <2>3 DEF RdbGrow, Store!vars
<1>2. CASE RdbGrowFails
  BY <1>2 DEF RdbGrowFails, Store!vars, Values
<1>3. CASE RdbGrowOverruns
  BY <1>3 DEF RdbGrowOverruns, Grows, Store!Overrun, Values
<1> QED
  BY <1>1, <1>2, <1>3

(* The pool has grown enough: the entry it grew for is created.            *)
LEMMA GrownStores ==
  ASSUME StoreInv, GrownEnough
  PROVE  \E k \in Keys, d \in Data : Store!Create(k, d)
<1> DEFINE k == wanted.key
           d == wanted.data
<1>1. k \in Keys /\ d \in Data /\ k \notin DOMAIN map
  BY DEF GrownEnough, StoreInv, PoolInv, TypeOK
<1>2. RoomAtEnd(d) /\ PlacedAtEnd(k, d) /\ phase = "growing" /\ phase' = "up" /\ file' = file
  BY DEF GrownEnough, PlacedAtEnd
<1> HIDE DEF k, d
<1>3. /\ RoomFor(map, mem, size, k, d, offset)
      /\ map' = WithEntry(map, k, offset) /\ mem' = Placed(mem, offset, d)
  BY <1>1, <1>2, EndRoom DEF StoreInv
<1>4. /\ k \notin DOMAIN Values(map, mem)
      /\ Values(map, mem)' = ValuesWith(Values(map, mem), k, d)
  BY <1>1, <1>3, RoomValues DEF RoomFor
<1>5. Store!Create(k, d)
  BY <1>2, <1>4 DEF Store!Create, ValuesWith
<1> QED
  BY <1>1, <1>5

LEMMA WriteStores ==
  ASSUME StoreInv, NEW k \in Keys, NEW d \in Data, RdbWriteValueDirect(k, d)
  PROVE  Store!Write(k, d)
<1> DEFINE a == map[k]
<1>1. /\ k \in DOMAIN map /\ Len(d) = mem[a] /\ phase = "up" /\ phase' = phase
      /\ file' = file /\ map' = map /\ Hdr \in Nat /\ Hdr > 0 /\ d \in Seq(Nat)
  BY PoolAssumption DEF RdbWriteValueDirect
<1>2. /\ size \in Nat /\ mem \in [0 .. size - 1 -> Nat]
  BY DEF StoreInv, PoolInv, TypeOK
<1>3. /\ \A x \in DOMAIN map : /\ map[x] \in Nat /\ mem[map[x]] \in Nat
                               /\ map[x] + Total(mem[map[x]]) <= size
      /\ \A x \in DOMAIN map \ {k} : Apart(BlockOf(x), BlockOf(k))
  BY <1>1, LiveBelow DEF EntriesBelow, StoreInv, PoolInv, BlocksApart
<1>4. \A c \in 0 .. size - 1 :
        mem'[c] = IF c >= a + Hdr /\ c < a + Total(Len(d)) THEN d[c - a - Hdr + 1] ELSE mem[c]
  BY <1>2 DEF RdbWriteValueDirect
<1>5. ValueAt(mem', a) = d
  <2> HIDE DEF a
  <2>1. /\ a \in Nat /\ a + Hdr + Len(d) <= size /\ Len(d) \in Nat
        /\ Hdr \in Nat /\ Hdr > 0 /\ size \in Nat
    BY <1>1, <1>2, <1>3 DEF a, Total
  <2>2. mem'[a] = Len(d)
    BY <1>1, <1>2, <1>4, <2>1
  <2>3. ASSUME NEW i \in 1 .. Len(d)
        PROVE  mem'[a + Hdr + i - 1] = d[i]
    <3> DEFINE c == a + Hdr + i - 1
    <3>1. c \in 0 .. size - 1 /\ c >= a + Hdr /\ c < a + Total(Len(d)) /\ c - a - Hdr + 1 = i
      BY <2>1 DEF Total
    <3> HIDE DEF c
    <3>2. mem'[c] = d[i]
      BY <1>4, <3>1
    <3> QED
      BY <3>2 DEF c
  <2> QED
    BY <1>1, <2>2, <2>3 DEF ValueAt
<1>6. ASSUME NEW x \in DOMAIN map, x # k
      PROVE  ValueAt(mem', map[x]) = ValueAt(mem, map[x])
  <2> DEFINE b == map[x]
  <2>1. b \in Nat /\ mem[b] \in Nat /\ b + Total(mem[b]) <= size /\ a \in Nat
        /\ Total(mem[b]) \in Nat /\ Len(d) \in Nat
    BY <1>1, <1>3 DEF Total
  <2>2. b + Total(mem[b]) <= a \/ a + Total(Len(d)) <= b
    BY <1>1, <1>3, <1>6 DEF Apart, BlockOf, EntryBlock
  <2> HIDE DEF a, b
  <2>3. \A c \in b .. b + Total(mem[b]) - 1 :
          c \in 0 .. size - 1 /\ ~ (c >= a + Hdr /\ c < a + Total(Len(d)))
    <3>1. Hdr \in Nat /\ size \in Nat /\ Total(Len(d)) \in Nat
      BY SMTT(30), <1>1, <1>2, <2>1 DEF Total
    <3> QED
      BY <2>1, <2>2, <3>1
  <2>4. \A c \in b .. b + Total(mem[b]) - 1 : mem'[c] = mem[c]
    BY <1>4, <2>3
  <2>5. ValueAt(mem', b) = ValueAt(mem, b)
    BY <2>1, <2>4, ValueSame
  <2> QED
    BY <2>5 DEF b
<1>7. Values(map, mem)' = [Values(map, mem) EXCEPT ![k] = d]
  <2>1. Values(map, mem)' = [x \in DOMAIN map |-> ValueAt(mem', map[x])]
    BY <1>1 DEF Values, ValueAt
  <2>2. Values(map, mem) = [x \in DOMAIN map |-> ValueAt(mem, map[x])]
    BY DEF Values, ValueAt
  <2> QED
    BY <1>5, <1>6, <2>1, <2>2
<1>8. DOMAIN Values(map, mem) = DOMAIN map /\ Len(Values(map, mem)[k]) = Len(d)
  <2> DEFINE v == [i \in 1 .. Len(d) |-> mem[a + Hdr + i - 1]]
  <2>1. Values(map, mem)[k] = v /\ DOMAIN Values(map, mem) = DOMAIN map
    BY <1>1 DEF Values
  <2>2. Len(d) \in Nat
    BY <1>1
  <2>3. ASSUME NEW i \in 1 .. Len(d)
        PROVE  mem[a + Hdr + i - 1] \in Nat
    <3>1. a \in Nat /\ a + Hdr + Len(d) <= size
      BY <1>1, <1>3 DEF Total
    <3> HIDE DEF a
    <3>2. a + Hdr + i - 1 \in 0 .. size - 1
      BY <1>1, <1>2, <2>2, <3>1
    <3> QED
      BY <1>2, <3>2
  <2>4. v \in [1 .. Len(d) -> Nat]
    BY <2>3
  <2> HIDE DEF v
  <2>5. v \in Seq(Nat)
    BY <2>2, <2>4, SeqDef
  <2>6. Len(v) = Len(d)
    BY <2>2, <2>4, <2>5, LenProperties
  <2> QED
    BY <2>1, <2>6
<1> QED
  BY <1>1, <1>7, <1>8 DEF Store!Write

LEMMA DeleteStores ==
  ASSUME StoreInv, NEW k \in Keys, RdbDeleteEntry(k)
  PROVE  Store!Delete(k)
<1>1. /\ phase = "up" /\ phase' = phase /\ file' = file /\ mem' = mem /\ k \in DOMAIN map
      /\ map' = [x \in DOMAIN map \ {k} |-> map[x]]
  BY DEF RdbDeleteEntry
<1>2. /\ DOMAIN Values(map, mem) = DOMAIN map
      /\ Values(map, mem)' = [x \in DOMAIN map \ {k} |-> Values(map, mem)[x]]
  BY <1>1 DEF Values
<1> QED
  BY <1>1, <1>2 DEF Store!Delete

LEMMA TruncateStores == StoreInv /\ RdbCloseTruncates => Store!BeginSave
  BY DEF RdbCloseTruncates, Store!BeginSave, Store!Nothing, Values, EmptyMap

LEMMA CloseStores == StoreInv /\ RdbCloseWrites => Store!EndSave
<1> SUFFICES ASSUME StoreInv, RdbCloseWrites PROVE Store!EndSave
  OBVIOUS
<1> DEFINE t == Copied(mem, size, offset, offset)
           n == IF offset <= size THEN offset ELSE size
<1>1. /\ file'.map = map /\ file'.mem = t /\ file'.state = "saved"
      /\ phase = "saving" /\ phase' = "down" /\ map' = EmptyMap
  BY DEF RdbCloseWrites, MemoryGone
<1>2. size \in Nat /\ offset \in Nat /\ mem \in [0 .. size - 1 -> Nat]
  BY DEF StoreInv, PoolInv, TypeOK
<1>3. EntriesBelow(map, mem, n) /\ n \in Nat /\ n <= size /\ n <= offset
  BY <1>2, LiveBelow DEF StoreInv, EntriesBelow
<1>4. \A c \in 0 .. n - 1 : t[c] = mem[c]
  <2> HIDE DEF n
  <2> QED
    BY <1>2, <1>3 DEF Copied
<1> HIDE DEF t, n
<1>5. Values(map, t) = Values(map, mem)
  BY <1>3, <1>4, ValuesSame
<1>6. Values(map, mem)' = Store!Nothing
  BY <1>1 DEF Values, EmptyMap, Store!Nothing
<1> QED
  BY <1>1, <1>5, <1>6 DEF Store!EndSave

LEMMA CrashStores == StoreInv /\ Crash => Store!Crash
  BY DEF Crash, MemoryGone, Store!Crash, Store!Nothing, Values, EmptyMap

LEMMA OverrunSavesStores == StoreInv /\ OverrunSaves => Store!OverrunSaves
  BY DEF OverrunSaves, MemoryGone, Store!OverrunSaves, Store!Nothing, Values, EmptyMap

LEMMA StoreInvNext == StoreInv /\ [Next]_vars => StoreInv'
<1> SUFFICES ASSUME StoreInv, [Next]_vars PROVE FileBlank'
  BY NextInv DEF StoreInv
<1>1. CASE UNCHANGED file
  BY <1>1 DEF StoreInv, FileBlank
<1>2. CASE RdbCloseTruncates
  BY <1>2 DEF RdbCloseTruncates, FileBlank, EmptyMap
<1>3. CASE RdbCloseWrites
  BY <1>3 DEF RdbCloseWrites, FileBlank
<1>4. CASE OverrunSaves
  BY <1>4 DEF OverrunSaves, FileBlank, EmptyMap
<1> QED
  BY <1>1, <1>2, <1>3, <1>4 DEF Next, vars, StartEmpty, RdbLoadFromFile, RdbNewEntry,
     NewEntryInFreeBlock, NewEntryAtEnd, PlacedAtEnd, NewEntryNeedsRoom, RdbGrow,
     RdbGrowOverruns, RdbGrowFails, GrownEnough, RdbDeleteEntry, RdbWriteValueDirect, Crash

(* The pool implements the store: through growth, reuse of freed space,     *)
(* close, crash and start, every key reads as it was last written, until a  *)
(* copy of RdbGrow overruns the new block, for any keys, values, header     *)
(* size, alignment and bounds (mxrdb.cpp).                                  *)
THEOREM PoolImplementsStore == Spec => ImplementsStore
<1>1. Init => StoreInv /\ Store!Init
  BY InitPoolInv, StoreInit DEF StoreInv, FileBlank, Init, EmptyMap
<1>2. StoreInv /\ [Next]_vars => StoreInv'
  BY StoreInvNext
<1>3. StoreInv /\ [Next]_vars => [Store!Next]_(Store!vars)
  <2> SUFFICES ASSUME StoreInv, [Next]_vars PROVE Store!Next \/ UNCHANGED Store!vars
    OBVIOUS
  <2>1. CASE StartEmpty
    BY <2>1, StartEmptyStores DEF Store!Next
  <2>2. CASE RdbLoadFromFile
    BY <2>2, LoadStores DEF Store!Next
  <2>3. CASE \E k \in Keys, d \in Data : RdbNewEntry(k, d)
    BY <2>3, CreateStores DEF Store!Next
  <2>4. CASE \E k \in Keys, d \in Data : RdbWriteValueDirect(k, d)
    BY <2>4, WriteStores DEF Store!Next
  <2>5. CASE \E k \in Keys : RdbDeleteEntry(k)
    BY <2>5, DeleteStores DEF Store!Next
  <2>6. CASE RdbCloseTruncates
    BY <2>6, TruncateStores DEF Store!Next
  <2>7. CASE RdbCloseWrites
    BY <2>7, CloseStores DEF Store!Next
  <2>8. CASE Crash
    BY <2>8, CrashStores DEF Store!Next
  <2>9. CASE RdbGrow \/ RdbGrowOverruns \/ RdbGrowFails
    BY <2>9, GrowStores DEF Store!Next
  <2>10. CASE GrownEnough
    BY <2>10, GrownStores DEF Store!Next
  <2>11. CASE OverrunSaves
    BY <2>11, OverrunSavesStores DEF Store!Next
  <2>12. CASE UNCHANGED vars
    BY <2>12 DEF vars, Store!vars, Values
  <2> QED
    BY <2>1, <2>2, <2>3, <2>4, <2>5, <2>6, <2>7, <2>8, <2>9, <2>10, <2>11, <2>12 DEF Next
<1> QED
  BY <1>1, <1>2, <1>3, PTL DEF Spec, ImplementsStore, Store!Spec
=============================================================================
