------------------------------- MODULE RdbPool -------------------------------
(***************************************************************************)
(* The memory pool of the realtime database, rdb/mxrdb.cpp: one block of   *)
(* memory holds every entry (a header and its data), a map gives the       *)
(* offset of the entry of each key, deleted entries leave free blocks that *)
(* later entries are placed in first-fit, and the pool doubles when an     *)
(* entry does not fit after the last one.  The pool is saved to rdb.bin    *)
(* when the server closes and loaded from it when the server starts.       *)
(*                                                                         *)
(* Memory is an array of cells.  An entry is Hdr cells of header, whose    *)
(* first one holds the length of the data, and then the data.  Cells that  *)
(* the program never wrote, and cells it copies from outside the pool,     *)
(* hold Junk.  RdbNewEntry, RdbDeleteEntry and RdbClose hold _rdb_rw_lock  *)
(* exclusively and RdbWriteValueDirect holds the entry's lock, so each of  *)
(* them is one step, but for two: the save, since the file is truncated    *)
(* before it is written, and a creation that has the pool grow, which is   *)
(* a step for each RdbGrow.  Timestamps, types, statistics and events are  *)
(* left out (events and watches are other modules).                        *)
(*                                                                         *)
(* _rdb_offset also advances when a freed block is reused, so it can pass  *)
(* the size of the pool.  RdbGrow copies that many bytes: what it reads    *)
(* past the old block is Junk, but when they are more than the new block   *)
(* holds it writes past that one, over memory of others.  The pool is then *)
(* "overrun": what the process still does is not known, until it ends.     *)
(***************************************************************************)
EXTENDS Naturals, Sequences, SequencesExt

CONSTANTS
  Keys,         (* names of keys                                            *)
  Data,         (* values: nonempty sequences of cells                      *)
  Hdr,          (* cells of sizeof(RdbEntry)                                *)
  Align,        (* the pool's size is a multiple of this, 1024 in the code  *)
  InitSize,     (* size asked for by SysInitializeExperiment                *)
  MaxSize,      (* bound: RdbGrow cannot allocate more than this            *)
  MaxOffset,    (* bound: _rdb_offset when an entry is created, which       *)
                (*   nothing in the code bounds                            *)
  Junk          (* content of a cell nobody wrote                           *)

ASSUME PoolAssumption ==
  /\ Hdr \in Nat \ {0}
  /\ Align \in Nat \ {0}
  /\ InitSize \in Nat \ {0}
  /\ MaxSize \in Nat
  /\ MaxOffset \in Nat
  /\ Junk \in Nat
  /\ \A d \in Data : d \in Seq(Nat) /\ Len(d) > 0

VARIABLES
  phase,        (* "down" | "up" | "saving": RdbInit .. RdbClose;           *)
                (*   "growing": RdbNewEntry needs room; "overrun"          *)
  size,         (* _rdb_size                                                *)
  offset,       (* _rdb_offset                                              *)
  map,          (* _rdb_offset_map: the offset of each existing key         *)
  free,         (* _rdb_free_blocks, in order: records [off, len]           *)
  mem,          (* the cells at _rdb_handle                                 *)
  wanted,       (* the entry that is created, while the pool grows for it   *)
  file,         (* rdb.bin; "torn" when what is in it is not known          *)
  reused        (* history: cells of freed blocks that were used again      *)

vars == <<phase, size, offset, map, free, mem, wanted, file, reused>>

------------------------------------------------------------------------------
EmptyMap == [k \in {} |-> 0]
NoMemory == [c \in {} |-> Junk]
NoEntry == [key |-> "none", data |-> <<>>]

(* RdbCalculateEntryTotalSize of an entry with n cells of data.            *)
Total(n) == Hdr + n

(* The block of key k under offset map mp and memory m, read through the    *)
(* entry's header; the block of a key of the running pool.                  *)
EntryBlock(mp, m, k) == [off |-> mp[k], len |-> Total(m[mp[k]])]
BlockOf(k) == EntryBlock(map, mem, k)

(* Fault: the size is rounded down (PoolInv).                              *)
AlignDown(n) == Align * (n \div Align)

AlignUp(n) == IF n % Align = 0 THEN n ELSE Align * ((n \div Align) + 1)

(* Fault: the last cell is not copied (ImplementsStore).                   *)
CopiedShort(m, sz, n, cells) ==
  [c \in 0 .. cells - 1 |-> IF c < n - 1 /\ c < sz THEN m[c] ELSE Junk]

(* The first n cells of memory m of sz cells, in an array of `cells` cells.*)
Copied(m, sz, n, cells) ==
  [c \in 0 .. cells - 1 |-> IF c < n /\ c < sz THEN m[c] ELSE Junk]

(* Memory m with an entry for d placed at offset `at`.                     *)
Placed(m, at, d) ==
  [c \in DOMAIN m |->
     IF c = at THEN Len(d)
     ELSE IF c > at /\ c < at + Hdr THEN Junk
     ELSE IF c >= at + Hdr /\ c < at + Total(Len(d)) THEN d[c - at - Hdr + 1]
     ELSE m[c]]

------------------------------------------------------------------------------
Init ==
  /\ phase = "down"
  /\ size = 0
  /\ offset = 0
  /\ map = EmptyMap
  /\ free = <<>>
  /\ mem = NoMemory
  /\ wanted = NoEntry
  /\ reused = 0
  /\ file = [state |-> "none", map |-> EmptyMap, offset |-> 0, mem |-> NoMemory]

(* RdbInit on a home directory without rdb.bin, or with one that holds no   *)
(* entry: an empty pool of the default size.                               *)
StartEmpty ==
  /\ phase = "down"
  /\ \/ file.state = "none"
     \/ file.state = "saved" /\ file.offset = 0
  /\ phase' = "up"
  /\ size' = AlignUp(InitSize)
  /\ mem' = Copied(NoMemory, 0, 0, AlignUp(InitSize))
  /\ UNCHANGED <<offset, map, free, wanted, file, reused>>

(* RdbInit with a saved pool: the pool is exactly as long as what was saved *)
(* (rounded up), and the free blocks are not restored.                      *)
RdbLoadFromFile ==
  /\ phase = "down"
  /\ file.state = "saved"
  /\ file.offset > 0
  /\ phase' = "up"
  /\ size' = AlignUp(file.offset)
  /\ offset' = file.offset
  /\ map' = file.map
  /\ mem' = Copied(file.mem, file.offset, file.offset, AlignUp(file.offset))
  /\ UNCHANGED <<free, wanted, file, reused>>

------------------------------------------------------------------------------
(* RdbAllocate.  The free blocks that can hold n cells of data, and the     *)
(* first of them.                                                           *)
Fitting(n) == {i \in DOMAIN free : free[i].len >= Total(n)}
FirstFit(n) == Min(Fitting(n))

(* Fault: the rest of a split block begins where the block did              *)
(* (BlocksApart).                                                          *)
TakeKeepsFront(i, total) ==
  IF free[i].len = total
  THEN RemoveAt(free, i)
  ELSE [free EXCEPT ![i].len = @ - total]

(* The front of block i is taken; the block is erased when nothing is left. *)
TakeFrom(i, total) ==
  IF free[i].len = total
  THEN RemoveAt(free, i)
  ELSE [free EXCEPT ![i] = [off |-> @.off + total, len |-> @.len - total]]

MapWith(k, at) == [x \in DOMAIN map \cup {k} |-> IF x = k THEN at ELSE map[x]]

(* RdbNewEntry of a key there is not; one there is is refused.             *)
Creates(k) ==
  /\ phase = "up"
  /\ k \notin DOMAIN map
  /\ offset <= MaxOffset

(* RdbNewEntry when a free block fits.  _rdb_offset advances all the same.  *)
NewEntryInFreeBlock(k, d) ==
  /\ Creates(k)
  /\ Fitting(Len(d)) # {}
  /\ LET i == FirstFit(Len(d))
         at == free[i].off
     IN  /\ free' = TakeFrom(i, Total(Len(d)))
         /\ map' = MapWith(k, at)
         /\ mem' = Placed(mem, at, d)
  /\ offset' = offset + Total(Len(d))
  /\ reused' = reused + Total(Len(d))
  /\ UNCHANGED <<phase, size, wanted, file>>

(* The entry is placed after the last one.                                 *)
RoomAtEnd(d) == offset + Total(Len(d)) <= size

PlacedAtEnd(k, d) ==
  /\ map' = MapWith(k, offset)
  /\ mem' = Placed(mem, offset, d)
  /\ offset' = offset + Total(Len(d))
  /\ UNCHANGED <<size, free, file, reused>>

NewEntryAtEnd(k, d) ==
  /\ Creates(k)
  /\ Fitting(Len(d)) = {}
  /\ RoomAtEnd(d)
  /\ PlacedAtEnd(k, d)
  /\ UNCHANGED <<phase, wanted>>

(* RdbNewEntry when it neither fits in a free block nor at the end.  The    *)
(* lock is held until the entry is placed, or RdbGrow fails.                *)
NewEntryNeedsRoom(k, d) ==
  /\ Creates(k)
  /\ Fitting(Len(d)) = {}
  /\ ~ RoomAtEnd(d)
  /\ phase' = "growing"
  /\ wanted' = [key |-> k, data |-> d]
  /\ UNCHANGED <<size, offset, map, free, mem, file, reused>>

(* RdbGrow: a block of twice the size, to which _rdb_offset cells of the    *)
(* old one are copied and every entry is moved ...                          *)
Grows ==
  /\ phase = "growing"
  /\ ~ RoomAtEnd(wanted.data)
  /\ 2 * size <= MaxSize

RdbGrow ==
  /\ Grows
  /\ offset <= 2 * size
  /\ size' = 2 * size
  /\ mem' = Copied(mem, size, offset, 2 * size)
  /\ UNCHANGED <<phase, offset, map, free, wanted, file, reused>>

(* ... or the copy runs over the end of the new block.                      *)
RdbGrowOverruns ==
  /\ Grows
  /\ offset > 2 * size
  /\ phase' = "overrun"
  /\ UNCHANGED <<size, offset, map, free, mem, wanted, file, reused>>

(* RdbGrow cannot allocate: there is no entry, but the doublings that did   *)
(* succeed stay.                                                            *)
RdbGrowFails ==
  /\ phase = "growing"
  /\ ~ RoomAtEnd(wanted.data)
  /\ 2 * size > MaxSize
  /\ phase' = "up"
  /\ wanted' = NoEntry
  /\ UNCHANGED <<size, offset, map, free, mem, file, reused>>

(* RdbAllocate, called again by itself, finds room.                         *)
GrownEnough ==
  /\ phase = "growing"
  /\ RoomAtEnd(wanted.data)
  /\ PlacedAtEnd(wanted.key, wanted.data)
  /\ phase' = "up"
  /\ wanted' = NoEntry

RdbNewEntry(k, d) ==
  \/ NewEntryInFreeBlock(k, d)
  \/ NewEntryAtEnd(k, d)
  \/ NewEntryNeedsRoom(k, d)

(* RdbDeleteEntry and RdbFree: the block goes to the end of the free list,  *)
(* unmerged, and _rdb_offset stays.                                         *)
RdbDeleteEntry(k) ==
  /\ phase = "up"
  /\ k \in DOMAIN map
  /\ map' = [x \in DOMAIN map \ {k} |-> map[x]]
  /\ free' = Append(free, BlockOf(k))
  /\ UNCHANGED <<phase, size, offset, mem, wanted, file, reused>>

(* RdbWriteValueDirect: refused unless the length is that of the entry.     *)
RdbWriteValueDirect(k, d) ==
  /\ phase = "up"
  /\ k \in DOMAIN map
  /\ Len(d) = mem[map[k]]
  /\ mem' = [c \in DOMAIN mem |->
               IF c >= map[k] + Hdr /\ c < map[k] + Total(Len(d))
               THEN d[c - map[k] - Hdr + 1]
               ELSE mem[c]]
  /\ UNCHANGED <<phase, size, offset, map, free, wanted, file, reused>>

------------------------------------------------------------------------------
(* RdbClose: SysWriteBinFile opens rdb.bin, which truncates it ...          *)
RdbCloseTruncates ==
  /\ phase = "up"
  /\ phase' = "saving"
  /\ file' = [state |-> "torn", map |-> EmptyMap, offset |-> 0, mem |-> NoMemory]
  /\ UNCHANGED <<size, offset, map, free, mem, wanted, reused>>

MemoryGone ==
  /\ phase' = "down"
  /\ size' = 0
  /\ offset' = 0
  /\ map' = EmptyMap
  /\ free' = <<>>
  /\ mem' = NoMemory
  /\ wanted' = NoEntry
  /\ reused' = 0

(* ... and writes the map and _rdb_offset cells of the pool; then RdbClose  *)
(* clears its state and the process ends.                                   *)
RdbCloseWrites ==
  /\ phase = "saving"
  /\ file' = [state |-> "saved", map |-> map, offset |-> offset,
              mem |-> Copied(mem, size, offset, offset)]
  /\ MemoryGone

(* The process dies: memory is gone, the file stays as it is.               *)
Crash ==
  /\ phase # "down"
  /\ MemoryGone
  /\ UNCHANGED file

(* A process whose memory was overrun gets as far as RdbClose.              *)
OverrunSaves ==
  /\ phase = "overrun"
  /\ file' = [state |-> "torn", map |-> EmptyMap, offset |-> 0, mem |-> NoMemory]
  /\ MemoryGone

Next ==
  \/ StartEmpty
  \/ RdbLoadFromFile
  \/ \E k \in Keys, d \in Data : RdbNewEntry(k, d)
  \/ \E k \in Keys, d \in Data : RdbWriteValueDirect(k, d)
  \/ \E k \in Keys : RdbDeleteEntry(k)
  \/ RdbCloseTruncates
  \/ RdbCloseWrites
  \/ RdbGrow \/ RdbGrowOverruns \/ RdbGrowFails \/ GrownEnough
  \/ Crash
  \/ OverrunSaves

Spec == Init /\ [][Next]_vars

------------------------------------------------------------------------------
(* Every variable has the shape the actions rely on.                        *)
TypeOK ==
  /\ phase \in {"down", "up", "growing", "overrun", "saving"}
  /\ size \in Nat
  /\ offset \in Nat
  /\ DOMAIN map \subseteq Keys
  /\ map \in [DOMAIN map -> Nat]
  /\ free \in Seq([off : Nat, len : Nat])
  /\ mem \in [0 .. size - 1 -> Nat]
  /\ phase \in {"growing", "overrun"} =>
       wanted \in [key : Keys, data : Data] /\ wanted.key \notin DOMAIN map
  /\ reused \in Nat
  /\ file.state \in {"none", "torn", "saved"}
  /\ file.offset \in Nat
  /\ DOMAIN file.map \subseteq Keys
  /\ file.map \in [DOMAIN file.map -> Nat]
  /\ file.mem \in [0 .. file.offset - 1 -> Nat]

Apart(a, b) == a.off + a.len <= b.off \/ b.off + b.len <= a.off

(* No two blocks of the pool, live or free, share a cell: whatever sequence *)
(* of creations, deletions, splits, growths and restarts led here, writing  *)
(* one entry cannot change another.  (RdbAllocate, RdbFree, RdbGrow)        *)
BlocksApart ==
  /\ \A k, l \in DOMAIN map : k # l => Apart(BlockOf(k), BlockOf(l))
  /\ \A k \in DOMAIN map : \A i \in DOMAIN free : Apart(BlockOf(k), free[i])
  /\ \A i, j \in DOMAIN free : i # j => Apart(free[i], free[j])

(* Every live block lies in the pool and below _rdb_offset, so that the     *)
(* copies RdbGrow and RdbSaveToFile make, which stop at _rdb_offset, take   *)
(* all of it; and no free block reaches past either.                        *)
BlocksInPool ==
  /\ \A k \in DOMAIN map : /\ map[k] < size
                           /\ BlockOf(k).off + BlockOf(k).len <= size
                           /\ BlockOf(k).off + BlockOf(k).len <= offset
  /\ \A i \in DOMAIN free : /\ free[i].off + free[i].len <= size
                            /\ free[i].off + free[i].len <= offset

(* What the file holds is a sound pool of its own, and a process that is    *)
(* not running has no pool.                                                 *)
FileSound ==
  /\ \A k \in DOMAIN file.map :
       /\ file.map[k] < file.offset
       /\ file.map[k] + Total(file.mem[file.map[k]]) <= file.offset
  /\ \A k, l \in DOMAIN file.map :
       k # l => Apart(EntryBlock(file.map, file.mem, k), EntryBlock(file.map, file.mem, l))

Dormant == phase = "down" => DOMAIN map = {} /\ free = <<>> /\ offset = 0

(* _rdb_offset is ahead of the pool's end by what was reused at most, so    *)
(* that RdbGrow never overruns the new block unless more cells were reused  *)
(* than the pool has: growth alone, creations and deletions in whatever     *)
(* order, and restarts do not bring it about.                               *)
OverrunByReuse ==
  /\ offset <= size + reused
  /\ phase = "overrun" => reused > size

(* The inductive invariant behind BlocksApart and BlocksInPool.             *)
PoolInv == TypeOK /\ BlocksApart /\ BlocksInPool /\ FileSound /\ Dormant /\ OverrunByReuse

------------------------------------------------------------------------------
(* The values the pool and the file hold, as RdbReadValueDirect reads them. *)
Values(mp, m) ==
  [k \in DOMAIN mp |-> [i \in 1 .. m[mp[k]] |-> m[mp[k] + Hdr + i - 1]]]

Store == INSTANCE RdbStore WITH
  phase    <- IF phase = "growing" THEN "up" ELSE phase,
  store    <- Values(map, mem),
  saved    <- Values(file.map, file.mem),
  readable <- file.state # "torn"

(* The pool implements the key-value store of RdbStore: every read returns  *)
(* what was last written to that key, through growth, reuse of freed space, *)
(* and a close followed by a start, as long as RdbGrow does not overrun the *)
(* pool (OverrunByReuse); of what follows that RdbStore promises nothing.   *)
ImplementsStore == Store!Spec
=============================================================================
