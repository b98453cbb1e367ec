------------------------------- MODULE HvCache -------------------------------
(***************************************************************************)
(* The block cache of the HTTP VFS (wasm/src/httpvfs.c, "Block cache: LRU, *)
(* with pinned prefetch batches"), as the rest of the VFS sees it: two     *)
(* recency lists of block numbers, most recent first.  Slots, hash chains, *)
(* the free list and the data chunks are the business of HvSlots, which    *)
(* implements this module.                                                 *)
(***************************************************************************)
EXTENDS Integers, Sequences, SequencesExt, FiniteSets

CONSTANTS
  NumBlocks,  \* blocks of the file: 0 .. NumBlocks-1
  Cap,        \* HvCache.cap: the budget, in blocks
  Hard,       \* HvCache.hard: the hard limit, in blocks
  MemFails    \* the outcomes hvSlotAlloc may have: {FALSE}, or BOOLEAN

(* hvCacheSize: at least one block of budget, and a hard limit above it.   *)
ASSUME CacheAssumption ==
  /\ NumBlocks \in Nat \ {0}
  /\ Cap \in Nat \ {0}
  /\ Hard \in Nat
  /\ Cap <= Hard
  /\ MemFails \subseteq BOOLEAN
  /\ FALSE \in MemFails

VARIABLE cache  \* [lru, pin]: unpinned and pinned blocks, most recent first

Blocks == 0 .. NumBlocks - 1

Smaller(a, b) == IF a <= b THEN a ELSE b
Monus(a, b)   == IF a >= b THEN a - b ELSE 0

Size(c)      == Len(c.lru) + Len(c.pin)
Cached(c, k) == k \in ToSet(c.lru) \cup ToSet(c.pin)
EmptyCache   == [lru |-> << >>, pin |-> << >>]

(***************************************************************************)
(* Pieces of a list.                                                       *)
(***************************************************************************)
Without(s, k)  == IF k \in ToSet(s)
                  THEN RemoveAt(s, CHOOSE i \in DOMAIN s : s[i] = k)
                  ELSE s
DropOldest(s, m) == SubSeq(s, 1, Len(s) - m)

-----------------------------------------------------------------------------
(***************************************************************************)
(* hvCacheGet with touch: the block becomes the most recently used and, if *)
(* it was pinned, is consumed.                                             *)
(***************************************************************************)
TouchBothLists(c, k) ==  \* mutant: the slot is not unlinked from the pinned list
  IF Cached(c, k)
  THEN [lru |-> << k >> \o Without(c.lru, k), pin |-> c.pin]
  ELSE c

Touch(c, k) ==
  IF Cached(c, k)
  THEN [lru |-> << k >> \o Without(c.lru, k), pin |-> Without(c.pin, k)]
  ELSE c

(* hvSlotMoveTo(.., HV_PIN, 1) on a cached block. *)
Pin(c, k) ==
  IF Cached(c, k)
  THEN [lru |-> Without(c.lru, k), pin |-> << k >> \o Without(c.pin, k)]
  ELSE c

(* hvCacheUnpinAll: the pinned blocks go to the front, in their order. *)
UnpinAll(c) == [lru |-> c.pin \o c.lru, pin |-> << >>]

(***************************************************************************)
(* hvEvict of the least valuable block: the unpinned tail, or the pinned   *)
(* tail once nothing unpinned is left.  m blocks in a row.                 *)
(***************************************************************************)
EvictAnyOrder(c, m) ==  \* mutant: the pinned list goes first
  [pin |-> DropOldest(c.pin, Smaller(m, Len(c.pin))),
   lru |-> DropOldest(c.lru, Monus(m, Len(c.pin)))]

Evict(c, m) ==
  [lru |-> DropOldest(c.lru, Smaller(m, Len(c.lru))),
   pin |-> DropOldest(c.pin, Monus(m, Len(c.lru)))]

(***************************************************************************)
(* hvCacheTrim: make room for `extra` more blocks.  First unpinned blocks  *)
(* beyond the budget, down to the floor; then anything beyond the hard     *)
(* limit.                                                                  *)
(***************************************************************************)
Floor(c, pinning) == IF pinning \/ c.pin # << >> THEN Cap \div 4 ELSE 0

ToBudget(c, extra, pinning) ==
  LET overBudget == Monus(Size(c) + extra, Cap)
      overFloor  == Monus(Len(c.lru), Floor(c, pinning))
  IN  Evict(c, Smaller(overBudget, overFloor))

ToHardLimit(c, extra) == Evict(c, Smaller(Monus(Size(c) + extra, Hard), Size(c)))

TrimNoFloor(c, extra, pinning) ==  \* mutant: the floor is forgotten
  ToHardLimit(Evict(c, Smaller(Monus(Size(c) + extra, Cap), Len(c.lru))), extra)

TrimSoft(c, extra, pinning) ==     \* mutant: the hard limit is forgotten
  ToBudget(c, extra, pinning)

Trim(c, extra, pinning) == ToHardLimit(ToBudget(c, extra, pinning), extra)

(***************************************************************************)
(* hvCachePut: a block already cached is only re-pinned.  When no slot can *)
(* be allocated the least valuable block gives up its own, and a cache     *)
(* with nothing to give up does not keep the block.                        *)
(***************************************************************************)
Push(c, k, pinned) ==
  IF pinned THEN [lru |-> c.lru, pin |-> << k >> \o c.pin]
            ELSE [lru |-> << k >> \o c.lru, pin |-> c.pin]

Put(c, k, pinned, oom) ==
  IF Cached(c, k) THEN IF pinned THEN Pin(c, k) ELSE c
  ELSE LET t == Trim(c, 1, pinned)
       IN  IF ~oom THEN Push(t, k, pinned)
           ELSE IF Size(t) = 0 THEN t
           ELSE Push(Evict(t, 1), k, pinned)

(* hvCacheRelease (hvCacheShrink moves slots, not list members). *)
Released(c) == Trim(UnpinAll(c), 0, FALSE)

-----------------------------------------------------------------------------
(* hvOpen leaves the cache empty, or with the block that told the size. *)
CacheInit == cache \in {EmptyCache, [lru |-> << 0 >>, pin |-> << >>]}

CacheGet(k)   == cache' = Touch(cache, k)
CachePin(k)   == Cached(cache, k) /\ cache' = Pin(cache, k)
CachePut(k)   == \E pinned \in BOOLEAN, oom \in MemFails :
                   cache' = Put(cache, k, pinned, oom)
CacheTrim     == cache' = Trim(cache, 0, FALSE)
CacheUnpinAll == cache' = UnpinAll(cache)
CacheRelease  == cache' = Released(cache)
CacheClear    == cache' = EmptyCache

CacheNext ==
  \/ \E k \in Blocks : CacheGet(k) \/ CachePin(k) \/ CachePut(k)
  \/ CacheTrim \/ CacheUnpinAll \/ CacheRelease \/ CacheClear

CacheSpec == CacheInit /\ [][CacheNext]_cache

-----------------------------------------------------------------------------
NoDup(s) == \A i, j \in DOMAIN s : s[i] = s[j] => i = j

InOrder(c) ==
  /\ c \in [lru : Seq(Blocks), pin : Seq(Blocks)]
  /\ NoDup(c.lru)
  /\ NoDup(c.pin)
  /\ ToSet(c.lru) \cap ToSet(c.pin) = {}

(***************************************************************************)
(* The lists are lists of blocks, no block is listed twice and none is in  *)
(* both (a slot has one state and one pair of links).                      *)
(***************************************************************************)
CacheTypeOK == InOrder(cache)

(* "the cache may exceed [cap], up to hard blocks": never more. *)
WithinHard == Size(cache) <= Hard
=============================================================================
