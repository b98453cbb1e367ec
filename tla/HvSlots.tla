-------------------------------- MODULE HvSlots --------------------------------
(***************************************************************************)
(* How the block cache of wasm/src/httpvfs.c is built: every block sits in *)
(* a slot; a slot is on the LRU list, on the pinned list or on the free    *)
(* list, and the slots in use hang in hash chains.  The chains and the     *)
(* free list share one link.  Slots get their memory in chunks, which go   *)
(* back when a statement ends.  Each operation runs to its end before the  *)
(* next one starts, so an action is a whole operation.                     *)
(*                                                                         *)
(* What a slot's field holds while nothing may read it is Junk: the code   *)
(* leaves the last value (or uninitialised memory) there.                  *)
(***************************************************************************)
EXTENDS Integers, Sequences, SequencesExt, FiniteSetsExt

CONSTANTS
  NumBlocks,   \* blocks of the file
  Cap0,        \* the budget hvCacheInit gets, before the file size is known
  Cap, Hard,   \* budget and hard limit once the file is open
  Chunk,       \* HV_CHUNK: slots per data chunk
  MinBuckets,  \* the smallest hash table hvCacheInit makes (64)
  HashOf,      \* hvHash of a block, before it is masked
  Failures     \* allocations that may fail: some of "arrays", "chunk", "table"
               \* (at most one in an operation: after the first two it gives up)

ASSUME SlotsAssumption ==
  /\ NumBlocks \in Nat \ {0} /\ Chunk \in Nat \ {0} /\ MinBuckets \in Nat \ {0}
  /\ Cap0 \in Nat \ {0} /\ Cap \in Nat \ {0} /\ Hard \in Nat
  /\ Cap <= Hard
  /\ HashOf \in [0 .. NumBlocks - 1 -> Nat]
  /\ Failures \subseteq {"arrays", "chunk", "table"}

VARIABLES
  hv,     \* the HvCache struct; its per-slot arrays are hv.slot[s]
  blocks  \* history: the blocks on the two lists, as HvCache sees them

vars == << hv, blocks >>

Blocks == 0 .. NumBlocks - 1
Junk   == -2
Slots(h) == DOMAIN h.slot      \* 0 .. nslot-1
Live(h)  == {s \in Slots(h) : h.slot[s].state # "free"}

FreeSlot(hnext) == [key |-> -1, state |-> "free", data |-> Junk,
                    prev |-> Junk, next |-> Junk, hnext |-> hnext]

(* hvCacheInit: a power of two of at least twice the budget, which 2*Cap0  *)
(* doublings are sure to reach.                                            *)
EmptyList == [head |-> -1, tail |-> -1, n |-> 0]
NoSlots   == [s \in {} |-> FreeSlot(-1)]
Buckets(nb) == [b \in 0 .. nb - 1 |-> -1]

Fresh ==
  LET double[i \in 0 .. 2 * Cap0] ==
        IF i = 0 THEN MinBuckets
        ELSE IF double[i - 1] < 2 * Cap0 THEN 2 * double[i - 1] ELSE double[i - 1]
  IN  [slot |-> NoSlots, aslot |-> 0, nchunk |-> 0, n |-> 0,
       lru |-> EmptyList, pin |-> EmptyList, freehead |-> -1,
       bucket |-> Buckets(double[2 * Cap0])]

-----------------------------------------------------------------------------
(***************************************************************************)
(* Where a link leads, as a list of slots: the walk of every loop over a   *)
(* chain or a list.  It ends at -1, at a slot that does not exist, or      *)
(* after as many slots as there are (in a cycle).                          *)
(***************************************************************************)
Along(h, first, field) ==
  LET path[i \in 0 .. Cardinality(Slots(h)) + 1] ==
        IF i = 0 THEN << >>
        ELSE LET p == path[i - 1]
                 s == IF p = << >> THEN first
                      ELSE IF Last(p) \in Slots(h) THEN h.slot[Last(p)][field] ELSE -1
             IN  IF s = -1 THEN p ELSE Append(p, s)
  IN  path[Cardinality(Slots(h)) + 1]

(***************************************************************************)
(* Hash chains.                                                            *)
(***************************************************************************)
BucketOf(h, k) == HashOf[k] % Cardinality(DOMAIN h.bucket)
Chain(h, b)    == Along(h, h.bucket[b], "hnext")

(* hvCacheGet without touch: the slot that holds block k, or -1. *)
SlotOf(h, k) ==
  LET chain == Chain(h, BucketOf(h, k))
      hits  == {i \in DOMAIN chain : h.slot[chain[i]].key = k}
  IN  IF hits = {} THEN -1 ELSE chain[Min(hits)]

(* Whatever leads to slot s in its chain, bucket or slot, leads to d. *)
Relink(h, s, d) ==
  LET b     == BucketOf(h, h.slot[s].key)
      chain == Chain(h, b)
      i     == CHOOSE i \in DOMAIN chain : chain[i] = s
  IN  IF h.bucket[b] = s THEN [h EXCEPT !.bucket[b] = d]
      ELSE [h EXCEPT !.slot[chain[i - 1]].hnext = d]

(***************************************************************************)
(* hvCacheRehash to nb buckets.  It pushes the slots from the last to the  *)
(* first, each on its chain or on the free list, so that all are in        *)
(* ascending order afterwards.                                             *)
(***************************************************************************)
First(S)    == IF S = {} THEN -1 ELSE Min(S)
After(S, s) == First({x \in S : x > s})

Rehash(h, nb) ==
  LET free     == Slots(h) \ Live(h)
      chain[b \in 0 .. nb - 1] == {s \in Live(h) : HashOf[h.slot[s].key] % nb = b}
      with(s)  == IF s \in free THEN free ELSE chain[HashOf[h.slot[s].key] % nb]
  IN  [h EXCEPT !.bucket = [b \in 0 .. nb - 1 |-> First(chain[b])],
                !.freehead = First(free),
                !.slot = [s \in Slots(h) |->
                            [h.slot[s] EXCEPT !.hnext = After(with(s), s)]]]

-----------------------------------------------------------------------------
(***************************************************************************)
(* The two recency lists; a slot's state names the list it is on.          *)
(***************************************************************************)
LinkBefore(h, L, p, x) ==  \* what comes before, slot p or the list, leads to x
  IF p >= 0 THEN [h EXCEPT !.slot[p].next = x] ELSE [h EXCEPT ![L].head = x]

LinkAfter(h, L, x, p) ==   \* what comes after, slot x or the list, leads back to p
  IF x >= 0 THEN [h EXCEPT !.slot[x].prev = p] ELSE [h EXCEPT ![L].tail = p]

Unlink(h, s) ==
  LET L == h.slot[s].state
      p == h.slot[s].prev
      x == h.slot[s].next
  IN  [LinkAfter(LinkBefore(h, L, p, x), L, x, p) EXCEPT ![L].n = @ - 1]

PushFront(h, L, s) ==
  LET head == h[L].head
      g == [h EXCEPT !.slot[s].state = L, !.slot[s].prev = -1, !.slot[s].next = head]
      f == IF head >= 0 THEN [g EXCEPT !.slot[head].prev = s] ELSE g
  IN  [f EXCEPT ![L] = [head |-> s, tail |-> IF @.tail < 0 THEN s ELSE @.tail,
                        n |-> @.n + 1]]

MoveToFront(h, s, L) == PushFront(Unlink(h, s), L, s)

(* hvEvict, and the slot it takes when a block has to go. *)
Victim(h) == IF h.lru.n > 0 THEN h.lru.tail ELSE h.pin.tail

EvictChained(h, s) ==  \* mutant: the slot stays in its hash chain
  [Unlink(h, s) EXCEPT !.slot[s] = FreeSlot(h.freehead), !.freehead = s, !.n = @ - 1]

EvictSlot(h, s) ==
  [Unlink(Relink(h, s, h.slot[s].hnext), s)
     EXCEPT !.slot[s] = FreeSlot(h.freehead), !.freehead = s, !.n = @ - 1]

(***************************************************************************)
(* hvCacheTrim.                                                            *)
(***************************************************************************)
EvictDown(h, extra, limit, floor) ==
  LET round[i \in 0 .. h.n] ==
        IF i = 0 THEN h
        ELSE LET g == round[i - 1]
             IN  IF g.n + extra > limit /\ g.lru.n > floor
                 THEN EvictSlot(g, Victim(g)) ELSE g
  IN  round[h.n]

TrimSlots(h, extra, pinning) ==
  LET floor == IF h.pin.n > 0 \/ pinning THEN Cap \div 4 ELSE 0
  IN  EvictDown(EvictDown(h, extra, Cap, floor), extra, Hard, -1)

-----------------------------------------------------------------------------
(***************************************************************************)
(* hvSlotAlloc: a slot to put a block into, or -1, and what becomes of the *)
(* cache; fails is the allocation that fails this time.                   *)
(***************************************************************************)
AppendSlot(h, s, hnext) ==
  [h EXCEPT !.slot = [x \in 0 .. s |-> IF x = s THEN FreeSlot(hnext) ELSE @[x]],
            !.nchunk = IF s \div Chunk >= @ THEN @ + 1 ELSE @]

UnlistNot(h, s) == h  \* mutant: the rebuilt free list keeps the slot

Unlist(h, s) == IF h.freehead = s THEN [h EXCEPT !.freehead = h.slot[s].hnext] ELSE h

SlotAlloc(h, fails) ==
  LET s  == Cardinality(Slots(h))
      nb == Cardinality(DOMAIN h.bucket)
      grown == [h EXCEPT !.aslot = IF s < @ THEN @ ELSE IF @ = 0 THEN Chunk ELSE 2 * @]
  IN  IF h.freehead >= 0 THEN [hv |-> Unlist(h, h.freehead), s |-> h.freehead]
      ELSE IF s >= h.aslot /\ fails = "arrays" THEN [hv |-> h, s |-> -1]
      ELSE IF s \div Chunk >= h.nchunk /\ fails = "chunk" THEN [hv |-> grown, s |-> -1]
      ELSE IF 2 * (s + 1) <= nb THEN [hv |-> AppendSlot(grown, s, Junk), s |-> s]
      ELSE IF fails = "table" THEN [hv |-> AppendSlot(grown, s, -1), s |-> s]
      ELSE [hv |-> Unlist(Rehash(AppendSlot(grown, s, -1), 2 * nb), s), s |-> s]

(***************************************************************************)
(* hvCachePut of a block k, with the bytes of that block.                  *)
(***************************************************************************)
Fill(h, s, k, pinned) ==
  LET b == BucketOf(h, k)
      g == [h EXCEPT !.slot[s].key = k, !.slot[s].data = k,
                     !.slot[s].hnext = h.bucket[b], !.bucket[b] = s, !.n = @ + 1]
  IN  PushFront(g, IF pinned THEN "pin" ELSE "lru", s)

PutSlotDropped(h, k, pinned, fails) ==  \* mutant: no second try for a slot
  LET s == SlotOf(h, k)
      a == SlotAlloc(TrimSlots(h, 1, pinned), fails)
  IN  IF s >= 0 THEN IF pinned THEN MoveToFront(h, s, "pin") ELSE h
      ELSE IF a.s >= 0 THEN Fill(a.hv, a.s, k, pinned)
      ELSE IF a.hv.n = 0 THEN a.hv ELSE EvictSlot(a.hv, Victim(a.hv))

PutSlot(h, k, pinned, fails) ==
  LET s == SlotOf(h, k)
      a == SlotAlloc(TrimSlots(h, 1, pinned), fails)
      again == SlotAlloc(EvictSlot(a.hv, Victim(a.hv)), fails)
  IN  IF s >= 0 THEN IF pinned THEN MoveToFront(h, s, "pin") ELSE h
      ELSE IF a.s >= 0 THEN Fill(a.hv, a.s, k, pinned)
      ELSE IF a.hv.n = 0 THEN a.hv
      ELSE IF again.s >= 0 THEN Fill(again.hv, again.s, k, pinned)
      ELSE again.hv

-----------------------------------------------------------------------------
(* hvCacheUnpinAll: the pinned tail goes to the front, until none is left. *)
UnpinSlots(h) ==
  LET round[i \in 0 .. h.pin.n] ==
        IF i = 0 THEN h
        ELSE LET g == round[i - 1] IN MoveToFront(g, g.pin.tail, "lru")
  IN  round[h.pin.n]

(* hvSlotRelocate: the block in slot s moves to the free slot d. *)
CopiedLinksOnly(h, s, d) ==  \* mutant: the bytes stay behind
  [h EXCEPT !.slot[d] = [h.slot[s] EXCEPT !.data = h.slot[d].data]]

Copied(h, s, d) == [h EXCEPT !.slot[d] = h.slot[s]]

Relocate(h, s, d) ==
  LET old    == h.slot[s]
      copied == Copied(Relink(h, s, d), s, d)
      before == LinkBefore(copied, old.state, old.prev, d)
  IN  [LinkAfter(before, old.state, old.next, d) EXCEPT !.slot[s] = FreeSlot(Junk)]

(***************************************************************************)
(* hvCacheShrink: the blocks in slots past the budget's chunks move, in    *)
(* order, to the first free slot each; the chunks past the budget go, and  *)
(* the free list is rebuilt.                                               *)
(***************************************************************************)
Keep  == (Cap + Chunk - 1) \div Chunk
Limit == Keep * Chunk

Shrink(h) ==
  LET last == Cardinality(Slots(h)) - 1
      moved[s \in Limit - 1 .. last] ==
        IF s < Limit THEN h
        ELSE LET g == moved[s - 1]
             IN  IF s \in Live(g) THEN Relocate(g, s, Min(Slots(g) \ Live(g))) ELSE g
      packed == moved[last]
      free   == (0 .. Limit - 1) \ Live(packed)
  IN  IF last < Limit \/ h.n > Limit THEN h
      ELSE [packed EXCEPT
              !.nchunk = Keep, !.freehead = First(free),
              !.slot = [s \in 0 .. Limit - 1 |->
                          IF s \in free THEN [@[s] EXCEPT !.hnext = After(free, s)]
                                        ELSE @[s]]]

ReleaseNoTrim(h) == Shrink(UnpinSlots(h))  \* mutant: nothing is evicted first

ReleaseSlots(h) == Shrink(TrimSlots(UnpinSlots(h), 0, FALSE))

ClearSlots(h) ==
  [h EXCEPT !.slot = NoSlots, !.n = 0, !.freehead = -1,
            !.lru = EmptyList, !.pin = EmptyList,
            !.bucket = Buckets(Cardinality(DOMAIN @)),
            !.nchunk = IF @ > Keep THEN Keep ELSE @]

-----------------------------------------------------------------------------
ListOf(h, L)  == Along(h, h[L].head, "next")
FreeList(h)   == Along(h, h.freehead, "hnext")
BlocksOn(h, L) == LET list == ListOf(h, L) IN [i \in DOMAIN list |-> h.slot[list[i]].key]
BlocksOf(h)    == [lru |-> BlocksOn(h, "lru"), pin |-> BlocksOn(h, "pin")]

-----------------------------------------------------------------------------
(* hvOpen: the first request may bring block 0; hvCacheSetBudget follows. *)
SlotsInit ==
  /\ hv \in {ReleaseSlots(Fresh), ReleaseSlots(PutSlot(Fresh, 0, FALSE, "none"))}
  /\ blocks = BlocksOf(hv)

SlotsGet(k) ==
  /\ SlotOf(hv, k) >= 0
  /\ LET s == SlotOf(hv, k)
     IN  /\ hv.slot[s].state = "pin" \/ hv.lru.head # s
         /\ hv' = MoveToFront(hv, s, "lru")

(* hvUncached on a cached block. *)
SlotsPin(k) ==
  /\ SlotOf(hv, k) >= 0
  /\ hv' = MoveToFront(hv, SlotOf(hv, k), "pin")

SlotsPut(k)   == \E pinned \in BOOLEAN, fails \in Failures \cup {"none"} :
                   hv' = PutSlot(hv, k, pinned, fails)
SlotsTrim     == hv.n > Cap /\ hv' = TrimSlots(hv, 0, FALSE)
SlotsUnpinAll == hv' = UnpinSlots(hv)
SlotsRelease  == hv' = ReleaseSlots(hv)
SlotsClear    == hv' = ClearSlots(hv)

SlotsNext ==
  /\ \/ \E k \in Blocks : SlotsGet(k) \/ SlotsPin(k) \/ SlotsPut(k)
     \/ SlotsTrim \/ SlotsUnpinAll \/ SlotsRelease \/ SlotsClear
  /\ blocks' = BlocksOf(hv')

SlotsSpec == SlotsInit /\ [][SlotsNext]_vars

-----------------------------------------------------------------------------
(***************************************************************************)
(* Every list is whole: the LRU list, the pinned list and the free list    *)
(* share out the slots, each slot on the list its state names and once;    *)
(* read backwards the two recency lists hold the same slots; the counters  *)
(* are their lengths.                                                      *)
(***************************************************************************)
ListsWhole ==
  /\ \A L \in {"lru", "pin"} :
       /\ ToSet(ListOf(hv, L)) = {s \in Slots(hv) : hv.slot[s].state = L}
       /\ Along(hv, hv[L].tail, "prev") = Reverse(ListOf(hv, L))
       /\ hv[L].n = Len(ListOf(hv, L))
       /\ IsInjective(ListOf(hv, L))
  /\ ToSet(FreeList(hv)) = Slots(hv) \ Live(hv)
  /\ IsInjective(FreeList(hv))
  /\ hv.n = hv.lru.n + hv.pin.n

(***************************************************************************)
(* A lookup finds a block exactly when some slot holds it: the chain of a  *)
(* bucket is made of the slots in use whose blocks hash to it, through     *)
(* evictions, relocations and rehashes that reuse the same link.           *)
(***************************************************************************)
ChainsExact ==
  \A b \in DOMAIN hv.bucket :
    /\ ToSet(Chain(hv, b)) = {s \in Live(hv) : BucketOf(hv, hv.slot[s].key) = b}
    /\ IsInjective(Chain(hv, b))

(***************************************************************************)
(* A slot in use has memory, and the memory holds the bytes of its block:  *)
(* what hvRead copies out of a hit is the block it asked for.              *)
(***************************************************************************)
BytesOfBlock ==
  \A s \in Live(hv) : hv.slot[s].data = hv.slot[s].key /\ s < hv.nchunk * Chunk

(***************************************************************************)
(* hvCacheRelease, "free the memory above it": whenever a statement ends   *)
(* or the cache is cleared, no chunk above the budget is left and every    *)
(* block kept is in one below it.                                          *)
(***************************************************************************)
MemoryGivenBack ==
  \A h \in {ReleaseSlots(hv), ClearSlots(hv)} :
    h.nchunk <= Keep /\ \A s \in Live(h) : s < Limit

(***************************************************************************)
(* Seen through its lists the cache is the cache of HvCache: every         *)
(* operation does to the two lists of blocks what that module says.        *)
(***************************************************************************)
C == INSTANCE HvCache WITH
       MemFails <- {f \in BOOLEAN : f => Failures # {}},
       cache    <- blocks

ImplementsCache == C!CacheSpec
=============================================================================
