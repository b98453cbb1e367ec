-------------------------------- MODULE HvFile --------------------------------
(***************************************************************************)
(* An open database file of the HTTP VFS (wasm/src/httpvfs.c): reads with  *)
(* readahead, prefetch and speculation batches, and the cache control      *)
(* calls, over the block cache of HvCache and a network that answers or    *)
(* fails.  A file serves one call at a time; its loops over blocks are     *)
(* steps here, and pc says which loop the call in progress has reached, so *)
(* that nothing but the loop's own next iteration can follow.              *)
(***************************************************************************)
EXTENDS HvCache

CONSTANTS
  Gap,      \* HvFile.gap: holes up to this size are fetched along
  RaMax,    \* HvFile.ra_max: the readahead never exceeds it (0: none)
  MaxReq,   \* HvNet.max_req: the request budget of a round (0: none)
  MaxRead,  \* bound: blocks one xRead may span
  Batches,  \* bound: the batches an extension may announce
  MaxSpec   \* bound: blocks recorded when a read starts (0: no speculation)

ASSUME FileAssumption ==
  /\ Gap \in Nat
  /\ RaMax \in Nat
  /\ MaxReq \in Nat
  /\ MaxRead \in Nat \ {0}
  /\ Batches \subseteq SUBSET Nat
  /\ MaxSpec \in Nat

VARIABLES
  pc,           \* "idle", "read", "scan", "net" or "put"
  speculating,  \* HvFile.speculating
  spec,         \* HvFile.spec: the blocks missed while speculating
  next_seq,     \* HvFile.next_seq: the block after the previous read, or -1
  ra,           \* HvFile.ra: the current readahead
  rd,           \* the read in progress: its blocks b0 .. b1, b the next one
  scan,         \* hvUncached: blocks of the batch not looked up yet
  batch,        \* history: the blocks the batch in progress has to pin
  want,         \* blk[]: blocks to fetch, then those not yet cached
  gaps,         \* blocks fetched along with them, then those not yet cached
  pinning       \* the argument pin of hvFetchBlocks

callVars == << rd, scan, batch, want, gaps, pinning >>
fileVars == << speculating, spec, next_seq, ra >>
vars     == << cache, pc, callVars, fileVars >>

NoRead == [b0 |-> 0, b1 |-> 0, b |-> 0]

(* Every call starts and ends with empty locals. *)
NoCall == /\ rd' = NoRead /\ scan' = {} /\ batch' = {}
          /\ want' = {} /\ gaps' = {} /\ pinning' = FALSE

Return == pc' = "idle" /\ NoCall

FileInit ==
  /\ CacheInit
  /\ pc = "idle"
  /\ speculating = FALSE /\ spec = {}
  /\ next_seq = -1 /\ ra = 0
  /\ rd = NoRead /\ scan = {} /\ batch = {} /\ want = {} /\ gaps = {}
  /\ pinning = FALSE

-----------------------------------------------------------------------------
(***************************************************************************)
(* Which blocks a round brings for the wanted blocks W: holes of at most   *)
(* Gap blocks between wanted ones always; if that leaves more ranges than  *)
(* the request budget, the planner may merge across further holes as long  *)
(* as the round stays within |W| + Cap/2 blocks.                           *)
(***************************************************************************)
Hole(W, b)  == {x \in Blocks \ W :
                  \A y \in W : (y < x <=> y < b) /\ (y > x <=> y > b)}
Inside(W)   == {b \in Blocks \ W : \E lo, hi \in W : lo < b /\ b < hi}
Coalesced(W) == {b \in Inside(W) : Cardinality(Hole(W, b)) <= Gap}
RangesOf(F) == Cardinality({b \in F : b - 1 \notin F})

Planned(W) ==
  LET base == Coalesced(W)
  IN  IF MaxReq > 0 /\ RangesOf(W \cup base) > MaxReq
      THEN {base} \cup
           {G \in SUBSET Inside(W) :
              /\ base \subseteq G
              /\ \A b \in G : Hole(W, b) \subseteq G
              /\ Cardinality(W \cup G) <= Cardinality(W) + Cap \div 2}
      ELSE {base}

(* hvFetchBlocks up to the backend call. *)
Fetch(W, pin) ==
  /\ W # {}
  /\ pc' = "net" /\ want' = W /\ gaps' \in Planned(W) /\ pinning' = pin

-----------------------------------------------------------------------------
(***************************************************************************)
(* hvRead.  Pass 1 looks at the blocks one by one.                         *)
(***************************************************************************)
ReadStart(b0, b1) ==
  /\ pc = "idle"
  /\ b0 <= b1 /\ b1 < b0 + MaxRead
  /\ speculating => Cardinality(spec) < MaxSpec
  /\ pc' = "read"
  /\ rd' = [b0 |-> b0, b1 |-> b1, b |-> b0]
  /\ UNCHANGED << cache, scan, batch, want, gaps, pinning, fileVars >>

ReadHit ==
  /\ pc = "read" /\ rd.b <= rd.b1
  /\ Cached(cache, rd.b)
  /\ cache' = Touch(cache, rd.b)
  /\ rd' = [rd EXCEPT !.b = @ + 1]
  /\ UNCHANGED << pc, scan, batch, want, gaps, pinning, fileVars >>

(* A block missed while speculating reads as zeros; block 0 never does. *)
ReadSpeculate ==
  /\ pc = "read" /\ rd.b <= rd.b1
  /\ ~Cached(cache, rd.b) /\ speculating /\ rd.b > 0
  /\ \/ /\ spec' = spec \cup {rd.b}
        /\ rd' = [rd EXCEPT !.b = @ + 1]
        /\ UNCHANGED << pc, scan, batch, want, gaps, pinning >>
     \/ /\ TRUE \in MemFails             \* hvSpecRecord: SQLITE_NOMEM
        /\ Return
        /\ UNCHANGED spec
  /\ UNCHANGED << cache, speculating, next_seq, ra >>

ReadMiss ==
  /\ pc = "read" /\ rd.b <= rd.b1
  /\ ~Cached(cache, rd.b) /\ ~(speculating /\ rd.b > 0)
  /\ \/ /\ want' = want \cup {rd.b}
        /\ rd' = [rd EXCEPT !.b = @ + 1]
        /\ UNCHANGED << pc, scan, batch, gaps, pinning >>
     \/ /\ TRUE \in MemFails /\ want = {}  \* no memory for miss[]
        /\ Return
  /\ UNCHANGED << cache, fileVars >>

BackToBudgetNever(c) == c  \* mutant: reads leave the cache over its budget

(* The trim between the passes. *)
BackToBudget(c) == IF Size(c) > Cap THEN Trim(c, 0, FALSE) ELSE c

(* next_seq is only looked at when there is readahead. *)
Follow(b) == IF RaMax = 0 THEN -1 ELSE b

ReadEnd ==
  /\ pc = "read" /\ rd.b > rd.b1 /\ want = {}
  /\ cache' = BackToBudget(cache)
  /\ next_seq' = Follow(rd.b1 + 1)
  /\ Return
  /\ UNCHANGED << speculating, spec, ra >>

(* The readahead of this read, and the blocks it adds: up to the first one *)
(* that is cached.                                                         *)
NextRa == IF RaMax = 0 THEN ra
          ELSE IF rd.b0 # next_seq THEN 0
          ELSE IF ra = 0 THEN 1 ELSE Smaller(2 * ra, RaMax)

Readahead(c, b1, n) ==
  {b \in Blocks : /\ b1 < b /\ b <= b1 + n
                  /\ \A x \in b1 + 1 .. b : ~Cached(c, x)}

ReadFetch ==
  /\ pc = "read" /\ rd.b > rd.b1 /\ want # {}
  /\ cache' = BackToBudget(cache)
  /\ ra' = NextRa
  /\ Fetch(want \cup IF RaMax = 0 THEN {} ELSE Readahead(cache', rd.b1, ra'), FALSE)
  /\ UNCHANGED << rd, scan, batch, speculating, spec, next_seq >>

-----------------------------------------------------------------------------
(***************************************************************************)
(* hvFetchBatch: a prefetch or speculation batch S of block numbers, some  *)
(* of them perhaps beyond the end of the file.                             *)
(***************************************************************************)
Announce(S) ==
  /\ cache' = UnpinAll(cache)
  /\ pc' = "scan" /\ scan' = S
  /\ UNCHANGED << rd, batch, want, gaps, pinning >>

Prefetch(S) == /\ pc = "idle" /\ Announce(S)
               /\ UNCHANGED fileVars

(* HTTPVFS_FCNTL_SPECULATE 1, 0 and -1. *)
SpecBegin == /\ pc = "idle" /\ MaxSpec > 0
             /\ speculating' = TRUE /\ spec' = {}
             /\ UNCHANGED << cache, pc, callVars, next_seq, ra >>

SpecEndFirst ==  \* mutant: only the first recorded block is fetched
           /\ pc = "idle" /\ Announce({b \in spec : \A x \in spec : b <= x})
           /\ speculating' = FALSE /\ spec' = {}
           /\ UNCHANGED << next_seq, ra >>

SpecEnd == /\ pc = "idle" /\ Announce(spec)
           /\ speculating' = FALSE /\ spec' = {}
           /\ UNCHANGED << next_seq, ra >>

SpecDiscard == /\ pc = "idle"
               /\ speculating' = FALSE /\ spec' = {}
               /\ UNCHANGED << cache, pc, callVars, next_seq, ra >>

(* hvUncached, in ascending order: a cached block of the batch is pinned, *)
(* a block of the file that is not cached will be fetched.                *)
ScanBlock ==
  /\ pc = "scan"
  /\ \E b \in scan :
       /\ \A x \in scan : b <= x
       /\ scan' = scan \ {b}
       /\ \/ b \notin Blocks /\ UNCHANGED << cache, batch, want >>
          \/ /\ Cached(cache, b)
             /\ cache' = Pin(cache, b)
             /\ batch' = batch \cup {b}
             /\ UNCHANGED want
          \/ /\ b \in Blocks /\ ~Cached(cache, b)
             /\ want' = want \cup {b}
             /\ UNCHANGED << cache, batch >>
  /\ UNCHANGED << pc, rd, gaps, pinning, fileVars >>

(* T is the first m blocks of W, or all of them. *)
FirstOf(T, W, m) ==
  /\ T \subseteq W
  /\ Cardinality(T) = Smaller(m, Cardinality(W))
  /\ \A x \in T, y \in W \ T : x < y

RoomUncut == NumBlocks  \* mutant: the batch is not cut at the hard limit

Room == Hard - Len(cache.pin)

ScanEnd ==
  /\ pc = "scan" /\ scan = {}
  /\ \E T \in SUBSET want :
       /\ FirstOf(T, want, Room)
       /\ IF T = {} THEN Return
          ELSE /\ Fetch(T, TRUE)
               /\ batch' = batch \cup T
               /\ UNCHANGED << rd, scan >>
  /\ UNCHANGED << cache, fileVars >>

-----------------------------------------------------------------------------
(***************************************************************************)
(* The rest of hvFetchBlocks: the round, then the blocks nobody asked for, *)
(* then the requested ones, each in ascending order.                       *)
(***************************************************************************)
RoundOk   == /\ pc = "net" /\ pc' = "put"
             /\ UNCHANGED << cache, callVars, fileVars >>

(* No answer, an error answer or no memory: nothing is cached and the read *)
(* returns before it notes its position.                                   *)
RoundFail == /\ pc = "net" /\ Return
             /\ UNCHANGED << cache, fileVars >>

CacheBlockUntrimmed(b, pin) ==  \* mutant: no room is made for the block
  cache' = IF Cached(cache, b) THEN cache ELSE Push(cache, b, pin)

CacheBlock(b, pin) == \E oom \in MemFails :
  cache' = IF Cached(cache, b) THEN cache ELSE Put(cache, b, pin, oom)

PutGap ==
  /\ pc = "put"
  /\ \E b \in gaps : /\ \A x \in gaps : b <= x
                     /\ gaps' = gaps \ {b}
                     /\ CacheBlock(b, FALSE)
  /\ UNCHANGED << pc, rd, scan, batch, want, pinning, fileVars >>

PutWantedAnyTime ==  \* mutant: the blocks nobody asked for may come last
  /\ pc = "put"
  /\ \E b \in want : /\ \A x \in want : b <= x
                     /\ want' = want \ {b}
                     /\ CacheBlock(b, pinning)
  /\ UNCHANGED << pc, rd, scan, batch, gaps, pinning, fileVars >>

PutWanted ==
  /\ pc = "put" /\ gaps = {}
  /\ \E b \in want : /\ \A x \in want : b <= x
                     /\ want' = want \ {b}
                     /\ CacheBlock(b, pinning)
  /\ UNCHANGED << pc, rd, scan, batch, gaps, pinning, fileVars >>

PutEnd ==
  /\ pc = "put" /\ gaps = {} /\ want = {}
  /\ next_seq' = IF pinning THEN next_seq ELSE Follow(rd.b1 + 1)
  /\ Return
  /\ UNCHANGED << cache, speculating, spec, ra >>

-----------------------------------------------------------------------------
(* HTTPVFS_FCNTL_RELEASE; httpvfs_reset, with and without clear_cache; the *)
(* PRAGMA that clears the cache and keeps the read position.               *)
Release == /\ pc = "idle"
           /\ cache' = Released(cache)
           /\ UNCHANGED << pc, callVars, fileVars >>

Reset(clear) == /\ pc = "idle"
                /\ cache' = IF clear THEN EmptyCache ELSE cache
                /\ next_seq' = -1 /\ ra' = 0
                /\ UNCHANGED << pc, callVars, speculating, spec >>

PragmaReset == /\ pc = "idle"
               /\ cache' = EmptyCache
               /\ UNCHANGED << pc, callVars, fileVars >>

Calls ==
  \/ \E b0, b1 \in Blocks : ReadStart(b0, b1)
  \/ \E S \in Batches : Prefetch(S)
  \/ SpecBegin \/ SpecEnd \/ SpecDiscard
  \/ Release \/ PragmaReset
  \/ \E clear \in BOOLEAN : Reset(clear)

Steps ==
  \/ ReadHit \/ ReadSpeculate \/ ReadMiss \/ ReadEnd \/ ReadFetch
  \/ ScanBlock \/ ScanEnd
  \/ RoundOk \/ RoundFail
  \/ PutGap \/ PutWanted \/ PutEnd

FileNext == Calls \/ Steps

FileSpec == FileInit /\ [][FileNext]_vars

-----------------------------------------------------------------------------
FileTypeOK ==
  /\ CacheTypeOK
  /\ pc \in {"idle", "read", "scan", "net", "put"}
  /\ speculating \in BOOLEAN
  /\ spec \subseteq Blocks
  /\ next_seq \in -1 .. NumBlocks
  /\ ra \in 0 .. RaMax
  /\ rd \in [b0 : Blocks, b1 : Blocks, b : 0 .. NumBlocks]
  /\ scan \subseteq Nat
  /\ batch \subseteq Blocks
  /\ want \subseteq Blocks
  /\ gaps \subseteq Blocks
  /\ pinning \in BOOLEAN

Pinned == ToSet(cache.pin)
Unpinned == ToSet(cache.lru)

(***************************************************************************)
(* A batch being fetched fits under the hard limit beside the pins that    *)
(* are already there: hvFetchBatch cut it, and nothing pins in between.    *)
(***************************************************************************)
BatchFits ==
  (pinning /\ pc \in {"net", "put"}) =>
     Len(cache.pin) + Cardinality(want) <= Hard

(***************************************************************************)
(* "a batch larger than the cache still arrives in one round and is then   *)
(* read from the cache, instead of evicting itself": while a batch is      *)
(* being inserted, each of its blocks is pinned or still to come, however  *)
(* many blocks nobody asked for came in the same round.                    *)
(***************************************************************************)
BatchArrives ==
  (pinning /\ pc \in {"net", "put"} /\ MemFails = {FALSE}) =>
     batch \subseteq Pinned \cup want

(***************************************************************************)
(* A pinned block is unpinned by its first read, by the next batch or by a *)
(* release.  It leaves the cache while pinned only if the cache is         *)
(* cleared, or if nothing unpinned is left and either the cache was at its *)
(* hard limit (and then only a demand read adds to it) or memory ran out.  *)
(***************************************************************************)
Unpins == \/ cache' = UnpinAll(cache) /\ pc' = "scan"
          \/ cache' = Released(cache) /\ pc = "idle"
          \/ cache' = EmptyCache /\ pc = "idle"

PinnedUntilRead ==
  [][\A b \in Pinned :
       \/ b \in ToSet(cache'.pin)
       \/ pc = "read" /\ b = rd.b /\ Cached(cache', b)
       \/ Unpins
       \/ /\ pc = "put"
          /\ Unpinned \cap ToSet(cache'.lru) = {}
          /\ \/ Len(cache.pin) = Hard /\ ~pinning
             \/ MemFails # {FALSE}]_vars

(***************************************************************************)
(* "As the pinned blocks are consumed the cache shrinks back to cap": once *)
(* a read returns, the cache is within its budget, or what keeps it above  *)
(* is pinned and the unpinned part is down to its floor (and the block     *)
(* just read).                                                             *)
(***************************************************************************)
ReadReturns == \/ pc = "put" /\ ~pinning /\ pc' = "idle"
               \/ pc = "read" /\ pc' = "idle" /\ rd.b > rd.b1

ReadEndsInBudget ==
  [][ReadReturns => \/ Size(cache') <= Cap
                    \/ /\ cache'.pin # << >>
                       /\ Len(cache'.lru) <= (Cap \div 4) + 1]_vars

(***************************************************************************)
(* "the unpinned part then keeps at least cap/4 blocks (recently read      *)
(* ones)": as long as there are pins, an unpinned block is evicted from a  *)
(* floor that is not exceeded only when the cache is at its hard limit.    *)
(***************************************************************************)
FloorKept ==
  [][\A b \in Unpinned :
       (~Cached(cache', b) /\ cache'.pin # << >> /\ MemFails = {FALSE})
         => Len(cache'.lru) >= Cap \div 4 \/ Size(cache') = Hard]_vars
=============================================================================
