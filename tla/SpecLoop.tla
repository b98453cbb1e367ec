------------------------------- MODULE SpecLoop -------------------------------
(***************************************************************************)
(* Speculative batching (wasm/src/httpvfs.h): an extension runs its        *)
(* lookups over and over, each pass recording the blocks it misses and     *)
(* fetching them in one round, until a pass misses nothing.  A lookup      *)
(* walks a path of blocks (a B-tree descent) and cannot go past a block    *)
(* that reads as zeros.  The file below is HvFile, used by nobody else.    *)
(***************************************************************************)
EXTENDS HvFile

CONSTANTS
  Workloads,  \* the lookup sets to choose from: sequences of paths
  MaxPasses   \* demo_ext.c caps the passes at 16; 0: the loop of httpvfs.h

ASSUME LoopAssumption ==
  /\ Workloads \subseteq Seq(Seq(Blocks) \ {<< >>})  \* a descent reads its root
  /\ MaxPasses \in Nat
  /\ Cap >= 4          \* hvCacheSize: at least 16

VARIABLES
  lookups,  \* the workload, chosen at the start
  phase,    \* "begin", "pass", "reading", "ending" or "done"
  at,       \* the read in turn: lookup number and position on its path
  found,    \* httpvfs_speculate_end() returned a positive number
  failed,   \* a round failed since the loop started
  passes    \* passes that fetched something

loopVars == << lookups, phase, at, found, failed, passes >>

InTurn == lookups[at.lookup][at.pos]

LoopInit ==
  /\ FileInit
  /\ lookups \in Workloads
  /\ phase = "begin"
  /\ at = [lookup |-> 1, pos |-> 1]
  /\ found = FALSE /\ failed = FALSE /\ passes = 0

(* The next block of this lookup, or the first one of the next lookup. *)
Advance == IF at.pos < Len(lookups[at.lookup])
           THEN [at EXCEPT !.pos = @ + 1]
           ELSE [lookup |-> at.lookup + 1, pos |-> 1]
GiveUp  == [lookup |-> at.lookup + 1, pos |-> 1]

Begin ==
  /\ phase = "begin" /\ SpecBegin
  /\ phase' = "pass" /\ at' = [lookup |-> 1, pos |-> 1]
  /\ UNCHANGED << lookups, found, failed, passes >>

LookupRead ==
  /\ phase = "pass" /\ at.lookup <= Len(lookups)
  /\ ReadStart(InTurn, InTurn)
  /\ phase' = "reading"
  /\ UNCHANGED << lookups, at, found, failed, passes >>

(* The read is back; zeros (or an error) end the lookup. *)
LookupStep ==
  /\ phase = "reading" /\ pc = "idle"
  /\ phase' = "pass"
  /\ at' = IF Cached(cache, InTurn) THEN Advance ELSE GiveUp
  /\ UNCHANGED << vars, lookups, found, failed, passes >>

End ==
  /\ phase = "pass" /\ at.lookup > Len(lookups)
  /\ SpecEnd
  /\ phase' = "ending" /\ found' = FALSE
  /\ UNCHANGED << lookups, at, failed, passes >>

AgainNever(n) == n /\ FALSE  \* mutant: a single pass
AgainAlways(n) == MaxPasses > 0 => passes < MaxPasses  \* mutant: result ignored

(* while( httpvfs_speculate_end(db) > 0 ), with the cap of demo_ext.c. *)
Again(n) == n /\ (MaxPasses > 0 => passes < MaxPasses)

LoopTest ==
  /\ phase = "ending" /\ pc = "idle"
  /\ phase' = IF Again(found) THEN "begin" ELSE "done"
  /\ UNCHANGED << vars, lookups, at, found, failed, passes >>

(* The file at work; a batch that arrives makes the pass count. *)
FileStep ==
  /\ Steps
  /\ found' = (found \/ (pc = "put" /\ pc' = "idle" /\ pinning))
  /\ failed' = (failed \/ (pc = "net" /\ pc' = "idle"))
  /\ passes' = IF pc = "put" /\ pc' = "idle" /\ pinning /\ phase = "ending"
               THEN Smaller(passes + 1, NumBlocks * NumBlocks) ELSE passes
  /\ UNCHANGED << lookups, phase, at >>

LoopDone == phase = "done" /\ UNCHANGED << vars, loopVars >>

LoopNext == \/ Begin \/ LookupRead \/ LookupStep \/ End \/ LoopTest
            \/ FileStep \/ LoopDone

(* The extension keeps running and the network answers each round, one way *)
(* or the other.                                                           *)
LoopSpec == LoopInit /\ [][LoopNext]_<< vars, loopVars >>
                     /\ WF_<< vars, loopVars >>(LoopNext)

-----------------------------------------------------------------------------
(***************************************************************************)
(* The blocks a workload's lookups read, block 0 among them, and those     *)
(* they may bring: with holes and planner merges between them.  They fit   *)
(* when the budget holds them all, allocations succeed, and a cap on the   *)
(* passes, if there is one, is above the length of every path.             *)
(***************************************************************************)
Reach(w)   == {0} \cup UNION {ToSet(w[i]) : i \in DOMAIN w}
Brought(w) == Reach(w) \cup UNION {UNION Planned(S) : S \in SUBSET Reach(w)}

AllFit == /\ MemFails = {FALSE}
          /\ MaxPasses = 0 \/ \A w \in Workloads : \A i \in DOMAIN w : Len(w[i]) < MaxPasses
          /\ \A w \in Workloads : Cardinality(Brought(w)) <= Cap

PathBlocks == UNION {ToSet(lookups[i]) : i \in DOMAIN lookups}

Longest == CHOOSE m \in {0} \cup {Len(lookups[i]) : i \in DOMAIN lookups} :
             \A i \in DOMAIN lookups : Len(lookups[i]) <= m

(* The loop of the header comes to an end. *)
LoopEnds == <>(phase = "done")

(***************************************************************************)
(* "now run the lookups for real; they hit the cache": when the loop ends  *)
(* without an error, every block of every path is cached.                  *)
(***************************************************************************)
LookupsHit == (phase = "done" /\ ~failed) => \A b \in PathBlocks : Cached(cache, b)

(***************************************************************************)
(* "N lookups cost about one round per uncached B-tree level".  Block 0 is *)
(* never speculated: if its read fails, the lookup has to come back to it  *)
(* in a later pass.                                                        *)
(***************************************************************************)
RoundPerLevel == ~(failed /\ 0 \in PathBlocks) => passes <= Longest
=============================================================================
