----------------------------- MODULE FetchRound -----------------------------
(***************************************************************************)
(* One round of range requests from JavaScript (httpvfsFetch in wasm/src/  *)
(* httpvfs-pre.js, hvFetchMultiRange in wasm/pkg/multipart.mjs): several   *)
(* groups of ranges, each one request, and what is learnt about a server   *)
(* that may not answer requests for several ranges.                        *)
(***************************************************************************)
EXTENDS Integers, Sequences, FiniteSets, FiniteSetsExt

CONSTANTS
  Servers,     \* what a server may do with several ranges: see Answer
  Shapes,      \* rounds to ask for: the number of ranges of each group
  MaxParallel  \* cfg.maxParallel

ASSUME FetchAssumption ==
  /\ Servers \subseteq {"multi", "some", "ignores"}
  /\ MaxParallel \in Nat \ {0}
  /\ Shapes \subseteq Seq(Nat \ {0}) /\ << >> \notin Shapes

VARIABLES
  server,  \* the kind of server
  known,   \* Module.httpvfsMultipart of the file: "unknown", "yes", "no"
  round,   \* the round under way, or NoRound
  whole    \* whole files sent for several ranges since the last failed round

fetchVars == << server, known, round, whole >>

NoRound == [size |-> << >>, st |-> << >>, probe |-> 0, failed |-> FALSE]
Idle == round = NoRound

FetchInit == server \in Servers /\ known = "unknown" /\ round = NoRound /\ whole = 0

\* Until the server is known to answer requests for several ranges, the first
\* of them is sent alone.
ProbeNone(shape) == 0  \* mutant: all are sent at once
Probe(shape) ==
  LET several == {i \in DOMAIN shape : shape[i] > 1}
  IN IF known = "unknown" /\ several # {} THEN Min(several) ELSE 0

StartRound(shape) ==
  /\ Idle
  /\ round' = [size |-> shape, st |-> [i \in DOMAIN shape |-> "queued"],
               probe |-> Probe(shape), failed |-> FALSE]
  /\ UNCHANGED << server, known, whole >>

InFlight == {i \in DOMAIN round.st : round.st[i] \in {"several", "single", "again"}}

\* The workers of httpvfsFetch take the groups in order and stop when one of
\* them has failed.
Turn(i) ==
  \/ i = round.probe
  \/ /\ round.probe # 0 => round.st[round.probe] \in {"done", "error"}
     /\ ~round.failed /\ Cardinality(InFlight) < MaxParallel
     /\ \A j \in 1 .. i - 1 : round.st[j] # "queued"

To(i, st) == round' = [round EXCEPT !.st[i] = st]

Send(i) ==
  /\ round.st[i] = "queued" /\ Turn(i)
  /\ To(i, IF round.size[i] > 1 /\ known # "no" THEN "several" ELSE "single")
  /\ UNCHANGED << server, known, whole >>

\* The answer to several ranges: all of them, or only some, or none, or the
\* whole file, given up after its headers; what is missing is asked for again
\* in requests of one range.
Answer(i) ==
  /\ round.st[i] = "several"
  /\ IF server = "multi"
     THEN To(i, "done") /\ known' = (IF known = "unknown" THEN "yes" ELSE known) /\ UNCHANGED whole
     ELSE To(i, "again") /\ whole' = whole + (IF server = "ignores" THEN 1 ELSE 0) /\ UNCHANGED known
  /\ UNCHANGED server

\* All requests of one range of a group have been answered; only now is it
\* known that the server does not answer several.
Settle(i) ==
  /\ round.st[i] \in {"single", "again"}
  /\ To(i, "done")
  /\ known' = IF round.st[i] = "again" THEN "no" ELSE known
  /\ UNCHANGED << server, whole >>

\* A request fails, and its group with it.
Break(i) ==
  /\ i \in InFlight
  /\ round' = [round EXCEPT !.st[i] = "error", !.failed = TRUE]
  /\ UNCHANGED << server, known, whole >>

\* Promise.all: the round ends when every group taken has settled.
Over == ~Idle /\ InFlight = {} /\ \A i \in DOMAIN round.st :
          round.st[i] = "queued" => round.failed /\ i # round.probe
EndRound ==
  /\ Over
  /\ round' = NoRound
  /\ whole' = IF round.failed THEN 0 ELSE whole
  /\ UNCHANGED << server, known >>

Request(i) == Send(i) \/ Answer(i) \/ Settle(i)
=============================================================================
