---------------------------- MODULE SearchClient ----------------------------
(***************************************************************************)
(* A page that searches: the client (web/lib/index.mjs), its calls to the  *)
(* SQLite worker and to an encoder worker (web/lib/rpc.mjs), the worker's  *)
(* queue, the database whose statements run one at a time (wasm/pkg/       *)
(* index.mjs) and read by rounds of requests, which may fail.              *)
(***************************************************************************)
EXTENDS FetchRound, SequencesExt

CONSTANTS
  Calls,     \* bound: searches that may be under way at once
  MaxRounds  \* bound: rounds of one statement

ASSUME ClientAssumption ==
  MaxRounds \in Nat /\ Calls \cap {"open", "warm", "close"} = {}

VARIABLES
  page,      \* "opening", "open", "failed", "closing", "closed"
  call,      \* what each search waits for: "nothing", "vector", "rows"
  ort,       \* SearchIndex.ortWasm: "none", "fetching", "there", "failed"
  enc,       \* the encoder: "none", "loading", "ready"
  encoding,  \* searches that wait for a vector, in the order of their calls
  warming,   \* SearchIndex.warming of the table: the call was made
  queue,     \* jobs of the SQLite worker
  running,   \* its handlers under way, with the rounds each has run and seen
  owner,     \* the handler whose statement runs
  db,        \* "none", "open", "closed"
  replies    \* messages to the page

clientVars == << page, call, ort, enc, encoding, warming >>
workerVars == << queue, running, owner, db, replies >>
vars == << fetchVars, clientVars, workerVars >>

Nobody == "nobody"

\* openIndex, with or without opts.preload.
Init ==
  /\ FetchInit
  /\ page = "opening" /\ call = [c \in Calls |-> "nothing"] /\ warming = FALSE
  /\ enc \in {"none", "loading"} /\ ort = (IF enc = "loading" THEN "fetching" ELSE "none")
  /\ encoding = << >>
  /\ queue = << "open" >> /\ running = << >> /\ owner = Nobody /\ db = "none" /\ replies = << >>

-----------------------------------------------------------------------------
(***************************************************************************)
(* The page.                                                               *)
(***************************************************************************)
\* _autoWarm: the index of an encoder that loads is warmed once.
AutoWarm(opened) ==
  IF opened /\ ~warming THEN warming' = TRUE /\ queue' = Append(queue, "warm")
  ELSE UNCHANGED << warming, queue >>

Searching == page \in {"open", "closing"}

SearchText(c) ==
  /\ Searching /\ call[c] = "nothing"
  /\ call' = [call EXCEPT ![c] = "rows"] /\ queue' = Append(queue, c)
  /\ UNCHANGED << page, ort, enc, encoding, warming, running, owner, db, replies, fetchVars >>

\* loadEncoder, then encode.
SearchVector(c) ==
  /\ Searching /\ call[c] = "nothing"
  /\ call' = [call EXCEPT ![c] = "vector"] /\ encoding' = Append(encoding, c)
  /\ enc' = IF enc = "none" THEN "loading" ELSE enc
  /\ ort' = IF ort = "none" THEN "fetching" ELSE ort
  /\ AutoWarm(TRUE)
  /\ UNCHANGED << page, running, owner, db, replies, fetchVars >>

\* The runtime is fetched once for all encoders, and its failure is kept.
FetchRuntime(ok) ==
  /\ ort = "fetching" /\ ort' = IF ok THEN "there" ELSE "failed"
  /\ UNCHANGED << page, call, enc, encoding, warming, workerVars, fetchVars >>

\* load in the encoder worker; on failure the encoder is forgotten and every
\* search that waits for it fails.
LoadEncoder(ok) ==
  /\ enc = "loading"
  /\ ort = "there" \/ (ort = "failed" /\ ~ok)
  /\ enc' = IF ok THEN "ready" ELSE "none"
  /\ encoding' = IF ok THEN encoding ELSE << >>
  /\ call' = IF ok THEN call
             ELSE [c \in Calls |-> IF call[c] = "vector" THEN "nothing" ELSE call[c]]
  /\ UNCHANGED << page, ort, warming, workerVars, fetchVars >>

\* The encoder worker serves one call after the other; the search goes on.
Encode(ok) ==
  LET c == Head(encoding)
  IN /\ enc = "ready" /\ encoding # << >> /\ encoding' = Tail(encoding)
     /\ call' = [call EXCEPT ![c] = IF ok THEN "rows" ELSE "nothing"]
     /\ queue' = IF ok THEN Append(queue, c) ELSE queue
     /\ UNCHANGED << page, ort, enc, warming, running, owner, db, replies, fetchVars >>

Close ==
  /\ page = "open" /\ page' = "closing" /\ queue' = Append(queue, "close")
  /\ UNCHANGED << call, ort, enc, encoding, warming, running, owner, db, replies, fetchVars >>

-----------------------------------------------------------------------------
(***************************************************************************)
(* The SQLite worker (serve with serial and priority).                     *)
(***************************************************************************)
Prio(job) == IF job = "warm" THEN 1 ELSE 0
Best == CHOOSE i \in DOMAIN queue :
          /\ \A j \in DOMAIN queue : Prio(queue[i]) <= Prio(queue[j])
          /\ \A j \in 1 .. i - 1 : Prio(queue[i]) < Prio(queue[j])

Started(job) ==
  /\ queue # << >>
  /\ running' = [j \in DOMAIN running \cup {job} |->
                   IF j = job THEN [left |-> MaxRounds, own |-> 0, seen |-> 0, bad |-> FALSE]
                   ELSE running[j]]
  /\ queue' = RemoveAt(queue, Best)
  /\ UNCHANGED << clientVars, owner, db, replies, fetchVars >>

TakeWhileBusy == queue # << >> /\ Started(queue[Best])  \* mutant: handlers interleave
Take == queue # << >> /\ DOMAIN running = {} /\ Started(queue[Best])

\* A statement reads through the VFS: no other runs until its round is over.
Usable(job) == IF job = "open" THEN db = "none" ELSE db = "open" /\ job # "close"
Fetch(job, shape) ==
  /\ job \in DOMAIN running /\ Usable(job) /\ owner = Nobody
  /\ running[job].left > 0 /\ ~running[job].bad
  /\ StartRound(shape)
  /\ owner' = job /\ running' = [running EXCEPT ![job].left = @ - 1]
  /\ UNCHANGED << clientVars, queue, db, replies >>

\* The counters of the connection are what every handler under way sees.
RoundOver ==
  /\ EndRound
  /\ owner' = Nobody
  /\ running' = [j \in DOMAIN running |->
                   IF j = owner THEN [running[j] EXCEPT !.own = @ + 1, !.seen = @ + 1, !.bad = round.failed]
                   ELSE [running[j] EXCEPT !.seen = @ + 1]]
  /\ UNCHANGED << clientVars, queue, db, replies >>

\* handle: a result or an error.  A warm-up turns errors into a result.
Ok(job) == IF job \in {"warm", "close"} THEN db = "open" \/ job = "close"
           ELSE ~running[job].bad /\ Usable(job)
MessageOfResult(job) == IF Ok(job) THEN << [to |-> job, ok |-> TRUE] >> ELSE << >>  \* mutant
Message(job) == << [to |-> job, ok |-> Ok(job)] >>
Reply(job) ==
  /\ job \in DOMAIN running /\ owner # job
  /\ replies' = replies \o Message(job)
  /\ db' = CASE job = "open" /\ Ok(job) -> "open"
             [] job = "close"           -> "closed"
             [] OTHER                   -> db
  /\ running' = [j \in DOMAIN running \ {job} |-> running[j]]
  /\ UNCHANGED << clientVars, queue, owner, fetchVars >>

Requested == (\E i \in DOMAIN round.st : Request(i)) /\ UNCHANGED << clientVars, workerVars >>
Broken == (\E i \in DOMAIN round.st : Break(i)) /\ UNCHANGED << clientVars, workerVars >>

-----------------------------------------------------------------------------
(***************************************************************************)
(* Messages from the worker (client).                                      *)
(***************************************************************************)
\* openIndex: warm what is already loading.
Opened(ok) ==
  /\ page' = IF ok THEN "open" ELSE "failed"
  /\ AutoWarm(ok /\ enc # "none")
  /\ UNCHANGED << call, ort, enc, encoding, running, owner, db, fetchVars >>

\* The workers are terminated with all they were doing.
Closed ==
  /\ page' = "closed" /\ enc' = "none" /\ encoding' = << >>
  /\ queue' = << >> /\ running' = << >> /\ owner' = Nobody /\ round' = NoRound
  /\ UNCHANGED << call, ort, warming, db, server, known, whole >>

Settled(c) ==
  /\ call' = [call EXCEPT ![c] = "nothing"]
  /\ UNCHANGED << page, ort, enc, encoding, warming, queue, running, owner, db, fetchVars >>

Deliver ==
  LET m == Head(replies)
  IN /\ replies # << >>
     /\ replies' = IF m.to = "close" THEN << >> ELSE Tail(replies)
     /\ CASE m.to = "open"  -> Opened(m.ok)
          [] m.to = "close" -> Closed
          [] m.to = "warm"  -> UNCHANGED << clientVars, queue, running, owner, db, fetchVars >>
          [] OTHER          -> Settled(m.to)

Jobs == Calls \cup {"open", "warm", "close"}
Next ==
  \/ \E c \in Calls : SearchText(c) \/ SearchVector(c)
  \/ \E ok \in BOOLEAN : FetchRuntime(ok) \/ LoadEncoder(ok) \/ Encode(ok)
  \/ Close \/ Take \/ Requested \/ Broken \/ RoundOver \/ Deliver
  \/ \E job \in Jobs : Reply(job) \/ \E shape \in Shapes : Fetch(job, shape)

\* Requests settle and workers run: the code has no timeouts of its own.
\* Nothing makes the page search or close.
Fairness ==
  /\ WF_vars(Take) /\ WF_vars(RoundOver) /\ WF_vars(Deliver) /\ WF_vars(Requested)
  /\ \A job \in Jobs : WF_vars(Reply(job))
  /\ WF_vars(\E ok \in BOOLEAN : FetchRuntime(ok))
  /\ WF_vars(\E ok \in BOOLEAN : LoadEncoder(ok))
  /\ WF_vars(\E ok \in BOOLEAN : Encode(ok))

Spec == Init /\ [][Next]_vars /\ Fairness

-----------------------------------------------------------------------------
(***************************************************************************)
(* Properties.                                                             *)
(***************************************************************************)
\* "The VFS counter deltas of a search must belong to that search alone"
\* (sqlite-worker.mjs): the rounds that ran since a handler began, which it
\* reports as its own, are those of its own statements.
CountersOwn == \A job \in DOMAIN running : running[job].seen = running[job].own

\* "A server that ignores them sends the whole file [...] but only once"
\* (httpvfsFetch): however groups, rounds and jobs follow each other, until a
\* round fails, which may lose what it has learnt.
WholeFileOnce == whole <= 1

\* Every search settles, also when rounds, encoders or the opening fail and
\* while other searches and warm-ups keep coming, unless the page is closed;
\* and closing ends (serve, client, SearchIndex.search and close).
SearchesSettle ==
  /\ \A c \in Calls : call[c] # "nothing" ~> call[c] = "nothing" \/ page = "closed"
  /\ page = "closing" ~> page = "closed"
=============================================================================
