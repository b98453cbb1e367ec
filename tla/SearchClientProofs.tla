-------------------------- MODULE SearchClientProofs --------------------------
(***************************************************************************)
(* Theorems about SearchClient: the counters a search reports are its own, *)
(* and a server that ignores multi-range requests sends the whole file at  *)
(* most once per failed round.                                             *)
(***************************************************************************)
EXTENDS SearchClient, SequenceTheorems, InductionLemmas

-----------------------------------------------------------------------------
(***************************************************************************)
(* Rounds.  Until the server is known, only the probe is sent for several  *)
(* ranges at once; a probe that ended well has told what the server does.  *)
(***************************************************************************)
States == {"queued", "several", "single", "again", "done", "error"}

RoundOK(r) ==
  /\ r \in [size : Seq(Nat \ {0}), st : Seq(States), probe : Nat, failed : BOOLEAN]
  /\ DOMAIN r.st = DOMAIN r.size
  /\ r.probe # 0 => r.probe \in DOMAIN r.size /\ r.size[r.probe] > 1

FetchTypeOK ==
  /\ server \in {"multi", "some", "ignores"}
  /\ known \in {"unknown", "yes", "no"}
  /\ whole \in {0, 1}
  /\ RoundOK(round)

ProbeFirst ==
  /\ known # "yes"
  /\ \A i \in DOMAIN round.st :
       /\ round.st[i] \in {"several", "again"} => i = round.probe
       /\ round.st[i] = "several" => known = "unknown" /\ whole = 0
       /\ round.st[i] = "error" => round.failed
       /\ round.size[i] > 1 /\ known = "unknown" => round.probe # 0
  /\ round.probe # 0 /\ round.st[round.probe] \in {"single", "done"} => known = "no"
  /\ known = "unknown" /\ whole = 1 =>
       round.probe # 0 /\ round.st[round.probe] \in {"again", "error"}

FetchInv ==
  /\ FetchTypeOK
  /\ server # "ignores" => whole = 0
  /\ server = "ignores" => ProbeFirst

LEMMA NoRoundOK ==
  /\ RoundOK(NoRound)
  /\ DOMAIN NoRound.st = {}
  /\ NoRound.probe = 0
<1>1. << >> \in Seq(Nat \ {0}) /\ << >> \in Seq(States)
  BY EmptySeq
<1> QED BY <1>1 DEF RoundOK, NoRound

LEMMA ProbeIsSeveral ==
  ASSUME NEW shape \in Seq(Nat \ {0})
  PROVE  /\ Probe(shape) \in Nat
         /\ Probe(shape) # 0 => Probe(shape) \in DOMAIN shape /\ shape[Probe(shape)] > 1
         /\ known = "unknown" => \A i \in DOMAIN shape : shape[i] > 1 => Probe(shape) # 0
<1> DEFINE several == {i \in DOMAIN shape : shape[i] > 1}
<1>1. DOMAIN shape = 1 .. Len(shape) /\ Len(shape) \in Nat
  BY LenProperties
<1>2. several \subseteq Nat /\ 0 \notin several
  BY <1>1
<1>3. several # {} => Min(several) \in several
  <2> SUFFICES ASSUME several # {} PROVE Min(several) \in several
    OBVIOUS
  <2> HIDE DEF several
  <2>1. \E m \in several : \A y \in several : m <= y
    BY <1>2, LeastNatural
  <2> QED BY <2>1 DEF Min
<1>4. Probe(shape) = IF known = "unknown" /\ several # {} THEN Min(several) ELSE 0
  BY DEF Probe
<1>5. Probe(shape) # 0 => Probe(shape) \in several
  BY <1>3, <1>4
<1>6. known = "unknown" /\ several # {} => Probe(shape) \in several
  BY <1>3, <1>4
<1> QED BY <1>2, <1>5, <1>6

LEMMA StartKeeps == ASSUME FetchInv, NEW shape \in Shapes, StartRound(shape) PROVE FetchInv'
<1> DEFINE st == [i \in DOMAIN shape |-> "queued"]
           p  == Probe(shape)
<1>1. /\ round = NoRound
      /\ round' = [size |-> shape, st |-> st, probe |-> p, failed |-> FALSE]
      /\ UNCHANGED << server, known, whole >>
  BY DEF StartRound, Idle
<1>2. shape \in Seq(Nat \ {0})
  BY FetchAssumption
<1>3. /\ p \in Nat
      /\ p # 0 => p \in DOMAIN shape /\ shape[p] > 1
      /\ known = "unknown" => \A i \in DOMAIN shape : shape[i] > 1 => p # 0
  BY <1>2, ProbeIsSeveral
<1>4. st \in Seq(States) /\ DOMAIN st = DOMAIN shape
  <2>1. DOMAIN shape = 1 .. Len(shape) /\ Len(shape) \in Nat
    BY <1>2, LenProperties
  <2>2. \A i \in 1 .. Len(shape) : st[i] \in States
    BY <2>1 DEF States
  <2>3. [i \in 1 .. Len(shape) |-> "queued"] \in Seq(States)
    BY <2>1, IsASeq DEF States
  <2> QED BY <2>1, <2>3
<1>5. \A i \in DOMAIN st : st[i] = "queued"
  OBVIOUS
<1> HIDE DEF st, p
<1>6. RoundOK(round')
  BY <1>1, <1>2, <1>3, <1>4 DEF RoundOK
<1>7. FetchTypeOK'
  BY <1>1, <1>6 DEF FetchInv, FetchTypeOK
<1>8. server = "ignores" => ProbeFirst'
  <2> SUFFICES ASSUME server = "ignores" PROVE ProbeFirst'
    OBVIOUS
  <2>1. known # "yes" /\ ~(known = "unknown" /\ whole = 1)
    BY <1>1, NoRoundOK DEF FetchInv, ProbeFirst
  <2> QED BY <1>1, <1>3, <1>4, <1>5, <2>1 DEF ProbeFirst
<1> QED BY <1>1, <1>7, <1>8 DEF FetchInv

(* One group changes its state. *)
LEMMA OneGroup ==
  ASSUME RoundOK(round), NEW i \in DOMAIN round.st, NEW s \in States, NEW f \in BOOLEAN,
         round' = [round EXCEPT !.st[i] = s, !.failed = f]
  PROVE  /\ RoundOK(round')
         /\ DOMAIN round'.st = DOMAIN round.st
         /\ round'.size = round.size /\ round'.probe = round.probe /\ round'.failed = f
         /\ \A j \in DOMAIN round.st : round'.st[j] = IF j = i THEN s ELSE round.st[j]
<1>1. /\ round \in [size : Seq(Nat \ {0}), st : Seq(States), probe : Nat, failed : BOOLEAN]
      /\ DOMAIN round.st = DOMAIN round.size
  BY DEF RoundOK
<1> DEFINE t == [round.st EXCEPT ![i] = s]
<1>2. t \in Seq(States) /\ DOMAIN t = DOMAIN round.st
  <2>1. round.st \in Seq(States) /\ DOMAIN round.st = 1 .. Len(round.st)
    BY <1>1, LenProperties
  <2> QED BY <2>1, ExceptSeq
<1>3. \A j \in DOMAIN round.st : t[j] = IF j = i THEN s ELSE round.st[j]
  OBVIOUS
<1>4. round' = [round EXCEPT !.st = t, !.failed = f]
  BY <1>1
<1> HIDE DEF t
<1>5. /\ round'.st = t /\ round'.size = round.size /\ round'.probe = round.probe
      /\ round'.failed = f
      /\ round' \in [size : Seq(Nat \ {0}), st : Seq(States), probe : Nat, failed : BOOLEAN]
  BY <1>1, <1>2, <1>4
<1> QED BY <1>1, <1>2, <1>3, <1>5 DEF RoundOK

LEMMA ToIsOneGroup ==
  ASSUME RoundOK(round), NEW i \in DOMAIN round.st, NEW s \in States, To(i, s)
  PROVE  /\ RoundOK(round')
         /\ DOMAIN round'.st = DOMAIN round.st
         /\ round'.size = round.size /\ round'.probe = round.probe
         /\ round'.failed = round.failed
         /\ \A j \in DOMAIN round.st : round'.st[j] = IF j = i THEN s ELSE round.st[j]
<1>1. round' = [round EXCEPT !.st[i] = s, !.failed = round.failed]
  BY DEF To, RoundOK
<1>2. round.failed \in BOOLEAN
  BY DEF RoundOK
<1> QED BY <1>1, <1>2, OneGroup

LEMMA RequestKeeps == ASSUME FetchInv, NEW i \in DOMAIN round.st, Request(i) PROVE FetchInv'
<1>0. FetchTypeOK /\ RoundOK(round) /\ round.failed \in BOOLEAN
  BY DEF FetchInv, FetchTypeOK, RoundOK
<1>1. CASE Send(i)
  <2> DEFINE s == IF round.size[i] > 1 /\ known # "no" THEN "several" ELSE "single"
  <2>1. /\ round.st[i] = "queued" /\ Turn(i) /\ To(i, s)
        /\ UNCHANGED << server, known, whole >>
    BY <1>1 DEF Send
  <2>2. s \in States
    BY DEF States
  <2>3. s = "several" => round.size[i] > 1 /\ known # "no"
    OBVIOUS
  <2>4. s = "single" => ~(round.size[i] > 1) \/ known = "no"
    OBVIOUS
  <2>4a. s \in {"several", "single"}
    OBVIOUS
  <2> HIDE DEF s
  <2>5. /\ RoundOK(round') /\ DOMAIN round'.st = DOMAIN round.st
        /\ round'.size = round.size /\ round'.probe = round.probe
        /\ round'.failed = round.failed
        /\ \A j \in DOMAIN round.st : round'.st[j] = IF j = i THEN s ELSE round.st[j]
    BY <1>0, <2>1, <2>2, ToIsOneGroup
  <2>6. server = "ignores" => ProbeFirst'
    <3> SUFFICES ASSUME server = "ignores", ProbeFirst PROVE ProbeFirst'
      BY DEF FetchInv
    <3>1. i # round.probe => (round.probe # 0 => round.st[round.probe] = "done")
      BY <1>0, <2>1 DEF Turn, ProbeFirst, RoundOK
    <3>2. s = "several" => i = round.probe /\ known = "unknown" /\ whole = 0
      <4> SUFFICES ASSUME s = "several"
                   PROVE  i = round.probe /\ known = "unknown" /\ whole = 0
        OBVIOUS
      <4>1. known = "unknown" /\ round.probe # 0
        BY <1>0, <2>3 DEF FetchTypeOK, ProbeFirst
      <4>2. i = round.probe
        BY <3>1, <4>1 DEF ProbeFirst
      <4> QED BY <1>0, <2>1, <4>1, <4>2 DEF FetchTypeOK, ProbeFirst
    <3>3. i = round.probe /\ s = "single" => known = "no"
      BY <1>0, <2>4 DEF RoundOK
    <3>4. i = round.probe => ~(known = "unknown" /\ whole = 1)
      BY <2>1 DEF ProbeFirst
    <3>5. round.probe # 0 => round.probe \in DOMAIN round.st
      BY <1>0 DEF RoundOK
    <3> QED BY <2>1, <2>4a, <2>5, <3>2, <3>3, <3>4, <3>5 DEF ProbeFirst
  <2> QED BY <1>0, <2>1, <2>5, <2>6 DEF FetchInv, FetchTypeOK
<1>2. CASE Answer(i)
  <2>1. CASE server = "multi"
    <3>1. /\ To(i, "done") /\ UNCHANGED << server, whole >>
          /\ known' \in {"yes", known}
      BY <1>2, <2>1 DEF Answer
    <3>2. RoundOK(round')
      BY <1>0, <3>1, ToIsOneGroup DEF States
    <3> QED BY <1>0, <2>1, <3>1, <3>2 DEF FetchInv, FetchTypeOK
  <2>2. CASE server = "some"
    <3>1. /\ To(i, "again") /\ UNCHANGED << server, known >> /\ whole' = whole + 0
      BY <1>2, <2>2 DEF Answer
    <3>2. RoundOK(round')
      BY <1>0, <3>1, ToIsOneGroup DEF States
    <3> QED BY <1>0, <2>2, <3>1, <3>2 DEF FetchInv, FetchTypeOK
  <2>3. CASE server = "ignores"
    <3>1. /\ round.st[i] = "several" /\ To(i, "again")
          /\ UNCHANGED << server, known >> /\ whole' = whole + 1
      BY <1>2, <2>3 DEF Answer
    <3>2. /\ RoundOK(round') /\ DOMAIN round'.st = DOMAIN round.st
          /\ round'.size = round.size /\ round'.probe = round.probe
          /\ round'.failed = round.failed
          /\ \A j \in DOMAIN round.st : round'.st[j] = IF j = i THEN "again" ELSE round.st[j]
      BY <1>0, <3>1, ToIsOneGroup DEF States
    <3>3. ProbeFirst /\ i = round.probe /\ known = "unknown" /\ whole = 0
      BY <2>3, <3>1 DEF FetchInv, ProbeFirst
    <3>4. round.probe # 0
      BY <1>0, <3>3 DEF RoundOK, ProbeFirst
    <3>5. ProbeFirst'
      BY <3>1, <3>2, <3>3, <3>4 DEF ProbeFirst
    <3> QED BY <1>0, <2>3, <3>1, <3>2, <3>3, <3>5 DEF FetchInv, FetchTypeOK
  <2> QED BY <1>0, <2>1, <2>2, <2>3 DEF FetchTypeOK
<1>3. CASE Settle(i)
  <2>1. /\ round.st[i] \in {"single", "again"} /\ To(i, "done")
        /\ known' = IF round.st[i] = "again" THEN "no" ELSE known
        /\ UNCHANGED << server, whole >>
    BY <1>3 DEF Settle
  <2>2. /\ RoundOK(round') /\ DOMAIN round'.st = DOMAIN round.st
        /\ round'.size = round.size /\ round'.probe = round.probe
        /\ round'.failed = round.failed
        /\ \A j \in DOMAIN round.st : round'.st[j] = IF j = i THEN "done" ELSE round.st[j]
    BY <1>0, <2>1, ToIsOneGroup DEF States
  <2>3. server = "ignores" => ProbeFirst'
    <3> SUFFICES ASSUME server = "ignores", ProbeFirst PROVE ProbeFirst'
      BY DEF FetchInv
    <3>1. i = round.probe => known' = "no"
      BY <1>0, <2>1 DEF ProbeFirst, RoundOK
    <3>2. i # round.probe => known' = known
      BY <2>1 DEF ProbeFirst
    <3>3. round.probe # 0 => round.probe \in DOMAIN round.st
      BY <1>0 DEF RoundOK
    <3>4. \A j \in DOMAIN round.st : round.st[j] = "several" => j = round.probe
      BY DEF ProbeFirst
    <3> QED BY <2>1, <2>2, <3>1, <3>2, <3>3, <3>4 DEF ProbeFirst
  <2> QED BY <1>0, <2>1, <2>2, <2>3 DEF FetchInv, FetchTypeOK
<1> QED BY <1>1, <1>2, <1>3 DEF Request

LEMMA BreakKeeps == ASSUME FetchInv, NEW i \in DOMAIN round.st, Break(i) PROVE FetchInv'
<1>0. FetchTypeOK /\ RoundOK(round)
  BY DEF FetchInv, FetchTypeOK
<1>1. /\ i \in InFlight /\ UNCHANGED << server, known, whole >>
      /\ round' = [round EXCEPT !.st[i] = "error", !.failed = TRUE]
  BY DEF Break
<1>2. /\ RoundOK(round') /\ DOMAIN round'.st = DOMAIN round.st
      /\ round'.size = round.size /\ round'.probe = round.probe
      /\ round'.failed = TRUE
      /\ \A j \in DOMAIN round.st : round'.st[j] = IF j = i THEN "error" ELSE round.st[j]
  BY <1>0, <1>1, OneGroup DEF States
<1>3. server = "ignores" => ProbeFirst'
  <2> SUFFICES ASSUME server = "ignores", ProbeFirst PROVE ProbeFirst'
    BY DEF FetchInv
  <2>1. round.probe # 0 => round.probe \in DOMAIN round.st
    BY <1>0 DEF RoundOK
  <2> QED BY <1>1, <1>2, <2>1 DEF ProbeFirst
<1> QED BY <1>0, <1>1, <1>2, <1>3 DEF FetchInv, FetchTypeOK

LEMMA EndKeeps == FetchInv /\ EndRound => FetchInv'
<1> SUFFICES ASSUME FetchInv, EndRound PROVE FetchInv'
  OBVIOUS
<1>0. FetchTypeOK /\ RoundOK(round)
  BY DEF FetchInv, FetchTypeOK
<1>1. /\ Over /\ round' = NoRound /\ UNCHANGED << server, known >>
      /\ whole' = IF round.failed THEN 0 ELSE whole
  BY DEF EndRound
<1>2. server = "ignores" => known # "yes" /\ ~(known = "unknown" /\ whole' = 1)
  <2> SUFFICES ASSUME server = "ignores", ProbeFirst, known = "unknown", whole = 1
               PROVE  round.failed
    BY <1>1 DEF FetchInv, ProbeFirst
  <2>1. round.probe \in DOMAIN round.st
    BY <1>0 DEF RoundOK, ProbeFirst
  <2>2. round.st[round.probe] # "again"
    BY <1>1, <2>1 DEF Over, InFlight
  <2> QED BY <2>1, <2>2 DEF ProbeFirst
<1>3. RoundOK(round') /\ whole' \in {0, whole}
  BY <1>1, NoRoundOK
<1>4. server = "ignores" => ProbeFirst'
  BY <1>1, <1>2, NoRoundOK DEF ProbeFirst
<1> QED BY <1>0, <1>1, <1>3, <1>4 DEF FetchInv, FetchTypeOK

-----------------------------------------------------------------------------
(***************************************************************************)
(* Jobs.  The worker runs one handler at a time, and a round under way     *)
(* belongs to it; once the database is closed there are no more rounds.    *)
(***************************************************************************)
Messages == [to : Jobs, ok : BOOLEAN]
Progress == [left : Int, own : Nat, seen : Nat, bad : BOOLEAN]

JobsInv ==
  /\ \A job \in DOMAIN running :
       running[job] \in Progress /\ running[job].seen = running[job].own
  /\ \A job, other \in DOMAIN running : job = other
  /\ round # NoRound => owner \in DOMAIN running
  /\ db = "closed" => round = NoRound
  /\ replies \in Seq(Messages)
  /\ \A i \in DOMAIN replies : replies[i].to = "close" => db = "closed"

ClientInv == FetchInv /\ JobsInv

LEMMA SomeGroup == ASSUME NEW i \in DOMAIN round.st PROVE round # NoRound
BY NoRoundOK

(* A step that leaves the worker alone. *)
LEMMA WorkerIdle ==
  ClientInv /\ UNCHANGED << running, owner, db, replies, fetchVars >> => ClientInv'
BY DEF ClientInv, JobsInv, FetchInv, FetchTypeOK, ProbeFirst, RoundOK, fetchVars

LEMMA FetchIdle == FetchInv /\ UNCHANGED fetchVars => FetchInv'
BY DEF FetchInv, FetchTypeOK, ProbeFirst, RoundOK, fetchVars

LEMMA TakeKeeps == ClientInv /\ Take => ClientInv'
<1> SUFFICES ASSUME ClientInv, Take PROVE ClientInv'
  OBVIOUS
<1>1. PICK job :
        /\ DOMAIN running = {}
        /\ running' = [j \in DOMAIN running \cup {job} |->
                         IF j = job THEN [left |-> MaxRounds, own |-> 0, seen |-> 0, bad |-> FALSE]
                         ELSE running[j]]
        /\ UNCHANGED << clientVars, owner, db, replies, fetchVars >>
  BY DEF Take, Started
<1>2. DOMAIN running' = {job}
      /\ running'[job] = [left |-> MaxRounds, own |-> 0, seen |-> 0, bad |-> FALSE]
  BY <1>1
<1>3. running'[job] \in Progress /\ running'[job].seen = running'[job].own
  BY <1>2, ClientAssumption DEF Progress
<1>4. round = NoRound /\ round' = NoRound
  BY <1>1 DEF ClientInv, JobsInv, fetchVars
<1>5. JobsInv'
  BY <1>1, <1>2, <1>3, <1>4 DEF ClientInv, JobsInv
<1> QED BY <1>1, <1>5, FetchIdle DEF ClientInv

LEMMA FetchKeeps ==
  ASSUME ClientInv, NEW job \in Jobs, NEW shape \in Shapes, Fetch(job, shape)
  PROVE  ClientInv'
<1>1. /\ job \in DOMAIN running /\ Usable(job) /\ StartRound(shape) /\ owner' = job
      /\ running' = [running EXCEPT ![job].left = @ - 1]
      /\ UNCHANGED << db, replies >>
  BY DEF Fetch
<1>2. /\ DOMAIN running' = DOMAIN running
      /\ \A j \in DOMAIN running :
           running'[j] = IF j = job THEN [running[j] EXCEPT !.left = @ - 1] ELSE running[j]
  BY <1>1
<1>3. \A j \in DOMAIN running' :
        running'[j] \in Progress /\ running'[j].seen = running'[j].own
  BY <1>2 DEF ClientInv, JobsInv, Progress
<1>4. db # "closed"
  BY <1>1 DEF Usable
<1>5. JobsInv'
  BY <1>1, <1>2, <1>3, <1>4 DEF ClientInv, JobsInv
<1> QED BY <1>1, <1>5, StartKeeps DEF ClientInv

LEMMA RoundOverKeeps == ClientInv /\ RoundOver => ClientInv'
<1> SUFFICES ASSUME ClientInv, RoundOver PROVE ClientInv'
  OBVIOUS
<1>1. /\ EndRound /\ round # NoRound /\ round' = NoRound
      /\ running' = [j \in DOMAIN running |->
           IF j = owner THEN [running[j] EXCEPT !.own = @ + 1, !.seen = @ + 1, !.bad = round.failed]
           ELSE [running[j] EXCEPT !.seen = @ + 1]]
      /\ UNCHANGED << db, replies >>
  BY DEF RoundOver, EndRound, Over, Idle
<1>2. \A j \in DOMAIN running : j = owner
  BY <1>1 DEF ClientInv, JobsInv
<1>3. /\ DOMAIN running' = DOMAIN running
      /\ \A j \in DOMAIN running :
           running'[j] = [running[j] EXCEPT !.own = @ + 1, !.seen = @ + 1, !.bad = round.failed]
  BY <1>1, <1>2
<1>4. round.failed \in BOOLEAN
  BY DEF ClientInv, FetchInv, FetchTypeOK, RoundOK
<1>5. \A j \in DOMAIN running' :
        running'[j] \in Progress /\ running'[j].seen = running'[j].own
  <2> TAKE j \in DOMAIN running'
  <2>1. running[j] \in Progress /\ running[j].seen = running[j].own
    BY <1>3 DEF ClientInv, JobsInv
  <2>2. running'[j] = [running[j] EXCEPT !.own = @ + 1, !.seen = @ + 1, !.bad = round.failed]
    BY <1>3
  <2>3. /\ running[j].left \in Int /\ running[j].own \in Nat /\ running[j].seen \in Nat
        /\ running[j] = [left |-> running[j].left, own |-> running[j].own,
                         seen |-> running[j].seen, bad |-> running[j].bad]
    BY <2>1 DEF Progress
  <2>4. running'[j] = [left |-> running[j].left, own |-> running[j].own + 1,
                       seen |-> running[j].seen + 1, bad |-> round.failed]
    BY <2>2, <2>3
  <2> QED BY <1>4, <2>1, <2>3, <2>4 DEF Progress
<1>6. JobsInv'
  BY <1>1, <1>3, <1>5 DEF ClientInv, JobsInv
<1> QED BY <1>1, <1>6, EndKeeps DEF ClientInv

LEMMA ReplyKeeps == ASSUME ClientInv, NEW job \in Jobs, Reply(job) PROVE ClientInv'
<1> DEFINE m == [to |-> job, ok |-> Ok(job)]
<1>1. /\ job \in DOMAIN running /\ owner # job
      /\ replies' = replies \o << m >>
      /\ db' = CASE job = "open" /\ Ok(job) -> "open"
                 [] job = "close"           -> "closed"
                 [] OTHER                   -> db
      /\ running' = [j \in DOMAIN running \ {job} |-> running[j]]
      /\ UNCHANGED << owner, fetchVars >>
  BY DEF Reply, Message
<1>2. DOMAIN running' = {} /\ round = NoRound /\ round' = NoRound
  BY <1>1 DEF ClientInv, JobsInv, fetchVars
<1>3. m \in Messages /\ m.to = job
  <2>1. Ok(job) \in BOOLEAN
    BY DEF Ok, Usable
  <2> QED BY <2>1 DEF Messages
<1> HIDE DEF m
<1>4. db = "closed" => db' = "closed"
  BY <1>1 DEF Ok, Usable
<1>5. job = "close" => db' = "closed"
  BY <1>1
<1>6. /\ replies' \in Seq(Messages)
      /\ \A i \in DOMAIN replies' : replies'[i] = m \/ \E j \in DOMAIN replies : replies'[i] = replies[j]
  <2>1. replies \in Seq(Messages) /\ << m >> \in Seq(Messages) /\ Len(<< m >>) = 1 /\ << m >>[1] = m
    BY <1>3 DEF ClientInv, JobsInv
  <2> DEFINE n == Len(replies)
  <2>2. n \in Nat /\ DOMAIN replies = 1 .. n
    BY <2>1, LenProperties
  <2>3. /\ replies' \in Seq(Messages) /\ Len(replies') = n + 1
        /\ \A i \in 1 .. n + 1 :
             replies'[i] = IF i <= n THEN replies[i] ELSE << m >>[i - n]
    BY <1>1, <2>1, ConcatProperties
  <2>4. DOMAIN replies' = 1 .. n + 1
    BY <2>2, <2>3, LenProperties
  <2> HIDE DEF n
  <2>5. \A i \in 1 .. n + 1 : (i \in 1 .. n /\ i <= n) \/ (~(i <= n) /\ i - n = 1)
    BY <2>2
  <2>6. \A i \in 1 .. n + 1 : replies'[i] = m \/ \E j \in 1 .. n : replies'[i] = replies[j]
    BY <2>1, <2>3, <2>5
  <2> QED BY <2>2, <2>3, <2>4, <2>6
<1>7. \A i \in DOMAIN replies' : replies'[i].to = "close" => db' = "closed"
  BY <1>3, <1>4, <1>5, <1>6 DEF ClientInv, JobsInv
<1>8. JobsInv'
  BY <1>2, <1>6, <1>7 DEF JobsInv
<1> QED BY <1>1, <1>8, FetchIdle DEF ClientInv

LEMMA DeliverKeeps == ClientInv /\ Deliver => ClientInv'
<1> SUFFICES ASSUME ClientInv, Deliver PROVE ClientInv'
  OBVIOUS
<1> DEFINE m == Head(replies)
<1>1. /\ replies # << >>
      /\ replies' = IF m.to = "close" THEN << >> ELSE Tail(replies)
      /\ \/ m.to = "close" /\ Closed
         \/ m.to # "close" /\ UNCHANGED << running, owner, db, fetchVars >>
  BY DEF Deliver, Opened, Settled
<1>2. replies \in Seq(Messages)
  BY DEF ClientInv, JobsInv
<1>3. /\ replies' \in Seq(Messages)
      /\ \A i \in DOMAIN replies' : replies'[i].to = "close" => db = "closed"
  <2>1. CASE m.to = "close"
    BY <1>1, <2>1, EmptySeq
  <2>2. CASE m.to # "close"
    <3> DEFINE n == Len(replies)
    <3>1. n \in Nat /\ DOMAIN replies = 1 .. n
      BY <1>2, LenProperties
    <3>2. /\ Tail(replies) \in Seq(Messages)
          /\ Len(Tail(replies)) = n - 1
          /\ \A i \in 1 .. n - 1 : Tail(replies)[i] = replies[i + 1]
      BY <1>1, <1>2, HeadTailProperties
    <3>3. n - 1 \in Nat
      BY <3>2, LenProperties
    <3>4. DOMAIN Tail(replies) = 1 .. n - 1
      BY <3>2, LenProperties
    <3> HIDE DEF n
    <3>5. \A i \in 1 .. n - 1 : i + 1 \in 1 .. n
      BY <3>1
    <3>6. \A i \in 1 .. n : replies[i].to = "close" => db = "closed"
      BY <3>1 DEF ClientInv, JobsInv
    <3> QED BY <1>1, <2>2, <3>2, <3>4, <3>5, <3>6
  <2> QED BY <2>1, <2>2
<1>4. CASE m.to = "close" /\ Closed
  <2>1. m = replies[1] /\ 1 \in DOMAIN replies
    <3>1. Len(replies) \in Nat /\ DOMAIN replies = 1 .. Len(replies) /\ Len(replies) # 0
      BY <1>1, <1>2, LenProperties, EmptySeq
    <3> QED BY <1>1, <1>2, <3>1, HeadTailProperties
  <2>2. db = "closed" /\ round = NoRound
    BY <1>4, <2>1 DEF ClientInv, JobsInv
  <2>3. UNCHANGED << fetchVars, db >> /\ DOMAIN running' = {}
    BY <1>4, <2>2 DEF Closed, fetchVars
  <2>4. JobsInv'
    BY <1>3, <2>2, <2>3 DEF JobsInv, fetchVars
  <2> QED BY <2>3, <2>4, FetchIdle DEF ClientInv
<1>5. CASE UNCHANGED << running, owner, db, fetchVars >>
  <2>1. JobsInv'
    BY <1>3, <1>5 DEF ClientInv, JobsInv, fetchVars
  <2> QED BY <1>5, <2>1, FetchIdle DEF ClientInv
<1> QED BY <1>1, <1>4, <1>5

LEMMA ClientInitSatisfies == Init => ClientInv
<1> SUFFICES ASSUME Init PROVE ClientInv
  OBVIOUS
<1>1. /\ server \in Servers /\ known = "unknown" /\ round = NoRound /\ whole = 0
      /\ running = << >> /\ db = "none" /\ replies = << >>
  BY DEF Init, FetchInit
<1>2. FetchInv
  BY <1>1, NoRoundOK, FetchAssumption DEF FetchInv, FetchTypeOK, ProbeFirst
<1>3. JobsInv
  BY <1>1, EmptySeq DEF JobsInv
<1> QED BY <1>2, <1>3 DEF ClientInv

LEMMA ClientStepKeeps == ClientInv /\ [Next]_vars => ClientInv'
<1> SUFFICES ASSUME ClientInv, [Next]_vars PROVE ClientInv'
  OBVIOUS
<1>1. ASSUME NEW c \in Calls, SearchText(c) \/ SearchVector(c) PROVE ClientInv'
  BY <1>1, WorkerIdle DEF SearchText, SearchVector
<1>2. ASSUME NEW ok \in BOOLEAN, FetchRuntime(ok) \/ LoadEncoder(ok) \/ Encode(ok)
      PROVE  ClientInv'
  BY <1>2, WorkerIdle DEF FetchRuntime, LoadEncoder, Encode, workerVars
<1>3. CASE Close
  BY <1>3, WorkerIdle DEF Close
<1>4. CASE Take
  BY <1>4, TakeKeeps
<1>5. CASE Requested
  <2>1. PICK i \in DOMAIN round.st : Request(i)
    BY <1>5 DEF Requested
  <2>2. round # NoRound /\ FetchInv' /\ UNCHANGED << running, owner, db, replies >>
    BY <1>5, <2>1, RequestKeeps, SomeGroup DEF ClientInv, Requested, workerVars
  <2>3. JobsInv'
    BY <2>2 DEF ClientInv, JobsInv
  <2> QED BY <2>2, <2>3 DEF ClientInv
<1>6. CASE Broken
  <2>1. PICK i \in DOMAIN round.st : Break(i)
    BY <1>6 DEF Broken
  <2>2. round # NoRound /\ FetchInv' /\ UNCHANGED << running, owner, db, replies >>
    BY <1>6, <2>1, BreakKeeps, SomeGroup DEF ClientInv, Broken, workerVars
  <2>3. JobsInv'
    BY <2>2 DEF ClientInv, JobsInv
  <2> QED BY <2>2, <2>3 DEF ClientInv
<1>7. CASE RoundOver
  BY <1>7, RoundOverKeeps
<1>8. CASE Deliver
  BY <1>8, DeliverKeeps
<1>9. ASSUME NEW job \in Jobs, Reply(job) PROVE ClientInv'
  BY <1>9, ReplyKeeps
<1>10. ASSUME NEW job \in Jobs, NEW shape \in Shapes, Fetch(job, shape) PROVE ClientInv'
  BY <1>10, FetchKeeps
<1>11. CASE UNCHANGED vars
  BY <1>11, WorkerIdle DEF vars, workerVars
<1> QED BY <1>1, <1>2, <1>3, <1>4, <1>5, <1>6, <1>7, <1>8, <1>9, <1>10, <1>11 DEF Next

LEMMA ClientInvariance == Spec => []ClientInv
BY ClientInitSatisfies, ClientStepKeeps, PTL DEF Spec

(* The rounds that ran since a handler began, which it reports as its own, *)
(* are those of its own statements.                                        *)
THEOREM SearchCountersOwn == Spec => []CountersOwn
<1>1. ClientInv => CountersOwn
  BY DEF ClientInv, JobsInv, CountersOwn
<1> QED BY <1>1, ClientInvariance, PTL

(* However groups, rounds and jobs follow each other, a server that        *)
(* ignores requests for several ranges has sent the whole file at most     *)
(* once since a round last failed.                                         *)
THEOREM SearchWholeFileOnce == Spec => []WholeFileOnce
<1>1. ClientInv => WholeFileOnce
  BY DEF ClientInv, FetchInv, FetchTypeOK, WholeFileOnce
<1> QED BY <1>1, ClientInvariance, PTL
=============================================================================
