---------------------------- MODULE SearchIndex -----------------------------
(***************************************************************************)
(* What a late_plaid table promises as a table of SQLite: documents go     *)
(* into a buffer, a build makes the buffer the indexed collection, whole   *)
(* or not at all, and transactions and crashes treat the two as one.       *)
(***************************************************************************)
EXTENDS Functions, Sequences, TLC

CONSTANTS Ids, Docs, Files  \* rowids, documents, .npy inputs

VARIABLES now, saved, open  \* [buffer, collection] seen and committed

Nothing == [buffer |-> << >>, collection |-> << >>]
SearchInit == now = Nothing /\ saved = now /\ open = FALSE

Write(new) ==
  now' = new /\ saved' = (IF open THEN saved ELSE new) /\ UNCHANGED open

Put(r, d) == r \notin DOMAIN now.buffer /\ Write([now EXCEPT !.buffer = r :> d @@ @])
Drop(r)   == Write([now EXCEPT !.buffer = Restrict(@, DOMAIN @ \ {r})])
Collect   == Write([buffer |-> << >>,
                    collection |-> [r \in DOMAIN now.buffer |-> Range(now.buffer[r])]])
Import(s) == Write([now EXCEPT !.collection = [r \in 0 .. Len(s) - 1 |-> Range(s[r + 1])]])

Begin    == ~open /\ open' = TRUE /\ UNCHANGED << now, saved >>
Commit   == open /\ saved' = now /\ open' = FALSE /\ UNCHANGED now
Rollback == open /\ now' = saved /\ open' = FALSE /\ UNCHANGED saved
Crash    == now' = saved /\ open' = FALSE /\ UNCHANGED saved

SearchNext ==
  \/ \E r \in Ids, d \in Docs : Put(r, d)
  \/ \E r \in Ids : Drop(r)
  \/ Collect \/ \E s \in Files : Import(s)
  \/ Begin \/ Commit \/ Rollback \/ Crash

SearchSpec == SearchInit /\ [][SearchNext]_<< now, saved, open >>
=============================================================================
