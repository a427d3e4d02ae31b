------------------------- MODULE MigrateRefinement --------------------------
(* Migrate implements MigrateHistory: the committed database is the mapping. *)
EXTENDS Migrate

\* The migrations whose sources are committed one by one: the explicitly
\* nontransactional ones, except on SQLite, and DDL on MySQL.
TornIDs == {m \in IDs : \E s \in Sums :
               \/ Advisory /\ Source[m][s].mode = "nontransactional"
               \/ Engine = "mysql" /\ Source[m][s].ddl}

History == INSTANCE MigrateHistory WITH hist <- db.hist, eff <- db.eff, Torn <- TornIDs

\* The runners together implement the history that migrate promises: it
\* grows and shrinks at its end only, by whole migrations, whatever fails.
ImplementsHistory == History!AbsSpec
=============================================================================
