----------------------------- MODULE MCMigrate -----------------------------
(* TLC instances of Migrate: what the two runners supply. *)
EXTENDS MigrateRefinement

CONSTANTS a, b \* the runners

Src(mode, up, ddl, again) ==
    [mode |-> mode, up |-> up, ddl |-> ddl, again |-> again, void |-> {}]
All == [kind |-> "everything", n |-> 0]
Through(m) == [kind |-> "through", n |-> m]
Back(n) == [kind |-> "steps", n |-> n]

\* Both runners supply the same two migrations.
SameSum == [r \in {a, b} |-> <<1, 1>>]
SameDown == [r \in {a, b} |-> <<2, 1>>]

\* SQLite: the modes make no difference.
MixedSource == << <<Src("atomic", 2, TRUE, "error")>>,
                  <<Src("nontransactional", 2, TRUE, "runs")>> >>

\* MySQL: a data change in a transaction, DDL in "atomic" mode that b has edited
\* and got the second source of wrong, and DDL that is refused the second time.
EditedSum == [r \in {a, b} |-> IF r = a THEN <<1, 1, 1>> ELSE <<1, 2, 1>>]
MySQLSource ==
    << <<Src("atomic", 1, FALSE, "error"), Src("atomic", 1, FALSE, "error")>>,
       <<Src("atomic", 2, TRUE, "listed"),
         [Src("atomic", 2, TRUE, "listed") EXCEPT !.void = {2}]>>,
       <<Src("nontransactional", 2, TRUE, "error"), Src("nontransactional", 2, TRUE, "error")>> >>
EditedDown == [r \in {a, b} |-> <<1, 1, 2>>]

\* PostgreSQL: two atomic migrations, then one that cannot run in a transaction.
\* b has a second that a does not know, and has edited the third.
SplitSum == [r \in {a, b} |-> IF r = a THEN <<1, 0, 1>> ELSE <<1, 1, 2>>]
SplitDown == [r \in {a, b} |-> IF r = a THEN <<2, 0, 2>> ELSE <<0, 1, 1>>]
SplitSource == << <<Src("atomic", 2, TRUE, "error"), Src("atomic", 2, TRUE, "error")>>,
                  <<Src("atomic", 1, TRUE, "error"), Src("atomic", 1, TRUE, "error")>>,
                  <<Src("nontransactional", 2, TRUE, "runs"), Src("atomic", 2, TRUE, "error")>> >>

ApplyAll == {All}
ApplyAllOrFirst == {All, Through(1)}
BackOneOrTwo == {Back(1), Back(2)}
ThroughOneOrBack == {Through(1), Back(1)}
=============================================================================
