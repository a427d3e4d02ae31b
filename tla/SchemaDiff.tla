----------------------------- MODULE SchemaDiff -----------------------------
(* A generated migration from end to end: migrate/diff compares two schemas,  *)
(* the caller answers its questions and writes the files, and the runner      *)
(* applies them to a database that has rows, reverts them, and tries again    *)
(* after an error or a lost connection.                                       *)
EXTENDS DiffPostgreSQL, DiffMySQL, DiffSQLite

CONSTANTS
    Bases,          \* the schemas to start from
    Targets(_),     \* those to reach from each
    Contents(_),    \* the rows a database of a schema may hold
    Systems,        \* [dialect, live, enforce]
    MaxTries        \* runs of each direction

VARIABLES
    in,         \* the case
    plan,       \* what the analyzer came back with, then the resolved plan
    pick,       \* MySQL: the rename candidates its analyzer met last
    answered,   \* the answers it was resolved with
    files,      \* the migration directory
    db,         \* what is committed
    work,       \* what the runner's connection sees
    run,        \* [dir, at]: the direction under way and its next statement
    recorded,   \* the migration is in the history
    last,       \* the direction last started
    err,        \* how the last run ended: "", an error class or "lost"
    tries       \* runs started, per direction

vars == <<in, plan, pick, answered, files, db, work, run, recorded, last, err, tries>>

Unplanned == [Refused EXCEPT !.status = "none"]
NoFiles == [up |-> <<>>, down |-> <<>>, mode |-> "none"]
Idle == [dir |-> "idle", at |-> 0]
Baseline(c) == [tables |-> c.base.tables, indexes |-> c.base.indexes, rows |-> c.rows]

(* What is written in one dialect alone: CONCURRENTLY and identity columns   *)
(* in PostgreSQL; foreign keys on a column are modelled for SQLite.          *)
Speaks(dialect, schema) ==
    /\ dialect # "sqlite" => \A f \in ForeignKeys(schema) : ~f.fk.inline
    /\ dialect # "postgresql" =>
          /\ \A n \in DOMAIN schema.indexes : ~schema.indexes[n].conc
          /\ \A t \in DOMAIN schema.tables : \A c \in DOMAIN schema.tables[t].cols :
                schema.tables[t].cols[c].ident = "no"

Init ==
    /\ \E base \in Bases : \E target \in Targets(base), rows \in Contents(base), s \in Systems :
          /\ Speaks(s.dialect, target)
          /\ in = [dialect |-> s.dialect, live |-> s.live, enforce |-> s.enforce,
                   base |-> base, target |-> target, rows |-> rows]
    /\ plan = Unplanned
    /\ pick = <<>>
    /\ answered = {}
    /\ files = NoFiles
    /\ db = Baseline(in) /\ work = db
    /\ run = Idle
    /\ recorded = FALSE
    /\ last = "none"
    /\ err = ""
    /\ tries = [up |-> 0, down |-> 0]

(* SQLite's live facts: unknown, or every name in the database; a view or a  *)
(* trigger refuses them.                                                     *)
Known == in.live # "unknown"
Objects == IF Known THEN DOMAIN in.base.tables \cup DOMAIN in.base.indexes ELSE {}

Diff ==
    /\ plan.status = "none"
    /\ CASE in.dialect = "postgresql" ->
              plan' = PGDiff(in.base, in.target) /\ pick' = pick
         [] in.dialect = "mysql" ->
              /\ pick' \in MyPicks(in.base, in.target)
              /\ \E seen \in MySeen(in.base, in.target) :
                    plan' = MyDiff(in.base, in.target, pick', seen)
         [] in.dialect = "sqlite" ->
              /\ plan' = IF in.live = "views" THEN Refused
                         ELSE LiteDiff(in.base, in.target, Known, Objects)
              /\ pick' = pick
    /\ UNCHANGED <<in, answered, files, db, work, run, recorded, last, err, tries>>

Lower(answers) ==
    CASE in.dialect = "postgresql" -> PGLower(in.base, in.target, answers)
      [] in.dialect = "mysql" -> MyLower(in.base, in.target, pick, answers)
      [] in.dialect = "sqlite" -> LiteLower(in.base, in.target, Known, Objects, answers)

(* What a caller may come with: the answers, nothing, or answers of the      *)
(* wrong kind.                                                               *)
AnswerSets(decisions) ==
    LET right == RightAnswers(decisions)
    IN  {right, {}, {[a EXCEPT !.fill = <<>>, !.from = "nothing"] : a \in right}}

Resolve ==
    /\ plan.status = "open"
    /\ answered' \in AnswerSets(plan.decisions)
    /\ Accepts(plan.decisions, answered')
    /\ plan' = Lower(answered')
    /\ UNCHANGED <<in, pick, files, db, work, run, recorded, last, err, tries>>

(* WriteMigration: a plan with open decisions, without sources or without a  *)
(* way back is refused.                                                      *)
Write ==
    /\ files = NoFiles
    /\ plan.status = "ready"
    /\ Validate(plan)
    /\ files' = Files(plan)
    /\ UNCHANGED <<in, plan, pick, answered, db, work, run, recorded, last, err, tries>>

(* The statements of a direction, each with whether it ends its source.      *)
Script(dir) ==
    LET sources == IF dir = "up" THEN files.up ELSE files.down
        Of(s) == [i \in DOMAIN s |-> [s |-> s[i], ends |-> i = Len(s)]]
    IN  FlattenSeq(Map(sources, Of))

Start(dir) ==
    /\ run = Idle
    /\ files # NoFiles
    /\ tries[dir] < MaxTries
    /\ run' = [dir |-> dir, at |-> 1]
    /\ last' = dir
    /\ err' = ""
    /\ tries' = [tries EXCEPT ![dir] = @ + 1]
    /\ UNCHANGED <<in, plan, pick, answered, files, db, work, recorded>>

StartApply == ~recorded /\ Start("up")
StartRevert == recorded /\ files.down # <<>> /\ Start("down")

System == [dialect |-> in.dialect, enforce |-> in.enforce]

(* MySQL commits before and after every statement but the caller's UPDATE;   *)
(* a nontransactional source commits at its end; otherwise the migration and *)
(* its record commit together.                                               *)
CommitsAt(stmt) ==
    \/ in.dialect = "mysql" /\ stmt.s.do # "backfill"
    \/ in.dialect = "postgresql" /\ files.mode = "nontransactional" /\ stmt.ends

(* toleratedAsApplied, toleratedAsReverted: what MySQL says of something     *)
(* that is done already.                                                     *)
Tolerated(e) == in.dialect = "mysql" /\ e \in {"exists", "absent"}

Running == run # Idle /\ run.at <= Len(Script(run.dir))
Statement == Script(run.dir)[run.at]

(* The statement goes through, or MySQL's complaint about it is passed over. *)
Execute ==
    /\ Running
    /\ LET stmt == Statement
           errors == Errors(System, work, stmt.s, FALSE)
       IN  /\ \/ errors = {} /\ work' = Effect(System, work, stmt.s)
              \/ (\E e \in errors : Tolerated(e)) /\ work' = work
           /\ db' = IF CommitsAt(stmt) THEN work' ELSE db
    /\ run' = [run EXCEPT !.at = @ + 1]
    /\ UNCHANGED <<in, plan, pick, answered, files, recorded, last, err, tries>>

(* Any other error ends the run: what is not committed is rolled back.       *)
Fail ==
    /\ Running
    /\ LET s == Statement.s
           known == Errors(System, work, s, FALSE)
           errors == IF known = {} /\ MayBeFlawed(work, s) THEN {"flaw"} ELSE known
           kept == IF in.dialect = "mysql" /\ CommitsAt(Statement) THEN work ELSE db
       IN  /\ err' \in {e \in errors : ~Tolerated(e)}
           /\ db' = kept /\ work' = kept
    /\ run' = Idle
    /\ UNCHANGED <<in, plan, pick, answered, files, recorded, last, tries>>

(* The process dies or loses its connection between two statements.          *)
Interrupt ==
    /\ run # Idle /\ run.at > 1
    /\ work' = db
    /\ run' = Idle
    /\ err' = "lost"
    /\ UNCHANGED <<in, plan, pick, answered, files, db, recorded, last, tries>>

(* record or forget, and the commit that goes with it.                       *)
Finish ==
    /\ run # Idle /\ ~Running
    /\ recorded' = (run.dir = "up")
    /\ db' = work
    /\ run' = Idle
    /\ UNCHANGED <<in, plan, pick, answered, files, work, last, err, tries>>

Next ==
    \/ Diff \/ Resolve \/ Write
    \/ StartApply \/ StartRevert
    \/ Execute \/ Fail \/ Interrupt \/ Finish

Spec == Init /\ [][Next]_vars

-----------------------------------------------------------------------------
(* What the rows of a table both schemas have should hold once the target is *)
(* reached.                                                                  *)
RenamedFrom(t, c) == {a.from : a \in {b \in answered : b.id = <<"rename", t, c>>}}

Wanted(t, c, r) ==
    LET col == in.target.tables[t].cols[c]
    IN  CASE c \in DOMAIN in.base.tables[t].cols -> r[c]
          [] RenamedFrom(t, c) # {} -> r[CHOOSE f \in RenamedFrom(t, c) : TRUE]
          [] OTHER -> IF col.dflt \in {"literal", "expr"} THEN Default(t, c)
                      ELSE IF col.nn THEN Fill(t, c) ELSE Null

WantedRows ==
    [t \in DOMAIN in.target.tables |->
        IF t \notin DOMAIN in.base.tables THEN {}
        ELSE {[c \in DOMAIN in.target.tables[t].cols |-> Wanted(t, c, r)] : r \in in.rows[t]}]

(* Where the plans are known to fall short of the target.                    *)

(* MySQL's analyzer passes over an index the target lacks: it stays ...      *)
Forgotten ==
    IF in.dialect = "mysql" THEN DOMAIN in.base.indexes \ DOMAIN in.target.indexes ELSE {}

(* ... and a UNIQUE constraint of its name is taken for done.                *)
Shadowed(t) ==
    {k \in in.target.tables[t].cons :
        k.kind = "unique" /\ k.name \in Forgotten /\ in.base.indexes[k.name].table = t}

(* It makes no change of a constraint without a name: those of the baseline  *)
(* stay, over the columns as they are called now.                            *)
Carried(t, k) ==
    LET New(u, c) == IF \E n \in DOMAIN in.target.tables[u].cols : c \in RenamedFrom(u, n)
                     THEN CHOOSE n \in DOMAIN in.target.tables[u].cols : c \in RenamedFrom(u, n)
                     ELSE c
    IN  [k EXCEPT !.cols = [i \in DOMAIN @ |-> New(t, @[i])],
                  !.refcols = [i \in DOMAIN @ |-> New(k.ref, @[i])]]

Unnamed(t) ==
    IF in.dialect = "mysql" /\ t \in DOMAIN in.base.tables
    THEN {Carried(t, k) : k \in Anonymous(in.base.tables[t])}
    ELSE Anonymous(in.target.tables[t])

(* PostgreSQL's takes a column of another identity mode for a rename, which  *)
(* keeps the old mode.                                                       *)
Identity(t, c) ==
    IF in.dialect = "postgresql" /\ RenamedFrom(t, c) # {}
    THEN in.base.tables[t].cols[CHOOSE f \in RenamedFrom(t, c) : TRUE].ident
    ELSE in.target.tables[t].cols[c].ident

Reachable ==
    [in.target EXCEPT !.tables = [t \in DOMAIN @ |->
        [cols |-> [c \in DOMAIN @[t].cols |-> [@[t].cols[c] EXCEPT !.ident = Identity(t, c)]],
         cons |-> ((@[t].cons \ Anonymous(@[t])) \ Shadowed(t)) \cup Unnamed(t)]]]

(* A rebuild drops the old table. With SQLite enforcing foreign keys the     *)
(* rows that refer to it ON DELETE CASCADE go with it.                       *)
RebuildsParentOf(t) ==
    \E f \in ForeignKeys(in.base) \cup ForeignKeys(in.target) :
        f.table = t /\ f.fk.ref \in LiteRebuilt(in.base, in.target)

Cascading(t) ==
    {f \in ForeignKeys(in.base) \cup ForeignKeys(in.target) :
        /\ in.dialect = "sqlite" /\ in.enforce
        /\ f.table = t /\ f.fk.act = "cascade"
        /\ f.fk.ref \in LiteRebuilt(in.base, in.target)}

(* The rows, but for those a rebuild took, once one is committed.            *)
SameRows(rows, wanted, rebuilt) ==
    /\ DOMAIN rows = DOMAIN wanted
    /\ \A t \in DOMAIN rows :
          \/ rows[t] = wanted[t]
          \/ rebuilt /\ \E f \in Cascading(t) :
                rows[t] = {r \in wanted[t] : \E c \in Elements(f.fk.cols) \cap DOMAIN r : r[c] = Null}

SameSchema(schema, wanted, left) ==
    LET is == Catalog(in.dialect, schema)
        want == Catalog(in.dialect, wanted)
    IN  /\ is.tables = want.tables
        /\ DOMAIN is.indexes = DOMAIN want.indexes \cup left
        /\ \A n \in DOMAIN want.indexes : is.indexes[n] = want.indexes[n]

(* A run that fails in a transaction leaves what it found.                   *)
RollsBack == in.dialect # "mysql" /\ files.mode = "atomic"

Done == run = Idle /\ recorded /\ (last = "up" \/ RollsBack)

(* A migration that is recorded made the target out of the baseline, however *)
(* many runs that took, and every row holds what the old row, the answers or *)
(* the target's defaults say; a revert that was rolled back leaves it so;    *)
(* and an analyzer that finds nothing to do has the target before it (Diff,  *)
(* Resolve, the lowerers, Apply, the rollback of Revert). The differences    *)
(* are these, no other, and exactly as described. On MySQL an index that the *)
(* target lacks is still there (lower.go:175-197, although "They refuse to   *)
(* infer ... removals", docs/core/07-migrations.md:366), a UNIQUE constraint *)
(* of that index's name is not, and of several constraints of one kind that  *)
(* have no name, a change may be passed over (lower.go:349-363). On          *)
(* PostgreSQL a renamed column keeps its identity mode. On SQLite with       *)
(* foreign keys enforced, the rows that refer ON DELETE CASCADE to a rebuilt *)
(* table are gone (rebuild.go:379).                                          *)
TargetReached ==
    plan.status = "empty" \/ Done =>
        SameSchema(SchemaOf(db), Reachable, Forgotten) /\ SameRows(db.rows, WantedRows, recorded)

(* PostgreSQL: a column that only the target's primary key makes NOT NULL is *)
(* left so by a revert.                                                      *)
LeftRequired(schema) ==
    LET Only(t) == {c \in KeyColumns(in.target.tables[t].cons) : ~in.target.tables[t].cols[c].nn}
    IN  IF in.dialect # "postgresql" \/ tries.down = 0 THEN schema
        ELSE [schema EXCEPT !.tables = [t \in DOMAIN @ |->
                [@[t] EXCEPT !.cols = [c \in DOMAIN @ |->
                    [@[c] EXCEPT !.nn = @ \/ c \in Only(t)]]]]]

Undone == run = Idle /\ ~recorded /\ (last = "down" \/ RollsBack)

(* A migration that was reverted, or whose run in a transaction did not      *)
(* finish, leaves the baseline and its rows (the down sources in reverse,    *)
(* Revert, the rollback of Apply). A rollback leaves exactly these; after a  *)
(* revert two differences remain: PostgreSQL keeps NOT NULL on the columns   *)
(* of a primary key that the migration had made, and the rows SQLite deleted *)
(* ON DELETE CASCADE with a rebuilt table do not come back.                  *)
BaselineRestored ==
    Undone => /\ SameSchema(SchemaOf(db), LeftRequired(in.base), {})
              /\ SameRows(db.rows, in.rows, tries.down > 0)

(* A foreign key and the key it leans on change together: the plan drops or  *)
(* adds them in the order of their tables' names.                            *)
MovesKey ==
    \E f \in ForeignKeys(in.base) \cup ForeignKeys(in.target) :
        LET Keys(schema) == {k \in schema.tables[f.fk.ref].cons :
                               k.kind \in {"pk", "unique"} /\ k.cols = f.fk.refcols}
        IN  f.fk.ref \in DOMAIN in.base.tables /\ Keys(in.base) # Keys(in.target)

(* MySQL's lowering takes the answer for another table's column of the name. *)
SharedAnswer ==
    in.dialect = "mysql" /\ \E a, b \in answered : a # b /\ a.id[3] = b.id[3]

HoldsNull == \E t \in DOMAIN in.rows : \E r \in in.rows[t] : \E c \in DOMAIN r : r[c] = Null

(* The work of a statement is done.                                          *)
Did(d, s) ==
    \/ s.do = "create_table" /\ s.t \in DOMAIN d.tables
    \/ s.do = "drop_table" /\ s.t \notin DOMAIN d.tables
    \/ s.do = "add_column" /\ Present(d, s.t, s.c)
    \/ s.do = "drop_column" /\ ~Present(d, s.t, s.c)
    \/ s.do = "rename_column" /\ ~Present(d, s.t, s.c) /\ Present(d, s.t, s.to)
    \/ s.do = "add_constraint" /\ s.t \in DOMAIN d.tables /\ s.k \in d.tables[s.t].cons
    \/ s.do = "drop_constraint" /\ s.t \in DOMAIN d.tables
       /\ \A k \in d.tables[s.t].cons : k.name # s.k.name
    \/ s.do = "create_index" /\ s.n \in DOMAIN d.indexes
    \/ s.do = "drop_index" /\ s.n \notin DOMAIN d.indexes

(* A run that repeats what an earlier one committed, and the error of a      *)
(* statement whose work that was.                                            *)
Repeats ==
    /\ tries[last] > 1
    /\ in.dialect = "mysql" \/ (in.dialect = "postgresql" /\ files.mode = "nontransactional")

StopsAtDone ==
    /\ Repeats
    /\ \E i \in DOMAIN Script(last) :
          LET s == Script(last)[i].s
          IN  Did(db, s) /\ err \in Errors(System, db, s, FALSE)

=============================================================================
