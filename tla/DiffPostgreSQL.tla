--------------------------- MODULE DiffPostgreSQL ---------------------------
(* migrate/diff/postgresql: the analyzer compares two schemas, refuses what   *)
(* it cannot generate, asks for what it cannot infer, and lowers the rest.    *)
EXTENDS SchemaPlan

PGNorm(def) == Required("postgresql", def.cols, def.cons)

(* The named constraints that keep their name and kind and change otherwise. *)
PGReplaced(b, g) ==
    {n \in ConstraintNames(b) \cap ConstraintNames(g) :
        NamedIn(b, n) # NamedIn(g, n) /\ NamedIn(b, n).kind = NamedIn(g, n).kind}

(* Any other change of a table's constraints is left to the author.          *)
PGConstraintsRefused(b, g) ==
    LET unhandled ==
            \/ Anonymous(b) # Anonymous(g)
            \/ ConstraintNames(b) # ConstraintNames(g)
            \/ \E n \in ConstraintNames(b) \cap ConstraintNames(g) :
                  NamedIn(b, n).kind # NamedIn(g, n).kind
    IN  b.cons # g.cons /\ (unhandled \/ PGReplaced(b, g) = {})

PGSameButName(l, r) == [l EXCEPT !.ident = r.ident] = r
PGSameButNullability(l, r) == [l EXCEPT !.nn = r.nn] = r

(* One column gone, one new, alike in everything but name and identity mode. *)
PGRenames(b, g) ==
    LET gone == DOMAIN b.cols \ DOMAIN g.cols
        new == DOMAIN g.cols \ DOMAIN b.cols
    IN  IF Cardinality(gone) # 1 \/ Cardinality(new) # 1 THEN {}
        ELSE {r \in [from : gone, to : new] : PGSameButName(PGNorm(b)[r.from], PGNorm(g)[r.to])}

PGTableRefused(b, g) ==
    \/ PGConstraintsRefused(b, g)
    \/ DOMAIN b.cols \ DOMAIN g.cols # {r.from : r \in PGRenames(b, g)}
    \/ \E c \in DOMAIN b.cols \cap DOMAIN g.cols :
          ~PGSameButNullability(PGNorm(b)[c], PGNorm(g)[c])

PGEntry(act, t, obj, sources) ==
    [act |-> act, t |-> t, obj |-> obj, sources |-> sources]

PGRename(t, r) ==
    PGEntry("rename", t, r.to, <<Source(<<RenameColumn(t, r.from, r.to)>>,
                                      <<RenameColumn(t, r.to, r.from)>>)>>)

\* Mutant: the filled column is never made NOT NULL.
PGAddColumnStaged(t, c, col, answers) ==
    IF RequiresBackfill(col)
    THEN LET fill == AnswerTo(answers, BackfillDecision(t, c)).fill
         IN  PGEntry("backfill", t, c,
                   <<Source(<<AddColumn(t, c, [col EXCEPT !.nn = FALSE], {}),
                              Backfill(fill[1], fill[2])>>,
                            <<DropColumn(t, c)>>)>>)
    ELSE PGEntry("add_column", t, c,
               <<Source(<<AddColumn(t, c, col, {})>>, <<DropColumn(t, c)>>)>>)

(* A new column is added as it is, or added nullable, filled and made        *)
(* NOT NULL in one source.                                                   *)
PGAddColumn(t, c, col, answers) ==
    IF RequiresBackfill(col)
    THEN LET fill == AnswerTo(answers, BackfillDecision(t, c)).fill
         IN  PGEntry("backfill", t, c,
                   <<Source(<<AddColumn(t, c, [col EXCEPT !.nn = FALSE], {}),
                              Backfill(fill[1], fill[2]), SetNotNull(t, c)>>,
                            <<DropColumn(t, c)>>)>>)
    ELSE PGEntry("add_column", t, c,
               <<Source(<<AddColumn(t, c, col, {})>>, <<DropColumn(t, c)>>)>>)

(* The comparison counts the NOT NULL a primary key implies; the statement   *)
(* goes by what the target's column itself says.                             *)
PGAlterNullability(t, c, col) ==
    PGEntry("alter_nullability", t, c,
          <<IF col.nn THEN Source(<<SetNotNull(t, c)>>, <<DropNotNull(t, c)>>)
            ELSE Source(<<DropNotNull(t, c)>>, <<SetNotNull(t, c)>>)>>)

\* Mutant: the reverse of the drop adds what the target says.
PGReplaceConstraintOneWay(t, old, new) ==
    PGEntry("replace_constraint", t, new.name,
          <<Source(<<DropConstraint(t, new)>>, <<AddConstraint(t, new)>>),
            Source(<<AddConstraint(t, new)>>, <<DropConstraint(t, old)>>)>>)

PGReplaceConstraint(t, old, new) ==
    PGEntry("replace_constraint", t, new.name,
          <<Source(<<DropConstraint(t, new)>>, <<AddConstraint(t, old)>>),
            Source(<<AddConstraint(t, new)>>, <<DropConstraint(t, old)>>)>>)

PGCreateTable(t, def) ==
    PGEntry("create_table", t, "", <<Source(<<CreateTable(t, def)>>, <<DropTable(t)>>)>>)

PGCreateIndex(n, ix) ==
    PGEntry("create_index", ix.table, n, <<Source(<<CreateIndex(n, ix)>>, <<DropIndex(n, ix)>>)>>)

(* The entries of a table both schemas have: its rename, its columns as they *)
(* come, its constraints.                                                    *)
PGTableEntries(t, b, g, answers) ==
    LET renamed == PGRenames(b, g)
        new == (DOMAIN g.cols \ DOMAIN b.cols) \ {r.to : r \in renamed}
        altered == {c \in DOMAIN b.cols \cap DOMAIN g.cols : PGNorm(b)[c] # PGNorm(g)[c]}
    IN  Map(SetToSeq(renamed), LAMBDA r : PGRename(t, r))
        \o Map(Sorted(new \cup altered), LAMBDA c :
                 IF c \in new THEN PGAddColumn(t, c, g.cols[c], answers)
                 ELSE PGAlterNullability(t, c, g.cols[c]))
        \o Map(Sorted(PGReplaced(b, g)), LAMBDA n :
                 PGReplaceConstraint(t, NamedIn(b, n), NamedIn(g, n)))

PGTableDecisions(t, b, g) ==
    LET renamed == PGRenames(b, g)
        new == (DOMAIN g.cols \ DOMAIN b.cols) \ {r.to : r \in renamed}
    IN  Map(SetToSeq(renamed), LAMBDA r : RenameDecision(t, r.to, r.from))
        \o Map(Sorted({c \in new : RequiresBackfill(g.cols[c])}),
               LAMBDA c : BackfillDecision(t, c))

PGDecisions(base, target) ==
    FlattenSeq(Map(MatchedObjects(base.tables, target.tables), LAMBDA t :
                     PGTableDecisions(t, base.tables[t], target.tables[t])))

PGEntries(base, target, answers) ==
    Map(OrderTables(target.tables, DOMAIN target.tables \ DOMAIN base.tables),
        LAMBDA t : PGCreateTable(t, target.tables[t]))
    \o FlattenSeq(Map(MatchedObjects(base.tables, target.tables), LAMBDA t :
                        PGTableEntries(t, base.tables[t], target.tables[t], answers)))
    \o Map(AddedObjects(base.indexes, target.indexes), LAMBDA n :
             PGCreateIndex(n, target.indexes[n]))

(* The file names of validateLoweringSources: an index and a change of       *)
(* nullability go by their table alone, so a second one is a duplicate.      *)
PGFileName(e) ==
    <<IF e.act \in {"rename", "backfill"} THEN "add_column" ELSE e.act, e.t,
      IF e.act \in {"add_column", "backfill", "replace_constraint"} THEN e.obj ELSE "">>

(* Operation IDs: a new index and a replaced constraint share their kind.    *)
PGOperationID(e) ==
    <<CASE e.act \in {"rename", "backfill"} -> "add_column"
        [] e.act = "create_index" -> "replace_constraint"
        [] OTHER -> e.act, e.t, e.obj>>

PGRefused(base, target) ==
    \/ HasCycle(target.tables, DOMAIN target.tables \ DOMAIN base.tables)
    \/ RemovedObjects(base.tables, target.tables) # <<>>
    \/ RemovedObjects(base.indexes, target.indexes) # <<>>
    \/ \E t \in DOMAIN base.tables \cap DOMAIN target.tables :
          PGTableRefused(base.tables[t], target.tables[t])
    \/ \E n \in DOMAIN base.indexes \cap DOMAIN target.indexes :
          base.indexes[n] # target.indexes[n]

(* Drop every replaced constraint, then everything else, then add the new    *)
(* forms.                                                                    *)
PGSchedule(entries) ==
    LET replaces == SelectSeq(entries, LAMBDA e : e.act = "replace_constraint")
        others == SelectSeq(entries, LAMBDA e : e.act # "replace_constraint")
    IN  Map(replaces, LAMBDA e : e.sources[1])
        \o Map(others, LAMBDA e : e.sources[1])
        \o Map(replaces, LAMBDA e : e.sources[2])

PGLower(base, target, answers) ==
    LET entries == PGEntries(base, target, answers)
        concurrent == \E n \in DOMAIN target.indexes \ DOMAIN base.indexes : target.indexes[n].conc
    IN  Validated(Lowered(PGSchedule(entries),
                          IF concurrent THEN "nontransactional" ELSE "atomic",
                          \E d \in Elements(PGDecisions(base, target)) : d.kind = "backfill"))

(* The analyzer's answer, before any decision is made.                       *)
PGDiff(base, target) ==
    LET decisions == PGDecisions(base, target)
        entries == PGEntries(base, target, RightAnswers(decisions))
    IN  IF PGRefused(base, target) THEN Refused
        ELSE IF entries = <<>> THEN Empty
        ELSE IF ~Distinct(Map(entries, PGFileName)) \/ ~Distinct(Map(entries, PGOperationID))
        THEN Refused
        ELSE IF decisions # <<>> THEN Open(decisions)
        ELSE PGLower(base, target, {})
=============================================================================
