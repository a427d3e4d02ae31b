----------------------------- MODULE DiffSQLite -----------------------------
(* migrate/diff/sqlite: what ALTER TABLE can do is generated, any other       *)
(* change of a table rebuilds it: stage and fill the new required columns,    *)
(* create the table under another name, copy, drop, rename, index.            *)
EXTENDS SchemaPlan

CONSTANT
    RebuildNames   \* table -> the names a rebuild of it tries, in order

(* The pairs of a column gone and a column new that differ by name alone.    *)
LiteRenames(b, g) ==
    {r \in [from : DOMAIN b.cols \ DOMAIN g.cols, to : DOMAIN g.cols \ DOMAIN b.cols] :
        b.cols[r.from] = g.cols[r.to]}

LiteNew(b, g) == (DOMAIN g.cols \ DOMAIN b.cols) \ {r.to : r \in LiteRenames(b, g)}

(* Foreign keys written on a new column come with it.                        *)
LiteInline(g, c) == {k \in g.cons : k.inline /\ k.cols = <<c>>}

(* normalizeCreateTable forgets the primary key's name and where a foreign   *)
(* key was written.                                                          *)
LiteConstraints(cons) ==
    {[k EXCEPT !.name = IF k.kind = "pk" THEN "" ELSE @, !.inline = FALSE] : k \in cons}

LiteConstraintsChanged(b, g) ==
    LiteConstraints(b.cons) #
        LiteConstraints(g.cons) \ UNION {LiteConstraints(LiteInline(g, c)) :
                                            c \in DOMAIN g.cols \ DOMAIN b.cols}

(* A column ALTER TABLE ADD COLUMN refuses.                                  *)
LiteCannotAdd(g, c) ==
    \/ g.cols[c].dflt = "expr"
    \/ LiteInline(g, c) # {} /\ g.cols[c].dflt = "literal"

(* A diagnostic or a decision of the table: it is rebuilt.                   *)
LiteRebuilds(b, g) ==
    \/ LiteRenames(b, g) # {}
    \/ LiteConstraintsChanged(b, g)
    \/ \E c \in LiteNew(b, g) : RequiresBackfill(g.cols[c]) \/ LiteCannotAdd(g, c)
    \/ \E c \in DOMAIN b.cols \cap DOMAIN g.cols : b.cols[c] # g.cols[c]
    \/ DOMAIN b.cols \ DOMAIN g.cols # {}

LiteRebuilt(base, target) ==
    {t \in DOMAIN base.tables \cap DOMAIN target.tables :
        LiteRebuilds(base.tables[t], target.tables[t])}

LiteTableDecisions(t, b, g) ==
    Map(SetToSeq(LiteRenames(b, g)), LAMBDA r : RenameDecision(t, r.to, r.from))
    \o Map(Sorted({c \in LiteNew(b, g) : RequiresBackfill(g.cols[c])}),
           LAMBDA c : BackfillDecision(t, c))

LiteDecisions(base, target) ==
    FlattenSeq(Map(MatchedObjects(base.tables, target.tables), LAMBDA t :
                     LiteTableDecisions(t, base.tables[t], target.tables[t])))

LiteIndexesOf(indexes, t) == {n \in DOMAIN indexes : indexes[n].table = t}

(* The first names nobody has: objects are the catalog's names, unknown (and *)
(* none) without live facts.                                                 *)
LiteFree(t, occupied) == SelectSeq(RebuildNames[t], LAMBDA n : n \notin occupied)


LiteTemporaries(t, target, objects) ==
    LiteFree(t, {t} \cup objects \cup LiteIndexesOf(target.indexes, t))

(* Where each column of the copy comes from: its old self, the staged column *)
(* of its name, its default, or nothing.                                     *)
LiteForward(b, g) ==
    [c \in DOMAIN g.cols |->
        CASE c \in DOMAIN b.cols -> [is |-> "column", c |-> c]
          [] c \in {r.to : r \in LiteRenames(b, g)} ->
                [is |-> "column", c |-> (CHOOSE r \in LiteRenames(b, g) : r.to = c).from]
          [] OTHER ->
                [is |-> IF RequiresBackfill(g.cols[c]) THEN "column"
                        ELSE IF g.cols[c].dflt \in {"literal", "expr"} THEN "default" ELSE "null",
                 c |-> c]]

LiteInverse(b, g) ==
    [c \in DOMAIN b.cols |->
        [is |-> "column",
         c |-> IF \E r \in LiteRenames(b, g) : r.from = c
               THEN (CHOOSE r \in LiteRenames(b, g) : r.from = c).to ELSE c]]

(* A rename that could be two, a column of the baseline with nowhere to come *)
(* back from, no temporary name left: no rebuild.                            *)
LiteRebuildRefused(t, b, g, target, objects) ==
    \/ Cardinality(LiteRenames(b, g)) > 1
    \/ LiteRebuilds(b, g) /\ \/ \E c \in DOMAIN b.cols : LiteInverse(b, g)[c].c \notin DOMAIN g.cols
                             \/ Len(LiteTemporaries(t, target, objects)) < 2

LiteRefused(base, target, objects) ==
    LET rebuilt == LiteRebuilt(base, target)
    IN  \/ RemovedObjects(base.tables, target.tables) # <<>>
        \/ \E t \in DOMAIN base.tables \cap DOMAIN target.tables :
              LiteRebuildRefused(t, base.tables[t], target.tables[t], target, objects)
        \/ \E n \in DOMAIN base.indexes \ DOMAIN target.indexes : base.indexes[n].table \notin rebuilt
        \/ \E n \in DOMAIN base.indexes \cap DOMAIN target.indexes :
              /\ target.indexes[n].table \notin rebuilt
              /\ base.indexes[n] # target.indexes[n]

(* The sources ALTER TABLE and CREATE can do, in front of the rebuilds.      *)
LiteGenerated(base, target) ==
    LET rebuilt == LiteRebuilt(base, target)
        Columns(t) == Map(Sorted(LiteNew(base.tables[t], target.tables[t])), LAMBDA c :
            Source(<<AddColumn(t, c, target.tables[t].cols[c], LiteInline(target.tables[t], c))>>,
                   <<DropColumn(t, c)>>))
    IN  Map(AddedObjects(base.tables, target.tables), LAMBDA t :
              Source(<<CreateTable(t, target.tables[t])>>, <<DropTable(t)>>))
        \o FlattenSeq(Map(SelectSeq(MatchedObjects(base.tables, target.tables),
                                    LAMBDA t : t \notin rebuilt), Columns))
        \o Map(SelectSeq(AddedObjects(base.indexes, target.indexes),
                         LAMBDA n : target.indexes[n].table \notin rebuilt), LAMBDA n :
                 Source(<<CreateIndex(n, target.indexes[n])>>, <<DropIndex(n, target.indexes[n])>>))

(* One rebuild. The runner takes the down sources last first, so each is     *)
(* given the inverse that falls due then: drop the new indexes, create,      *)
(* copy, drop and rename the old table, index it. With staged columns the    *)
(* last of these lands before their comments; the old indexes are appended   *)
(* to the first source.                                                      *)
LiteRebuild(t, base, target, objects, answers) ==
    LET b == base.tables[t]
        g == target.tables[t]
        names == LiteTemporaries(t, target, objects)
        temporary == names[1]
        back == names[2]
        staged == Sorted({c \in LiteNew(b, g) : RequiresBackfill(g.cols[c])})
        Stage(c) ==
            LET fill == AnswerTo(answers, BackfillDecision(t, c)).fill
            IN  <<Source(<<AddColumn(t, c, [g.cols[c] EXCEPT !.nn = FALSE], {})>>, <<Comment>>),
                  Source(<<Backfill(fill[1], fill[2])>>, <<Comment>>)>>
        structure ==
            <<Source(<<CreateTable(temporary, g)>>, <<RenameTable(back, t)>>),
              Source(<<CopyRows(temporary, t, LiteForward(b, g))>>, <<DropTable(t)>>),
              Source(<<DropTable(t)>>, <<CopyRows(back, t, LiteInverse(b, g))>>),
              Source(<<RenameTable(temporary, t)>>, <<CreateTable(back, b)>>)>>
        indexes ==
            Map(Sorted(LiteIndexesOf(target.indexes, t)), LAMBDA n :
                  Source(<<CreateIndex(n, target.indexes[n])>>, <<DropIndex(n, target.indexes[n])>>))
        all == FlattenSeq(Map(staged, Stage)) \o structure \o indexes
    IN  [all EXCEPT ![1].down = @ \o
            Map(Sorted(LiteIndexesOf(base.indexes, t)), LAMBDA n :
                  CreateIndex(n, base.indexes[n]))]

(* Without live facts a plan that needs a rebuild cannot be lowered.         *)
LiteLower(base, target, known, objects, answers) ==
    LET rebuilt == LiteRebuilt(base, target)
    IN  IF rebuilt # {} /\ ~known THEN Refused
        ELSE Validated(Lowered(LiteGenerated(base, target)
                 \o FlattenSeq(Map(Sorted(rebuilt), LAMBDA t :
                                     LiteRebuild(t, base, target, objects, answers))),
                 "atomic", FALSE))

LiteDiff(base, target, known, objects) ==
    LET decisions == LiteDecisions(base, target)
        rebuilt == LiteRebuilt(base, target)
    IN  IF LiteRefused(base, target, objects) THEN Refused
        ELSE IF decisions # <<>> THEN Open(decisions)
        ELSE IF rebuilt # {} /\ ~known THEN Inert
        ELSE IF rebuilt = {} /\ LiteGenerated(base, target) = <<>> THEN Empty
        ELSE LiteLower(base, target, known, objects, {})
=============================================================================
