----------------------------- MODULE DiffMySQL ------------------------------
(* migrate/diff/mysql: the comparison, the actions each change is lowered to, *)
(* and the schedule that orders them by what they depend on.                  *)
EXTENDS SchemaPlan

MyNorm(def) == Required("mysql", def.cols, def.cons)

(* Columns of which one table lost a and gained b. The loops that look for a *)
(* rename range over maps and keep the last column they meet: any of each.   *)
MyCandidates(b, g) ==
    [from : DOMAIN b.cols \ DOMAIN g.cols, to : DOMAIN g.cols \ DOMAIN b.cols]

(* pick[t]: the pair met last in t. It is a rename when nothing else of the  *)
(* column changed.                                                           *)
MyRenames(b, g, pick) ==
    {r \in pick : MyNorm(b)[r.from] = MyNorm(g)[r.to]}

MyPicks(base, target) ==
    LET Pairs(t) == MyCandidates(base.tables[t], target.tables[t])
        matched == DOMAIN base.tables \cap DOMAIN target.tables
    IN  {pick \in [matched -> SUBSET UNION {Pairs(t) : t \in matched}] :
            \A t \in matched :
                IF Pairs(t) = {} THEN pick[t] = {}
                ELSE Cardinality(pick[t]) = 1 /\ pick[t] \subseteq Pairs(t)}

MySameButNullability(l, r) == [l EXCEPT !.nn = r.nn] = r

(* compareNamedConstraints keys constraints by kind and name: of those of a  *)
(* kind that have no name it sees one, the last of the list, which is any.   *)
MyLastOf(def) ==
    {f \in [{k.kind : k \in Anonymous(def)} -> Anonymous(def)] :
        \A kind \in DOMAIN f : f[kind].kind = kind}

MySeen(base, target) ==
    LET matched == DOMAIN base.tables \cap DOMAIN target.tables
        Lists(t) == [was : MyLastOf(base.tables[t]), is : MyLastOf(target.tables[t])]
    IN  {f \in [matched -> UNION {Lists(t) : t \in matched}] :
            \A t \in matched : f[t] \in Lists(t)}

(* Constraint changes without a name to drop or to add by, as far as they    *)
(* are seen, a change of kind, and a change of name are left to the author.  *)
MyConstraintsRefused(b, g, seen) ==
    \/ seen.was # seen.is
    \/ /\ b.cons # g.cons
       /\ \/ \E n \in ConstraintNames(b) \cap ConstraintNames(g) :
                NamedIn(b, n).kind # NamedIn(g, n).kind
          \/ \E j \in b.cons \ Anonymous(b), k \in g.cons \ Anonymous(g) :
                j.name # k.name /\ [j EXCEPT !.name = k.name] = k

MyTableRefused(b, g, pick, seen) ==
    \/ MyConstraintsRefused(b, g, seen)
    \/ DOMAIN b.cols \ DOMAIN g.cols # {r.from : r \in MyRenames(b, g, pick)}
    \/ \E c \in DOMAIN b.cols \cap DOMAIN g.cols :
          ~MySameButNullability(MyNorm(b)[c], MyNorm(g)[c])

(* A removed index is passed over.                                           *)
MyRefused(base, target, pick, seen) ==
    \/ RemovedObjects(base.tables, target.tables) # <<>>
    \/ \E t \in DOMAIN base.tables \cap DOMAIN target.tables :
          MyTableRefused(base.tables[t], target.tables[t], pick[t], seen[t])
    \/ \E n \in DOMAIN base.indexes \cap DOMAIN target.indexes :
          /\ base.indexes[n].table = target.indexes[n].table
          /\ base.indexes[n].cols # target.indexes[n].cols

(* The rename of a table comes first; a renamed column that is NOT NULL is   *)
(* asked a backfill as well.                                                 *)
MyTableDecisions(t, b, g, pick) ==
    Map(SetToSeq(MyRenames(b, g, pick)), LAMBDA r : RenameDecision(t, r.to, r.from))
    \o Map(Sorted({c \in DOMAIN g.cols \ DOMAIN b.cols : RequiresBackfill(MyNorm(g)[c])}),
           LAMBDA c : BackfillDecision(t, c))

MyDecisions(base, target, pick) ==
    FlattenSeq(Map(MatchedObjects(base.tables, target.tables), LAMBDA t :
                     MyTableDecisions(t, base.tables[t], target.tables[t], pick[t])))

(* hasDecision and resolutionForID look a decision up by its column's name,  *)
(* whatever its table, and take the first.                                   *)
MyDecided(decisions, c) == {i \in DOMAIN decisions : decisions[i].column = c}
MyResolution(decisions, answers, c) ==
    AnswerTo(answers, decisions[CHOOSE i \in MyDecided(decisions, c) :
                                   \A j \in MyDecided(decisions, c) : i <= j])

(* An action: the operation it belongs to, its stage, its place in the       *)
(* order, its two directions, the column it makes or changes ("" for none)   *)
(* and the columns it needs settled.                                         *)
MyStage == [create_table |-> 0, drop |-> 1, add_column |-> 2, backfill |-> 3,
            transform |-> 4, add |-> 5, create_index |-> 6]

MyAction(op, stage, t, obj, up, down) ==
    [op |-> op, stage |-> MyStage[stage], t |-> t, obj |-> obj, up |-> up, down |-> down,
     col |-> "", uses |-> {}, parents |-> {}]

MyCreateTable(t, def) ==
    [MyAction(<<"create_table", t, "">>, "create_table", t, "",
              <<CreateTable(t, def)>>, <<DropTable(t)>>)
        EXCEPT !.parents = References(def) \ {t}]

MyColumnAction(op, stage, t, c, up, down) ==
    [MyAction(op, stage, t, c, up, down) EXCEPT !.col = c]

(* A staged column loses NOT NULL; the final form loses DEFAULT NULL.        *)
MyAddColumn(t, c, col, decisions, answers) ==
    LET op == <<"add_column", t, c>>
        staged == [col EXCEPT !.nn = FALSE]
        final == [col EXCEPT !.dflt = IF @ = "null" THEN "none" ELSE @]
        fill == MyResolution(decisions, answers, c).fill
    IN  IF col.nn /\ MyDecided(decisions, c) # {}
        THEN {MyColumnAction(op, "add_column", t, c, <<AddColumn(t, c, staged, {})>>,
                             <<DropColumn(t, c)>>),
              MyAction(op, "backfill", t, c, <<Backfill(fill[1], fill[2])>>, <<>>),
              MyColumnAction(op, "transform", t, c, <<ModifyColumn(t, c, final)>>,
                             <<ModifyColumn(t, c, staged)>>)}
        ELSE {MyColumnAction(op, "add_column", t, c, <<AddColumn(t, c, col, {})>>,
                             <<DropColumn(t, c)>>)}

MyRename(t, r) ==
    MyColumnAction(<<"add_column", t, r.to>>, "transform", t, r.to,
                   <<RenameColumn(t, r.from, r.to)>>, <<RenameColumn(t, r.to, r.from)>>)

MyAlterNullability(t, c, old, new) ==
    MyColumnAction(<<"alter_nullability", t, c>>, "transform", t, c,
                   <<ModifyColumn(t, c, new)>>, <<ModifyColumn(t, c, old)>>)

MyColumnsOf(t, ks) ==
    UNION {{<<t, c>> : c \in Elements(k.cols)} \cup {<<k.ref, c>> : c \in Elements(k.refcols)} :
              k \in ks}

(* olds and news hold at most one constraint each: added, removed, replaced. *)
MyConstraint(t, n, olds, news) ==
    LET op == <<"replace_constraint", t, n>>
        Uses(a) == [a EXCEPT !.uses = MyColumnsOf(t, olds \cup news)]
    IN  {Uses(MyAction(op, "drop", t, n, <<DropConstraint(t, k)>>, <<AddConstraint(t, k)>>)) :
            k \in olds}
        \cup {Uses(MyAction(op, "add", t, n, <<AddConstraint(t, k)>>, <<DropConstraint(t, k)>>)) :
            k \in news}

MyCreateIndex(n, ix) ==
    [MyAction(<<"replace_constraint", ix.table, n>>, "create_index", ix.table, n,
              <<CreateIndex(n, ix)>>, <<DropIndex(n, ix)>>)
        EXCEPT !.uses = {<<ix.table, c>> : c \in Elements(ix.cols)}]

MyTableActions(t, b, g, pick, decisions, answers) ==
    LET renamed == MyRenames(b, g, pick)
        new == (DOMAIN g.cols \ DOMAIN b.cols) \ {r.to : r \in renamed}
        altered == {c \in DOMAIN b.cols \cap DOMAIN g.cols : MyNorm(b)[c] # MyNorm(g)[c]}
        Of(def, n) == {k \in def.cons : k.name = n}
        changed == {n \in ConstraintNames(b) \cup ConstraintNames(g) : Of(b, n) # Of(g, n)}
    IN  {MyRename(t, r) : r \in renamed}
        \cup UNION {MyAddColumn(t, c, MyNorm(g)[c], decisions, answers) : c \in new}
        \cup {MyAlterNullability(t, c, MyNorm(b)[c], MyNorm(g)[c]) : c \in altered}
        \cup UNION {MyConstraint(t, n, Of(b, n), Of(g, n)) : n \in changed}

MyNewIndexes(base, target) ==
    {n \in DOMAIN target.indexes :
        n \in DOMAIN base.indexes => base.indexes[n].table # target.indexes[n].table}

MyActions(base, target, pick, decisions, answers) ==
    {MyCreateTable(t, target.tables[t]) : t \in DOMAIN target.tables \ DOMAIN base.tables}
    \cup UNION {MyTableActions(t, base.tables[t], target.tables[t], pick[t], decisions, answers) :
                   t \in DOMAIN base.tables \cap DOMAIN target.tables}
    \cup {MyCreateIndex(n, target.indexes[n]) : n \in MyNewIndexes(base, target)}

(* What an action waits for: the tables its table refers to, the earlier     *)
(* steps of its own operation, the constraints dropped from its column; a    *)
(* constraint or an index for the columns it is over or refers to.           *)
MyDependsOn(a, all) ==
    {b \in all : a.stage = MyStage.create_table /\ b.stage = MyStage.create_table
                 /\ b.t \in a.parents}
    \cup {b \in all : b.op = a.op /\ b.stage < a.stage}
    \cup {b \in all : b.op # a.op /\ b.stage = MyStage.drop /\ <<a.t, a.col>> \in b.uses}
    \cup {b \in all : /\ b.op # a.op /\ <<b.t, b.col>> \in a.uses
                      /\ a.stage \in {MyStage.add, MyStage.create_index}}

MyBefore(a, b) ==
    \/ a.stage < b.stage
    \/ a.stage = b.stage /\ Rank(a.t) < Rank(b.t)
    \/ a.stage = b.stage /\ a.t = b.t /\ Rank(a.obj) < Rank(b.obj)

MySchedule(all) == Kahn(all, LAMBDA a : MyDependsOn(a, all), MyBefore)

(* A rename or a backfill that found the answer to another table's decision. *)
MyAnswersRefused(base, target, pick, decisions, answers) ==
    \E t \in DOMAIN base.tables \cap DOMAIN target.tables :
        LET b == base.tables[t]
            g == target.tables[t]
            renamed == MyRenames(b, g, pick[t])
            new == (DOMAIN g.cols \ DOMAIN b.cols) \ {r.to : r \in renamed}
        IN  \/ \E r \in renamed : MyResolution(decisions, answers, r.to).from # r.from
            \/ \E c \in new : /\ MyNorm(g)[c].nn /\ MyDecided(decisions, c) # {}
                             /\ MyResolution(decisions, answers, c).fill = <<>>

MyLower(base, target, pick, answers) ==
    LET decisions == MyDecisions(base, target, pick)
        all == MyActions(base, target, pick, decisions, answers)
        order == MySchedule(all)
    IN  IF MyAnswersRefused(base, target, pick, decisions, answers) THEN Refused
        ELSE IF Len(order) # Cardinality(all) THEN Refused
        ELSE Validated(Lowered(Map(order, LAMBDA a : Source(a.up, a.down)), "atomic",
                               \E a \in all : a.stage = MyStage.backfill))

(* Operation IDs: a new index and a changed constraint of one name collide.  *)
MyDuplicateIDs(base, target) ==
    \E n \in MyNewIndexes(base, target) :
        LET t == target.indexes[n].table
        IN  /\ t \in DOMAIN base.tables
            /\ {k \in base.tables[t].cons : k.name = n} # {k \in target.tables[t].cons : k.name = n}

MyDiff(base, target, pick, seen) ==
    LET decisions == MyDecisions(base, target, pick)
        WithName(def) == def.cons \ Anonymous(def)
        changed == \/ DOMAIN target.tables # DOMAIN base.tables
                   \/ \E t \in DOMAIN target.tables :
                         \/ WithName(base.tables[t]) # WithName(target.tables[t])
                         \/ MyNorm(base.tables[t]) # MyNorm(target.tables[t])
                   \/ MyNewIndexes(base, target) # {}
    IN  IF MyRefused(base, target, pick, seen) THEN Refused
        ELSE IF ~changed THEN Empty
        ELSE IF MyDuplicateIDs(base, target) THEN Refused
        ELSE IF decisions # <<>> THEN Open(decisions)
        ELSE MyLower(base, target, pick, {})
=============================================================================
