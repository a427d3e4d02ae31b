---------------------------- MODULE MCSchemaDiff ----------------------------
(* A parent and a child table, a row in each or none, and the targets one or  *)
(* two edits away, for each of the three dialects.                            *)
EXTENDS SchemaDiff

Names == <<"a", "b", "c", "c_fk", "c_pk", "c_rebuild", "c_rebuild_2", "id", "ix", "jx",
           "n", "o", "p", "p_a", "p_b", "p_pk", "p_rebuild", "p_rebuild_2", "p_rebuild_3",
           "pid", "q", "q_rebuild",
           "q_rebuild_2", "z">>

Temporaries == [p |-> <<"p_rebuild", "p_rebuild_2", "p_rebuild_3">>,
                c |-> <<"c_rebuild", "c_rebuild_2">>,
                q |-> <<"q_rebuild", "q_rebuild_2">>]

Col(nn, dflt) == [type |-> "text", nn |-> nn, dflt |-> dflt, ident |-> "no"]
Key(n, kind, cols) ==
    [name |-> n, kind |-> kind, cols |-> cols, ref |-> "", refcols |-> <<>>,
     act |-> "none", inline |-> FALSE]
Refers(n, cols, ref, refcols, act) ==
    [Key(n, "fk", cols) EXCEPT !.ref = ref, !.refcols = refcols, !.act = act]

Id(n) == [cols |-> [id |-> Col(TRUE, "none")], cons |-> {Key(n, "pk", <<"id">>)}]
Parent == [cols |-> [id |-> Col(TRUE, "none"), a |-> Col(FALSE, "none")],
           cons |-> {Key("p_pk", "pk", <<"id">>), Key("p_a", "unique", <<"a">>)}]
Child(to, act, fk) ==
    [cols |-> [id |-> Col(TRUE, "none"), pid |-> Col(FALSE, "none")],
     cons |-> {Key("c_pk", "pk", <<"id">>), Refers(fk, <<"pid">>, "p", <<to>>, act)}]

SomeBases ==
    {[tables |-> [p |-> Parent, c |-> Child(x[1], x[2], x[3])],
      indexes |-> [ix |-> [table |-> "c", cols |-> <<"pid">>, conc |-> FALSE]]] :
        x \in {<<"id", "none", "c_fk">>, <<"a", "cascade", "c_fk">>, <<"id", "cascade", "">>}}
    \cup {[tables |-> [p |-> Parent, q |-> Child("a", "none", "c_fk")], indexes |-> <<>>]}
    \cup {[tables |-> [p |-> Parent, p_rebuild |-> Id("")], indexes |-> <<>>]}

\* Edits of a schema, as statements that would make them.
Swap(t, old, new) == <<DropConstraint(t, old), AddConstraint(t, new)>>
IndexOn(t, c, conc) == [table |-> t, cols |-> <<c>>, conc |-> conc]

\* q is a child that sorts after its parent.
Edits(c) ==
    {<<AddColumn(t, "b", Col(d[1], d[2]), {})>> :
        t \in {"p", c}, d \in {<<FALSE, "none">>, <<TRUE, "none">>}}
    \cup {<<AddColumn("p", "b", Col(d[1], d[2]), {})>> :
        d \in {<<FALSE, "expr">>, <<TRUE, "literal">>, <<TRUE, "null">>}}
    \cup {<<AddColumn(c, "b", Col(FALSE, "none"),
                      {[Refers("", <<"b">>, "p", <<"id">>, "none") EXCEPT !.inline = TRUE]})>>}
    \cup {<<RenameColumn("p", "id", "z"),
            ModifyColumn("p", "z", [Col(TRUE, "none") EXCEPT !.ident = "always"])>>}
    \cup {<<RenameColumn("p", "a", "z")>>, <<RenameColumn("p", "id", "z")>>,
          <<RenameColumn(c, "pid", "z")>>}
    \cup {<<ModifyColumn("p", "a", Col(TRUE, "none"))>>,
          <<ModifyColumn(c, "pid", Col(TRUE, "none"))>>,
          <<ModifyColumn("p", "a", [Col(FALSE, "none") EXCEPT !.type = "blob"])>>}
    \cup {<<DropColumn("p", "a")>>, <<DropTable(c)>>}
    \cup {Swap("p", Key("p_a", "unique", <<>>), Key("p_a", "unique", <<"a", "id">>)),
          Swap("p", Key("p_pk", "pk", <<>>), Key("p_pk", "pk", <<"a">>)),
          Swap(c, Key("c_fk", "fk", <<>>), Refers("c_fk", <<"pid">>, "p", <<"a">>, "none")),
          Swap(c, Key("c_fk", "fk", <<>>), Refers("c_fk", <<"pid">>, "p", <<"id">>, "none")),
          <<AddConstraint("p", Key("p_b", "check", <<"a">>))>>,
          <<AddConstraint(c, Refers("", <<"id">>, "p", <<"id">>, "none"))>>,
          <<AddConstraint(c, Key("ix", "unique", <<"pid">>))>>,
          <<DropConstraint("p", Key("p_a", "unique", <<>>))>>}
    \cup {<<CreateTable("n", Id(""))>>,
          <<CreateTable("n", [Id("") EXCEPT !.cons = @ \cup {Refers("", <<"id">>, "o", <<"id">>, "none")}]),
            CreateTable("o", Id(""))>>,
          <<CreateTable("n", [Id("") EXCEPT !.cons = @ \cup {Refers("", <<"id">>, "o", <<"id">>, "none")}]),
            CreateTable("o", [Id("") EXCEPT !.cons = @ \cup {Refers("", <<"id">>, "n", <<"id">>, "none")}])>>}
    \cup {<<CreateIndex("jx", IndexOn("p", "a", conc))>> : conc \in BOOLEAN}
    \cup {<<CreateIndex("jx", IndexOn("p", "b", FALSE))>>}
    \cup {<<DropIndex("ix", IndexOn("c", "pid", FALSE))>>}

Server == [dialect |-> "sqlite", enforce |-> FALSE]
Empties(schema) == [t \in DOMAIN schema.tables |-> {}]

\* Each statement must find what it works on, and leave every key a foreign key needs.
Fits(d, s) == Errors([Server EXCEPT !.dialect = "edit"], d, s, FALSE) \subseteq {"no_key", "dependent"}
Edited(d, edit) ==
    LET Step[i \in 0..Len(edit)] ==
            IF i = 0 THEN [ok |-> TRUE, d |-> d]
            ELSE LET before == Step[i - 1]
                 IN  IF before.ok /\ Fits(before.d, edit[i])
                     THEN [ok |-> TRUE, d |-> Effect(Server, before.d, edit[i])]
                     ELSE [before EXCEPT !.ok = FALSE]
    IN  Step[Len(edit)]

Sound(d) == \A f \in ForeignKeys(d) : HasKey("postgresql", d, f.fk)

SomeTargets(base) ==
    LET d == [tables |-> base.tables, indexes |-> base.indexes, rows |-> Empties(base)]
        edits == Edits(IF "q" \in DOMAIN base.tables THEN "q" ELSE "c")
        Apply(S, E) == {e.d : e \in {f \in {Edited(x, y) : x \in S, y \in E} : f.ok}}
    IN  {SchemaOf(e) : e \in {f \in Apply(Apply({d}, edits), edits \cup {<<>>}) : Sound(f)}}

Row(schema, t, full) ==
    [c \in DOMAIN schema.tables[t].cols |->
        IF full \/ schema.tables[t].cols[c].nn THEN Old(t, c) ELSE Null]
SomeRows(schema) ==
    {Empties(schema)} \cup
    {[t \in DOMAIN schema.tables |-> {Row(schema, t, full)}] : full \in BOOLEAN}

AllSystems ==
    {[dialect |-> d, live |-> "unknown", enforce |-> FALSE] : d \in {"postgresql", "mysql"}}
    \cup {[dialect |-> "sqlite", live |-> "clean", enforce |-> e] : e \in BOOLEAN}
    \cup {[dialect |-> "sqlite", live |-> l, enforce |-> FALSE] : l \in {"unknown", "views"}}
=============================================================================
