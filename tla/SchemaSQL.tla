----------------------------- MODULE SchemaSQL ------------------------------
(* Schemas, the statements a generated migration is made of, and what the     *)
(* three servers make of them. The servers are external: this module says    *)
(* when a statement is refused and what it changes, as far as the plans       *)
(* migrate/diff generates depend on it.                                       *)
(*                                                                            *)
(* A schema is                                                                *)
(*   tables   name -> [cols : name -> column, cons : set of constraints]      *)
(*   indexes  name -> [table, cols, conc]                                     *)
(* a column  [type, nn, dflt, ident]   (NOT NULL; DEFAULT "none", "null",     *)
(*           "literal" or "expr"; PostgreSQL's identity mode)                 *)
(* a constraint [name, kind, cols, ref, refcols, act, inline]   (name "" is   *)
(*           anonymous; inline: written on the column, foreign keys only).    *)
(* A database is a schema with the rows of its tables.                        *)
EXTENDS FiniteSets, Naturals, Sequences

Without(f, x) == [y \in DOMAIN f \ {x} |-> f[y]]
With(f, x, v) == [y \in DOMAIN f \cup {x} |-> IF y = x THEN v ELSE f[y]]
Elements(s) == {s[i] : i \in DOMAIN s}

(* The values of a cell: where the value came from.                          *)
Null == <<"null", "", "">>
Old(t, c) == <<"old", t, c>>
Default(t, c) == <<"default", t, c>>
Zero(t, c) == <<"zero", t, c>>
Fill(t, c) == <<"fill", t, c>>

(* The statements.                                                           *)
CreateTable(t, def) == [do |-> "create_table", t |-> t, def |-> def]
DropTable(t) == [do |-> "drop_table", t |-> t]
RenameTable(t, to) == [do |-> "rename_table", t |-> t, to |-> to]
AddColumn(t, c, col, fks) ==
    [do |-> "add_column", t |-> t, c |-> c, col |-> col, fks |-> fks]
DropColumn(t, c) == [do |-> "drop_column", t |-> t, c |-> c]
RenameColumn(t, c, to) == [do |-> "rename_column", t |-> t, c |-> c, to |-> to]
SetNotNull(t, c) == [do |-> "set_not_null", t |-> t, c |-> c]
DropNotNull(t, c) == [do |-> "drop_not_null", t |-> t, c |-> c]
ModifyColumn(t, c, col) == [do |-> "modify_column", t |-> t, c |-> c, col |-> col]
AddConstraint(t, k) == [do |-> "add_constraint", t |-> t, k |-> k]
DropConstraint(t, k) == [do |-> "drop_constraint", t |-> t, k |-> k]
CreateIndex(n, ix) == [do |-> "create_index", n |-> n, t |-> ix.table, ix |-> ix]
DropIndex(n, ix) == [do |-> "drop_index", n |-> n, t |-> ix.table]
Backfill(t, c) == [do |-> "backfill", t |-> t, c |-> c]
CopyRows(t, from, map) == [do |-> "copy_rows", t |-> t, from |-> from, map |-> map]
Comment == [do |-> "comment"]

(* PostgreSQL and MySQL make the columns of a primary key NOT NULL.          *)
ImpliesNotNull(dialect) == dialect \in {"postgresql", "mysql"}

KeyColumns(cons) == UNION {Elements(k.cols) : k \in {j \in cons : j.kind = "pk"}}

Required(dialect, cols, cons) ==
    [c \in DOMAIN cols |->
        [cols[c] EXCEPT !.nn = @ \/ (ImpliesNotNull(dialect) /\ c \in KeyColumns(cons))]]

(* A table or an index as the catalog shows it: DEFAULT NULL is no default,  *)
(* a foreign key is one wherever it was written, CONCURRENTLY is forgotten.  *)
TableInCatalog(dialect, def) ==
    [cols |-> [c \in DOMAIN def.cols |->
                  [Required(dialect, def.cols, def.cons)[c] EXCEPT
                      !.dflt = IF @ = "null" THEN "none" ELSE @]],
     cons |-> {[k EXCEPT !.inline = FALSE] : k \in def.cons}]

Catalog(dialect, schema) ==
    [tables |-> [t \in DOMAIN schema.tables |->
                    TableInCatalog(dialect, schema.tables[t])],
     indexes |-> [n \in DOMAIN schema.indexes |->
                    [schema.indexes[n] EXCEPT !.conc = FALSE]]]

SchemaOf(d) == [tables |-> d.tables, indexes |-> d.indexes]

(* The key a foreign key leans on: a primary or unique key over the columns  *)
(* it names, in the table it names; on MySQL an index will do.               *)
HasKey(dialect, d, k) ==
    /\ k.ref \in DOMAIN d.tables
    /\ \/ \E j \in d.tables[k.ref].cons :
             j.kind \in {"pk", "unique"} /\ j.cols = k.refcols
       \/ dialect = "mysql" /\ \E n \in DOMAIN d.indexes :
             d.indexes[n].table = k.ref /\ d.indexes[n].cols = k.refcols

ForeignKeys(d) ==
    UNION {{[table |-> t, fk |-> k] : k \in {j \in d.tables[t].cons : j.kind = "fk"}} :
              t \in DOMAIN d.tables}

(* The foreign keys of other tables that refer to t.                         *)
Referring(d, t) == {f \in ForeignKeys(d) : f.fk.ref = t /\ f.table # t}

(* Rows of the child that refer to a row of t.                               *)
Children(d, t) ==
    {f \in Referring(d, t) :
        \E r \in d.rows[f.table] : \A c \in Elements(f.fk.cols) : r[c] # Null}

(* The statements that read the rows they constrain, and so can meet rows    *)
(* that break the constraint.                                                *)
Scans(s) ==
    \/ s.do = "add_constraint" /\ s.k.kind \in {"pk", "unique", "fk", "check"}
    \/ s.do = "copy_rows"

UsedBy(d, t, c) == {k \in d.tables[t].cons : c \in Elements(k.cols)}
IndexesOver(d, t, c) ==
    {n \in DOMAIN d.indexes : d.indexes[n].table = t /\ c \in Elements(d.indexes[n].cols)}
Present(d, t, c) == t \in DOMAIN d.tables /\ c \in DOMAIN d.tables[t].cols
HasNulls(d, t, cs) == \E r \in d.rows[t] : \E c \in cs : r[c] = Null

(* The constraint a DROP names: MySQL's DROP PRIMARY KEY names none.         *)
Named(dialect, d, t, k) ==
    {j \in d.tables[t].cons :
        IF dialect = "mysql" /\ k.kind = "pk" THEN j.kind = "pk"
        ELSE j.name = k.name /\ (dialect = "mysql" => j.kind = k.kind)}

WithoutKeys(d, t, ks) == [d EXCEPT !.tables[t].cons = @ \ ks]

(* Some foreign key that has its key in d has none in e.                     *)
LosesKey(dialect, d, e) ==
    \E f \in ForeignKeys(d) : HasKey(dialect, d, f.fk) /\ ~HasKey(dialect, e, f.fk)

(* The row a copy makes out of r.                                            *)
Copied(s, r) ==
    [c \in DOMAIN s.map |->
        CASE s.map[c].is = "column" -> r[s.map[c].c]
          [] s.map[c].is = "default" -> Default(s.from, c)
          [] s.map[c].is = "null" -> Null]

(* The object the statement would make is there already. MySQL has numbers   *)
(* of its own for foreign keys, checks and primary keys ("named").           *)
Exists(dialect, d, s) ==
    \/ s.do = "create_table" /\ s.t \in DOMAIN d.tables
    \/ s.do = "rename_table" /\ s.to \in DOMAIN d.tables
    \/ s.do = "add_column" /\ Present(d, s.t, s.c)
    \/ s.do = "rename_column" /\ Present(d, s.t, s.c) /\ Present(d, s.t, s.to)
    \/ /\ s.do = "create_index"
       /\ \/ s.n \in DOMAIN d.indexes
          \/ /\ s.t \in DOMAIN d.tables
             /\ \E k \in d.tables[s.t].cons : k.kind = "unique" /\ k.name = s.n
    \/ /\ s.do = "add_constraint" /\ s.k.kind = "unique" /\ s.t \in DOMAIN d.tables
       /\ \/ s.k.name # "" /\ Named(dialect, d, s.t, s.k) # {}
          \/ s.k.name \in DOMAIN d.indexes /\ d.indexes[s.k.name].table = s.t

ExistsNamed(dialect, d, s) ==
    /\ s.do = "add_constraint" /\ s.k.kind # "unique" /\ s.t \in DOMAIN d.tables
    /\ \/ s.k.kind = "pk" /\ KeyColumns(d.tables[s.t].cons) # {}
       \/ s.k.name # "" /\ Named(dialect, d, s.t, s.k) # {}

(* The object a DROP names is not there; its table is.                       *)
Absent(dialect, d, s) ==
    \/ s.do = "drop_column" /\ s.t \in DOMAIN d.tables /\ ~Present(d, s.t, s.c)
    \/ s.do = "drop_constraint" /\ s.t \in DOMAIN d.tables /\ Named(dialect, d, s.t, s.k) = {}
    \/ s.do = "drop_index" /\ s.n \notin DOMAIN d.indexes

(* A table or a column the statement works on is not there.                  *)
Missing(d, s) ==
    \/ s.do \notin {"create_table", "drop_index", "comment"} /\ s.t \notin DOMAIN d.tables
    \/ /\ s.do \in {"rename_column", "set_not_null", "drop_not_null",
                   "modify_column", "backfill"}
       /\ ~Present(d, s.t, s.c)
    \/ s.do = "add_constraint" /\ \E c \in Elements(s.k.cols) : ~Present(d, s.t, c)
    \/ s.do = "create_index" /\ \E c \in Elements(s.ix.cols) : ~Present(d, s.t, c)
    \/ s.do = "copy_rows" /\ \E c \in DOMAIN s.map :
          s.map[c].is = "column" /\ ~Present(d, s.from, s.map[c].c)

(* A foreign key names a key that is not there. SQLite looks for it only     *)
(* when it enforces foreign keys and a row refers to it.                     *)
NoKey(sys, d, s) ==
    \/ /\ s.do = "create_table" /\ sys.dialect # "sqlite"
       /\ \E k \in s.def.cons : k.kind = "fk" /\ k.ref # s.t /\ ~HasKey(sys.dialect, d, k)
    \/ /\ s.do = "add_constraint" /\ s.k.kind = "fk"
       /\ ~HasKey(sys.dialect, d, s.k)
    \/ /\ s.do = "copy_rows" /\ sys.enforce /\ ~Missing(d, s)
       /\ \E k \in d.tables[s.t].cons, r \in d.rows[s.from] :
             /\ k.kind = "fk" /\ k.ref # s.from /\ ~HasKey(sys.dialect, d, k)
             /\ \A c \in Elements(k.cols) : Copied(s, r)[c] # Null

(* Something that stays needs what the statement takes away.                 *)
Dependent(sys, d, s) ==
    \/ /\ s.do = "drop_table" /\ s.t \in DOMAIN d.tables
       /\ IF sys.dialect = "sqlite"
          THEN sys.enforce /\ d.rows[s.t] # {}
               /\ \E f \in Children(d, s.t) : f.fk.act = "none"
          ELSE Referring(d, s.t) # {}
    \/ /\ s.do = "drop_column" /\ Present(d, s.t, s.c)
       /\ \/ sys.dialect # "sqlite" /\ \E f \in Referring(d, s.t) : s.c \in Elements(f.fk.refcols)
          \/ sys.dialect = "mysql" /\ \E k \in UsedBy(d, s.t, s.c) : k.kind \in {"fk", "check"}
          \/ sys.dialect = "sqlite" /\ (\/ IndexesOver(d, s.t, s.c) # {}
                                       \/ \E k \in UsedBy(d, s.t, s.c) : ~k.inline)
    \/ /\ s.do = "rename_column" /\ sys.dialect = "mysql" /\ Present(d, s.t, s.c)
       /\ \E k \in UsedBy(d, s.t, s.c) : k.kind = "check"
    \/ /\ s.do = "drop_not_null" \/ (s.do = "modify_column" /\ ~s.col.nn)
       /\ Present(d, s.t, s.c) /\ s.c \in KeyColumns(d.tables[s.t].cons)
    \/ /\ s.do = "drop_constraint" /\ s.t \in DOMAIN d.tables
       /\ LosesKey(sys.dialect, d, WithoutKeys(d, s.t, Named(sys.dialect, d, s.t, s.k)))
    \/ /\ s.do = "drop_index" /\ s.n \in DOMAIN d.indexes
       /\ LosesKey(sys.dialect, d, [d EXCEPT !.indexes = Without(@, s.n)])

(* Rows hold a NULL where the statement wants none.                          *)
NullRows(sys, d, s) ==
    \/ /\ s.do = "add_column" /\ s.col.nn /\ s.col.dflt \in {"none", "null"}
       /\ \/ sys.dialect = "sqlite"
          \/ sys.dialect = "postgresql" /\ s.t \in DOMAIN d.tables /\ d.rows[s.t] # {}
    \/ /\ s.do = "set_not_null" \/ (s.do = "modify_column" /\ s.col.nn)
       /\ Present(d, s.t, s.c) /\ HasNulls(d, s.t, {s.c})
    \/ /\ s.do = "add_constraint" /\ s.k.kind = "pk" /\ ~Missing(d, s)
       /\ HasNulls(d, s.t, Elements(s.k.cols))
    \/ /\ s.do = "copy_rows" /\ ~Missing(d, s)
       /\ \E r \in d.rows[s.from], c \in DOMAIN s.map :
             d.tables[s.t].cols[c].nn /\ Copied(s, r)[c] = Null

(* The errors the server may answer s with. flaw: the rows break what s would *)
(* check of them.                                                            *)
Errors(sys, d, s, flaw) ==
    (IF Exists(sys.dialect, d, s) THEN {"exists"} ELSE {})
    \cup (IF ExistsNamed(sys.dialect, d, s) THEN {"named"} ELSE {})
    \cup (IF Absent(sys.dialect, d, s) THEN {"absent"} ELSE {})
    \cup (IF Missing(d, s) THEN {"missing"} ELSE {})
    \cup (IF NoKey(sys, d, s) THEN {"no_key"} ELSE {})
    \cup (IF Dependent(sys, d, s) THEN {"dependent"} ELSE {})
    \cup (IF NullRows(sys, d, s) THEN {"null"} ELSE {})
    \cup (IF flaw THEN {"flaw"} ELSE {})

(* Rows that can break the constraint s checks.                              *)
MayBeFlawed(d, s) ==
    LET source == IF s.do = "copy_rows" THEN s.from ELSE s.t
    IN  Scans(s) /\ source \in DOMAIN d.tables /\ d.rows[source] # {}

SetRows(d, t, F(_)) == [d EXCEPT !.rows[t] = {F(r) : r \in @}]

Added(d, s) ==
    LET v == IF s.col.dflt \in {"literal", "expr"} THEN Default(s.t, s.c)
             ELSE IF s.col.nn THEN Zero(s.t, s.c) ELSE Null
        e == [d EXCEPT !.tables[s.t] = [cols |-> With(@.cols, s.c, s.col),
                                        cons |-> @.cons \cup s.fks]]
    IN  SetRows(e, s.t, LAMBDA r : With(r, s.c, v))

Dropped(d, s) ==
    LET e == [d EXCEPT !.tables[s.t] = [cols |-> Without(@.cols, s.c),
                                        cons |-> @.cons \ UsedBy(d, s.t, s.c)],
                       !.indexes = [n \in DOMAIN @ \ IndexesOver(d, s.t, s.c) |-> @[n]]]
    IN  SetRows(e, s.t, LAMBDA r : Without(r, s.c))

Renamed(d, s) ==
    LET New(c) == IF c = s.c THEN s.to ELSE c
        Names(q) == [i \in DOMAIN q |-> New(q[i])]
        Move(f) == [c \in {New(x) : x \in DOMAIN f} |-> IF c = s.to THEN f[s.c] ELSE f[c]]
        Con(t, k) == [k EXCEPT !.cols = IF t = s.t THEN Names(@) ELSE @,
                               !.refcols = IF k.ref = s.t THEN Names(@) ELSE @]
        e == [d EXCEPT
                !.tables = [t \in DOMAIN @ |->
                    [cols |-> IF t = s.t THEN Move(@[t].cols) ELSE @[t].cols,
                     cons |-> {Con(t, k) : k \in @[t].cons}]],
                !.indexes = [n \in DOMAIN @ |->
                    IF @[n].table = s.t THEN [@[n] EXCEPT !.cols = Names(@)] ELSE @[n]]]
    IN  SetRows(e, s.t, LAMBDA r : Move(r))

(* Dropping a table in SQLite deletes its rows first: with enforcement on,   *)
(* the rows that refer to them go too where their key says ON DELETE CASCADE.*)
TableDropped(sys, d, s) ==
    LET Deletes == IF sys.dialect = "sqlite" /\ sys.enforce /\ d.rows[s.t] # {}
                   THEN Children(d, s.t) ELSE {}
        Stays(t, r) == ~\E f \in Deletes : f.table = t /\ \A c \in Elements(f.fk.cols) : r[c] # Null
    IN  [tables |-> Without(d.tables, s.t),
         indexes |-> [n \in {m \in DOMAIN d.indexes : d.indexes[m].table # s.t} |->
                        d.indexes[n]],
         rows |-> Without([t \in DOMAIN d.rows |-> {r \in d.rows[t] : Stays(t, r)}], s.t)]

(* What a statement that is not refused does.                                *)
Effect(sys, d, s) ==
    CASE s.do = "create_table" ->
           [d EXCEPT !.tables = With(@, s.t,
                        [s.def EXCEPT !.cols = Required(sys.dialect, @, s.def.cons)]),
                     !.rows = With(@, s.t, {})]
      [] s.do = "drop_table" -> TableDropped(sys, d, s)
      [] s.do = "rename_table" ->
           [d EXCEPT !.tables = With(Without(@, s.t), s.to, @[s.t]),
                     !.rows = With(Without(@, s.t), s.to, @[s.t])]
      [] s.do = "add_column" -> Added(d, s)
      [] s.do = "drop_column" -> Dropped(d, s)
      [] s.do = "rename_column" -> Renamed(d, s)
      [] s.do = "set_not_null" -> [d EXCEPT !.tables[s.t].cols[s.c].nn = TRUE]
      [] s.do = "drop_not_null" -> [d EXCEPT !.tables[s.t].cols[s.c].nn = FALSE]
      [] s.do = "modify_column" -> [d EXCEPT !.tables[s.t].cols[s.c] = s.col]
      [] s.do = "add_constraint" ->
           [d EXCEPT !.tables[s.t] =
               [cols |-> Required(sys.dialect, @.cols, @.cons \cup {s.k}),
                cons |-> @.cons \cup {s.k}]]
      [] s.do = "drop_constraint" -> WithoutKeys(d, s.t, Named(sys.dialect, d, s.t, s.k))
      [] s.do = "create_index" -> [d EXCEPT !.indexes = With(@, s.n, s.ix)]
      [] s.do = "drop_index" -> [d EXCEPT !.indexes = Without(@, s.n)]
      [] s.do = "backfill" -> SetRows(d, s.t, LAMBDA r : [r EXCEPT ![s.c] = Fill(s.t, s.c)])
      [] s.do = "copy_rows" -> [d EXCEPT !.rows[s.t] = {Copied(s, r) : r \in d.rows[s.from]}]
      [] s.do = "comment" -> d
=============================================================================
