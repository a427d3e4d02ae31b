----------------------------- MODULE GraphLoad -----------------------------
(***************************************************************************)
(* One call of LoadGraph or PageGraphAfter: the rows of the root query, then *)
(* level by level the rows every edge leads to, in queries of as many keys   *)
(* as the bind budget allows, and at the end the caller's attach functions,  *)
(* deepest first.  Every query sees the database as it is at that moment:    *)
(* other clients write between two of them.                                  *)
(***************************************************************************)
EXTENDS Integers, Sequences, FiniteSets, SequencesExt

CONSTANTS
    Calls,         \* which function, the graph plan, what the tables hold
    RowsOf(_),     \* the rows another client may put into a table
    Class(_),      \* the engine's equality of key values: equal classes
    EngineLimit,   \* Limits.MaxBindParameters
    Ids,           \* the row identifiers; a query without predicates has them all
    PageLimit,
    MaxWrites, MaxFaults

\* The key value of a column that is NULL.
NoKey == 0

\* What a plan's engine has window functions for: nothing, queries, or queries and
\* the limits of a graph's edges (Capabilities.PerParentLimit).
Windows == {"none", "functions", "limits"}

ASSUME GraphAssumption ==
    /\ \A c \in Calls : c.plan.windows \in Windows
    /\ \A c \in Calls : \A n \in DOMAIN c.plan.edges : \A i \in DOMAIN c.plan.edges[n] :
          LET e == c.plan.edges[n][i]
          IN /\ e.kind \in {"hasMany", "hasOne", "manyThrough"}
             /\ e.child \in DOMAIN c.plan.edges
             /\ e.limit \in Nat /\ e.bind \in Nat
             /\ e.kind = "hasOne" => e.limit \in {0, 2}
    /\ EngineLimit \in Nat /\ PageLimit \in Nat \ {0}
    /\ MaxWrites \in Nat /\ MaxFaults \in Nat

VARIABLES
    db,          \* table -> its rows
    plan, call,
    pc,
    items,       \* the values of the graph: node, row, depth
    level,       \* the items whose edges are being loaded
    queue,       \* the items of the next level
    edges,       \* the edges of the level still to do, the current one first
    todo,        \* the keys of the current edge still to ask for
    loaded,      \* key -> the rows found for it
    links,       \* the pairs of keys a junction gave, each once, in order
    deferred,    \* the attach calls still to make
    attached,    \* the attach calls made
    ret, event,
    writes, faults

\* The edge in hand.
stage == <<edges, todo, loaded, links>>
graph == <<items, level, queue, deferred, attached>>
outcome == <<ret, event>>
environment == <<db, plan, call, writes, faults>>
vars == <<db, plan, call, pc, graph, stage, outcome, writes, faults>>

----------------------------------------------------------------------------
(* The plan.                                                               *)

Edge(ref) == plan.edges[ref[1]][ref[2]]
EdgesOf(node) == [i \in DOMAIN plan.edges[node] |-> <<node, i>>]
AllEdges == UNION {ToSet(EdgesOf(n)) : n \in DOMAIN plan.edges}

\* The binds a statement of the edge may carry.
Budget(e) == IF e.bind = 0 \/ e.bind > EngineLimit THEN EngineLimit ELSE e.bind

\* How many keys fit beside the binds the query already has: one at least, for a
\* plan that was not refused.
KeysPerQuery(e, fixed, width) == (Budget(e) - fixed) \div width

\* Mutant: has-one asks for the row it wants.
PerParentOne(e) == IF e.kind = "hasOne" THEN 1 ELSE e.limit

\* The limit of a partition: has-one asks for a second row to see that there is
\* none.
PerParent(e) == IF e.kind = "hasOne" THEN 2 ELSE e.limit

\* validateGraphEdge and validateManyThroughEdge: an engine that limits partitions
\* with window functions when the edge's options have a limit; window functions
\* and an order that is unique when the query has one, as has-one's always does;
\* and one key must fit the budget.
Refused(e) ==
    \/ e.limit > 0 /\ plan.windows # "limits"
    \/ PerParent(e) > 0 /\ (plan.windows = "none" \/ ~e.ordered)
    \/ Budget(e) - e.fixed < e.width
    \/ e.kind = "manyThrough" /\ Budget(e) - e.targetFixed < e.targetWidth

----------------------------------------------------------------------------
(* The database.                                                           *)

ById(S) == SetToSortSeq(S, LAMBDA r, s : r.id < s.id)

Equals(a, b) == a # NoKey /\ b # NoKey /\ Class(a) = Class(b)

\* A query of a stage, with its predicates, its limit per partition of the key
\* column and, unless it is a root's, the keys its rows must have.
Select(table, where, column, limit, keys) ==
    LET matching == {r \in db[table] : r.id \in where}
        Rank(r) == Cardinality({s \in matching : Equals(s[column], r[column]) /\ s.id < r.id})
    IN ById({r \in matching : /\ limit = 0 \/ Rank(r) < limit
                              /\ \E k \in keys : Equals(r[column], k)})

----------------------------------------------------------------------------

\* The first occurrence of every element.
Distinct(s) ==
    LET first == {i \in DOMAIN s : \A j \in 1..(i - 1) : s[j] # s[i]}
        at == SetToSortSeq(first, <)
    IN [n \in DOMAIN at |-> s[at[n]]]

\* graphKeySpec.Tuple of the parents: each key once, none for NULL.
ParentKey(e, i) == items[i].row[e.parentKey]
Parents == SelectSeq(level, LAMBDA i : items[i].node = Head(edges)[1])
Keys(e) == SelectSeq(Distinct([n \in DOMAIN Parents |-> ParentKey(e, Parents[n])]),
                     LAMBDA k : k # NoKey)

\* planEdges.
PlanEdges(work) ==
    Distinct(FlattenSeq([n \in DOMAIN work |-> EdgesOf(items'[work[n]].node)]))

NoEvent == [phase |-> "none", err |-> "", early |-> FALSE]
Complete(err) == event' = [event EXCEPT !.phase = "completed", !.err = err]

Return(err) ==
    /\ pc' = "returned" /\ ret' = err /\ Complete(err)

Init ==
    /\ \E c \in Calls : db = c.db /\ plan = c.plan /\ call = c.call
    /\ pc = "call" /\ items = <<>> /\ level = <<>> /\ queue = <<>>
    /\ edges = <<>> /\ todo = <<>> /\ loaded = <<>> /\ links = <<>>
    /\ deferred = <<>> /\ attached = <<>>
    /\ ret = "" /\ event = NoEvent /\ writes = 0 /\ faults = 0

\* prepareGraphPlan and what precedes the event: nothing is sent for a plan with
\* an edge that cannot be loaded, nor for a cursor that nothing can follow.
Call ==
    /\ pc = "call"
    /\ \/ /\ \E ref \in AllEdges : Refused(Edge(ref))
          /\ pc' = "returned" /\ ret' = "plan" /\ UNCHANGED event
       \/ /\ \A ref \in AllEdges : ~Refused(Edge(ref))
          /\ \/ call = "impossible page" /\ pc' = "returned" /\ ret' = "nil" /\ UNCHANGED event
             \/ /\ call # "impossible page" /\ pc' = "roots" /\ UNCHANGED ret
                /\ event' = [event EXCEPT !.phase = "started"]
    /\ UNCHANGED <<graph, stage, environment>>

\* The root query: all its rows, or those of a page.
Roots ==
    /\ pc = "roots" /\ pc' = "edges"
    /\ LET rows == ById({r \in db[plan.root] : r.id \in plan.where[plan.root]})
           kept == IF call = "page" /\ Len(rows) > PageLimit
                   THEN SubSeq(rows, 1, PageLimit) ELSE rows
       IN /\ items' = [n \in DOMAIN kept |-> [node |-> plan.root, row |-> kept[n], depth |-> 0]]
          /\ event' = [event EXCEPT !.early = kept # rows]
    /\ level' = [n \in DOMAIN items' |-> n]
    /\ edges' = PlanEdges(level')
    /\ UNCHANGED <<queue, deferred, attached, todo, loaded, links, ret, environment>>

----------------------------------------------------------------------------
(* An edge.                                                                *)

\* The keys of the parents are collected; without any nothing is asked.
EdgeBegin ==
    /\ pc = "edges" /\ edges # <<>>
    /\ LET e == Edge(Head(edges))
           keys == Keys(e)
       IN /\ todo' = keys
          /\ loaded' = [k \in ToSet(keys) |-> <<>>]
          /\ pc' = CASE keys = <<>> -> "attach"
                     [] keys # <<>> /\ e.kind = "manyThrough" -> "junction"
                     [] OTHER -> "batch"
    /\ links' = <<>>
    /\ UNCHANGED <<graph, edges, outcome, environment>>

Asked(perQuery) == SubSeq(todo, 1, IF Len(todo) < perQuery THEN Len(todo) ELSE perQuery)
Rest(perQuery) == SubSeq(todo, perQuery + 1, Len(todo))

\* One query of a has-many or has-one edge.  A row with a key that was not asked
\* for is an error: the engine's equality is coarser than that of the keys.
Batch ==
    /\ pc = "batch"
    /\ LET e == Edge(Head(edges))
           perQuery == KeysPerQuery(e, e.fixed, e.width)
           asked == Asked(perQuery)
           rows == Select(e.child, plan.where[e.child] \cap e.where, e.childKey,
                          PerParent(e), ToSet(asked))
       IN \/ /\ \E n \in DOMAIN rows : rows[n][e.childKey] \notin DOMAIN loaded
             /\ Return("foreign key") /\ UNCHANGED <<todo, loaded>>
          \/ /\ \A n \in DOMAIN rows : rows[n][e.childKey] \in DOMAIN loaded
             /\ loaded' = [k \in DOMAIN loaded |->
                              loaded[k] \o SelectSeq(rows, LAMBDA r : r[e.childKey] = k)]
             /\ todo' = Rest(perQuery)
             /\ pc' = IF todo' = <<>> THEN "attach" ELSE "batch"
             /\ UNCHANGED outcome
    /\ UNCHANGED <<graph, edges, links, environment>>

\* One query of the junction of a many-through edge.
Junction ==
    /\ pc = "junction"
    /\ LET e == Edge(Head(edges))
           perQuery == KeysPerQuery(e, e.fixed, e.width)
           asked == Asked(perQuery)
           rows == Select(e.junction, e.where, e.junctionParent, PerParent(e), ToSet(asked))
           Bad(r) == r[e.junctionParent] \notin DOMAIN loaded \/ r[e.junctionChild] = NoKey
       IN \/ /\ \E n \in DOMAIN rows : Bad(rows[n])
             /\ Return("foreign key") /\ UNCHANGED <<todo, loaded, links>>
          \/ /\ \A n \in DOMAIN rows : ~Bad(rows[n])
             /\ links' = Distinct(links \o [n \in DOMAIN rows |->
                             <<rows[n][e.junctionParent], rows[n][e.junctionChild]>>])
             /\ IF Rest(perQuery) # <<>>
                THEN todo' = Rest(perQuery) /\ pc' = "junction" /\ UNCHANGED loaded
                ELSE /\ todo' = Distinct([n \in DOMAIN links' |-> links'[n][2]])
                     /\ loaded' = [k \in ToSet(todo') |-> <<>>]
                     /\ pc' = IF todo' = <<>> THEN "attach" ELSE "targets"
             /\ UNCHANGED outcome
    /\ UNCHANGED <<graph, edges, environment>>

\* One query of the targets of a many-through edge, with no options of the edge.
Targets ==
    /\ pc = "targets"
    /\ LET e == Edge(Head(edges))
           perQuery == KeysPerQuery(e, e.targetFixed, e.targetWidth)
           asked == Asked(perQuery)
           rows == Select(e.child, plan.where[e.child], e.childKey, 0, ToSet(asked))
           KeyOf(n) == rows[n][e.childKey]
           Unwanted(n) == KeyOf(n) \notin DOMAIN loaded
           Again(n) == ~Unwanted(n) /\ ( \/ loaded[KeyOf(n)] # <<>>
                                        \/ \E m \in 1..(n - 1) : KeyOf(m) = KeyOf(n))
           bad == {n \in DOMAIN rows : Unwanted(n) \/ Again(n)}
       IN \/ /\ bad # {}
             /\ Return(IF Unwanted(Min(bad)) THEN "foreign key" ELSE "cardinality")
             /\ UNCHANGED <<todo, loaded>>
          \/ /\ bad = {}
             /\ loaded' = [k \in DOMAIN loaded |->
                              loaded[k] \o SelectSeq(rows, LAMBDA r : r[e.childKey] = k)]
             /\ todo' = Rest(perQuery)
             /\ pc' = IF todo' = <<>> THEN "attach" ELSE "targets"
             /\ UNCHANGED outcome
    /\ UNCHANGED <<graph, edges, links, environment>>

\* The targets a junction gave a parent, in its order.
TargetsOf(k) ==
    LET of == SelectSeq(links, LAMBDA l : l[1] = k) IN [n \in DOMAIN of |-> of[n][2]]

\* Mutant: of the parents with one key only the first is given the rows.
RowsForFirst(e, i) ==
    LET k == ParentKey(e, i)
    IN CASE k = NoKey \/ (\E o \in ToSet(Parents) : o < i /\ ParentKey(e, o) = k) -> <<>>
         [] k # NoKey /\ e.kind = "manyThrough" ->
                FlattenSeq([n \in DOMAIN TargetsOf(k) |-> loaded[TargetsOf(k)[n]]])
         [] OTHER -> loaded[k]

RowsFor(e, i) ==
    LET k == ParentKey(e, i)
    IN CASE k = NoKey -> <<>>
         [] k # NoKey /\ e.kind = "manyThrough" ->
                FlattenSeq([n \in DOMAIN TargetsOf(k) |-> loaded[TargetsOf(k)[n]]])
         [] OTHER -> loaded[k]

HasPredicates(node) == plan.where[node] # Ids

\* What only the parent's rows show to be wrong.
Miscounted(e, i) == e.kind = "hasOne" /\ Len(RowsFor(e, i)) > 1
Missing(e, i) ==
    /\ e.kind = "manyThrough" /\ ~HasPredicates(e.child)
    /\ \E t \in ToSet(TargetsOf(ParentKey(e, i))) : loaded[t] = <<>>

\* The rows found for a parent become values of its own, to be given to it at
\* the end and to be parents of the next level.
Attach ==
    /\ pc = "attach"
    /\ LET e == Edge(Head(edges))
           rows == [n \in DOMAIN Parents |-> RowsFor(e, Parents[n])]
           new == FlattenSeq([n \in DOMAIN Parents |->
                      [m \in DOMAIN rows[n] |->
                          [node |-> e.child, row |-> rows[n][m],
                           depth |-> items[Parents[n]].depth + 1]]])
           Start(n) == Len(items) + Len(FlattenSeq(SubSeq(rows, 1, n - 1)))
           calls == [n \in DOMAIN Parents |->
                        [parent |-> Parents[n], edge |-> Head(edges),
                         depth |-> items[Parents[n]].depth,
                         children |-> [m \in DOMAIN rows[n] |-> Start(n) + m]]]
       IN \/ /\ \E i \in ToSet(Parents) : Miscounted(e, i)
             /\ Return("cardinality") /\ UNCHANGED <<graph, edges>>
          \/ /\ \E i \in ToSet(Parents) : Missing(e, i)
             /\ Return("foreign key") /\ UNCHANGED <<graph, edges>>
          \/ /\ \A i \in ToSet(Parents) : ~Miscounted(e, i) /\ ~Missing(e, i)
             /\ items' = items \o new
             /\ queue' = queue \o [m \in DOMAIN new |-> Len(items) + m]
             /\ deferred' = deferred \o calls
             /\ edges' = Tail(edges) /\ pc' = "edges"
             /\ UNCHANGED <<level, attached, outcome>>
    /\ UNCHANGED <<todo, loaded, links, environment>>

----------------------------------------------------------------------------

\* SortStableFunc of the attach calls: deepest parents first.
DeepestFirst(calls) ==
    FlattenSeq([d \in 1..Len(calls) |->
        SelectSeq(calls, LAMBDA c : c.depth = Len(calls) - d)])

\* Mutant: the attach calls are made in the order of the levels.
LevelEndUnsorted ==
    /\ pc = "edges" /\ edges = <<>>
    /\ IF queue # <<>>
       THEN /\ level' = queue /\ queue' = <<>> /\ items' = items
            /\ edges' = PlanEdges(level')
            /\ UNCHANGED <<deferred, pc>>
       ELSE pc' = "callbacks" /\ UNCHANGED <<items, level, queue, edges, deferred>>
    /\ UNCHANGED <<attached, todo, loaded, links, outcome, environment>>

\* The next level, or the attach calls when there is none.
LevelEnd ==
    /\ pc = "edges" /\ edges = <<>>
    /\ IF queue # <<>>
       THEN /\ level' = queue /\ queue' = <<>> /\ items' = items
            /\ edges' = PlanEdges(level')
            /\ UNCHANGED <<deferred, pc>>
       ELSE /\ pc' = "callbacks" /\ deferred' = DeepestFirst(deferred)
            /\ UNCHANGED <<items, level, queue, edges>>
    /\ UNCHANGED <<attached, todo, loaded, links, outcome, environment>>

Callback ==
    /\ pc = "callbacks" /\ deferred # <<>>
    /\ attached' = Append(attached, Head(deferred)) /\ deferred' = Tail(deferred)
    /\ UNCHANGED <<pc, items, level, queue, stage, outcome, environment>>

Finish ==
    /\ pc = "callbacks" /\ deferred = <<>>
    /\ Return("nil")
    /\ UNCHANGED <<graph, stage, environment>>

\* A query fails, the caller's mapper or attach function panics: the event is
\* completed with that error.
Fault(err) ==
    /\ faults < MaxFaults /\ faults' = faults + 1
    /\ Return(err)
    /\ UNCHANGED <<graph, stage, db, plan, call, writes>>

Fail == pc \in {"roots", "batch", "junction", "targets"} /\ Fault("query")
Panic == pc \in {"roots", "attach", "callbacks"} /\ Fault("panic")

\* Another client inserts or deletes a row.
Write ==
    /\ pc \notin {"call", "returned"}
    /\ writes < MaxWrites /\ writes' = writes + 1
    /\ \E t \in DOMAIN db : \E r \in RowsOf(t) :
          \/ r \in db[t] /\ db' = [db EXCEPT ![t] = @ \ {r}]
          \/ /\ \A s \in db[t] : s.id # r.id
             /\ db' = [db EXCEPT ![t] = @ \cup {r}]
    /\ UNCHANGED <<plan, call, pc, graph, stage, outcome, faults>>

Next ==
    \/ Call \/ Roots \/ EdgeBegin \/ Batch \/ Junction \/ Targets \/ Attach
    \/ LevelEnd \/ Callback \/ Finish
    \/ Fail \/ Panic \/ Write

Spec == Init /\ [][Next]_vars

----------------------------------------------------------------------------
(* What a graph is: the join of its plan, without batches and levels.      *)

First(n, s) == IF n = 0 \/ Len(s) <= n THEN s ELSE SubSeq(s, 1, n)

Where(table, ids, column, key) == ById({r \in db[table] : r.id \in ids /\ r[column] = key})

Junctions(e, key) == First(e.limit, Where(e.junction, e.where, e.junctionParent, key))

TargetsJoined(e, target) == Where(e.child, plan.where[e.child], e.childKey, target)

Joined(e, row) ==
    LET key == row[e.parentKey]
        through == Distinct([n \in DOMAIN Junctions(e, key) |->
                                Junctions(e, key)[n][e.junctionChild]])
    IN CASE key = NoKey -> <<>>
         [] key # NoKey /\ e.kind = "manyThrough" ->
                FlattenSeq([n \in DOMAIN through |-> TargetsJoined(e, through[n])])
         [] OTHER -> First(e.limit, Where(e.child, plan.where[e.child] \cap e.where,
                                          e.childKey, key))

\* The rows of an edge are not what its kind promises.
Defect(e, row) ==
    LET key == row[e.parentKey]
    IN \/ e.kind = "hasOne" /\ Len(Joined(e, row)) > 1
       \/ /\ e.kind = "manyThrough" /\ key # NoKey
          /\ \E j \in ToSet(Junctions(e, key)) :
                LET targets == TargetsJoined(e, j[e.junctionChild])
                IN \/ j[e.junctionChild] = NoKey
                   \/ Len(targets) > 1
                   \/ targets = <<>> /\ ~HasPredicates(e.child)

RootRows ==
    LET rows == ById({r \in db[plan.root] : r.id \in plan.where[plan.root]})
    IN IF call = "page" THEN First(PageLimit, rows) ELSE rows

\* The nodes and rows at every depth of the graph.
Reached ==
    LET at[d \in 0..Cardinality(DOMAIN plan.edges)] ==
            IF d = 0 THEN {<<plan.root, r>> : r \in ToSet(RootRows)}
            ELSE UNION {UNION {{<<Edge(ref).child, r>> : r \in ToSet(Joined(Edge(ref), x[2]))} :
                                  ref \in ToSet(EdgesOf(x[1]))} : x \in at[d - 1]}
    IN UNION {at[d] : d \in DOMAIN at}

\* The engine's equality tells apart all the key values in its tables.
Exact ==
    LET values == UNION {{r.id, r.a, r.b} : r \in UNION {db[t] : t \in DOMAIN db}}
    IN \A a, b \in values : Class(a) = Class(b) => a = b

----------------------------------------------------------------------------
(* Properties.                                                             *)

RowsOfItems(s) == [n \in DOMAIN s |-> items[s[n]].row]

\* A call that nobody disturbs gives exactly the join of its plan, however the
\* keys are spread over queries, or an error: an error when, and only when, some
\* row that is reached has two rows behind a has-one edge, or a junction row
\* whose target is NULL, missing or not unique.
ResultIsJoin ==
    pc = "returned" /\ writes = 0 /\ faults = 0 /\ Exact /\ event.phase # "none" =>
        IF \E x \in Reached : \E ref \in ToSet(EdgesOf(x[1])) : Defect(Edge(ref), x[2])
        THEN ret \in {"cardinality", "foreign key"}
        ELSE /\ ret = "nil"
             /\ RootRows = RowsOfItems(SelectSeq([i \in DOMAIN items |-> i],
                                                 LAMBDA i : items[i].depth = 0))
             /\ \A a \in ToSet(attached) :
                   RowsOfItems(a.children) = Joined(Edge(a.edge), items[a.parent].row)

\* Whatever is written during the call: the rows given to a parent have its key,
\* and parents of one level with the same key are given the same rows.
KeysAgree ==
    LET calls == ToSet(deferred) \cup ToSet(attached)
    IN \A c \in calls :
          LET e == Edge(c.edge)
              key == ParentKey(e, c.parent)
          IN /\ e.kind # "manyThrough" =>
                   \A i \in ToSet(c.children) : items[i].row[e.childKey] = key
             /\ \A o \in calls :
                   o.edge = c.edge /\ o.depth = c.depth /\ ParentKey(e, o.parent) = key =>
                       RowsOfItems(o.children) = RowsOfItems(c.children)

\* A value is given to its parent when all its own edges have been given to it,
\* and a call that returns a graph has given every value each of its edges once.
AttachedBottomUp ==
    LET At(i, ref) == {n \in DOMAIN attached : attached[n].parent = i /\ attached[n].edge = ref}
    IN /\ \A n \in DOMAIN attached : \A i \in ToSet(attached[n].children) :
             \A ref \in ToSet(EdgesOf(items[i].node)) : \E m \in At(i, ref) : m < n
       /\ ret = "nil" =>
             \A i \in DOMAIN items : \A ref \in ToSet(EdgesOf(items[i].node)) :
                 Cardinality(At(i, ref)) = 1
=============================================================================
