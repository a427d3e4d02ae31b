---------------------------- MODULE MCGraphLoad ----------------------------
(* Graphs of parents p, children c, grandchildren g and a junction j, with at *)
(* most two or three rows in a table.                                         *)
EXTENDS GraphLoad

ThreeIds == 1..3

\* Key values 1 and 11 are equal for the engine, and so are 2 and 12.
LastDigit(k) == k % 10

R(id, a, b) == [id |-> id, a |-> a, b |-> b]

\* The tables in which each of the identifiers has one of the rows, or none.
Tables(ids, RowSets(_)) ==
    {UNION {f[i] : i \in ids} :
        f \in {g \in [ids -> UNION {RowSets(i) : i \in ids}] : \A i \in ids : g[i] \in RowSets(i)}}

One(i, as) == {{R(i, a, 0)} : a \in as} \cup {{}}

E(kind, child, parentKey, childKey, limit, bind) ==
    [kind |-> kind, child |-> child, parentKey |-> parentKey, childKey |-> childKey,
     junction |-> "j", junctionParent |-> "a", junctionChild |-> "b",
     where |-> ThreeIds, limit |-> limit, bind |-> bind, ordered |-> TRUE,
     fixed |-> IF limit > 0 \/ kind = "hasOne" THEN 1 ELSE 0, width |-> 1,
     targetFixed |-> 0, targetWidth |-> 2]

PlanOf(p, c) ==
    [root |-> "p", windows |-> "limits", where |-> [n \in {"p", "c", "g"} |-> ThreeIds],
     edges |-> [n \in {"p", "c", "g"} |->
                   CASE n = "p" -> p [] n = "c" -> c [] n = "g" -> <<>>]]

Db(p, c, g, j) == [t \in {"p", "c", "g", "j"} |->
                      CASE t = "p" -> p [] t = "c" -> c [] t = "g" -> g [] t = "j" -> j]

\* Children of two parents, and one grandchild of each.
Trees ==
    {[call |-> options[1], plan |-> PlanOf(<<E("hasMany", "c", "id", "a", options[2], options[3])>>,
                                           <<E("hasOne", "g", "id", "a", 0, 2)>>),
      db |-> Db({R(1, 0, 0), R(2, 0, 0)}, c, g, {})] :
        options \in {<<"graph", 0, 0>>, <<"graph", 1, 2>>, <<"page", 0, 1>>},
        c \in Tables(1..3, LAMBDA i : One(i, IF i = 3 THEN {1} ELSE {1, 2})),
        g \in Tables(1..2, LAMBDA i : One(i, {1, 2}))}

\* Parents that share a key or have none, and keys the engine takes for equal.
Shared ==
    {[call |-> "graph", plan |-> PlanOf(<<E(kind, "c", "a", "a", 0, bind)>>, <<>>),
      db |-> Db(p \cup {R(1, 1, 0)}, c, {}, {})] :
        kind \in {"hasMany", "hasOne"}, bind \in {0, 2},
        p \in Tables(2..3, LAMBDA i : One(i, {0, 1, 12})),
        c \in Tables(1..2, LAMBDA i : One(i, {1, 2, 12}))}

\* A child plan that two edges of one node share.
Diamonds ==
    {[call |-> "graph",
      plan |-> PlanOf(<<E("hasMany", "c", "id", "a", 0, 0), E("hasOne", "c", "b", "id", 2, 0)>>,
                      <<E("hasMany", "g", "a", "a", 0, 0)>>),
      db |-> Db({R(1, 0, 2), R(2, 0, 1)}, c, g, {})] :
        c \in Tables(1..2, LAMBDA i : One(i, {1, 2})),
        g \in Tables(1..2, LAMBDA i : One(i, {1, 2}))}

\* Targets through a junction, with and without a predicate of their own.
Through ==
    {[call |-> "graph",
      plan |-> [PlanOf(<<E("manyThrough", "c", "id", "a", limit, bind)>>,
                       <<E("hasMany", "g", "id", "a", 0, 0)>>) EXCEPT !.where["c"] = where],
      db |-> Db({R(1, 0, 0), R(2, 0, 0)}, c, {R(1, 1, 0)}, j)] :
        limit \in {0, 1}, bind \in {2, 3, 4}, where \in {ThreeIds, {1}},
        c \in Tables(1..2, LAMBDA i : One(i, IF i = 1 THEN {1} ELSE {1, 2, 11})),
        j \in Tables(1..3, LAMBDA i : {{R(i, x[1], x[2])} :
                               x \in IF i = 1 THEN {<<1, 1>>, <<2, 1>>, <<11, 1>>, <<2, 0>>}
                                     ELSE {<<1, 1>>, <<2, 1>>, <<1, 2>>}} \cup {{}})}

\* Calls that are refused, or have nothing to do.
Refusals ==
    {[call |-> which, plan |-> [PlanOf(<<e>>, <<>>) EXCEPT !.windows = windows],
      db |-> Db({R(1, 1, 0)}, {R(1, 1, 0)}, {}, {})] :
        windows \in Windows, which \in {"graph", "page", "impossible page"},
        e \in {E("hasMany", "c", "id", "a", 0, 0), E("hasOne", "c", "id", "a", 0, 1),
               E("manyThrough", "c", "id", "a", 0, 1),
               E("hasMany", "c", "id", "a", 1, 0), E("hasOne", "c", "id", "a", 2, 2),
               [E("hasOne", "c", "id", "a", 0, 2) EXCEPT !.ordered = FALSE]}}

AllCalls == Trees \cup Shared \cup Diamonds \cup Through \cup Refusals

\* What other clients insert and delete.
Writable(t) ==
    CASE t = "c" -> {R(1, 1, 0), R(3, 1, 0)}
      [] t = "j" -> {R(1, 1, 1), R(3, 1, 2)}
      [] t = "g" -> {R(1, 1, 0)}
      [] OTHER -> {R(1, 0, 0)}
=============================================================================
