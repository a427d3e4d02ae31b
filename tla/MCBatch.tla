------------------------------ MODULE MCBatch ------------------------------
(* The calls of the TLC instances of Batch.                                *)
EXTENDS Batch

P(kind, table, columns, args) ==
    [kind |-> kind, table |-> table, columns |-> columns, args |-> args]

O(maxRows, maxBind, engineLimit, atomic, classifier, executor) ==
    [maxRows |-> maxRows, maxBind |-> maxBind, engineLimit |-> engineLimit,
     atomic |-> atomic, classifier |-> classifier, executor |-> executor]

\* Up to three statements of every kind, executed in every way.
Kinds == {P("create", "t", "a", 1), P("create", "t", "b", 1), P("default", "t", "a", 0),
          P("version", "t", "a", 1)}

Executions ==
    {[plans |-> ps, opts |-> O(2, 0, 0, atomic, classifier, x)] :
        ps \in UNION {[1..n -> Kinds] : n \in 1..3}, atomic \in BOOLEAN,
        classifier \in BOOLEAN, x \in Executors}

\* Five creates of one shape with unequal prices, every limit: the search.
Searches ==
    {[plans |-> [i \in 1..5 |-> P("create", "t", "a", c[i])],
      opts |-> O(m, b, e, FALSE, FALSE, "db")] :
        c \in [1..5 -> {0, 1, 3}], m \in {0, 4}, b \in {0, 3, 5, 6}, e \in {0, 4, 7}}

\* Calls that are refused.
Odd == {P("write", "u", "a", 9), P("returning", "t", "a", 1), P("native", "t", "a", 1),
        P("nil", "t", "a", 0), P("create", "t", "a", 2)}

Refusals ==
    {[plans |-> ps, opts |-> O(m, b, 3, atomic, FALSE, "db")] :
        ps \in UNION {[1..n -> Odd] : n \in 0..2}, m \in {-1, 2}, b \in {-1, 0, 5},
        atomic \in BOOLEAN}

AnyCall == Executions \cup Searches \cup Refusals

\* An After hook may wrap the error of another statement of its own.
AnyError == {"other", "constraint"}
=============================================================================
