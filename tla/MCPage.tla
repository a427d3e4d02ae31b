------------------------------- MODULE MCPage -------------------------------
(* Tables of up to three rows with a nullable column and an identifier, paged *)
(* by both, in either direction and NULL placement of the first, and by the   *)
(* identifier alone.                                                          *)
EXTENDS Page

TwoColumns == {"a", "id"}
Null == [null |-> TRUE, v |-> 0]
Is(n) == [null |-> FALSE, v |-> n]

\* One row may have -0.0 for its column, another NaN, which sorts last.
NegativeZero == {0}
NaN == {3}
AllRows == {[a |-> x, id |-> Is(n)] : x \in {Null, Is(1)}, n \in {1, 2, 3}}
           \cup {[a |-> Is(0), id |-> Is(1)], [a |-> Is(2), id |-> Is(2)],
                 [a |-> Is(3), id |-> Is(3)]}

Nullable == {[col |-> "a", desc |-> d, nullable |-> TRUE, nulls |-> n] :
                d \in BOOLEAN, n \in {"first", "last"}}
Required == {[col |-> "id", desc |-> d, nullable |-> FALSE, nulls |-> "default"] :
                d \in BOOLEAN}

\* One query more than the full result: the rows of two identifiers.
Some == {r \in AllRows : r.id.v \in {1, 3}}

SomeQueries ==
    {[keys |-> <<x, y>>, rows |-> AllRows] :
        x \in Nullable, y \in {k \in Required : ~k.desc}}
    \cup {[keys |-> <<y>>, rows |-> AllRows] : y \in {k \in Required : k.desc}}
    \cup {[keys |-> <<x, y>>, rows |-> Some] :
             x \in {k \in Nullable : ~k.desc /\ k.nulls = "last"},
             y \in {k \in Required : ~k.desc}}

AnyLimit == {-1, 0, 2, 3}
=============================================================================
