------------------------------- MODULE Page -------------------------------
(***************************************************************************)
(* Keyset pages.  A caller walks the result of a query with PageAfter: each *)
(* request carries the cursor of the page before, and each page is one      *)
(* SELECT with a predicate made of that cursor, ordered by the page keys    *)
(* and limited to one row more than asked for.  Other clients write to the  *)
(* table between two pages; a page that fails is asked for again.           *)
(***************************************************************************)
EXTENDS Integers, Sequences, FiniteSets

CONSTANTS
    Columns,
    Rows,          \* the rows a table may hold: a value for every column
    Queries,       \* what may be paged: the page keys and the rows that match
    Limits,        \* the limits a request may carry
    DefaultLimit, MaxLimit,    \* the PagePolicy
    Unencodable,   \* the values that no cursor can hold: NaN
    Unreadable,    \* those that a cursor holds and gives back as NaN: -0.0
    MaxWrites, MaxFailures

\* A column's value, and NULL.
Value == {a \in [null : BOOLEAN, v : Int] : a.null => a.v = 0}

\* pageKey: the column, its direction, its NULL placement.  NewPageSpec makes a
\* nullable key state the placement.
PageKey ==
    {k \in [col : Columns, desc : BOOLEAN, nullable : BOOLEAN,
            nulls : {"default", "first", "last"}] :
        k.nullable => k.nulls # "default"}

Query == [keys : Seq(PageKey), rows : SUBSET Rows]

KeyOf(q, row) == [i \in DOMAIN q.keys |-> row[q.keys[i].col]]

ASSUME PageAssumption ==
    /\ Rows \subseteq [Columns -> Value]
    /\ Queries \subseteq Query
    /\ \A q \in Queries : \A i \in DOMAIN q.keys, r \in Rows :
          r[q.keys[i].col].null => q.keys[i].nullable
    /\ Limits \subseteq Int /\ DefaultLimit \in 1..MaxLimit /\ MaxLimit \in Nat
    /\ Unencodable \subseteq Int /\ Unreadable \subseteq Int
    /\ MaxWrites \in Nat /\ MaxFailures \in Nat

VARIABLES
    table,
    q,         \* the query of the walk
    pc,
    limit,     \* of the page that was prepared
    cursor,    \* the cursor the caller holds, none before the first page
    pages,     \* the pages delivered, each a set of rows
    stayed,    \* history: the rows that were in the table all along
    writes, failures

vars == <<table, q, pc, limit, cursor, pages, stayed, writes, failures>>

NoCursor == [fingerprint |-> <<>>, fields |-> <<>>, values |-> <<>>]

Delivered == UNION {pages[i] : i \in DOMAIN pages}

----------------------------------------------------------------------------
(* The order of the pages, and SQL's logic of three values.                *)

\* ORDER BY: which of two values comes first under a key.
Precedes(k, a, b) ==
    \/ a.null /\ ~b.null /\ k.nulls = "first"
    \/ ~a.null /\ b.null /\ k.nulls = "last"
    \/ ~a.null /\ ~b.null /\ IF k.desc THEN a.v > b.v ELSE a.v < b.v

Before(keys, a, b) ==
    \E i \in DOMAIN keys :
        /\ \A j \in 1..(i - 1) : a[j] = b[j]
        /\ Precedes(keys[i], a[i], b[i])

Sql(condition) == IF condition THEN "true" ELSE "false"
IsNull(a) == Sql(a.null)
IsNotNull(a) == Sql(~a.null)
Compare(a, condition) == IF a.null THEN "unknown" ELSE Sql(condition)
And(S) == IF "false" \in S THEN "false" ELSE IF "unknown" \in S THEN "unknown" ELSE "true"
Or(S) == IF "true" \in S THEN "true" ELSE IF "unknown" \in S THEN "unknown" ELSE "false"

----------------------------------------------------------------------------
(* keysetPredicate.  x is the key of a row, c the values of the cursor.    *)

\* A key before the one that decides: equal to the cursor's.
Prior(x, c) ==
    IF c.null THEN IsNull(x) ELSE And({IsNotNull(x), Compare(x, x.v = c.v)})

\* Mutant: NULL is not after a value when NULLs come last.
DecidesValuesOnly(k, x, c) ==
    IF c.null THEN IsNotNull(x)
    ELSE And({IsNotNull(x), Compare(x, IF k.desc THEN x.v < c.v ELSE x.v > c.v)})

\* Mutant: the row of the cursor itself is not left out.
DecidesInclusive(k, x, c) ==
    LET after == And({IsNotNull(x), Compare(x, IF k.desc THEN x.v <= c.v ELSE x.v >= c.v)})
    IN CASE c.null -> IsNotNull(x)
         [] ~c.null /\ k.nulls = "last" -> Or({IsNull(x), after})
         [] OTHER -> after

\* The key that decides: after the cursor's.
Decides(k, x, c) ==
    LET after == And({IsNotNull(x), Compare(x, IF k.desc THEN x.v < c.v ELSE x.v > c.v)})
    IN CASE c.null -> IsNotNull(x)
         [] ~c.null /\ k.nulls = "last" -> Or({IsNull(x), after})
         [] OTHER -> after

\* The keys with a branch of their own: nothing follows a NULL that comes last.
Deciding(keys, c) == {i \in DOMAIN keys : c[i].null => keys[i].nulls = "first"}

Branch(keys, x, c, i) ==
    And({Prior(x[j], c[j]) : j \in 1..(i - 1)} \cup {Decides(keys[i], x[i], c[i])})

Impossible(keys, c) == Deciding(keys, c) = {}

KeysetPredicate(keys, x, c) == Or({Branch(keys, x, c, i) : i \in Deciding(keys, c)})

----------------------------------------------------------------------------
(* The cursor.                                                             *)

\* pageKeyFields.
Fields(p) ==
    [i \in DOMAIN p.keys |->
        [desc |-> p.keys[i].desc, nullable |-> p.keys[i].nullable, nulls |-> p.keys[i].nulls]]

\* Fingerprint: all that tells the rows and the order of one query from
\* another's, and nothing of the cursor and the limit.
Fingerprint(p) == <<p.keys, p.rows>>

\* EncodeValue takes the values of the row's key.
Encodes(p, row) ==
    \A i \in DOMAIN p.keys : KeyOf(p, row)[i].null \/ KeyOf(p, row)[i].v \notin Unencodable

\* EncodeEnvelope of the last row's key.
Encode(p, row) ==
    [fingerprint |-> Fingerprint(p), fields |-> Fields(p), values |-> KeyOf(p, row)]

\* DecodeValue gives back the value that was encoded, or an error.
Reads(v) == v \notin Unreadable

\* decodePageCursor: as many keys, the same metadata, NULL where it may be.
Decodes(p, c) ==
    /\ c.fields = Fields(p)
    /\ \A i \in DOMAIN p.keys : IF c.values[i].null THEN p.keys[i].nullable
                                ELSE Reads(c.values[i].v)

----------------------------------------------------------------------------

\* What a page spec promises of its unique suffix: no two rows have one key.
Unique(t) ==
    \A p \in Queries : \A r, s \in t \cap p.rows : KeyOf(p, r) = KeyOf(p, s) => r = s

Init ==
    /\ table \in {t \in SUBSET Rows : Unique(t)}
    /\ q \in Queries
    /\ pc = "idle" /\ limit = 0 /\ cursor = NoCursor /\ pages = <<>>
    /\ stayed = table /\ writes = 0 /\ failures = 0

Effective(l) == IF l = 0 THEN DefaultLimit ELSE l

\* The cursor belongs to the query it is sent with.  One that nothing can follow
\* gives an empty page before its fingerprint is looked at.
Accepts(p) ==
    \/ cursor = NoCursor
    \/ /\ Decodes(p, cursor)
       /\ Impossible(p.keys, cursor.values) \/ cursor.fingerprint = Fingerprint(p)

\* preparePageAfter.  A caller may also send the cursor with a query that is not
\* the one of the walk: what it gets is added to the walk like any page.
Prepare(p, l) ==
    /\ pc = "idle"
    /\ cursor = NoCursor => p = q
    /\ 0 <= l /\ l <= MaxLimit
    /\ Accepts(p)
    /\ pc' = "prepared" /\ limit' = Effective(l)
    /\ q' = p
    /\ UNCHANGED <<table, cursor, pages, stayed, writes, failures>>

\* What the page may hold: the rows after the cursor.
Matches ==
    {r \in table \cap q.rows :
        cursor # NoCursor => KeysetPredicate(q.keys, KeyOf(q, r), cursor.values) = "true"}

\* The first of them, up to the limit.
IsPage(kept) ==
    /\ kept \subseteq Matches
    /\ \A r \in kept, s \in Matches \ kept : Before(q.keys, KeyOf(q, r), KeyOf(q, s))
    /\ Cardinality(kept) <= limit
    /\ kept # Matches => Cardinality(kept) = limit

IsLast(kept, last) == \A r \in kept \ {last} : Before(q.keys, KeyOf(q, r), KeyOf(q, last))

\* consumePreparedPage: when there is one row more, the key of the last one is
\* the next cursor.
Run ==
    /\ pc = "prepared"
    /\ \E kept \in SUBSET Matches :
          /\ IsPage(kept)
          /\ pages' = Append(pages, kept)
          /\ \/ kept = Matches /\ pc' = "ended" /\ UNCHANGED cursor
             \/ /\ kept # Matches /\ pc' = "idle"
                /\ \E last \in kept :
                      IsLast(kept, last) /\ Encodes(q, last) /\ cursor' = Encode(q, last)
    /\ UNCHANGED <<table, q, limit, stayed, writes, failures>>

\* The last row has a key that no cursor can hold: the page is not returned.
EncodeFails ==
    /\ pc = "prepared" /\ pc' = "idle"
    /\ \E kept \in SUBSET Matches :
          /\ IsPage(kept) /\ kept # Matches
          /\ \E last \in kept : IsLast(kept, last) /\ ~Encodes(q, last)
    /\ UNCHANGED <<table, q, limit, cursor, pages, stayed, writes, failures>>

\* The query or the scan of a row fails: no page.
Fail ==
    /\ pc = "prepared" /\ failures < MaxFailures
    /\ pc' = "idle" /\ failures' = failures + 1
    /\ UNCHANGED <<table, q, limit, cursor, pages, stayed, writes>>

\* Another client inserts, deletes or changes a row.
Write ==
    /\ writes < MaxWrites /\ writes' = writes + 1
    /\ \E gone \in SUBSET table, added \in SUBSET (Rows \ table) :
          /\ Cardinality(gone) <= 1 /\ Cardinality(added) <= 1
          /\ table' = (table \ gone) \cup added
    /\ Unique(table')
    /\ stayed' = stayed \cap table'
    /\ UNCHANGED <<q, pc, limit, cursor, pages, failures>>

Next ==
    \/ \E p \in Queries, l \in Limits : Prepare(p, l)
    \/ Run \/ EncodeFails \/ Fail \/ Write

Spec == Init /\ [][Next]_vars

----------------------------------------------------------------------------
(* Properties.                                                             *)

\* Every row of a page comes after every row of the pages before it, in the
\* order of the page keys: no key is delivered twice, whatever is inserted,
\* deleted or changed between the pages, and whichever page is asked for again.
\* A row that another client gives a later key may come again under it.
PagesAscend ==
    \A i, j \in DOMAIN pages : i < j =>
        \A r \in pages[i], s \in pages[j] : Before(q.keys, KeyOf(q, r), KeyOf(q, s))

\* A walk that reached its end delivered every row of its query that was in the
\* table all along: a row is only missed when it was written during the walk.
NothingSkipped == pc = "ended" => stayed \cap q.rows \subseteq Delivered

----------------------------------------------------------------------------
(* The inductive invariant: the cursor is the key of the last row delivered, *)
(* and what was in the table all along is delivered or comes after it.       *)

TypeOK ==
    /\ table \subseteq Rows /\ q \in Queries /\ stayed \subseteq table
    /\ pc \in {"idle", "prepared", "ended"}
    /\ pages \in Seq(SUBSET Rows)

CursorIsLast ==
    \E last \in Delivered :
        /\ cursor = Encode(q, last)
        /\ ~Impossible(q.keys, cursor.values)
        /\ \A r \in Delivered \ {last} : Before(q.keys, KeyOf(q, r), KeyOf(q, last))

Pending ==
    \A r \in (stayed \cap q.rows) \ Delivered : Before(q.keys, cursor.values, KeyOf(q, r))

IInv ==
    /\ TypeOK /\ PagesAscend /\ NothingSkipped
    /\ pc # "ended" => \/ cursor = NoCursor /\ pages = <<>>
                       \/ CursorIsLast /\ Pending
=============================================================================
