----------------------------- MODULE PageProof -----------------------------
(***************************************************************************)
(* For every list of page keys, every table and every writer: a walk        *)
(* delivers no key twice and skips no row that stayed.                      *)
(***************************************************************************)
EXTENDS Page, TLAPS

----------------------------------------------------------------------------
(* The order.                                                              *)

\* Under one key, what precedes a value that precedes a third precedes it.
LEMMA PrecedesTransitive ==
    ASSUME NEW k \in PageKey, NEW a \in Value, NEW b \in Value, NEW c \in Value,
           Precedes(k, a, b), Precedes(k, b, c)
    PROVE  Precedes(k, a, c)
<1>1. /\ a.null \in BOOLEAN /\ b.null \in BOOLEAN /\ c.null \in BOOLEAN
      /\ a.v \in Int /\ b.v \in Int /\ c.v \in Int
    BY DEF Value
<1> QED BY <1>1 DEF Precedes

\* The order of the pages is transitive: the first key that differs decides.
LEMMA BeforeTransitive ==
    ASSUME NEW keys \in Seq(PageKey),
           NEW a \in [DOMAIN keys -> Value], NEW b \in [DOMAIN keys -> Value],
           NEW c \in [DOMAIN keys -> Value],
           Before(keys, a, b), Before(keys, b, c)
    PROVE  Before(keys, a, c)
<1>1. PICK i \in DOMAIN keys : /\ \A j \in 1..(i - 1) : a[j] = b[j]
                               /\ Precedes(keys[i], a[i], b[i])
    BY DEF Before
<1>2. PICK m \in DOMAIN keys : /\ \A j \in 1..(m - 1) : b[j] = c[j]
                               /\ Precedes(keys[m], b[m], c[m])
    BY DEF Before
<1>3. i \in Int /\ m \in Int /\ DOMAIN keys = 1..Len(keys) /\ Len(keys) \in Nat
    OBVIOUS
<1>4. CASE i < m
    <2>1. b[i] = c[i] /\ \A j \in 1..(i - 1) : a[j] = c[j]
        BY <1>1, <1>2, <1>3, <1>4
    <2>2. Precedes(keys[i], a[i], c[i])
        BY <1>1, <2>1
    <2> QED BY <2>1, <2>2 DEF Before
<1>5. CASE i > m
    <2>1. a[m] = b[m] /\ \A j \in 1..(m - 1) : a[j] = c[j]
        BY <1>1, <1>2, <1>3, <1>5
    <2>2. Precedes(keys[m], a[m], c[m])
        BY <1>2, <2>1
    <2> QED BY <2>1, <2>2 DEF Before
<1>6. CASE i = m
    <2>1. \A j \in 1..(i - 1) : a[j] = c[j]
        BY <1>1, <1>2, <1>6
    <2>2. Precedes(keys[i], a[i], c[i])
        <3>1. /\ keys[i] \in PageKey /\ a[i] \in Value /\ b[i] \in Value /\ c[i] \in Value
            OBVIOUS
        <3> QED BY <1>1, <1>2, <1>6, <3>1, PrecedesTransitive
    <2> QED BY <2>1, <2>2 DEF Before
<1> QED BY <1>3, <1>4, <1>5, <1>6

----------------------------------------------------------------------------
(* keysetPredicate, in SQL's logic.                                        *)

\* The branch for a key before the deciding one holds just when it is equal.
LEMMA PriorIsEqual ==
    ASSUME NEW x \in Value, NEW c \in Value
    PROVE  /\ Prior(x, c) \in {"true", "false", "unknown"}
           /\ Prior(x, c) = "true" <=> x = c
<1>1. x = c <=> x.null = c.null /\ x.v = c.v
    BY DEF Value
<1>2. /\ x.null \in BOOLEAN /\ c.null \in BOOLEAN
      /\ x.null => x.v = 0
      /\ c.null => c.v = 0
    BY DEF Value
<1> QED BY <1>1, <1>2 DEF Prior, IsNull, IsNotNull, Compare, And, Sql

\* The comparison of the deciding key holds just when the row comes after.
LEMMA DecidesIsPrecedes ==
    ASSUME NEW k \in PageKey, NEW x \in Value, NEW c \in Value,
           c.null => k.nulls = "first", x.null => k.nullable, c.null => k.nullable
    PROVE  /\ Decides(k, x, c) \in {"true", "false", "unknown"}
           /\ Decides(k, x, c) = "true" <=> Precedes(k, c, x)
BY DEF Decides, Precedes, IsNull, IsNotNull, Compare, And, Or, Sql, Value, PageKey

LEMMA AndIsAll ==
    ASSUME NEW S, S \subseteq {"true", "false", "unknown"}
    PROVE  And(S) = "true" <=> \A t \in S : t = "true"
BY DEF And

LEMMA OrIsSome ==
    ASSUME NEW S
    PROVE  Or(S) = "true" <=> "true" \in S
BY DEF Or

\* The predicate selects exactly the rows after the cursor, NULLs included.
LEMMA PredicateIsOrder ==
    ASSUME NEW keys \in Seq(PageKey),
           NEW x \in [DOMAIN keys -> Value], NEW c \in [DOMAIN keys -> Value],
           \A i \in DOMAIN keys : (x[i].null \/ c[i].null) => keys[i].nullable
    PROVE  KeysetPredicate(keys, x, c) = "true" <=> Before(keys, c, x)
<1>1. DOMAIN keys = 1..Len(keys) /\ Len(keys) \in Nat
    OBVIOUS
<1>2. ASSUME NEW i \in Deciding(keys, c)
      PROVE  Branch(keys, x, c, i) = "true" <=>
                 (\A j \in 1..(i - 1) : c[j] = x[j]) /\ Precedes(keys[i], c[i], x[i])
    <2> DEFINE S == {Prior(x[j], c[j]) : j \in 1..(i - 1)} \cup {Decides(keys[i], x[i], c[i])}
    <2>1. i \in DOMAIN keys /\ (c[i].null => keys[i].nulls = "first")
        BY DEF Deciding
    <2>2. \A j \in 1..(i - 1) : x[j] \in Value /\ c[j] \in Value
        BY <1>1, <2>1
    <2>3. \A j \in 1..(i - 1) : /\ Prior(x[j], c[j]) \in {"true", "false", "unknown"}
                                /\ Prior(x[j], c[j]) = "true" <=> x[j] = c[j]
        BY <2>2, PriorIsEqual
    <2>4. /\ Decides(keys[i], x[i], c[i]) \in {"true", "false", "unknown"}
          /\ Decides(keys[i], x[i], c[i]) = "true" <=> Precedes(keys[i], c[i], x[i])
        <3>1. keys[i] \in PageKey /\ x[i] \in Value /\ c[i] \in Value
            BY <2>1
        <3>2. (x[i].null => keys[i].nullable) /\ (c[i].null => keys[i].nullable)
            BY <2>1
        <3> QED BY <2>1, <3>1, <3>2, DecidesIsPrecedes
    <2>5. S \subseteq {"true", "false", "unknown"}
        BY <2>3, <2>4
    <2>6. And(S) = "true" <=> \A t \in S : t = "true"
        BY <2>5, AndIsAll, Zenon
    <2>7. (\A t \in S : t = "true") <=>
              /\ \A j \in 1..(i - 1) : Prior(x[j], c[j]) = "true"
              /\ Decides(keys[i], x[i], c[i]) = "true"
        BY Zenon
    <2> QED BY <2>3, <2>4, <2>6, <2>7, Zenon DEF Branch
<1>3. KeysetPredicate(keys, x, c) = "true" <=>
          \E i \in Deciding(keys, c) : Branch(keys, x, c, i) = "true"
    BY OrIsSome DEF KeysetPredicate
<1>4. \A i \in DOMAIN keys : Precedes(keys[i], c[i], x[i]) => i \in Deciding(keys, c)
    BY DEF Deciding, Precedes
<1> QED BY <1>2, <1>3, <1>4 DEF Before, Deciding

----------------------------------------------------------------------------
(* The same of rows.                                                       *)

LEMMA KeyOfType ==
    ASSUME NEW p \in Queries, NEW r \in Rows
    PROVE  /\ p.keys \in Seq(PageKey)
           /\ KeyOf(p, r) \in [DOMAIN p.keys -> Value]
           /\ \A i \in DOMAIN p.keys : KeyOf(p, r)[i].null => p.keys[i].nullable
<1>1. p.keys \in Seq(PageKey)
    BY PageAssumption DEF Query
<1>2. \A i \in DOMAIN p.keys : p.keys[i].col \in Columns
    BY <1>1 DEF PageKey
<1>3. \A i \in DOMAIN p.keys : r[p.keys[i].col] \in Value
    BY <1>2, PageAssumption
<1>4. \A i \in DOMAIN p.keys : r[p.keys[i].col].null => p.keys[i].nullable
    BY PageAssumption
<1> QED BY <1>1, <1>3, <1>4 DEF KeyOf

LEMMA PredicateOfRows ==
    ASSUME NEW p \in Queries, NEW r \in Rows, NEW s \in Rows
    PROVE  KeysetPredicate(p.keys, KeyOf(p, s), KeyOf(p, r)) = "true"
               <=> Before(p.keys, KeyOf(p, r), KeyOf(p, s))
<1> DEFINE x == KeyOf(p, s)
           c == KeyOf(p, r)
<1>1. /\ p.keys \in Seq(PageKey)
      /\ x \in [DOMAIN p.keys -> Value] /\ c \in [DOMAIN p.keys -> Value]
      /\ \A i \in DOMAIN p.keys : (x[i].null \/ c[i].null) => p.keys[i].nullable
    BY KeyOfType
<1> HIDE DEF x, c
<1>2. KeysetPredicate(p.keys, x, c) = "true" <=> Before(p.keys, c, x)
    BY <1>1, PredicateIsOrder
<1> QED BY <1>2 DEF x, c

LEMMA RowsTransitive ==
    ASSUME NEW p \in Queries, NEW r \in Rows, NEW s \in Rows, NEW t \in Rows,
           Before(p.keys, KeyOf(p, r), KeyOf(p, s)),
           Before(p.keys, KeyOf(p, s), KeyOf(p, t))
    PROVE  Before(p.keys, KeyOf(p, r), KeyOf(p, t))
BY KeyOfType, BeforeTransitive

\* A key that something comes after is not one that nothing can follow.
LEMMA FollowedIsPossible ==
    ASSUME NEW keys, NEW a, NEW b, Before(keys, a, b)
    PROVE  ~Impossible(keys, a)
BY DEF Before, Precedes, Impossible, Deciding

LEMMA EncodedIsCursor ==
    ASSUME NEW p, NEW r
    PROVE  Encode(p, r) # NoCursor
BY DEF Encode, NoCursor, Fingerprint

----------------------------------------------------------------------------
(* The steps.                                                              *)

LEMMA InitHolds == Init => IInv
BY DEF Init, IInv, TypeOK, PagesAscend, NothingSkipped

\* A cursor is accepted with the query it was made for, and with no other.
LEMMA AcceptedIsSame ==
    ASSUME IInv, NEW p \in Queries, NEW l, Prepare(p, l)
    PROVE  p = q
<1>1. CASE cursor = NoCursor
    BY <1>1 DEF Prepare
<1>2. CASE cursor # NoCursor
    <2>1. PICK last \in Delivered : cursor = Encode(q, last) /\ ~Impossible(q.keys, cursor.values)
        BY <1>2 DEF Prepare, IInv, CursorIsLast
    <2>2. /\ Fields(p) = Fields(q)
          /\ Impossible(p.keys, cursor.values) \/ Fingerprint(q) = Fingerprint(p)
        BY <1>2, <2>1 DEF Prepare, Accepts, Decodes, Encode
    <2>3. p \in Query /\ q \in Query
        BY PageAssumption DEF IInv, TypeOK
    <2>4. ~Impossible(p.keys, cursor.values)
        <3>1. DOMAIN p.keys = DOMAIN q.keys
            BY <2>2 DEF Fields
        <3>2. \A i \in DOMAIN p.keys : p.keys[i].nulls = q.keys[i].nulls
            <4> TAKE i \in DOMAIN p.keys
            <4>1. Fields(p)[i].nulls = p.keys[i].nulls
                BY DEF Fields
            <4>2. Fields(q)[i].nulls = q.keys[i].nulls
                BY <3>1 DEF Fields
            <4> QED BY <2>2, <4>1, <4>2
        <3> QED BY <2>1, <3>1, <3>2 DEF Impossible, Deciding
    <2>5. p.keys = q.keys /\ p.rows = q.rows
        BY <2>2, <2>4 DEF Fingerprint
    <2> QED BY <2>3, <2>5 DEF Query
<1> QED BY <1>1, <1>2

LEMMA PrepareStep ==
    ASSUME IInv, NEW p \in Queries, NEW l, Prepare(p, l)
    PROVE  IInv'
<1>1. q' = q
    BY AcceptedIsSame DEF Prepare
<1>2. /\ pc = "idle" /\ pc' = "prepared"
      /\ UNCHANGED <<table, cursor, pages, stayed>>
    BY DEF Prepare
<1>3. UNCHANGED Delivered
    BY <1>2 DEF Delivered
<1>4. TypeOK' /\ PagesAscend' /\ NothingSkipped'
    BY <1>1, <1>2 DEF IInv, TypeOK, PagesAscend, NothingSkipped
<1>5. CursorIsLast /\ Pending => CursorIsLast' /\ Pending'
    BY <1>1, <1>2, <1>3 DEF CursorIsLast, Pending
<1> QED BY <1>2, <1>4, <1>5 DEF IInv

LEMMA FailStep ==
    ASSUME IInv, Fail \/ EncodeFails
    PROVE  IInv'
<1>1. /\ pc = "prepared" /\ pc' = "idle"
      /\ UNCHANGED <<table, q, cursor, pages, stayed>>
    BY DEF Fail, EncodeFails
<1>2. UNCHANGED Delivered
    BY <1>1 DEF Delivered
<1>3. TypeOK' /\ PagesAscend' /\ NothingSkipped'
    BY <1>1 DEF IInv, TypeOK, PagesAscend, NothingSkipped
<1>4. CursorIsLast /\ Pending => CursorIsLast' /\ Pending'
    BY <1>1, <1>2 DEF CursorIsLast, Pending
<1> QED BY <1>1, <1>3, <1>4 DEF IInv

\* A writer only takes rows from those that stayed.
LEMMA WriteStep ==
    ASSUME IInv, Write
    PROVE  IInv'
<1>1. /\ stayed' = stayed \cap table' /\ table' \subseteq Rows
      /\ UNCHANGED <<q, pc, cursor, pages>>
    BY DEF Write, IInv, TypeOK
<1>2. UNCHANGED Delivered
    BY <1>1 DEF Delivered
<1>3. TypeOK' /\ PagesAscend' /\ NothingSkipped'
    BY <1>1, <1>2 DEF IInv, TypeOK, PagesAscend, NothingSkipped
<1>4. CursorIsLast /\ Pending => CursorIsLast' /\ Pending'
    BY <1>1, <1>2 DEF CursorIsLast, Pending
<1> QED BY <1>1, <1>3, <1>4 DEF IInv

LEMMA RunStep ==
    ASSUME IInv, Run
    PROVE  IInv'
<1> DEFINE After(r, s) == Before(q.keys, KeyOf(q, r), KeyOf(q, s))
           matches == {r \in table \cap q.rows :
                          cursor # NoCursor =>
                              KeysetPredicate(q.keys, KeyOf(q, r), cursor.values) = "true"}
           Continues(S) == \E last \in S : /\ \A r \in S \ {last} : After(r, last)
                                           /\ cursor' = Encode(q, last)
<1>0. matches = Matches
    BY DEF Matches
<1>1. PICK kept \in SUBSET matches :
          /\ \A r \in kept, s \in matches \ kept : After(r, s)
          /\ pages' = Append(pages, kept)
          /\ \/ kept = matches /\ pc' = "ended" /\ UNCHANGED cursor
             \/ /\ kept # matches /\ pc' = "idle"
                /\ Continues(kept)
    BY <1>0, Zenon DEF Run, IsPage, IsLast
<1>2. pc = "prepared" /\ UNCHANGED <<table, q, stayed>>
    BY DEF Run
<1>3. /\ q \in Queries /\ stayed \subseteq table /\ table \subseteq Rows
      /\ pages \in Seq(SUBSET Rows) /\ kept \subseteq Rows /\ matches \subseteq Rows
    BY DEF IInv, TypeOK
<1>4. \/ cursor = NoCursor /\ pages = <<>>
      \/ cursor # NoCursor /\ CursorIsLast /\ Pending
    BY <1>2, EncodedIsCursor DEF IInv, CursorIsLast
<1>5. Delivered \subseteq Rows /\ Delivered' = Delivered \cup kept
    <2>1. Delivered \subseteq Rows
        BY <1>3 DEF Delivered
    <2>2. /\ DOMAIN pages' = DOMAIN pages \cup {Len(pages) + 1}
          /\ \A i \in DOMAIN pages : pages'[i] = pages[i]
          /\ pages'[Len(pages) + 1] = kept
        BY <1>1, <1>3
    <2>3. \A r : r \in Delivered <=> \E i \in DOMAIN pages : r \in pages[i]
        BY DEF Delivered
    <2>4. \A r : r \in Delivered' <=> \E i \in DOMAIN pages' : r \in pages'[i]
        BY DEF Delivered
    <2>5. \A r : r \in Delivered' <=> r \in Delivered \/ r \in kept
        BY <2>2, <2>3, <2>4
    <2> QED BY <2>1, <2>5
\* What is delivered now comes after what was delivered before.
<1>6. \A r \in Delivered, s \in matches : After(r, s)
    <2>1. CASE cursor = NoCursor /\ pages = <<>>
        BY <2>1 DEF Delivered
    <2>2. CASE cursor # NoCursor /\ CursorIsLast
        <3>1. PICK last \in Delivered :
                  /\ cursor.values = KeyOf(q, last)
                  /\ \A r \in Delivered \ {last} : After(r, last)
            BY <2>2 DEF CursorIsLast, Encode
        <3> TAKE r \in Delivered, s \in matches
        <3>2. r \in Rows /\ s \in Rows /\ last \in Rows
            BY <1>3, <1>5
        <3>3. After(last, s)
            BY <2>2, <3>1, <3>2, <1>3, PredicateOfRows
        <3> QED BY <1>3, <3>1, <3>2, <3>3, RowsTransitive
    <2> QED BY <1>4, <2>1, <2>2
\* What is still to be delivered is among the matches.
<1>7. (stayed \cap q.rows) \ Delivered \subseteq matches
    <2>1. CASE cursor = NoCursor
        BY <1>3, <2>1
    <2>2. CASE cursor # NoCursor
        <3>1. PICK last \in Delivered : cursor.values = KeyOf(q, last)
            BY <1>4, <2>2 DEF CursorIsLast, Encode
        <3>2. SUFFICES ASSUME NEW r \in (stayed \cap q.rows) \ Delivered PROVE r \in matches
            OBVIOUS
        <3>3. After(last, r)
            BY <1>4, <2>2, <3>1 DEF Pending
        <3>4. r \in Rows /\ last \in Rows
            BY <1>3, <1>5
        <3> QED BY <1>3, <3>1, <3>3, <3>4, PredicateOfRows
    <2> QED BY <2>1, <2>2
<1> HIDE DEF matches, Continues
<1>8. PagesAscend'
    <2> SUFFICES ASSUME NEW i \in DOMAIN pages', NEW j \in DOMAIN pages', i < j,
                        NEW r \in pages'[i], NEW s \in pages'[j]
                 PROVE  After(r, s)
        BY <1>2 DEF PagesAscend
    <2>1. /\ i \in DOMAIN pages /\ pages'[i] = pages[i]
          /\ \/ j \in DOMAIN pages /\ pages'[j] = pages[j]
             \/ pages'[j] = kept
        BY <1>1, <1>3
    <2>2. r \in Delivered
        BY <2>1 DEF Delivered
    <2> QED BY <1>1, <1>6, <2>1, <2>2 DEF IInv, PagesAscend
<1>9. TypeOK'
    BY <1>1, <1>2, <1>3 DEF IInv, TypeOK
<1>10. CASE pc' = "ended"
    <2>1. kept = matches
        BY <1>1, <1>10
    <2>2. NothingSkipped'
        BY <1>2, <1>5, <1>7, <2>1 DEF NothingSkipped
    <2> QED BY <1>8, <1>9, <1>10, <2>2 DEF IInv
<1>11. CASE pc' = "idle"
    <2>1. PICK last \in kept : (\A r \in kept \ {last} : After(r, last)) /\ cursor' = Encode(q, last)
        <3>1. Continues(kept)
            BY <1>1, <1>11
        <3> QED BY <3>1 DEF Continues
    <2>2. \A r \in matches \ kept : After(last, r)
        BY <1>1, <2>1
    <2>3. cursor'.values = KeyOf(q, last)
        BY <2>1 DEF Encode
    <2>4. ~Impossible(q.keys, cursor'.values)
        <3>1. PICK s \in matches \ kept : TRUE
            BY <1>1, <1>11
        <3> QED BY <2>2, <2>3, <3>1, FollowedIsPossible
    <2>5. \A r \in Delivered' \ {last} : After(r, last)
        BY <1>5, <1>6, <2>1
    <2>6. CursorIsLast'
        BY <1>2, <1>5, <2>1, <2>4, <2>5 DEF CursorIsLast
    <2>7. Pending'
        BY <1>2, <1>5, <1>7, <2>2, <2>3 DEF Pending
    <2> QED BY <1>8, <1>9, <1>11, <2>6, <2>7 DEF IInv, NothingSkipped
<1> QED BY <1>1, <1>10, <1>11

LEMMA StutterStep ==
    ASSUME IInv, UNCHANGED vars
    PROVE  IInv'
BY DEF IInv, TypeOK, PagesAscend, NothingSkipped, CursorIsLast, Pending, Delivered, vars

LEMMA NextStep == IInv /\ [Next]_vars => IInv'
BY PrepareStep, RunStep, FailStep, WriteStep, StutterStep DEF Next

----------------------------------------------------------------------------

\* Whatever is written between the pages and whichever page fails, the rows of a
\* page come after those of the pages before it: no key is delivered twice.
THEOREM PagesNeverRepeat == Spec => []PagesAscend
<1>1. IInv => PagesAscend
    BY DEF IInv
<1> QED BY InitHolds, NextStep, <1>1, PTL DEF Spec

\* A walk that ends has delivered every row of its query that stayed in the
\* table: keysetPredicate, with its NULLs, leaves nothing out.
THEOREM PagesSkipNothing == Spec => []NothingSkipped
<1>1. IInv => NothingSkipped
    BY DEF IInv
<1> QED BY InitHolds, NextStep, <1>1, PTL DEF Spec
=============================================================================
