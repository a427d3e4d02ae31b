------------------------ MODULE MigrateSelectProof ------------------------
(***************************************************************************)
(* Theorems about MigrateSelectLoop, for any number of migrations and of   *)
(* checksums: selectApplies, selectReverts and statusEntries compute the   *)
(* sets of MigrateSelect.                                                  *)
(***************************************************************************)
EXTENDS MigrateSelectLoop, FiniteSetTheorems, TLAPS

-----------------------------------------------------------------------------
(* The loops of the migration selection.                                   *)

\* A history g and the supplied checksums c before position j: something is
\* pending there; no record follows something pending; no record was edited.
Pend(g, c, j) == \E m \in IDs : m < j /\ c[m] # 0 /\ g[m] = 0
Unbroken(g, c, j) ==
    \A m, k \in IDs : m < k /\ k < j /\ c[m] # 0 /\ g[m] = 0 => g[k] = 0
Unchanged(g, c, j) == \A m \in IDs : m < j /\ c[m] # 0 => g[m] \in {0, c[m]}

\* s is the elements of S, each once, in ID order.
Lists(s, S) == s \in Seq(IDs) /\ Elements(s) = S /\ Ascending(s)

InputsOK ==
    /\ op \in {"apply", "revert", "status"}
    /\ h \in [IDs -> 0..MaxSum] /\ sum \in [IDs -> 0..MaxSum] /\ down \in [IDs -> 0..1]
    /\ op = "apply" => t \in ApplyTargets
    /\ op = "revert" => t \in RevertTargets

\* selectApplies, at the top of its loop or after it.
ApplyLoop ==
    /\ i \in 1..(N + 1) /\ (pending <=> Pend(h, sum, i)) /\ Unbroken(h, sum, i) /\ Unchanged(h, sum, i)
    /\ t.kind = "through" => sum[t.n] # 0
    /\ count = IF t.kind = "through" THEN t.n ELSE N
    /\ Lists(sel, {m \in IDs : m < i /\ sum[m] # 0 /\ h[m] = 0 /\ m <= count})

ApplyInv ==
    op = "apply" =>
        /\ phase \in {"check", "limit", "select", "ok", "refused"}
        /\ phase \in {"check", "limit"} => i = 1 /\ pending = FALSE /\ sel = <<>>
        /\ phase \in {"limit", "select", "ok"} => ~ NotSupplied(h, sum)
        /\ phase \in {"select", "ok"} => ApplyLoop
        /\ phase = "select" => i <= N
        /\ phase = "ok" => i = N + 1
        /\ phase = "refused" => ApplyRefused(h, sum, t)

\* selectReverts' first loop, which collects what is recorded, ...
Collected ==
    /\ i \in 1..(N + 1) /\ (pending <=> Pend(h, sum, i)) /\ Unbroken(h, sum, i)
    /\ Lists(order, {m \in Recorded(h) : m < i}) /\ sel = <<>>

\* ... and its second, which has gone from the end of it down to i.
Reversed ==
    /\ ~ Gap(h, sum) /\ ~ CountRefused(h, t)
    /\ Lists(order, Recorded(h)) /\ count \in 0..Len(order)
    /\ Newest(h, t) = {order[p] : p \in (Len(order) - count + 1)..Len(order)}
    /\ i \in (Len(order) - count)..Len(order)
    /\ sel \in Seq(IDs) /\ Len(sel) = Len(order) - i
    /\ \A p \in 1..Len(sel) :
          /\ sel[p] = order[Len(order) + 1 - p]
          /\ h[sel[p]] = sum[sel[p]] /\ down[sel[p]] # 0

RevertInv ==
    op = "revert" =>
        /\ phase \in {"check", "collect", "count", "reverse", "ok", "refused"}
        /\ phase = "check" => i = 1 /\ pending = FALSE /\ order = <<>> /\ sel = <<>>
        /\ phase \in {"collect", "count", "reverse", "ok"} => ~ NotSupplied(h, sum)
        /\ phase \in {"collect", "count"} => Collected
        /\ phase = "collect" => i <= N
        /\ phase = "count" => i = N + 1
        /\ phase \in {"reverse", "ok"} => Reversed
        /\ phase = "ok" => i = Len(order) - count
        /\ phase = "refused" => RevertRefused(h, sum, down, t)

\* The entries are about S, each once and truly; the unknown ones come first.
States == {"unknown", "pending", "changed", "out_of_order", "applied"}
Reports(g, c, s, S) ==
    /\ s \in Seq([id : IDs, state : States])
    /\ {s[p].id : p \in DOMAIN s} = S
    /\ \A p \in DOMAIN s : s[p].state = statusOf(g, c, s[p].id)
    /\ \A p, r \in DOMAIN s : p < r =>
          /\ s[p].id # s[r].id
          /\ s[r].state = "unknown" => s[p].state = "unknown"

Strange(g, c, j) == {m \in IDs : m < j /\ c[m] = 0 /\ g[m] # 0}
Known(c, j) == {m \in IDs : m < j /\ c[m] # 0}

StatusInv ==
    op = "status" =>
        /\ phase \in {"check", "unknown", "report", "ok"}
        /\ phase \in {"check", "unknown"} => pending = FALSE
        /\ phase = "check" => i = 1 /\ entries = <<>>
        /\ phase = "unknown" => i \in 1..N /\ Reports(h, sum, entries, Strange(h, sum, i))
        /\ phase \in {"report", "ok"} =>
              /\ i \in 1..(N + 1) /\ (pending <=> Pend(h, sum, i))
              /\ Reports(h, sum, entries, Strange(h, sum, N + 1) \cup Known(sum, i))
        /\ phase = "report" => i <= N
        /\ phase = "ok" => i = N + 1

LoopInv == InputsOK /\ ApplyInv /\ RevertInv /\ StatusInv
-----------------------------------------------------------------------------
(* Lists.                                                                  *)

LEMMA Counted ==
    ASSUME NEW T, NEW n \in Nat, NEW f \in [1..n -> T],
           \A x \in T : \E k \in 1..n : f[k] = x,
           \A k, r \in 1..n : f[k] = f[r] => k = r
    PROVE  Cardinality(T) = n
<1>1. f \in Bijection(1..n, T)
      BY Zenon DEF Bijection, Injection, Surjection, IsInjective
<1>2. ExistsBijection(1..n, T)
      BY Zenon, <1>1 DEF ExistsBijection
<1> QED BY Zenon, <1>2, FS_CountingElements

LEMMA ListsEmpty == Lists(<<>>, {})
BY DEF Lists, Elements, Ascending

LEMMA ListsAppend ==
    ASSUME NEW s, NEW S, NEW x \in IDs, Lists(s, S), \A y \in S : y < x
    PROVE  Lists(Append(s, x), S \cup {x})
<1>1. s \in Seq(IDs) /\ Len(s) \in Nat /\ DOMAIN s = 1..Len(s)
      BY DEF Lists
<1>2. /\ Append(s, x) \in Seq(IDs) /\ DOMAIN Append(s, x) = 1..(Len(s) + 1)
      /\ Append(s, x)[Len(s) + 1] = x /\ \A p \in 1..Len(s) : Append(s, x)[p] = s[p]
      BY <1>1
<1> DEFINE u == Append(s, x)
<1> HIDE DEF u
<1>3. \A p \in 1..Len(s) : s[p] \in S
      BY <1>1 DEF Lists, Elements
<1>4. Elements(u) = S \cup {x}
  <2>1. ASSUME NEW y \in Elements(u) PROVE y \in S \cup {x}
    <3>1. PICK p \in 1..(Len(s) + 1) : y = u[p]
          BY <1>2 DEF Elements, u
    <3>2. p \in 1..Len(s) \/ p = Len(s) + 1
          BY <1>1
    <3> QED BY <1>2, <1>3, <3>1, <3>2 DEF u
  <2>2. ASSUME NEW y \in S PROVE y \in Elements(u)
    <3>1. PICK p \in 1..Len(s) : y = s[p]
          BY <1>1 DEF Lists, Elements
    <3>2. p \in 1..(Len(s) + 1)
          BY <1>1
    <3> QED BY <1>2, <3>1, <3>2 DEF Elements, u
  <2>3. x \in Elements(u)
    <3>1. Len(s) + 1 \in 1..(Len(s) + 1)
          BY <1>1
    <3> QED BY <1>2, <3>1 DEF Elements, u
  <2> QED BY <2>1, <2>2, <2>3
<1>5. Ascending(u)
  <2> SUFFICES ASSUME NEW p \in 1..(Len(s) + 1), NEW r \in 1..(Len(s) + 1), p < r PROVE u[p] < u[r]
      BY <1>2 DEF Ascending, u
  <2>1. p \in 1..Len(s) /\ (r \in 1..Len(s) \/ r = Len(s) + 1)
        BY <1>1
  <2>2. CASE r \in 1..Len(s)
        BY <1>1, <1>2, <2>1, <2>2 DEF Lists, Ascending, u
  <2>3. CASE r = Len(s) + 1
        BY <1>2, <1>3, <2>1, <2>3 DEF u
  <2> QED BY <2>1, <2>2, <2>3
<1> QED BY <1>2, <1>4, <1>5 DEF Lists, u

\* An ascending list names its elements in the order of their positions.
LEMMA ListsOrder ==
    ASSUME NEW s, NEW S, Lists(s, S)
    PROVE  /\ Len(s) \in Nat /\ DOMAIN s = 1..Len(s)
           /\ \A p \in 1..Len(s) : s[p] \in S /\ s[p] \in IDs /\ s[p] \in Int
           /\ \A x \in S : \E p \in 1..Len(s) : s[p] = x
           /\ \A p, r \in 1..Len(s) : (p < r) <=> (s[p] < s[r])
           /\ \A p, r \in 1..Len(s) : (p <= r) <=> (s[p] <= s[r])
<1>1. s \in Seq(IDs) /\ Len(s) \in Nat /\ DOMAIN s = 1..Len(s)
      BY DEF Lists
<1>2. \A p \in 1..Len(s) : s[p] \in S /\ s[p] \in IDs /\ s[p] \in Int
      BY <1>1, NAssumption DEF Lists, Elements, IDs
<1>3. \A x \in S : \E p \in 1..Len(s) : s[p] = x
      BY <1>1 DEF Lists, Elements
<1>4. \A p, r \in 1..Len(s) : p < r => s[p] < s[r]
      BY <1>1 DEF Lists, Ascending
<1>5. ASSUME NEW p \in 1..Len(s), NEW r \in 1..Len(s)
      PROVE  ((p < r) <=> (s[p] < s[r])) /\ ((p <= r) <=> (s[p] <= s[r]))
  <2>1. p < r => s[p] < s[r]
        BY <1>4
  <2>2. r < p => s[r] < s[p]
        BY <1>4
  <2>3. s[p] \in Int /\ s[r] \in Int /\ p \in Int /\ r \in Int
        BY <1>1, <1>2
  <2>4. p = r => s[p] = s[r]
        OBVIOUS
  <2> QED BY <2>1, <2>2, <2>3, <2>4
<1> QED BY <1>1, <1>2, <1>3, <1>5

\* The positions from p on are the elements from s[p] on; their number.
LEMMA ListsCount ==
    ASSUME NEW s, NEW S, Lists(s, S), NEW p \in 1..Len(s)
    PROVE  Cardinality({x \in S : x >= s[p]}) = Len(s) + 1 - p
<1> DEFINE T == {x \in S : x >= s[p]}
           n == Len(s) + 1 - p
           f == [k \in 1..n |-> s[k + p - 1]]
<1>1. /\ Len(s) \in Nat /\ \A k \in 1..Len(s) : s[k] \in S /\ s[k] \in Int
      /\ \A x \in S : \E k \in 1..Len(s) : s[k] = x
      /\ \A k, r \in 1..Len(s) : (k < r) <=> (s[k] < s[r])
      /\ \A k, r \in 1..Len(s) : (k <= r) <=> (s[k] <= s[r])
      BY ListsOrder
<1>2. n \in Nat
      BY <1>1
<1>3. \A k \in 1..n : k + p - 1 \in 1..Len(s) /\ p <= k + p - 1
      BY <1>1
<1>4. \A k \in 1..n : f[k] \in T
      BY <1>1, <1>3
<1>5. ASSUME NEW x \in T PROVE \E k \in 1..n : f[k] = x
  <2>1. PICK r \in 1..Len(s) : s[r] = x
        BY <1>1
  <2>2. p <= r
        BY <1>1, <2>1
  <2>3. r - p + 1 \in 1..n /\ (r - p + 1) + p - 1 = r
        BY <1>1, <2>2
  <2>4. f[r - p + 1] = s[r]
        BY <2>3
  <2> QED BY Zenon, <2>1, <2>3, <2>4
<1>6. ASSUME NEW k \in 1..n, NEW r \in 1..n, f[k] = f[r] PROVE k = r
  <2>1. k + p - 1 \in 1..Len(s) /\ r + p - 1 \in 1..Len(s) /\ s[k + p - 1] = s[r + p - 1]
        BY <1>3, <1>6
  <2>2. ~ (k + p - 1 < r + p - 1) /\ ~ (r + p - 1 < k + p - 1)
        BY <1>1, <2>1
  <2> QED BY <2>2
<1> HIDE DEF T, n, f
<1>7. f \in [1..n -> T]
      BY <1>4 DEF f
<1>8. Cardinality(T) = n
      BY <1>2, <1>5, <1>6, <1>7, Counted
<1> QED BY <1>8 DEF T, n

\* The number of all of them.
LEMMA ListsLength ==
    ASSUME NEW s, NEW S, Lists(s, S)
    PROVE  Cardinality(S) = Len(s)
<1> DEFINE n == Len(s)
<1>1. s \in [1..n -> S] /\ n \in Nat
  <2>1. s \in Seq(IDs)
        BY DEF Lists
  <2> QED BY <2>1, ListsOrder
<1>2. \A x \in S : \E p \in 1..n : s[p] = x
      BY ListsOrder
<1>3. ASSUME NEW p \in 1..n, NEW r \in 1..n, s[p] = s[r] PROVE p = r
  <2>1. ~ (p < r) /\ ~ (r < p)
        BY <1>3, ListsOrder
  <2> QED BY <1>1, <2>1
<1> HIDE DEF n
<1>4. Cardinality(S) = n
      BY <1>1, <1>2, <1>3, Counted
<1> QED BY <1>4 DEF n

-----------------------------------------------------------------------------
(* One position more.                                                      *)

LEMMA Positions == IDs = 1..N /\ N \in Nat /\ N >= 1 /\ \A m \in IDs : m \in Int
BY NAssumption DEF IDs

LEMMA PendMore ==
    ASSUME NEW j \in IDs
    PROVE  Pend(h, sum, j + 1) <=> (Pend(h, sum, j) \/ (sum[j] # 0 /\ h[j] = 0))
<1>1. \A m \in IDs : m < j + 1 <=> (m < j \/ m = j)
      BY Positions
<1> QED BY Zenon, <1>1 DEF Pend

LEMMA UnbrokenMore ==
    ASSUME NEW j \in IDs, ~ NotSupplied(h, sum), Unbroken(h, sum, j),
           ~ (sum[j] # 0 /\ h[j] # 0 /\ Pend(h, sum, j))
    PROVE  Unbroken(h, sum, j + 1)
<1> SUFFICES ASSUME NEW m \in IDs, NEW k \in IDs, m < k, k < j + 1, sum[m] # 0, h[m] = 0
             PROVE  h[k] = 0
    BY Zenon DEF Unbroken
<1>1. k < j \/ k = j
      BY Positions
<1>2. CASE k < j
      BY Zenon, <1>2 DEF Unbroken
<1>3. CASE k = j
      BY Zenon, <1>3 DEF Pend, NotSupplied
<1> QED BY Zenon, <1>1, <1>2, <1>3

LEMMA UnchangedMore ==
    ASSUME NEW j \in IDs, Unchanged(h, sum, j), sum[j] # 0 => h[j] \in {0, sum[j]}
    PROVE  Unchanged(h, sum, j + 1)
<1>1. \A m \in IDs : m < j + 1 => m < j \/ m = j
      BY Positions
<1> QED BY Zenon, <1>1 DEF Unchanged

\* After the last position.
LEMMA AllBefore == \A m \in IDs : m < N + 1
BY Positions

LEMMA NoGap == Unbroken(h, sum, N + 1) <=> ~ Gap(h, sum)
BY Zenon, AllBefore DEF Unbroken, Gap

LEMMA NothingBefore == ~ Pend(h, sum, 1) /\ Unbroken(h, sum, 1) /\ Unchanged(h, sum, 1)
BY Positions DEF Pend, Unbroken, Unchanged

\* What is recorded after something pending is a gap.
LEMMA PendGap ==
    ASSUME NEW j \in IDs, Pend(h, sum, j), h[j] # 0
    PROVE  Gap(h, sum)
BY Zenon DEF Pend, Gap
-----------------------------------------------------------------------------
(* The steps keep the inputs.                                              *)

LEMMA KeepInputs ==
    ASSUME InputsOK, Next
    PROVE  UNCHANGED inputs /\ InputsOK'
<1>1. UNCHANGED inputs
      BY Zenon DEF Next, CheckSupplied, ApplyLimit, SelectApply, CollectApplied, RevertCount,
                   SelectRevert, StatusUnknown, StatusSupplied
<1> QED BY Zenon, <1>1 DEF InputsOK, inputs

LEMMA Same ==
    ASSUME UNCHANGED inputs
    PROVE  op' = op /\ h' = h /\ sum' = sum /\ down' = down /\ t' = t
BY Zenon DEF inputs

-----------------------------------------------------------------------------
(* selectApplies.                                                          *)

LEMMA ApplyStep ==
    ASSUME LoopInv, Next, op = "apply"
    PROVE  ApplyInv'
<1>1. op' = op /\ h' = h /\ sum' = sum /\ down' = down /\ t' = t
      BY Zenon, KeepInputs, Same DEF LoopInv
<1>2. /\ phase \in {"check", "limit", "select", "ok", "refused"}
      /\ phase \in {"check", "limit"} => i = 1 /\ pending = FALSE /\ sel = <<>>
      /\ phase \in {"limit", "select", "ok"} => ~ NotSupplied(h, sum)
      /\ phase \in {"select", "ok"} => ApplyLoop
      /\ phase = "select" => i <= N
      BY Zenon DEF LoopInv, ApplyInv
<1>3. /\ t \in ApplyTargets /\ t.kind \in {"everything", "through"}
      /\ t.kind = "through" => t.n \in IDs
      BY DEF LoopInv, InputsOK, ApplyTargets
<1>4. CheckSupplied \/ ApplyLimit \/ SelectApply
      BY Zenon, <1>2 DEF Next, CollectApplied, RevertCount, SelectRevert, StatusUnknown, StatusSupplied
<1>5. CASE CheckSupplied
  <2>1. phase = "check" /\ i' = i /\ pending' = pending /\ sel' = sel
        BY Zenon, <1>5 DEF CheckSupplied
  <2>2. phase' = IF NotSupplied(h, sum) THEN "refused" ELSE "limit"
        BY <1>5 DEF CheckSupplied
  <2>3. NotSupplied(h, sum) => ApplyRefused(h, sum, t)
        BY Zenon DEF ApplyRefused
  <2>4. CASE NotSupplied(h, sum)
    <3>1. phase' = "refused"
          BY <2>2, <2>4
    <3> QED BY <1>1, <2>3, <2>4, <3>1 DEF ApplyInv
  <2>5. CASE ~ NotSupplied(h, sum)
    <3>1. phase' = "limit"
          BY <2>2, <2>5
    <3> QED BY <1>1, <1>2, <2>1, <2>5, <3>1 DEF ApplyInv
  <2> QED BY <2>4, <2>5
<1>6. CASE ApplyLimit
  <2>1. phase = "limit" /\ i' = 1 /\ pending' = FALSE /\ sel' = <<>> /\ ~ NotSupplied(h, sum)
        BY <1>2, <1>6 DEF ApplyLimit
  <2>2. CASE t.kind = "through" /\ sum[t.n] = 0
    <3>1. phase' = "refused"
          BY <1>6, <2>2 DEF ApplyLimit
    <3>2. ApplyRefused(h, sum, t)
          BY Zenon, <2>2 DEF ApplyRefused
    <3> QED BY <1>1, <3>1, <3>2 DEF ApplyInv
  <2>3. CASE ~ (t.kind = "through" /\ sum[t.n] = 0)
    <3>1. phase' = "select" /\ count' = IF t.kind = "through" THEN t.n ELSE N
          BY Zenon, <1>6, <2>3 DEF ApplyLimit
    <3>2. {m \in IDs : m < 1 /\ sum[m] # 0 /\ h[m] = 0 /\ m <= count'} = {}
          BY Positions
    <3>3. Lists(sel', {m \in IDs : m < i' /\ sum[m] # 0 /\ h[m] = 0 /\ m <= count'})
          BY Zenon, <2>1, <3>2, ListsEmpty
    <3>4. (pending' <=> Pend(h, sum, 1)) /\ Unbroken(h, sum, 1) /\ Unchanged(h, sum, 1)
          BY Zenon, <2>1, NothingBefore
    <3>5. i' \in 1..(N + 1) /\ i' <= N
          BY <2>1, Positions
    <3>6. ApplyLoop'
          BY Zenon, <1>1, <2>1, <2>3, <3>1, <3>3, <3>4, <3>5
          DEF ApplyLoop
    <3> QED BY <1>1, <2>1, <3>1, <3>5, <3>6 DEF ApplyInv
  <2> QED BY <2>2, <2>3
<1>7. CASE SelectApply
  <2>1. phase = "select" /\ i \in IDs /\ ~ NotSupplied(h, sum) /\ ApplyLoop /\ count' = count
        BY <1>2, <1>7, Positions DEF SelectApply, ApplyLoop
  <2>2. CASE sum[i] # 0 /\ h[i] # 0 /\ (h[i] # sum[i] \/ pending)
    <3>1. phase' = "refused"
          BY <1>7, <2>2 DEF SelectApply
    <3>2. ApplyRefused(h, sum, t)
      <4>1. CASE h[i] # sum[i]
        <5>1. h[i] \notin {0, sum[i]}
              BY <2>2, <4>1
        <5> QED BY Zenon, <2>1, <2>2, <5>1 DEF ApplyRefused
      <4>2. CASE pending
            BY Zenon, <2>1, <2>2, <4>2, PendGap DEF ApplyLoop, ApplyRefused
      <4> QED BY Zenon, <2>2, <4>1, <4>2
    <3> QED BY <1>1, <3>1, <3>2 DEF ApplyInv
  <2>3. CASE ~ (sum[i] # 0 /\ h[i] # 0 /\ (h[i] # sum[i] \/ pending))
    <3>1. /\ i' = i + 1 /\ phase' = IF i = N THEN "ok" ELSE phase
          /\ pending' = (pending \/ (sum[i] # 0 /\ h[i] = 0))
          /\ sel' = IF sum[i] # 0 /\ h[i] = 0 /\ i <= count THEN Append(sel, i) ELSE sel
          BY Zenon, <1>7, <2>3 DEF SelectApply, Advance
    <3>2. pending' <=> Pend(h, sum, i + 1)
          BY Zenon, <2>1, <3>1, PendMore DEF ApplyLoop
    <3>3. Unbroken(h, sum, i + 1)
          BY Zenon, <2>1, <2>3, UnbrokenMore DEF ApplyLoop
    <3>4. Unchanged(h, sum, i + 1)
      <4>1. sum[i] # 0 => h[i] \in {0, sum[i]}
            BY <2>3
      <4> QED BY Zenon, <2>1, <4>1, UnchangedMore DEF ApplyLoop
    <3> DEFINE S(j) == {m \in IDs : m < j /\ sum[m] # 0 /\ h[m] = 0 /\ m <= count}
    <3>5. Lists(sel', S(i + 1))
      <4>1. Lists(sel, S(i)) /\ \A m \in S(i) : m < i
            BY Zenon, <2>1 DEF ApplyLoop
      <4>2. \A m \in IDs : m < i + 1 <=> (m < i \/ m = i)
            BY <2>1, Positions
      <4>3. CASE sum[i] # 0 /\ h[i] = 0 /\ i <= count
        <5>1. S(i + 1) = S(i) \cup {i}
              BY Zenon, <2>1, <4>2, <4>3
        <5> HIDE DEF S
        <5>2. Lists(Append(sel, i), S(i) \cup {i})
              BY Zenon, <2>1, <4>1, ListsAppend
        <5>3. sel' = Append(sel, i)
              BY Zenon, <3>1, <4>3
        <5> QED BY Zenon, <5>1, <5>2, <5>3
      <4>4. CASE ~ (sum[i] # 0 /\ h[i] = 0 /\ i <= count)
        <5>1. S(i + 1) = S(i)
              BY Zenon, <2>1, <4>2, <4>4
        <5> HIDE DEF S
        <5> QED BY Zenon, <3>1, <4>1, <4>4, <5>1
      <4> QED BY Zenon, <4>3, <4>4
    <3>6. i' \in 1..(N + 1) /\ (phase' = "select" => i' <= N) /\ (phase' = "ok" => i' = N + 1)
          BY <2>1, <3>1, Positions
    <3>7. ApplyLoop'
          BY Zenon, <1>1, <2>1, <3>1, <3>2, <3>3, <3>4, <3>5, <3>6
          DEF ApplyLoop
    <3>8. phase' \in {"select", "ok"}
          BY <2>1, <3>1
    <3> QED BY <1>1, <2>1, <3>6, <3>7, <3>8 DEF ApplyInv
  <2> QED BY <2>2, <2>3
<1> QED BY Zenon, <1>4, <1>5, <1>6, <1>7

-----------------------------------------------------------------------------
(* selectReverts.                                                          *)

\* sort.Search finds the least position, if there is one.
LEMMA Least ==
    ASSUME NEW n \in Nat, NEW F \in SUBSET (1..n), F # {}
    PROVE  LET p == CHOOSE p \in F : \A r \in F : p <= r IN p \in F /\ \A r \in F : p <= r
<1> DEFINE less == {x \in Nat \X Nat : x[1] < x[2]}
<1>1. IsWellFoundedOn(less, Nat)
      BY NatLessThanWellFounded DEF OpToRel
<1>2. F \subseteq Nat
      OBVIOUS
<1>3. PICK p \in F : \A r \in F : ~ (<<r, p>> \in less)
      BY Zenon, <1>1, <1>2, WFMin
<1>4. \A r \in F : p <= r
  <2> SUFFICES ASSUME NEW r \in F PROVE p <= r
      OBVIOUS
  <2>1. p \in Nat /\ r \in Nat
        BY Zenon, <1>2
  <2>2. <<r, p>> \notin less
        BY Zenon, <1>3
  <2>3. ~ (r < p)
        BY <2>1, <2>2
  <2> QED BY <2>1, <2>3
<1> QED BY Zenon, <1>3, <1>4

\* Through(id): the position of id, and what comes after it.
LEMMA ThroughCount ==
    ASSUME NEW s, Lists(s, Recorded(h)), NEW n \in IDs
    PROVE  LET found == {p \in 1..Len(s) : s[p] >= n}
               first == CHOOSE p \in found : \A r \in found : p <= r
           IN  /\ (found = {} \/ s[first] # n) => h[n] = 0
               /\ found # {} /\ s[first] = n =>
                     /\ h[n] # 0 /\ Len(s) - first \in 0..Len(s)
                     /\ {m \in Recorded(h) : m > n}
                           = {s[p] : p \in (Len(s) - (Len(s) - first) + 1)..Len(s)}
<1> DEFINE found == {p \in 1..Len(s) : s[p] >= n}
           first == CHOOSE p \in found : \A r \in found : p <= r
<1>1. /\ Len(s) \in Nat /\ \A p \in 1..Len(s) : s[p] \in Recorded(h) /\ s[p] \in Int
      /\ \A x \in Recorded(h) : \E p \in 1..Len(s) : s[p] = x
      /\ \A p, r \in 1..Len(s) : (p < r) <=> (s[p] < s[r])
      /\ \A p, r \in 1..Len(s) : (p <= r) <=> (s[p] <= s[r])
      BY ListsOrder
<1>2. found \in SUBSET (1..Len(s)) /\ n \in Int
      BY Positions
<1>3. ASSUME found # {} PROVE first \in found /\ \A r \in found : first <= r
  <2> HIDE DEF found
  <2> QED BY Zenon, <1>1, <1>2, <1>3, Least
<1>4. ASSUME h[n] # 0 PROVE found # {} /\ s[first] = n
  <2>1. PICK p \in 1..Len(s) : s[p] = n
        BY <1>1, <1>4 DEF Recorded
  <2>2. p \in found
        BY <1>2, <2>1
  <2>3. first \in found /\ first <= p
    <3> HIDE DEF found, first
    <3> QED BY Zenon, <1>3, <2>2
  <2> HIDE DEF first
  <2>4. first \in 1..Len(s) /\ s[first] >= n
        BY <2>3
  <2>5. s[first] <= s[p]
        BY <1>1, <2>3, <2>4
  <2>6. s[first] \in Int
        BY <1>1, <2>4
  <2> QED BY <1>2, <2>1, <2>2, <2>4, <2>5, <2>6
<1>5. ASSUME found # {}, s[first] = n
      PROVE  /\ h[n] # 0 /\ Len(s) - first \in 0..Len(s)
             /\ {m \in Recorded(h) : m > n} = {s[p] : p \in (Len(s) - (Len(s) - first) + 1)..Len(s)}
  <2>1. first \in found
        BY <1>3, <1>5
  <2> HIDE DEF first
  <2>2. first \in 1..Len(s)
        BY <2>1
  <2>3. h[n] # 0
        BY <1>1, <1>5, <2>2 DEF Recorded
  <2>4. Len(s) - first \in 0..Len(s) /\ Len(s) - (Len(s) - first) + 1 = first + 1
        BY <1>1, <2>2
  <2>5. ASSUME NEW m \in Recorded(h), m > n PROVE \E p \in (first + 1)..Len(s) : s[p] = m
    <3>1. PICK p \in 1..Len(s) : s[p] = m
          BY <1>1
    <3>2. first < p
          BY <1>1, <1>2, <1>5, <2>2, <2>5, <3>1
    <3> QED BY <1>1, <2>2, <3>1, <3>2
  <2>6. ASSUME NEW p \in (first + 1)..Len(s) PROVE s[p] \in Recorded(h) /\ s[p] > n
    <3>1. p \in 1..Len(s) /\ first < p
          BY <1>1, <2>2
    <3> QED BY <1>1, <1>5, <2>2, <3>1
  <2> HIDE DEF found
  <2>7. {m \in Recorded(h) : m > n} = {s[p] : p \in (first + 1)..Len(s)}
        BY <2>5, <2>6
  <2> QED BY <2>3, <2>4, <2>7
<1> QED BY Zenon, <1>4, <1>5

\* Steps(n): the last n of them.
LEMMA StepsCount ==
    ASSUME NEW s, Lists(s, Recorded(h)), NEW n \in 1..Len(s)
    PROVE  {m \in Recorded(h) : Cardinality({k \in Recorded(h) : k >= m}) <= n}
              = {s[p] : p \in (Len(s) - n + 1)..Len(s)}
<1> DEFINE C(m) == Cardinality({k \in Recorded(h) : k >= m})
<1>1. /\ Len(s) \in Nat /\ \A p \in 1..Len(s) : s[p] \in Recorded(h)
      /\ \A x \in Recorded(h) : \E p \in 1..Len(s) : s[p] = x
      BY ListsOrder
<1>2. \A p \in 1..Len(s) : C(s[p]) = Len(s) + 1 - p
      BY ListsCount
<1> HIDE DEF C
<1>3. \A p \in 1..Len(s) : C(s[p]) <= n <=> p \in (Len(s) - n + 1)..Len(s)
      BY <1>1, <1>2
<1>4. \A p \in (Len(s) - n + 1)..Len(s) : p \in 1..Len(s)
      BY <1>1
<1>5. {m \in Recorded(h) : C(m) <= n} = {s[p] : p \in (Len(s) - n + 1)..Len(s)}
  <2>1. ASSUME NEW m \in Recorded(h), C(m) <= n
        PROVE  \E p \in (Len(s) - n + 1)..Len(s) : m = s[p]
        BY Zenon, <1>1, <1>3, <2>1
  <2>2. ASSUME NEW p \in (Len(s) - n + 1)..Len(s) PROVE s[p] \in Recorded(h) /\ C(s[p]) <= n
        BY Zenon, <1>1, <1>3, <1>4
  <2> QED BY Zenon, <2>1, <2>2
<1> QED BY Zenon, <1>5 DEF C

\* revertCount accepts exactly the targets it should, and counts the newest.
LEMMA CountStep ==
    ASSUME InputsOK, op = "revert", RevertCount, Lists(order, Recorded(h))
    PROVE  \/ phase' = "refused" /\ CountRefused(h, t)
           \/ /\ phase' = "reverse" /\ ~ CountRefused(h, t) /\ count' \in 0..Len(order)
              /\ Newest(h, t) = {order[p] : p \in (Len(order) - count' + 1)..Len(order)}
<1> DEFINE found == {p \in 1..Len(order) : order[p] >= t.n}
           first == CHOOSE p \in found : \A r \in found : p <= r
<1>1. t.kind \in {"nothing", "through", "steps"}
      BY DEF InputsOK, RevertTargets
<1>2. Len(order) \in Nat /\ Cardinality(Recorded(h)) = Len(order)
      BY ListsOrder, ListsLength
<1>3. CASE t.kind = "nothing"
  <2>1. phase' = "refused"
        BY <1>3 DEF RevertCount
  <2> QED BY Zenon, <1>3, <2>1 DEF CountRefused
<1>4. CASE t.kind = "through"
  <2>1. t.n \in IDs
        BY <1>4 DEF InputsOK, RevertTargets
  <2>2. /\ (found = {} \/ order[first] # t.n) => h[t.n] = 0
        /\ found # {} /\ order[first] = t.n =>
              /\ h[t.n] # 0 /\ Len(order) - first \in 0..Len(order)
              /\ {m \in Recorded(h) : m > t.n}
                    = {order[p] : p \in (Len(order) - (Len(order) - first) + 1)..Len(order)}
        BY Zenon, <2>1, ThroughCount
  <2>3. Newest(h, t) = {m \in Recorded(h) : m > t.n}
        BY <1>4 DEF Newest
  <2>4. CASE found = {} \/ order[first] # t.n
    <3>1. phase' = "refused"
          BY Zenon, <1>4, <2>4 DEF RevertCount
    <3> QED BY Zenon, <1>4, <2>2, <2>4, <3>1 DEF CountRefused
  <2>5. CASE found # {} /\ order[first] = t.n
    <3>1. phase' = "reverse" /\ count' = Len(order) - first
          BY Zenon, <1>4, <2>5 DEF RevertCount
    <3>2. ~ CountRefused(h, t)
          BY <1>4, <2>2, <2>5 DEF CountRefused
    <3> HIDE DEF found, first
    <3> QED BY Zenon, <2>2, <2>3, <2>5, <3>1, <3>2
  <2> QED BY Zenon, <2>4, <2>5
<1>5. CASE t.kind = "steps"
  <2>1. t.n \in Int
        BY <1>5, NAssumption DEF InputsOK, RevertTargets
  <2>2. Newest(h, t) = {m \in Recorded(h) : Cardinality({k \in Recorded(h) : k >= m}) <= t.n}
        BY <1>5 DEF Newest
  <2>3. CASE t.n <= 0 \/ t.n > Len(order)
    <3>1. phase' = "refused"
      <4>1. ~ (t.n > 0 /\ t.n <= Len(order))
            BY <1>2, <2>1, <2>3
      <4> QED BY Zenon, <1>5, <2>3, <4>1 DEF RevertCount
    <3> QED BY Zenon, <1>2, <1>5, <2>3, <3>1 DEF CountRefused
  <2>4. CASE ~ (t.n <= 0 \/ t.n > Len(order))
    <3>1. t.n \in 1..Len(order) /\ t.n > 0 /\ t.n <= Len(order) /\ t.n \in 0..Len(order)
          BY <1>2, <2>1, <2>4
    <3>2. phase' = "reverse" /\ count' = t.n
          BY Zenon, <1>5, <3>1, <2>4 DEF RevertCount
    <3>3. ~ CountRefused(h, t)
          BY <1>2, <1>5, <2>4 DEF CountRefused
    <3>4. Newest(h, t) = {order[p] : p \in (Len(order) - t.n + 1)..Len(order)}
          BY Zenon, <2>2, <3>1, StepsCount
    <3> QED BY Zenon, <3>1, <3>2, <3>3, <3>4
  <2> QED BY Zenon, <2>3, <2>4
<1> QED BY <1>1, <1>3, <1>4, <1>5

LEMMA RevertStep ==
    ASSUME LoopInv, Next, op = "revert"
    PROVE  RevertInv'
<1>1. op' = op /\ h' = h /\ sum' = sum /\ down' = down /\ t' = t
      BY Zenon, KeepInputs, Same DEF LoopInv
<1>2. /\ phase \in {"check", "collect", "count", "reverse", "ok", "refused"}
      /\ phase = "check" => i = 1 /\ pending = FALSE /\ order = <<>> /\ sel = <<>>
      /\ phase \in {"collect", "count", "reverse", "ok"} => ~ NotSupplied(h, sum)
      /\ phase \in {"collect", "count"} => Collected
      /\ phase = "collect" => i <= N
      /\ phase = "count" => i = N + 1
      /\ phase \in {"reverse", "ok"} => Reversed
      BY Zenon DEF LoopInv, RevertInv
<1>3. CheckSupplied \/ CollectApplied \/ RevertCount \/ SelectRevert
      BY <1>2 DEF Next, ApplyLimit, SelectApply, StatusUnknown, StatusSupplied
<1>4. CASE CheckSupplied
  <2>1. phase = "check" /\ i' = 1 /\ pending' = FALSE /\ order' = <<>> /\ sel' = <<>>
        BY Zenon, <1>2, <1>4 DEF CheckSupplied
  <2>2. phase' = IF NotSupplied(h, sum) THEN "refused" ELSE "collect"
        BY <1>4 DEF CheckSupplied
  <2>3. CASE NotSupplied(h, sum)
    <3>1. phase' = "refused" /\ RevertRefused(h, sum, down, t)
          BY Zenon, <2>2, <2>3 DEF RevertRefused
    <3> QED BY <1>1, <3>1 DEF RevertInv
  <2>4. CASE ~ NotSupplied(h, sum)
    <3>1. phase' = "collect"
          BY <2>2, <2>4
    <3>2. {m \in Recorded(h) : m < 1} = {}
          BY Positions DEF Recorded
    <3>3. (pending' <=> Pend(h, sum, 1)) /\ Unbroken(h, sum, 1) /\ Lists(order', {m \in Recorded(h) : m < 1})
          BY Zenon, <2>1, <3>2, NothingBefore, ListsEmpty
    <3>4. i' \in 1..(N + 1) /\ i' <= N
          BY <2>1, Positions
    <3>5. Collected'
          BY Zenon, <1>1, <2>1, <3>3, <3>4 DEF Collected
    <3> QED BY <1>1, <2>4, <3>1, <3>4, <3>5 DEF RevertInv
  <2> QED BY <2>3, <2>4
<1>5. CASE CollectApplied
  <2>1. phase = "collect" /\ i \in IDs /\ ~ NotSupplied(h, sum) /\ Collected /\ sel' = sel
        BY <1>2, <1>5, Positions DEF CollectApplied, Collected
  <2>2. CASE sum[i] # 0 /\ h[i] # 0 /\ pending
    <3>1. phase' = "refused"
          BY <1>5, <2>2 DEF CollectApplied
    <3>2. RevertRefused(h, sum, down, t)
          BY Zenon, <2>1, <2>2, PendGap DEF Collected, RevertRefused
    <3> QED BY <1>1, <3>1, <3>2 DEF RevertInv
  <2>3. CASE ~ (sum[i] # 0 /\ h[i] # 0 /\ pending)
    <3>1. /\ i' = i + 1 /\ phase' = IF i = N THEN "count" ELSE phase
          /\ pending' = (pending \/ (sum[i] # 0 /\ h[i] = 0))
          /\ order' = IF sum[i] # 0 /\ h[i] # 0 THEN Append(order, i) ELSE order
          BY Zenon, <1>5, <2>3 DEF CollectApplied, Advance
    <3>2. pending' <=> Pend(h, sum, i + 1)
          BY Zenon, <2>1, <3>1, PendMore DEF Collected
    <3>3. Unbroken(h, sum, i + 1)
          BY Zenon, <2>1, <2>3, UnbrokenMore DEF Collected
    <3> DEFINE S(j) == {m \in Recorded(h) : m < j}
    <3>4. Lists(order', S(i + 1))
      <4>1. Lists(order, S(i)) /\ \A m \in S(i) : m < i
            BY Zenon, <2>1 DEF Collected
      <4>2. \A m \in IDs : m < i + 1 <=> (m < i \/ m = i)
            BY <2>1, Positions
      <4>3. sum[i] = 0 => h[i] = 0
            BY Zenon, <2>1 DEF NotSupplied
      <4>4. CASE h[i] # 0
        <5>1. S(i + 1) = S(i) \cup {i}
              BY Zenon, <2>1, <4>2, <4>4 DEF Recorded
        <5> HIDE DEF S
        <5>2. Lists(Append(order, i), S(i) \cup {i})
              BY Zenon, <2>1, <4>1, ListsAppend
        <5>3. order' = Append(order, i)
              BY Zenon, <3>1, <4>3, <4>4
        <5> QED BY Zenon, <5>1, <5>2, <5>3
      <4>5. CASE h[i] = 0
        <5>1. S(i + 1) = S(i)
              BY Zenon, <2>1, <4>2, <4>5 DEF Recorded
        <5>2. order' = order
              BY Zenon, <3>1, <4>5
        <5> HIDE DEF S
        <5> QED BY Zenon, <4>1, <5>1, <5>2
      <4> QED BY Zenon, <4>4, <4>5
    <3>5. i' \in 1..(N + 1) /\ (phase' = "collect" => i' <= N) /\ (phase' = "count" => i' = N + 1)
          BY <2>1, <3>1, Positions
    <3>6. Collected'
          BY Zenon, <1>1, <2>1, <3>1, <3>2, <3>3, <3>4, <3>5
          DEF Collected
    <3>7. phase' \in {"collect", "count"}
          BY <2>1, <3>1
    <3> QED BY <1>1, <2>1, <3>5, <3>6, <3>7 DEF RevertInv
  <2> QED BY <2>2, <2>3
<1>6. CASE RevertCount
  <2>1. phase = "count" /\ ~ NotSupplied(h, sum) /\ Collected /\ i = N + 1
        BY <1>2, <1>6 DEF RevertCount
  <2>2. order' = order /\ sel' = sel /\ i' = Len(order)
        BY Zenon, <1>6 DEF RevertCount
  <2>3. {m \in Recorded(h) : m < N + 1} = Recorded(h)
        BY Zenon, AllBefore DEF Recorded
  <2>4. Lists(order, Recorded(h)) /\ ~ Gap(h, sum) /\ sel = <<>>
        BY Zenon, <2>1, <2>3, NoGap DEF Collected
  <2>5. \/ phase' = "refused" /\ CountRefused(h, t)
        \/ /\ phase' = "reverse" /\ ~ CountRefused(h, t) /\ count' \in 0..Len(order)
           /\ Newest(h, t) = {order[p] : p \in (Len(order) - count' + 1)..Len(order)}
        BY Zenon, <1>6, <2>4, CountStep DEF LoopInv
  <2>6. CASE phase' = "refused" /\ CountRefused(h, t)
    <3>1. RevertRefused(h, sum, down, t)
          BY Zenon, <2>6 DEF RevertRefused
    <3> QED BY <1>1, <2>6, <3>1 DEF RevertInv
  <2>7. CASE /\ phase' = "reverse" /\ ~ CountRefused(h, t) /\ count' \in 0..Len(order)
             /\ Newest(h, t) = {order[p] : p \in (Len(order) - count' + 1)..Len(order)}
    <3>1. Len(order) \in Nat
          BY Zenon, <2>4, ListsOrder
    <3>2. i' \in (Len(order) - count')..Len(order) /\ sel' \in Seq(IDs) /\ Len(sel') = Len(order) - i'
          BY <2>2, <2>4, <2>7, <3>1
    <3>3. 1..Len(sel') = {}
      <4>1. sel' = <<>>
            BY Zenon, <2>2, <2>4
      <4> QED BY <4>1
    <3>4. Reversed'
          BY <1>1, <2>2, <2>4, <2>7, <3>2, <3>3 DEF Reversed
    <3> QED BY <1>1, <2>1, <2>7, <3>4 DEF RevertInv
  <2> QED BY Zenon, <2>5, <2>6, <2>7
<1>7. CASE SelectRevert
  <2>1. phase = "reverse" /\ ~ NotSupplied(h, sum) /\ Reversed
        BY <1>2, <1>7 DEF SelectRevert
  <2>2. order' = order /\ count' = count
        BY Zenon, <1>7 DEF SelectRevert
  <2>3. /\ Len(order) \in Nat /\ count \in 0..Len(order)
        /\ i \in Int /\ i <= Len(order) /\ Len(order) - count <= i
        /\ \A p \in 1..Len(order) : order[p] \in IDs
    <3>1. Lists(order, Recorded(h)) /\ count \in 0..Len(order) /\ i \in (Len(order) - count)..Len(order)
          BY Zenon, <2>1 DEF Reversed
    <3> QED BY <3>1, ListsOrder
  <2>4. CASE i <= Len(order) - count
    <3>1. phase' = "ok" /\ i' = i /\ sel' = sel
          BY Zenon, <1>7, <2>4 DEF SelectRevert
    <3>2. Reversed'
          BY <1>1, <2>1, <2>2, <3>1 DEF Reversed
    <3>3. i' = Len(order') - count'
          BY <2>2, <2>3, <2>4, <3>1
    <3> QED BY <1>1, <2>1, <3>1, <3>2, <3>3 DEF RevertInv
  <2>5. CASE ~ (i <= Len(order) - count)
    <3>1. i \in 1..Len(order) /\ i \in (Len(order) - count + 1)..Len(order)
          BY <2>3, <2>5
    <3>2. order[i] \in selectReverts(h, t)
          BY Zenon, <2>1, <3>1 DEF Reversed, selectReverts
    <3>3. CASE h[order[i]] # sum[order[i]] \/ down[order[i]] = 0
      <4>1. phase' = "refused"
            BY <1>7, <2>5, <3>3 DEF SelectRevert
      <4>2. RevertRefused(h, sum, down, t)
            BY Zenon, <3>2, <3>3 DEF RevertRefused
      <4> QED BY <1>1, <4>1, <4>2 DEF RevertInv
    <3>4. CASE ~ (h[order[i]] # sum[order[i]] \/ down[order[i]] = 0)
      <4>1. phase' = phase /\ i' = i - 1 /\ sel' = Append(sel, order[i])
            BY Zenon, <1>7, <2>5, <3>4 DEF SelectRevert
      <4>2. sel \in Seq(IDs) /\ Len(sel) = Len(order) - i /\ order[i] \in IDs
            BY Zenon, <2>1, <2>3, <3>1 DEF Reversed
      <4>3. /\ sel' \in Seq(IDs) /\ Len(sel') = Len(sel) + 1
            /\ sel'[Len(sel) + 1] = order[i] /\ \A p \in 1..Len(sel) : sel'[p] = sel[p]
            BY <4>1, <4>2
      <4>4. i' \in (Len(order) - count)..Len(order) /\ Len(sel') = Len(order) - i'
            BY <2>3, <2>5, <4>1, <4>2, <4>3
      <4>5. ASSUME NEW p \in 1..Len(sel')
            PROVE  /\ sel'[p] = order[Len(order) + 1 - p]
                   /\ h[sel'[p]] = sum[sel'[p]] /\ down[sel'[p]] # 0
        <5>1. p \in 1..Len(sel) \/ (p = Len(sel) + 1 /\ Len(order) + 1 - p = i)
              BY <2>3, <4>2, <4>3
        <5>2. CASE p \in 1..Len(sel)
              BY Zenon, <2>1, <4>3, <5>2 DEF Reversed
        <5>3. CASE p = Len(sel) + 1 /\ Len(order) + 1 - p = i
          <6>1. sel'[p] = order[i] /\ order[Len(order) + 1 - p] = order[i]
                BY Zenon, <4>3, <5>3
          <6> QED BY Zenon, <3>4, <6>1
        <5> QED BY Zenon, <5>1, <5>2, <5>3
      <4>6. Reversed'
            BY <1>1, <2>1, <2>2, <4>3, <4>4, <4>5 DEF Reversed
      <4> QED BY <1>1, <2>1, <4>1, <4>6 DEF RevertInv
    <3> QED BY Zenon, <3>3, <3>4
  <2> QED BY Zenon, <2>4, <2>5
<1> QED BY Zenon, <1>3, <1>4, <1>5, <1>6, <1>7

-----------------------------------------------------------------------------
(* statusEntries.                                                          *)

LEMMA ReportsEmpty == Reports(h, sum, <<>>, {})
BY DEF Reports

LEMMA ReportsAppend ==
    ASSUME NEW s, NEW S, NEW x \in IDs, NEW state \in States, Reports(h, sum, s, S), x \notin S,
           state = statusOf(h, sum, x),
           state = "unknown" => \A p \in DOMAIN s : s[p].state = "unknown"
    PROVE  Reports(h, sum, Append(s, Entry(x, state)), S \cup {x})
<1> DEFINE e == Entry(x, state)
           u == Append(s, e)
           E == [id : IDs, state : States]
<1>1. e \in E /\ e.id = x /\ e.state = state
      BY DEF Entry
<1>2. s \in Seq(E) /\ Len(s) \in Nat /\ DOMAIN s = 1..Len(s)
      BY DEF Reports
<1> HIDE DEF e, E
<1>3. /\ u \in Seq(E) /\ DOMAIN u = 1..(Len(s) + 1)
      /\ u[Len(s) + 1] = e /\ \A p \in 1..Len(s) : u[p] = s[p]
      BY <1>1, <1>2
<1> HIDE DEF u
<1>4. \A p \in 1..(Len(s) + 1) : p \in 1..Len(s) \/ p = Len(s) + 1
      BY <1>2
<1>5. \A p \in 1..Len(s) : p \in 1..(Len(s) + 1)
      BY <1>2
<1>6. Len(s) + 1 \in 1..(Len(s) + 1)
      BY <1>2
<1>7. {s[p].id : p \in 1..Len(s)} = S
      BY Zenon, <1>2 DEF Reports
<1>8. {u[p].id : p \in DOMAIN u} = S \cup {x}
  <2>1. ASSUME NEW p \in 1..(Len(s) + 1) PROVE u[p].id \in S \cup {x}
        BY Zenon, <1>1, <1>3, <1>4, <1>7
  <2>2. ASSUME NEW y \in S \cup {x} PROVE \E p \in 1..(Len(s) + 1) : y = u[p].id
        BY Zenon, <1>1, <1>3, <1>5, <1>6, <1>7
  <2>3. \A y \in {u[p].id : p \in DOMAIN u} : y \in S \cup {x}
        BY Zenon, <1>3, <2>1
  <2>4. \A y \in S \cup {x} : y \in {u[p].id : p \in DOMAIN u}
        BY Zenon, <1>3, <2>2
  <2> QED BY Zenon, <2>3, <2>4
<1>9. \A p \in DOMAIN u : u[p].state = statusOf(h, sum, u[p].id)
      BY Zenon, <1>1, <1>2, <1>3, <1>4 DEF Reports
<1>10. ASSUME NEW p \in DOMAIN u, NEW r \in DOMAIN u, p < r
       PROVE  u[p].id # u[r].id /\ (u[r].state = "unknown" => u[p].state = "unknown")
  <2>1. p \in 1..Len(s) /\ (r \in 1..Len(s) \/ r = Len(s) + 1)
        BY <1>2, <1>3, <1>10
  <2>2. CASE r \in 1..Len(s)
        BY Zenon, <1>2, <1>3, <1>10, <2>1, <2>2 DEF Reports
  <2>3. CASE r = Len(s) + 1
        BY Zenon, <1>1, <1>2, <1>3, <1>7, <2>1, <2>3
  <2> QED BY Zenon, <2>1, <2>2, <2>3
<1> QED BY Zenon, <1>3, <1>8, <1>9, <1>10 DEF Reports, e, u, E

LEMMA StatusStep ==
    ASSUME LoopInv, Next, op = "status"
    PROVE  StatusInv'
<1>1. op' = op /\ h' = h /\ sum' = sum
      BY Zenon, KeepInputs, Same DEF LoopInv
<1>2. /\ phase \in {"check", "unknown", "report", "ok"}
      /\ phase \in {"check", "unknown"} => pending = FALSE
      /\ phase = "check" => i = 1 /\ entries = <<>>
      /\ phase = "unknown" => i \in 1..N /\ Reports(h, sum, entries, Strange(h, sum, i))
      /\ phase \in {"report", "ok"} =>
            /\ i \in 1..(N + 1) /\ (pending <=> Pend(h, sum, i))
            /\ Reports(h, sum, entries, Strange(h, sum, N + 1) \cup Known(sum, i))
      /\ phase = "report" => i <= N
      BY Zenon DEF LoopInv, StatusInv
<1>3. CheckSupplied \/ StatusUnknown \/ StatusSupplied
      BY Zenon, <1>2 DEF Next, ApplyLimit, SelectApply, CollectApplied, RevertCount, SelectRevert
<1>4. CASE CheckSupplied
  <2>1. phase = "check" /\ phase' = "unknown" /\ i' = 1 /\ pending' = FALSE /\ entries' = <<>>
        BY <1>2, <1>4 DEF CheckSupplied
  <2>2. Strange(h, sum, 1) = {} /\ i' \in 1..N
        BY <2>1, Positions DEF Strange
  <2>3. Reports(h, sum, entries', Strange(h, sum, 1))
        BY Zenon, <2>1, <2>2, ReportsEmpty
  <2>4. Reports(h, sum, entries, Strange(h, sum, i))'
        BY Zenon, <1>1, <2>1, <2>3
  <2> QED BY <1>1, <2>1, <2>2, <2>4 DEF StatusInv
<1>5. CASE StatusUnknown
  <2>1. /\ phase = "unknown" /\ i \in IDs /\ Reports(h, sum, entries, Strange(h, sum, i)) /\ pending' = FALSE
        /\ entries' = IF h[i] # 0 /\ sum[i] = 0 THEN Append(entries, Entry(i, "unknown")) ELSE entries
        /\ IF i = N THEN phase' = "report" /\ i' = 1 ELSE phase' = phase /\ i' = i + 1
        BY <1>2, <1>5, Positions DEF StatusUnknown
  <2>2. Reports(h, sum, entries', Strange(h, sum, i + 1))
    <3>1. \A m \in IDs : m < i + 1 <=> (m < i \/ m = i)
          BY <2>1, Positions
    <3>2. CASE h[i] # 0 /\ sum[i] = 0
      <4>1. Strange(h, sum, i + 1) = Strange(h, sum, i) \cup {i} /\ i \notin Strange(h, sum, i)
        <5>1. ~ (i < i)
              BY <2>1, Positions
        <5> QED BY Zenon, <2>1, <3>1, <3>2, <5>1 DEF Strange
      <4>2. "unknown" \in States /\ statusOf(h, sum, i) = "unknown"
            BY <3>2 DEF States, statusOf
      <4>3. \A p \in DOMAIN entries : entries[p].state = "unknown"
        <5>1. \A p \in DOMAIN entries : entries[p].id \in Strange(h, sum, i)
              BY Zenon, <2>1 DEF Reports
        <5>2. \A m \in Strange(h, sum, i) : statusOf(h, sum, m) = "unknown"
              BY Zenon DEF Strange, statusOf
        <5> QED BY Zenon, <2>1, <5>1, <5>2 DEF Reports
      <4>4. Reports(h, sum, Append(entries, Entry(i, "unknown")), Strange(h, sum, i) \cup {i})
            BY Zenon, <2>1, <4>1, <4>2, <4>3, ReportsAppend
      <4> QED BY Zenon, <2>1, <3>2, <4>1, <4>4
    <3>3. CASE ~ (h[i] # 0 /\ sum[i] = 0)
      <4>1. Strange(h, sum, i + 1) = Strange(h, sum, i)
            BY Zenon, <2>1, <3>1, <3>3 DEF Strange
      <4> QED BY Zenon, <2>1, <3>3, <4>1
    <3> QED BY Zenon, <3>2, <3>3
  <2>3. CASE i = N
    <3>1. phase' = "report" /\ i' = 1
          BY <2>1, <2>3
    <3>2. Known(sum, 1) = {} /\ i' \in 1..(N + 1) /\ i' <= N
          BY <3>1, Positions DEF Known
    <3>3. Reports(h, sum, entries', Strange(h, sum, N + 1) \cup Known(sum, 1))
          BY <2>2, <2>3, <3>2
    <3>4. Reports(h, sum, entries, Strange(h, sum, N + 1) \cup Known(sum, i))'
          BY Zenon, <1>1, <3>1, <3>3
    <3>5. pending' <=> Pend(h, sum, i)'
          BY Zenon, <1>1, <2>1, <3>1, NothingBefore
    <3> QED BY <1>1, <3>1, <3>2, <3>4, <3>5 DEF StatusInv
  <2>4. CASE i # N
    <3>1. phase' = "unknown" /\ i' = i + 1
          BY <2>1, <2>4
    <3>2. i' \in 1..N
          BY <2>1, <2>4, <3>1, Positions
    <3>3. Reports(h, sum, entries, Strange(h, sum, i))'
          BY Zenon, <1>1, <2>2, <3>1
    <3> QED BY <1>1, <2>1, <3>1, <3>2, <3>3 DEF StatusInv
  <2> QED BY Zenon, <2>3, <2>4
<1>6. CASE StatusSupplied
  <2> DEFINE state == IF h[i] = 0 THEN "pending" ELSE IF h[i] # sum[i] THEN "changed"
                      ELSE IF pending THEN "out_of_order" ELSE "applied"
             all == Strange(h, sum, N + 1)
  <2>1. /\ phase = "report" /\ i \in IDs /\ (pending <=> Pend(h, sum, i))
        /\ Reports(h, sum, entries, all \cup Known(sum, i))
        /\ i' = i + 1 /\ phase' = IF i = N THEN "ok" ELSE phase
        /\ pending' = (pending \/ (sum[i] # 0 /\ h[i] = 0))
        BY <1>2, <1>6, Positions DEF StatusSupplied, Advance
  <2>2. entries' = IF sum[i] = 0 THEN entries ELSE Append(entries, Entry(i, state))
    <3>1. CASE sum[i] = 0
          BY <1>6, <3>1 DEF StatusSupplied
    <3>2. CASE sum[i] # 0 /\ h[i] = 0
          BY <1>6, <3>2 DEF StatusSupplied
    <3>3. CASE sum[i] # 0 /\ h[i] # 0 /\ h[i] # sum[i]
          BY <1>6, <3>3 DEF StatusSupplied
    <3>4. CASE sum[i] # 0 /\ h[i] # 0 /\ h[i] = sum[i]
          BY <1>6, <3>4 DEF StatusSupplied
    <3> QED BY Zenon, <3>1, <3>2, <3>3, <3>4
  <2>3. pending' <=> Pend(h, sum, i + 1)
        BY Zenon, <2>1, PendMore
  <2>4. \A m \in IDs : m < i + 1 <=> (m < i \/ m = i)
        BY <2>1, Positions
  <2>5. Reports(h, sum, entries', all \cup Known(sum, i + 1))
    <3>1. CASE sum[i] = 0
      <4>1. Known(sum, i + 1) = Known(sum, i)
            BY Zenon, <2>1, <2>4, <3>1 DEF Known
      <4> QED BY Zenon, <2>1, <2>2, <3>1, <4>1
    <3>2. CASE sum[i] # 0
      <4>1. all \cup Known(sum, i + 1) = (all \cup Known(sum, i)) \cup {i} /\ i \notin all \cup Known(sum, i)
        <5>1. ~ (i < i) /\ i < i + 1
              BY <2>1, Positions
        <5>2. Known(sum, i + 1) = Known(sum, i) \cup {i}
              BY Zenon, <2>1, <2>4, <3>2 DEF Known
        <5>3. i \notin all /\ i \notin Known(sum, i)
              BY Zenon, <3>2, <5>1 DEF Strange, Known
        <5> HIDE DEF all
        <5> QED BY Zenon, <5>2, <5>3
      <4>2. state \in States /\ state # "unknown"
            BY DEF States
      <4>3. state = statusOf(h, sum, i)
            BY <2>1, <3>2 DEF statusOf, Pend
      <4> HIDE DEF state, all
      <4>4. Reports(h, sum, Append(entries, Entry(i, state)), (all \cup Known(sum, i)) \cup {i})
            BY Zenon, <2>1, <4>1, <4>2, <4>3, ReportsAppend
      <4> QED BY Zenon, <2>2, <3>2, <4>1, <4>4
    <3> QED BY Zenon, <3>1, <3>2
  <2>6. i' \in 1..(N + 1) /\ (phase' = "report" => i' <= N) /\ (phase' = "ok" => i' = N + 1)
        BY <2>1, Positions
  <2>7. /\ Reports(h, sum, entries, Strange(h, sum, N + 1) \cup Known(sum, i))'
        /\ (pending' <=> Pend(h, sum, i)')
        BY Zenon, <1>1, <2>1, <2>3, <2>5
  <2>8. phase' \in {"report", "ok"}
        BY <2>1
  <2> QED BY <1>1, <2>6, <2>7, <2>8 DEF StatusInv
<1> QED BY Zenon, <1>3, <1>4, <1>5, <1>6

-----------------------------------------------------------------------------
(* The induction, and the theorems.                                        *)

LEMMA InitLoops == Init => LoopInv
<1> SUFFICES ASSUME Init PROVE LoopInv
    OBVIOUS
<1>1. /\ op \in {"apply", "revert", "status"} /\ h \in [IDs -> 0..MaxSum] /\ sum \in [IDs -> 0..MaxSum]
      /\ phase = "check" /\ i = 1 /\ pending = FALSE /\ order = <<>> /\ sel = <<>> /\ entries = <<>>
      BY DEF Init
<1>2. down \in [IDs -> 0..1]
  <2>1. [m \in IDs |-> 0] \in [IDs -> 0..1]
        OBVIOUS
  <2> QED BY <2>1 DEF Init
<1>3. op = "apply" => t \in ApplyTargets
      BY DEF Init
<1>4. op = "revert" => t \in RevertTargets
      BY DEF Init
<1> QED BY <1>1, <1>2, <1>3, <1>4 DEF LoopInv, InputsOK, ApplyInv, RevertInv, StatusInv

LEMMA NextLoops == LoopInv /\ [Next]_vars => LoopInv'
<1> SUFFICES ASSUME LoopInv, [Next]_vars PROVE LoopInv'
    OBVIOUS
<1>1. CASE Next
  <2>1. InputsOK' /\ op' = op /\ op \in {"apply", "revert", "status"}
        BY Zenon, <1>1, KeepInputs, Same DEF LoopInv, InputsOK
  <2>2. ApplyInv'
        BY Zenon, <1>1, <2>1, ApplyStep DEF ApplyInv
  <2>3. RevertInv'
        BY Zenon, <1>1, <2>1, RevertStep DEF RevertInv
  <2>4. StatusInv'
        BY Zenon, <1>1, <2>1, StatusStep DEF StatusInv
  <2> QED BY Zenon, <2>1, <2>2, <2>3, <2>4 DEF LoopInv
<1>2. CASE UNCHANGED vars
  <2>1. /\ op' = op /\ h' = h /\ sum' = sum /\ down' = down /\ t' = t /\ phase' = phase /\ i' = i
        /\ pending' = pending /\ order' = order /\ count' = count /\ sel' = sel /\ entries' = entries
        BY Zenon, <1>2 DEF vars
  <2>2. (ApplyLoop' <=> ApplyLoop) /\ (Collected' <=> Collected) /\ (Reversed' <=> Reversed)
    <3>1. ApplyLoop' <=> ApplyLoop
          BY <2>1 DEF ApplyLoop
    <3>2. Collected' <=> Collected
          BY <2>1 DEF Collected
    <3>3. Reversed' <=> Reversed
          BY <2>1 DEF Reversed
    <3> QED BY Zenon, <3>1, <3>2, <3>3
  <2>3. InputsOK'
        BY <2>1 DEF LoopInv, InputsOK
  <2>4. ApplyInv'
        BY <2>1, <2>2 DEF LoopInv, ApplyInv
  <2>5. RevertInv'
        BY <2>1, <2>2 DEF LoopInv, RevertInv
  <2>6. StatusInv'
        BY <2>1 DEF LoopInv, StatusInv
  <2> QED BY Zenon, <2>3, <2>4, <2>5, <2>6 DEF LoopInv
<1> QED BY Zenon, <1>1, <1>2

LEMMA LoopsInductive == Spec => []LoopInv
BY InitLoops, NextLoops, PTL DEF Spec

\* What the revert loop has selected when it ends: the newest records, newest
\* first.
LEMMA RevertEnds ==
    ASSUME LoopInv, op = "revert", phase = "ok"
    PROVE  /\ sel \in Seq(IDs) /\ Elements(sel) = Newest(h, t) /\ Descending(sel)
           /\ \A m \in Elements(sel) : h[m] = sum[m] /\ down[m] # 0
           /\ \A m \in Elements(sel), k \in Recorded(h) : m < k => k \in Elements(sel)
<1>1. Reversed /\ i = Len(order) - count
      BY DEF LoopInv, RevertInv
<1>2. /\ Lists(order, Recorded(h)) /\ count \in 0..Len(order)
      /\ sel \in Seq(IDs) /\ Len(sel) = Len(order) - i
      /\ Newest(h, t) = {order[p] : p \in (Len(order) - count + 1)..Len(order)}
      /\ \A p \in 1..Len(sel) : /\ sel[p] = order[Len(order) + 1 - p]
                                /\ h[sel[p]] = sum[sel[p]] /\ down[sel[p]] # 0
      BY Zenon, <1>1 DEF Reversed
<1>3. /\ Len(order) \in Nat /\ \A p \in 1..Len(order) : order[p] \in Int
      /\ \A x \in Recorded(h) : \E p \in 1..Len(order) : order[p] = x
      /\ \A p, r \in 1..Len(order) : (p < r) <=> (order[p] < order[r])
  <2>1. Lists(order, Recorded(h))
        BY Zenon, <1>2
  <2> QED BY Zenon, <2>1, ListsOrder
<1>4. Len(sel) = count /\ DOMAIN sel = 1..count
      BY <1>1, <1>2, <1>3
<1>5. \A p \in 1..count : /\ Len(order) + 1 - p \in (Len(order) - count + 1)..Len(order)
                          /\ Len(order) + 1 - p \in 1..Len(order)
      BY <1>2, <1>3
<1>6. \A p \in (Len(order) - count + 1)..Len(order) :
          Len(order) + 1 - p \in 1..count /\ Len(order) + 1 - (Len(order) + 1 - p) = p
      BY <1>2, <1>3
<1>7. Elements(sel) = Newest(h, t)
  <2>1. ASSUME NEW p \in 1..count PROVE sel[p] \in Newest(h, t)
    <3>1. sel[p] = order[Len(order) + 1 - p]
          BY Zenon, <1>2, <1>4
    <3>2. order[Len(order) + 1 - p] \in {order[r] : r \in (Len(order) - count + 1)..Len(order)}
          BY Zenon, <1>5
    <3> QED BY Zenon, <1>2, <3>1, <3>2
  <2>2. ASSUME NEW p \in (Len(order) - count + 1)..Len(order) PROVE \E r \in 1..count : order[p] = sel[r]
    <3>1. sel[Len(order) + 1 - p] = order[p]
          BY Zenon, <1>2, <1>4, <1>6
    <3> QED BY Zenon, <1>6, <3>1
  <2>3. \A m \in Elements(sel) : m \in Newest(h, t)
        BY Zenon, <1>4, <2>1 DEF Elements
  <2>4. ASSUME NEW m \in Newest(h, t) PROVE m \in Elements(sel)
    <3>1. PICK p \in (Len(order) - count + 1)..Len(order) : m = order[p]
          BY Zenon, <1>2
    <3>2. PICK r \in 1..count : m = sel[r]
          BY Zenon, <2>2, <3>1
    <3> QED BY Zenon, <1>4, <3>2 DEF Elements
  <2> QED BY Zenon, <2>3, <2>4
<1>8. Descending(sel)
  <2> SUFFICES ASSUME NEW p \in 1..count, NEW r \in 1..count, p < r PROVE sel[p] > sel[r]
      BY Zenon, <1>4 DEF Descending
  <2>1. sel[p] = order[Len(order) + 1 - p] /\ sel[r] = order[Len(order) + 1 - r]
        BY Zenon, <1>2, <1>4
  <2>2. Len(order) + 1 - r < Len(order) + 1 - p
        BY <1>2, <1>3
  <2>3. order[Len(order) + 1 - r] < order[Len(order) + 1 - p]
        BY Zenon, <1>3, <1>5, <2>2
  <2>4. order[Len(order) + 1 - r] \in Int /\ order[Len(order) + 1 - p] \in Int
        BY Zenon, <1>3, <1>5
  <2> QED BY <2>1, <2>3, <2>4
<1>9. \A m \in Elements(sel) : h[m] = sum[m] /\ down[m] # 0
  <2>1. \A p \in 1..count : h[sel[p]] = sum[sel[p]] /\ down[sel[p]] # 0
        BY Zenon, <1>2, <1>4
  <2> QED BY Zenon, <1>4, <2>1 DEF Elements
<1>10. ASSUME NEW m \in Elements(sel), NEW k \in Recorded(h), m < k PROVE k \in Elements(sel)
  <2>1. PICK p \in (Len(order) - count + 1)..Len(order) : m = order[p]
    <3>1. m \in {order[p] : p \in (Len(order) - count + 1)..Len(order)}
          BY Zenon, <1>2, <1>7
    <3> QED BY Zenon, <3>1
  <2>2. PICK r \in 1..Len(order) : order[r] = k
        BY Zenon, <1>3
  <2>3. p \in 1..Len(order)
        BY <1>2, <1>3
  <2>4. p < r
        BY Zenon, <1>3, <1>10, <2>1, <2>2, <2>3
  <2>5. r \in (Len(order) - count + 1)..Len(order)
        BY <1>2, <1>3, <2>4
  <2> QED BY Zenon, <1>2, <1>7, <2>2, <2>5
<1> QED BY Zenon, <1>2, <1>7, <1>8, <1>9, <1>10

\* selectApplies, selectReverts and statusEntries decide what MigrateSelect says,
\* for every history, supplied set and target: which calls are refused, which
\* migrations are selected, in which order, and what Status reports of each.
\* Migrate may therefore use the sets for the loops.
THEOREM LoopsComputeSets == Spec => []LoopsAgree
<1>1. ASSUME LoopInv, op = "apply" PROVE LoopsAgree
  <2>1. phase = "refused" => ApplyRefused(h, sum, t)
        BY <1>1 DEF LoopInv, ApplyInv
  <2>2. ASSUME phase = "ok"
        PROVE  /\ ~ ApplyRefused(h, sum, t)
               /\ Elements(sel) = selectApplies(h, sum, t) /\ Ascending(sel)
    <3>1. ApplyLoop /\ i = N + 1 /\ ~ NotSupplied(h, sum)
          BY <1>1, <2>2 DEF LoopInv, ApplyInv
    <3>2. ~ Gap(h, sum)
          BY Zenon, <3>1, NoGap DEF ApplyLoop
    <3>3. \A m \in IDs : sum[m] # 0 => h[m] \in {0, sum[m]}
          BY Zenon, <3>1, AllBefore DEF ApplyLoop, Unchanged
    <3>4. t.kind = "through" => sum[t.n] # 0
          BY Zenon, <3>1 DEF ApplyLoop
    <3>5. ~ ApplyRefused(h, sum, t)
          BY Zenon, <3>1, <3>2, <3>3, <3>4 DEF ApplyRefused
    <3>6. \A m \in IDs : m <= count <=> (t.kind = "through" => m <= t.n)
      <4>1. count = IF t.kind = "through" THEN t.n ELSE N
            BY Zenon, <3>1 DEF ApplyLoop
      <4> QED BY <4>1, Positions
    <3>7. {m \in IDs : m < i /\ sum[m] # 0 /\ h[m] = 0 /\ m <= count} = selectApplies(h, sum, t)
          BY Zenon, <3>1, <3>6, AllBefore DEF selectApplies, Reached
    <3> QED BY Zenon, <3>1, <3>5, <3>7 DEF ApplyLoop, Lists
  <2> QED BY <1>1, <2>1, <2>2 DEF LoopsAgree
<1>2. ASSUME LoopInv, op = "revert" PROVE LoopsAgree
  <2>1. phase = "refused" => RevertRefused(h, sum, down, t)
        BY <1>2 DEF LoopInv, RevertInv
  <2>2. ASSUME phase = "ok"
        PROVE  /\ ~ RevertRefused(h, sum, down, t)
               /\ Elements(sel) = selectReverts(h, t) /\ Descending(sel)
    <3>1. Reversed /\ ~ NotSupplied(h, sum)
          BY <1>2, <2>2 DEF LoopInv, RevertInv
    <3>2. /\ Elements(sel) = selectReverts(h, t) /\ Descending(sel)
          /\ \A m \in selectReverts(h, t) : h[m] = sum[m] /\ down[m] # 0
          BY Zenon, <1>2, <2>2, RevertEnds DEF selectReverts
    <3> QED BY Zenon, <3>1, <3>2 DEF Reversed, RevertRefused
  <2> QED BY <1>2, <2>1, <2>2 DEF LoopsAgree
<1>3. ASSUME LoopInv, op = "status" PROVE LoopsAgree
  <2> SUFFICES ASSUME phase = "ok"
               PROVE  /\ {e.id : e \in Elements(entries)} = {m \in IDs : sum[m] # 0 \/ h[m] # 0}
                      /\ Cardinality({e.id : e \in Elements(entries)}) = Len(entries)
                      /\ \A e \in Elements(entries) : e.state = statusOf(h, sum, e.id)
                      /\ \A p, r \in DOMAIN entries :
                            p < r /\ entries[r].state = "unknown" => entries[p].state = "unknown"
      BY <1>3 DEF LoopsAgree
  <2> DEFINE S == {m \in IDs : sum[m] # 0 \/ h[m] # 0}
             f == [p \in 1..Len(entries) |-> entries[p].id]
  <2>1. Reports(h, sum, entries, Strange(h, sum, N + 1) \cup Known(sum, N + 1))
        BY <1>3 DEF LoopInv, StatusInv
  <2>2. Strange(h, sum, N + 1) \cup Known(sum, N + 1) = S
        BY Zenon, AllBefore DEF Strange, Known
  <2> HIDE DEF S
  <2>3. Len(entries) \in Nat /\ DOMAIN entries = 1..Len(entries)
        BY <2>1 DEF Reports
  <2>4. {entries[p].id : p \in DOMAIN entries} = S
        BY Zenon, <2>1, <2>2 DEF Reports
  <2>5. {e.id : e \in Elements(entries)} = S
        BY Zenon, <2>4 DEF Elements
  <2>6. f \in [1..Len(entries) -> S] /\ \A x \in S : \E p \in 1..Len(entries) : f[p] = x
        BY <2>3, <2>4
  <2>7. ASSUME NEW p \in 1..Len(entries), NEW r \in 1..Len(entries), f[p] = f[r] PROVE p = r
    <3>1. entries[p].id = entries[r].id
          BY <2>7
    <3>2. ~ (p < r) /\ ~ (r < p)
          BY Zenon, <2>1, <2>3, <3>1 DEF Reports
    <3> QED BY <2>3, <3>2
  <2> HIDE DEF f
  <2>8. Cardinality(S) = Len(entries)
    <3> DEFINE n == Len(entries)
    <3>1. f \in [1..n -> S] /\ n \in Nat /\ \A x \in S : \E p \in 1..n : f[p] = x
          BY Zenon, <2>3, <2>6
    <3>2. \A p, r \in 1..n : f[p] = f[r] => p = r
          BY Zenon, <2>7
    <3> HIDE DEF n
    <3>3. Cardinality(S) = n
          BY <3>1, <3>2, Counted
    <3> QED BY Zenon, <3>3 DEF n
  <2>9. \A e \in Elements(entries) : e.state = statusOf(h, sum, e.id)
        BY Zenon, <2>1 DEF Reports, Elements
  <2>10. \A p, r \in DOMAIN entries :
            p < r /\ entries[r].state = "unknown" => entries[p].state = "unknown"
         BY Zenon, <2>1 DEF Reports
  <2> QED BY Zenon, <2>5, <2>8, <2>9, <2>10 DEF S
<1>4. LoopInv => LoopsAgree
      BY <1>1, <1>2, <1>3 DEF LoopInv, InputsOK
<1> QED BY <1>4, LoopsInductive, PTL

\* What Revert selected is what Apply, asked to go through the newest of it, would
\* then select, and Apply accepts the history that Revert leaves, for every
\* history, supplied set and target.
THEOREM RevertedIsReapplied == Spec => []RevertThenApply
<1>1. ASSUME LoopInv, op = "revert", phase = "ok", sel # <<>> PROVE RevertThenApply
  <2> DEFINE gone == Elements(sel)
             rest == [m \in IDs |-> IF m \in gone THEN 0 ELSE h[m]]
             back == [kind |-> "through", n |-> sel[1]]
  <2>1. ~ NotSupplied(h, sum) /\ ~ Gap(h, sum)
        BY <1>1 DEF LoopInv, RevertInv, Reversed
  <2>2. /\ sel \in Seq(IDs) /\ Descending(sel) /\ gone = Newest(h, t)
        /\ \A m \in gone, k \in Recorded(h) : m < k => k \in gone
        BY Zenon, <1>1, RevertEnds
  <2>3. 1 \in DOMAIN sel /\ \A p \in DOMAIN sel : p = 1 \/ 1 < p
        BY <1>1, <2>2
  <2>4. sel[1] \in gone /\ \A m \in gone : m = sel[1] \/ sel[1] > m
        BY Zenon, <2>2, <2>3 DEF Elements, Descending
  <2>5. \A m \in gone : m \in IDs /\ h[m] # 0 /\ sum[m] # 0
        BY Zenon, <2>1, <2>2 DEF Newest, Recorded, NotSupplied
  <2>6. \A m \in gone : m <= sel[1]
        BY <2>4, <2>5, Positions
  <2> DEFINE top == sel[1]
  <2>7. top \in IDs /\ h[top] # 0 /\ sum[top] # 0
        BY Zenon, <2>4, <2>5
  <2>8. back.kind = "through" /\ back.n = top
        OBVIOUS
  <2>9. \A m \in IDs : rest[m] = IF m \in gone THEN 0 ELSE h[m]
        OBVIOUS
  <2>10. ASSUME \A m \in IDs : rest[m] \in {0, sum[m]} PROVE ~ ApplyRefused(rest, sum, back)
    <3> HIDE DEF gone, back, top, rest
    <3>1. ~ NotSupplied(rest, sum)
          BY Zenon, <2>1, <2>9 DEF NotSupplied
    <3>2. ASSUME NEW m \in IDs, NEW k \in IDs, m < k, sum[m] # 0, rest[m] = 0, rest[k] # 0 PROVE FALSE
      <4>1. k \notin gone /\ h[k] # 0
            BY Zenon, <2>9, <3>2
      <4>2. m \notin gone
            BY Zenon, <2>2, <3>2, <4>1 DEF Recorded
      <4>3. h[m] = 0
            BY Zenon, <2>9, <3>2, <4>2
      <4> QED BY Zenon, <2>1, <3>2, <4>1, <4>3 DEF Gap
    <3>3. ~ Gap(rest, sum)
          BY Zenon, <3>2 DEF Gap
    <3> QED BY Zenon, <2>7, <2>8, <2>10, <3>1, <3>3 DEF ApplyRefused
  <2>11. selectApplies(rest, sum, back) = gone
    <3>1. ASSUME NEW m \in gone PROVE m \in selectApplies(rest, sum, back)
      <4> HIDE DEF gone, rest, back, top
      <4>1. m \in IDs /\ sum[m] # 0 /\ rest[m] = 0
            BY Zenon, <2>5, <2>9
      <4>2. m <= top
            BY Zenon, <2>6 DEF top
      <4> QED BY Zenon, <2>8, <4>1, <4>2 DEF selectApplies, Reached
    <3>2. ASSUME NEW m \in IDs, sum[m] # 0, rest[m] = 0, m <= top, m \notin gone PROVE FALSE
      <4>1. h[m] = 0
            BY Zenon, <2>9, <3>2
      <4>2. m # top
            BY Zenon, <2>7, <4>1
      <4> HIDE DEF top
      <4>3. m < top
        <5>1. m \in Int /\ top \in Int
              BY <2>7, Positions
        <5> QED BY <3>2, <4>2, <5>1
      <4> QED BY Zenon, <2>1, <2>7, <3>2, <4>1, <4>3 DEF Gap
    <3> HIDE DEF gone, rest, back, top
    <3> QED BY Zenon, <2>8, <3>1, <3>2 DEF selectApplies, Reached
  <2> QED BY Zenon, <2>10, <2>11 DEF RevertThenApply
<1>2. LoopInv => RevertThenApply
      BY <1>1 DEF RevertThenApply
<1> QED BY <1>2, LoopsInductive, PTL
=============================================================================
