------------------------- MODULE MigrateSelectLoop -------------------------
(***************************************************************************)
(* selectApplies, selectReverts and statusEntries as the loops the code    *)
(* runs, one iteration per step, over the supplied migrations in ID order. *)
(* MigrateSelect gives the same decisions as sets; the properties here say *)
(* that the loops compute them, in the order the runner then executes.     *)
(***************************************************************************)
EXTENDS MigrateSelect, Sequences

CONSTANT MaxSum \* the largest checksum: two differ when the sources were edited

ASSUME MaxSumAssumption == MaxSum \in Nat

VARIABLES
    op,      \* "apply", "revert" or "status"
    h,       \* the history as applied() read it
    sum,     \* the checksums of the supplied migrations
    down,    \* the number of reverse sources of each
    t,       \* the target
    phase,   \* which loop runs; "ok" and "refused" are the two returns
    i,       \* the loop index
    pending, \* the loops' flag of the same name
    order,   \* appliedInOrder
    count,   \* what revertCount returned
    sel,     \* selected
    entries  \* the status entries appended so far

inputs == <<op, h, sum, down, t>>
vars == <<op, h, sum, down, t, phase, i, pending, order, count, sel, entries>>

Init ==
    /\ op \in {"apply", "revert", "status"}
    /\ h \in [IDs -> 0..MaxSum]
    /\ sum \in [IDs -> 0..MaxSum]
    /\ down \in (IF op = "revert" THEN [IDs -> 0..1] ELSE {[m \in IDs |-> 0]})
    /\ t \in (CASE op = "apply" -> ApplyTargets
                [] op = "revert" -> RevertTargets
                [] op = "status" -> {[kind |-> "nothing", n |-> 0]})
    /\ phase = "check"
    /\ i = 1
    /\ pending = FALSE
    /\ order = <<>>
    /\ count = 0
    /\ sel = <<>>
    /\ entries = <<>>

\* The scan of the history for IDs that were not supplied.  It refuses an
\* apply or a revert; Status reports them first, in ID order.
CheckSupplied ==
    /\ phase = "check"
    /\ IF op = "status"
       THEN /\ phase' = "unknown"
       ELSE /\ phase' = IF NotSupplied(h, sum) THEN "refused"
                        ELSE IF op = "apply" THEN "limit" ELSE "collect"
    /\ UNCHANGED <<inputs, i, pending, order, count, sel, entries>>

\* applyLimit: sort.Search for the target among the supplied IDs.
ApplyLimit ==
    /\ phase = "limit"
    /\ IF t.kind = "through" /\ sum[t.n] = 0
       THEN phase' = "refused" /\ UNCHANGED count
       ELSE /\ phase' = "select"
            /\ count' = IF t.kind = "through" THEN t.n ELSE N
    /\ UNCHANGED <<inputs, i, pending, order, sel, entries>>

Advance(last) == phase' = (IF i = N THEN last ELSE phase) /\ i' = i + 1

\* Mutant: a record after a pending migration is accepted.
SelectApplyGap ==
    /\ phase = "select" /\ i <= N
    /\ IF sum[i] # 0 /\ h[i] # 0 /\ h[i] # sum[i]
       THEN phase' = "refused" /\ UNCHANGED <<i, pending, sel>>
       ELSE /\ Advance("ok")
            /\ pending' = (pending \/ (sum[i] # 0 /\ h[i] = 0))
            /\ sel' = IF sum[i] # 0 /\ h[i] = 0 /\ i <= count THEN Append(sel, i) ELSE sel
    /\ UNCHANGED <<inputs, order, count, entries>>

\* One iteration of selectApplies' loop; a position that was not supplied is
\* not an iteration of the code's.
SelectApply ==
    /\ phase = "select" /\ i <= N
    /\ IF sum[i] # 0 /\ h[i] # 0 /\ (h[i] # sum[i] \/ pending)
       THEN phase' = "refused" /\ UNCHANGED <<i, pending, sel>>
       ELSE /\ Advance("ok")
            /\ pending' = (pending \/ (sum[i] # 0 /\ h[i] = 0))
            /\ sel' = IF sum[i] # 0 /\ h[i] = 0 /\ i <= count THEN Append(sel, i) ELSE sel
    /\ UNCHANGED <<inputs, order, count, entries>>

\* One iteration of selectReverts' first loop, which collects appliedInOrder.
CollectApplied ==
    /\ phase = "collect" /\ i <= N
    /\ IF sum[i] # 0 /\ h[i] # 0 /\ pending
       THEN phase' = "refused" /\ UNCHANGED <<i, pending, order>>
       ELSE /\ Advance("count")
            /\ pending' = (pending \/ (sum[i] # 0 /\ h[i] = 0))
            /\ order' = IF sum[i] # 0 /\ h[i] # 0 THEN Append(order, i) ELSE order
    /\ UNCHANGED <<inputs, count, sel, entries>>

\* revertCount, then the second loop's index = len(appliedInOrder) - 1.
RevertCount ==
    /\ phase = "count"
    /\ LET found == {p \in 1..Len(order) : order[p] >= t.n}
           first == CHOOSE p \in found : \A q \in found : p <= q
       IN  CASE t.kind = "through" /\ (found = {} \/ order[first] # t.n) ->
                   phase' = "refused" /\ UNCHANGED count
             [] t.kind = "through" /\ found # {} /\ order[first] = t.n ->
                   phase' = "reverse" /\ count' = Len(order) - first
             [] t.kind = "steps" /\ (t.n <= 0 \/ t.n > Len(order)) ->
                   phase' = "refused" /\ UNCHANGED count
             [] t.kind = "steps" /\ t.n > 0 /\ t.n <= Len(order) ->
                   phase' = "reverse" /\ count' = t.n
             [] t.kind = "nothing" -> phase' = "refused" /\ UNCHANGED count
    /\ i' = Len(order)
    /\ UNCHANGED <<inputs, pending, order, sel, entries>>

\* Mutant: the loop selects the oldest migrations.
SelectRevertOldest ==
    /\ phase = "reverse"
    /\ IF i <= Len(order) - count
       THEN phase' = "ok" /\ UNCHANGED <<i, sel>>
       ELSE LET m == order[Len(order) + 1 - i]
            IN  IF h[m] # sum[m] \/ down[m] = 0
                THEN phase' = "refused" /\ UNCHANGED <<i, sel>>
                ELSE phase' = phase /\ i' = i - 1 /\ sel' = Append(sel, m)
    /\ UNCHANGED <<inputs, pending, order, count, entries>>

\* One iteration of the second loop, newest first, or its end.
SelectRevert ==
    /\ phase = "reverse"
    /\ IF i <= Len(order) - count
       THEN phase' = "ok" /\ UNCHANGED <<i, sel>>
       ELSE LET m == order[i]
            IN  IF h[m] # sum[m] \/ down[m] = 0
                THEN phase' = "refused" /\ UNCHANGED <<i, sel>>
                ELSE phase' = phase /\ i' = i - 1 /\ sel' = Append(sel, m)
    /\ UNCHANGED <<inputs, pending, order, count, entries>>

Entry(m, state) == [id |-> m, state |-> state]

\* statusEntries' first loop: the recorded IDs that were not supplied.
StatusUnknown ==
    /\ phase = "unknown" /\ i <= N
    /\ entries' = IF h[i] # 0 /\ sum[i] = 0 THEN Append(entries, Entry(i, "unknown")) ELSE entries
    /\ IF i = N THEN phase' = "report" /\ i' = 1 ELSE phase' = phase /\ i' = i + 1
    /\ UNCHANGED <<inputs, pending, order, count, sel>>

\* One iteration of its second loop, over the supplied migrations.
StatusSupplied ==
    /\ phase = "report" /\ i <= N
    /\ Advance("ok")
    /\ pending' = (pending \/ (sum[i] # 0 /\ h[i] = 0))
    /\ entries' =
          CASE sum[i] = 0 -> entries
            [] sum[i] # 0 /\ h[i] = 0 -> Append(entries, Entry(i, "pending"))
            [] sum[i] # 0 /\ h[i] # 0 /\ h[i] # sum[i] -> Append(entries, Entry(i, "changed"))
            [] sum[i] # 0 /\ h[i] = sum[i] ->
                  Append(entries, Entry(i, IF pending THEN "out_of_order" ELSE "applied"))
    /\ UNCHANGED <<inputs, order, count, sel>>

Next == \/ CheckSupplied \/ ApplyLimit \/ SelectApply \/ CollectApplied
        \/ RevertCount \/ SelectRevert \/ StatusUnknown \/ StatusSupplied

Spec == Init /\ [][Next]_vars
-----------------------------------------------------------------------------

Elements(s) == {s[p] : p \in DOMAIN s}
Ascending(s) == \A p, q \in DOMAIN s : p < q => s[p] < s[q]
Descending(s) == \A p, q \in DOMAIN s : p < q => s[p] > s[q]

\* selectApplies refuses exactly the histories it documents (one that names
\* an unsupplied migration, a changed one or one after a pending one, and a
\* target that was not supplied), and otherwise returns every pending
\* migration up to the target once, oldest first.  selectReverts refuses
\* exactly when the history does not describe the supplied migrations, the
\* target is not reachable, or a migration that it would select was changed or
\* has no reverse; otherwise it returns the newest recorded migrations down to
\* the target once, newest first.  statusEntries reports every supplied and
\* every recorded migration once, the unsupplied ones first, each with the
\* state its record gives it.
LoopsAgree ==
    CASE op = "apply" ->
            /\ phase = "refused" => ApplyRefused(h, sum, t)
            /\ phase = "ok" =>
                  /\ ~ ApplyRefused(h, sum, t)
                  /\ Elements(sel) = selectApplies(h, sum, t) /\ Ascending(sel)
      [] op = "revert" ->
            /\ phase = "refused" => RevertRefused(h, sum, down, t)
            /\ phase = "ok" =>
                  /\ ~ RevertRefused(h, sum, down, t)
                  /\ Elements(sel) = selectReverts(h, t) /\ Descending(sel)
      [] op = "status" ->
            phase = "ok" =>
                /\ {e.id : e \in Elements(entries)} = {m \in IDs : sum[m] # 0 \/ h[m] # 0}
                /\ Cardinality({e.id : e \in Elements(entries)}) = Len(entries)
                /\ \A e \in Elements(entries) : e.state = statusOf(h, sum, e.id)
                /\ \A p, q \in DOMAIN entries :
                      p < q /\ entries[q].state = "unknown" => entries[p].state = "unknown"

\* The fix-and-reapply loop of the documentation: once the selected records
\* are deleted, the remaining history is one that Apply accepts (provided the
\* records that stay were not edited) and Apply through the newest reverted
\* migration selects exactly the migrations that were reverted.
RevertThenApply ==
    op = "revert" /\ phase = "ok" /\ sel # <<>> =>
        LET rest == [m \in IDs |-> IF m \in Elements(sel) THEN 0 ELSE h[m]]
            back == [kind |-> "through", n |-> sel[1]]
        IN  (\A m \in IDs : rest[m] \in {0, sum[m]}) =>
                /\ ~ ApplyRefused(rest, sum, back)
                /\ selectApplies(rest, sum, back) = Elements(sel)
=============================================================================
