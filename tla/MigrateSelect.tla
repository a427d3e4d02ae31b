--------------------------- MODULE MigrateSelect ---------------------------
(***************************************************************************)
(* What migrate.Runner decides before it runs any SQL: which of the        *)
(* supplied migrations a target selects, and which histories it refuses.   *)
(*                                                                         *)
(* A migration ID is its position 1..N in byte order, so prepareMigrations'*)
(* sort is the order of the integers.  A checksum is a positive integer;   *)
(* 0 is "absent".  A history maps every ID to its recorded checksum, a     *)
(* supplied set maps every ID to the checksum of the supplied sources, and *)
(* down maps every ID to its number of reverse sources.                    *)
(***************************************************************************)
EXTENDS Integers, FiniteSets

CONSTANT N \* the number of migration IDs the supplied sets draw from

ASSUME NAssumption == N \in Nat \ {0}

IDs == 1..N

Recorded(h) == {m \in IDs : h[m] # 0}

\* ApplyTarget: AllPending or ApplyThrough(id).
ApplyTargets == [kind : {"everything"}, n : {0}] \cup [kind : {"through"}, n : IDs]

\* RevertTarget: the zero value, Through(id) or Steps(n).
RevertTargets == [kind : {"nothing"}, n : {0}] \cup [kind : {"through"}, n : IDs]
                 \cup [kind : {"steps"}, n : 0..(N + 1)]

\* A recorded migration that the caller did not supply.
NotSupplied(h, sum) == \E m \in IDs : h[m] # 0 /\ sum[m] = 0

\* A recorded migration that sorts after a supplied, pending one.
Gap(h, sum) == \E m, k \in IDs : m < k /\ sum[m] # 0 /\ h[m] = 0 /\ h[k] # 0

\* applyLimit, as the set of IDs that the target reaches.
Reached(t) == {m \in IDs : t.kind = "through" => m <= t.n}

ApplyRefused(h, sum, t) ==
    \/ NotSupplied(h, sum)
    \/ t.kind = "through" /\ sum[t.n] = 0
    \/ \E m \in IDs : sum[m] # 0 /\ h[m] \notin {0, sum[m]}
    \/ Gap(h, sum)

selectApplies(h, sum, t) == {m \in IDs : sum[m] # 0 /\ h[m] = 0} \cap Reached(t)

\* revertCount, as the condition under which it is an error ...
CountRefused(h, t) ==
    \/ t.kind = "nothing"
    \/ t.kind = "through" /\ h[t.n] = 0
    \/ t.kind = "steps" /\ (t.n <= 0 \/ t.n > Cardinality(Recorded(h)))

\* Mutant: the oldest instead of the newest.
OldestInstead(h, t) ==
    {m \in Recorded(h) : Cardinality({k \in Recorded(h) : k <= m}) <= t.n}

\* ... and as the recorded migrations it counts.
Newest(h, t) ==
    {m \in Recorded(h) :
        IF t.kind = "through" THEN m > t.n
        ELSE Cardinality({k \in Recorded(h) : k >= m}) <= t.n}

selectReverts(h, t) == Newest(h, t)

RevertRefused(h, sum, down, t) ==
    \/ NotSupplied(h, sum)
    \/ Gap(h, sum)
    \/ CountRefused(h, t)
    \/ \E m \in selectReverts(h, t) : h[m] # sum[m] \/ down[m] = 0

\* statusEntries: the state reported for one ID of the supplied or recorded set.
statusOf(h, sum, m) ==
    IF sum[m] = 0 THEN "unknown"
    ELSE IF h[m] = 0 THEN "pending"
    ELSE IF h[m] # sum[m] THEN "changed"
    ELSE IF \E k \in IDs : k < m /\ sum[k] # 0 /\ h[k] = 0 THEN "out_of_order"
    ELSE "applied"
=============================================================================
