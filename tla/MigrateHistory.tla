--------------------------- MODULE MigrateHistory ---------------------------
(***************************************************************************)
(* What migrate promises about the database, without locks, transactions,  *)
(* sessions or failures: migrations are recorded and forgotten at the end  *)
(* of the history only, whole, and a source takes effect outside of that   *)
(* only where the engine or the migration's mode makes it indivisible no   *)
(* longer (Torn), and then only at the end of the history.                 *)
(***************************************************************************)
EXTENDS MigrateSelect

CONSTANTS Runners, MaxSum, MaxSrc, Sum, Source,
          Torn \* the migrations whose sources take effect one by one

VARIABLES hist, eff

absvars == <<hist, eff>>

AbsInit ==
    /\ hist = [m \in IDs |-> 0]
    /\ eff = [m \in IDs |-> [k \in 1..MaxSrc |-> 0]]

Accepts(r, h) == ~ NotSupplied(h, Sum[r]) /\ ~ Gap(h, Sum[r])

\* The sources of m in effect when it is recorded with checksum s.
Whole(m, s) == [k \in 1..MaxSrc |-> IF s # 0 /\ k <= Source[m][s].up THEN s ELSE 0]

\* The history becomes h: one that r accepts, like the one before, and
\* different in S only, all of which is recorded or all of which is not.
Move(r, S, h) ==
    /\ S # {} /\ Accepts(r, hist) /\ Accepts(r, h)
    /\ hist' = h
    /\ eff' = [m \in IDs |-> IF m \in S THEN Whole(m, h[m]) ELSE eff[m]]

Extend(r, S) ==
    /\ \A m \in S : hist[m] = 0 /\ Sum[r][m] # 0
    /\ Move(r, S, [m \in IDs |-> IF m \in S THEN Sum[r][m] ELSE hist[m]])

Retract(r, S) ==
    /\ \A m \in S : hist[m] # 0
    /\ Move(r, S, [m \in IDs |-> IF m \in S THEN 0 ELSE hist[m]])

\* A source of m takes effect or is undone; m is the oldest pending or the
\* newest recorded migration.
Touch(r, m) ==
    /\ m \in Torn /\ Sum[r][m] # 0
    /\ Accepts(r, [hist EXCEPT ![m] = 0]) /\ Accepts(r, [hist EXCEPT ![m] = Sum[r][m]])
    /\ \E e \in [1..MaxSrc -> 0..MaxSum] : eff' = [eff EXCEPT ![m] = e]
    /\ UNCHANGED hist

AbsNext == \E r \in Runners :
              \/ \E S \in SUBSET IDs : Extend(r, S) \/ Retract(r, S)
              \/ \E m \in IDs : Touch(r, m)

AbsSpec == AbsInit /\ [][AbsNext]_absvars
=============================================================================
