------------------------------- MODULE MCRows -------------------------------
(* The consumers and bounds of the TLC instance of Rows.                   *)
EXTENDS Rows

CONSTANTS c1, c2

Two == {c1, c2}
ArgumentsFor(all) ==
    IF all THEN {[err |-> {}, early |-> TRUE]} ELSE [err : {{}, {"caller"}}, early : BOOLEAN]
QueriesFor(all) == IF all THEN 2 ELSE 1
RowsFor(all) == IF all THEN 1 ELSE 2
FaultsFor(all) == IF all THEN 1 ELSE 3
=============================================================================
