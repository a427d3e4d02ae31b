------------------------------ MODULE MCScope ------------------------------
(* The owners and habits of the TLC instances of Scope.                    *)
EXTENDS Scope

Any == Kinds
JustWithin == {"within"}
Everything == AllHabits
Panics == {"panicInLoop"}
=============================================================================
