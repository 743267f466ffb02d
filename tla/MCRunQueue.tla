----------------------------- MODULE MCRunQueue -----------------------------
(***************************************************************************)
(* Instances of RunQueue for TLC: two small evaluations and one that is    *)
(* larger than the smaller budget.                                         *)
(***************************************************************************)
EXTENDS RunQueue

CONSTANTS e1, e2, e3

OneTwoThree == [x \in Evals |-> CASE x = e1 -> 1 [] x = e2 -> 2 [] x = e3 -> 3]
Nobody == {}
Somebody == {e1}
=============================================================================
