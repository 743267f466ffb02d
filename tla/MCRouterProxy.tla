---------------------------- MODULE MCRouterProxy ----------------------------
(***************************************************************************)
(* Instances of RouterProxy for TLC: a primary group and one fallback.     *)
(***************************************************************************)
EXTENDS RouterProxy, TLC

CONSTANTS a, b, c

TwoAndOne == <<{a, b}, {c}>>
OnlyTwo == <<{a, b}>>
Nobody == {}
SwapReqs == Permutations(Reqs)
=============================================================================
