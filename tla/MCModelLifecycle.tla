-------------------------- MODULE MCModelLifecycle --------------------------
(***************************************************************************)
(* Instances of ModelLifecycle for TLC.                                    *)
(***************************************************************************)
EXTENDS ModelLifecycle, TLC

Symmetry == Permutations(Keys) \cup Permutations(Pids) \cup Permutations(Calls \ Cancellable)

StartOnly == {"start"}
StartStop == {"start", "stop"}
AllOps == {"start", "stop", "sleep", "wake"}
NoKeys == {}
AllKeys == Keys
NoCalls == {}
AllCalls == Calls
=============================================================================
