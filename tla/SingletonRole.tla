--------------------------- MODULE SingletonRole ---------------------------
(***************************************************************************)
(* What leader election promises to the loops that must have one actor     *)
(* (scheduler, autoscaler, load monitor, pruning): a replica takes the     *)
(* role only when nobody plays it, and nobody takes it over from a replica *)
(* that still plays it.                                                    *)
(***************************************************************************)
CONSTANT Replica

VARIABLE playing \* the replicas that play the role

Vacant == playing = {}

Take(r) ==
    /\ playing = {}
    /\ playing' = {r}

Leave(r) ==
    /\ r \in playing
    /\ playing' = playing \ {r}

RoleNext == \E r \in Replica : Take(r) \/ Leave(r)

RoleSpec == Vacant /\ [][RoleNext]_playing
=============================================================================
