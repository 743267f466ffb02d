---------------------------- MODULE LeaderLease ----------------------------
(***************************************************************************)
(* Leader election over a row of the shared store                          *)
(* (apps/backend/app/core/leader.py, LLMOpsStore.try_acquire_leader).      *)
(* Every replica renews or steals the lease once per heartbeat; the one    *)
(* that is told it holds the lease restores the desired states and starts  *)
(* the singleton loops, and cancels them when it is told it does not.      *)
(*                                                                         *)
(* One clock is shared by all replicas and the store and is kept as        *)
(* distances: lease.left is the time until the row expires (negative: it   *)
(* expired that long ago), elector[r].age the time since the replica read  *)
(* the clock for this round, or since it began to wait.                    *)
(***************************************************************************)
EXTENDS Integers

CONSTANTS
    Replica,    \* the backend processes that share the store
    NoReplica,
    TTL,        \* leader_lease_ttl
    Interval,   \* the pause between two rounds of a replica (ttl / 3)
    WaitMax,    \* the longest a pause lasts (a busy event loop wakes late)
    RoundMax,   \* the longest a round lasts: store calls, replay, cancelled loops
    MaxFaults   \* bound: store errors, shutdowns and crashes

ASSUME LeaseAssumption ==
    /\ NoReplica \notin Replica
    /\ TTL \in Nat /\ Interval \in Nat
    /\ RoundMax \in Nat /\ WaitMax \in Nat /\ Interval <= WaitMax
    /\ MaxFaults \in Nat

VARIABLES
    lease,    \* the row of leader_lease: holder and time left
    elector,  \* per replica: where its LeaderElector.run is
    faults    \* errors, shutdowns and crashes so far

leaseVars == <<lease, elector, faults>>

\* The replica is in a round (or in its finally block): time is bounded by RoundMax.
Busy == {"asking", "reading", "acquiring", "releasing", "leaving", "deleting"}

Elector == [stage : Busy \cup {"off", "waiting"}, age : Nat, acts : BOOLEAN]

\* The renewals of a replica that leads always reach the row before it expires.
Timely == WaitMax + 2 * RoundMax <= TTL

LeaseInit ==
    /\ lease = [holder |-> NoReplica, left |-> 0]
    /\ elector = [r \in Replica |-> [stage |-> "off", age |-> 0, acts |-> FALSE]]
    /\ faults = 0

At(r, stages) == elector[r].stage \in stages

\* The replica goes to the stage; age and acts as given.
Goes(r, stage, age, acts) ==
    elector' = [elector EXCEPT ![r] = [stage |-> stage, age |-> age, acts |-> acts]]

Fault ==
    /\ faults < MaxFaults
    /\ faults' = faults + 1

\* The lifespan of a replica starts its elector.
Boot(r) ==
    /\ At(r, {"off"})
    /\ Goes(r, "asking", 0, FALSE)
    /\ UNCHANGED <<lease, faults>>

\* The conditional upsert, with the clock the replica read `age` ago.
\* Variation: only a free row is taken.
Grants_FreeOnly(r) == lease.holder = NoReplica \/ lease.holder = r

Grants(r) ==
    \/ lease.holder = NoReplica
    \/ lease.left < -elector[r].age
    \/ lease.holder = r

Upsert(r) ==
    /\ At(r, {"asking"})
    /\ lease' = IF Grants(r)
                THEN [holder |-> r, left |-> TTL - elector[r].age]
                ELSE lease
    /\ Goes(r, "reading", elector[r].age, elector[r].acts)
    /\ UNCHANGED faults

\* What the SELECT after the upsert says.
Holds(r) == lease.holder = r /\ lease.left > -elector[r].age

\* The elector acts on the answer: it gains the role, loses it or goes on.
\* Variation: a leader that is refused keeps its loops.
Decides_Keeps(r, got) ==
    CASE got /\ ~elector[r].acts -> Goes(r, "acquiring", elector[r].age, TRUE)
      [] OTHER -> Goes(r, "waiting", 0, elector[r].acts)

Decides(r, got) ==
    CASE got /\ ~elector[r].acts -> Goes(r, "acquiring", elector[r].age, TRUE)
      [] ~got /\ elector[r].acts -> Goes(r, "releasing", elector[r].age, TRUE)
      [] OTHER -> Goes(r, "waiting", 0, elector[r].acts)

Answer(r) ==
    /\ At(r, {"reading"})
    /\ Decides(r, Holds(r))
    /\ UNCHANGED <<lease, faults>>

\* A store call raises: treated as not being the leader.
StoreFails(r) ==
    /\ At(r, {"asking", "reading"})
    /\ Fault
    /\ Decides(r, FALSE)
    /\ UNCHANGED lease

\* on_acquire returns: the desired states are restored, the loops run.
Acquired(r) ==
    /\ At(r, {"acquiring"})
    /\ Goes(r, "waiting", 0, TRUE)
    /\ UNCHANGED <<lease, faults>>

\* on_release returns: the loops have ended.
Released(r) ==
    /\ At(r, {"releasing"})
    /\ Goes(r, "waiting", 0, FALSE)
    /\ UNCHANGED <<lease, faults>>

\* The pause between two rounds is over.
Heartbeat(r) ==
    /\ At(r, {"waiting"})
    /\ elector[r].age >= Interval
    /\ Goes(r, "asking", 0, elector[r].acts)
    /\ UNCHANGED <<lease, faults>>

\* The lifespan ends and cancels the elector: its finally block steps down
\* first, unless a step-down was already under way.
Shutdown(r) ==
    /\ At(r, {"asking", "reading", "acquiring", "releasing", "waiting"})
    /\ Fault
    /\ Goes(r, IF elector[r].acts /\ ~At(r, {"releasing"}) THEN "leaving" ELSE "deleting",
               IF At(r, {"waiting"}) THEN 0 ELSE elector[r].age, elector[r].acts)
    /\ UNCHANGED lease

LoopsEnd(r) ==
    /\ At(r, {"leaving"})
    /\ Goes(r, "deleting", elector[r].age, FALSE)
    /\ UNCHANGED <<lease, faults>>

\* release_leader deletes the row of a holder, or fails silently. Loops that
\* were cancelled before end at their next turn, before the answer arrives.
Delete(r) ==
    /\ At(r, {"deleting"})
    /\ \/ /\ lease' = IF lease.holder = r THEN [holder |-> NoReplica, left |-> 0] ELSE lease
          /\ UNCHANGED faults
       \/ /\ Fault
          /\ UNCHANGED lease
    /\ Goes(r, "off", 0, FALSE)

\* The process is killed: its loops are gone, its row stays until it expires.
Crash(r) ==
    /\ ~At(r, {"off"})
    /\ Fault
    /\ Goes(r, "off", 0, FALSE)
    /\ UNCHANGED lease

\* Time passes, unless a replica has to move first.
Tick ==
    /\ \A r \in Replica : /\ At(r, Busy) => elector[r].age < RoundMax
                          /\ At(r, {"waiting"}) => elector[r].age < WaitMax
    /\ lease' = IF lease.holder # NoReplica /\ lease.left >= -RoundMax
                THEN [lease EXCEPT !.left = @ - 1] ELSE lease
    /\ elector' = [r \in Replica |-> IF At(r, {"off"}) THEN elector[r]
                                     ELSE [elector[r] EXCEPT !.age = @ + 1]]
    /\ UNCHANGED faults

\* What the coroutine of a replica does by itself.
ElectorStep(r) ==
    \/ Upsert(r) \/ Answer(r) \/ Acquired(r) \/ Released(r)
    \/ Heartbeat(r) \/ LoopsEnd(r) \/ Delete(r)

LeaseNext ==
    \/ \E r \in Replica : \/ Boot(r) \/ ElectorStep(r)
                          \/ StoreFails(r) \/ Shutdown(r) \/ Crash(r)
    \/ Tick

\* The event loop of a live replica runs its coroutine, and time passes.
LeaseFairness ==
    /\ \A r \in Replica : WF_leaseVars(ElectorStep(r))
    /\ WF_leaseVars(Tick)

LeaseSpec == LeaseInit /\ [][LeaseNext]_leaseVars

-----------------------------------------------------------------------------
\* Every variable has its type, and no stage outlasts its bound.
LeaseTypeOK ==
    /\ lease \in [holder : Replica \cup {NoReplica}, left : Int]
    /\ elector \in [Replica -> Elector]
    /\ faults \in 0..MaxFaults
    /\ \A r \in Replica : /\ At(r, Busy) => elector[r].age <= RoundMax
                          /\ At(r, {"waiting"}) => elector[r].age <= WaitMax

\* Two replicas never play the leader at once (leader.py:1 "so only one backend
\* replica runs the singleton control loops"), whether in the replay, in the
\* loops or while these are being cancelled.
OneLeader == \A r, s \in Replica : elector[r].acts /\ elector[s].acts => r = s

Role == INSTANCE SingletonRole WITH playing <- {r \in Replica : elector[r].acts}

\* The elector implements the role: it is taken only when nobody plays it.
PlaysRole == Role!RoleSpec

\* Failover (leader.py:6-7 "if it dies, a peer steals the expired lease and
\* takes over"): while a replica is up the role does not stay vacant.
RoleIsTaken ==
    (\E r \in Replica : ~At(r, {"off"})) ~>
        ((\E r \in Replica : elector[r].acts) \/ (\A r \in Replica : At(r, {"off"})))
=============================================================================
