----------------------------- MODULE Placement -----------------------------
(***************************************************************************)
(* Who runs what in a fleet of nodes that share one store: the scheduler   *)
(* (apps/backend/app/llmops/scheduler.py), the heartbeat of the node agent *)
(* (node_agent.py), and the reconcile pass and the API calls of every      *)
(* node, which read and write instance_desired, assignments, nodes and     *)
(* instances_live one statement at a time.                                 *)
(*                                                                         *)
(* A node's processes are its set of live instances: how one start or one  *)
(* stop runs inside a node is ModelLifecycle. Instances that fail, sleep   *)
(* or were adopted are left to that module too.                            *)
(***************************************************************************)
EXTENDS Integers, FiniteSets

CONSTANTS
    Node, NoNode,
    Key,          \* the instances of the configuration, known to every node
    Supports,     \* node -> the keys whose engine it can run
    MaxCalls,     \* bound: API calls
    MaxMishaps     \* bound: store errors, refused launches, dead hosts, late heartbeats

ASSUME PlaceAssumption ==
    /\ NoNode \notin Node
    /\ Supports \in [Node -> SUBSET Key]
    /\ MaxCalls \in Nat /\ MaxMishaps \in Nat

VARIABLES
    desired,  \* table instance_desired: key -> "none" (no row), "running", "stopped"
    assigned, \* table assignments: key -> node
    beating,  \* table nodes: the nodes whose heartbeat has not lapsed
    route,    \* table instances_live: key -> node whose address is advertised
    up,       \* the hosts that are up
    live,     \* node -> keys with a process there
    job,      \* node -> actor -> the start or stop it is in
    pass,     \* node -> its reconcile pass
    sched,    \* the placement pass of the leader
    used      \* calls and faults so far

placeVars == <<desired, assigned, beating, route, up, live, job, pass, sched, used>>
tables == <<desired, assigned, beating, route>>

Wants == {"none", "running", "stopped"}
Actor == {"api", "pass"}

\* A start or a stop after its local part: the row of desired states is written
\* first (persist), then the assignment of what should run (claim).
Job == [step : {"none", "persist", "claim"}, key : Key, want : Wants, owner : Node \cup {NoNode}]
NoJob == [step |-> "none", key |-> CHOOSE k \in Key : TRUE, want |-> "none", owner |-> NoNode]

\* A reconcile pass: what it read, in the order in which it reads it.
Pass == [stage : {"idle", "nodes", "backfill", "desired", "act"},
         others : SUBSET (Key \X Node), foreign : SUBSET Key,
         want : [Key -> Wants], left : SUBSET Key]
NoRows == [k \in Key |-> "none"]
NoPass == [stage |-> "idle", others |-> {}, foreign |-> {}, want |-> NoRows, left |-> {}]

\* A placement pass; todo holds the changes that place() returned.
Sched == [stage : {"idle", "nodes", "assignments", "write"},
          want : SUBSET Key, nodes : SUBSET Node, todo : [Key -> Node \cup {NoNode}]]
Nowhere == [k \in Key |-> NoNode]
NoSched == [stage |-> "idle", want |-> {}, nodes |-> {}, todo |-> Nowhere]

\* A fleet that is up, with nothing running or with instances placed before.
PlaceInit ==
    /\ \E owner \in [Key -> Node \cup {NoNode}] :
         /\ \A k \in Key : owner[k] # NoNode => k \in Supports[owner[k]]
         /\ desired = [k \in Key |-> IF owner[k] = NoNode THEN "none" ELSE "running"]
         /\ assigned = owner
         /\ route = owner
         /\ live = [n \in Node |-> {k \in Key : owner[k] = n}]
    /\ beating = Node
    /\ up = Node
    /\ job = [n \in Node |-> [a \in Actor |-> NoJob]]
    /\ pass = [n \in Node |-> NoPass]
    /\ sched = NoSched
    /\ used = [calls |-> 0, faults |-> 0]

Faulty ==
    /\ used.faults < MaxMishaps
    /\ used' = [used EXCEPT !.faults = @ + 1]

Free(n, a) == job[n][a].step = "none"

SetJob(n, a, j) == job' = [job EXCEPT ![n][a] = j]

-----------------------------------------------------------------------------
\* manager.start and manager.stop, up to the first store write. A node that
\* cannot run the engine records the intent and clears the assignment.
Deferred(n, a, k, want) ==
    /\ k \notin Supports[n]
    /\ SetJob(n, a, [step |-> "persist", key |-> k, want |-> want, owner |-> NoNode])
    /\ UNCHANGED live

Launches(n, a, k) ==
    /\ k \in Supports[n]
    /\ k \notin live[n]
    /\ live' = [live EXCEPT ![n] = @ \cup {k}]
    /\ SetJob(n, a, [step |-> "persist", key |-> k, want |-> "running", owner |-> n])

\* A start of what this node already runs is refused (ModelAlreadyRunning).
StartsAt(n, a, k) == Deferred(n, a, k, "running") \/ Launches(n, a, k)

Kills(n, a, k) ==
    /\ k \in Supports[n]
    /\ live' = [live EXCEPT ![n] = @ \ {k}]
    /\ SetJob(n, a, [step |-> "persist", key |-> k, want |-> "stopped", owner |-> NoNode])

StopsAt(n, a, k) == Deferred(n, a, k, "stopped") \/ Kills(n, a, k)

\* _persist_desired and _defer_to_owner: two statements, each of which may fail;
\* a stop leaves the assignment alone.
Persist(n, a) ==
    /\ job[n][a].step = "persist"
    /\ \/ /\ desired' = [desired EXCEPT ![job[n][a].key] = job[n][a].want]
          /\ UNCHANGED used
       \/ /\ Faulty
          /\ UNCHANGED desired
    /\ SetJob(n, a, IF job[n][a].want = "stopped" THEN NoJob
                    ELSE [job[n][a] EXCEPT !.step = "claim"])
    /\ UNCHANGED <<assigned, beating, route, up, live, pass, sched>>

Claim(n, a) ==
    /\ job[n][a].step = "claim"
    /\ \/ /\ assigned' = [assigned EXCEPT ![job[n][a].key] = job[n][a].owner]
          /\ UNCHANGED used
       \/ /\ Faulty
          /\ UNCHANGED assigned
    /\ SetJob(n, a, NoJob)
    /\ UNCHANGED <<desired, beating, route, up, live, pass, sched>>

\* An operator, or the autoscaler of the leader, asks any node.
Call(n, k) ==
    /\ n \in up
    /\ Free(n, "api")
    /\ used.calls < MaxCalls
    /\ StartsAt(n, "api", k) \/ StopsAt(n, "api", k)
    /\ used' = [used EXCEPT !.calls = @ + 1]
    /\ UNCHANGED <<tables, up, pass, sched>>

-----------------------------------------------------------------------------
\* foreign_assignments: the assignments, then the nodes that are alive. Any
\* store error makes nothing foreign.
ReadAssignments(n) ==
    /\ n \in up
    /\ pass[n].stage = "idle" /\ Free(n, "pass")
    /\ \/ /\ pass' = [pass EXCEPT ![n] = [NoPass EXCEPT !.stage = "nodes",
                !.others = {p \in Key \X Node : assigned[p[1]] = p[2] /\ p[2] # n}]]
          /\ UNCHANGED used
       \/ /\ Faulty
          /\ pass' = [pass EXCEPT ![n] = [NoPass EXCEPT !.stage = "backfill"]]
    /\ UNCHANGED <<tables, up, live, job, sched>>

Foreign(others, alive) == {p[1] : p \in {q \in others : q[2] \in alive}}

ReadNodes(n) ==
    /\ n \in up
    /\ pass[n].stage = "nodes"
    /\ \/ /\ pass' = [pass EXCEPT ![n].stage = "backfill", ![n].others = {},
                                  ![n].foreign = Foreign(pass[n].others, beating)]
          /\ UNCHANGED used
       \/ /\ Faulty
          /\ pass' = [pass EXCEPT ![n].stage = "backfill", ![n].others = {}]
    /\ UNCHANGED <<tables, up, live, job, sched>>

\* _backfill_node_state: the owned instances that are live advertise this node.
\* Variation: every instance that is live here advertises this node.
Advertised_All(n) == live[n]

Advertised(n) == live[n] \ pass[n].foreign

Backfill(n) ==
    /\ n \in up
    /\ pass[n].stage = "backfill"
    /\ route' = [k \in Key |-> IF k \in Advertised(n) THEN n ELSE route[k]]
    /\ pass' = [pass EXCEPT ![n].stage = "desired"]
    /\ UNCHANGED <<desired, assigned, beating, up, live, job, sched, used>>

\* The pass with these keys left to converge; it is over when there are none.
ToDo(p) == IF p.left = {} THEN NoPass ELSE [p EXCEPT !.stage = "act"]

\* converge_desired reads the desired states; an error ends the pass.
ReadDesired(n) ==
    /\ n \in up
    /\ pass[n].stage = "desired"
    /\ \/ /\ pass' = [pass EXCEPT ![n] = ToDo([NoPass EXCEPT !.want = desired,
                        !.left = {k \in Key : desired[k] # "none"} \ pass[n].foreign])]
          /\ UNCHANGED used
       \/ /\ Faulty
          /\ pass' = [pass EXCEPT ![n] = NoPass]
    /\ UNCHANGED <<tables, up, live, job, sched>>

\* It acts on the keys one by one, on what it read, and awaits each call; what
\* the state does not call for is skipped, a refused launch is logged.
\* Variation: an instance that should not run is left alone.
Converges_NoStop(n, k) ==
    \/ pass[n].want[k] = "running" /\ k \notin live[n] /\ StartsAt(n, "pass", k) /\ UNCHANGED used
    \/ pass[n].want[k] = "running" /\ k \notin live[n] /\ Faulty /\ UNCHANGED <<live, job>>
    \/ ((pass[n].want[k] = "running") <=> (k \in live[n])) /\ UNCHANGED <<live, job, used>>
    \/ pass[n].want[k] = "stopped" /\ k \in live[n] /\ UNCHANGED <<live, job, used>>

Converges(n, k) ==
    \/ pass[n].want[k] = "running" /\ k \notin live[n] /\ StartsAt(n, "pass", k) /\ UNCHANGED used
    \/ pass[n].want[k] = "running" /\ k \notin live[n] /\ Faulty /\ UNCHANGED <<live, job>>
    \/ pass[n].want[k] = "stopped" /\ k \in live[n] /\ StopsAt(n, "pass", k) /\ UNCHANGED used
    \/ ((pass[n].want[k] = "running") <=> (k \in live[n])) /\ UNCHANGED <<live, job, used>>

Act(n) ==
    /\ n \in up
    /\ pass[n].stage = "act"
    /\ Free(n, "pass")
    /\ \E k \in pass[n].left :
         /\ Converges(n, k)
         /\ pass' = [pass EXCEPT ![n] = ToDo([@ EXCEPT !.left = @ \ {k}])]
    /\ UNCHANGED <<tables, up, sched>>

-----------------------------------------------------------------------------
\* reschedule_once reads what should run, the live nodes and the assignments.
ReadWanted ==
    /\ sched.stage = "idle"
    /\ sched' = [NoSched EXCEPT !.stage = "nodes", !.want = {k \in Key : desired[k] = "running"}]
    /\ UNCHANGED <<tables, up, live, job, pass, used>>

ReadLive ==
    /\ sched.stage = "nodes"
    /\ sched' = [sched EXCEPT !.stage = "assignments", !.nodes = beating]
    /\ UNCHANGED <<tables, up, live, job, pass, used>>

Candidates(k, nodes) == {n \in nodes : k \in Supports[n]}

\* The pass with these changes left to write; it is over when there are none.
ToWrite(s) == IF s.todo = Nowhere THEN NoSched ELSE [s EXCEPT !.stage = "write"]

\* place(): a key stays on a live node that can run it; otherwise it goes to the
\* emptiest one (any of them here), or nowhere when none can run it.
\* Variation: a key that has an assignment is left where it is.
Placed_Sticky(k, nodes) ==
    IF assigned[k] # NoNode \/ Candidates(k, nodes) = {}
    THEN {NoNode} ELSE Candidates(k, nodes)

Placed(k, nodes) ==
    IF assigned[k] \in Candidates(k, nodes) \/ Candidates(k, nodes) = {}
    THEN {NoNode} ELSE Candidates(k, nodes)

Place ==
    /\ sched.stage = "assignments"
    /\ \E todo \in [Key -> Node \cup {NoNode}] :
         /\ \A k \in Key : IF k \in sched.want THEN todo[k] \in Placed(k, sched.nodes)
                                               ELSE todo[k] = NoNode
         /\ sched' = ToWrite([NoSched EXCEPT !.todo = todo])
    /\ UNCHANGED <<tables, up, live, job, pass, used>>

\* The changes are written one by one; a write that fails is logged.
Assign ==
    /\ sched.stage = "write"
    /\ \E k \in Key :
         /\ sched.todo[k] # NoNode
         /\ \/ assigned' = [assigned EXCEPT ![k] = sched.todo[k]] /\ UNCHANGED used
            \/ Faulty /\ UNCHANGED assigned
         /\ sched' = ToWrite([sched EXCEPT !.todo[k] = NoNode])
    /\ UNCHANGED <<desired, beating, route, up, live, job, pass>>

\* A read fails, or the leader loses its role: the pass is given up.
SchedulerStops ==
    /\ sched.stage # "idle"
    /\ Faulty
    /\ sched' = NoSched
    /\ UNCHANGED <<tables, up, live, job, pass>>

-----------------------------------------------------------------------------
\* heartbeat_once registers the node; its row lapses when the host is down, or
\* when its heartbeats are late.
Heartbeats(n) ==
    /\ n \in up \ beating
    /\ beating' = beating \cup {n}
    /\ UNCHANGED <<desired, assigned, route, up, live, job, pass, sched, used>>

Lapses(n) ==
    /\ n \in beating
    /\ IF n \in up THEN Faulty ELSE UNCHANGED used
    /\ beating' = beating \ {n}
    /\ UNCHANGED <<desired, assigned, route, up, live, job, pass, sched>>

\* An address that nobody refreshes runs out of its lease.
RouteLapses(k) ==
    /\ route[k] # NoNode
    /\ k \notin live[route[k]] \/ assigned[k] # route[k]
    /\ route' = [route EXCEPT ![k] = NoNode]
    /\ UNCHANGED <<desired, assigned, beating, up, live, job, pass, sched, used>>

\* A host dies with everything on it, and comes back empty.
HostDies(n) ==
    /\ n \in up
    /\ Faulty
    /\ up' = up \ {n}
    /\ live' = [live EXCEPT ![n] = {}]
    /\ job' = [job EXCEPT ![n] = [a \in Actor |-> NoJob]]
    /\ pass' = [pass EXCEPT ![n] = NoPass]
    /\ UNCHANGED <<tables, sched>>

HostReturns(n) ==
    /\ n \notin up
    /\ up' = up \cup {n}
    /\ UNCHANGED <<tables, live, job, pass, sched, used>>

PassStep(n) == ReadAssignments(n) \/ ReadNodes(n) \/ Backfill(n) \/ ReadDesired(n) \/ Act(n)
JobStep(n, a) == Persist(n, a) \/ Claim(n, a)
SchedStep == ReadWanted \/ ReadLive \/ Place \/ Assign

PlaceNext ==
    \/ \E n \in Node : \/ PassStep(n) \/ \E a \in Actor : JobStep(n, a)
                       \/ Heartbeats(n) \/ Lapses(n) \/ HostDies(n) \/ HostReturns(n)
                       \/ \E k \in Key : Call(n, k)
    \/ SchedStep \/ SchedulerStops
    \/ \E k \in Key : RouteLapses(k)

\* The loops of a host that is up run, its calls go on, leases that nobody
\* renews lapse, and some leader schedules. A host need not come back.
PlaceFairness ==
    /\ \A n \in Node : /\ WF_placeVars(PassStep(n) \/ JobStep(n, "pass"))
                       /\ WF_placeVars(JobStep(n, "api"))
                       /\ WF_placeVars(Heartbeats(n) \/ (n \notin up /\ Lapses(n)))
    /\ WF_placeVars(SchedStep)

PlaceSpec == PlaceInit /\ [][PlaceNext]_placeVars

-----------------------------------------------------------------------------
\* Every variable has its type.
PlaceTypeOK ==
    /\ desired \in [Key -> Wants]
    /\ assigned \in [Key -> Node \cup {NoNode}]
    /\ route \in [Key -> Node \cup {NoNode}]
    /\ beating \subseteq Node /\ up \subseteq Node
    /\ live \in [Node -> SUBSET Key]
    /\ job \in [Node -> [Actor -> Job]]
    /\ pass \in [Node -> Pass]
    /\ sched \in Sched
    /\ used \in [calls : 0..MaxCalls, faults : 0..MaxMishaps]

\* Assigned to n and running there.
RunsAtOwner(k, n) == assigned[k] = n /\ k \in live[n]

CanBeRun(k) == \E n \in up : k \in Supports[n]

\* Failover (scheduler.py:5-7): what should run comes to run at the node it is
\* assigned to, whatever hosts die, while some host can run it.
FailsOver ==
    \A k \in Key : (desired[k] = "running" /\ CanBeRun(k)) ~>
        \/ \E n \in up : RunsAtOwner(k, n)
        \/ desired[k] # "running" \/ ~CanBeRun(k)

\* Convergence to STOPPED (converge_desired): a node stops what should not run,
\* unless it is assigned to another live node.
OwnerStops ==
    \A n \in Node, k \in Key : (desired[k] = "stopped" /\ k \in live[n]) ~>
        \/ desired[k] # "stopped" \/ k \notin live[n]
        \/ assigned[k] \in beating \ {n}

\* Routing (instances_live): what keeps running at its owner is in the end
\* advertised with the owner's address only, whatever other node has a copy too.
RoutedToOwner ==
    \A n \in Node, k \in Key :
        <>[](RunsAtOwner(k, n) /\ n \in beating) => <>[](route[k] = n)

\* One owner (docs/ha-per-node-actuation-design_zh-CN.md:98 "assignment
\* guarantees a single owner"): no instance runs on two nodes.
OneNodeRuns == \A n, m \in Node : live[n] \cap live[m] # {} => n = m
=============================================================================
