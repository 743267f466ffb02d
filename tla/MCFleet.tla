------------------------------ MODULE MCFleet ------------------------------
(***************************************************************************)
(* Instances for TLC of what the nodes of a fleet do together over the     *)
(* shared store: who leads (LeaderLease), and who runs what (Placement);   *)
(* and of the evaluations and load tests of one node (RunQueue) when       *)
(* nothing of them fails. None reads the state of another, so a behaviour  *)
(* is one of one part, and the state of the others stays put.              *)
(***************************************************************************)
EXTENDS LeaderLease, Placement, TLC

CONSTANTS n1, n2, k1, e1, e2, e3, b1

VARIABLES part,
          em, pm, cancelled, budget, task, row, runners, asked, restarts    \* RunQueue

\* Evaluations of every size that the budget lets run, and a load test.
Sizes == e1 :> 1 @@ e2 :> 2 @@ e3 :> 3

Queue == INSTANCE RunQueue WITH
    Evals <- {e1, e2, e3}, Perfs <- {b1}, None <- NoNode, Size <- Sizes, Budgets <- {3},
    Deletable <- {}, MaxRestarts <- 0, LaunchMayFail <- FALSE, StoreMayFail <- FALSE,
    live <- runners

queueVars == <<em, pm, cancelled, budget, task, row, runners, asked, restarts>>

fleetVars == <<part, leaseVars, placeVars, queueVars>>

EveryKey == n1 :> {k1} @@ n2 :> {k1}

\* The key runs on n1; when the lease plays, nothing was ever started.
FleetInit ==
    /\ part \in {"lease", "place", "queue"}
    /\ LeaseInit
    /\ PlaceInit
    /\ assigned[k1] = IF part = "place" THEN n1 ELSE NoNode
    /\ Queue!Init

Leads(A) == part = "lease" /\ A /\ UNCHANGED <<part, placeVars, queueVars>>
Places(A) == part = "place" /\ A /\ UNCHANGED <<part, leaseVars, queueVars>>
Queues(A) == part = "queue" /\ A /\ UNCHANGED <<part, leaseVars, placeVars>>

FleetNext == Leads(LeaseNext) \/ Places(PlaceNext) \/ Queues(Queue!Next)

\* LeaseFairness, PlaceFairness and the fairness of Queue!FairSpec, of the part
\* that plays.
FleetFairness ==
    /\ \A r \in Replica : WF_fleetVars(Leads(ElectorStep(r)))
    /\ WF_fleetVars(Leads(Tick))
    /\ \A n \in Node :
         /\ WF_fleetVars(Places(PassStep(n) \/ JobStep(n, "pass")))
         /\ WF_fleetVars(Places(JobStep(n, "api")))
         /\ WF_fleetVars(Places(Heartbeats(n) \/ (n \notin up /\ Lapses(n))))
    /\ WF_fleetVars(Places(SchedStep))
    /\ \A x \in {e1, e2, e3} : WF_fleetVars(Queues(Queue!EvalStep(x)))
    /\ WF_fleetVars(Queues(Queue!PerfStep(b1)))
    /\ \A x \in {e1, e2, e3, b1} : WF_fleetVars(Queues(x \in cancelled /\ Queue!ProcExits(x)))

FleetSpec == FleetInit /\ [][FleetNext]_fleetVars /\ FleetFairness

\* If every runner ends, every run that was asked for is recorded as over
\* (EvalManager._pump, PerfManager._watch): RunsEnd of RunQueue.
RunsEnd == Queue!RunsEnd

\* A cancelled run becomes final even if its runner would never end
\* (EvalManager.cancel, _watch): CancelEnds of RunQueue.
CancelEnds == Queue!CancelEnds
=============================================================================
