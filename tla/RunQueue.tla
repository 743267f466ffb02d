------------------------------- MODULE RunQueue -------------------------------
(***************************************************************************)
(* Accuracy evaluations and load tests of the backend: EvalManager with    *)
(* its queue and concurrency budget, PerfManager with its single slot, the *)
(* runner processes, and the rows both keep in the store.                  *)
(*                                                                         *)
(* A run has at most one coroutine at work on it at a time: the start that *)
(* creates it, the pump that launches it, its _watch, or the cancel that   *)
(* drops it.  task[r].at says where that coroutine waits; a run that       *)
(* waits in the queue has none.  A step is the code between two awaits.    *)
(*                                                                         *)
(* An operator whose name ends in _Word is a variation of the operator     *)
(* after it with one bug in it; no specification uses it.                  *)
(***************************************************************************)
EXTENDS Integers, SequencesExt, FiniteSetsExt

CONSTANTS
    Evals,             \* evaluation runs that may be asked for
    Perfs,             \* load tests that may be asked for
    None,
    Size,              \* eval_batch_size of each evaluation
    Budgets,           \* values the operator gives concurrency_budget
    Deletable,         \* runs whose row somebody deletes
    MaxRestarts,       \* bound on restarts of the backend
    LaunchMayFail,     \* a launch may raise (model removed, disk, Popen)
    StoreMayFail       \* a write of the store may raise

Runs == Evals \cup Perfs

ASSUME RunsAssumption == /\ Evals \cap Perfs = {}
                         /\ None \notin Runs
                         /\ Deletable \subseteq Runs
ASSUME SizeAssumption == Size \in [Evals -> Nat \ {0}]
ASSUME BudgetsAssumption == Budgets # {} /\ Budgets \subseteq Nat \ {0}
ASSUME ConfigAssumption == /\ MaxRestarts \in Nat
                           /\ LaunchMayFail \in BOOLEAN
                           /\ StoreMayFail \in BOOLEAN

VARIABLES
    em,          \* EvalManager: queue, pending requests, batch sizes, processes
    pm,          \* PerfManager: the current run and the processes
    cancelled,   \* the _cancelled sets of both managers
    budget,      \* EvalManager.concurrency_budget
    task,        \* the coroutine of each run
    row,         \* status of each run in the store
    live,        \* runner processes that exist
    asked,       \* history: runs whose cancel was accepted
    restarts     \* history: restarts of the backend so far

vars == <<em, pm, cancelled, budget, task, row, live, asked, restarts>>

Final == {"completed", "failed", "cancelled"}
Stage == Final \cup {"new", "creating", "waiting", "starting", "watched",
                     "pumping", "dropping", "over"}

\* A coroutine that waits at a place, and for a launch the load test whose
\* _watch runs the pump (None: a pump with nothing to do after it).
At(stage) == [at |-> stage, for |-> None]

EvalBooks == [queue : Seq(Evals), pending : SUBSET Evals,
              batch : SUBSET Evals, procs : SUBSET Evals]
Tasks == [Runs -> [at : Stage, for : Perfs \cup {None}]]
PerfBooks == [current : Perfs \cup {None}, procs : SUBSET Perfs]

Empty == [queue |-> <<>>, pending |-> {}, batch |-> {}, procs |-> {}]
Idle == [current |-> None, procs |-> {}]

-----------------------------------------------------------------------------
(***************************************************************************)
(* EvalManager                                                             *)
(***************************************************************************)

EvalBusy == em.procs # {} \/ em.queue # <<>>

\* A count of the load of the runs the store shows running.
InUse_ByRow(books) ==
    MapThenSumSet(LAMBDA x : Size[x], {x \in books.procs : row[x] = "running"})

InUse(books) == MapThenSumSet(LAMBDA x : Size[x], books.procs \cap books.batch)

Fits(books) ==
    \/ books.procs = {}
    \/ InUse(books) + Size[Head(books.queue)] <= budget'

\* The pump only looks at its own queue.
Admits_IgnoresBenchmark(books) == books.queue # <<>> /\ Fits(books)

Admits(books) ==
    /\ books.queue # <<>>
    /\ pm'.current = None
    /\ Fits(books)

\* What _watch decides from the _cancelled set, the exit code and the result.
Verdicts_ReturnCode(r) == {"completed", "failed"}

Verdicts(r) == IF r \in cancelled THEN {"cancelled"} ELSE {"completed", "failed"}

\* The pump's caller goes on at a stage; only the _watch of a load test has
\* anything left to do after its pump.
Caller(owner, tasks, stage) ==
    IF owner = None THEN tasks ELSE [tasks EXCEPT ![owner] = At(stage)]

\* _launch of the run x that was just taken from the queue, up to the await of
\* start_eval_run.  Its early return for a missing request is never taken: a
\* queued run has its request (Books).
Launch(x, owner, tasks, books) ==
    LET popped == [books EXCEPT !.queue = Tail(@), !.pending = @ \ {x}]
    IN  /\ \/ /\ em' = [popped EXCEPT !.procs = @ \cup {x}]
              /\ live' = live \cup {x}
              /\ task' = [Caller(owner, tasks, "pumping")
                            EXCEPT ![x] = [at |-> "starting", for |-> owner]]
           \/ /\ LaunchMayFail
              /\ em' = popped
              /\ live' = live
              /\ task' = [Caller(owner, tasks, "over") EXCEPT ![x] = At("over")]
        /\ cancelled' = cancelled

\* _pump from its loop condition to its next await or its end, on the books and
\* the tasks its caller leaves; a caller goes on with its verdict when it ends.
Pump(owner, tasks, books) ==
    \/ /\ Admits(books)
       /\ Launch(Head(books.queue), owner, tasks, books)
    \/ /\ ~Admits(books)
       /\ em' = books
       /\ \E v \in Verdicts(owner) : task' = Caller(owner, tasks, v)
       /\ cancelled' = cancelled \ {owner}
       /\ live' = live

EvalStart(x) ==
    /\ task[x].at = "new"
    /\ row' = [row EXCEPT ![x] = "queued"]
    /\ UNCHANGED <<pm, budget, asked, restarts>>
    /\ Pump(None, [task EXCEPT ![x] = At("waiting")],
            [em EXCEPT !.queue = Append(@, x),
                       !.pending = @ \cup {x},
                       !.batch = @ \cup {x}])

\* start_eval_run has returned: _launch hands the run to _watch, and the pump
\* that called it takes its next turn.
Started(x) ==
    /\ task[x].at = "starting"
    /\ row' = [row EXCEPT ![x] = IF @ = "queued" THEN "running" ELSE @]
    /\ UNCHANGED <<pm, budget, asked, restarts>>
    /\ Pump(task[x].for, [task EXCEPT ![x] = At("watched")], em)

\* start_eval_run has raised: nobody watches the process, and the exception
\* ends the pump and its caller.
StartedRaises(x) ==
    /\ StoreMayFail
    /\ task[x].at = "starting"
    /\ task' = [Caller(task[x].for, task, "over") EXCEPT ![x] = At("over")]
    /\ UNCHANGED <<em, pm, cancelled, budget, row, live, asked, restarts>>

\* _watch returns for a cancelled run before it writes the row.
WatchEval_ReturnsEarly(x) ==
    /\ task[x].at = "watched"
    /\ x \notin live
    /\ em' = [em EXCEPT !.procs = @ \ {x}, !.batch = @ \ {x}]
    /\ cancelled' = cancelled \ {x}
    /\ \E v \in IF x \in cancelled THEN {"over"} ELSE Verdicts(x) :
          task' = [task EXCEPT ![x] = At(v)]
    /\ UNCHANGED <<pm, budget, row, live, asked, restarts>>

\* _watch from the exit of the process to its write of the verdict.
WatchEval(x) ==
    /\ task[x].at = "watched"
    /\ x \notin live
    /\ em' = [em EXCEPT !.procs = @ \ {x}, !.batch = @ \ {x}]
    /\ cancelled' = cancelled \ {x}
    /\ \E v \in Verdicts(x) : task' = [task EXCEPT ![x] = At(v)]
    /\ UNCHANGED <<pm, budget, row, live, asked, restarts>>

\* _finish: the verdict is written, or given up after the last attempt.
Recorded(r) ==
    \/ row' = [row EXCEPT ![r] = IF @ = "deleted" THEN @ ELSE task[r].at]
    \/ StoreMayFail /\ row' = row

EvalFinished(x) ==
    /\ task[x].at \in Final
    /\ Recorded(x)
    /\ UNCHANGED <<pm, budget, asked, restarts>>
    /\ Pump(None, [task EXCEPT ![x] = At("over")], em)

\* A cancelled run stays in the queue.
CancelQueued_StaysQueued(x) ==
    /\ x \in ToSet(em.queue)
    /\ em' = [em EXCEPT !.pending = @ \ {x}, !.batch = @ \ {x}]
    /\ row' = [row EXCEPT ![x] = IF @ = "deleted" THEN @ ELSE "cancelled"]
    /\ UNCHANGED <<pm, cancelled, budget, task, live, asked, restarts>>

\* A cancelled run leaves its request behind.
CancelQueued_KeepsRequest(x) ==
    \E i \in DOMAIN em.queue :
        /\ em.queue[i] = x
        /\ em' = [em EXCEPT !.queue = RemoveAt(@, i), !.batch = @ \ {x}]
        /\ task' = [task EXCEPT ![x] = At("dropping")]
        /\ UNCHANGED <<pm, cancelled, budget, row, live, asked, restarts>>

\* cancel of a run that waits in the queue.
CancelQueued(x) ==
    \E i \in DOMAIN em.queue :
        /\ em.queue[i] = x
        /\ em' = [em EXCEPT !.queue = RemoveAt(@, i),
                            !.pending = @ \ {x},
                            !.batch = @ \ {x}]
        /\ task' = [task EXCEPT ![x] = At("dropping")]
        /\ UNCHANGED <<pm, cancelled, budget, row, live, asked, restarts>>

\* Its write of the row, which nobody retries.
Dropped(x) ==
    /\ task[x].at = "dropping"
    /\ task' = [task EXCEPT ![x] = At("over")]
    /\ \/ /\ row' = [row EXCEPT ![x] = IF @ = "deleted" THEN @ ELSE "cancelled"]
          /\ asked' = asked \cup {x}
       \/ /\ StoreMayFail
          /\ UNCHANGED <<row, asked>>
    /\ UNCHANGED <<em, pm, cancelled, budget, live, restarts>>

\* The API's change of the budget.
SetBudget(b) ==
    /\ budget' = b
    /\ UNCHANGED <<pm, row, asked, restarts>>
    /\ Pump(None, task, em)

-----------------------------------------------------------------------------
(***************************************************************************)
(* PerfManager                                                             *)
(***************************************************************************)

\* The API's check that no evaluation is about, and start up to its await.
PerfStart(p) ==
    /\ task[p].at = "new"
    /\ ~EvalBusy
    /\ pm.current = None
    /\ task' = [task EXCEPT ![p] = At("creating")]
    /\ UNCHANGED <<em, pm, cancelled, budget, row, live, asked, restarts>>

\* The row is inserted; the launch follows without another look at the slot.
PerfLaunched(p) ==
    /\ task[p].at = "creating"
    /\ row' = [row EXCEPT ![p] = "running"]
    /\ \/ /\ pm' = [current |-> p, procs |-> pm.procs \cup {p}]
          /\ live' = live \cup {p}
          /\ task' = [task EXCEPT ![p] = At("watched")]
       \/ /\ LaunchMayFail
          /\ task' = [task EXCEPT ![p] = At("over")]
          /\ UNCHANGED <<pm, live>>
    /\ UNCHANGED <<em, cancelled, budget, asked, restarts>>

\* A load test that ends wakes nobody.
WatchPerf_NoPump(p) ==
    /\ task[p].at = "watched"
    /\ p \notin live
    /\ pm' = [current |-> IF pm.current = p THEN None ELSE pm.current,
              procs |-> pm.procs \ {p}]
    /\ cancelled' = cancelled \ {p}
    /\ \E v \in Verdicts(p) : task' = [task EXCEPT ![p] = At(v)]
    /\ UNCHANGED <<em, budget, row, live, asked, restarts>>

\* _watch from the exit of the process: the slot is given back and the
\* evaluations that waited for it are pumped, before the verdict.
WatchPerf(p) ==
    /\ task[p].at = "watched"
    /\ p \notin live
    /\ pm' = [current |-> IF pm.current = p THEN None ELSE pm.current,
              procs |-> pm.procs \ {p}]
    /\ UNCHANGED <<budget, row, asked, restarts>>
    /\ Pump(p, task, em)

PerfFinished(p) ==
    /\ task[p].at \in Final
    /\ Recorded(p)
    /\ task' = [task EXCEPT ![p] = At("over")]
    /\ UNCHANGED <<em, pm, cancelled, budget, live, asked, restarts>>

-----------------------------------------------------------------------------
(***************************************************************************)
(* Both managers, the store, the processes and the backend                 *)
(***************************************************************************)

\* The row shows the cancel at once.
CancelRunning_MarksRow(r) ==
    /\ r \in em.procs \cup pm.procs
    /\ cancelled' = cancelled \cup {r}
    /\ asked' = asked \cup {r}
    /\ row' = [row EXCEPT ![r] = IF @ = "deleted" THEN @ ELSE "cancelled"]
    /\ UNCHANGED <<em, pm, budget, task, live, restarts>>

\* cancel of a run that has a process; an executor thread signals it.
CancelRunning(r) ==
    /\ r \in em.procs \cup pm.procs
    /\ cancelled' = cancelled \cup {r}
    /\ asked' = asked \cup {r}
    /\ UNCHANGED <<em, pm, budget, task, row, live, restarts>>

DeleteRow(r) ==
    /\ r \in Deletable
    /\ row[r] \notin {"none", "deleted"}
    /\ row' = [row EXCEPT ![r] = "deleted"]
    /\ UNCHANGED <<em, pm, cancelled, budget, task, live, asked, restarts>>

ProcExits(r) ==
    /\ r \in live
    /\ live' = live \ {r}
    /\ UNCHANGED <<em, pm, cancelled, budget, task, row, asked, restarts>>

\* The backend dies and boots: its memory is new, the runners live in sessions
\* of their own, and the boot marks the rows that were not final.
Restart ==
    /\ restarts < MaxRestarts
    /\ restarts' = restarts + 1
    /\ em' = Empty
    /\ pm' = Idle
    /\ cancelled' = {}
    /\ budget' \in Budgets
    /\ task' = [r \in Runs |-> IF task[r].at = "new" THEN task[r] ELSE At("over")]
    /\ row' = [r \in Runs |->
                 IF row[r] \in {"queued", "running"} THEN "failed" ELSE row[r]]
    /\ UNCHANGED <<live, asked>>

-----------------------------------------------------------------------------

Init ==
    /\ em = Empty
    /\ pm = Idle
    /\ cancelled = {}
    /\ budget \in Budgets
    /\ task = [r \in Runs |-> At("new")]
    /\ row = [r \in Runs |-> "none"]
    /\ live = {}
    /\ asked = {}
    /\ restarts = 0

EvalStep(x) ==
    Started(x) \/ StartedRaises(x) \/ WatchEval(x) \/ EvalFinished(x) \/ Dropped(x)

PerfStep(p) == PerfLaunched(p) \/ WatchPerf(p) \/ PerfFinished(p)

Next ==
    \/ \E x \in Evals : EvalStart(x) \/ CancelQueued(x) \/ EvalStep(x)
    \/ \E p \in Perfs : PerfStart(p) \/ PerfStep(p)
    \/ \E r \in Runs : CancelRunning(r) \/ DeleteRow(r) \/ ProcExits(r)
    \/ \E b \in Budgets : SetBudget(b)
    \/ Restart

Spec == Init /\ [][Next]_vars

\* The event loop resumes every coroutine that can go on, and a process that
\* was cancelled dies (SIGTERM, then SIGKILL).
FairSpec ==
    /\ Spec
    /\ \A x \in Evals : WF_vars(EvalStep(x))
    /\ \A p \in Perfs : WF_vars(PerfStep(p))
    /\ \A r \in Runs : WF_vars(r \in cancelled /\ ProcExits(r))

-----------------------------------------------------------------------------
(***************************************************************************)
(* Properties                                                              *)
(***************************************************************************)

\* The variables keep their types: the books hold run ids, a row has a status
\* its table knows, and only evaluations are queued.
TypeOK ==
    /\ em \in EvalBooks
    /\ pm \in PerfBooks
    /\ cancelled \subseteq Runs
    /\ budget \in Budgets
    /\ task \in Tasks
    /\ row \in [Runs -> Final \cup {"none", "queued", "running", "deleted"}]
    /\ \A p \in Perfs : row[p] # "queued"
    /\ live \subseteq Runs
    /\ asked \subseteq Runs
    /\ restarts \in 0..MaxRestarts

\* The five books of EvalManager agree: exactly the queued runs have a request,
\* a run waits in the queue once, no run is both queued and running, and every
\* run whose process somebody is to watch has a slot and a batch size.
Agree(books, tasks) ==
    /\ IsInjective(books.queue)
    /\ ToSet(books.queue) = books.pending
    /\ \A x \in Evals :
          /\ (x \in books.pending) <=> (tasks[x].at = "waiting")
          /\ tasks[x].at \in {"starting", "watched"} => x \in books.procs
          /\ x \in books.procs => tasks[x].at \in {"starting", "watched", "over"}
          /\ x \in books.procs \cup books.pending => x \in books.batch

Books == Agree(em, task)

\* A launch never takes the processes over the budget unless it is the only
\* one: counted over the processes that exist, however many pumps (starts,
\* watches, budget changes) are in the middle of a launch.
NeverOvercommits ==
    [][(live' \ live) \cap Evals # {} =>
          LET mine == live' \cap em'.procs
          IN  \/ Cardinality(mine) = 1
              \/ MapThenSumSet(LAMBDA x : Size[x], mine) <= budget']_vars

\* A run that is shown as over has no process any more.
OutcomeIsDead == \A r \in live : row[r] \notin Final

\* That holds until the backend restarts: its next life records the unfinished
\* runs as failed and their runners survive.
FinishedIsDead == restarts = 0 => OutcomeIsDead

\* A run whose cancel was accepted is never recorded as completed or failed,
\* whenever its process happened to end, until the backend restarts.
CancelSticks ==
    restarts = 0 => \A r \in asked : row[r] \notin {"completed", "failed"}

\* A recorded outcome is never overwritten.
RowsAreFinal ==
    [][\A r \in Runs : row[r] \in Final => row'[r] \in {row[r], "deleted"}]_vars

\* No evaluation is launched while a load test holds the slot, also by a pump
\* that was suspended when the load test began.
EvalsYield == [][(live' \ live) \cap Evals # {} => pm'.current = None]_vars

Unfinished(r) == row[r] \in {"queued", "running"}
RunnersEnd == <>[](live = {})

\* If every runner ends, every run that was asked for is recorded as over in the
\* end (EvalManager._pump, PerfManager._watch): no queued run is forgotten when a
\* slot, or the load test, ends.
RunsEnd == RunnersEnd => <>[](\A r \in Runs : ~Unfinished(r))

\* A run whose cancel was accepted is recorded as cancelled in the end, even if
\* its runner would never end (EvalManager.cancel, PerfManager.cancel, _watch).
CancelEnds == <>[](\A r \in asked : row[r] \in {"cancelled", "deleted"})

\* api/perf.py: a load test owns the GPU, neither an evaluation nor another
\* load test runs beside it.
GpuIsExclusive == \A p \in live \cap Perfs : live = {p}

\* _watch: when a slot is freed the next queued run is admitted.
QueueIsServed ==
    RunnersEnd => \A x \in Evals : (x \in em.pending) ~> (x \notin em.pending)

\* PerfManager._finish: a finished run is never left stuck in running.
BenchmarkIsRecorded ==
    \A p \in Perfs : (task[p].at = "watched" /\ p \notin live) ~> ~Unfinished(p)

\* EvalManager._procs: the runs that are running.
SlotIsFreed == \A x \in Evals : (x \in em.procs \ live) ~> (x \notin em.procs)
=============================================================================
