# vLLMux (LLM-Router-Server-Dashboard) in TLA+

A verification project for the control plane of this repository: the backend that
starts, watches, sleeps and stops model servers, and the router in front of them.
TLA+ modules model the program's own concurrency, TLC checks them on small
instances, and TLAPS proves the properties that matter most for every instance.

This file is the inventory, the plan, and the account of what exists so far.
Paths are relative to `src/`; `llmops/` is `apps/backend/app/llmops/`, `app/` is
`apps/backend/app/`, `llm_router/` is `apps/router-server/src/llm_router/`.

## 1. Inventory

| Component | State it keeps | Operations | What is hard | What makes it correct |
|---|---|---|---|---|
| **Model lifecycle** `llmops/manager.py`, `registry.py`, `reconciler.py`, `state.py`, `instance.py`, `process.py`, `probes.py` | one `ModelInstance` per instance (observed and desired state, process handle, `managed`, restart count and backoff) in memory; the persisted desired table | `start`, `stop`, `sleep`, `wake`; every 2 s a pass: exit check, probe, timeout, auto-restart, convergence; adoption and replay at boot | many coroutines, one lock that is released around every slow step; processes crash on their own; the backend restarts while they survive | no process without a record, at most one per instance, STOPPING ends, crash loops are bounded, a wanted instance comes back, an unwanted one goes |
| **Lifespan** `app/main.py` | which loops run | boot order, leader-only loops created and cancelled | cancellation in the middle of a call | no half-done call is left behind |
| **Autoscaler** `llmops/autoscaler.py` | per group: `over_since`, `idle_since`, `last_scale_up` | `decide` (pure), `tick`, `_apply` | stale load, replicas that crash or are refused, cooldowns charged early, a new leader without timing | comes back to `min_ready`, serves lasting pressure, ends an idle group at its floors |
| **Load monitor** `llmops/load_monitor.py` | load averages per group | polls the router's metrics | a failing scrape counts as no traffic | one lost sample does not make a group shrink for good |
| **Leader election** `app/core/leader.py` with `leader_lease` of the store | `is_leader`; one lease row | acquire / renew each ttl/3, step down, release | expiry while the holder is slow; a failing database | at most one leader up to the overlap the TTL allows; some leader eventually |
| **Placement** `llmops/node_agent.py`, `scheduler.py`, `foreign_assignments` | nodes with heartbeat leases, assignments | heartbeat, `reschedule_once`, ownership test of every pass | a node that lapses and returns, store errors, rows read before and written after | what should run comes to run at its owner, what should not is stopped, the router learns the owner's address |
| **Events and notifier** `llmops/events.py`, `notifier.py` | `was_failed`, last alert per key | `emit_transition`, `notify` with severity floor and cooldown | events are classified after the store write, from the fields as they are by then | giving up is announced, changed sinks take effect |
| **Configuration overlay** `app/services/overlay.py`, `app/core/config_versioning.py`, `manager.import_overlay`, `sync_overlay_from_store` | overlay file, registry, version rows | create / update / delete model, snapshot, import, sync | edits, syncs and restores cross; each is several steps | replicas agree in the end, an import is recorded, what is current is in the history |
| **LoRA hot loading** `manager.load_lora`, `unload_lora` | adapters per instance, persisted list | load on every READY replica, roll back on failure | one replica of several fails | all replicas have it or none |
| **Evaluation runs** `app/eval/manager.py` | queue, pending requests, batch sizes, processes, cancelled set; run rows | `start`, `_pump`, `_launch`, `_watch`, `cancel` | re-entrant pump, cancel against launch, failures between steps | budget respected, FIFO, every run reaches a final status |
| **Performance runs** `app/perf/manager.py` | current run, processes, cancelled set | `start`, `_watch`, `cancel` | check-then-act across an await, exclusion with evaluations | one benchmark at a time, never together with evaluations |
| **Telemetry store** `packages/llmops-store` | all tables | one SQL statement or transaction per call | shared by replicas | leases and upserts are atomic |
| **Router proxy** `llm_router/router.py`, `backend_runtime_state.py`, `routing_strategies.py`, `metrics_poller.py`, `overlay.py` | in-flight counts, cooldowns, drain marks, metrics, config | `acquire` / `release` per request, failover, fallback, `/drain`, `/reload`, poller | streaming bodies that end at odd times, reload while requests run | in-flight returns to zero, a draining backend gets no new request, failover tries each backend once |
| **Router keys and rate limits** `llm_router/auth.py` | lookup cache, usage cache, request times | authenticate, count | answers of the store that arrive after the change they missed | a revoked key and a used-up quota are noticed within the time an entry lives |
| **Dashboard auth, SSO, audit** `app/core/auth.py`, `oidc.py`, `audit.py` | sessions, audit rows | login, checks | nothing of lifecycle kind | - |
| **Downloads, datasets** `app/services/*downloads.py`, `dataset_service.py` | job and task tables per folder | start, run, poll, delete | threads around library calls; restarts and deletions meet them | one writer per folder, the final size stays |
| **Launchers, command parsing** `llmops/launchers.py`, `services/vllm_command.py` | none | build a command line | - | - |
| **Observability, GPU, cost** `services/*`, `vllm_metrics_client.py` | caches | scrape, parse | - | - |
| **REST API** `app/api/*` | none | call the managers | concurrent requests | - |
| **Embedding server, frontend, migration, Helm/Grafana** | - | - | - | - |

Interactions. API handlers, the autoscaler and the reconcile loop all call the
manager as coroutines of one event loop and share the registry; its lock is held
only across short sections. The manager talks to the model servers (spawn, signal,
`/health`, `/sleep`, `/wake_up`), to the router (`/drain`, `/reload`) and to the
store. With a shared database several backends and routers run: one backend is
elected to run the scheduler and the autoscaler, each backend reconciles the
instances assigned to its node, and the router learns addresses from the store.

## 2. Plan

Order: the behaviour most of the system depends on first.

1. `ModelLifecycle` (section 3) - one node: manager, reconciler, boot, processes.
   Proofs: types, restart budget, restarts owed to crashed instances, ownership of
   STOPPING and of live states, and for start-only use without reboots that no process
   is orphaned or runs twice.
2. `RunQueue` (section 4) - evaluations and load tests: queue, budget, cancel,
   exclusion, rows. Proofs: types, the agreement of the books, the budget, outcomes
   against processes and cancels, final rows, launches against load tests.
3. `RouterProxy` (section 5) - failover and fallback, in-flight counts around
   streaming, drain marks and their poll, the backend's side of the drain. Proofs:
   types, exact counts, healthy instances are reached, a drained instance is idle.
4. `LeaderLease` with its abstract specification `SingletonRole`, and `Placement`
   (section 6). Proofs: the lease invariant and the refinement. Left: `OwnerStops`
   needs fairness and stays with TLC.
5. `ConfigOverlay`, `Autoscaler`, `Alerts`, `KeyAuth`, `Downloads` (section 7).
   Proofs: every safety property of the overlay, the alerts, the keys and the
   downloads. Left: types of `Autoscaler` and `Placement`.
6. `LoraLoad` (section 8).
7. Left: `DocumentedTransitions`, the state machine of `state.py`'s docstring as an
   abstract specification to which `ModelLifecycle` is mapped for single-caller
   use; the router's view of the configuration across replicas.

The suite is kept to twelve runs of a few minutes each. Components that share no
state that the other reads are checked by one run, `Fleet` or `Services` (`Fleet` holds
the liveness of the run queue, too): its initial
states choose which part plays, the others stay put, so a behaviour is one of one
component and the number of states is the sum and not the product. A configuration
that only shows how a statement fails stays beside the suite and is named below
under "further configurations".

Every module keeps recursion out of the modules that are proved about, declares
its parameters as constants with named assumptions, and has one action per handler
step.

## 3. The core: `ModelLifecycle`

### State and code

| Variable | Code |
|---|---|
| `inst[k]` | the `ModelInstance` of key `k`: `state`, `desired`, `proc`, `managed`, `restart_count`, and `next_restart_at` as none / pending / elapsed |
| `live[p]`, `term` | the operating system: which key process `p` serves, which processes were signalled |
| `desired[k]` | row `k` of the table `instance_desired` |
| `task[t]` | the frame of a coroutine: where it waits, its key, the handle in its local `proc`, `reset_restart` |
| `loop`, `boot` | local variables of `reconcile_once` / `converge_desired` and of `replay_desired` |
| `autoStarts`, `reboots` | history: auto-restarts accepted since the last READY or caller's start; crashes so far |

The backend is one event loop, so the model's unit of interleaving is the code
between two awaits at which somebody else can look or write. A section under
`registry.lock` is one action: every other access to the fields it touches takes
the lock, so an await inside (the probe, a store write) lets nothing in but process
deaths and other HTTP calls, which commute with the section. Steps outside the lock are separate:
the pre-flight with its verdict, the spawn in the executor, the HTTP call of a
sleep, the drain, the termination, the write of the desired table.

| Action | Code |
|---|---|
| `Request`, `Cancel` | an API handler or the autoscaler calls the manager; the leader-only loop it runs in is cancelled |
| `StartRefused`, `StartAccepted`, `Spawn`, `SpawnFails`, `Track` | `ModelManager.start` |
| `StopBegins`, `StopUnowned`, `Terminate`, `StopReaped` | `ModelManager.stop`, with `_drain_instance` as the wait before `Terminate` |
| `SleepRefused` ... `Mark` | `ModelManager.sleep`, `wake` |
| `PersistDesired` | `_persist_desired`; the write may be lost |
| `ReconcilePass` | the locked part of `reconcile_once`: every instance against its process and its probe |
| `CollectDue`, `RestartNext` | `_process_restarts` |
| `ReadDesired`, `SnapshotStates`, `ConvergeNext`, `ConvergeDone` | `converge_desired` |
| `BackoffElapses` | time reaches `next_restart_at` |
| `Reboot`, `ReplayRead`, `ReplayNext` | crash of the backend, `adopt_running` at boot, `replay_desired` of the new leader |
| `ProcDies` | a model server crashes or obeys its signal |

Operators named `X_Word` are variations of `X` with one bug; `PROJECT.json` names
the property that catches each.

### Assumptions of the model

* One node that can run every engine (`node_engines` empty), so no call is deferred
  and no assignment is foreign; several nodes are `Placement` (section 6).
* `auto_restart` is on (off is `MaxRestarts = 0`), a store is configured.
* `start_timeout` (300 s without log progress) does not elapse while a start is
  between its acceptance and the recording of its handle; Popen takes milliseconds.
* The probe of a port is answered by any live process of the key, as it is in
  the code, which probes the address and not the process.
* A spawn that fails sets `managed` to false (`manager.py:495`), so an instance whose
  spawn failed is outside `RestartArmed` and `CrashedIsRestarted`.
* Keys due for restart, converged or replayed are taken in any order (the code has
  the order of a dictionary).
* Registry edits (`ConfigOverlay`), LoRA (`LoraLoad`), GPU placement details and the
  router's side of the drain (`RouterProxy`) are left out here.

### Runs

All runs use `MCModelLifecycle`. Bounds: 1 or 2 keys, 1 or 2 callers (plus the
reconciler and the replayer, which call the manager too), 2 or 3 process
identities, `MaxRestarts` 0, 1 or 2, `MaxReboots` 0 or 1. A second caller is what the
races need: two concurrent calls on one key beside the reconciler's own. The
lifecycle of two keys meets only in the reconciler, so two keys matter where its
queue does (`LifecycleSupervise`). A process identity can be used again once no
record, frame or living process holds it, so the bound on `Pids` limits how many
exist together, not how many are ever spawned. `SpawnMayFail` is on where liveness is
checked: a spawn for which the bound leaves no identity then fails, as Popen may, and
does not wait. `PreflightMayFail` is on in `LifecycleRaces` only and `Cancellable` is
empty in all runs but `LifecycleBoot`: violations 3 and 4 below are what happens
otherwise, so no property of `LifecycleSupervise` or `LifecycleLive` speaks of a restart
that was charged and then refused, and `StoppingHasOwner` not of a stop that was cancelled.

| Run | Question | Answer |
|---|---|---|
| `LifecycleRaces` | two callers, start and stop, failing pre-flight, Popen and store: `RestartBudget`, `StoppingHasOwner`, `LiveBacked` | hold, 0.4 M states |
| `LifecycleSupervise` | two instances that are only started: `NoOrphan`, `OneProcess`, `RestartArmed` | hold |
| `LifecycleLive` | starts, stops, sleeps and wakes: `CallsReturn`, `CrashedIsRestarted`, `UnwantedIsStopped` under fairness | hold |
| `LifecycleBoot` | `WantedIsStarted` across a backend crash, with calls that may be cancelled and without auto-restart (`MaxRestarts = 0`), so that only the replay and the convergence can start the instance | holds |
| `LifecycleOrphan` | does `NoOrphan` survive stops? | no: finding |

Further configurations show behaviour described below; TLC finds their property
violated. `LifecycleDeadAdopted`: `DeathIsNoticed`. `LifecycleGhostSleep`:
`SleepingHasProcess`. `LifecycleCancel`: `StoppingHasOwner` when the autoscaler can be
cancelled. `LifecycleSupervise` with `PreflightMayFail = TRUE`: `RestartArmed`.
`SupervisedInv` and `ArmedInv` (section 9) can be added to `LifecycleSupervise` as
invariants; `ArmedInv` also holds with all operations where `SleepKeys = {}`.

Deadlock is checked in every run. The liveness runs use no symmetry.

### What the violations say

1. **Orphans.** `start` accepts every state but STARTING and READY and drops the
   lock before Popen. A stop in that window finds `proc` None, reports STOPPED and
   leaves; the start then records a process nobody wants, or, if a new start came
   first, one handle overwrites the other and a process is lost for good.
2. **Ghost sleepers.** `sleep` ends by writing SLEEPING whatever happened during
   its HTTP call. With `proc` None no later pass looks at the instance again.
3. **Lost restarts.** An attempt that a GPU pre-flight refuses was already charged
   and disarmed; nothing arms another, although budget is left.
4. **Abandoned stops.** Losing the lease cancels the autoscaler inside `stop`
   after STOPPING was written: the process keeps running under that state.
5. **A late STOPPED.** `PersistDesired` follows the release of the lock, so the row of a
   stop may be written after that of a newer start; the convergence then stops the new
   process. `UnwantedIsStopped` takes the row that was written last for what is wanted.
6. **Dead adoptions.** The exit check skips unmanaged instances and a failing probe
   is only noted, so an adopted instance that dies is READY for ever.

### Fairness

`FairSpec` assumes that the event loop resumes each coroutine that can go on (weak
fairness of each task's steps, of the reconcile loop and of the replay), that a
backoff ends, and that a signalled process dies, which `terminate_process_group`
ensures with SIGKILL after `stop_timeout`. HTTP calls have timeouts, hence the
failing alternative is always there. Callers, crashes and readiness are not fair.
With a fair event loop a step that may fail or succeed may do either for ever; the
liveness properties do not depend on which.

## 4. `RunQueue`: evaluations and load tests

### State and code

| Variable | Code |
|---|---|
| `em` | `EvalManager._queued`, `_pending`, the keys of `_batch` and of `_procs` |
| `pm` | `PerfManager._current`, the keys of `_procs` |
| `cancelled` | both `_cancelled` sets |
| `budget` | `concurrency_budget` |
| `task[r]` | where the one coroutine at work on run `r` waits; for a launch also the load test whose `_watch` runs the pump |
| `row[r]` | the column `status` of the run's row in `eval_runs` / `perf_runs`; "deleted" when the row is gone |
| `live` | runner processes that exist |
| `asked`, `restarts` | history: accepted cancels; restarts of the backend |

| Action | Code |
|---|---|
| `EvalStart` | `EvalManager.start`: the insert of the row, the append and the pump |
| `Pump`, `Launch` | `_pump` from its loop condition to its next await: the conjuncts of every action that runs the pump |
| `Started`, `StartedRaises` | `start_eval_run` returns or raises: the rest of `_launch` and the next turn of the pump that called it |
| `WatchEval`, `EvalFinished` | `_watch` up to its write of the verdict, and the pump in its `finally` |
| `CancelQueued`, `Dropped`; `CancelRunning` | `cancel` of a queued and of a running run |
| `SetBudget` | the API's change of the budget, which pumps |
| `PerfStart`, `PerfLaunched` | the API's test and `PerfManager.start` before and after the insert of the row |
| `WatchPerf`, `PerfFinished` | `PerfManager._watch`: slot back, pump, then the verdict |
| `DeleteRow` | deletion of a row, which no handler ties to the state of the run |
| `ProcExits` | a runner ends by itself or obeys a signal |
| `Restart` | the backend dies and boots, `mark_stale_*` |

A step is the code between two awaits. A pump has no frame of its own: between two
of its turns it waits in `start_eval_run` of the run it is launching, so the
`task` of that run carries it. Several pumps exist at once exactly when several
runs are in `starting`.

### Assumptions of the model

* One backend. `create_eval_run` and the append that follows its return are one
  step: until the append nothing knows the run.
* The early return of `_launch` for a missing request is left out. `Books` (proved)
  says that a queued run has its request, so the return is never taken.
* Whether a runner succeeds is open: the verdict is any that `_watch` may reach.
* Six failed attempts of `_finish` are one failing write.
* A run id is used once. Validation errors, which change nothing, are left out.

### Runs

`RunQueueSafety` uses `MCRunQueue`; `Fleet` holds the liveness of the queue, as a part
of its own in `MCFleet`, since the two share no state. Evaluations have sizes 1, 2 and 3, budgets 2 and 3 (so that
one evaluation exceeds the budget alone, two small ones fit together, and a larger
budget admits what a smaller one did not), one load test where one suffices. Three
evaluations are needed for a pump suspended in one launch while a second one pops a
second run and a third waits.

| Run | Question | Answer |
|---|---|---|
| `RunQueueSafety` | failing launches and writes, a deleted row, a restart: `Books`, `RowsAreFinal`, `FinishedIsDead`, `CancelSticks`, `NeverOvercommits`, `EvalsYield` | hold, 1.5 M states |
| `Fleet`, queue | `RunsEnd`, `CancelEnds` under fairness, three evaluations, budget 3, no failing launches or writes | hold |

Further configurations show behaviour described below; TLC finds their property
violated. `RunQueueShared`: `GpuIsExclusive`, with a handler that promises a load test
"must own the GPU" (`app/api/perf.py:96`). `RunQueueStall`: `QueueIsServed` when a launch can raise. `RunQueueSlot`:
`SlotIsFreed` when a write can fail. `RunQueueRestart`: `OutcomeIsDead` across a
restart. `RunQueueLostBenchmark`: `BenchmarkIsRecorded` when the pump of a finished load
test raises.

`RunsEnd` and `CancelEnds` are stated over all runs at once: if no runner is left in the
end, no run is left unfinished; the rows of the accepted cancels are final in the end.
A row never leaves its outcome, so this is the same as one statement for each run.
A larger budget wakes the queue, too, and is exercised by `RunQueueSafety`; under the one
budget of `Fleet` the endings alone have to. `Books` allows a queued row that no book
holds, which a failed launch leaves (`RunQueueStall`).

`EvalsYield` and `GpuIsExclusive` differ on purpose: the first says that no pump
launches an evaluation while `_current` is set, which the code ensures; the second
speaks of processes, and the slot is set too late for it.

### What the violations say

1. **Two load tests, shared GPU.** `PerfManager.start` and its handler test first,
   await the insert of the row, and take the slot last. Another load test, or an
   evaluation, slips in between.
2. **Stalled queue.** A launch that raises ends the pump. The next wake-up may never
   come when nothing is running.
3. **Lost verdict.** The load test's `_watch` pumps the evaluations before it writes
   its own verdict and does not guard against their exceptions.
4. **Leaked slot.** A failing `start_eval_run` leaves a process in `_procs` that
   nobody watches.
5. **Surviving runners.** Runners outlive the backend that records them as failed.

### Fairness

Each coroutine that can go on does (weak fairness of the steps of each run). A
cancelled process dies, since `terminate_process_group` escalates to SIGKILL; no
other process has to end, so `RunsEnd` is stated under `RunnersEnd`. Requests,
budget changes, deletions and restarts are not fair.

## 5. `RouterProxy`: requests, counts and drains

### State and code

| Variable | Code |
|---|---|
| `req[r]` | the frame of `_proxy_to_backend`: the await it is at or how it ended (`at`), its replica, its place in the route chain (`pos`), `tried`, the chosen instance, the closed 5xx response that `response` may still hold (`stale`), how it will end (`reply`); `lastResort` is history: it was given a draining instance for want of another |
| `inflight[rt]` | `backend_inflight` of a replica |
| `asleep[rt]` | the instances whose cached metrics say `is_sleeping` |
| `marks[rt]` | `app.state.draining` |
| `poll[rt]` | where `poll_metrics_forever` is, and the marks it has read |
| `stored` | table `draining` |
| `engine[i]`, `drain[i]` | what a model server is; the backend's stop or start of it |

| Action | Code |
|---|---|
| `Arrive`, `Proceed`, `Attempt`, `NoneLeft` | the two loops up to the next `__aenter__`: `build_route_chain`, `select_instance` with sleep and drain, `incr_inflight` |
| `Unreachable`, `ServerError`, `Closed` | a transport error; a 5xx with its `__aexit__`; the failover or fallback after either |
| `Answered`, `BodyRead`, `Exited` | a response that is served, `aread`, the `finally` |
| `StreamStarts`, `StreamEnds`, `HangsUp` | `event_stream`, which owns the count once the response was handed over |
| `StopBegins`, `Marked`, `DrainAnswered`, `DrainFails`, `Killed` | `_drain_instance` in `stop`, with `/drain` in the router up to its store write and after it |
| `Started`, `Unmarked`, `UndrainEnds` | `_undrain_instance` in `start`, `/undrain` |
| `PollAsleep`, `PollReads`, `PollRefreshes`, `Expires` | one turn of the poller; a mark's ttl |
| `RouterRestarts` | a replica dies and boots empty |

### Assumptions of the model

* The routing strategy may pick any candidate. Random, round robin and the
  affinities can; load scores and cooldowns only weigh candidates, never remove one.
* The configuration does not change during a request, and live addresses are right.
* A model server that has crashed refuses, so it needs no state of its own; one that
  sleeps or is down may also refuse or, asleep, answer 5xx. `Healthy` instances
  always answer and are never stopped or put to sleep.
* A mark expires everywhere in one step, and never while the backend drains, since
  it renews the mark each poll with a ttl above the drain timeout.
* A probe of `is_sleeping` that fails counts as not sleeping, as in the code.
* When the POST of a drain times out, the handler's store write may still be made;
  what the handler answers then is lost.
* `ErrorTypes`: model servers report errors as JSON. `EarlyHangup`: a client may leave
  in the moment between the response's headers and the generator's first step.
  `PollsCross`: the poller's read may overlap a `/drain` of the same replica.

### Runs

All runs use `MCRouterProxy`. Two instances in the primary group make a failover, one
fallback group makes a fallback; two requests make the counts exceed one and let one
request drain while another chooses. Two replicas are needed only for what they share.

| Run | Question | Answer |
|---|---|---|
| `RouterSafety` | one replica that may restart, two groups, a stop, a sleeper: `InflightExact`, `DrainedIsIdle`, `HealthyServes` | hold, 1.2 M states |
| `RouterLive` | two replicas, crossing polls, failing store writes, hang-ups, no healthy instance, every type of error: `RequestsEnd` and `MarksSpread` under fairness | hold, 0.3 M states |

Further configurations show behaviour described below; TLC finds their property
violated. `RouterPollRace`: `DrainedIsIdle` when a poll crosses a `/drain`; with two
replicas and `PollsCross = FALSE`, when another replica serves from the instance.
`RouterLeak`: `InflightExact` when a client leaves early. `RouterDoubleRelease`:
`InflightExact` when a 5xx is an event stream.

### What the violations say

1. **One replica's count.** The backend asks `/drain` through one URL, and the replica
   that answers knows its own requests only. The mark reaches the others within a
   poll; their requests are not waited for.
2. **A poll that crosses.** The poller reads the marks, `/drain` writes its own, then
   the poller replaces the local marks by what it read: for one poll the instance is
   chosen again although the drain goes on, and may already have been reported idle.
3. **A count that stays.** The generator gives the count back in its `finally`, and a
   generator that is never started has none. The instance then looks busier for ever
   and every later drain of it runs into its timeout.
4. **A closed response.** After a 5xx in the last group the response is closed for a
   failover but stays bound; when `select_instance` then finds nobody left awake, the
   closed response is served in place of the 503, which ends as a 500.
5. **A count given back twice.** If that closed response is an event stream, its
   generator's `finally` releases the count a second time.

### Fairness

A request that has arrived goes on: a server answers or refuses, `aread` ends, the
generator is started by Starlette. (A model server that generates for ever is outside
the statement: the router sets no read timeout on purpose.) The poller polls. Arrivals,
stops, starts, sleeps, expiries and restarts are not fair.

## 6. The fleet: `LeaderLease`, `SingletonRole`, `Placement`

### State and code

| Variable | Code |
|---|---|
| `lease` | the row of `leader_lease`: holder, and the time until it expires |
| `elector[r]` | `LeaderElector.run` of a replica: where it is, how long it has been there, `acts` for `is_leader` and everything its callbacks started |
| `desired`, `assigned`, `beating`, `route` | tables `instance_desired`, `assignments`, `nodes` (those not lapsed), `instances_live` |
| `up`, `live[n]` | hosts, and the processes on each |
| `job[n][a]` | a start or a stop after its local part: what it still has to write, for the API's call and for the pass |
| `pass[n]` | a reconcile pass: what `foreign_assignments` and `converge_desired` have read, the keys left |
| `sched` | `reschedule_once`: what it has read, the changes left to write |
| `faults`, `used` | what is spent of the bounds on faults and calls |

| Action | Code |
|---|---|
| `Upsert`, `Answer`, `StoreFails` | the two statements of `try_acquire_leader`, and what `run` makes of the answer or of an exception |
| `Acquired`, `Released`, `LoopsEnd` | `_on_acquire`, `_on_release` and `_step_down` return |
| `Heartbeat`, `Tick` | the pause of ttl/3; time |
| `Boot`, `Shutdown`, `Delete`, `Crash` | the lifespan of a replica, `release_leader`, a kill |
| `Call`, `Persist`, `Claim` | `start`, `stop` or `_defer_to_owner` up to their first write, and the two writes |
| `ReadAssignments`, `ReadNodes`, `Backfill`, `ReadDesired`, `Act` | a reconcile pass, statement by statement |
| `ReadWanted`, `ReadLive`, `Place`, `Assign`, `SchedulerStops` | a placement pass |
| `Heartbeats`, `Lapses`, `RouteLapses` | `heartbeat_once` and the leases of rows |
| `HostDies`, `HostReturns` | a host with all it runs |

`SingletonRole` is what the loops rely on: a replica takes the role only when nobody
plays it. `LeaderLease` implements it with `playing` mapped to the replicas whose
`acts` is true, a mapping that counts the replay and the cancellation of loops as
playing: these are the moments at which an overlap would hurt.

### Assumptions of the model

* One clock for the store and all replicas. Each replica reads it at the beginning of
  a round, so the row it writes or the answer it judges may be `RoundMax` old.
* `Timely`: the pause and two rounds fit into the ttl. With the defaults (ttl 15 s,
  pause 5 s) a round may take 5 s. Beyond it the code promises nothing, since a
  leader only learns of its loss when its next call returns.
* `release_leader` may fail silently; a killed process leaves its row.
* In `Placement` a process of a node starts or stops at once (inside a node that is
  `ModelLifecycle`), free memory only orders candidates, and one leader schedules,
  which may lose its role between any two statements.
* An `on_acquire` that raises ends the elector of its replica; it steps down and
  releases on its way out, as in `Shutdown`, and never contends again. It is left out,
  as replay catches the errors of the store.
* `Backfill` writes the live addresses and does not fail; `remove_instance_live`, when
  an instance leaves READY, is left to `RouteLapses`. `RoutedToOwner` says what is so in
  the end.

### Runs

`Fleet` uses `MCFleet`. Two replicas suffice for an overlap and a steal. Ttl 5, pauses
of 1 and rounds of up to 2 make every relation between the three times occur; two
faults allow a failing call and a crash, in either order. Two nodes, one instance that
both can run, one call by a user and one mishap (a dead host, a late heartbeat, a
failing read or write) let every pass read before and act after every write. Both
nodes support the engine, so `_defer_to_owner` is not reached in this run. The third
part of `MCFleet` is the run queue of one node (section 4).

| Run | Question | Answer |
|---|---|---|
| `Fleet` | `PlaysRole` (the refinement), `RoleIsTaken`, `FailsOver`, `OwnerStops`, `RoutedToOwner`; `RunsEnd`, `CancelEnds` of the queue | hold, 0.17 M states |

Further configuration: `FleetTwoOwners` violates `OneNodeRuns`.

### What the violation says

**Two owners.** A start launches first and claims the assignment last, and an
assignment binds other nodes only while its owner beats. A start through another
replica, or a heartbeat that is late by one lease, ends with two processes of an
instance; nothing stops the copy that is not the owner's, because a pass skips what
is assigned elsewhere. `RoutedToOwner` says what still holds then: the router is
led to the owner, and the copy only holds memory.

### Fairness

A replica that is up runs its elector, and time passes; a host that is up runs its
passes, finishes its calls and beats; a dead host's row lapses; some leader
schedules, which `RoleIsTaken` supports. Calls, faults, returns and the lapse of an
address are not fair.

## 7. The services: `ConfigOverlay`, `Autoscaler`, `Alerts`, `KeyAuth`, `Downloads`

### State and code

| Variable | Code |
|---|---|
| `mode` | SQLite and one backend, or Postgres and several |
| `file[r]`, `conf[r]`, `reg[r]`, `procs[r]` | overlay file, `manager.config`, registry and processes of a backend |
| `versions`, `syncing[r]`, `start` | table `config_versions`; a sync pass that has read; a start between its resolved parameters and its launch |
| `req[q]` | a request that changes the overlay, from the middleware's first hash to its snapshot |
| `state`, `load`, `stats`, `timing`, `decided`, `enabled` | the replicas of a group, its traffic, `app.state.load_stats`, `GroupTiming` as ages, the action `_apply` has yet to make, the policy |
| `model`, `emits`, `stage` | the fields of an instance that events read; transitions being recorded by the pass and by a task; the phase of the pass |
| `sent`, `rows`, `sinks`, `admin` | `Notifier._last_sent`, table `alert_sinks`, `Notifier.sinks`, requests that change them |
| `cred`, `usage`, `period` | what the token is in the store, when its quota was used up, the quota period |
| `cache`, `qcache`, `hits`, `call` | `_cache`, `_quota_cache`, `_hits`, the requests in `authenticate` |
| `current`, `task`, `jobs`, `onDisk` | `_jobs[key]`, `_tasks[key]`, the job objects with their `_run` and `_poll`, the folder |
| `quiet`, `told`, `silent`; `held`, `late`, `spent` of a call; `mark` of a request | history for the properties |

| Action | Code |
|---|---|
| `Arrive`, `Handle` (`Create`, `Update`, `RemoveModel`, `SetAutoscale`, `SetFallback`, `UpdateEmbedding`), `Snapshots`, `Select`, `Insert` | the middleware around a handler, and `record_config_version` |
| `ImportBegins`, `ImportStops`, `ImportSaves`, `ImportSelects`, `ImportInserts`, `ImportAligns`, `ReloadsRouter` | `import_overlay`, rollback and forced import |
| `SyncReads`, `SyncApplies`, `Reload` | `sync_overlay_from_store`; a router's `/reload`, which hydrates the shared file |
| `Resolves`, `LaunchesOne`, `StopsOne` | `start` before and after its GPU checks, `stop` |
| `Poll`, `Decide` (`HoldsFloor`, `ScalesUp`, `Watches`, `ScalesDown`), `Apply` | `load_monitor_loop`, `decide` with `tick`, `_apply` |
| `Toggles`, `SwitchedByHand`, `RestedByHand`, `NewLeader` | the API's change of the policy, calls by hand, another leader's loops |
| `PassFails`, `PassReadies`, `PassRestarts`, `TaskStarts` ... `TaskWakes`, `Emit` | the transitions of the reconciler and of calls; `emit_transition` after its await |
| `Writes`, `Lists`, `SetsSinks` | the API of sinks and `refresh_sinks` |
| `Arrives`, `ReadsKey`, `AnswersKey`, `ReadsRole`, `AnswersRole`, `ReadsUsage`, `AnswersUsage` | `authenticate` with `_check_rate` and `_check_quota`, each read at its moment |
| `Revokes`, `ChangesRole`, `Logged`, `Elapses` | changes of keys and operators, the request log, time |
| `StartsDownload` ... `Completes`, `FailsDownload`, `Samples` ... `SamplesAgain`, `Warmed`, `Deleted`, `ForgetsJobs` | the three download managers |

### Assumptions of the model

* An overlay is a map from items to parameters: instances, and one item for what no
  record of the registry holds (policies, shared settings). A
  proposed overlay passes `build_merged_config`; whether its engine has a launcher is part
  of the parameters (`Unsupported`), since create and update look that up after they have
  saved. Two overlay entries for one key are one item.
* Waits for `registry.lock` between a save and the alignment of the registry, in
  `SyncApplies` and at the end of create and update, are not steps: nothing that the
  properties compare differs between the two moments.
* With a shared store the run launches nothing (`Bounded` of `MCServices`),
  so `FleetAgrees` is checked for stopped instances; `ConfigOrphan` shows the others.
* SQLite runs statements in the order they are issued; the answers of Postgres come
  in any order.
* One group of replicas, one model, one token, one folder: the code keeps its state per
  group, model, token and folder, and the parts read nothing of each other.
* Time is counted in passes of the autoscaler, in ticks of a cooldown, of a cache entry.
  Ages stop counting where nothing compares them any more.
* In `Autoscaler` every replica is managed by the backend: an adopted READY replica
  cannot be stopped by it (`manager.py:525`), and a group that holds one and sleeps none
  may stay above its floor. A stop's drain is one step with its end. A call by hand that
  was admitted before the policy came on may have its effect after it, as a setback.
  `Descends` is checked for an engine that can sleep.
* In `Alerts` a start is one step (its awaits are in `ModelLifecycle`); `InOrder` says that
  the answers of the store arrive in the order of its statements. A list of sinks
  that cannot be read after its row was committed (`api/alerts.py:79-82`,
  `notifier.py:178`) leaves the live sinks as they were until the next change; it is
  not modelled, and `SinksCurrent` does not claim anything of it. A spawn that fails
  makes its instance unmanaged: it is announced as failed, not as given up, and
  `GaveUpTold` does not count it as abandoned.
* In `KeyAuth` the rate of a key is Rpm requests per `Minute`; the clock that counts for
  a cache entry is the one `authenticate` read at the beginning.

### Runs

`Services` uses `MCServices`. Two requests with one instance and two values, one of an
engine without a launcher, make edits
cross imports and syncs; on two backends, one request each. Two replicas with floor 1 and ceiling 2
let a group grow and shrink; windows of 1 and a cooldown of 2 passes let a pass fall
inside and outside each. One restart and four troubles allow a model to fail,
recover and give up, and a sink to come and go. Two callers share a cache entry
while a third change happens in the store. Two job objects let one follow the other;
a folder of size 1 is either empty or full.

| Run | Question | Answer |
|---|---|---|
| `Services`, overlay | `FleetAgrees`, `ImportIsRecorded`, `CurrentIsKept` | hold |
| `Services`, autoscaler | `FloorHeld`, `PressureServed`, `Descends` | hold |
| `Services`, alerts | `GaveUpTold`, `SinksCurrent` | hold |
| `Services`, keys | `RevocationBound`, `QuotaBound` | hold |
| `Services`, downloads | `OneRunner`, `SizeIsFinal` | hold; 0.44 M states in all |
| `ConfigUnkept` | is every overlay that a request has put into use in the history (`CurrentIsAlwaysKept`)? | no: finding |

Further configurations, whose property TLC finds violated. `ConfigLost`:
`ChangeIsRecorded`. `ConfigOrphan`: `NothingOrphaned`. `ScaleEarlySleep`: `SleepsWhenIdle`.
`AlertSilent`: `GaveUpAlways`. `AlertRecovered`: `RecoveredIsUp`. `KeyRole`:
`RoleIsImmediate`. `DownloadGone`: `CompletedIsOnDisk`. With `InOrder = FALSE`,
`Services` violates `SinksCurrent`.

### What the violations say

1. **Lost edits.** In HA mode an edit lives in one file until its snapshot is
   inserted. A reload or a sync pass in between copies the older version over it,
   and the middleware then sees nothing to record: accepted, and gone.
2. **Saved and refused.** Create and update save the overlay and replace the
   configuration, and then look for the launcher of the engine. The schema accepts
   `llamacpp` and `trtllm`, for which `main.py` registers none: the request is answered
   409, the middleware, which looks at successful requests only, records nothing, and
   the overlay stays in use. A created instance is then configured and not registered; an
   update leaves the record with its old parameters and its old launcher. One request
   suffices, although `config_versioning.py` snapshots "whenever a request changes it" with
   "total coverage" and the manager means to "validate the merged result before
   persisting anything". `Edits` models both outcomes, and `late` marks the request.
3. **Back to what was there.** The middleware compares the overlay before a request
   with the one after it. Of three requests that cross, one can change the overlay and
   another can undo that while the third is still open: the one that undid finds what
   it had met and records nothing, and the version that is inserted last is another
   overlay. `CurrentIsKept` states what remains true with these two exceptions: once
   the requests are over, the overlay in use is in the history, or is what a request
   marked `back` had met, or what a request marked `late` saved.
4. **Orphans of a sync.** A sync aligns the registry without regard to what runs: a launch
   that resolved its parameters before records them under new ones, or under a
   record that is no longer registered.
5. **Sleep too early.** `idle_since` is kept while the policy is off and while
   the floor is being restored, so a group that had traffic meanwhile goes to
   sleep at once.
6. **A silent end.** When the last automatic restart is refused by a GPU check there is no
   transition, so no alert says that the model has been given up.
7. **A recovery of a model that is down.** Events are classified after the store write;
   the model may have stopped or failed again by then.
8. **Roles wait.** `update_operator` says that a role "takes effect immediately, incl.
   the router"; the router asks again only when its cache entry has expired.
9. **Completed and gone.** The routes that delete a folder ask no job. A download
   deleted under its writer completes with files missing.

### Fairness

A request that arrived is carried on, and every replica syncs. Both loops of the
autoscaler run, and a starting server answers its probe in the end. Everything else, the safety
parts included, is not fair.

## 8. `LoraLoad`: an adapter on a group

`server[i]` is an instance with the adapter it has, `saved` says that the overlay
lists the adapter, `op[o]` is a call of `load_lora` or `unload_lora` with the
instances left and done. `Posts` is one `_post_lora`: the server obeys and answers,
refuses, or the answer is lost after it obeyed or before. `LoadAnswered`, `Undoes`
and `Undone` are the loop of `load_lora` and its rollback, `UnloadAnswered` that of
`unload_lora`, and `Launches`, `Readied`, `Halts` an instance that stops and starts
from the configuration meanwhile.

| Run | Question | Answer |
|---|---|---|
| `LoraTimeout` | is a load all or nothing when a post may time out? | no: finding |

The rollback is written for `LoraRuntimeError`, the error of an HTTP status; a timeout
or a broken connection passes it by. Two other ways to violate `GroupIsEven` appear
with other constants of the same configuration: `MayRestart = TRUE`, `MayLose = FALSE`
(an instance becomes ready between the snapshot of the targets and the save, from a
configuration without the adapter), and `Op = {o1, o2}`, `MayLose = FALSE` (a load and
an unload visit the instances in turns). Calls end, so deadlock is not checked.

## 9. Proofs

| Module | Theorem | Content |
|---|---|---|
| `ModelLifecycleProofs` | `TypeCorrect`, `RestartsAreBounded` | `Spec => []TypeOK`, `Spec => []RestartBudget` |
| | `CrashesAreAnswered` | without sleep mode and failing pre-flights `Spec => []RestartArmed` |
| `ModelLifecycleOwnership` | `StoppingIsOwned`, `LiveIsBacked` | `Cancellable = {} => (Spec => []...)` |
| | `NoProcessIsOrphaned`, `NoSecondProcess` | where callers only start and the backend stays up, `[]NoOrphan`, `[]OneProcess` |
| `RunQueueBooks` | `RunTypes`, `BooksAgree`, `BudgetIsKept` | `Spec` gives `[]TypeOK`, `[]Books`, `NeverOvercommits` |
| `RunQueueOutcomes` | `FinishedRunsAreDead`, `CancelsStick` | `Spec => []FinishedIsDead`, `Spec => []CancelSticks` |
| | `OutcomesAreFinal`, `LaunchesYield` | `Spec => RowsAreFinal`, `Spec => EvalsYield` |
| `RouterProxyCounts` | `RouterTypes`, `InflightIsExact` | `Spec => []TypeOK`; `Spec => []InflightExact` without early hang-ups and event-stream errors |
| | `DrainedStaysIdle` | also with one replica, polls that do not cross and a store that answers, `[]DrainedIsIdle` |
| `RouterProxyServes` | `HealthyInstanceServes` | `Spec => []HealthyServes` |
| `LeaderLeaseProofs` | `LeaseTypeCorrect`, `OneLeaderAlways`, `ElectionPlaysRole` | `Timely` gives `LeaseSpec => []LeaseTypeOK`, `[]OneLeader`, `PlaysRole` |
| `ServicesProofs` | `RevocationBounded`, `QuotaBounded` | `KeySpec` gives `[]RevocationBound`, `[]QuotaBound` |
| | `DownloadTypeCorrect`, `OneRunnerHolds`, `SizeStays` | `DownloadSpec` gives `[]DownloadTypeOK`, `[]OneRunner`, `SizeIsFinal` |
| | `GivingUpIsTold`, `SinksAreCurrent` | `AlertSpec => []GaveUpTold`; `AlertSpec => []SinksCurrent` when answers arrive in order and requests are finitely many |
| | `ImportsAreRecorded`, `CurrentOverlayIsKept` | `ConfSpec` gives `[]ImportIsRecorded`, `[]CurrentIsKept` |

Every safety invariant and every action property of a run is stated by a theorem.
Those of the lifecycle hold for every number of keys, callers and processes, any
`MaxRestarts`, and all failures and operations their row does not exclude; those of
the run queue for every set of runs, all batch sizes and budgets, and all failures;
those of the router for every chain of groups and any number of requests; those of the
election for every set of replicas and all timings that are `Timely`; those of the
services for any numbers of callers, jobs, requests and backends, and any ages.
They rest on the assumptions on constants named in the modules and on the conditions
in the table.

*Restarts.* `RestartBudget` counts accepted auto-restarts, the code counts charges,
and between a charge and the start that uses it a caller may reset the count. The
inductive invariant `BudgetInv` therefore counts accepted plus owed restarts
against the charged ones, with a slack of one for a caller's start that crosses an
owed restart, and says when a start that keeps the count can exist at all (only
between `CollectDue` and `ReadDesired`, only the reconciler's, never for a key that
is still due). The bound `MaxRestarts + 1` is exact: TLC finds a
behaviour that reaches it.

*Ownership.* `StoppingHasOwner` is inductive with types once no call is cancelled.
`LiveBacked` needs to know that nothing but a sleep-mode instance is written by the
tail of a sleep or a wake; `OwnerInv` adds that. `ModelLifecycleOwnership` states the
invariant key by key, proves once that a step of one task disturbs only its own
key, and then treats each action. The condition `Cancellable = {}` is necessary:
`LifecycleCancel` violates `StoppingHasOwner` without it.

*Crashed and owed.* `RestartArmed` says that a crashed instance is armed or being
started, `ArmedInv` names the places where the debt can be: a backoff that runs, the
pass's list `due`, or the reconciler's own start before it is accepted. An attempt
leaves that list only into such a start, which nobody cancels, and a start that fails
later arms the next backoff itself. Both conditions are needed: with sleep mode the
failing tail of a sleep writes the desired state of an instance that has failed
meanwhile, and a pre-flight that refuses consumes the attempt (`LifecycleSupervise`
with `PreflightMayFail = TRUE` violates `RestartArmed`).

*Supervision.* `SupervisedInv` says of each key that a stopped or failed instance
holds no handle, that at most one start is between its acceptance and the recording of
its handle, that this start finds no handle, and that each process not signalled is
the record's or that start's. `OnlyStarts` adds that nobody wants anything but
RUNNING, so convergence only starts. The conditions are those of the statement: with
stops `LifecycleOrphan` violates it.


*Books.* `Books` is inductive together with the types. A pump is a step of many
actions, so the work is done once, for `Pump` on any books and tasks that agree: its
caller first leaves them agreeing, then the launch or the end of the pump keeps them
so. Sequences enter only through what `Append`, `Tail` and `RemoveAt` do to the set
of elements and to injectivity, stated as lemmas.

*Budget.* `NeverOvercommits` compares a sum, `FoldFunctionOnSet` over the runs launched,
with the budget. That the fold does not depend on the order in which it chooses, and so
grows by exactly the size of the run that joins, is shown by taking a smallest set for
which it fails (the strict subset order of a finite set is well founded); the
induction theorems themselves take an operator and cannot be instantiated. A step
that launches is a step of some pump, and the pump tests the same sum.

*Outcomes.* `OutcomeInv` adds to the books what each stage of a run's coroutine knows
of its row, its process and its cancel (`Fine`, one run at a time), and who waits for
whom when a load test's watch pumps (`Links`). `FinishedIsDead` and `CancelSticks` are
consequences of `Fine`. Both speak of the backend's first life (`restarts = 0`), and so does
the inductive invariant `UntilRestart`; `RunQueueRestart` shows that `OutcomeIsDead`,
the same statement without that condition, is false after one restart.

*Final rows.* `RowsAreFinal` is about a step, so it needs to know who may write: a row
is final only when the coroutine of its run is over (`Settled`), which holds with the
books and `Links` across restarts too, since a restart ends all coroutines. Then each
writer is a coroutine that is not over, or a deletion.

*Yields.* Every step that adds the process of an evaluation is a turn of a pump
(`Launch`), which tests `_current` in the same step; so no invariant is needed.


*Counts.* `InflightExact` is a cardinality per replica and instance. A step of one
request changes the set of requests served at two instances at most, so the proof
splits off that request (`CountSplit`), shows the other requests' part untouched, and
tells only whether the request was served before and is served after
(`RequestSteps` lists what a step may do). `CountsInv` adds to types and counts that
no frame holds a stale event stream, the one way to release twice. Both conditions of the
theorem are necessary: `RouterLeak` and `RouterDoubleRelease` violate it without them.

*Draining.* `DrainedIsIdle` adds to the counts that the mark of a drain is where the
choice looks: in the cache of the replica and in what its poller is about to copy
(`MarkHeld`). The count was zero when the drain was answered, and a request that
chooses the instance later did so as a last resort, which its frame remembers.
`RouterPollRace` violates it when polls cross or replicas are two, and a restarted
router has forgotten its counts, which the property itself excludes.


*Serves.* `FrameOK` says of a frame which groups it has left behind and which instances
failed it: an instance tried and not chosen now is not healthy, a healthy instance is
never asleep in a cache, so a group is only left when it holds none. A group of more
than three is outside the statement because `max_attempts` caps its attempts.

*Lease.* `OneLeader` speaks of what replicas do, the store only knows the row. The
inductive invariant ties the two: whoever acts, or has just been told that it may, is
the holder of a row with time left, at least what its present stage and the next round can
still take. A steal needs a row that has expired by the thief's clock, which is at most one round
behind, so a `Timely` holder is never robbed, and every way to lose the row (a
refusal, an error, a shutdown) goes through a stage that ends the acting first.
`Role` follows: a step that adds an actor finds none. `FleetTwoOwners` has nothing to do
with it: the role is exclusive, the placement it writes is not.

*Services.* *Keys*: a cache entry is younger than its ttl, and an answer in flight is
no older than its lookup (`EntriesAreYoung`, `CallsAreYoung`); with that, each stage of
a call knows whether it will be refused (`CallsAreRefused`). *Downloads*: a job whose
task runs is not final, and only the registered one runs (`RunnersAreOpen`), through the
overlap of an old poller with a new job. *Alerts*: `WillBeTold` says that a model that was
given up has been told of, had the silent end of section 7, or has an emitter with the failure in its hands.
`SinksCurrent` needs an order: the answer that arrives last belongs to the list that was
read last, which is the set of rows (`LastIsCurrent`); a finite set of turns has a
greatest, again by a smallest set. `InOrder` is what SQLite and one connection give,
and the property fails without it. *Overlay*: `RequestsInOrder` follows an import from
its save to its record, and `FileCovered` says why the overlay in the file need not be
recorded yet: a request that changed it is about to
look, or about to insert it, or went back to what it had met, or was answered with an error after
it had saved (`LateStep`, `EditsStep`).

TLC checked the strengthenings as invariants of small instances before they were
proved.

Only model-checked: the liveness properties, since fairness and ENABLED are out of the
prover's reach. Of the library's theorems about finite sets those with an operator as a
parameter cannot be used; where a proof needs induction over a set it uses a smallest
counterexample.


## 10. Not modelled

* Runner processes, their reports and the parsing of results: seen through their exit.
* Command lines (`launchers.py`, `vllm_command.py`): pure functions of the
  configuration. The checks of GPU memory are a verdict that may be either.
* Scores, cooldown weights and affinities of the router: they order candidates, and
  the model may pick any of them. The pooling endpoints, which proxy without failover.
* The router's own view of the configuration: it reloads when a backend asks, and a
  change made through one backend reaches the routers of other hosts by the sync of
  their backends only if it alters an instance. `ConfigOverlay` has the file, not the router.
* Observed-state rows, pruning, request logs, audit, samples: written, shown, deleted by age.
* Dashboard sessions, SSO, metrics, GPU and cost views, the embedding server, the frontend,
  migration and deployment files: no lifecycle of their own.

`PROJECT.json` lists every component with its status and every hazard with the
properties that cover it.
