---------------------------- MODULE ModelLifecycle ----------------------------
(***************************************************************************)
(* The model lifecycle of one backend node: ModelManager.start / stop /    *)
(* sleep / wake, the reconcile loop with its auto-restart and convergence  *)
(* steps, boot-time adoption and replay, the backend processes themselves, *)
(* and the table of persisted desired states.                              *)
(*                                                                         *)
(* Every coroutine that calls the manager is a task with a frame: where it *)
(* waits (pc), the key it works on, the process handle it holds in a local *)
(* variable and, for a start, its reset_restart argument.  A step of a     *)
(* task is the code between two awaits at which other tasks can observe or *)
(* change the shared state; the sections under registry.lock contain no    *)
(* such await and are one step each.                                       *)
(*                                                                         *)
(* An operator whose name ends in _Word is a variation of the operator     *)
(* after it with one bug in it; no specification uses it, it shows that    *)
(* the property named for it in PROJECT.json notices the bug.              *)
(***************************************************************************)
EXTENDS Naturals, FiniteSets

CONSTANTS
    Keys,              \* model instances in the registry
    Calls,             \* coroutines of API handlers and of the autoscaler
    Reconciler,        \* the task of reconcile_loop
    Replayer,          \* the elector's task, which runs replay_desired
    Pids,              \* process identities (a bound on those in existence)
    None,
    Ops,               \* the operations API callers and the autoscaler use
    SleepKeys,         \* instances launched with enable_sleep_mode
    MaxRestarts,       \* settings.max_restarts
    MaxReboots,        \* bound: crashes of the backend in a behaviour
    Cancellable,       \* calls that run inside a leader-only loop
    PreflightMayFail,  \* a GPU pre-flight check can refuse a start
    SpawnMayFail,      \* Popen can fail
    StoreMayFail       \* reads and writes of the desired table can fail

Tasks == Calls \cup {Reconciler, Replayer}

ASSUME TasksAssumption ==
    /\ Reconciler \notin Calls
    /\ Replayer \notin Calls
    /\ Reconciler # Replayer
    /\ Cancellable \subseteq Calls
ASSUME NoneAssumption ==
    None \notin Keys \cup Pids \cup {"RUNNING", "ASLEEP", "STOPPED"}
ASSUME SettingsAssumption ==
    /\ MaxRestarts \in Nat
    /\ MaxReboots \in Nat
    /\ {PreflightMayFail, SpawnMayFail, StoreMayFail} \subseteq BOOLEAN
    /\ SleepKeys \subseteq Keys
    /\ Ops \subseteq {"start", "stop", "sleep", "wake"}

VARIABLES
    inst,        \* the registry: the ModelInstance of each key
    live,        \* for each process identity, the key it serves, or None
    term,        \* live processes that were sent SIGTERM
    desired,     \* the table of persisted desired states
    task,        \* the frame of each task
    loop,        \* the reconcile loop between two of its calls
    boot,        \* replay_desired between two of its calls
    autoStarts,  \* history: auto-restarts accepted since READY or a caller's start
    reboots      \* crashes of the backend so far

vars == <<inst, live, term, desired, task, loop, boot, autoStarts, reboots>>

ModelState == {"STOPPED", "STARTING", "READY", "SLEEPING", "FAILED", "STOPPING"}
Desired == {"RUNNING", "ASLEEP", "STOPPED"}

\* Where a task waits: named for what it does next.
StartPcs == {"start", "spawn", "track"}
StopPcs == {"stop", "drain", "reap", "persistStopped"}
SleepPcs == {"sleep", "postSleep", "markAsleep", "persistAsleep"}
WakePcs == {"wake", "postWake", "markAwake"}
Posting == {"postSleep", "markAsleep", "postWake", "markAwake"}
Pcs == StartPcs \cup StopPcs \cup SleepPcs \cup WakePcs
         \cup {"persistRunning", "idle"}

Instance == [state : ModelState, desired : Desired, proc : Pids \cup {None},
             managed : BOOLEAN, restartCount : 0..MaxRestarts,
             nextRestart : {"none", "pending", "elapsed"}]
Frame == [pc : Pcs, key : Keys \cup {None}, pid : Pids \cup {None},
          reset : BOOLEAN]
LoopFrame == [pc : {"pass", "collect", "restart", "snapshot", "converge"},
              due : SUBSET Keys,
              want : [Keys -> Desired \cup {None}],
              plan : [Keys -> {"start", "stop", "sleep", "wake", "none"}]]
BootFrame == [pc : {"off", "read", "replay"}, todo : SUBSET Keys]

\* A freshly registered instance.
NewInstance == [state |-> "STOPPED", desired |-> "STOPPED", proc |-> None,
                managed |-> FALSE, restartCount |-> 0, nextRestart |-> "none"]
NoFrame == [pc |-> "idle", key |-> None, pid |-> None, reset |-> FALSE]
NoPlan == [k \in Keys |-> "none"]
LoopStart == [pc |-> "pass", due |-> {}, want |-> [k \in Keys |-> None],
              plan |-> NoPlan]

-----------------------------------------------------------------------------
\* Processes.

Answering(k) == \E p \in Pids : live[p] = k
Fresh(p) == /\ live[p] = None
            /\ \A k \in Keys : inst[k].proc # p
            /\ \A t \in Tasks : task[t].pid # p

\* A backend process crashes, finishes, or obeys the signal it was sent.
ProcDies(p) ==
    /\ live[p] # None
    /\ live' = [live EXCEPT ![p] = None]
    /\ term' = term \ {p}
    /\ UNCHANGED <<inst, desired, task, loop, boot, autoStarts, reboots>>

-----------------------------------------------------------------------------
\* Frames.

Idle(t) == task[t].pc = "idle"
At(t, pc) == task[t].pc = pc
Enter(t, op, k, reset) ==
    task' = [task EXCEPT ![t] = [pc |-> op, key |-> k, pid |-> None,
                                 reset |-> reset]]
Goto(t, pc, p) == task' = [task EXCEPT ![t].pc = pc, ![t].pid = p]
Return(t) == task' = [task EXCEPT ![t] = NoFrame]

StartInFlight(k) ==
    \E t \in Tasks : task[t].key = k /\ task[t].pc \in {"spawn", "track"}
StopInFlight(k) ==
    \E t \in Tasks : task[t].key = k /\ task[t].pc \in {"drain", "reap"}

\* An API handler, or the autoscaler, calls the manager.
Request(t, op, k) ==
    /\ Idle(t)
    /\ Enter(t, op, k, TRUE)
    /\ UNCHANGED <<inst, live, term, desired, loop, boot, autoStarts, reboots>>

-----------------------------------------------------------------------------
\* ModelManager.start

AlreadyRunning_ReadyOnly(s) == s = "READY"
AlreadyRunning(s) == s \in {"STARTING", "READY"}

\* The record of an instance whose start is accepted.
Started_AlwaysResets(i, reset) ==
    [i EXCEPT !.state = "STARTING", !.desired = "RUNNING", !.managed = TRUE,
              !.restartCount = 0, !.nextRestart = "none"]
Started(i, reset) ==
    [i EXCEPT !.state = "STARTING", !.desired = "RUNNING", !.managed = TRUE,
              !.restartCount = IF reset THEN 0 ELSE @,
              !.nextRestart = "none"]

\* The pre-flight checks raise, or the instance is already up.
StartRefused(t) ==
    /\ At(t, "start")
    /\ \/ PreflightMayFail
       \/ AlreadyRunning(inst[task[t].key].state)
    /\ Return(t)
    /\ UNCHANGED <<inst, live, term, desired, loop, boot, autoStarts, reboots>>

StartAccepted(t) ==
    LET k == task[t].key IN
    /\ At(t, "start")
    /\ ~AlreadyRunning(inst[k].state)
    /\ inst' = [inst EXCEPT ![k] = Started(@, task[t].reset)]
    /\ autoStarts' = [autoStarts EXCEPT ![k] = IF task[t].reset THEN 0 ELSE @ + 1]
    /\ Goto(t, "spawn", None)
    /\ UNCHANGED <<live, term, desired, loop, boot, reboots>>

Spawn(t) ==
    /\ At(t, "spawn")
    /\ \E p \in Pids : /\ Fresh(p)
                       /\ live' = [live EXCEPT ![p] = task[t].key]
                       /\ Goto(t, "track", p)
    /\ UNCHANGED <<inst, term, desired, loop, boot, autoStarts, reboots>>

SpawnFails_StillStarting(t) ==
    /\ At(t, "spawn")
    /\ SpawnMayFail
    /\ inst' = [inst EXCEPT ![task[t].key].managed = FALSE]
    /\ Return(t)
    /\ UNCHANGED <<live, term, desired, loop, boot, autoStarts, reboots>>
SpawnFails(t) ==
    /\ At(t, "spawn")
    /\ SpawnMayFail
    /\ inst' = [inst EXCEPT ![task[t].key] =
                   [@ EXCEPT !.managed = FALSE, !.state = "FAILED"]]
    /\ Return(t)
    /\ UNCHANGED <<live, term, desired, loop, boot, autoStarts, reboots>>

Track(t) ==
    /\ At(t, "track")
    /\ inst' = [inst EXCEPT ![task[t].key].proc = task[t].pid]
    /\ Goto(t, "persistRunning", None)
    /\ UNCHANGED <<live, term, desired, loop, boot, autoStarts, reboots>>

\* _persist_desired: the write is lost if the store fails.
PersistDesired(t, pc, want) ==
    /\ At(t, pc)
    /\ \/ desired' = [desired EXCEPT ![task[t].key] = want]
       \/ StoreMayFail /\ UNCHANGED desired
    /\ Return(t)
    /\ UNCHANGED <<inst, live, term, loop, boot, autoStarts, reboots>>

Start(t) == \/ StartRefused(t) \/ StartAccepted(t) \/ Spawn(t) \/ SpawnFails(t)
            \/ Track(t) \/ PersistDesired(t, "persistRunning", "RUNNING")

-----------------------------------------------------------------------------
\* ModelManager.stop

\* The instance has a process this backend may kill.
Owned(i) == i.proc # None /\ i.managed

StopBegins(t) ==
    LET k == task[t].key IN
    /\ At(t, "stop")
    /\ Owned(inst[k])
    /\ inst' = [inst EXCEPT ![k] =
                   [@ EXCEPT !.state = "STOPPING", !.desired = "STOPPED"]]
    /\ Goto(t, "drain", inst[k].proc)
    /\ UNCHANGED <<live, term, desired, loop, boot, autoStarts, reboots>>

\* Nothing of ours to kill: an adopted READY instance is left as it is.
StopUnowned(t) ==
    LET k == task[t].key
        adopted == ~inst[k].managed /\ inst[k].state = "READY" IN
    /\ At(t, "stop")
    /\ ~Owned(inst[k])
    /\ inst' = [inst EXCEPT
          ![k] = IF adopted THEN [@ EXCEPT !.desired = "STOPPED"]
                 ELSE [@ EXCEPT !.desired = "STOPPED", !.proc = None,
                                !.state = "STOPPED"]]
    /\ \/ desired' = [desired EXCEPT ![k] = "STOPPED"]
       \/ StoreMayFail /\ UNCHANGED desired
    /\ Return(t)
    /\ UNCHANGED <<live, term, loop, boot, autoStarts, reboots>>

\* The drain is over; terminate_process_group signals a process still alive.
Terminate_NoSignal(t) ==
    /\ At(t, "drain")
    /\ Goto(t, "reap", task[t].pid)
    /\ UNCHANGED <<inst, live, term, desired, loop, boot, autoStarts, reboots>>
Terminate(t) ==
    /\ At(t, "drain")
    /\ term' = term \cup {p \in {task[t].pid} : live[p] # None}
    /\ Goto(t, "reap", task[t].pid)
    /\ UNCHANGED <<inst, live, desired, loop, boot, autoStarts, reboots>>

StopReaped_KeepsState(t) ==
    /\ At(t, "reap")
    /\ live[task[t].pid] = None
    /\ inst' = [inst EXCEPT ![task[t].key].proc = None]
    /\ Goto(t, "persistStopped", None)
    /\ UNCHANGED <<live, term, desired, loop, boot, autoStarts, reboots>>
StopReaped(t) ==
    /\ At(t, "reap")
    /\ live[task[t].pid] = None
    /\ inst' = [inst EXCEPT ![task[t].key] =
                   [@ EXCEPT !.proc = None, !.state = "STOPPED"]]
    /\ Goto(t, "persistStopped", None)
    /\ UNCHANGED <<live, term, desired, loop, boot, autoStarts, reboots>>

Stop(t) == \/ StopBegins(t) \/ StopUnowned(t) \/ Terminate(t) \/ StopReaped(t)
           \/ PersistDesired(t, "persistStopped", "STOPPED")

-----------------------------------------------------------------------------
\* ModelManager.sleep and ModelManager.wake: the intent under the lock, the
\* HTTP call outside it, then the new state without another look at the old.

SleepRefused(t) ==
    LET k == task[t].key IN
    /\ At(t, "sleep")
    /\ k \notin SleepKeys \/ inst[k].state # "READY"
    /\ Return(t)
    /\ UNCHANGED <<inst, live, term, desired, loop, boot, autoStarts, reboots>>

SleepBegins(t) ==
    LET k == task[t].key IN
    /\ At(t, "sleep")
    /\ k \in SleepKeys /\ inst[k].state = "READY"
    /\ inst' = [inst EXCEPT ![k].desired = "ASLEEP"]
    /\ Goto(t, "postSleep", None)
    /\ UNCHANGED <<live, term, desired, loop, boot, autoStarts, reboots>>

WakeRefused(t) ==
    /\ At(t, "wake")
    /\ inst[task[t].key].state # "SLEEPING"
    /\ Return(t)
    /\ UNCHANGED <<inst, live, term, desired, loop, boot, autoStarts, reboots>>

WakeBegins(t) ==
    LET k == task[t].key IN
    /\ At(t, "wake")
    /\ inst[k].state = "SLEEPING"
    /\ inst' = [inst EXCEPT ![k].desired = "RUNNING"]
    /\ Goto(t, "postWake", None)
    /\ UNCHANGED <<live, term, desired, loop, boot, autoStarts, reboots>>

\* The call succeeds: some process of the key answered it.
PostAnswered(t, pc, next) ==
    /\ At(t, pc)
    /\ Answering(task[t].key)
    /\ Goto(t, next, None)
    /\ UNCHANGED <<inst, live, term, desired, loop, boot, autoStarts, reboots>>

\* The call fails or times out: the intent is reverted.
PostFailed(t, pc, intent) ==
    /\ At(t, pc)
    /\ inst' = [inst EXCEPT ![task[t].key].desired = intent]
    /\ Return(t)
    /\ UNCHANGED <<live, term, desired, loop, boot, autoStarts, reboots>>

Mark(t, pc, state, next) ==
    /\ At(t, pc)
    /\ inst' = [inst EXCEPT ![task[t].key].state = state]
    /\ Goto(t, next, None)
    /\ UNCHANGED <<live, term, desired, loop, boot, autoStarts, reboots>>

Sleep(t) == \/ SleepRefused(t) \/ SleepBegins(t)
            \/ PostAnswered(t, "postSleep", "markAsleep")
            \/ PostFailed(t, "postSleep", "RUNNING")
            \/ Mark(t, "markAsleep", "SLEEPING", "persistAsleep")
            \/ PersistDesired(t, "persistAsleep", "ASLEEP")

Wake(t) == \/ WakeRefused(t) \/ WakeBegins(t)
           \/ PostAnswered(t, "postWake", "markAwake")
           \/ PostFailed(t, "postWake", "ASLEEP")
           \/ Mark(t, "markAwake", "READY", "persistRunning")

TaskStep(t) == Start(t) \/ Stop(t) \/ Sleep(t) \/ Wake(t)

\* The leader-only loop that made the call is cancelled (the lease was lost):
\* the coroutine is gone, a Popen already handed to a thread goes on.
Cancel(t) ==
    /\ ~Idle(t)
    /\ Return(t)
    /\ \/ UNCHANGED live
       \/ /\ At(t, "spawn")
          /\ \E p \in Pids : /\ Fresh(p)
                             /\ live' = [live EXCEPT ![p] = task[t].key]
    /\ UNCHANGED <<inst, term, desired, loop, boot, autoStarts, reboots>>

-----------------------------------------------------------------------------
\* The reconcile pass.

MaybeScheduleRestart(i) ==
    IF i.desired = "RUNNING" /\ i.managed /\ i.restartCount < MaxRestarts
    THEN [i EXCEPT !.nextRestart = "pending"] ELSE i

\* A managed process has exited.
AfterExit(i) ==
    IF i.state = "STOPPING" THEN [i EXCEPT !.state = "STOPPED", !.proc = None]
    ELSE MaybeScheduleRestart([i EXCEPT !.state = "FAILED", !.proc = None])

\* /health of a STARTING instance answered 200: a fresh restart budget.
AfterReady(i) ==
    [i EXCEPT !.state = "READY", !.restartCount = 0, !.nextRestart = "none"]

\* start_timeout elapsed without log progress.
AfterTimeout_NoRestart(i) == [i EXCEPT !.state = "FAILED", !.proc = None]
AfterTimeout(i) ==
    MaybeScheduleRestart([i EXCEPT !.state = "FAILED", !.proc = None])

Exited(i) == Owned(i) /\ live[i.proc] = None

Reconciled(i, probe) ==
    CASE Exited(i) -> AfterExit(i)
      [] ~Exited(i) /\ i.state = "STARTING" /\ probe = "ready" -> AfterReady(i)
      [] ~Exited(i) /\ i.state = "STARTING" /\ probe = "timeout" -> AfterTimeout(i)
      [] OTHER -> i

\* What the probe of a key may report.  The probe reaches whatever process
\* listens on the port.  start_timeout (300 s) exceeds the time a start takes
\* to spawn its process and record the handle.
ProbeAllowed(k, probe) ==
    CASE probe = "ready" -> inst[k].state = "STARTING" /\ Answering(k)
      [] probe = "timeout" -> inst[k].state = "STARTING" /\ ~StartInFlight(k)
      [] probe = "silent" -> TRUE

\* _kill_async: the processes of the instances whose startup timed out.
KillAsync_None(probe) == {}
KillAsync(probe) ==
    {p \in Pids : /\ live[p] # None
                  /\ \E k \in Keys : /\ probe[k] = "timeout"
                                     /\ ~Exited(inst[k])
                                     /\ inst[k].proc = p}

\* reconcile_once, under the lock: every instance against its process and its
\* probe.
ReconcilePass ==
    /\ loop.pc = "pass"
    /\ \E probe \in [Keys -> {"silent", "ready", "timeout"}] :
          /\ \A k \in Keys : ProbeAllowed(k, probe[k])
          /\ inst' = [k \in Keys |-> Reconciled(inst[k], probe[k])]
          /\ term' = term \cup KillAsync(probe)
    /\ autoStarts' = [k \in Keys |-> IF inst'[k].state = "READY" /\ inst[k].state # "READY"
                                     THEN 0 ELSE autoStarts[k]]
    /\ loop' = [loop EXCEPT !.pc = "collect"]
    /\ UNCHANGED <<live, desired, task, boot, reboots>>

\* The exponential backoff of an armed restart is over.
BackoffElapses(k) ==
    /\ inst[k].nextRestart = "pending"
    /\ inst' = [inst EXCEPT ![k].nextRestart = "elapsed"]
    /\ UNCHANGED <<live, term, desired, task, loop, boot, autoStarts, reboots>>

RestartDue_OffByOne(i) == /\ i.state = "FAILED"
                          /\ i.desired = "RUNNING"
                          /\ i.managed
                          /\ i.nextRestart = "elapsed"
                          /\ i.restartCount + 1 < MaxRestarts
RestartDue(i) == /\ i.state = "FAILED"
                 /\ i.desired = "RUNNING"
                 /\ i.managed
                 /\ i.nextRestart = "elapsed"
                 /\ i.restartCount < MaxRestarts

\* _process_restarts, under the lock: one attempt is charged per due key.
CollectDue ==
    LET due == {k \in Keys : RestartDue(inst[k])} IN
    /\ loop.pc = "collect"
    /\ inst' = [k \in Keys |-> IF k \in due
                               THEN [inst[k] EXCEPT !.nextRestart = "none",
                                                    !.restartCount = @ + 1]
                               ELSE inst[k]]
    /\ loop' = [loop EXCEPT !.pc = "restart", !.due = due]
    /\ UNCHANGED <<live, term, desired, task, boot, autoStarts, reboots>>

\* ... then, outside it, the due keys are started one after the other.
RestartNext ==
    /\ loop.pc = "restart" /\ Idle(Reconciler)
    /\ \E k \in loop.due : /\ Enter(Reconciler, "start", k, FALSE)
                           /\ loop' = [loop EXCEPT !.due = @ \ {k}]
    /\ UNCHANGED <<inst, live, term, desired, boot, autoStarts, reboots>>

\* converge_desired reads the desired table ...
ReadDesired ==
    /\ loop.pc = "restart" /\ Idle(Reconciler) /\ loop.due = {}
    /\ \/ loop' = [loop EXCEPT !.pc = "snapshot", !.want = desired]
       \/ StoreMayFail /\ loop' = LoopStart
    /\ UNCHANGED <<inst, live, term, desired, task, boot, autoStarts, reboots>>

ConvergeOp_NoStart(want, state) ==
    CASE want = "STOPPED" /\ state \in {"READY", "STARTING", "SLEEPING"} -> "stop"
      [] want = "ASLEEP" /\ state = "READY" -> "sleep"
      [] want = "RUNNING" /\ state = "SLEEPING" -> "wake"
      [] OTHER -> "none"
ConvergeOp_NoStop(want, state) ==
    CASE want = "RUNNING" /\ state = "STOPPED" -> "start"
      [] want = "ASLEEP" /\ state = "READY" -> "sleep"
      [] want = "RUNNING" /\ state = "SLEEPING" -> "wake"
      [] OTHER -> "none"
ConvergeOp(want, state) ==
    CASE want = "RUNNING" /\ state = "STOPPED" -> "start"
      [] want = "STOPPED" /\ state \in {"READY", "STARTING", "SLEEPING"} -> "stop"
      [] want = "ASLEEP" /\ state = "READY" -> "sleep"
      [] want = "RUNNING" /\ state = "SLEEPING" -> "wake"
      [] OTHER -> "none"

\* ... then, under the lock, the states ...
SnapshotStates ==
    /\ loop.pc = "snapshot"
    /\ loop' = [LoopStart EXCEPT
          !.pc = "converge",
          !.plan = [k \in Keys |-> ConvergeOp(loop.want[k], inst[k].state)]]
    /\ UNCHANGED <<inst, live, term, desired, task, boot, autoStarts, reboots>>

\* ... and acts key by key on what it saw.
ConvergeNext ==
    /\ loop.pc = "converge" /\ Idle(Reconciler)
    /\ \E k \in Keys : /\ loop.plan[k] # "none"
                       /\ Enter(Reconciler, loop.plan[k], k, TRUE)
                       /\ loop' = [loop EXCEPT !.plan[k] = "none"]
    /\ UNCHANGED <<inst, live, term, desired, boot, autoStarts, reboots>>

ConvergeDone ==
    /\ loop.pc = "converge" /\ Idle(Reconciler) /\ loop.plan = NoPlan
    /\ loop' = LoopStart
    /\ UNCHANGED <<inst, live, term, desired, task, boot, autoStarts, reboots>>

ReconcileStep == \/ ReconcilePass \/ CollectDue \/ RestartNext \/ ReadDesired
                 \/ SnapshotStates \/ ConvergeNext \/ ConvergeDone

-----------------------------------------------------------------------------
\* Crash of the backend, boot, adoption, replay.

\* The model processes run in sessions of their own and survive.  The new
\* backend marks whatever answers its probe READY, unmanaged, before it
\* serves a request or starts a loop.
Adopted == [NewInstance EXCEPT !.state = "READY", !.desired = "RUNNING"]

Reboot ==
    /\ reboots < MaxReboots
    /\ \E adopted \in SUBSET {k \in Keys : Answering(k)} :
          inst' = [k \in Keys |-> IF k \in adopted THEN Adopted ELSE NewInstance]
    /\ task' = [t \in Tasks |-> NoFrame]
    /\ loop' = LoopStart
    /\ boot' = [pc |-> "read", todo |-> {}]
    /\ autoStarts' = [k \in Keys |-> 0]
    /\ reboots' = reboots + 1
    /\ UNCHANGED <<live, term, desired>>

\* replay_desired reads the desired table, then starts what it finds down.
ReplayRead ==
    /\ boot.pc = "read"
    /\ \/ boot' = [pc |-> "replay", todo |-> {k \in Keys : desired[k] = "RUNNING"}]
       \/ StoreMayFail /\ boot' = [pc |-> "off", todo |-> {}]
    /\ UNCHANGED <<inst, live, term, desired, task, loop, autoStarts, reboots>>

ReplayNext ==
    /\ boot.pc = "replay" /\ Idle(Replayer)
    /\ \E k \in boot.todo :
          /\ boot' = [boot EXCEPT !.todo = @ \ {k}]
          /\ \/ /\ inst[k].state \in {"STOPPED", "FAILED"}
                /\ Enter(Replayer, "start", k, TRUE)
             \/ /\ inst[k].state \notin {"STOPPED", "FAILED"}
                /\ UNCHANGED task
    /\ UNCHANGED <<inst, live, term, desired, loop, autoStarts, reboots>>

ReplayStep == ReplayRead \/ ReplayNext

-----------------------------------------------------------------------------
Init ==
    /\ inst = [k \in Keys |-> NewInstance]
    /\ live = [p \in Pids |-> None]
    /\ term = {}
    /\ desired = [k \in Keys |-> None]
    /\ task = [t \in Tasks |-> NoFrame]
    /\ loop = LoopStart
    /\ boot = [pc |-> "off", todo |-> {}]
    /\ autoStarts = [k \in Keys |-> 0]
    /\ reboots = 0

Next ==
    \/ \E t \in Calls, op \in Ops, k \in Keys : Request(t, op, k)
    \/ \E t \in Tasks : TaskStep(t)
    \/ \E t \in Cancellable : Cancel(t)
    \/ ReconcileStep
    \/ \E k \in Keys : BackoffElapses(k)
    \/ \E p \in Pids : ProcDies(p)
    \/ Reboot
    \/ ReplayStep

Spec == Init /\ [][Next]_vars

\* Every task the event loop runs is resumed when it can go on; HTTP calls,
\* Popen and process reaping are bounded by timeouts; a signalled process
\* dies (SIGKILL after stop_timeout); a backoff ends.  Nothing obliges a
\* caller to call, a process to crash or to become healthy.
Fairness ==
    /\ \A t \in Tasks : WF_vars(TaskStep(t))
    /\ WF_vars(ReconcileStep)
    /\ WF_vars(ReplayStep)
    /\ \A k \in Keys : WF_vars(BackoffElapses(k))
    /\ \A p \in Pids : WF_vars(p \in term /\ ProcDies(p))

FairSpec == Spec /\ Fairness

-----------------------------------------------------------------------------
\* Properties.

\* A frame that is not idle names its key and, where the coroutine holds a
\* process handle, the process.
FramesOK ==
    /\ task \in [Tasks -> Frame]
    /\ \A t \in Tasks : ~Idle(t) => task[t].key \in Keys
    /\ \A t \in Tasks : At(t, "track") \/ At(t, "drain") \/ At(t, "reap")
                          => task[t].pid \in Pids

\* Every variable has the type the code gives it: in particular no path leaves
\* a coroutine waiting on a handle it does not hold, and the attempts charged
\* to an instance never exceed max_restarts.
TypeOK ==
    /\ inst \in [Keys -> Instance]
    /\ live \in [Pids -> Keys \cup {None}]
    /\ term \subseteq Pids
    /\ desired \in [Keys -> Desired \cup {None}]
    /\ FramesOK
    /\ loop \in LoopFrame
    /\ boot \in BootFrame
    /\ autoStarts \in [Keys -> Nat]
    /\ reboots \in 0..MaxReboots

\* "STOPPING -> STOPPED": an instance is only ever shown STOPPING while a
\* stop of it is on its way to reap the process, whatever other calls, passes
\* and crashes come in between.
StoppingHasOwner ==
    \A k \in Keys : inst[k].state = "STOPPING" => StopInFlight(k)

\* A managed instance that claims to have a process (STARTING, STOPPING, or
\* READY where no sleep or wake can have written it) holds its handle, or a
\* start that will record one is in flight: nothing waits for a process that
\* nobody can observe.
LiveBacked ==
    \A k \in Keys :
        \/ inst[k].state \in {"STARTING", "STOPPING"}
        \/ inst[k].state = "READY" /\ inst[k].managed /\ k \notin SleepKeys
        => inst[k].proc # None \/ StartInFlight(k)

\* Crash loops end: between two READY states or caller-made starts the
\* reconciler starts an instance at most max_restarts times, and once more
\* when the caller's start crosses a restart that was already charged to the
\* previous budget.
RestartBudget == \A k \in Keys : autoStarts[k] <= MaxRestarts + 1

\* A restart that was charged to restartCount and not yet accepted or refused.
Owed(k) ==
    \/ k \in loop.due
    \/ /\ At(Reconciler, "start") /\ ~task[Reconciler].reset
       /\ task[Reconciler].key = k

\* What makes RestartBudget inductive: a start that keeps the count is the
\* reconciler's own, it is made only between a charge and the next reading of
\* the desired table, and every accepted or owed restart was charged, but for
\* one that a caller's start may have crossed.
BudgetInv ==
    /\ TypeOK
    /\ loop.pc # "restart" => loop.due = {}
    /\ \A t \in Tasks :
          At(t, "start") /\ ~task[t].reset
            => /\ t = Reconciler /\ loop.pc = "restart"
               /\ task[t].key \notin loop.due
    /\ \A k \in Keys :
          autoStarts[k] + (IF Owed(k) THEN 1 ELSE 0) <= inst[k].restartCount + 1

\* What makes StoppingHasOwner and LiveBacked inductive: only an instance with
\* sleep mode is ever SLEEPING or has a sleep or wake of it in progress.
OwnerInv ==
    /\ TypeOK
    /\ StoppingHasOwner
    /\ LiveBacked
    /\ \A k \in Keys : inst[k].state = "SLEEPING" => k \in SleepKeys
    /\ \A t \in Tasks : task[t].pc \in Posting => task[t].key \in SleepKeys

\* Every process serving a key is held by the key's record, by the start that
\* spawned it, or has been signalled: none is left behind to hold the GPU.
NoOrphan ==
    \A p \in Pids :
        live[p] # None =>
            \/ p \in term
            \/ inst[live[p]].proc = p
            \/ \E t \in Tasks : task[t].pid = p

\* At most one process per key that was not told to terminate.
OneProcess ==
    \A p, q \in Pids \ term :
        live[p] # None /\ live[p] = live[q] => p = q

Crashed(k) == /\ inst[k].state = "FAILED"
              /\ inst[k].desired = "RUNNING"
              /\ inst[k].managed
              /\ inst[k].restartCount < MaxRestarts

\* A crashed instance that is wanted, managed and within its budget has a
\* restart armed or a start of it under way.
RestartArmed ==
    \A k \in Keys :
        Crashed(k) => \/ inst[k].nextRestart # "none"
                      \/ k \in loop.due
                      \/ \E t \in Tasks : task[t].key = k /\ task[t].pc = "start"

\* What makes NoOrphan and OneProcess inductive where callers only start
\* instances: no other operation is ever in progress, wanted or planned; at most
\* one start of a key is past its acceptance, and it has the record to itself;
\* a process that was not signalled belongs to the record or to that start.
OnlyStarts ==
    /\ boot.pc = "off"
    /\ \A k \in Keys : /\ {desired[k], loop.want[k]} \subseteq {None, "RUNNING"}
                       /\ loop.plan[k] \in {"none", "start"}
    /\ \A t \in Tasks : /\ task[t].pc \in StartPcs \cup {"persistRunning", "idle"}
                        /\ task[t].pc = "spawn" => task[t].pid = None
Serves(t, k) == task[t].key = k /\ task[t].pc \in {"spawn", "track"}
Supervised(k) ==
    /\ inst[k].state \in {"STOPPED", "STARTING", "READY", "FAILED"}
    /\ inst[k].state \in {"STOPPED", "FAILED"} => inst[k].proc = None
    /\ \A t \in Tasks : Serves(t, k) => /\ inst[k].state \in {"STARTING", "READY"}
                                        /\ inst[k].proc = None
                                        /\ \A u \in Tasks : Serves(u, k) => u = t
    /\ \A p \in Pids \ term :
          live[p] = k => \/ inst[k].proc = p
                         \/ \E t \in Tasks : Serves(t, k) /\ task[t].pid = p
SupervisedInv == TypeOK /\ OnlyStarts /\ \A k \in Keys : Supervised(k)

\* What makes RestartArmed inductive where no instance has sleep mode: no sleep
\* or wake gets past its checks, and the start that answers for a crashed
\* instance is the reconciler's own, which nobody cancels.
ArmedInv ==
    /\ BudgetInv
    /\ \A k \in Keys : inst[k].state # "SLEEPING"
    /\ \A t \in Tasks : task[t].pc \notin Posting
    /\ \A k \in Keys :
          Crashed(k) => \/ inst[k].nextRestart # "none"
                        \/ k \in loop.due
                        \/ At(Reconciler, "start") /\ task[Reconciler].key = k

\* SLEEPING: "process stays alive" - unless a pass has yet to notice its exit
\* the record still holds the process that sleeps.
SleepingHasProcess ==
    \A k \in Keys : inst[k].state = "SLEEPING" => inst[k].proc # None

\* Every call of the manager returns.
CallsReturn == \A t \in Tasks : ~Idle(t) ~> Idle(t)

\* A crashed instance with a restart armed is started again, unless it is
\* stopped first.
CrashedIsRestarted ==
    \A k \in Keys :
        (/\ inst[k].state = "FAILED" /\ inst[k].desired = "RUNNING"
         /\ inst[k].managed /\ inst[k].nextRestart # "none")
          ~> (\/ inst[k].state # "FAILED" \/ inst[k].desired # "RUNNING"
              \/ ~inst[k].managed)

\* What the desired table says comes true: a stopped instance that is
\* persisted RUNNING leaves STOPPED, also after a crash of the backend ...
WantedIsStarted ==
    \A k \in Keys : desired[k] = "RUNNING" /\ inst[k].state = "STOPPED"
                      ~> desired[k] # "RUNNING" \/ inst[k].state # "STOPPED"

\* ... and a managed instance persisted STOPPED does not keep running.
Unwanted(k) ==
    /\ desired[k] = "STOPPED"
    /\ inst[k].managed
    /\ inst[k].state \in {"STARTING", "READY"}
UnwantedIsStopped == \A k \in Keys : Unwanted(k) ~> ~Unwanted(k)

\* "Real death is caught by the process-exit check": an instance is not shown
\* READY for ever when no process serves its key.
Dead(k) == inst[k].state = "READY" /\ ~Answering(k)
DeathIsNoticed == \A k \in Keys : Dead(k) ~> ~Dead(k)
=============================================================================
