------------------------- MODULE ModelLifecycleProofs -------------------------
(***************************************************************************)
(* Type correctness of ModelLifecycle, its auto-restart budget and the     *)
(* restarts it owes to crashed instances, which hold whatever callers,     *)
(* cancellations, crashes and reboots come in between: proved for any      *)
(* number of instances, callers, processes, restarts and reboots.          *)
(***************************************************************************)
EXTENDS ModelLifecycle, TLAPS

-----------------------------------------------------------------------------
\* Type correctness: the records that the actions write.

LEMMA Restarts == MaxRestarts \in Nat /\ 0 \in 0..MaxRestarts
BY SettingsAssumption

LEMMA NewInstanceTyped == NewInstance \in Instance /\ Adopted \in Instance
<1>1. NewInstance \in Instance
  BY Restarts DEF NewInstance, Instance, ModelState, Desired
<1>2. Adopted \in Instance
  BY <1>1 DEF Adopted, Instance, ModelState, Desired
<1> QED
  BY <1>1, <1>2

LEMMA StartedTyped ==
    ASSUME NEW i \in Instance, NEW reset \in BOOLEAN
    PROVE  Started(i, reset) \in Instance
BY Restarts DEF Started, Instance, ModelState, Desired

LEMMA WritesTyped ==
    ASSUME NEW i \in Instance
    PROVE  /\ [i EXCEPT !.managed = FALSE, !.state = "FAILED"] \in Instance
           /\ [i EXCEPT !.state = "STOPPING", !.desired = "STOPPED"] \in Instance
           /\ [i EXCEPT !.desired = "STOPPED", !.proc = None, !.state = "STOPPED"]
                \in Instance
           /\ [i EXCEPT !.desired = "STOPPED"] \in Instance
           /\ [i EXCEPT !.proc = None, !.state = "STOPPED"] \in Instance
           /\ \A want \in Desired : [i EXCEPT !.desired = want] \in Instance
BY DEF Instance, ModelState, Desired

LEMMA PutTyped ==
    ASSUME TypeOK, NEW k \in Keys, NEW i \in Instance, inst' = [inst EXCEPT ![k] = i]
    PROVE  inst' \in [Keys -> Instance]
BY DEF TypeOK

LEMMA ReconciledTyped ==
    ASSUME NEW i \in Instance, NEW probe
    PROVE  Reconciled(i, probe) \in Instance
<1>1. AfterExit(i) \in Instance
  BY DEF AfterExit, MaybeScheduleRestart, Instance, ModelState, Desired
<1>2. AfterReady(i) \in Instance
  BY Restarts DEF AfterReady, Instance, ModelState, Desired
<1>3. AfterTimeout(i) \in Instance
  BY DEF AfterTimeout, MaybeScheduleRestart, Instance, ModelState, Desired
<1>4. Reconciled(i, probe) \in {AfterExit(i), AfterReady(i), AfterTimeout(i), i}
  BY DEF Reconciled
<1> QED
  BY <1>1, <1>2, <1>3, <1>4

\* The frames: an operation is entered, advances and returns.

LEMMA EnterTyped ==
    ASSUME FramesOK, NEW t \in Tasks, NEW k \in Keys, NEW reset \in BOOLEAN,
           NEW op \in {"start", "stop", "sleep", "wake"}, Enter(t, op, k, reset)
    PROVE  FramesOK'
BY DEF FramesOK, Enter, Frame, Pcs, StartPcs, StopPcs, SleepPcs, WakePcs, Idle, At

LEMMA GotoTyped ==
    ASSUME FramesOK, NEW t \in Tasks, ~Idle(t), NEW pc \in Pcs,
           NEW p \in Pids \cup {None}, Goto(t, pc, p),
           pc \in {"track", "drain", "reap"} => p \in Pids
    PROVE  FramesOK'
BY DEF FramesOK, Goto, Frame, Idle, At

LEMMA ReturnTyped ==
    ASSUME FramesOK, NEW t \in Tasks, Return(t)
    PROVE  FramesOK'
BY DEF FramesOK, Return, NoFrame, Frame, Pcs, Idle, At

LEMMA KeepTyped ==
    ASSUME FramesOK, UNCHANGED task
    PROVE  FramesOK'
BY DEF FramesOK, Idle, At

-----------------------------------------------------------------------------
\* Every action keeps the types.

LEMMA RequestType ==
    ASSUME TypeOK, NEW t \in Calls, NEW op \in Ops, NEW k \in Keys, Request(t, op, k)
    PROVE  TypeOK'
<1>1. t \in Tasks /\ op \in {"start", "stop", "sleep", "wake"}
  BY SettingsAssumption DEF Tasks
<1>2. FramesOK'
  BY <1>1, EnterTyped DEF TypeOK, Request
<1> QED
  BY <1>2 DEF TypeOK, Request

LEMMA PersistType ==
    ASSUME TypeOK, NEW t \in Tasks, NEW pc \in Pcs \ {"idle"}, NEW want \in Desired,
           PersistDesired(t, pc, want)
    PROVE  TypeOK'
<1>1. FramesOK'
  BY ReturnTyped DEF TypeOK, PersistDesired
<1>2. desired' \in [Keys -> Desired \cup {None}]
  BY DEF TypeOK, PersistDesired, FramesOK, Idle, At
<1> QED
  BY <1>1, <1>2 DEF TypeOK, PersistDesired

LEMMA StartType ==
    ASSUME TypeOK, NEW t \in Tasks, Start(t)
    PROVE  TypeOK'
<1>1. CASE StartRefused(t)
  BY <1>1, ReturnTyped DEF TypeOK, StartRefused
<1>2. CASE StartAccepted(t)
  <2> DEFINE k == task[t].key
  <2>1. k \in Keys /\ task[t].reset \in BOOLEAN /\ ~Idle(t)
    BY <1>2 DEF TypeOK, FramesOK, Frame, StartAccepted, Idle, At
  <2>2. Started(inst[k], task[t].reset) \in Instance
    BY <2>1, StartedTyped DEF TypeOK
  <2>3. inst' \in [Keys -> Instance] /\ autoStarts' \in [Keys -> Nat]
    BY <1>2, <2>1, <2>2 DEF TypeOK, StartAccepted
  <2>4. FramesOK'
    BY <1>2, <2>1, GotoTyped DEF TypeOK, StartAccepted, Pcs, StartPcs
  <2> QED
    BY <1>2, <2>3, <2>4 DEF TypeOK, StartAccepted
<1>3. CASE Spawn(t)
  <2>1. task[t].key \in Keys /\ ~Idle(t)
    BY <1>3 DEF TypeOK, FramesOK, Spawn, Idle, At
  <2>2. PICK p \in Pids : /\ live' = [live EXCEPT ![p] = task[t].key]
                          /\ Goto(t, "track", p)
    BY <1>3 DEF Spawn
  <2>3. FramesOK'
    BY <2>1, <2>2, GotoTyped DEF TypeOK, Pcs, StartPcs
  <2> QED
    BY <1>3, <2>1, <2>2, <2>3 DEF TypeOK, Spawn
<1>4. CASE SpawnFails(t)
  <2>1. task[t].key \in Keys
    BY <1>4 DEF TypeOK, FramesOK, SpawnFails, Idle, At
  <2>2. inst' \in [Keys -> Instance]
    BY <1>4, <2>1, WritesTyped, PutTyped DEF TypeOK, SpawnFails
  <2>3. FramesOK'
    BY <1>4, ReturnTyped DEF TypeOK, SpawnFails
  <2> QED
    BY <1>4, <2>2, <2>3 DEF TypeOK, SpawnFails
<1>5. CASE Track(t)
  <2>1. task[t].key \in Keys /\ task[t].pid \in Pids /\ ~Idle(t)
    BY <1>5 DEF TypeOK, FramesOK, Track, Idle, At
  <2>2. inst' \in [Keys -> Instance]
    BY <1>5, <2>1 DEF TypeOK, Track, Instance
  <2>3. FramesOK'
    BY <1>5, <2>1, GotoTyped DEF TypeOK, Track, Pcs
  <2> QED
    BY <1>5, <2>2, <2>3 DEF TypeOK, Track
<1>6. CASE PersistDesired(t, "persistRunning", "RUNNING")
  BY <1>6, PersistType DEF Pcs, Desired
<1> QED
  BY <1>1, <1>2, <1>3, <1>4, <1>5, <1>6 DEF Start

LEMMA StopType ==
    ASSUME TypeOK, NEW t \in Tasks, Stop(t)
    PROVE  TypeOK'
<1>1. CASE StopBegins(t)
  <2> DEFINE k == task[t].key
  <2>1. k \in Keys /\ ~Idle(t)
    BY <1>1 DEF TypeOK, FramesOK, StopBegins, Idle, At
  <2>2. inst[k].proc \in Pids
    BY <1>1, <2>1 DEF TypeOK, StopBegins, Owned, Instance
  <2>3. inst' \in [Keys -> Instance]
    BY <1>1, <2>1, WritesTyped, PutTyped DEF TypeOK, StopBegins
  <2>4. FramesOK'
    BY <1>1, <2>1, <2>2, GotoTyped DEF TypeOK, StopBegins, Pcs, StopPcs
  <2> QED
    BY <1>1, <2>3, <2>4 DEF TypeOK, StopBegins
<1>2. CASE StopUnowned(t)
  <2>1. task[t].key \in Keys
    BY <1>2 DEF TypeOK, FramesOK, StopUnowned, Idle, At
  <2>2. inst' \in [Keys -> Instance]
    BY <1>2, <2>1, WritesTyped, PutTyped DEF TypeOK, StopUnowned
  <2>3. desired' \in [Keys -> Desired \cup {None}]
    BY <1>2, <2>1 DEF TypeOK, StopUnowned, Desired
  <2>4. FramesOK'
    BY <1>2, ReturnTyped DEF TypeOK, StopUnowned
  <2> QED
    BY <1>2, <2>2, <2>3, <2>4 DEF TypeOK, StopUnowned
<1>3. CASE Terminate(t)
  <2>1. task[t].pid \in Pids /\ ~Idle(t)
    BY <1>3 DEF TypeOK, FramesOK, Terminate, Idle, At
  <2>2. FramesOK'
    BY <1>3, <2>1, GotoTyped DEF TypeOK, Terminate, Pcs, StopPcs
  <2> QED
    BY <1>3, <2>1, <2>2 DEF TypeOK, Terminate
<1>4. CASE StopReaped(t)
  <2>1. task[t].key \in Keys /\ ~Idle(t)
    BY <1>4 DEF TypeOK, FramesOK, StopReaped, Idle, At
  <2>2. inst' \in [Keys -> Instance]
    BY <1>4, <2>1, WritesTyped, PutTyped DEF TypeOK, StopReaped
  <2>3. FramesOK'
    BY <1>4, <2>1, GotoTyped DEF TypeOK, StopReaped, Pcs, StopPcs
  <2> QED
    BY <1>4, <2>2, <2>3 DEF TypeOK, StopReaped
<1>5. CASE PersistDesired(t, "persistStopped", "STOPPED")
  BY <1>5, PersistType DEF Pcs, StopPcs, Desired
<1> QED
  BY <1>1, <1>2, <1>3, <1>4, <1>5 DEF Stop

LEMMA PostAnsweredType ==
    ASSUME TypeOK, NEW t \in Tasks, NEW pc \in Pcs \ {"idle"},
           NEW next \in {"markAsleep", "markAwake"}, PostAnswered(t, pc, next)
    PROVE  TypeOK'
<1>1. FramesOK'
  BY GotoTyped DEF TypeOK, PostAnswered, Pcs, SleepPcs, WakePcs, Idle, At
<1> QED
  BY <1>1 DEF TypeOK, PostAnswered

LEMMA PostFailedType ==
    ASSUME TypeOK, NEW t \in Tasks, NEW pc \in Pcs \ {"idle"}, NEW want \in Desired,
           PostFailed(t, pc, want)
    PROVE  TypeOK'
<1>1. FramesOK'
  BY ReturnTyped DEF TypeOK, PostFailed
<1>2. inst' \in [Keys -> Instance]
  BY DEF TypeOK, FramesOK, PostFailed, Instance, Idle, At
<1> QED
  BY <1>1, <1>2 DEF TypeOK, PostFailed

LEMMA MarkType ==
    ASSUME TypeOK, NEW t \in Tasks, NEW pc \in Pcs \ {"idle"}, NEW s \in ModelState,
           NEW next \in {"persistAsleep", "persistRunning"}, Mark(t, pc, s, next)
    PROVE  TypeOK'
<1>1. FramesOK'
  BY GotoTyped DEF TypeOK, Mark, Pcs, SleepPcs, Idle, At
<1>2. inst' \in [Keys -> Instance]
  BY DEF TypeOK, FramesOK, Mark, Instance, Idle, At
<1> QED
  BY <1>1, <1>2 DEF TypeOK, Mark

LEMMA SleepType ==
    ASSUME TypeOK, NEW t \in Tasks, Sleep(t)
    PROVE  TypeOK'
<1>1. CASE SleepRefused(t)
  BY <1>1, ReturnTyped DEF TypeOK, SleepRefused
<1>2. CASE SleepBegins(t)
  <2>1. task[t].key \in Keys /\ ~Idle(t)
    BY <1>2 DEF TypeOK, FramesOK, SleepBegins, Idle, At
  <2>2. inst' \in [Keys -> Instance]
    BY <1>2, <2>1 DEF TypeOK, SleepBegins, Instance, Desired
  <2>3. FramesOK'
    BY <1>2, <2>1, GotoTyped DEF TypeOK, SleepBegins, Pcs, SleepPcs
  <2> QED
    BY <1>2, <2>2, <2>3 DEF TypeOK, SleepBegins
<1>3. CASE PostAnswered(t, "postSleep", "markAsleep")
  BY <1>3, PostAnsweredType DEF Pcs, SleepPcs
<1>4. CASE PostFailed(t, "postSleep", "RUNNING")
  BY <1>4, PostFailedType DEF Pcs, SleepPcs, Desired
<1>5. CASE Mark(t, "markAsleep", "SLEEPING", "persistAsleep")
  BY <1>5, MarkType DEF Pcs, SleepPcs, ModelState
<1>6. CASE PersistDesired(t, "persistAsleep", "ASLEEP")
  BY <1>6, PersistType DEF Pcs, SleepPcs, Desired
<1> QED
  BY <1>1, <1>2, <1>3, <1>4, <1>5, <1>6 DEF Sleep

LEMMA WakeType ==
    ASSUME TypeOK, NEW t \in Tasks, Wake(t)
    PROVE  TypeOK'
<1>1. CASE WakeRefused(t)
  BY <1>1, ReturnTyped DEF TypeOK, WakeRefused
<1>2. CASE WakeBegins(t)
  <2>1. task[t].key \in Keys /\ ~Idle(t)
    BY <1>2 DEF TypeOK, FramesOK, WakeBegins, Idle, At
  <2>2. inst' \in [Keys -> Instance]
    BY <1>2, <2>1, WritesTyped DEF TypeOK, WakeBegins, Desired
  <2>3. FramesOK'
    BY <1>2, <2>1, GotoTyped DEF TypeOK, WakeBegins, Pcs, WakePcs
  <2> QED
    BY <1>2, <2>2, <2>3 DEF TypeOK, WakeBegins
<1>3. CASE PostAnswered(t, "postWake", "markAwake")
  BY <1>3, PostAnsweredType DEF Pcs, WakePcs
<1>4. CASE PostFailed(t, "postWake", "ASLEEP")
  BY <1>4, PostFailedType DEF Pcs, WakePcs, Desired
<1>5. CASE Mark(t, "markAwake", "READY", "persistRunning")
  BY <1>5, MarkType DEF Pcs, WakePcs, ModelState
<1> QED
  BY <1>1, <1>2, <1>3, <1>4, <1>5 DEF Wake

LEMMA CancelType ==
    ASSUME TypeOK, NEW t \in Cancellable, Cancel(t)
    PROVE  TypeOK'
<1>1. t \in Tasks
  BY TasksAssumption DEF Tasks
<1>2. FramesOK'
  BY <1>1, ReturnTyped DEF TypeOK, Cancel
<1>3. live' \in [Pids -> Keys \cup {None}]
  BY <1>1 DEF TypeOK, FramesOK, Cancel
<1> QED
  BY <1>2, <1>3 DEF TypeOK, Cancel

LEMMA LoopTyped ==
    /\ LoopStart \in LoopFrame
    /\ \A l \in LoopFrame, due \in SUBSET Keys :
          /\ [l EXCEPT !.pc = "collect"] \in LoopFrame
          /\ \A want \in [Keys -> Desired \cup {None}] :
                [l EXCEPT !.pc = "snapshot", !.want = want] \in LoopFrame
          /\ [l EXCEPT !.due = due] \in LoopFrame
          /\ [l EXCEPT !.pc = "restart", !.due = due] \in LoopFrame
BY DEF LoopStart, LoopFrame, NoPlan

LEMMA ConvergeOpTyped ==
    ASSUME NEW want, NEW state
    PROVE  ConvergeOp(want, state) \in {"start", "stop", "sleep", "wake", "none"}
BY DEF ConvergeOp

LEMMA ChargedTyped ==
    ASSUME NEW i \in Instance, i.restartCount < MaxRestarts
    PROVE  [i EXCEPT !.nextRestart = "none", !.restartCount = @ + 1] \in Instance
<1>1. \A n \in 0..MaxRestarts :
         [i EXCEPT !.nextRestart = "none", !.restartCount = n] \in Instance
  BY DEF Instance
<1>2. i.restartCount + 1 \in 0..MaxRestarts
  BY Restarts DEF Instance
<1> QED
  BY <1>1, <1>2

LEMMA ReconcileStepType ==
    ASSUME TypeOK, ReconcileStep
    PROVE  TypeOK'
<1> USE DEF Tasks
<1>1. CASE ReconcilePass
  <2>1. PICK probe \in [Keys -> {"silent", "ready", "timeout"}] :
             /\ inst' = [k \in Keys |-> Reconciled(inst[k], probe[k])]
             /\ term' = term \cup KillAsync(probe)
    BY <1>1 DEF ReconcilePass
  <2>2. inst' \in [Keys -> Instance]
    BY <2>1, ReconciledTyped DEF TypeOK
  <2>3. term' \subseteq Pids
    BY <2>1 DEF TypeOK, KillAsync
  <2>4. autoStarts' \in [Keys -> Nat]
    BY <1>1 DEF TypeOK, ReconcilePass
  <2>5. loop' \in LoopFrame
    BY <1>1, LoopTyped DEF TypeOK, ReconcilePass
  <2>6. FramesOK'
    BY <1>1, KeepTyped DEF TypeOK, ReconcilePass
  <2> QED
    BY <1>1, <2>2, <2>3, <2>4, <2>5, <2>6 DEF TypeOK, ReconcilePass
<1>2. CASE CollectDue
  <2> DEFINE charged(k) == [inst[k] EXCEPT !.nextRestart = "none", !.restartCount = @ + 1]
  <2>1. \A k \in Keys : RestartDue(inst[k]) => charged(k) \in Instance
    BY ChargedTyped DEF TypeOK, RestartDue
  <2>2. inst' = [k \in Keys |-> IF RestartDue(inst[k]) THEN charged(k) ELSE inst[k]]
    BY <1>2 DEF CollectDue
  <2> HIDE DEF charged
  <2>3. inst' \in [Keys -> Instance]
    BY <2>1, <2>2 DEF TypeOK
  <2>4. loop' \in LoopFrame
    BY <1>2, LoopTyped DEF TypeOK, CollectDue
  <2>5. FramesOK'
    BY <1>2, KeepTyped DEF TypeOK, CollectDue
  <2> QED
    BY <1>2, <2>3, <2>4, <2>5 DEF TypeOK, CollectDue
<1>3. CASE RestartNext
  <2>1. PICK k \in loop.due : /\ Enter(Reconciler, "start", k, FALSE)
                              /\ loop' = [loop EXCEPT !.due = @ \ {k}]
    BY <1>3 DEF RestartNext
  <2>2. loop.due \subseteq Keys
    BY DEF TypeOK, LoopFrame
  <2>3. FramesOK'
    BY <2>1, <2>2, EnterTyped DEF TypeOK
  <2>4. loop' \in LoopFrame
    BY <2>1, <2>2, LoopTyped DEF TypeOK
  <2> QED
    BY <1>3, <2>3, <2>4 DEF TypeOK, RestartNext
<1>4. CASE ReadDesired
  <2>1. loop' \in LoopFrame
    BY <1>4, LoopTyped DEF TypeOK, ReadDesired
  <2>2. FramesOK'
    BY <1>4, KeepTyped DEF TypeOK, ReadDesired
  <2> QED
    BY <1>4, <2>1, <2>2 DEF TypeOK, ReadDesired
<1>5. CASE SnapshotStates
  <2> DEFINE ops == [k \in Keys |-> ConvergeOp(loop.want[k], inst[k].state)]
  <2>1. ops \in [Keys -> {"start", "stop", "sleep", "wake", "none"}]
    BY ConvergeOpTyped
  <2>2. loop' = [LoopStart EXCEPT !.pc = "converge", !.plan = ops]
    BY <1>5 DEF SnapshotStates
  <2> HIDE DEF ops
  <2>3. loop' \in LoopFrame
    BY <2>1, <2>2, LoopTyped DEF LoopFrame
  <2>4. FramesOK'
    BY <1>5, KeepTyped DEF TypeOK, SnapshotStates
  <2> QED
    BY <1>5, <2>3, <2>4 DEF TypeOK, SnapshotStates
<1>6. CASE ConvergeNext
  <2>1. PICK k \in Keys : /\ loop.plan[k] # "none"
                          /\ Enter(Reconciler, loop.plan[k], k, TRUE)
                          /\ loop' = [loop EXCEPT !.plan[k] = "none"]
    BY <1>6 DEF ConvergeNext
  <2>2. loop.plan[k] \in {"start", "stop", "sleep", "wake"}
    BY <2>1 DEF TypeOK, LoopFrame
  <2>3. FramesOK'
    BY <2>1, <2>2, EnterTyped DEF TypeOK
  <2>4. loop' \in LoopFrame
    BY <2>1 DEF TypeOK, LoopFrame
  <2> QED
    BY <1>6, <2>3, <2>4 DEF TypeOK, ConvergeNext
<1>7. CASE ConvergeDone
  BY <1>7, LoopTyped, KeepTyped DEF TypeOK, ConvergeDone
<1> QED
  BY <1>1, <1>2, <1>3, <1>4, <1>5, <1>6, <1>7 DEF ReconcileStep

LEMMA BootType ==
    ASSUME TypeOK, Reboot \/ ReplayStep
    PROVE  TypeOK'
<1> USE DEF Tasks
<1>1. CASE Reboot
  <2>1. inst' \in [Keys -> Instance]
    BY <1>1, NewInstanceTyped DEF Reboot
  <2>2. FramesOK'
    BY <1>1 DEF Reboot, FramesOK, Frame, NoFrame, Pcs, Idle, At
  <2>3. autoStarts' \in [Keys -> Nat] /\ reboots' \in 0..MaxReboots
    BY <1>1, SettingsAssumption DEF TypeOK, Reboot
  <2>4. loop' \in LoopFrame /\ boot' \in BootFrame
    BY <1>1, LoopTyped DEF Reboot, BootFrame
  <2> QED
    BY <1>1, <2>1, <2>2, <2>3, <2>4 DEF TypeOK, Reboot
<1>2. CASE ReplayRead
  <2>1. boot' \in BootFrame
    BY <1>2 DEF TypeOK, ReplayRead, BootFrame
  <2> QED
    BY <1>2, <2>1, KeepTyped DEF TypeOK, ReplayRead
<1>3. CASE ReplayNext
  <2>1. PICK k \in boot.todo :
             /\ boot' = [boot EXCEPT !.todo = @ \ {k}]
             /\ Enter(Replayer, "start", k, TRUE) \/ UNCHANGED task
    BY <1>3 DEF ReplayNext
  <2>2. k \in Keys /\ boot' \in BootFrame
    BY <2>1 DEF TypeOK, BootFrame
  <2>3. FramesOK'
    BY <2>1, <2>2, EnterTyped, KeepTyped DEF TypeOK
  <2> QED
    BY <1>3, <2>2, <2>3 DEF TypeOK, ReplayNext
<1> QED
  BY <1>1, <1>2, <1>3 DEF ReplayStep

LEMMA ProcessType ==
    ASSUME TypeOK,
           \/ \E k \in Keys : BackoffElapses(k)
           \/ \E p \in Pids : ProcDies(p)
    PROVE  TypeOK'
<1>1. ASSUME NEW k \in Keys, BackoffElapses(k) PROVE TypeOK'
  <2>1. inst' \in [Keys -> Instance]
    BY <1>1 DEF TypeOK, BackoffElapses, Instance
  <2> QED
    BY <1>1, <2>1, KeepTyped DEF TypeOK, BackoffElapses
<1>2. ASSUME NEW p \in Pids, ProcDies(p) PROVE TypeOK'
  BY <1>2, KeepTyped DEF TypeOK, ProcDies
<1> QED
  BY <1>1, <1>2

LEMMA InitType == Init => TypeOK
<1> SUFFICES ASSUME Init PROVE TypeOK
  OBVIOUS
<1>1. FramesOK
  BY DEF Init, FramesOK, Frame, NoFrame, Pcs, Idle, At
<1>2. loop \in LoopFrame /\ boot \in BootFrame
  BY LoopTyped DEF Init, BootFrame
<1> QED
  BY <1>1, <1>2, NewInstanceTyped, SettingsAssumption DEF Init, TypeOK

LEMMA NextType ==
    ASSUME TypeOK, [Next]_vars
    PROVE  TypeOK'
<1>1. CASE UNCHANGED vars
  BY <1>1, KeepTyped DEF TypeOK, vars
<1>2. ASSUME NEW t \in Calls, NEW op \in Ops, NEW k \in Keys, Request(t, op, k)
      PROVE  TypeOK'
  BY <1>2, RequestType
<1>3. ASSUME NEW t \in Tasks, TaskStep(t) PROVE TypeOK'
  BY <1>3, StartType, StopType, SleepType, WakeType DEF TaskStep
<1>4. ASSUME NEW t \in Cancellable, Cancel(t) PROVE TypeOK'
  BY <1>4, CancelType
<1> QED
  BY <1>1, <1>2, <1>3, <1>4, ReconcileStepType, BootType, ProcessType DEF Next

\* The type invariant, for every number of instances, callers and processes:
\* no interleaving of the manager's coroutines with the reconcile pass and with
\* crashes charges an instance more than max_restarts attempts, or leaves a
\* coroutine without the key or the handle it waits on.
THEOREM TypeCorrect == Spec => []TypeOK
BY InitType, NextType, PTL DEF Spec

-----------------------------------------------------------------------------
\* Steps that leave the counts, the loop and the attempts owed alone.

LEMMA QuietStep ==
    ASSUME BudgetInv, TypeOK', NEW t \in Tasks, UNCHANGED <<autoStarts, loop>>,
           \A k \in Keys : inst'[k].restartCount = inst[k].restartCount,
           \A u \in Tasks \ {t} : task'[u] = task[u],
           task'[t].pc = "start" => task'[t].reset
    PROVE  BudgetInv'
<1>1. \A u \in Tasks : At(u, "start")' /\ ~task'[u].reset
                         => At(u, "start") /\ task'[u] = task[u]
  BY DEF At
<1>2. \A k \in Keys : Owed(k)' => Owed(k)
  BY <1>1, TasksAssumption DEF Owed, Tasks, At
<1>3. \A k \in Keys : autoStarts[k] \in Nat /\ inst[k].restartCount \in Nat
  BY Restarts DEF BudgetInv, TypeOK, Instance
<1> QED
  BY <1>1, <1>2, <1>3 DEF BudgetInv

LEMMA QuietTask ==
    ASSUME BudgetInv, TypeOK', NEW t \in Tasks, TaskStep(t), ~StartAccepted(t)
    PROVE  BudgetInv'
<1> USE DEF BudgetInv
<1> DEFINE Quiet == /\ UNCHANGED <<autoStarts, loop>>
                    /\ \A k \in Keys : inst'[k].restartCount = inst[k].restartCount
                    /\ \A u \in Tasks \ {t} : task'[u] = task[u]
                    /\ task'[t].pc # "start"
<1>1. Quiet
  <2>1. CASE Start(t)
    <3>1. CASE StartRefused(t)
      BY <3>1 DEF StartRefused, Return, NoFrame, TypeOK, FramesOK
    <3>2. CASE Spawn(t)
      BY <3>2 DEF Spawn, Goto, TypeOK, FramesOK, Frame
    <3>3. CASE SpawnFails(t)
      BY <3>3 DEF SpawnFails, Return, NoFrame, TypeOK, FramesOK, Instance
    <3>4. CASE Track(t)
      BY <3>4 DEF Track, Goto, TypeOK, FramesOK, Frame, Instance
    <3>5. CASE PersistDesired(t, "persistRunning", "RUNNING")
      BY <3>5 DEF PersistDesired, Return, NoFrame, TypeOK, FramesOK
    <3> QED
      BY <2>1, <3>1, <3>2, <3>3, <3>4, <3>5 DEF Start
  <2>2. CASE Stop(t)
    <3>1. CASE StopBegins(t)
      BY <3>1 DEF StopBegins, Goto, TypeOK, FramesOK, Frame, Instance
    <3>2. CASE StopUnowned(t)
      BY <3>2 DEF StopUnowned, Return, NoFrame, TypeOK, FramesOK, Instance
    <3>3. CASE Terminate(t)
      BY <3>3 DEF Terminate, Goto, TypeOK, FramesOK, Frame
    <3>4. CASE StopReaped(t)
      BY <3>4 DEF StopReaped, Goto, TypeOK, FramesOK, Frame, Instance
    <3>5. CASE PersistDesired(t, "persistStopped", "STOPPED")
      BY <3>5 DEF PersistDesired, Return, NoFrame, TypeOK, FramesOK
    <3> QED
      BY <2>2, <3>1, <3>2, <3>3, <3>4, <3>5 DEF Stop
  <2>3. CASE Sleep(t) \/ Wake(t)
    <3>1. CASE SleepRefused(t) \/ WakeRefused(t)
      BY <3>1 DEF SleepRefused, WakeRefused, Return, NoFrame, TypeOK, FramesOK
    <3>2. CASE SleepBegins(t)
      BY <3>2 DEF SleepBegins, Goto, TypeOK, FramesOK, Frame, Instance
    <3>3. CASE WakeBegins(t)
      BY <3>3 DEF WakeBegins, Goto, TypeOK, FramesOK, Frame, Instance
    <3>4. ASSUME NEW pc, NEW next \in {"markAsleep", "markAwake"}, PostAnswered(t, pc, next)
          PROVE  Quiet
      BY <3>4 DEF PostAnswered, Goto, TypeOK, FramesOK, Frame
    <3>5. ASSUME NEW pc, NEW want, PostFailed(t, pc, want)
          PROVE  Quiet
      BY <3>5 DEF PostFailed, Return, NoFrame, TypeOK, FramesOK, Instance
    <3>6. ASSUME NEW pc, NEW s, NEW next \in {"persistAsleep", "persistRunning"},
                 Mark(t, pc, s, next)
          PROVE  Quiet
      BY <3>6 DEF Mark, Goto, TypeOK, FramesOK, Frame, Instance
    <3>7. CASE PersistDesired(t, "persistAsleep", "ASLEEP")
      BY <3>7 DEF PersistDesired, Return, NoFrame, TypeOK, FramesOK
    <3> QED
      BY <2>3, <3>1, <3>2, <3>3, <3>4, <3>5, <3>6, <3>7 DEF Sleep, Wake
  <2> QED
    BY <2>1, <2>2, <2>3 DEF TaskStep
<1> QED
  BY <1>1, QuietStep

-----------------------------------------------------------------------------
\* The steps that charge, make, accept or forget attempts.

LEMMA AcceptStep ==
    ASSUME BudgetInv, TypeOK', NEW t \in Tasks, StartAccepted(t)
    PROVE  BudgetInv'
<1> DEFINE k == task[t].key
<1>1. /\ k \in Keys /\ task[t].reset \in BOOLEAN /\ UNCHANGED loop
      /\ task' = [task EXCEPT ![t].pc = "spawn", ![t].pid = None]
      /\ At(t, "start")
  BY DEF BudgetInv, TypeOK, FramesOK, Frame, StartAccepted, Goto, Idle, At
<1>2. \A u \in Tasks : At(u, "start")' => u # t /\ At(u, "start") /\ task'[u] = task[u]
  BY <1>1 DEF At, BudgetInv, TypeOK, FramesOK, Frame
<1>3. \A j \in Keys : /\ Owed(j)' => Owed(j)
                      /\ j = k /\ ~task[t].reset => Owed(j) /\ ~Owed(j)'
  BY <1>1, <1>2, TasksAssumption DEF Owed, Tasks, BudgetInv
<1>4. \A j \in Keys : autoStarts[j] \in Nat /\ inst[j].restartCount \in Nat
  BY Restarts DEF BudgetInv, TypeOK, Instance
<1>5. autoStarts' = [autoStarts EXCEPT ![k] = IF task[t].reset THEN 0 ELSE @ + 1]
  BY DEF StartAccepted
<1>6. /\ inst'[k].restartCount = IF task[t].reset THEN 0 ELSE inst[k].restartCount
      /\ \A j \in Keys \ {k} : inst'[j] = inst[j]
  BY <1>1 DEF StartAccepted, Started, BudgetInv, TypeOK, Instance
<1>7. \A j \in Keys :
         autoStarts'[j] + (IF Owed(j)' THEN 1 ELSE 0) <= inst'[j].restartCount + 1
  <2> TAKE j \in Keys
  <2>1. CASE j # k
    BY <2>1, <1>3, <1>4, <1>5, <1>6 DEF BudgetInv, TypeOK
  <2>2. CASE j = k /\ task[t].reset
    BY <2>2, <1>1, <1>5, <1>6 DEF BudgetInv, TypeOK
  <2>3. CASE j = k /\ ~task[t].reset
    BY <2>3, <1>1, <1>3, <1>4, <1>5, <1>6 DEF BudgetInv, TypeOK
  <2> QED
    BY <1>1, <2>1, <2>2, <2>3
<1> QED
  BY <1>1, <1>2, <1>7 DEF BudgetInv

LEMMA ReconciledCount ==
    ASSUME NEW i \in Instance, NEW probe
    PROVE  \/ Reconciled(i, probe).restartCount = i.restartCount
           \/ /\ Reconciled(i, probe).restartCount = 0
              /\ Reconciled(i, probe).state = "READY" /\ i.state # "READY"
<1>1. AfterExit(i).restartCount = i.restartCount
  BY DEF AfterExit, MaybeScheduleRestart, Instance
<1>2. AfterReady(i).restartCount = 0 /\ AfterReady(i).state = "READY"
  BY DEF AfterReady, Instance
<1>3. AfterTimeout(i).restartCount = i.restartCount
  BY DEF AfterTimeout, MaybeScheduleRestart, Instance
<1>4. \/ Reconciled(i, probe) \in {AfterExit(i), AfterTimeout(i), i}
      \/ Reconciled(i, probe) = AfterReady(i) /\ i.state = "STARTING"
  BY DEF Reconciled
<1> QED
  BY <1>1, <1>2, <1>3, <1>4

LEMMA PassStep ==
    ASSUME BudgetInv, TypeOK', ReconcilePass
    PROVE  BudgetInv'
<1>1. /\ loop.pc = "pass" /\ loop' = [loop EXCEPT !.pc = "collect"] /\ UNCHANGED task
      /\ loop.due = {} /\ loop'.due = {}
  BY DEF ReconcilePass, BudgetInv, TypeOK, LoopFrame
<1>2. \A t \in Tasks : ~(At(t, "start") /\ ~task[t].reset)'
  BY <1>1 DEF BudgetInv, At
<1>3. \A k \in Keys : ~Owed(k)'
  BY <1>1, <1>2 DEF Owed, Tasks
<1>4. PICK probe \in [Keys -> {"silent", "ready", "timeout"}] :
             inst' = [k \in Keys |-> Reconciled(inst[k], probe[k])]
  BY DEF ReconcilePass
<1>5. \A k \in Keys : autoStarts'[k] <= inst'[k].restartCount + 1
  <2> TAKE k \in Keys
  <2>1. /\ inst[k] \in Instance /\ inst'[k] \in Instance
        /\ autoStarts[k] \in Nat /\ autoStarts[k] <= inst[k].restartCount + 1
    BY <1>1, Restarts DEF BudgetInv, TypeOK, Instance
  <2>2. autoStarts'[k] = IF inst'[k].state = "READY" /\ inst[k].state # "READY"
                         THEN 0 ELSE autoStarts[k]
    BY DEF ReconcilePass
  <2>3. \/ inst'[k].restartCount = inst[k].restartCount
        \/ inst'[k].state = "READY" /\ inst[k].state # "READY"
    BY <1>4, <2>1, ReconciledCount
  <2>4. inst'[k].restartCount \in Nat
    BY <2>1, Restarts DEF Instance
  <2> QED
    BY <2>1, <2>2, <2>3, <2>4
<1>6. \A k \in Keys : autoStarts'[k] \in Nat
  BY DEF TypeOK
<1> QED
  BY <1>1, <1>2, <1>3, <1>5, <1>6 DEF BudgetInv

LEMMA CollectStep ==
    ASSUME BudgetInv, TypeOK', CollectDue
    PROVE  BudgetInv'
<1>1. loop.pc = "collect" /\ loop'.pc = "restart" /\ UNCHANGED <<task, autoStarts>>
  BY DEF CollectDue, BudgetInv, TypeOK, LoopFrame
<1>2. \A t \in Tasks : ~(At(t, "start") /\ ~task[t].reset)
  BY <1>1 DEF BudgetInv
<1>3. \A k \in Keys : ~Owed(k)
  BY <1>1, <1>2 DEF Owed, Tasks, BudgetInv
<1>4. \A k \in Keys : Owed(k)' <=> RestartDue(inst[k])
  BY <1>1, <1>2 DEF CollectDue, Owed, Tasks, At, BudgetInv, TypeOK, LoopFrame
<1>5. \A k \in Keys :
         /\ RestartDue(inst[k]) => inst'[k].restartCount = inst[k].restartCount + 1
         /\ ~RestartDue(inst[k]) => inst'[k].restartCount = inst[k].restartCount
  <2> TAKE k \in Keys
  <2>1. inst[k] \in Instance /\ inst[k].restartCount \in Nat
    BY Restarts DEF BudgetInv, TypeOK, Instance
  <2>2. CASE RestartDue(inst[k])
    <3>1. inst'[k] = [inst[k] EXCEPT !.nextRestart = "none", !.restartCount = @ + 1]
      BY <2>2 DEF CollectDue
    <3>2. inst'[k].restartCount = inst[k].restartCount + 1
      BY <2>1, <3>1 DEF Instance
    <3> QED
      BY <2>2, <3>2
  <2>3. CASE ~RestartDue(inst[k])
    BY <2>1, <2>3 DEF CollectDue
  <2> QED
    BY <2>2, <2>3
<1>6. \A k \in Keys : autoStarts[k] \in Nat /\ inst[k].restartCount \in Nat
  BY Restarts DEF BudgetInv, TypeOK, Instance
<1>7. \A k \in Keys : autoStarts[k] <= inst[k].restartCount + 1
  BY <1>3, <1>6 DEF BudgetInv
<1>8. \A k \in Keys :
         autoStarts'[k] + (IF Owed(k)' THEN 1 ELSE 0) <= inst'[k].restartCount + 1
  <2> TAKE k \in Keys
  <2>1. CASE RestartDue(inst[k])
    BY <2>1, <1>1, <1>4, <1>5, <1>6, <1>7
  <2>2. CASE ~RestartDue(inst[k])
    BY <2>2, <1>1, <1>4, <1>5, <1>6, <1>7
  <2> QED
    BY <2>1, <2>2
<1> QED
  BY <1>1, <1>2, <1>8 DEF BudgetInv, At

LEMMA LoopStep ==
    ASSUME BudgetInv, TypeOK',
           RestartNext \/ ReadDesired \/ SnapshotStates \/ ConvergeNext \/ ConvergeDone
    PROVE  BudgetInv'
<1>1. UNCHANGED autoStarts /\ UNCHANGED inst
  BY DEF RestartNext, ReadDesired, SnapshotStates, ConvergeNext, ConvergeDone
<1>2. \A k \in Keys : autoStarts[k] \in Nat /\ inst[k].restartCount \in Nat
  BY Restarts DEF BudgetInv, TypeOK, Instance
<1>3. ASSUME \A k \in Keys : Owed(k)' => Owed(k)
      PROVE  \A k \in Keys :
               autoStarts'[k] + (IF Owed(k)' THEN 1 ELSE 0) <= inst'[k].restartCount + 1
  BY <1>1, <1>2, <1>3 DEF BudgetInv
<1>4. CASE RestartNext
  <2>1. PICK j \in loop.due : /\ Enter(Reconciler, "start", j, FALSE)
                              /\ loop' = [loop EXCEPT !.due = @ \ {j}]
    BY <1>4 DEF RestartNext
  <2>2. loop.pc = "restart" /\ loop'.pc = "restart" /\ loop'.due = loop.due \ {j}
    BY <1>4, <2>1 DEF RestartNext, BudgetInv, TypeOK, LoopFrame
  <2>3. /\ task'[Reconciler].key = j /\ ~task'[Reconciler].reset
        /\ \A u \in Tasks \ {Reconciler} : task'[u] = task[u]
    BY <2>1 DEF Enter, BudgetInv, TypeOK, FramesOK, Tasks
  <2>4. \A k \in Keys : Owed(k)' => Owed(k)
    BY <2>1, <2>2, <2>3 DEF Owed
  <2>5. \A t \in Tasks : At(t, "start")' /\ ~task'[t].reset
                            => t = Reconciler /\ task'[t].key \notin loop'.due
    BY <2>2, <2>3 DEF BudgetInv, At
  <2> QED
    BY <1>3, <2>2, <2>4, <2>5 DEF BudgetInv
<1>5. CASE ConvergeNext
  <2>1. PICK j \in Keys : /\ Enter(Reconciler, loop.plan[j], j, TRUE)
                          /\ loop' = [loop EXCEPT !.plan[j] = "none"]
    BY <1>5 DEF ConvergeNext
  <2>2. loop.pc = "converge" /\ loop'.pc = "converge" /\ loop'.due = {} /\ loop.due = {}
    BY <1>5, <2>1 DEF ConvergeNext, BudgetInv, TypeOK, LoopFrame
  <2>3. /\ task'[Reconciler].reset
        /\ \A u \in Tasks \ {Reconciler} : task'[u] = task[u]
    BY <2>1 DEF Enter, BudgetInv, TypeOK, FramesOK, Tasks
  <2>4. \A t \in Tasks : ~(At(t, "start")' /\ ~task'[t].reset)
    BY <2>2, <2>3 DEF BudgetInv, At
  <2>5. \A k \in Keys : ~Owed(k)'
    BY <2>2, <2>3 DEF Owed
  <2> QED
    BY <1>3, <2>2, <2>4, <2>5 DEF BudgetInv
<1>6. CASE ReadDesired \/ SnapshotStates \/ ConvergeDone
  <2>1. UNCHANGED task /\ loop.due = {} /\ loop'.due = {}
    <3>1. loop.due = {}
      BY <1>6 DEF ReadDesired, SnapshotStates, ConvergeDone, BudgetInv
    <3>2. LoopStart.due = {}
      BY DEF LoopStart
    <3>3. loop'.due \in {loop.due, LoopStart.due}
      <4>1. CASE ReadDesired
        BY <4>1 DEF ReadDesired, BudgetInv, TypeOK, LoopFrame
      <4>2. CASE SnapshotStates
        BY <4>2 DEF SnapshotStates, LoopStart
      <4>3. CASE ConvergeDone
        BY <4>3 DEF ConvergeDone
      <4> QED
        BY <1>6, <4>1, <4>2, <4>3
    <3> QED
      BY <1>6, <3>1, <3>2, <3>3 DEF ReadDesired, SnapshotStates, ConvergeDone
  <2>2. loop.pc # "restart" \/ Idle(Reconciler)
    BY <1>6 DEF ReadDesired, SnapshotStates, ConvergeDone
  <2>3. \A t \in Tasks : ~(At(t, "start") /\ ~task[t].reset)
    BY <2>2 DEF BudgetInv, Idle, At
  <2>4. \A k \in Keys : ~Owed(k)'
    BY <2>1, <2>3 DEF Owed, Tasks, At
  <2> QED
    BY <1>3, <2>1, <2>3, <2>4 DEF BudgetInv, At
<1> QED
  BY <1>4, <1>5, <1>6

LEMMA RequestStep ==
    ASSUME BudgetInv, TypeOK', NEW t \in Calls, NEW op \in Ops, NEW k \in Keys,
           Request(t, op, k)
    PROVE  BudgetInv'
<1>1. /\ t \in Tasks /\ UNCHANGED <<autoStarts, loop, inst>> /\ task'[t].reset
      /\ \A u \in Tasks \ {t} : task'[u] = task[u]
  BY DEF Request, Enter, Tasks, BudgetInv, TypeOK, FramesOK
<1> QED
  BY <1>1, QuietStep

LEMMA CancelStep ==
    ASSUME BudgetInv, TypeOK', NEW t \in Cancellable, Cancel(t)
    PROVE  BudgetInv'
<1>1. t \in Tasks
  BY TasksAssumption DEF Tasks
<1>2. /\ UNCHANGED <<autoStarts, loop, inst>> /\ task'[t].pc = "idle"
      /\ \A u \in Tasks \ {t} : task'[u] = task[u]
  BY <1>1 DEF Cancel, Return, NoFrame, BudgetInv, TypeOK, FramesOK
<1> QED
  BY <1>1, <1>2, QuietStep

LEMMA ReplayBudget ==
    ASSUME BudgetInv, TypeOK', ReplayStep
    PROVE  BudgetInv'
<1>1. Replayer \in Tasks /\ UNCHANGED <<autoStarts, loop, inst>>
  BY DEF ReplayStep, ReplayRead, ReplayNext, Tasks
<1>2. \/ UNCHANGED task
      \/ /\ task'[Replayer].reset
         /\ \A u \in Tasks \ {Replayer} : task'[u] = task[u]
  BY DEF ReplayStep, ReplayRead, ReplayNext, Enter, Tasks, BudgetInv, TypeOK, FramesOK
<1>3. CASE UNCHANGED task
  <2>1. \A k \in Keys : Owed(k)' = Owed(k)
    BY <1>1, <1>3 DEF Owed, At
  <2> QED
    BY <1>1, <1>3, <2>1 DEF BudgetInv, At
<1> QED
  BY <1>1, <1>2, <1>3, QuietStep

LEMMA RebootBudget ==
    ASSUME BudgetInv, TypeOK', Reboot
    PROVE  BudgetInv'
<1>1. \A t \in Tasks : task'[t].pc = "idle"
  BY DEF Reboot, NoFrame
<1>2. loop'.pc = "pass" /\ loop'.due = {}
  BY DEF Reboot, LoopStart
<1>3. \A k \in Keys : autoStarts'[k] = 0 /\ ~Owed(k)'
  BY <1>1, <1>2 DEF Reboot, Owed, At, Tasks
<1>4. \A k \in Keys : inst'[k].restartCount \in Nat
  BY Restarts DEF TypeOK, Instance
<1> QED
  BY <1>1, <1>2, <1>3, <1>4 DEF BudgetInv, At

LEMMA ProcessBudget ==
    ASSUME BudgetInv, TypeOK',
           \/ \E k \in Keys : BackoffElapses(k)
           \/ \E p \in Pids : ProcDies(p)
           \/ UNCHANGED vars
    PROVE  BudgetInv'
<1>1. /\ UNCHANGED <<autoStarts, loop, task>>
      /\ \A k \in Keys : inst'[k].restartCount = inst[k].restartCount
  BY DEF BackoffElapses, ProcDies, vars, BudgetInv, TypeOK, Instance
<1>2. \A k \in Keys : Owed(k)' = Owed(k)
  BY <1>1 DEF Owed, At
<1> QED
  BY <1>1, <1>2 DEF BudgetInv, At

LEMMA InitBudget == Init => BudgetInv
<1> SUFFICES ASSUME Init PROVE BudgetInv
  OBVIOUS
<1>1. TypeOK
  BY InitType
<1>2. loop.due = {} /\ \A t \in Tasks : task[t].pc = "idle"
  BY DEF Init, LoopStart, NoFrame
<1>3. \A k \in Keys : autoStarts[k] = 0 /\ inst[k].restartCount = 0 /\ ~Owed(k)
  BY <1>2 DEF Init, NewInstance, Owed, At, Tasks
<1> QED
  BY <1>1, <1>2, <1>3 DEF BudgetInv, At

LEMMA NextBudget == BudgetInv /\ [Next]_vars => BudgetInv'
<1> SUFFICES ASSUME BudgetInv, [Next]_vars PROVE BudgetInv'
  OBVIOUS
<1>1. TypeOK'
  BY NextType DEF BudgetInv
<1>2. ASSUME NEW t \in Calls, NEW op \in Ops, NEW k \in Keys, Request(t, op, k)
      PROVE  BudgetInv'
  BY <1>1, <1>2, RequestStep
<1>3. ASSUME NEW t \in Tasks, TaskStep(t) PROVE BudgetInv'
  BY <1>1, <1>3, AcceptStep, QuietTask
<1>4. ASSUME NEW t \in Cancellable, Cancel(t) PROVE BudgetInv'
  BY <1>1, <1>4, CancelStep
<1>5. CASE ReconcileStep
  BY <1>1, <1>5, PassStep, CollectStep, LoopStep DEF ReconcileStep
<1>6. CASE Reboot \/ ReplayStep
  BY <1>1, <1>6, RebootBudget, ReplayBudget
<1> QED
  BY <1>1, <1>2, <1>3, <1>4, <1>5, <1>6, ProcessBudget DEF Next

\* Crash loops end: whatever calls, cancellations, crashes and lost writes come
\* in between, _process_restarts starts an instance at most max_restarts times
\* (once more if a caller's start crosses a charged restart) between two READY
\* states or starts by a caller.
THEOREM RestartsAreBounded == Spec => []RestartBudget
<1>1. BudgetInv => RestartBudget
  BY Restarts DEF BudgetInv, RestartBudget, TypeOK, Instance
<1> QED
  BY <1>1, InitBudget, NextBudget, PTL DEF Spec

-----------------------------------------------------------------------------
\* Restarts stay armed: ArmedInv, key by key.

Answered(k) == \/ k \in loop.due
               \/ At(Reconciler, "start") /\ task[Reconciler].key = k
Armed(k) == /\ inst[k].state # "SLEEPING"
            /\ Crashed(k) => inst[k].nextRestart # "none" \/ Answered(k)
Awake == \A t \in Tasks : task[t].pc \notin Posting

\* The other tasks and the loop are left alone.
Alone(t) == (\A u \in Tasks \ {t} : task'[u] = task[u]) /\ UNCHANGED loop
\* Nothing of the record that Armed is about changes.
SameRecord(k) ==
    /\ inst'[k].state = inst[k].state /\ inst'[k].desired = inst[k].desired
    /\ inst'[k].managed = inst[k].managed
    /\ inst'[k].restartCount = inst[k].restartCount
    /\ inst'[k].nextRestart = inst[k].nextRestart

LEMMA ArmedByKey == ArmedInv <=> BudgetInv /\ (\A k \in Keys : Armed(k)) /\ Awake
BY DEF ArmedInv, Armed, Answered, Awake

LEMMA ArmedNext ==
    ASSUME BudgetInv', \A k \in Keys : Armed(k)', Awake'
    PROVE  ArmedInv'
<1>1. ArmedInv' <=> BudgetInv' /\ (\A k \in Keys : Armed(k))' /\ Awake'
  BY ArmedByKey, PTL
<1> QED
  BY <1>1

LEMMA AwakeNext ==
    ASSUME Awake, NEW t \in Tasks, Alone(t), task'[t].pc \notin Posting
    PROVE  Awake'
BY DEF Awake, Alone

LEMMA SameArmed ==
    ASSUME NEW k \in Keys, Armed(k), SameRecord(k), Answered(k) => Answered(k)'
    PROVE  Armed(k)'
BY DEF Armed, SameRecord, Crashed

LEMMA RecoveredArmed ==
    ASSUME NEW k \in Keys,
           \/ inst'[k].state \notin {"FAILED", "SLEEPING"}
           \/ inst'[k].state = "FAILED" /\ ~inst'[k].managed
    PROVE  Armed(k)'
BY DEF Armed, Crashed

\* A task that is not about to start an instance answers for none, and one that
\* is answers for no other.
LEMMA OthersAnswer ==
    ASSUME NEW t \in Tasks, Alone(t), NEW k \in Keys, Answered(k),
           ~At(t, "start") \/ task[t].key # k
    PROVE  Answered(k)'
BY DEF Alone, Answered, At, Tasks

\* A step of t that writes at most the record of its key.
LEMMA TaskArmed ==
    ASSUME ArmedInv, BudgetInv', NEW t \in Tasks, Alone(t),
           task'[t].pc \notin Posting, NEW k \in Keys, k = task[t].key,
           \A j \in Keys : j # k => inst'[j] = inst[j],
           \/ Armed(k)'
           \/ SameRecord(k) /\ ~At(t, "start")
    PROVE  ArmedInv'
<1>1. ASSUME NEW j \in Keys PROVE Armed(j)'
  <2>1. CASE j # k
    BY <2>1, OthersAnswer, SameArmed, ArmedByKey DEF SameRecord
  <2>2. CASE j = k
    BY <2>2, OthersAnswer, SameArmed, ArmedByKey
  <2> QED
    BY <2>1, <2>2
<1> QED
  BY <1>1, AwakeNext, ArmedByKey, ArmedNext

LEMMA StartArmed ==
    ASSUME ArmedInv, BudgetInv', ~PreflightMayFail, NEW t \in Tasks, Start(t)
    PROVE  ArmedInv'
<1>1. TypeOK /\ ~Idle(t) /\ task[t].key \in Keys
  BY DEF Start, StartRefused, StartAccepted, Spawn, SpawnFails, Track,
         PersistDesired, Idle, At, ArmedInv, BudgetInv, TypeOK, FramesOK
<1>2. PICK k \in Keys : k = task[t].key
  BY <1>1
<1>3. inst[k] \in Instance
  BY <1>1 DEF TypeOK
<1>4. CASE StartRefused(t)
  <2>1. /\ Alone(t) /\ task'[t].pc = "idle" /\ UNCHANGED inst
        /\ inst[k].state \in {"STARTING", "READY"}
    BY <1>1, <1>2, <1>4 DEF StartRefused, AlreadyRunning, Return, NoFrame, Alone,
                            TypeOK, FramesOK
  <2> QED
    BY <1>2, <2>1, TaskArmed, RecoveredArmed DEF Posting
<1>5. CASE StartAccepted(t)
  <2>1. /\ Alone(t) /\ task'[t].pc = "spawn" /\ inst'[k].state = "STARTING"
        /\ \A j \in Keys : j # k => inst'[j] = inst[j]
    BY <1>1, <1>2, <1>3, <1>5 DEF StartAccepted, Started, Goto, Alone, Instance,
                                  TypeOK, FramesOK, Frame
  <2> QED
    BY <1>2, <2>1, TaskArmed, RecoveredArmed DEF Posting
<1>6. CASE SpawnFails(t)
  <2>1. /\ Alone(t) /\ task'[t].pc = "idle"
        /\ inst'[k].state = "FAILED" /\ ~inst'[k].managed
        /\ \A j \in Keys : j # k => inst'[j] = inst[j]
    BY <1>1, <1>2, <1>3, <1>6 DEF SpawnFails, Return, NoFrame, Alone, Instance,
                                  TypeOK, FramesOK
  <2> QED
    BY <1>2, <2>1, TaskArmed, RecoveredArmed DEF Posting
<1>7. CASE Spawn(t) \/ Track(t) \/ PersistDesired(t, "persistRunning", "RUNNING")
  <2>1. ~At(t, "start") /\ Alone(t) /\ task'[t].pc \in {"track", "persistRunning", "idle"}
    BY <1>1, <1>7 DEF Spawn, Track, PersistDesired, At, Goto, Return, NoFrame, Alone,
                      TypeOK, FramesOK, Frame
  <2>2. SameRecord(k) /\ \A j \in Keys : j # k => inst'[j] = inst[j]
    BY <1>1, <1>2, <1>3, <1>7 DEF Spawn, Track, PersistDesired, SameRecord, Instance,
                                  TypeOK
  <2> QED
    BY <1>2, <2>1, <2>2, TaskArmed DEF Posting
<1> QED
  BY <1>4, <1>5, <1>6, <1>7 DEF Start

LEMMA StopArmed ==
    ASSUME ArmedInv, BudgetInv', NEW t \in Tasks, Stop(t)
    PROVE  ArmedInv'
<1>1. TypeOK /\ ~Idle(t) /\ task[t].key \in Keys
  BY DEF Stop, StopBegins, StopUnowned, Terminate, StopReaped,
         PersistDesired, Idle, At, ArmedInv, BudgetInv, TypeOK, FramesOK
<1>2. PICK k \in Keys : k = task[t].key
  BY <1>1
<1>3. inst[k] \in Instance
  BY <1>1 DEF TypeOK
<1>4. CASE Terminate(t) \/ PersistDesired(t, "persistStopped", "STOPPED")
  <2>1. /\ ~At(t, "start") /\ Alone(t) /\ UNCHANGED inst
        /\ task'[t].pc \in {"reap", "idle"}
    BY <1>1, <1>4 DEF Terminate, PersistDesired, At, Goto, Return, NoFrame, Alone,
                      TypeOK, FramesOK, Frame
  <2> QED
    BY <1>2, <2>1, TaskArmed DEF Posting, SameRecord
<1>5. CASE StopBegins(t) \/ StopUnowned(t) \/ StopReaped(t)
  <2>1. Alone(t) /\ task'[t].pc \in {"drain", "idle", "persistStopped"}
    BY <1>1, <1>5 DEF StopBegins, StopUnowned, StopReaped, Goto, Return, NoFrame, Alone,
                      TypeOK, FramesOK, Frame
  <2>2. \A j \in Keys : j # k => inst'[j] = inst[j]
    BY <1>1, <1>2, <1>5 DEF StopBegins, StopUnowned, StopReaped, TypeOK
  <2>3. inst'[k].state \in {"STOPPING", "READY", "STOPPED"}
    <3>1. CASE StopBegins(t)
      BY <1>1, <1>2, <1>3, <3>1 DEF StopBegins, TypeOK, Instance
    <3>2. CASE StopReaped(t)
      BY <1>1, <1>2, <1>3, <3>2 DEF StopReaped, TypeOK, Instance
    <3>3. CASE StopUnowned(t)
      BY <1>1, <1>2, <1>3, <3>3 DEF StopUnowned, TypeOK, Instance
    <3> QED
      BY <1>5, <3>1, <3>2, <3>3
  <2> QED
    BY <1>2, <2>1, <2>2, <2>3, TaskArmed, RecoveredArmed DEF Posting
<1> QED
  BY <1>4, <1>5 DEF Stop

LEMMA SleepWakeArmed ==
    ASSUME SleepKeys = {}, ArmedInv, BudgetInv', NEW t \in Tasks, Sleep(t) \/ Wake(t)
    PROVE  ArmedInv'
<1>1. TypeOK /\ Awake /\ task[t].key \in Keys
  BY ArmedByKey DEF Sleep, Wake, SleepRefused, SleepBegins, WakeRefused, WakeBegins,
         PostAnswered, PostFailed, Mark, PersistDesired, Idle, At,
         ArmedInv, BudgetInv, TypeOK, FramesOK
<1>2. inst[task[t].key].state # "SLEEPING"
  BY <1>1 DEF ArmedInv
<1>3. SleepRefused(t) \/ WakeRefused(t) \/ PersistDesired(t, "persistAsleep", "ASLEEP")
  BY <1>1, <1>2 DEF Sleep, Wake, SleepBegins, WakeBegins, PostAnswered, PostFailed, Mark,
                    Awake, At, Posting
<1>4. ~At(t, "start") /\ Alone(t) /\ UNCHANGED inst /\ task'[t].pc = "idle"
  BY <1>1, <1>3 DEF SleepRefused, WakeRefused, PersistDesired, At, Return, NoFrame, Alone,
                    TypeOK, FramesOK
<1>5. PICK k \in Keys : k = task[t].key
  BY <1>1
<1> QED
  BY <1>4, <1>5, TaskArmed DEF Posting, SameRecord

LEMMA CallArmed ==
    ASSUME ArmedInv, BudgetInv',
           \/ \E t \in Calls, op \in Ops, k \in Keys : Request(t, op, k)
           \/ \E t \in Cancellable : Cancel(t)
    PROVE  ArmedInv'
<1>1. TypeOK
  BY DEF ArmedInv, BudgetInv
<1>2. PICK t \in Calls : \/ \E op \in Ops, k \in Keys : Request(t, op, k)
                         \/ Cancel(t)
  BY TasksAssumption
<1>3. /\ t \in Tasks /\ t # Reconciler /\ Alone(t) /\ UNCHANGED <<inst, loop>>
      /\ task'[t].pc \in {"start", "stop", "sleep", "wake", "idle"}
  BY <1>1, <1>2, TasksAssumption, SettingsAssumption
     DEF Request, Cancel, Enter, Return, NoFrame, Alone, Tasks, TypeOK, FramesOK
<1>4. ASSUME NEW k \in Keys PROVE Armed(k)'
  <2>1. Answered(k) => Answered(k)'
    BY <1>3 DEF Answered, Alone, At, Tasks
  <2> QED
    BY <1>3, <2>1, SameArmed, ArmedByKey DEF SameRecord
<1> QED
  BY <1>3, <1>4, AwakeNext, ArmedByKey, ArmedNext DEF Posting

LEMMA ReconciledArmed ==
    ASSUME NEW i \in Instance, NEW probe, i.state # "SLEEPING"
    PROVE  LET j == Reconciled(i, probe) IN
           /\ j.state # "SLEEPING"
           /\ j # i /\ j.state = "FAILED" /\ j.desired = "RUNNING" /\ j.managed
                /\ j.restartCount < MaxRestarts => j.nextRestart # "none"
<1> DEFINE f == [i EXCEPT !.state = "FAILED", !.proc = None]
<1>1. /\ f \in Instance
      /\ f.state = "FAILED" /\ f.desired = i.desired /\ f.managed = i.managed
      /\ f.restartCount = i.restartCount
  BY DEF Instance, ModelState
<1>2. LET j == MaybeScheduleRestart(f) IN
      /\ j.state = "FAILED"
      /\ j.desired = "RUNNING" /\ j.managed /\ j.restartCount < MaxRestarts
           => j.nextRestart = "pending"
  <2> HIDE DEF f
  <2> QED
    BY <1>1 DEF MaybeScheduleRestart, Instance
<1>3. AfterTimeout(i) = MaybeScheduleRestart(f)
  BY DEF AfterTimeout
<1>4. AfterExit(i) = MaybeScheduleRestart(f) \/ AfterExit(i).state = "STOPPED"
  BY DEF AfterExit, Instance
<1>5. AfterReady(i).state = "READY"
  BY DEF AfterReady, Instance
<1>6. Reconciled(i, probe) \in {AfterExit(i), AfterReady(i), AfterTimeout(i), i}
  BY DEF Reconciled
<1> HIDE DEF f
<1> QED
  BY <1>2, <1>3, <1>4, <1>5, <1>6

LEMMA PassArmed ==
    ASSUME ArmedInv, BudgetInv', ReconcilePass
    PROVE  ArmedInv'
<1>1. TypeOK /\ Awake
  BY ArmedByKey DEF ArmedInv, BudgetInv
<1>2. PICK probe \in [Keys -> {"silent", "ready", "timeout"}] :
             inst' = [k \in Keys |-> Reconciled(inst[k], probe[k])]
  BY DEF ReconcilePass
<1>3. UNCHANGED task /\ loop'.due = loop.due
  BY <1>1 DEF ReconcilePass, TypeOK, LoopFrame
<1>4. ASSUME NEW k \in Keys PROVE Armed(k)'
  <2>1. inst[k] \in Instance /\ inst'[k] = Reconciled(inst[k], probe[k]) /\ Armed(k)
    BY <1>1, <1>2, ArmedByKey DEF TypeOK
  <2>2. Answered(k) => Answered(k)'
    BY <1>3 DEF Answered, At
  <2>3. CASE inst'[k] = inst[k]
    BY <2>1, <2>2, <2>3, SameArmed DEF SameRecord
  <2>4. CASE inst'[k] # inst[k]
    BY <2>1, <2>4, ReconciledArmed DEF Armed, Crashed
  <2> QED
    BY <2>3, <2>4
<1> QED
  BY <1>1, <1>3, <1>4, ArmedNext DEF Awake

LEMMA CollectArmed ==
    ASSUME ArmedInv, BudgetInv', CollectDue
    PROVE  ArmedInv'
<1>1. TypeOK /\ Awake /\ loop.due = {} /\ UNCHANGED task
  BY ArmedByKey DEF CollectDue, ArmedInv, BudgetInv
<1>2. loop'.due = {k \in Keys : RestartDue(inst[k])}
  BY <1>1 DEF CollectDue, TypeOK, LoopFrame
<1>3. ASSUME NEW k \in Keys PROVE Armed(k)'
  <2>1. inst[k] \in Instance /\ Armed(k)
    BY <1>1, ArmedByKey DEF TypeOK
  <2>2. CASE RestartDue(inst[k])
    <3>1. inst'[k] = [inst[k] EXCEPT !.nextRestart = "none", !.restartCount = @ + 1]
      BY <2>2 DEF CollectDue
    <3>2. inst'[k].state = inst[k].state
      BY <2>1, <3>1 DEF Instance
    <3>3. Answered(k)'
      BY <1>2, <2>2 DEF Answered
    <3> QED
      BY <2>1, <3>2, <3>3 DEF Armed
  <2>3. CASE ~RestartDue(inst[k])
    <3>1. inst'[k] = inst[k]
      BY <2>3 DEF CollectDue
    <3>2. Answered(k) => Answered(k)'
      BY <1>1 DEF Answered, At
    <3> QED
      BY <2>1, <3>1, <3>2, SameArmed DEF SameRecord
  <2> QED
    BY <2>2, <2>3
<1> QED
  BY <1>1, <1>3, ArmedNext DEF Awake

LEMMA LoopArmed ==
    ASSUME ArmedInv, BudgetInv',
           RestartNext \/ ReadDesired \/ SnapshotStates \/ ConvergeNext \/ ConvergeDone
    PROVE  ArmedInv'
<1>1. TypeOK /\ Awake /\ UNCHANGED inst /\ Reconciler \in Tasks
  BY ArmedByKey DEF RestartNext, ReadDesired, SnapshotStates, ConvergeNext, ConvergeDone,
                    ArmedInv, BudgetInv, Tasks
<1>2. ASSUME Awake', \A k \in Keys : Answered(k) => Answered(k)' PROVE ArmedInv'
  BY <1>1, <1>2, SameArmed, ArmedByKey, ArmedNext DEF SameRecord
<1>3. CASE RestartNext
  <2>1. PICK j \in loop.due : /\ Enter(Reconciler, "start", j, FALSE)
                              /\ loop' = [loop EXCEPT !.due = @ \ {j}]
    BY <1>3 DEF RestartNext
  <2>2. /\ task'[Reconciler].pc = "start" /\ task'[Reconciler].key = j
        /\ \A u \in Tasks \ {Reconciler} : task'[u] = task[u]
        /\ loop'.due = loop.due \ {j} /\ ~At(Reconciler, "start")
    BY <1>1, <1>3, <2>1 DEF RestartNext, Enter, Idle, At, TypeOK, FramesOK, LoopFrame
  <2>3. \A k \in Keys : Answered(k) => Answered(k)'
    BY <2>2 DEF Answered, At
  <2>4. Awake'
    BY <1>1, <2>2 DEF Awake, Posting
  <2> QED
    BY <1>2, <2>3, <2>4
<1>4. CASE ConvergeNext
  <2>1. PICK j \in Keys : /\ loop.plan[j] # "none"
                          /\ Enter(Reconciler, loop.plan[j], j, TRUE)
                          /\ loop' = [loop EXCEPT !.plan[j] = "none"]
    BY <1>4 DEF ConvergeNext
  <2>2. /\ task'[Reconciler].pc \in {"start", "stop", "sleep", "wake"}
        /\ \A u \in Tasks \ {Reconciler} : task'[u] = task[u]
        /\ loop'.due = loop.due /\ ~At(Reconciler, "start")
    BY <1>1, <1>4, <2>1 DEF ConvergeNext, Enter, Idle, At, TypeOK, FramesOK, LoopFrame
  <2>3. \A k \in Keys : Answered(k) => Answered(k)'
    BY <2>2 DEF Answered
  <2>4. Awake'
    BY <1>1, <2>2 DEF Awake, Posting
  <2> QED
    BY <1>2, <2>3, <2>4
<1>5. CASE ReadDesired \/ SnapshotStates \/ ConvergeDone
  <2>1. UNCHANGED task /\ loop.due = {}
    BY <1>5 DEF ReadDesired, SnapshotStates, ConvergeDone, ArmedInv, BudgetInv
  <2> QED
    BY <1>1, <1>2, <2>1 DEF Answered, At, Awake
<1> QED
  BY <1>3, <1>4, <1>5

LEMMA BootArmed ==
    ASSUME ArmedInv, BudgetInv', Reboot \/ ReplayStep
    PROVE  ArmedInv'
<1>1. TypeOK /\ Awake
  BY ArmedByKey DEF ArmedInv, BudgetInv
<1>2. CASE Reboot
  <2>1. \A t \in Tasks : task'[t].pc = "idle"
    BY <1>2 DEF Reboot, NoFrame
  <2>2. \A k \in Keys : inst'[k].state \in {"READY", "STOPPED"}
    BY <1>2 DEF Reboot, Adopted, NewInstance
  <2> QED
    BY <2>1, <2>2, RecoveredArmed, ArmedNext DEF Awake, Posting
<1>3. CASE ReplayStep
  <2>1. /\ UNCHANGED <<inst, loop>> /\ Replayer \in Tasks /\ Reconciler \in Tasks
        /\ Replayer # Reconciler
    BY <1>3, TasksAssumption DEF ReplayStep, ReplayRead, ReplayNext, Tasks
  <2>2. \/ UNCHANGED task
        \/ /\ task'[Replayer].pc = "start"
           /\ \A u \in Tasks \ {Replayer} : task'[u] = task[u]
    BY <1>1, <1>3, <2>1 DEF ReplayStep, ReplayRead, ReplayNext, Enter, TypeOK, FramesOK
  <2>3. \A k \in Keys : Answered(k) => Answered(k)'
    BY <2>1, <2>2 DEF Answered, At
  <2>4. Awake'
    BY <1>1, <2>2 DEF Awake, Posting
  <2> QED
    BY <2>1, <2>3, <2>4, SameArmed, ArmedByKey, ArmedNext DEF SameRecord
<1> QED
  BY <1>2, <1>3

LEMMA ProcessArmed ==
    ASSUME ArmedInv, BudgetInv',
           \/ \E k \in Keys : BackoffElapses(k)
           \/ \E p \in Pids : ProcDies(p)
           \/ UNCHANGED vars
    PROVE  ArmedInv'
<1>1. TypeOK /\ Awake /\ UNCHANGED <<task, loop>>
  BY ArmedByKey DEF BackoffElapses, ProcDies, vars, ArmedInv, BudgetInv
<1>2. ASSUME NEW k \in Keys PROVE Armed(k)'
  <2>1. \/ inst'[k] = inst[k]
        \/ /\ inst'[k].nextRestart = "elapsed"
           /\ inst'[k].state = inst[k].state
    BY <1>1 DEF BackoffElapses, ProcDies, vars, TypeOK, Instance
  <2>2. Answered(k) => Answered(k)'
    BY <1>1 DEF Answered, At
  <2> QED
    BY <2>1, <2>2, ArmedByKey DEF Armed, Crashed
<1> QED
  BY <1>1, <1>2, ArmedNext DEF Awake

LEMMA InitArmed == Init => ArmedInv
<1> SUFFICES ASSUME Init PROVE ArmedInv
  OBVIOUS
<1>1. (\A k \in Keys : Armed(k)) /\ Awake
  BY DEF Init, NewInstance, NoFrame, Armed, Crashed, Awake, Posting
<1> QED
  BY <1>1, InitBudget, ArmedByKey

LEMMA NextArmed ==
    SleepKeys = {} /\ ~PreflightMayFail /\ ArmedInv /\ [Next]_vars => ArmedInv'
<1> SUFFICES ASSUME SleepKeys = {}, ~PreflightMayFail, ArmedInv, [Next]_vars
             PROVE  ArmedInv'
  OBVIOUS
<1>1. BudgetInv'
  BY NextBudget DEF ArmedInv
<1>2. ASSUME NEW t \in Tasks, TaskStep(t) PROVE ArmedInv'
  BY <1>1, <1>2, StartArmed, StopArmed, SleepWakeArmed DEF TaskStep
<1>3. CASE ReconcileStep
  BY <1>1, <1>3, PassArmed, CollectArmed, LoopArmed DEF ReconcileStep
<1> QED
  BY <1>1, <1>2, <1>3, CallArmed, BootArmed, ProcessArmed DEF Next

\* Crashed instances are not forgotten: where no pre-flight check refuses a start
\* and no instance has sleep mode, whatever calls, cancellations, lost writes and
\* reboots come in between, a crashed instance that is wanted, managed and within
\* its budget has a restart armed or a start of it under way.
THEOREM CrashesAreAnswered ==
    SleepKeys = {} /\ ~PreflightMayFail => (Spec => []RestartArmed)
<1> SUFFICES ASSUME SleepKeys = {}, ~PreflightMayFail PROVE Spec => []RestartArmed
  OBVIOUS
<1>1. ArmedInv => RestartArmed
  BY DEF ArmedInv, RestartArmed, At, Tasks
<1>2. ArmedInv /\ [Next]_vars => ArmedInv'
  BY NextArmed
<1> QED
  BY <1>1, <1>2, InitArmed, PTL DEF Spec
=============================================================================
