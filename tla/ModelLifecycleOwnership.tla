------------------------ MODULE ModelLifecycleOwnership ------------------------
(***************************************************************************)
(* STOPPING and the live states of ModelLifecycle are backed, proved for   *)
(* any number of instances, callers, processes, restarts and reboots, as   *)
(* long as no call is cancelled half way.  Where callers only start and    *)
(* the backend stays up, no process is orphaned or doubled either.         *)
(***************************************************************************)
EXTENDS ModelLifecycleProofs

Claims(i, k) ==
    \/ i.state \in {"STARTING", "STOPPING"}
    \/ i.state = "READY" /\ i.managed /\ k \notin SleepKeys

\* OwnerInv, key by key.
KeyOK(k) ==
    /\ inst[k].state = "STOPPING" => StopInFlight(k)
    /\ Claims(inst[k], k) => inst[k].proc # None \/ StartInFlight(k)
    /\ inst[k].state = "SLEEPING" => k \in SleepKeys
PostingOK == \A t \in Tasks : task[t].pc \in Posting => task[t].key \in SleepKeys

LEMMA OwnerByKey == OwnerInv <=> TypeOK /\ (\A k \in Keys : KeyOK(k)) /\ PostingOK
BY DEF OwnerInv, KeyOK, PostingOK, Posting, Claims, StoppingHasOwner, LiveBacked

-----------------------------------------------------------------------------
\* A step of one task, which writes at most the record of its own key.

OneTask(t) ==
    /\ \A u \in Tasks \ {t} : task'[u] = task[u]
    /\ \A j \in Keys : j # task[t].key => inst'[j] = inst[j]

LEMMA OtherKeys ==
    ASSUME OwnerInv, NEW t \in Tasks, OneTask(t),
           NEW j \in Keys, j # task[t].key
    PROVE  KeyOK(j)'
<1>1. StopInFlight(j) => StopInFlight(j)'
  BY DEF StopInFlight, OneTask
<1>2. StartInFlight(j) => StartInFlight(j)'
  BY DEF StartInFlight, OneTask
<1>3. inst'[j] = inst[j] /\ KeyOK(j)
  BY OwnerByKey DEF OneTask
<1> QED
  BY <1>1, <1>2, <1>3 DEF KeyOK, Claims

LEMMA OtherTasks ==
    ASSUME NEW t \in Tasks, OneTask(t), NEW k \in Keys
    PROVE  /\ task[t].pc \notin {"drain", "reap"} /\ StopInFlight(k) => StopInFlight(k)'
           /\ task[t].pc \notin {"spawn", "track"} /\ StartInFlight(k) => StartInFlight(k)'
BY DEF StopInFlight, StartInFlight, OneTask

LEMMA OwnerNext ==
    ASSUME TypeOK', \A k \in Keys : KeyOK(k)', PostingOK'
    PROVE  OwnerInv'
<1>1. OwnerInv' <=> TypeOK' /\ (\A k \in Keys : KeyOK(k))' /\ PostingOK'
  BY OwnerByKey, PTL
<1> QED
  BY <1>1

LEMMA OwnKey ==
    ASSUME OwnerInv, TypeOK', NEW t \in Tasks, OneTask(t),
           NEW k \in Keys, k = task[t].key, KeyOK(k)',
           task'[t].pc \in Posting => task'[t].key \in SleepKeys
    PROVE  OwnerInv'
<1>1. ASSUME NEW j \in Keys PROVE KeyOK(j)'
  <2>1. CASE j = k
    BY <2>1
  <2>2. CASE j # k
    BY <2>2, OtherKeys
  <2> QED
    BY <2>1, <2>2
<1>2. PostingOK'
  BY OwnerByKey DEF PostingOK, OneTask
<1> QED
  BY <1>1, <1>2, OwnerNext

\* A task gives up before it has changed anything.
LEMMA RefusedOwner ==
    ASSUME OwnerInv, TypeOK', NEW t \in Tasks, ~Idle(t), Return(t), UNCHANGED inst,
           task[t].pc \notin {"drain", "reap", "spawn", "track"}
    PROVE  OwnerInv'
<1>1. OneTask(t) /\ task'[t].pc = "idle"
  BY DEF OneTask, Return, NoFrame, OwnerInv, TypeOK, FramesOK
<1>2. PICK k \in Keys : k = task[t].key
  BY DEF OwnerInv, TypeOK, FramesOK
<1>3. KeyOK(k)'
  BY <1>1, OtherTasks, OwnerByKey DEF KeyOK, Claims
<1> QED
  BY <1>1, <1>2, <1>3, OwnKey DEF Posting

LEMMA StartOwner ==
    ASSUME OwnerInv, TypeOK', NEW t \in Tasks, Start(t)
    PROVE  OwnerInv'
<1>0. ~Idle(t) /\ task[t].key \in Keys
  BY DEF Start, StartRefused, StartAccepted, Spawn, SpawnFails, Track,
         PersistDesired, Idle, At, OwnerInv, TypeOK, FramesOK
<1>1. PICK k \in Keys : k = task[t].key
  BY <1>0
<1>2. inst[k] \in Instance /\ KeyOK(k)
  BY OwnerByKey DEF OwnerInv, TypeOK
<1>3. CASE StartRefused(t) \/ PersistDesired(t, "persistRunning", "RUNNING")
  BY <1>0, <1>3, RefusedOwner DEF StartRefused, PersistDesired, At
<1>4. CASE StartAccepted(t)
  <2>1. /\ OneTask(t) /\ task'[t].pc = "spawn" /\ task'[t].key = k
        /\ inst'[k].state = "STARTING"
    BY <1>1, <1>2, <1>4 DEF StartAccepted, Started, Goto, OneTask, Instance,
                            OwnerInv, TypeOK, FramesOK, Frame
  <2>2. StartInFlight(k)'
    BY <2>1 DEF StartInFlight
  <2> QED
    BY <1>1, <2>1, <2>2, OwnKey DEF KeyOK, Posting
<1>5. CASE Spawn(t)
  <2>1. /\ OneTask(t) /\ task'[t].pc = "track" /\ task'[t].key = k
        /\ UNCHANGED inst /\ At(t, "spawn")
    BY <1>1, <1>5 DEF Spawn, Goto, OneTask, OwnerInv, TypeOK, FramesOK, Frame
  <2>2. StartInFlight(k)' /\ (StopInFlight(k) => StopInFlight(k)')
    BY <2>1, OtherTasks DEF StartInFlight, At
  <2> QED
    BY <1>1, <1>2, <2>1, <2>2, OwnKey DEF KeyOK, Posting
<1>6. CASE SpawnFails(t)
  <2>1. OneTask(t) /\ task'[t].pc = "idle" /\ inst'[k].state = "FAILED"
    BY <1>1, <1>2, <1>6 DEF SpawnFails, Return, NoFrame, OneTask, Instance,
                            OwnerInv, TypeOK, FramesOK, Frame
  <2> QED
    BY <1>1, <2>1, OwnKey DEF KeyOK, Claims, Posting
<1>7. CASE Track(t)
  <2>1. /\ OneTask(t) /\ task'[t].pc = "persistRunning" /\ At(t, "track")
        /\ inst'[k].state = inst[k].state /\ inst'[k].proc = task[t].pid
    BY <1>1, <1>2, <1>7 DEF Track, Goto, OneTask, Instance,
                            OwnerInv, TypeOK, FramesOK, Frame
  <2>2. task[t].pid # None
    BY <2>1, NoneAssumption DEF OwnerInv, TypeOK, FramesOK
  <2>3. StopInFlight(k) => StopInFlight(k)'
    BY <2>1, OtherTasks DEF At
  <2> QED
    BY <1>1, <1>2, <2>1, <2>2, <2>3, OwnKey DEF KeyOK, Posting
<1> QED
  BY <1>3, <1>4, <1>5, <1>6, <1>7 DEF Start

LEMMA StopOwner ==
    ASSUME OwnerInv, TypeOK', NEW t \in Tasks, Stop(t)
    PROVE  OwnerInv'
<1>0. ~Idle(t) /\ task[t].key \in Keys
  BY DEF Stop, StopBegins, StopUnowned, Terminate, StopReaped,
         PersistDesired, Idle, At, OwnerInv, TypeOK, FramesOK
<1>1. PICK k \in Keys : k = task[t].key
  BY <1>0
<1>2. inst[k] \in Instance /\ KeyOK(k)
  BY OwnerByKey DEF OwnerInv, TypeOK
<1>3. CASE PersistDesired(t, "persistStopped", "STOPPED")
  BY <1>0, <1>3, RefusedOwner DEF PersistDesired, At
<1>4. CASE StopBegins(t)
  <2>1. /\ OneTask(t) /\ task'[t].pc = "drain" /\ task'[t].key = k
        /\ inst'[k].state = "STOPPING" /\ inst'[k].proc # None
    BY <1>1, <1>2, <1>4 DEF StopBegins, Owned, Goto, OneTask, Instance,
                            OwnerInv, TypeOK, FramesOK, Frame
  <2>2. StopInFlight(k)'
    BY <2>1 DEF StopInFlight
  <2> QED
    BY <1>1, <2>1, <2>2, OwnKey DEF KeyOK, Posting
<1>5. CASE StopUnowned(t)
  <2>1. OneTask(t) /\ task'[t].pc = "idle"
    BY <1>1, <1>5 DEF StopUnowned, Return, NoFrame, OneTask, OwnerInv, TypeOK, FramesOK
  <2>2. \/ inst'[k].state = "READY" /\ ~inst'[k].managed
        \/ inst'[k].state = "STOPPED"
    BY <1>1, <1>2, <1>5 DEF StopUnowned, Instance, OwnerInv, TypeOK
  <2> QED
    BY <1>1, <2>1, <2>2, OwnKey DEF KeyOK, Claims, Posting
<1>6. CASE Terminate(t)
  <2>1. /\ OneTask(t) /\ task'[t].pc = "reap" /\ task'[t].key = k
        /\ UNCHANGED inst /\ At(t, "drain")
    BY <1>1, <1>6 DEF Terminate, Goto, OneTask, OwnerInv, TypeOK, FramesOK, Frame
  <2>2. StopInFlight(k)' /\ (StartInFlight(k) => StartInFlight(k)')
    BY <2>1, OtherTasks DEF StopInFlight, At
  <2> QED
    BY <1>1, <1>2, <2>1, <2>2, OwnKey DEF KeyOK, Claims, Posting
<1>7. CASE StopReaped(t)
  <2>1. OneTask(t) /\ task'[t].pc = "persistStopped" /\ inst'[k].state = "STOPPED"
    BY <1>1, <1>2, <1>7 DEF StopReaped, Goto, OneTask, Instance,
                            OwnerInv, TypeOK, FramesOK, Frame
  <2> QED
    BY <1>1, <2>1, OwnKey DEF KeyOK, Claims, Posting
<1> QED
  BY <1>3, <1>4, <1>5, <1>6, <1>7 DEF Stop

\* A step of a sleep or a wake that keeps the state and the handle.
LEMMA IntentOwner ==
    ASSUME OwnerInv, TypeOK', NEW t \in Tasks, OneTask(t),
           NEW k \in Keys, k = task[t].key,
           task[t].pc \notin {"drain", "reap", "spawn", "track"},
           inst'[k].state = inst[k].state, inst'[k].proc = inst[k].proc,
           inst'[k].managed = inst[k].managed,
           task'[t].pc \in Posting => task'[t].key \in SleepKeys
    PROVE  OwnerInv'
<1>1. KeyOK(k)'
  BY OtherTasks, OwnerByKey DEF KeyOK, Claims
<1> QED
  BY <1>1, OwnKey

LEMMA PostOwner ==
    ASSUME OwnerInv, TypeOK', NEW t \in Tasks, NEW pc \in {"postSleep", "postWake"},
           \/ \E next \in {"markAsleep", "markAwake"} : PostAnswered(t, pc, next)
           \/ \E want \in Desired : PostFailed(t, pc, want)
    PROVE  OwnerInv'
<1>1. At(t, pc) /\ task[t].key \in Keys
  BY DEF PostAnswered, PostFailed, Idle, At, OwnerInv, TypeOK, FramesOK
<1>2. PICK k \in Keys : k = task[t].key
  BY <1>1
<1>3. k \in SleepKeys /\ inst[k] \in Instance
  BY <1>1, <1>2, OwnerByKey DEF PostingOK, Posting, At, OwnerInv, TypeOK
<1>4. CASE \E next \in {"markAsleep", "markAwake"} : PostAnswered(t, pc, next)
  <2>1. OneTask(t) /\ UNCHANGED inst /\ task'[t].key = k
    BY <1>2, <1>4 DEF PostAnswered, Goto, OneTask, OwnerInv, TypeOK, FramesOK, Frame
  <2> QED
    BY <1>1, <1>2, <1>3, <2>1, IntentOwner DEF At
<1>5. CASE \E want \in Desired : PostFailed(t, pc, want)
  <2>1. PICK want \in Desired : PostFailed(t, pc, want)
    BY <1>5
  <2>2. /\ OneTask(t) /\ task'[t].pc = "idle"
        /\ inst'[k].state = inst[k].state /\ inst'[k].proc = inst[k].proc
        /\ inst'[k].managed = inst[k].managed
    BY <1>2, <1>3, <2>1 DEF PostFailed, Return, NoFrame, OneTask, Instance,
                            OwnerInv, TypeOK, FramesOK
  <2> QED
    BY <1>1, <1>2, <2>2, IntentOwner DEF At, Posting
<1> QED
  BY <1>4, <1>5

LEMMA MarkOwner ==
    ASSUME OwnerInv, TypeOK', NEW t \in Tasks, NEW pc \in {"markAsleep", "markAwake"},
           NEW s \in {"SLEEPING", "READY"},
           NEW next \in {"persistAsleep", "persistRunning"}, Mark(t, pc, s, next)
    PROVE  OwnerInv'
<1>1. PICK k \in Keys : k = task[t].key
  BY DEF Mark, Idle, At, OwnerInv, TypeOK, FramesOK
<1>2. k \in SleepKeys
  BY <1>1, OwnerByKey DEF PostingOK, Posting, Mark, At
<1>3. OneTask(t) /\ task'[t].pc = next /\ inst'[k].state = s
  BY <1>1 DEF Mark, Goto, OneTask, Instance, OwnerInv, TypeOK, FramesOK, Frame
<1> QED
  BY <1>1, <1>2, <1>3, OwnKey DEF KeyOK, Claims, Posting

LEMMA SleepWakeOwner ==
    ASSUME OwnerInv, TypeOK', NEW t \in Tasks, Sleep(t) \/ Wake(t)
    PROVE  OwnerInv'
<1>1. CASE SleepRefused(t) \/ WakeRefused(t) \/ PersistDesired(t, "persistAsleep", "ASLEEP")
  BY <1>1, RefusedOwner DEF SleepRefused, WakeRefused, PersistDesired, Idle, At
<1>2. CASE SleepBegins(t) \/ WakeBegins(t)
  <2>1. PICK k \in Keys : k = task[t].key
    BY <1>2 DEF SleepBegins, WakeBegins, Idle, At, OwnerInv, TypeOK, FramesOK
  <2>2. /\ inst[k] \in Instance /\ k \in SleepKeys
        /\ task[t].pc \in {"sleep", "wake"}
    BY <1>2, <2>1 DEF SleepBegins, WakeBegins, At, OwnerInv, TypeOK
  <2>3. PICK want \in Desired, pc \in {"postSleep", "postWake"} :
             /\ inst' = [inst EXCEPT ![k].desired = want]
             /\ Goto(t, pc, None)
    BY <1>2, <2>1 DEF SleepBegins, WakeBegins, Desired
  <2>4. /\ OneTask(t) /\ task'[t].key = k
        /\ inst'[k].state = inst[k].state /\ inst'[k].proc = inst[k].proc
        /\ inst'[k].managed = inst[k].managed
    BY <2>1, <2>2, <2>3 DEF Goto, OneTask, Instance, OwnerInv, TypeOK, FramesOK, Frame
  <2> QED
    BY <2>1, <2>2, <2>4, IntentOwner
<1>3. CASE \/ PostAnswered(t, "postSleep", "markAsleep")
           \/ PostFailed(t, "postSleep", "RUNNING")
           \/ PostAnswered(t, "postWake", "markAwake")
           \/ PostFailed(t, "postWake", "ASLEEP")
  BY <1>3, PostOwner DEF Desired
<1>4. CASE \/ Mark(t, "markAsleep", "SLEEPING", "persistAsleep")
           \/ Mark(t, "markAwake", "READY", "persistRunning")
  BY <1>4, MarkOwner
<1> QED
  BY <1>1, <1>2, <1>3, <1>4 DEF Sleep, Wake

-----------------------------------------------------------------------------
\* The other steps: a call is made, a pass changes records, the backend boots.

LEMMA EnterOwner ==
    ASSUME OwnerInv, TypeOK', NEW t \in Tasks, Idle(t), UNCHANGED inst,
           NEW op \in {"start", "stop", "sleep", "wake"}, NEW k, NEW reset,
           Enter(t, op, k, reset)
    PROVE  OwnerInv'
<1>1. /\ OneTask(t) /\ task'[t].pc = op /\ task[t].pc = "idle"
  BY DEF Enter, OneTask, Idle, OwnerInv, TypeOK, FramesOK
<1>2. \A j \in Keys : KeyOK(j)'
  BY <1>1, OtherTasks, OwnerByKey DEF KeyOK, Claims
<1>3. PostingOK'
  BY <1>1, OwnerByKey DEF PostingOK, Posting, OneTask
<1> QED
  BY <1>2, <1>3, OwnerNext

LEMMA SameFrames ==
    ASSUME OwnerInv, TypeOK', UNCHANGED task, \A k \in Keys : KeyOK(k)'
    PROVE  OwnerInv'
<1>1. PostingOK'
  BY OwnerByKey DEF PostingOK
<1> QED
  BY <1>1, OwnerNext

LEMMA PassOwner ==
    ASSUME OwnerInv, TypeOK', ReconcilePass
    PROVE  OwnerInv'
<1>1. PICK probe \in [Keys -> {"silent", "ready", "timeout"}] :
             inst' = [k \in Keys |-> Reconciled(inst[k], probe[k])]
  BY DEF ReconcilePass
<1>2. UNCHANGED task
  BY DEF ReconcilePass
<1>3. ASSUME NEW k \in Keys PROVE KeyOK(k)'
  <2> DEFINE i == inst[k]
  <2>1. i \in Instance /\ inst'[k] = Reconciled(i, probe[k])
    BY <1>1 DEF OwnerInv, TypeOK
  <2>2. AfterExit(i).state \in {"STOPPED", "FAILED"} /\ AfterTimeout(i).state = "FAILED"
    BY <2>1 DEF AfterExit, AfterTimeout, MaybeScheduleRestart, Instance
  <2>3. AfterReady(i).state = "READY" /\ AfterReady(i).proc = i.proc
    BY <2>1 DEF AfterReady, Instance
  <2>4. \/ inst'[k].state \in {"STOPPED", "FAILED"}
        \/ inst'[k].state = "READY" /\ inst'[k].proc = i.proc /\ i.state = "STARTING"
        \/ inst'[k] = i
    BY <2>1, <2>2, <2>3 DEF Reconciled
  <2>5. /\ StopInFlight(k) => StopInFlight(k)'
        /\ StartInFlight(k) => StartInFlight(k)'
    BY <1>2 DEF StopInFlight, StartInFlight
  <2> QED
    BY <2>4, <2>5, OwnerByKey DEF KeyOK, Claims
<1> QED
  BY <1>2, <1>3, SameFrames

\* Nothing of a record that OwnerInv is about changes.
LEMMA CountsOwner ==
    ASSUME OwnerInv, TypeOK', UNCHANGED task,
           \A k \in Keys : /\ inst'[k].state = inst[k].state
                           /\ inst'[k].proc = inst[k].proc
                           /\ inst'[k].managed = inst[k].managed
    PROVE  OwnerInv'
<1>1. ASSUME NEW k \in Keys PROVE KeyOK(k)'
  <2>1. /\ StopInFlight(k) => StopInFlight(k)'
        /\ StartInFlight(k) => StartInFlight(k)'
    BY DEF StopInFlight, StartInFlight
  <2> QED
    BY <2>1, OwnerByKey DEF KeyOK, Claims
<1> QED
  BY <1>1, SameFrames

LEMMA ReconcileOwner ==
    ASSUME OwnerInv, TypeOK', ReconcileStep
    PROVE  OwnerInv'
<1> USE DEF Tasks
<1>1. CASE ReconcilePass
  BY <1>1, PassOwner
<1>2. CASE CollectDue
  <2>1. ASSUME NEW k \in Keys
        PROVE  /\ inst'[k].state = inst[k].state
               /\ inst'[k].proc = inst[k].proc
               /\ inst'[k].managed = inst[k].managed
    <3>1. inst'[k] = IF RestartDue(inst[k])
                     THEN [inst[k] EXCEPT !.nextRestart = "none", !.restartCount = @ + 1]
                     ELSE inst[k]
      BY <1>2 DEF CollectDue
    <3>2. inst[k] \in Instance
      BY DEF OwnerInv, TypeOK
    <3>3. CASE RestartDue(inst[k])
      BY <3>1, <3>2, <3>3 DEF Instance
    <3>4. CASE ~RestartDue(inst[k])
      BY <3>1, <3>4
    <3> QED
      BY <3>3, <3>4
  <2> QED
    BY <1>2, <2>1, CountsOwner DEF CollectDue
<1>3. CASE RestartNext
  BY <1>3, EnterOwner DEF RestartNext
<1>4. CASE ConvergeNext
  <2>1. PICK k \in Keys : loop.plan[k] # "none" /\ Enter(Reconciler, loop.plan[k], k, TRUE)
    BY <1>4 DEF ConvergeNext
  <2>2. loop.plan[k] \in {"start", "stop", "sleep", "wake"}
    BY <2>1 DEF OwnerInv, TypeOK, LoopFrame
  <2> QED
    BY <1>4, <2>1, <2>2, EnterOwner DEF ConvergeNext
<1>5. CASE ReadDesired \/ SnapshotStates \/ ConvergeDone
  BY <1>5, CountsOwner DEF ReadDesired, SnapshotStates, ConvergeDone
<1> QED
  BY <1>1, <1>2, <1>3, <1>4, <1>5 DEF ReconcileStep

LEMMA BootOwner ==
    ASSUME OwnerInv, TypeOK', Reboot \/ ReplayStep
    PROVE  OwnerInv'
<1>1. CASE Reboot
  <2>1. \A t \in Tasks : task'[t].pc = "idle"
    BY <1>1 DEF Reboot, NoFrame
  <2>2. \A k \in Keys : \/ inst'[k].state = "READY" /\ ~inst'[k].managed
                        \/ inst'[k].state = "STOPPED"
    BY <1>1 DEF Reboot, Adopted, NewInstance
  <2>3. \A k \in Keys : KeyOK(k)'
    BY <2>2 DEF KeyOK, Claims
  <2>4. PostingOK'
    BY <2>1 DEF PostingOK, Posting
  <2> QED
    BY <2>3, <2>4, OwnerNext
<1>2. CASE ReplayRead
  BY <1>2, CountsOwner DEF ReplayRead
<1>3. CASE ReplayNext
  <2>1. CASE UNCHANGED task
    BY <1>3, <2>1, CountsOwner DEF ReplayNext
  <2>2. CASE \E k \in boot.todo : Enter(Replayer, "start", k, TRUE)
    BY <1>3, <2>2, EnterOwner DEF ReplayNext, Tasks
  <2> QED
    BY <1>3, <2>1, <2>2 DEF ReplayNext
<1> QED
  BY <1>1, <1>2, <1>3 DEF ReplayStep

LEMMA ProcessOwner ==
    ASSUME OwnerInv, TypeOK',
           \/ \E k \in Keys : BackoffElapses(k)
           \/ \E p \in Pids : ProcDies(p)
           \/ UNCHANGED vars
    PROVE  OwnerInv'
<1>1. ASSUME NEW k \in Keys
      PROVE  /\ inst'[k].state = inst[k].state
             /\ inst'[k].proc = inst[k].proc
             /\ inst'[k].managed = inst[k].managed
  BY DEF BackoffElapses, ProcDies, vars, OwnerInv, TypeOK, Instance
<1>2. UNCHANGED task
  BY DEF BackoffElapses, ProcDies, vars
<1> QED
  BY <1>1, <1>2, CountsOwner

LEMMA InitOwner == Init => OwnerInv
<1> SUFFICES ASSUME Init PROVE OwnerInv
  OBVIOUS
<1>1. (\A k \in Keys : KeyOK(k)) /\ PostingOK
  BY DEF Init, NewInstance, NoFrame, KeyOK, Claims, PostingOK, Posting
<1> QED
  BY <1>1, InitType, OwnerByKey

LEMMA NextOwner == Cancellable = {} /\ OwnerInv /\ [Next]_vars => OwnerInv'
<1> SUFFICES ASSUME Cancellable = {}, OwnerInv, [Next]_vars PROVE OwnerInv'
  OBVIOUS
<1>1. TypeOK'
  BY NextType DEF OwnerInv
<1>2. ASSUME NEW t \in Calls, NEW op \in Ops, NEW k \in Keys, Request(t, op, k)
      PROVE  OwnerInv'
  BY <1>1, <1>2, EnterOwner, SettingsAssumption DEF Request, Tasks
<1>3. ASSUME NEW t \in Tasks, TaskStep(t) PROVE OwnerInv'
  BY <1>1, <1>3, StartOwner, StopOwner, SleepWakeOwner DEF TaskStep
<1> QED
  BY <1>1, <1>2, <1>3, ReconcileOwner, BootOwner, ProcessOwner DEF Next

LEMMA OwnerAlways == Cancellable = {} => (Spec => []OwnerInv)
<1> SUFFICES ASSUME Cancellable = {} PROVE Spec => []OwnerInv
  OBVIOUS
<1>1. OwnerInv /\ [Next]_vars => OwnerInv'
  BY NextOwner
<1> QED
  BY InitOwner, <1>1, PTL DEF Spec

\* When no call is cancelled, an instance shown STOPPING is on its way to
\* STOPPED: some stop of it will reap its process, whatever starts, passes,
\* crashes and reboots come in between.
THEOREM StoppingIsOwned == Cancellable = {} => (Spec => []StoppingHasOwner)
<1>1. OwnerInv => StoppingHasOwner
  BY DEF OwnerInv
<1> QED
  BY <1>1, OwnerAlways, PTL

\* When no call is cancelled, an instance that claims a process of this backend
\* holds its handle or has a start in flight that will record one.
THEOREM LiveIsBacked == Cancellable = {} => (Spec => []LiveBacked)
<1>1. OwnerInv => LiveBacked
  BY DEF OwnerInv
<1> QED
  BY <1>1, OwnerAlways, PTL

-----------------------------------------------------------------------------
\* Supervision where callers only start instances: SupervisedInv, key by key.

CallersOnlyStart == Ops \subseteq {"start"} /\ Cancellable = {} /\ MaxReboots = 0

\* The record keeps its state and handle, the same starts serve the key, and
\* every process that was not signalled was there before.
LEMMA KeepSupervised ==
    ASSUME NEW k \in Keys, Supervised(k),
           inst'[k].state = inst[k].state, inst'[k].proc = inst[k].proc,
           \A t \in Tasks : Serves(t, k)' <=> Serves(t, k),
           \A t \in Tasks : Serves(t, k) => task'[t].pid = task[t].pid,
           \A p \in Pids : p \notin term' /\ live'[p] = k => p \notin term /\ live[p] = k
    PROVE  Supervised(k)'
<1>1. \A p \in Pids \ term' : live'[p] = k =>
          \/ inst'[k].proc = p
          \/ \E t \in Tasks : Serves(t, k)' /\ task'[t].pid = p
  BY DEF Supervised
<1> QED
  BY <1>1 DEF Supervised

LEMMA StartedKey ==
    ASSUME SupervisedInv, NEW t \in Tasks, StartAccepted(t), OneTask(t),
           NEW k \in Keys, k = task[t].key
    PROVE  Supervised(k)'
<1>1. TypeOK /\ inst[k] \in Instance /\ Supervised(k)
  BY DEF SupervisedInv, TypeOK
<1>2. /\ UNCHANGED <<live, term>> /\ inst[k].state \notin {"STARTING", "READY"}
      /\ inst'[k].state = "STARTING" /\ inst'[k].proc = inst[k].proc
      /\ task'[t].pc = "spawn" /\ task'[t].key = k
  BY <1>1 DEF StartAccepted, AlreadyRunning, Started, Goto, Instance,
              TypeOK, FramesOK, Frame
<1>3. inst[k].proc = None /\ \A u \in Tasks : ~Serves(u, k)
  BY <1>1, <1>2 DEF Supervised
<1>4. \A u \in Tasks : Serves(u, k)' => u = t
  BY <1>3 DEF Serves, OneTask
<1>5. \A p \in Pids \ term : live[p] # k
  BY <1>1, <1>3, NoneAssumption DEF Supervised
<1> QED
  BY <1>2, <1>3, <1>4, <1>5 DEF Supervised

LEMMA SpawnedKey ==
    ASSUME SupervisedInv, NEW t \in Tasks, Spawn(t), OneTask(t),
           NEW k \in Keys, k = task[t].key
    PROVE  Supervised(k)'
<1>1. TypeOK /\ Supervised(k) /\ At(t, "spawn") /\ task[t].pid = None
  BY DEF SupervisedInv, OnlyStarts, Spawn, At
<1>2. PICK p \in Pids : live' = [live EXCEPT ![p] = k] /\ Goto(t, "track", p)
  BY DEF Spawn
<1>3. /\ UNCHANGED <<inst, term>> /\ task'[t].pid = p /\ Serves(t, k) /\ Serves(t, k)'
  BY <1>1, <1>2 DEF Spawn, Goto, Serves, At, TypeOK, FramesOK, Frame
<1>4. \A u \in Tasks : (Serves(u, k) => u = t) /\ (Serves(u, k)' => u = t)
  BY <1>1, <1>3 DEF Supervised, Serves, OneTask
<1>5. \A q \in Pids \ term : live[q] # k
  BY <1>1, <1>3, <1>4, NoneAssumption DEF Supervised
<1>6. \A q \in Pids \ term' : live'[q] = k => q = p
  BY <1>2, <1>3, <1>5 DEF TypeOK
<1> QED
  BY <1>1, <1>3, <1>4, <1>6 DEF Supervised

LEMMA NotSpawnedKey ==
    ASSUME SupervisedInv, NEW t \in Tasks, SpawnFails(t), OneTask(t),
           NEW k \in Keys, k = task[t].key
    PROVE  Supervised(k)'
<1>1. TypeOK /\ inst[k] \in Instance /\ Supervised(k) /\ Serves(t, k) /\ task[t].pid = None
  BY DEF SupervisedInv, OnlyStarts, SpawnFails, At, Serves, TypeOK
<1>2. /\ UNCHANGED <<live, term>> /\ task'[t].pc = "idle"
      /\ inst'[k].state = "FAILED" /\ inst'[k].proc = inst[k].proc
  BY <1>1 DEF SpawnFails, Return, NoFrame, Instance, TypeOK, FramesOK
<1>3. inst[k].proc = None /\ \A u \in Tasks : Serves(u, k) => u = t
  BY <1>1 DEF Supervised
<1>4. \A u \in Tasks : ~Serves(u, k)'
  BY <1>2, <1>3 DEF Serves, OneTask
<1>5. \A p \in Pids \ term : live[p] # k
  BY <1>1, <1>3, NoneAssumption DEF Supervised
<1> QED
  BY <1>2, <1>3, <1>4, <1>5 DEF Supervised

LEMMA TrackedKey ==
    ASSUME SupervisedInv, NEW t \in Tasks, Track(t), OneTask(t),
           NEW k \in Keys, k = task[t].key
    PROVE  Supervised(k)'
<1>1. TypeOK /\ inst[k] \in Instance /\ Supervised(k) /\ Serves(t, k)
  BY DEF SupervisedInv, Track, At, Serves, TypeOK
<1>2. /\ UNCHANGED <<live, term>> /\ task'[t].pc = "persistRunning"
      /\ inst'[k].state = inst[k].state /\ inst'[k].proc = task[t].pid
  BY <1>1 DEF Track, Goto, Instance, TypeOK, FramesOK, Frame
<1>3. /\ inst[k].proc = None /\ inst[k].state \in {"STARTING", "READY"}
      /\ \A u \in Tasks : Serves(u, k) => u = t
  BY <1>1 DEF Supervised
<1>4. \A u \in Tasks : ~Serves(u, k)'
  BY <1>2, <1>3 DEF Serves, OneTask
<1>5. \A p \in Pids \ term : live[p] = k => inst'[k].proc = p
  BY <1>1, <1>2, <1>3, NoneAssumption DEF Supervised
<1> QED
  BY <1>2, <1>3, <1>4, <1>5 DEF Supervised

\* A step of t leaves the other keys supervised.
LEMMA OtherSupervised ==
    ASSUME NEW t \in Tasks, OneTask(t), NEW k \in Keys, Supervised(k),
           k # task[t].key, task'[t].key \in {task[t].key, None}, k # None,
           \A p \in Pids : p \notin term' /\ live'[p] = k => p \notin term /\ live[p] = k
    PROVE  Supervised(k)'
<1>1. /\ \A u \in Tasks : Serves(u, k)' <=> Serves(u, k)
      /\ \A u \in Tasks : Serves(u, k) => task'[u].pid = task[u].pid
      /\ inst'[k] = inst[k]
  BY DEF Serves, OneTask
<1> QED
  BY <1>1, KeepSupervised

LEMMA StartSupervised ==
    ASSUME SupervisedInv, NEW t \in Tasks, Start(t)
    PROVE  OnlyStarts' /\ \A k \in Keys : Supervised(k)'
<1>1. TypeOK /\ OnlyStarts /\ ~Idle(t) /\ task[t].key \in Keys
  BY DEF Start, StartRefused, StartAccepted, Spawn, SpawnFails, Track,
         PersistDesired, Idle, At, SupervisedInv, TypeOK, FramesOK
<1>2. /\ OneTask(t) /\ UNCHANGED <<term, loop, boot>>
      /\ task'[t].pc \in {"spawn", "track", "persistRunning", "idle"}
      /\ task'[t].key \in {task[t].key, None}
      /\ task'[t].pc = "spawn" => task'[t].pid = None
      /\ \A k \in Keys : desired'[k] \in {desired[k], "RUNNING"}
  <2>1. CASE StartRefused(t)
    BY <1>1, <2>1 DEF StartRefused, Return, NoFrame, OneTask, TypeOK, FramesOK
  <2>2. CASE StartAccepted(t)
    BY <1>1, <2>2 DEF StartAccepted, Goto, OneTask, TypeOK, FramesOK, Frame
  <2>3. CASE Spawn(t)
    BY <1>1, <2>3 DEF Spawn, Goto, OneTask, TypeOK, FramesOK, Frame
  <2>4. CASE SpawnFails(t)
    BY <1>1, <2>4 DEF SpawnFails, Return, NoFrame, OneTask, TypeOK, FramesOK
  <2>5. CASE Track(t)
    BY <1>1, <2>5 DEF Track, Goto, OneTask, TypeOK, FramesOK, Frame
  <2>6. CASE PersistDesired(t, "persistRunning", "RUNNING")
    BY <1>1, <2>6 DEF PersistDesired, Return, NoFrame, OneTask, TypeOK, FramesOK
  <2> QED
    BY <2>1, <2>2, <2>3, <2>4, <2>5, <2>6 DEF Start
<1>3. OnlyStarts'
  BY <1>1, <1>2 DEF OnlyStarts, OneTask, StartPcs
<1>4. PICK k \in Keys : k = task[t].key
  BY <1>1
<1>5. ASSUME NEW j \in Keys, j # k PROVE Supervised(j)'
  <2>1. \A p \in Pids : live'[p] = j => live[p] = j
    BY <1>1, <1>4, <1>5 DEF Start, StartRefused, StartAccepted, Spawn, SpawnFails, Track,
                            PersistDesired, TypeOK
  <2> QED
    BY <1>2, <1>4, <1>5, <2>1, OtherSupervised, NoneAssumption DEF SupervisedInv
<1>6. Supervised(k)'
  <2>1. CASE StartRefused(t) \/ PersistDesired(t, "persistRunning", "RUNNING")
    <3>1. /\ UNCHANGED <<inst, live>> /\ task'[t].pc = "idle"
          /\ task[t].pc \in {"start", "persistRunning"}
      BY <1>1, <2>1 DEF StartRefused, PersistDesired, Return, NoFrame, At, TypeOK, FramesOK
    <3>2. /\ \A u \in Tasks : Serves(u, k)' <=> Serves(u, k)
          /\ \A u \in Tasks : Serves(u, k) => task'[u].pid = task[u].pid
      BY <1>2, <3>1 DEF Serves, OneTask
    <3> QED
      BY <1>2, <3>1, <3>2, KeepSupervised DEF SupervisedInv
  <2> QED
    BY <1>2, <1>4, <2>1, StartedKey, SpawnedKey, NotSpawnedKey, TrackedKey DEF Start
<1> QED
  BY <1>3, <1>5, <1>6

-----------------------------------------------------------------------------
\* The other steps.

\* A step that changes no state, handle or process, and takes an idle task at
\* most to the beginning of a start.
LEMMA QuietSupervised ==
    ASSUME SupervisedInv,
           \A k \in Keys : /\ inst'[k].state = inst[k].state
                           /\ inst'[k].proc = inst[k].proc,
           \A p \in Pids : live'[p] \in {live[p], None},
           \A p \in Pids : p \notin term' /\ live'[p] # None => p \notin term,
           \A t \in Tasks : \/ task'[t] = task[t]
                            \/ Idle(t) /\ At(t, "start")'
    PROVE  \A k \in Keys : Supervised(k)'
<1> TAKE k \in Keys
<1>1. /\ \A u \in Tasks : Serves(u, k)' <=> Serves(u, k)
      /\ \A u \in Tasks : Serves(u, k) => task'[u].pid = task[u].pid
  BY DEF Serves, Idle, At
<1>2. \A p \in Pids : p \notin term' /\ live'[p] = k => p \notin term /\ live[p] = k
  BY NoneAssumption
<1> QED
  BY <1>1, <1>2, KeepSupervised DEF SupervisedInv

LEMMA PassSupervised ==
    ASSUME SupervisedInv, ReconcilePass
    PROVE  OnlyStarts' /\ \A k \in Keys : Supervised(k)'
<1>1. TypeOK /\ OnlyStarts /\ UNCHANGED <<live, task, boot, desired>>
  BY DEF ReconcilePass, SupervisedInv
<1>2. OnlyStarts'
  BY <1>1 DEF ReconcilePass, OnlyStarts, TypeOK, LoopFrame
<1>3. PICK probe \in [Keys -> {"silent", "ready", "timeout"}] :
          /\ \A k \in Keys : ProbeAllowed(k, probe[k])
          /\ inst' = [k \in Keys |-> Reconciled(inst[k], probe[k])]
          /\ term' = term \cup KillAsync(probe)
  BY DEF ReconcilePass
<1>4. ASSUME NEW k \in Keys PROVE Supervised(k)'
  <2> DEFINE i == inst[k]
  <2>1. i \in Instance /\ inst'[k] = Reconciled(i, probe[k]) /\ Supervised(k)
    BY <1>1, <1>3 DEF TypeOK, SupervisedInv
  <2>2. \A t \in Tasks : Serves(t, k)' <=> Serves(t, k)
    BY <1>1 DEF Serves
  <2>3. CASE Exited(i)
    <3>1. inst'[k].state \in {"STOPPED", "FAILED"} /\ inst'[k].proc = None
      BY <2>1, <2>3 DEF Reconciled, AfterExit, MaybeScheduleRestart, Instance
    <3>2. i.proc # None /\ live[i.proc] = None
      BY <2>3 DEF Exited, Owned
    <3>3. \A t \in Tasks : ~Serves(t, k)
      BY <2>1, <3>2 DEF Supervised
    <3>4. \A p \in Pids \ term : live[p] # k
      BY <2>1, <3>2, <3>3, NoneAssumption DEF Supervised
    <3> QED
      BY <1>1, <1>3, <2>2, <3>1, <3>3, <3>4 DEF Supervised
  <2>4. CASE ~Exited(i) /\ i.state = "STARTING" /\ probe[k] = "timeout"
    <3>1. inst'[k].state = "FAILED" /\ inst'[k].proc = None
      BY <2>1, <2>4 DEF Reconciled, AfterTimeout, MaybeScheduleRestart, Instance
    <3>2. \A t \in Tasks : ~Serves(t, k)
      BY <1>3, <2>4 DEF ProbeAllowed, StartInFlight, Serves
    <3>3. \A p \in Pids \ term' : live[p] # k
      BY <1>3, <2>1, <2>4, <3>2, NoneAssumption DEF Supervised, KillAsync
    <3> QED
      BY <1>1, <2>2, <3>1, <3>2, <3>3 DEF Supervised
  <2>5. CASE ~Exited(i) /\ i.state = "STARTING" /\ probe[k] = "ready"
    <3>1. inst'[k].state = "READY" /\ inst'[k].proc = i.proc
      BY <2>1, <2>5 DEF Reconciled, AfterReady, Instance
    <3>2. \A p \in Pids \ term' : live[p] = k =>
             \/ inst'[k].proc = p
             \/ \E t \in Tasks : Serves(t, k)' /\ task'[t].pid = p
      BY <1>1, <1>3, <2>1, <2>2, <3>1 DEF Supervised
    <3> QED
      BY <1>1, <2>1, <2>2, <3>1, <3>2 DEF Supervised
  <2>6. CASE inst'[k] = i
    <3>1. \A p \in Pids : p \notin term' => p \notin term
      BY <1>3
    <3> QED
      BY <1>1, <2>1, <2>2, <2>6, <3>1, KeepSupervised
  <2>7. Exited(i) \/ i.state # "STARTING" \/ probe[k] \in {"ready", "timeout"}
          \/ inst'[k] = i
    BY <2>1 DEF Reconciled
  <2>8. ~Exited(i) /\ i.state # "STARTING" => inst'[k] = i
    BY <2>1 DEF Reconciled
  <2> QED
    BY <2>3, <2>4, <2>5, <2>6, <2>7, <2>8
<1> QED
  BY <1>2, <1>4

LEMMA LoopSupervised ==
    ASSUME SupervisedInv,
           \/ CollectDue \/ RestartNext \/ ReadDesired
           \/ SnapshotStates \/ ConvergeNext \/ ConvergeDone
    PROVE  OnlyStarts' /\ \A k \in Keys : Supervised(k)'
<1>1. TypeOK /\ OnlyStarts /\ UNCHANGED <<live, term, boot, desired>>
  BY DEF CollectDue, RestartNext, ReadDesired, SnapshotStates, ConvergeNext,
         ConvergeDone, SupervisedInv
<1>2. ASSUME NEW k \in Keys
      PROVE  inst'[k].state = inst[k].state /\ inst'[k].proc = inst[k].proc
  <2>1. CASE CollectDue
    <3>1. \/ inst'[k] = inst[k]
          \/ inst'[k] = [inst[k] EXCEPT !.nextRestart = "none", !.restartCount = @ + 1]
      BY <2>1 DEF CollectDue
    <3>2. inst[k] \in Instance
      BY <1>1 DEF TypeOK
    <3> QED
      BY <3>1, <3>2 DEF Instance
  <2>2. CASE ~CollectDue
    BY <2>2 DEF RestartNext, ReadDesired, SnapshotStates, ConvergeNext, ConvergeDone
  <2> QED
    BY <2>1, <2>2
<1>3. /\ \A k \in Keys : /\ loop'.want[k] \in {None, "RUNNING"}
                         /\ loop'.plan[k] \in {"none", "start"}
      /\ \A t \in Tasks : \/ task'[t] = task[t]
                          \/ Idle(t) /\ At(t, "start")'
  <2>1. /\ \A k \in Keys : /\ loop.want[k] \in {None, "RUNNING"}
                           /\ loop.plan[k] \in {"none", "start"}
                           /\ desired[k] \in {None, "RUNNING"}
        /\ LoopStart.want = [k \in Keys |-> None] /\ LoopStart.plan = NoPlan
        /\ loop \in LoopFrame
    BY <1>1 DEF OnlyStarts, LoopStart, TypeOK
  <2>2. CASE CollectDue
    BY <2>1, <2>2 DEF CollectDue, LoopFrame
  <2>3. CASE RestartNext
    BY <1>1, <2>1, <2>3 DEF RestartNext, Enter, Idle, At, LoopFrame, TypeOK, FramesOK
  <2>4. CASE ReadDesired
    <3>1. CASE loop' = [loop EXCEPT !.pc = "snapshot", !.want = desired]
      BY <2>1, <2>4, <3>1 DEF ReadDesired, LoopFrame
    <3>2. CASE loop' = LoopStart
      BY <2>1, <2>4, <3>2 DEF ReadDesired, NoPlan
    <3> QED
      BY <2>4, <3>1, <3>2 DEF ReadDesired
  <2>5. CASE SnapshotStates
    <3>1. \A k \in Keys : ConvergeOp(loop.want[k], inst[k].state) \in {"none", "start"}
      BY <2>1, NoneAssumption DEF ConvergeOp, SupervisedInv, Supervised
    <3> QED
      BY <2>1, <2>5, <3>1 DEF SnapshotStates, LoopStart
  <2>6. CASE ConvergeNext
    <3>1. PICK j \in Keys : /\ loop.plan[j] # "none"
                            /\ Enter(Reconciler, loop.plan[j], j, TRUE)
                            /\ loop' = [loop EXCEPT !.plan[j] = "none"]
      BY <2>6 DEF ConvergeNext
    <3>2. loop.plan[j] = "start"
      BY <2>1, <3>1
    <3>3. Idle(Reconciler)
      BY <2>6 DEF ConvergeNext
    <3> QED
      BY <1>1, <2>1, <3>1, <3>2, <3>3 DEF Enter, Idle, At, LoopFrame, TypeOK, FramesOK
  <2>7. CASE ConvergeDone
    BY <2>1, <2>7 DEF ConvergeDone, NoPlan
  <2> QED
    BY <2>2, <2>3, <2>4, <2>5, <2>6, <2>7
<1>4. OnlyStarts'
  BY <1>1, <1>3 DEF OnlyStarts, At, StartPcs
<1> QED
  BY <1>1, <1>2, <1>3, <1>4, QuietSupervised

LEMMA RestSupervised ==
    ASSUME SupervisedInv, CallersOnlyStart,
           \/ \E t \in Calls, op \in Ops, k \in Keys : Request(t, op, k)
           \/ ReplayStep
           \/ \E k \in Keys : BackoffElapses(k)
           \/ \E p \in Pids : ProcDies(p)
           \/ UNCHANGED vars
    PROVE  OnlyStarts' /\ \A k \in Keys : Supervised(k)'
<1>1. TypeOK /\ OnlyStarts /\ ~ReplayStep
  BY DEF ReplayStep, ReplayRead, ReplayNext, SupervisedInv, OnlyStarts
<1>2. UNCHANGED <<loop, boot, desired>>
  BY <1>1 DEF Request, BackoffElapses, ProcDies, vars
<1>3. \A k \in Keys : inst'[k].state = inst[k].state /\ inst'[k].proc = inst[k].proc
  <2>1. CASE UNCHANGED inst
    BY <2>1
  <2>2. CASE \E k \in Keys : BackoffElapses(k)
    BY <1>1, <2>2 DEF BackoffElapses, TypeOK, Instance
  <2> QED
    BY <1>1, <2>1, <2>2 DEF Request, ProcDies, vars
<1>4. \A t \in Tasks : task'[t] = task[t] \/ (Idle(t) /\ At(t, "start")')
  <2>1. CASE \E t \in Calls, op \in Ops, k \in Keys : Request(t, op, k)
    BY <1>1, <2>1 DEF CallersOnlyStart, Request, Enter, Tasks, Idle, At, TypeOK, FramesOK
  <2>2. CASE UNCHANGED task
    BY <2>2
  <2> QED
    BY <1>1, <2>1, <2>2 DEF BackoffElapses, ProcDies, vars
<1>5. /\ \A p \in Pids : live'[p] \in {live[p], None}
      /\ \A p \in Pids : p \notin term' /\ live'[p] # None => p \notin term
  <2>1. CASE UNCHANGED <<live, term>>
    BY <2>1
  <2>2. CASE \E p \in Pids : ProcDies(p)
    BY <1>1, <2>2 DEF ProcDies, TypeOK
  <2> QED
    BY <1>1, <2>1, <2>2 DEF Request, BackoffElapses, vars
<1>6. OnlyStarts'
  BY <1>1, <1>2, <1>4 DEF OnlyStarts, At, StartPcs
<1> QED
  BY <1>3, <1>4, <1>5, <1>6, QuietSupervised

LEMMA InitSupervised == Init => SupervisedInv
<1> SUFFICES ASSUME Init PROVE SupervisedInv
  OBVIOUS
<1>1. OnlyStarts
  BY DEF Init, OnlyStarts, LoopStart, NoPlan, NoFrame, StartPcs
<1>2. ASSUME NEW k \in Keys PROVE Supervised(k)
  <2>1. inst[k].state = "STOPPED" /\ inst[k].proc = None
    BY DEF Init, NewInstance
  <2>2. /\ \A t \in Tasks : ~Serves(t, k)
        /\ \A p \in Pids : live[p] # k
    BY NoneAssumption DEF Init, NoFrame, Serves
  <2> QED
    BY <2>1, <2>2 DEF Supervised
<1> QED
  BY <1>1, <1>2, InitType DEF SupervisedInv

LEMMA NextSupervised ==
    CallersOnlyStart /\ SupervisedInv /\ [Next]_vars => SupervisedInv'
<1> SUFFICES ASSUME CallersOnlyStart, SupervisedInv, [Next]_vars PROVE SupervisedInv'
  OBVIOUS
<1>1. TypeOK'
  BY NextType DEF SupervisedInv
<1>2. ASSUME OnlyStarts', \A k \in Keys : Supervised(k)' PROVE SupervisedInv'
  BY <1>1, <1>2 DEF SupervisedInv
<1>3. ASSUME NEW t \in Tasks, TaskStep(t) PROVE SupervisedInv'
  <2>1. task[t].pc \in StartPcs \cup {"persistRunning", "idle"}
    BY DEF SupervisedInv, OnlyStarts
  <2>2. Start(t) \/ PersistDesired(t, "persistRunning", "RUNNING")
    BY <1>3, <2>1 DEF TaskStep, Stop, StopBegins, StopUnowned, Terminate, StopReaped,
         Sleep, Wake, SleepRefused, SleepBegins, WakeRefused, WakeBegins,
         PostAnswered, PostFailed, Mark, PersistDesired, At, StartPcs
  <2> QED
    BY <1>2, <2>2, StartSupervised DEF Start
<1>4. ~Reboot /\ ~(\E t \in Cancellable : Cancel(t))
  BY DEF Reboot, CallersOnlyStart, SupervisedInv, TypeOK
<1>5. CASE ReconcileStep
  BY <1>2, <1>5, PassSupervised, LoopSupervised DEF ReconcileStep
<1> QED
  BY <1>2, <1>3, <1>4, <1>5, RestSupervised DEF Next

LEMMA SupervisedAlways == CallersOnlyStart => (Spec => []SupervisedInv)
<1> SUFFICES ASSUME CallersOnlyStart PROVE Spec => []SupervisedInv
  OBVIOUS
<1>1. SupervisedInv /\ [Next]_vars => SupervisedInv'
  BY NextSupervised
<1> QED
  BY InitSupervised, <1>1, PTL DEF Spec

\* While callers only start instances, are not cancelled, and the backend stays
\* up: every process serving a key is held by its record or by the start that
\* spawned it, or was signalled, whatever starts cross, time out, fail to spawn
\* or are retried.
THEOREM NoProcessIsOrphaned == CallersOnlyStart => (Spec => []NoOrphan)
<1>1. SupervisedInv => NoOrphan
  <2> SUFFICES ASSUME SupervisedInv, NEW p \in Pids, live[p] # None, p \notin term
               PROVE  \/ inst[live[p]].proc = p
                      \/ \E t \in Tasks : task[t].pid = p
    BY DEF NoOrphan
  <2>1. PICK k \in Keys : k = live[p]
    BY DEF SupervisedInv, TypeOK
  <2> QED
    BY <2>1 DEF SupervisedInv, Supervised
<1> QED
  BY <1>1, SupervisedAlways, PTL

\* Under the same conditions an instance never has two processes that were not
\* told to terminate: two starts of a key do not both spawn.
THEOREM NoSecondProcess == CallersOnlyStart => (Spec => []OneProcess)
<1>1. SupervisedInv => OneProcess
  <2> SUFFICES ASSUME SupervisedInv, NEW p \in Pids \ term, NEW q \in Pids \ term,
                      live[p] # None, live[p] = live[q]
               PROVE  p = q
    BY DEF OneProcess
  <2>1. PICK k \in Keys : k = live[p]
    BY DEF SupervisedInv, TypeOK
  <2>2. \A r \in {p, q} : \/ inst[k].proc = r
                          \/ \E t \in Tasks : Serves(t, k) /\ task[t].pid = r
    BY <2>1 DEF SupervisedInv, Supervised
  <2>3. \A t, u \in Tasks : Serves(t, k) /\ Serves(u, k)
                              => t = u /\ inst[k].proc = None
    BY DEF SupervisedInv, Supervised
  <2> QED
    BY <2>2, <2>3, NoneAssumption
<1> QED
  BY <1>1, SupervisedAlways, PTL
=============================================================================
