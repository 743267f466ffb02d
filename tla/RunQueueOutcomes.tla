-------------------------- MODULE RunQueueOutcomes --------------------------
(***************************************************************************)
(* What the rows say is true until the backend restarts: a run recorded as *)
(* over has no process, and an accepted cancel is never recorded as        *)
(* anything else.  A restart breaks both: it records every unfinished run  *)
(* as failed, and the runners survive it.  What survives every restart:    *)
(* a recorded outcome is never overwritten, and no evaluation starts       *)
(* beside a load test.                                                     *)
(***************************************************************************)
EXTENDS RunQueueBooks

\* One run: its coroutine, its slot, its process, its cancel and its row.
Fine(r, tasks, procs, alive, cancels, asks, rows) ==
    /\ rows[r] \in Final => tasks[r].at = "over"
    /\ r \in alive \cup procs => /\ tasks[r].at \in {"starting", "watched", "over"}
                                 /\ rows[r] \notin Final
    /\ r \in asks => /\ tasks[r].at \notin {"new", "creating", "waiting", "dropping",
                                           "completed", "failed"}
                     /\ rows[r] \notin {"completed", "failed"}
    /\ r \in asks /\ tasks[r].at \in {"starting", "watched", "pumping"} => r \in cancels

\* A load test has at most one launch of its pump under way, and waits for it.
Waits(tasks, p) == \E x \in Evals : tasks[x].at = "starting" /\ tasks[x].for = p

Links(tasks) ==
    /\ \A p \in Perfs : Waits(tasks, p) => tasks[p].at = "pumping"
    /\ \A x, y \in Evals :
          /\ tasks[x].at = "starting" /\ tasks[y].at = "starting"
          /\ tasks[x].for = tasks[y].for /\ tasks[x].for # None
          => x = y

Procs == em.procs \cup pm.procs

Outcomes ==
    /\ Links(task)
    /\ \A r \in Runs : Fine(r, task, Procs, live, cancelled, asked, row)

OutcomeInv == BooksInv /\ Outcomes

\* What the caller of a pump guarantees about the load test it runs for.
Resumes(owner, tasks) ==
    owner # None => /\ tasks[owner].at \in {"watched", "pumping"}
                    /\ owner \notin live
                    /\ owner \notin pm'.procs
                    /\ ~Waits(tasks, owner)

\* The facts about a launch that both of its outcomes need.
LEMMA LaunchFacts ==
    ASSUME NEW owner \in Perfs \cup {None}, NEW tasks \in Tasks, NEW stage \in Stage,
           NEW x \in Evals
    PROVE  /\ Caller(owner, tasks, stage) \in Tasks
           /\ \A s \in Runs \ {owner} : Caller(owner, tasks, stage)[s] = tasks[s]
           /\ owner # None => Caller(owner, tasks, stage)[owner].at = stage
           /\ x # owner /\ x \in Runs /\ x \notin Perfs
<1>1. /\ Caller(owner, tasks, stage) \in Tasks
      /\ \A s \in Runs \ {owner} : Caller(owner, tasks, stage)[s] = tasks[s]
  BY CallerMoves
<1>2. owner # None => Caller(owner, tasks, stage)[owner].at = stage
  BY DEF Caller, Tasks, Runs, At
<1>3. x # owner /\ x \in Runs /\ x \notin Perfs
  BY RunsAssumption DEF Runs
<1>4. QED
  BY <1>1, <1>2, <1>3

LEMMA LaunchKeepsOutcomes ==
    ASSUME NEW owner \in Perfs \cup {None}, NEW tasks \in Tasks, NEW books \in EvalBooks,
           Agree(books, tasks), books.queue # <<>>, Links(tasks), Resumes(owner, tasks),
           \A r \in Runs : Fine(r, tasks, books.procs \cup pm'.procs,
                                live, cancelled, asked', row'),
           Launch(Head(books.queue), owner, tasks, books)
    PROVE  /\ Links(task')
           /\ \A r \in Runs : Fine(r, task', em'.procs \cup pm'.procs,
                                   live', cancelled', asked', row')
<1> DEFINE x == Head(books.queue)
           popped == [books EXCEPT !.queue = Tail(@), !.pending = @ \ {x}]
<1>1. x \in Evals /\ tasks[x].at = "waiting"
  BY PoppedRuns DEF EvalBooks, Agree
<1>2. popped.procs = books.procs /\ popped \in [queue : Seq(Evals), pending : SUBSET Evals,
                                                batch : SUBSET Evals, procs : SUBSET Evals]
  BY PoppedRuns DEF EvalBooks, Agree
<1>3. /\ x # owner /\ x \in Runs /\ x \notin Perfs /\ owner \notin books.procs
      /\ owner # None => owner \in Runs /\ owner \in Perfs
      /\ \A p \in Perfs : p \notin Evals /\ p \in Runs
      /\ None \notin Runs
  BY <1>1, RunsAssumption DEF Runs, EvalBooks
<1> HIDE DEF x, popped
<1>4. CASE /\ em' = [popped EXCEPT !.procs = @ \cup {x}]
           /\ live' = live \cup {x}
           /\ task' = [Caller(owner, tasks, "pumping")
                         EXCEPT ![x] = [at |-> "starting", for |-> owner]]
           /\ cancelled' = cancelled
  <2> DEFINE c == Caller(owner, tasks, "pumping")
  <2>1. /\ c \in Tasks
        /\ \A s \in Runs \ {owner} : c[s] = tasks[s]
        /\ owner # None => c[owner].at = "pumping"
    <3>1. "pumping" \in Stage
      BY DEF Stage
    <3>2. QED
      BY <1>1, <3>1, LaunchFacts, SMTT(30)
  <2> HIDE DEF c
  <2>2. /\ task'[x] = [at |-> "starting", for |-> owner]
        /\ \A s \in Runs \ {owner, x} : task'[s] = tasks[s]
        /\ owner # None => task'[owner].at = "pumping"
    BY <1>3, <1>4, <2>1 DEF Tasks, c
  <2>3. em'.procs = books.procs \cup {x}
    BY <1>2, <1>4
  <2>4. Links(task')
    <3>1. ASSUME NEW y \in Evals \ {x}
          PROVE  task'[y] = tasks[y]
      BY <1>3, <2>2, <3>1, RunsAssumption DEF Runs
    <3>2. ASSUME NEW p \in Perfs, Waits(task', p)
          PROVE  task'[p].at = "pumping"
      <4>1. CASE p = owner
        BY <1>3, <2>2, <4>1
      <4>2. CASE p # owner
        <5>1. Waits(tasks, p)
          BY <2>2, <3>1, <3>2, <4>2 DEF Waits
        <5>2. QED
          BY <1>3, <2>2, <4>2, <5>1 DEF Links
      <4>3. QED
        BY <4>1, <4>2
    <3>3. ASSUME NEW y \in Evals, NEW z \in Evals,
                 task'[y].at = "starting", task'[z].at = "starting",
                 task'[y].for = task'[z].for, task'[y].for # None
          PROVE  y = z
      <4>1. CASE y # x /\ z # x
        BY <3>1, <3>3, <4>1 DEF Links
      <4>2. CASE (y = x) # (z = x)
        BY <2>2, <3>1, <3>3, <4>2 DEF Resumes, Waits
      <4>3. QED
        BY <4>1, <4>2
    <3>4. QED
      BY <3>2, <3>3 DEF Links
  <2>5. ASSUME NEW r \in Runs
        PROVE  Fine(r, task', em'.procs \cup pm'.procs, live', cancelled', asked', row')
    <3>1. Fine(r, tasks, books.procs \cup pm'.procs, live, cancelled, asked', row')
      OBVIOUS
    <3>2. CASE r = x
      BY <1>1, <1>4, <2>2, <2>3, <3>1, <3>2 DEF Fine
    <3>3. CASE r = owner
      BY <1>3, <1>4, <2>2, <2>3, <3>1, <3>3 DEF Fine, Resumes
    <3>4. CASE r \notin {x, owner}
      BY <1>4, <2>2, <2>3, <3>1, <3>4 DEF Fine
    <3>5. QED
      BY <3>2, <3>3, <3>4
  <2>6. QED
    BY <2>4, <2>5
<1>5. CASE /\ em' = popped
           /\ live' = live
           /\ task' = [Caller(owner, tasks, "over") EXCEPT ![x] = At("over")]
           /\ cancelled' = cancelled
  <2> DEFINE c == Caller(owner, tasks, "over")
  <2>1. /\ c \in Tasks
        /\ \A s \in Runs \ {owner} : c[s] = tasks[s]
        /\ owner # None => c[owner].at = "over"
    <3>1. "over" \in Stage
      BY DEF Stage
    <3>2. QED
      BY <1>1, <3>1, LaunchFacts, SMTT(30)
  <2> HIDE DEF c
  <2>2. /\ task'[x].at = "over"
        /\ \A s \in Runs \ {owner, x} : task'[s] = tasks[s]
        /\ owner # None => task'[owner].at = "over"
    BY <1>3, <1>5, <2>1 DEF Tasks, c, At
  <2>3. em'.procs = books.procs
    BY <1>2, <1>5
  <2>4. Links(task')
    <3>1. ASSUME NEW y \in Evals \ {x}
          PROVE  task'[y] = tasks[y]
      BY <1>3, <2>2, <3>1, RunsAssumption DEF Runs
    <3>2. ASSUME NEW p \in Perfs, Waits(task', p)
          PROVE  task'[p].at = "pumping"
      <4>1. Waits(tasks, p)
        BY <2>2, <3>1, <3>2 DEF Waits
      <4>2. p # owner
        BY <1>3, <4>1, RunsAssumption DEF Resumes, Runs
      <4>3. QED
        BY <1>3, <2>2, <4>1, <4>2 DEF Links
    <3>3. ASSUME NEW y \in Evals, NEW z \in Evals,
                 task'[y].at = "starting", task'[z].at = "starting",
                 task'[y].for = task'[z].for, task'[y].for # None
          PROVE  y = z
      BY <2>2, <3>1, <3>3 DEF Links
    <3>4. QED
      BY <3>2, <3>3 DEF Links
  <2>5. ASSUME NEW r \in Runs
        PROVE  Fine(r, task', em'.procs \cup pm'.procs, live', cancelled', asked', row')
    <3>1. Fine(r, tasks, books.procs \cup pm'.procs, live, cancelled, asked', row')
      OBVIOUS
    <3>2. CASE r = x
      BY <1>1, <1>5, <2>2, <2>3, <3>1, <3>2 DEF Fine
    <3>3. CASE r = owner
      BY <1>3, <1>5, <2>2, <2>3, <3>1, <3>3 DEF Fine, Resumes
    <3>4. CASE r \notin {x, owner}
      BY <1>5, <2>2, <2>3, <3>1, <3>4 DEF Fine
    <3>5. QED
      BY <3>2, <3>3, <3>4
  <2>6. QED
    BY <2>4, <2>5
<1>6. QED
  BY <1>4, <1>5 DEF Launch, x, popped

LEMMA PumpKeepsOutcomes ==
    ASSUME NEW owner \in Perfs \cup {None}, NEW tasks \in Tasks, NEW books \in EvalBooks,
           Agree(books, tasks), Links(tasks), Resumes(owner, tasks),
           \A r \in Runs : Fine(r, tasks, books.procs \cup pm'.procs,
                                live, cancelled, asked', row'),
           Pump(owner, tasks, books)
    PROVE  /\ Links(task')
           /\ \A r \in Runs : Fine(r, task', em'.procs \cup pm'.procs,
                                   live', cancelled', asked', row')
<1>1. CASE Admits(books) /\ Launch(Head(books.queue), owner, tasks, books)
  BY <1>1, LaunchKeepsOutcomes DEF Admits
<1>2. CASE /\ em' = books
           /\ \E v \in Verdicts(owner) : task' = Caller(owner, tasks, v)
           /\ cancelled' = cancelled \ {owner}
           /\ live' = live
  <2>1. PICK v \in Verdicts(owner) : task' = Caller(owner, tasks, v)
    BY <1>2
  <2>2. v \in Final /\ (owner \in cancelled => v = "cancelled")
    BY DEF Verdicts, Final
  <2>3. v \in Stage
    BY <2>2 DEF Stage
  <2>4. /\ \A s \in Runs \ {owner} : Caller(owner, tasks, v)[s] = tasks[s]
        /\ owner # None => Caller(owner, tasks, v)[owner].at = v
        /\ \A x \in Evals : Caller(owner, tasks, v)[x] = tasks[x]
    <3>1. owner # None => Caller(owner, tasks, v)[owner].at = v
      BY DEF Caller, Tasks, Runs, At
    <3>2. QED
      BY <2>3, <3>1, CallerMoves, Zenon
  <2>5. /\ \A s \in Runs \ {owner} : task'[s] = tasks[s]
        /\ owner # None => task'[owner].at = v
        /\ \A x \in Evals : task'[x] = tasks[x]
    BY <2>1, <2>4, Zenon
  <2>6. Links(task')
    <3>1. ASSUME NEW p \in Perfs, Waits(task', p)
          PROVE  task'[p].at = "pumping"
      <4>1. Waits(tasks, p)
        BY <2>5, <3>1 DEF Waits
      <4>2. p # owner /\ p \in Runs
        BY <4>1, RunsAssumption DEF Resumes, Runs
      <4>3. QED
        BY <2>5, <4>1, <4>2 DEF Links
    <3>2. QED
      BY <2>5, <3>1 DEF Links
  <2>7. owner \notin Evals /\ owner \notin books.procs
    BY RunsAssumption DEF Runs, EvalBooks
  <2>8. ASSUME NEW r \in Runs
        PROVE  Fine(r, task', em'.procs \cup pm'.procs, live', cancelled', asked', row')
    <3>1. Fine(r, tasks, books.procs \cup pm'.procs, live, cancelled, asked', row')
      OBVIOUS
    <3>2. CASE r = owner
      <4>1. /\ owner # None /\ owner \notin live /\ owner \notin pm'.procs
            /\ tasks[owner].at \in {"watched", "pumping"} /\ task'[owner].at = v
        BY <2>5, <3>2, RunsAssumption DEF Resumes
      <4>2. QED
        BY <1>2, <2>2, <2>7, <3>1, <3>2, <4>1 DEF Fine, Final
    <3>3. CASE r # owner
      BY <1>2, <2>5, <3>1, <3>3 DEF Fine
    <3>4. QED
      BY <3>2, <3>3
  <2>9. QED
    BY <2>6, <2>8
<1>3. QED
  BY <1>1, <1>2 DEF Pump

-----------------------------------------------------------------------------
(***************************************************************************)
(* Each action keeps the outcomes.                                         *)
(***************************************************************************)

LEMMA OutcomeFacts ==
    ASSUME OutcomeInv
    PROVE  /\ em \in EvalBooks /\ pm \in PerfBooks /\ task \in Tasks
           /\ row \in [Runs -> Final \cup {"none", "queued", "running", "deleted"}]
           /\ Agree(em, task) /\ Links(task)
           /\ \A r \in Runs : Fine(r, task, Procs, live, cancelled, asked, row)
BY DEF OutcomeInv, Outcomes, BooksInv, TypeOK, Books

\* A task that moves to a stage other than a launch, and is no load test that
\* waits for one, keeps the links.
LEMMA MoveKeepsLinks ==
    ASSUME NEW tasks \in Tasks, Links(tasks), NEW r \in Runs,
           NEW stage \in Stage \ {"starting"},
           r \in Perfs => tasks[r].at # "pumping"
    PROVE  /\ Links([tasks EXCEPT ![r] = At(stage)])
           /\ \A p \in Perfs :
                 Waits([tasks EXCEPT ![r] = At(stage)], p) => Waits(tasks, p)
<1> DEFINE t == [tasks EXCEPT ![r] = At(stage)]
<1>1. t[r].at = stage /\ \A s \in Runs \ {r} : t[s] = tasks[s]
  BY DEF Tasks, At
<1> HIDE DEF t
<1>2. \A x \in Evals : t[x].at = "starting" => x # r /\ t[x] = tasks[x]
  BY <1>1 DEF Runs
<1>3. \A p \in Perfs : Waits(t, p) => Waits(tasks, p)
  BY <1>2 DEF Waits
<1>4. \A p \in Perfs : Waits(t, p) => t[p].at = "pumping"
  BY <1>1, <1>3 DEF Links, Runs
<1>5. Links(t)
  BY <1>2, <1>4 DEF Links
<1>6. QED
  BY <1>3, <1>5 DEF t

LEMMA EvalStartKeepsOutcomes ==
    ASSUME OutcomeInv, NEW x \in Evals, EvalStart(x)
    PROVE  Outcomes'
<1> DEFINE books == [em EXCEPT !.queue = Append(@, x), !.pending = @ \cup {x},
                               !.batch = @ \cup {x}]
           tasks == [task EXCEPT ![x] = At("waiting")]
<1>1. /\ task[x].at = "new" /\ x \in Runs /\ x \notin Perfs
      /\ row' = [row EXCEPT ![x] = "queued"]
      /\ UNCHANGED <<pm, asked>>
      /\ Pump(None, tasks, books)
  BY RunsAssumption DEF EvalStart, Runs
<1>2. "waiting" \in Stage \ {"starting"}
  BY DEF Stage
<1>3. /\ tasks \in Tasks /\ tasks[x].at = "waiting"
      /\ \A s \in Runs \ {x} : tasks[s] = task[s]
  BY <1>1, <1>2, OutcomeFacts, TaskMoves
<1>4. Links(tasks)
  BY <1>1, <1>2, OutcomeFacts, MoveKeepsLinks
<1>5. /\ Append(em.queue, x) \in Seq(Evals)
      /\ IsInjective(Append(em.queue, x))
      /\ ToSet(Append(em.queue, x)) = em.pending \cup {x}
      /\ x \notin em.procs
  BY <1>1, OutcomeFacts, AppendedRun DEF EvalBooks, Agree
<1>6. /\ books \in EvalBooks
      /\ books.queue = Append(em.queue, x)
      /\ books.pending = em.pending \cup {x}
      /\ books.batch = em.batch \cup {x}
      /\ books.procs = em.procs
  BY <1>1, <1>5, OutcomeFacts DEF EvalBooks
<1> HIDE DEF books, tasks
<1>7. Agree(books, tasks)
  BY <1>1, <1>3, <1>5, <1>6, OutcomeFacts DEF Agree, Runs
<1>8. books.procs \cup pm'.procs = Procs
  BY <1>1, <1>6 DEF Procs
<1>9. ASSUME NEW r \in Runs
      PROVE  Fine(r, tasks, Procs, live, cancelled, asked', row')
  <2>1. Fine(r, task, Procs, live, cancelled, asked, row)
    BY OutcomeFacts
  <2>2. row \in [Runs -> Final \cup {"none", "queued", "running", "deleted"}]
    BY OutcomeFacts
  <2>3. QED
    BY <1>1, <1>3, <2>1, <2>2 DEF Fine, Final
<1>10. Resumes(None, tasks)
  BY DEF Resumes
<1>11. QED
  BY <1>1, <1>3, <1>4, <1>6, <1>7, <1>8, <1>9, <1>10, PumpKeepsOutcomes
     DEF Outcomes, Procs

LEMMA StartedKeepsOutcomes ==
    ASSUME OutcomeInv, NEW x \in Evals, Started(x)
    PROVE  Outcomes'
<1> DEFINE tasks == [task EXCEPT ![x] = At("watched")]
           owner == task[x].for
<1>1. /\ task[x].at = "starting" /\ x \in Runs /\ x \notin Perfs
      /\ row' = [row EXCEPT ![x] = IF @ = "queued" THEN "running" ELSE @]
      /\ UNCHANGED <<pm, asked>>
      /\ Pump(owner, tasks, em)
  BY RunsAssumption DEF Started, Runs
<1>2. "watched" \in Stage \ {"starting"}
  BY DEF Stage
<1>3. /\ tasks \in Tasks /\ tasks[x].at = "watched"
      /\ \A s \in Runs \ {x} : tasks[s] = task[s]
  BY <1>1, <1>2, OutcomeFacts, TaskMoves
<1>4. Links(tasks)
  BY <1>1, <1>2, OutcomeFacts, MoveKeepsLinks
<1>5. owner \in Perfs \cup {None}
  BY <1>1, OutcomeFacts DEF Tasks
<1> HIDE DEF tasks, owner
<1>6. Agree(em, tasks)
  BY <1>1, <1>3, OutcomeFacts DEF Agree, Runs
<1>7. em.procs \cup pm'.procs = Procs
  BY <1>1 DEF Procs
<1>8. ASSUME NEW r \in Runs
      PROVE  Fine(r, tasks, Procs, live, cancelled, asked', row')
  <2>1. Fine(r, task, Procs, live, cancelled, asked, row)
    BY OutcomeFacts
  <2>2. row \in [Runs -> Final \cup {"none", "queued", "running", "deleted"}]
    BY OutcomeFacts
  <2>3. QED
    BY <1>1, <1>3, <2>1, <2>2 DEF Fine, Final
<1>9. Resumes(owner, tasks)
  <2> SUFFICES ASSUME owner # None PROVE Resumes(owner, tasks)
    BY DEF Resumes
  <2>1. owner \in Perfs /\ owner \in Runs /\ owner # x
    BY <1>1, <1>5 DEF Runs
  <2>2. Waits(task, owner) /\ task[owner].at = "pumping" /\ tasks[owner].at = "pumping"
    BY <1>1, <1>3, <2>1, OutcomeFacts DEF Waits, Links, owner
  <2>3. Fine(owner, task, Procs, live, cancelled, asked, row)
    BY <2>1, OutcomeFacts
  <2>4. owner \notin live /\ owner \notin pm'.procs
    BY <1>1, <2>2, <2>3 DEF Fine, Procs
  <2>5. ~Waits(tasks, owner)
    <3>1. ASSUME NEW y \in Evals, tasks[y].at = "starting", tasks[y].for = owner
          PROVE  FALSE
      <4>1. y # x /\ y \in Runs /\ tasks[y] = task[y]
        BY <1>3, <3>1 DEF Runs
      <4>2. y = x
        BY <1>1, <3>1, <4>1, OutcomeFacts DEF Links, owner
      <4>3. QED
        BY <4>1, <4>2
    <3>2. QED
      BY <3>1 DEF Waits
  <2>6. QED
    BY <2>2, <2>4, <2>5 DEF Resumes
<1>10. QED
  BY <1>1, <1>3, <1>4, <1>5, <1>6, <1>7, <1>8, <1>9, OutcomeFacts, PumpKeepsOutcomes
     DEF Outcomes, Procs

\* A step that moves one task and touches nothing of the other runs: what is
\* left to show is that the run it moves is fine.
LEMMA MoveKeepsOutcomes ==
    ASSUME OutcomeInv, NEW r \in Runs, NEW stage \in Stage \ {"starting"},
           r \in Perfs => task[r].at # "pumping",
           task' = [task EXCEPT ![r] = At(stage)],
           \A s \in Runs \ {r} : /\ row'[s] = row[s]
                                 /\ s \in live' <=> s \in live
                                 /\ s \in Procs' <=> s \in Procs
                                 /\ s \in cancelled' <=> s \in cancelled
                                 /\ s \in asked' <=> s \in asked,
           task'[r].at = stage =>
               Fine(r, task', Procs', live', cancelled', asked', row')
    PROVE  Outcomes'
<1>1. task'[r].at = stage /\ \A s \in Runs \ {r} : task'[s] = task[s]
  BY OutcomeFacts DEF Tasks, At
<1>2. Links(task')
  BY OutcomeFacts, MoveKeepsLinks
<1>3. ASSUME NEW s \in Runs \ {r}
      PROVE  Fine(s, task', Procs', live', cancelled', asked', row')
  <2>1. Fine(s, task, Procs, live, cancelled, asked, row)
    BY OutcomeFacts
  <2>2. QED
    BY <1>1, <2>1 DEF Fine
<1>4. QED
  BY <1>1, <1>2, <1>3 DEF Outcomes

LEMMA StartedRaisesKeepsOutcomes ==
    ASSUME OutcomeInv, NEW x \in Evals, StartedRaises(x)
    PROVE  Outcomes'
<1> DEFINE owner == task[x].for
           c == Caller(owner, task, "over")
<1>1. /\ task[x].at = "starting" /\ x \in Runs /\ x \notin Perfs
      /\ task' = [c EXCEPT ![x] = At("over")]
      /\ UNCHANGED <<em, pm, cancelled, row, live, asked>>
  BY RunsAssumption DEF StartedRaises, Runs
<1>2. owner \in Perfs \cup {None} /\ "over" \in Stage
  BY <1>1, OutcomeFacts DEF Tasks, Stage
<1>3. /\ c \in Tasks
      /\ \A s \in Runs \ {owner} : c[s] = task[s]
      /\ owner # None => c[owner].at = "over"
  BY <1>2, OutcomeFacts, LaunchFacts
<1> HIDE DEF c
<1>4. /\ task'[x].at = "over"
      /\ \A s \in Runs \ {owner, x} : task'[s] = task[s]
      /\ owner # None => task'[owner].at = "over"
  BY <1>1, <1>2, <1>3 DEF Tasks, At
<1> HIDE DEF owner
<1>5. \A y \in Evals : task'[y].at = "starting" => y # x /\ task'[y] = task[y]
  BY <1>1, <1>2, <1>4, RunsAssumption DEF Runs
<1>6. \A p \in Perfs : Waits(task', p) => Waits(task, p) /\ p # owner
  <2>1. ASSUME NEW p \in Perfs, NEW y \in Evals, task'[y].at = "starting", task'[y].for = p
        PROVE  task[y].at = "starting" /\ task[y].for = p /\ p # owner
    <3>1. y # x /\ task[y].at = "starting" /\ task[y].for = p /\ p # None
      BY <1>5, <2>1, RunsAssumption DEF Runs
    <3>2. QED
      BY <1>1, <3>1, OutcomeFacts DEF Links, owner
  <2>2. QED
    BY <2>1 DEF Waits
<1>7. Links(task')
  <2>1. \A p \in Perfs : Waits(task', p) => task'[p].at = "pumping"
    BY <1>1, <1>4, <1>6, OutcomeFacts DEF Links, Runs
  <2>2. QED
    BY <1>5, <2>1, OutcomeFacts DEF Links
<1>8. ASSUME NEW r \in Runs
      PROVE  Fine(r, task', Procs', live', cancelled', asked', row')
  <2>1. Fine(r, task, Procs, live, cancelled, asked, row) /\ Procs' = Procs
    BY <1>1, OutcomeFacts DEF Procs
  <2>2. CASE r = x
    BY <1>1, <1>4, <2>1, <2>2 DEF Fine
  <2>3. CASE r = owner
    <3>1. owner # None /\ owner \in Perfs
      BY <1>2, <2>3, RunsAssumption
    <3>2. task[owner].at = "pumping"
      BY <1>1, <3>1, OutcomeFacts DEF Links, Waits, owner
    <3>3. QED
      BY <1>1, <1>4, <2>1, <2>3, <3>1, <3>2 DEF Fine
  <2>4. CASE r \notin {x, owner}
    BY <1>1, <1>4, <2>1, <2>4 DEF Fine
  <2>5. QED
    BY <2>2, <2>3, <2>4
<1>9. QED
  BY <1>7, <1>8 DEF Outcomes

LEMMA WatchEvalKeepsOutcomes ==
    ASSUME OutcomeInv, NEW x \in Evals, WatchEval(x)
    PROVE  Outcomes'
<1>1. /\ task[x].at = "watched" /\ x \in Runs /\ x \notin Perfs /\ x \notin live
      /\ cancelled' = cancelled \ {x}
      /\ UNCHANGED <<pm, row, live, asked>>
  BY RunsAssumption DEF WatchEval, Runs
<1>2. PICK v \in Verdicts(x) : task' = [task EXCEPT ![x] = At(v)]
  BY DEF WatchEval
<1>3. /\ v \in Final /\ v \in Stage \ {"starting"}
      /\ x \in cancelled => v = "cancelled"
  BY DEF Verdicts, Final, Stage
<1>4. em'.procs = em.procs \ {x}
  BY OutcomeFacts DEF WatchEval, EvalBooks
<1>5. x \notin Procs' /\ \A s \in Runs \ {x} : (s \in Procs') <=> (s \in Procs)
  BY <1>1, <1>4, OutcomeFacts DEF Procs, PerfBooks
<1>6. Fine(x, task, Procs, live, cancelled, asked, row)
  BY <1>1, OutcomeFacts
<1>7. task'[x].at = v => Fine(x, task', Procs', live', cancelled', asked', row')
  BY <1>1, <1>3, <1>5, <1>6 DEF Fine, Final
<1>8. QED
  BY <1>1, <1>2, <1>3, <1>5, <1>7, MoveKeepsOutcomes

LEMMA EvalFinishedKeepsOutcomes ==
    ASSUME OutcomeInv, NEW x \in Evals, EvalFinished(x)
    PROVE  Outcomes'
<1> DEFINE tasks == [task EXCEPT ![x] = At("over")]
<1>1. /\ task[x].at \in Final /\ x \in Runs /\ x \notin Perfs
      /\ \/ row' = [row EXCEPT ![x] = IF @ = "deleted" THEN @ ELSE task[x].at]
         \/ row' = row
      /\ UNCHANGED <<pm, asked>>
      /\ Pump(None, tasks, em)
  BY RunsAssumption DEF EvalFinished, Recorded, Runs
<1>2. "over" \in Stage \ {"starting"}
  BY DEF Stage
<1>3. /\ tasks \in Tasks /\ tasks[x].at = "over"
      /\ \A s \in Runs \ {x} : tasks[s] = task[s]
  BY <1>1, <1>2, OutcomeFacts, TaskMoves
<1>4. Links(tasks)
  BY <1>1, <1>2, OutcomeFacts, MoveKeepsLinks
<1> HIDE DEF tasks
<1>5. Agree(em, tasks)
  BY <1>1, <1>3, OutcomeFacts DEF Agree, Runs, Final
<1>6. em.procs \cup pm'.procs = Procs
  BY <1>1 DEF Procs
<1>7. ASSUME NEW r \in Runs
      PROVE  Fine(r, tasks, Procs, live, cancelled, asked', row')
  <2>1. /\ Fine(r, task, Procs, live, cancelled, asked, row)
        /\ row \in [Runs -> Final \cup {"none", "queued", "running", "deleted"}]
    BY OutcomeFacts
  <2>2. CASE r = x
    BY <1>1, <1>3, <2>1, <2>2 DEF Fine, Final
  <2>3. CASE r # x
    BY <1>1, <1>3, <2>1, <2>3 DEF Fine
  <2>4. QED
    BY <2>2, <2>3
<1>8. Resumes(None, tasks)
  BY DEF Resumes
<1>9. QED
  BY <1>1, <1>3, <1>4, <1>5, <1>6, <1>7, <1>8, OutcomeFacts, PumpKeepsOutcomes
     DEF Outcomes, Procs

LEMMA CancelQueuedKeepsOutcomes ==
    ASSUME OutcomeInv, NEW x \in Evals, CancelQueued(x)
    PROVE  Outcomes'
<1>1. PICK i \in DOMAIN em.queue :
        /\ em.queue[i] = x
        /\ em' = [em EXCEPT !.queue = RemoveAt(@, i), !.pending = @ \ {x},
                            !.batch = @ \ {x}]
        /\ task' = [task EXCEPT ![x] = At("dropping")]
        /\ UNCHANGED <<pm, cancelled, row, live, asked>>
  BY DEF CancelQueued
<1>2. x \in Runs /\ x \notin Perfs /\ task[x].at = "waiting"
  BY <1>1, OutcomeFacts, RunsAssumption DEF Agree, ToSet, Runs
<1>3. Procs' = Procs
  BY <1>1, OutcomeFacts DEF Procs, EvalBooks
<1>4. "dropping" \in Stage \ {"starting"}
  BY DEF Stage
<1>5. Fine(x, task, Procs, live, cancelled, asked, row)
  BY <1>2, OutcomeFacts
<1>6. task'[x].at = "dropping" => Fine(x, task', Procs', live', cancelled', asked', row')
  BY <1>1, <1>2, <1>3, <1>5 DEF Fine
<1>7. QED
  BY <1>1, <1>2, <1>3, <1>4, <1>6, MoveKeepsOutcomes

LEMMA DroppedKeepsOutcomes ==
    ASSUME OutcomeInv, NEW x \in Evals, Dropped(x)
    PROVE  Outcomes'
<1>1. /\ x \in Runs /\ x \notin Perfs /\ task[x].at = "dropping"
      /\ task' = [task EXCEPT ![x] = At("over")]
      /\ \/ /\ row' = [row EXCEPT ![x] = IF @ = "deleted" THEN @ ELSE "cancelled"]
            /\ asked' = asked \cup {x}
         \/ UNCHANGED <<row, asked>>
      /\ UNCHANGED <<em, pm, cancelled, live>>
  BY RunsAssumption DEF Dropped, Runs
<1>2. Procs' = Procs
  BY <1>1 DEF Procs
<1>3. "over" \in Stage \ {"starting"}
  BY DEF Stage
<1>4. /\ Fine(x, task, Procs, live, cancelled, asked, row)
      /\ row \in [Runs -> Final \cup {"none", "queued", "running", "deleted"}]
  BY <1>1, OutcomeFacts
<1>5. task'[x].at = "over" => Fine(x, task', Procs', live', cancelled', asked', row')
  BY <1>1, <1>2, <1>4 DEF Fine
<1>6. \A s \in Runs \ {x} : row'[s] = row[s] /\ (s \in asked' <=> s \in asked)
  BY <1>1, <1>4
<1>7. QED
  BY <1>1, <1>2, <1>3, <1>5, <1>6, MoveKeepsOutcomes

LEMMA SetBudgetKeepsOutcomes ==
    ASSUME OutcomeInv, NEW b \in Budgets, SetBudget(b)
    PROVE  Outcomes'
<1>1. Pump(None, task, em) /\ UNCHANGED <<pm, row, asked>>
  BY DEF SetBudget
<1>2. em.procs \cup pm'.procs = Procs /\ Resumes(None, task)
  BY <1>1 DEF Procs, Resumes
<1>3. \A r \in Runs : Fine(r, task, Procs, live, cancelled, asked', row')
  BY <1>1, OutcomeFacts
<1>4. QED
  BY <1>1, <1>2, <1>3, OutcomeFacts, PumpKeepsOutcomes DEF Outcomes, Procs

LEMMA PerfStartKeepsOutcomes ==
    ASSUME OutcomeInv, NEW p \in Perfs, PerfStart(p)
    PROVE  Outcomes'
<1>1. /\ p \in Runs /\ task[p].at = "new"
      /\ task' = [task EXCEPT ![p] = At("creating")]
      /\ UNCHANGED <<em, pm, cancelled, row, live, asked>>
  BY DEF PerfStart, Runs
<1>2. Procs' = Procs
  BY <1>1 DEF Procs
<1>3. "creating" \in Stage \ {"starting"}
  BY DEF Stage
<1>4. Fine(p, task, Procs, live, cancelled, asked, row)
  BY <1>1, OutcomeFacts
<1>5. task'[p].at = "creating" => Fine(p, task', Procs', live', cancelled', asked', row')
  BY <1>1, <1>2, <1>4 DEF Fine
<1>6. QED
  BY <1>1, <1>2, <1>3, <1>5, MoveKeepsOutcomes

LEMMA PerfLaunchedKeepsOutcomes ==
    ASSUME OutcomeInv, NEW p \in Perfs, PerfLaunched(p)
    PROVE  Outcomes'
<1>1. /\ p \in Runs /\ task[p].at = "creating"
      /\ row' = [row EXCEPT ![p] = "running"]
      /\ UNCHANGED <<em, cancelled, asked>>
  BY DEF PerfLaunched, Runs
<1>2. /\ Fine(p, task, Procs, live, cancelled, asked, row)
      /\ row \in [Runs -> Final \cup {"none", "queued", "running", "deleted"}]
  BY <1>1, OutcomeFacts
<1>3. /\ row'[p] = "running" /\ \A s \in Runs \ {p} : row'[s] = row[s]
      /\ p \notin asked /\ "running" \notin Final
      /\ {"watched", "over"} \subseteq Stage \ {"starting"}
  BY <1>1, <1>2 DEF Fine, Final, Stage
<1>4. CASE /\ pm' = [current |-> p, procs |-> pm.procs \cup {p}]
           /\ live' = live \cup {p}
           /\ task' = [task EXCEPT ![p] = At("watched")]
  <2>1. Procs' = Procs \cup {p}
    BY <1>1, <1>4 DEF Procs
  <2>2. task'[p].at = "watched" => Fine(p, task', Procs', live', cancelled', asked', row')
    BY <1>1, <1>3 DEF Fine
  <2>3. QED
    BY <1>1, <1>3, <1>4, <2>1, <2>2, MoveKeepsOutcomes
<1>5. CASE task' = [task EXCEPT ![p] = At("over")] /\ UNCHANGED <<pm, live>>
  <2>1. Procs' = Procs
    BY <1>1, <1>5 DEF Procs
  <2>2. task'[p].at = "over" => Fine(p, task', Procs', live', cancelled', asked', row')
    BY <1>1, <1>3 DEF Fine
  <2>3. QED
    BY <1>1, <1>3, <1>5, <2>1, <2>2, MoveKeepsOutcomes
<1>6. QED
  BY <1>4, <1>5 DEF PerfLaunched

LEMMA WatchPerfKeepsOutcomes ==
    ASSUME OutcomeInv, NEW p \in Perfs, WatchPerf(p)
    PROVE  Outcomes'
<1>1. /\ p \in Runs /\ task[p].at = "watched" /\ p \notin live
      /\ pm' = [current |-> IF pm.current = p THEN None ELSE pm.current,
                procs |-> pm.procs \ {p}]
      /\ UNCHANGED <<row, asked>>
      /\ Pump(p, task, em)
  BY DEF WatchPerf, Runs
<1>2. pm'.procs = pm.procs \ {p}
  BY <1>1
<1>3. Resumes(p, task)
  BY <1>1, <1>2, OutcomeFacts DEF Resumes, Links
<1>4. ASSUME NEW r \in Runs
      PROVE  Fine(r, task, em.procs \cup pm'.procs, live, cancelled, asked', row')
  <2>1. Fine(r, task, Procs, live, cancelled, asked, row)
    BY OutcomeFacts
  <2>2. r \in em.procs \cup pm'.procs => r \in Procs
    BY <1>2 DEF Procs
  <2>3. QED
    BY <1>1, <2>1, <2>2 DEF Fine
<1>5. QED
  BY <1>1, <1>3, <1>4, OutcomeFacts, PumpKeepsOutcomes DEF Outcomes, Procs

LEMMA PerfFinishedKeepsOutcomes ==
    ASSUME OutcomeInv, NEW p \in Perfs, PerfFinished(p)
    PROVE  Outcomes'
<1>1. /\ p \in Runs /\ task[p].at \in Final
      /\ task' = [task EXCEPT ![p] = At("over")]
      /\ \/ row' = [row EXCEPT ![p] = IF @ = "deleted" THEN @ ELSE task[p].at]
         \/ row' = row
      /\ UNCHANGED <<em, pm, cancelled, live, asked>>
  BY DEF PerfFinished, Recorded, Runs
<1>2. Procs' = Procs
  BY <1>1 DEF Procs
<1>3. "over" \in Stage \ {"starting"} /\ task[p].at # "pumping"
  BY <1>1 DEF Stage, Final
<1>4. /\ Fine(p, task, Procs, live, cancelled, asked, row)
      /\ row \in [Runs -> Final \cup {"none", "queued", "running", "deleted"}]
  BY <1>1, OutcomeFacts
<1>5. task'[p].at = "over" => Fine(p, task', Procs', live', cancelled', asked', row')
  BY <1>1, <1>2, <1>4 DEF Fine, Final
<1>6. \A s \in Runs \ {p} : row'[s] = row[s]
  BY <1>1, <1>4
<1>7. QED
  BY <1>1, <1>2, <1>3, <1>5, <1>6, MoveKeepsOutcomes

\* The steps that move no coroutine.
LEMMA SharedActionsKeepOutcomes ==
    ASSUME OutcomeInv, NEW r \in Runs,
           CancelRunning(r) \/ DeleteRow(r) \/ ProcExits(r)
    PROVE  Outcomes'
<1>1. task' = task /\ Procs' = Procs /\ Links(task')
  BY OutcomeFacts DEF CancelRunning, DeleteRow, ProcExits, Procs
<1>2. ASSUME NEW s \in Runs
      PROVE  Fine(s, task', Procs', live', cancelled', asked', row')
  <2>1. /\ Fine(s, task, Procs, live, cancelled, asked, row)
        /\ row \in [Runs -> Final \cup {"none", "queued", "running", "deleted"}]
    BY OutcomeFacts
  <2>2. CASE CancelRunning(r)
    <3>1. /\ r \in Procs /\ cancelled' = cancelled \cup {r} /\ asked' = asked \cup {r}
          /\ UNCHANGED <<live, row>>
      BY <2>2 DEF CancelRunning, Procs
    <3>2. QED
      BY <1>1, <2>1, <3>1 DEF Fine, Final
  <2>3. CASE DeleteRow(r)
    BY <1>1, <2>1, <2>3 DEF DeleteRow, Fine, Final
  <2>4. CASE ProcExits(r)
    BY <1>1, <2>1, <2>4 DEF ProcExits, Fine
  <2>5. QED
    BY <2>2, <2>3, <2>4
<1>3. QED
  BY <1>1, <1>2 DEF Outcomes

LEMMA InitOutcomes == Init => OutcomeInv
<1> SUFFICES ASSUME Init PROVE OutcomeInv
  OBVIOUS
<1>1. BooksInv
  BY InitBooks
<1>2. /\ \A r \in Runs : task[r].at = "new" /\ row[r] = "none"
      /\ Procs = {} /\ live = {} /\ asked = {}
  BY DEF Init, At, Procs, Empty, Idle
<1>3. \A r \in Runs : Fine(r, task, Procs, live, cancelled, asked, row)
  BY <1>2 DEF Fine, Final
<1>4. Links(task)
  BY <1>2 DEF Links, Waits, Runs
<1>5. QED
  BY <1>1, <1>3, <1>4 DEF OutcomeInv, Outcomes

LEMMA NextKeepsOutcomes ==
    ASSUME OutcomeInv, [Next]_vars, restarts' = 0
    PROVE  OutcomeInv'
<1>1. BooksInv'
  BY NextKeepsBooks DEF OutcomeInv
<1>2. ASSUME NEW x \in Evals, EvalStart(x) \/ CancelQueued(x) \/ EvalStep(x)
      PROVE  Outcomes'
  BY <1>2, EvalStartKeepsOutcomes, CancelQueuedKeepsOutcomes, StartedKeepsOutcomes,
     StartedRaisesKeepsOutcomes, WatchEvalKeepsOutcomes, EvalFinishedKeepsOutcomes,
     DroppedKeepsOutcomes DEF EvalStep
<1>3. ASSUME NEW p \in Perfs, PerfStart(p) \/ PerfStep(p)
      PROVE  Outcomes'
  BY <1>3, PerfStartKeepsOutcomes, PerfLaunchedKeepsOutcomes, WatchPerfKeepsOutcomes,
     PerfFinishedKeepsOutcomes DEF PerfStep
<1>4. ASSUME NEW r \in Runs, CancelRunning(r) \/ DeleteRow(r) \/ ProcExits(r)
      PROVE  Outcomes'
  BY <1>4, SharedActionsKeepOutcomes
<1>5. ASSUME NEW b \in Budgets, SetBudget(b)
      PROVE  Outcomes'
  BY <1>5, SetBudgetKeepsOutcomes
<1>6. ~Restart
  BY DEF Restart, OutcomeInv, BooksInv, TypeOK
<1>7. ASSUME UNCHANGED vars PROVE Outcomes'
  BY <1>7 DEF vars, OutcomeInv, Outcomes, Procs
<1>8. Outcomes'
  BY <1>2, <1>3, <1>4, <1>5, <1>6, <1>7 DEF Next
<1>9. QED
  BY <1>1, <1>8 DEF OutcomeInv

\* Only a restart of the backend counts one.
LEMMA RestartsCounted ==
    ASSUME TypeOK, [Next]_vars, restarts' = 0
    PROVE  restarts = 0
<1>1. ASSUME NEW x \in Evals, EvalStart(x) \/ CancelQueued(x) \/ EvalStep(x)
      PROVE  restarts' = restarts
  BY <1>1 DEF EvalStart, CancelQueued, EvalStep, Started, StartedRaises, WatchEval,
     EvalFinished, Dropped
<1>2. ASSUME NEW p \in Perfs, PerfStart(p) \/ PerfStep(p)
      PROVE  restarts' = restarts
  BY <1>2 DEF PerfStart, PerfStep, PerfLaunched, WatchPerf, PerfFinished
<1>3. ASSUME NEW r \in Runs, CancelRunning(r) \/ DeleteRow(r) \/ ProcExits(r)
      PROVE  restarts' = restarts
  BY <1>3 DEF CancelRunning, DeleteRow, ProcExits
<1>4. ASSUME NEW b \in Budgets, SetBudget(b)
      PROVE  restarts' = restarts
  BY <1>4 DEF SetBudget
<1>5. ~Restart
  BY DEF Restart, TypeOK
<1>6. ASSUME UNCHANGED vars PROVE restarts' = restarts
  BY <1>6 DEF vars
<1>7. restarts' = restarts
  BY <1>1, <1>2, <1>3, <1>4, <1>5, <1>6 DEF Next
<1>8. QED
  BY <1>7

\* The invariant of this module: the books always, the outcomes until the
\* backend restarts.
UntilRestart == BooksInv /\ (restarts = 0 => OutcomeInv)

THEOREM OutcomesInvariant == Spec => []UntilRestart
<1>1. Init => UntilRestart
  BY InitOutcomes DEF UntilRestart, OutcomeInv
<1>2. ASSUME UntilRestart, [Next]_vars PROVE UntilRestart'
  <2>1. BooksInv'
    BY <1>2, NextKeepsBooks DEF UntilRestart
  <2>2. ASSUME restarts' = 0 PROVE OutcomeInv'
    <3>1. restarts = 0
      BY <1>2, <2>2, RestartsCounted DEF UntilRestart, BooksInv
    <3>2. QED
      BY <1>2, <2>2, <3>1, NextKeepsOutcomes DEF UntilRestart
  <2>3. QED
    BY <2>1, <2>2 DEF UntilRestart
<1>3. QED
  BY <1>1, <1>2, PTL DEF Spec

\* Until the backend restarts, a run recorded as completed, failed or cancelled
\* has no process: the row is written only by those who saw it end.
THEOREM FinishedRunsAreDead == Spec => []FinishedIsDead
<1>1. UntilRestart => FinishedIsDead
  BY DEF UntilRestart, OutcomeInv, Outcomes, FinishedIsDead, OutcomeIsDead, Fine,
     BooksInv, TypeOK
<1>2. QED
  BY <1>1, OutcomesInvariant, PTL

\* Until the backend restarts, a run whose cancel was accepted is recorded as
\* cancelled or not at all, whatever its process did meanwhile.
THEOREM CancelsStick == Spec => []CancelSticks
<1>1. UntilRestart => CancelSticks
  BY DEF UntilRestart, OutcomeInv, Outcomes, CancelSticks, Fine, BooksInv, TypeOK
<1>2. QED
  BY <1>1, OutcomesInvariant, PTL

-----------------------------------------------------------------------------
(***************************************************************************)
(* A recorded outcome is never overwritten, however often the backend      *)
(* restarts: a run whose row is final has no coroutine left that could     *)
(* write it, and a boot touches only the rows that were not final.         *)
(***************************************************************************)

Settled(tasks, rows) ==
    \A r \in Runs : /\ rows[r] \in Final => tasks[r].at = "over"
                    /\ tasks[r].at = "new" => rows[r] = "none"

SettledInv == BooksInv /\ Links(task) /\ Settled(task, row)

\* The load test a pump runs for waits for nothing else.
Resumable(owner, tasks) ==
    owner # None => tasks[owner].at \in {"watched", "pumping"} /\ ~Waits(tasks, owner)

\* The coroutines a pump moves: the run it launches and the load test it runs for.
LEMMA PumpMoves ==
    ASSUME NEW owner \in Perfs \cup {None}, NEW tasks \in Tasks, NEW books \in EvalBooks,
           Agree(books, tasks), Pump(owner, tasks, books)
    PROVE  \/ \E x \in Evals :
                 /\ tasks[x].at = "waiting"
                 /\ \A s \in Runs \ {x, owner} : task'[s] = tasks[s]
                 /\ \/ /\ task'[x] = [at |-> "starting", for |-> owner]
                       /\ owner # None => task'[owner].at = "pumping"
                    \/ /\ task'[x].at = "over"
                       /\ owner # None => task'[owner].at = "over"
           \/ \E v \in Final :
                 /\ \A s \in Runs \ {owner} : task'[s] = tasks[s]
                 /\ owner # None => task'[owner].at = v
<1> DEFINE x == Head(books.queue)
<1>1. CASE Admits(books) /\ Launch(x, owner, tasks, books)
  <2>1. x \in Evals /\ tasks[x].at = "waiting"
    BY <1>1, PoppedRuns DEF Admits, EvalBooks, Agree
  <2>2. /\ {"pumping", "over"} \subseteq Stage
        /\ x # owner /\ x \in Runs /\ (owner # None => owner \in Runs)
    BY <2>1, LaunchFacts DEF Stage, Runs
  <2> HIDE DEF x
  <2>3. ASSUME NEW stage \in {"pumping", "over"}, NEW t,
               task' = [Caller(owner, tasks, stage) EXCEPT ![x] = t]
        PROVE  /\ task'[x] = t
               /\ \A s \in Runs \ {x, owner} : task'[s] = tasks[s]
               /\ owner # None => task'[owner].at = stage
    <3>1. /\ Caller(owner, tasks, stage) \in Tasks
          /\ \A s \in Runs \ {owner} : Caller(owner, tasks, stage)[s] = tasks[s]
          /\ owner # None => Caller(owner, tasks, stage)[owner].at = stage
      BY <2>1, <2>2, LaunchFacts
    <3>2. QED
      BY <2>2, <2>3, <3>1 DEF Tasks
  <2>4. \/ task' = [Caller(owner, tasks, "pumping")
                      EXCEPT ![x] = [at |-> "starting", for |-> owner]]
        \/ task' = [Caller(owner, tasks, "over") EXCEPT ![x] = At("over")]
    BY <1>1 DEF Launch
  <2>5. At("over").at = "over"
    BY DEF At
  <2>6. QED
    BY <2>1, <2>3, <2>4, <2>5
<1>2. CASE \E v \in Verdicts(owner) : task' = Caller(owner, tasks, v)
  <2>1. PICK v \in Verdicts(owner) : task' = Caller(owner, tasks, v)
    BY <1>2
  <2>2. v \in Final /\ v \in Stage
    BY DEF Verdicts, Final, Stage
  <2>3. /\ \A s \in Runs \ {owner} : Caller(owner, tasks, v)[s] = tasks[s]
        /\ owner # None => Caller(owner, tasks, v)[owner].at = v
    <3>1. owner # None => Caller(owner, tasks, v)[owner].at = v
      BY DEF Caller, Tasks, Runs, At
    <3>2. QED
      BY <2>2, <3>1, CallerMoves, Zenon
  <2>4. QED
    BY <2>1, <2>2, <2>3
<1>3. QED
  BY <1>1, <1>2 DEF Pump

LEMMA PumpKeepsSettled ==
    ASSUME NEW owner \in Perfs \cup {None}, NEW tasks \in Tasks, NEW books \in EvalBooks,
           Agree(books, tasks), Pump(owner, tasks, books),
           Links(tasks), Resumable(owner, tasks), Settled(tasks, row')
    PROVE  Links(task') /\ Settled(task', row')
<1>1. /\ owner # None => owner \in Runs /\ owner \notin Evals
      /\ \A p \in Perfs : p \in Runs /\ p \notin Evals /\ p # None
      /\ \A y \in Evals : y \in Runs /\ y # owner
      /\ owner \notin Runs => owner = None
      /\ None \notin Runs
  BY RunsAssumption DEF Runs
<1>2. ASSUME NEW x \in Evals, tasks[x].at = "waiting",
             \A s \in Runs \ {x, owner} : task'[s] = tasks[s],
             task'[x] = [at |-> "starting", for |-> owner],
             owner # None => task'[owner].at = "pumping"
      PROVE  Links(task') /\ Settled(task', row')
  <2>1. \A y \in Evals \ {x} : task'[y] = tasks[y]
    BY <1>1, <1>2
  <2>2. task'[x].at = "starting" /\ task'[x].for = owner
    BY <1>2
  <2>3. ASSUME NEW p \in Perfs, Waits(task', p)
        PROVE  task'[p].at = "pumping"
    <3>1. CASE p = owner
      BY <1>1, <1>2, <3>1
    <3>2. CASE p # owner
      <4>1. Waits(tasks, p)
        BY <2>1, <2>2, <2>3, <3>2 DEF Waits
      <4>2. task'[p] = tasks[p]
        BY <1>1, <1>2, <3>2
      <4>3. QED
        BY <4>1, <4>2 DEF Links
    <3>3. QED
      BY <3>1, <3>2
  <2>4. ASSUME NEW y \in Evals, NEW z \in Evals,
               task'[y].at = "starting", task'[z].at = "starting",
               task'[y].for = task'[z].for, task'[y].for # None
        PROVE  y = z
    <3>1. CASE y # x /\ z # x
      BY <2>1, <2>4, <3>1 DEF Links
    <3>2. CASE (y = x) # (z = x)
      BY <2>1, <2>2, <2>4, <3>2 DEF Resumable, Waits
    <3>3. QED
      BY <3>1, <3>2
  <2>5. ASSUME NEW r \in Runs
        PROVE  /\ row'[r] \in Final => task'[r].at = "over"
               /\ task'[r].at = "new" => row'[r] = "none"
    <3>1. /\ row'[r] \in Final => tasks[r].at = "over"
          /\ tasks[r].at = "new" => row'[r] = "none"
      BY DEF Settled
    <3>2. CASE r \in {x, owner}
      BY <1>1, <1>2, <3>1, <3>2 DEF Resumable
    <3>3. CASE r \notin {x, owner}
      BY <1>2, <3>1, <3>3
    <3>4. QED
      BY <3>2, <3>3
  <2>6. QED
    BY <2>3, <2>4, <2>5 DEF Links, Settled
<1>3. ASSUME NEW gone, gone \in Evals => tasks[gone].at = "waiting",
             \A s \in Runs \ {gone, owner} : task'[s] = tasks[s],
             gone \in Evals => task'[gone].at = "over",
             gone \notin Evals => gone = None,
             owner # None => task'[owner].at \in Final \cup {"over"}
      PROVE  Links(task') /\ Settled(task', row')
  <2>1. \A y \in Evals : task'[y].at = "starting" => y # gone /\ task'[y] = tasks[y]
    BY <1>1, <1>3
  <2>2. ASSUME NEW p \in Perfs, Waits(task', p)
        PROVE  task'[p].at = "pumping"
    <3>1. Waits(tasks, p)
      BY <2>1, <2>2 DEF Waits
    <3>2. p # owner
      BY <1>1, <3>1 DEF Resumable
    <3>3. task'[p] = tasks[p]
      BY <1>1, <1>3, <3>2
    <3>4. QED
      BY <3>1, <3>3 DEF Links
  <2>3. Links(task')
    BY <2>1, <2>2 DEF Links
  <2>4. ASSUME NEW r \in Runs
        PROVE  /\ row'[r] \in Final => task'[r].at = "over"
               /\ task'[r].at = "new" => row'[r] = "none"
    <3>1. /\ row'[r] \in Final => tasks[r].at = "over"
          /\ tasks[r].at = "new" => row'[r] = "none"
      BY DEF Settled
    <3>2. CASE r = owner
      BY <1>1, <1>3, <3>1, <3>2 DEF Resumable, Final
    <3>3. CASE r = gone
      BY <1>1, <1>3, <3>1, <3>3
    <3>4. CASE r \notin {gone, owner}
      BY <1>3, <3>1, <3>4
    <3>5. QED
      BY <3>2, <3>3, <3>4
  <2>5. QED
    BY <2>3, <2>4 DEF Settled
<1>4. CASE \E x \in Evals :
              /\ tasks[x].at = "waiting"
              /\ \A s \in Runs \ {x, owner} : task'[s] = tasks[s]
              /\ \/ /\ task'[x] = [at |-> "starting", for |-> owner]
                    /\ owner # None => task'[owner].at = "pumping"
                 \/ /\ task'[x].at = "over"
                    /\ owner # None => task'[owner].at = "over"
  <2>1. PICK x \in Evals :
              /\ tasks[x].at = "waiting"
              /\ \A s \in Runs \ {x, owner} : task'[s] = tasks[s]
              /\ \/ /\ task'[x] = [at |-> "starting", for |-> owner]
                    /\ owner # None => task'[owner].at = "pumping"
                 \/ /\ task'[x].at = "over"
                    /\ owner # None => task'[owner].at = "over"
    BY <1>4
  <2>2. CASE task'[x] = [at |-> "starting", for |-> owner]
             /\ (owner # None => task'[owner].at = "pumping")
    BY <1>2, <2>1, <2>2
  <2>3. CASE task'[x].at = "over" /\ (owner # None => task'[owner].at = "over")
    <3>1. x \in Evals
      OBVIOUS
    <3>2. QED
      BY <1>3, <2>1, <2>3, <3>1
  <2>4. QED
    BY <2>1, <2>2, <2>3
<1>5. CASE \E v \in Final :
              /\ \A s \in Runs \ {owner} : task'[s] = tasks[s]
              /\ owner # None => task'[owner].at = v
  <2>1. /\ \A s \in Runs \ {None, owner} : task'[s] = tasks[s]
        /\ owner # None => task'[owner].at \in Final \cup {"over"}
        /\ None \notin Evals
    BY <1>5, RunsAssumption DEF Runs
  <2>2. QED
    BY <1>3, <2>1
<1>6. QED
  BY <1>4, <1>5, PumpMoves

-----------------------------------------------------------------------------

LEMMA SettledFacts ==
    ASSUME SettledInv
    PROVE  /\ em \in EvalBooks /\ pm \in PerfBooks /\ task \in Tasks
           /\ row \in [Runs -> Final \cup {"none", "queued", "running", "deleted"}]
           /\ Agree(em, task) /\ Links(task) /\ Settled(task, row)
BY DEF SettledInv, BooksInv, TypeOK, Books

\* What a step must show of the rows it writes.
RowStays(r) == row[r] \in Final => row'[r] \in {row[r], "deleted"}

\* A step that moves one task to a stage, and whose row is final only when that
\* stage is the last one.
LEMMA MoveKeepsSettled ==
    ASSUME SettledInv, NEW r \in Runs, NEW stage \in Stage \ {"starting"},
           stage # "new", task[r].at # "over",
           r \in Perfs => task[r].at # "pumping",
           task' = [task EXCEPT ![r] = At(stage)],
           \A s \in Runs \ {r} : row'[s] = row[s],
           row'[r] \in Final => stage = "over" \/ row'[r] = row[r]
    PROVE  Links(task') /\ Settled(task', row') /\ \A s \in Runs : RowStays(s)
<1>1. task'[r].at = stage /\ \A s \in Runs \ {r} : task'[s] = task[s]
  BY SettledFacts DEF Tasks, At
<1>2. Links(task')
  BY SettledFacts, MoveKeepsLinks
<1>3. Settled(task, row)
  BY SettledFacts
<1>4. Settled(task', row')
  BY <1>1, <1>3 DEF Settled
<1>5. \A s \in Runs : RowStays(s)
  BY <1>3 DEF Settled, RowStays
<1>6. QED
  BY <1>2, <1>4, <1>5

\* A step that writes one row and then pumps, for a run whose coroutine it
\* moved to a stage first.
LEMMA MovePumpKeepsSettled ==
    ASSUME SettledInv, NEW x \in Evals, NEW stage \in Stage \ {"starting"},
           stage # "new", task[x].at # "over", NEW books \in EvalBooks,
           Agree(books, [task EXCEPT ![x] = At(stage)]),
           NEW owner \in Perfs \cup {None},
           Resumable(owner, [task EXCEPT ![x] = At(stage)]),
           Pump(owner, [task EXCEPT ![x] = At(stage)], books),
           \A s \in Runs \ {x} : row'[s] = row[s],
           row'[x] \in Final => stage = "over" \/ row'[x] = row[x]
    PROVE  Links(task') /\ Settled(task', row') /\ \A s \in Runs : RowStays(s)
<1> DEFINE tasks == [task EXCEPT ![x] = At(stage)]
<1>1. x \in Runs /\ x \notin Perfs
  BY RunsAssumption DEF Runs
<1>2. /\ tasks \in Tasks /\ tasks[x].at = stage
      /\ \A s \in Runs \ {x} : tasks[s] = task[s]
      /\ Links(tasks)
  BY <1>1, SettledFacts, TaskMoves, MoveKeepsLinks
<1> HIDE DEF tasks
<1>3. Settled(task, row)
  BY SettledFacts
<1>4. Settled(tasks, row')
  BY <1>1, <1>2, <1>3 DEF Settled
<1>5. \A s \in Runs : RowStays(s)
  BY <1>1, <1>3 DEF Settled, RowStays
<1>6. QED
  BY <1>2, <1>4, <1>5, PumpKeepsSettled DEF tasks

LEMMA EvalStartKeepsSettled ==
    ASSUME SettledInv, NEW x \in Evals, EvalStart(x)
    PROVE  Links(task') /\ Settled(task', row') /\ \A s \in Runs : RowStays(s)
<1> DEFINE books == [em EXCEPT !.queue = Append(@, x), !.pending = @ \cup {x},
                               !.batch = @ \cup {x}]
           tasks == [task EXCEPT ![x] = At("waiting")]
<1>1. /\ task[x].at = "new" /\ x \in Runs
      /\ row' = [row EXCEPT ![x] = "queued"]
      /\ Pump(None, tasks, books)
  BY DEF EvalStart, Runs
<1>2. "waiting" \in Stage \ {"starting"} /\ "queued" \notin Final
  BY DEF Stage, Final
<1>3. /\ tasks \in Tasks /\ tasks[x].at = "waiting"
      /\ \A s \in Runs \ {x} : tasks[s] = task[s]
  BY <1>1, <1>2, SettledFacts, TaskMoves
<1>4. /\ Append(em.queue, x) \in Seq(Evals)
      /\ IsInjective(Append(em.queue, x))
      /\ ToSet(Append(em.queue, x)) = em.pending \cup {x}
      /\ x \notin em.procs
  BY <1>1, SettledFacts, AppendedRun DEF EvalBooks, Agree
<1>5. /\ books \in EvalBooks
      /\ books.queue = Append(em.queue, x)
      /\ books.pending = em.pending \cup {x}
      /\ books.batch = em.batch \cup {x}
      /\ books.procs = em.procs
  BY <1>1, <1>4, SettledFacts DEF EvalBooks
<1> HIDE DEF books
<1>6. Agree(books, tasks)
  <2> HIDE DEF tasks
  <2> QED
    BY <1>1, <1>3, <1>4, <1>5, SettledFacts DEF Agree, Runs
<1>7. /\ \A s \in Runs \ {x} : row'[s] = row[s]
      /\ row'[x] = "queued"
  BY <1>1, SettledFacts
<1>8. Resumable(None, tasks)
  BY DEF Resumable
<1>9. QED
  BY <1>1, <1>2, <1>5, <1>6, <1>7, <1>8, MovePumpKeepsSettled

LEMMA StartedKeepsSettled ==
    ASSUME SettledInv, NEW x \in Evals, Started(x)
    PROVE  Links(task') /\ Settled(task', row') /\ \A s \in Runs : RowStays(s)
<1> DEFINE tasks == [task EXCEPT ![x] = At("watched")]
           owner == task[x].for
<1>1. /\ task[x].at = "starting" /\ x \in Runs /\ x \notin Perfs
      /\ row' = [row EXCEPT ![x] = IF @ = "queued" THEN "running" ELSE @]
      /\ Pump(owner, tasks, em)
  BY RunsAssumption DEF Started, Runs
<1>2. "watched" \in Stage \ {"starting"} /\ "running" \notin Final
  BY DEF Stage, Final
<1>3. /\ tasks[x].at = "watched"
      /\ \A s \in Runs \ {x} : tasks[s] = task[s]
  BY <1>1, <1>2, SettledFacts, TaskMoves
<1>4. owner \in Perfs \cup {None}
  BY <1>1, SettledFacts DEF Tasks
<1>5. Agree(em, tasks)
  <2> HIDE DEF tasks
  <2> QED
    BY <1>1, <1>3, SettledFacts DEF Agree, Runs
<1>6. Resumable(owner, tasks)
  <2> HIDE DEF tasks
  <2> SUFFICES ASSUME owner # None
               PROVE  tasks[owner].at \in {"watched", "pumping"} /\ ~Waits(tasks, owner)
    BY DEF Resumable
  <2>1. owner \in Perfs /\ owner \in Runs /\ owner # x
    BY <1>1, <1>4 DEF Runs
  <2>2. tasks[owner].at = "pumping"
    BY <1>1, <1>3, <2>1, SettledFacts DEF Waits, Links
  <2>3. ASSUME NEW y \in Evals, tasks[y].at = "starting", tasks[y].for = owner
        PROVE  FALSE
    <3>1. y # x /\ y \in Runs /\ tasks[y] = task[y]
      BY <1>3, <2>3 DEF Runs
    <3>2. QED
      BY <1>1, <2>3, <3>1, SettledFacts DEF Links
  <2>4. QED
    BY <2>2, <2>3 DEF Waits
<1>7. /\ \A s \in Runs \ {x} : row'[s] = row[s]
      /\ row'[x] \in {row[x], "running"}
  BY <1>1, SettledFacts
<1>8. task[x].at # "over" /\ em \in EvalBooks
  BY <1>1, SettledFacts
<1> HIDE DEF owner
<1>9. QED
  BY <1>1, <1>2, <1>4, <1>5, <1>6, <1>7, <1>8, MovePumpKeepsSettled

LEMMA StartedRaisesKeepsSettled ==
    ASSUME SettledInv, NEW x \in Evals, StartedRaises(x)
    PROVE  Links(task') /\ Settled(task', row') /\ \A s \in Runs : RowStays(s)
<1> DEFINE owner == task[x].for
           c == Caller(owner, task, "over")
<1>1. /\ task[x].at = "starting" /\ x \in Runs /\ x \notin Perfs
      /\ task' = [c EXCEPT ![x] = At("over")]
      /\ row' = row
  BY RunsAssumption DEF StartedRaises, Runs
<1>2. owner \in Perfs \cup {None} /\ "over" \in Stage
  BY <1>1, SettledFacts DEF Tasks, Stage
<1>3. /\ c \in Tasks
      /\ \A s \in Runs \ {owner} : c[s] = task[s]
      /\ owner # None => c[owner].at = "over"
  BY <1>2, SettledFacts, LaunchFacts
<1> HIDE DEF c
<1>4. /\ task'[x].at = "over"
      /\ \A s \in Runs \ {owner, x} : task'[s] = task[s]
      /\ owner # None => task'[owner].at = "over"
  BY <1>1, <1>2, <1>3 DEF Tasks, At
<1>5. \A y \in Evals : task'[y].at = "starting" => y # x /\ task'[y] = task[y]
  BY <1>1, <1>2, <1>4, RunsAssumption DEF Runs
<1>6. ASSUME NEW p \in Perfs, Waits(task', p)
      PROVE  task'[p].at = "pumping"
  <2>1. PICK y \in Evals : task'[y].at = "starting" /\ task'[y].for = p
    BY <1>6 DEF Waits
  <2>2. y # x /\ task[y].at = "starting" /\ task[y].for = p /\ p # None
    BY <1>5, <2>1, RunsAssumption DEF Runs
  <2>3. p # owner
    BY <1>1, <2>2, SettledFacts DEF Links
  <2>4. task'[p] = task[p]
    BY <1>1, <1>4, <2>3 DEF Runs
  <2>5. QED
    BY <2>2, <2>4, SettledFacts DEF Links, Waits
<1>7. Links(task')
  BY <1>5, <1>6, SettledFacts DEF Links
<1>8. Settled(task', row')
  <2>1. \A r \in Runs : /\ task[r].at = "over" => task'[r].at = "over"
                        /\ task'[r].at = "new" => task[r].at = "new"
    BY <1>2, <1>4, RunsAssumption DEF Runs
  <2>2. QED
    BY <1>1, <2>1, SettledFacts DEF Settled
<1>9. QED
  BY <1>1, <1>7, <1>8 DEF RowStays

LEMMA EvalFinishedKeepsSettled ==
    ASSUME SettledInv, NEW x \in Evals, EvalFinished(x)
    PROVE  Links(task') /\ Settled(task', row') /\ \A s \in Runs : RowStays(s)
<1> DEFINE tasks == [task EXCEPT ![x] = At("over")]
<1>1. /\ task[x].at \in Final /\ x \in Runs
      /\ \/ row' = [row EXCEPT ![x] = IF @ = "deleted" THEN @ ELSE task[x].at]
         \/ row' = row
      /\ Pump(None, tasks, em)
  BY DEF EvalFinished, Recorded, Runs
<1>2. "over" \in Stage \ {"starting"} /\ task[x].at # "over"
  BY <1>1 DEF Stage, Final
<1>3. /\ tasks[x].at = "over"
      /\ \A s \in Runs \ {x} : tasks[s] = task[s]
  BY <1>1, <1>2, SettledFacts, TaskMoves
<1>4. Agree(em, tasks)
  <2> HIDE DEF tasks
  <2> QED
    BY <1>1, <1>3, SettledFacts DEF Agree, Runs, Final
<1>5. \A s \in Runs \ {x} : row'[s] = row[s]
  BY <1>1, SettledFacts
<1>6. Resumable(None, tasks)
  BY DEF Resumable
<1>7. em \in EvalBooks
  BY SettledFacts
<1>8. QED
  BY <1>1, <1>2, <1>4, <1>5, <1>6, <1>7, MovePumpKeepsSettled

LEMMA WatchEvalKeepsSettled ==
    ASSUME SettledInv, NEW x \in Evals, WatchEval(x)
    PROVE  Links(task') /\ Settled(task', row') /\ \A s \in Runs : RowStays(s)
<1>1. /\ task[x].at = "watched" /\ x \in Runs /\ x \notin Perfs /\ row' = row
  BY RunsAssumption DEF WatchEval, Runs
<1>2. PICK v \in Verdicts(x) : task' = [task EXCEPT ![x] = At(v)]
  BY DEF WatchEval
<1>3. v \in Stage \ {"starting"} /\ v # "new"
  BY DEF Verdicts, Final, Stage
<1>4. QED
  BY <1>1, <1>2, <1>3, MoveKeepsSettled

LEMMA CancelQueuedKeepsSettled ==
    ASSUME SettledInv, NEW x \in Evals, CancelQueued(x)
    PROVE  Links(task') /\ Settled(task', row') /\ \A s \in Runs : RowStays(s)
<1>1. PICK i \in DOMAIN em.queue :
        /\ em.queue[i] = x
        /\ task' = [task EXCEPT ![x] = At("dropping")]
        /\ row' = row
  BY DEF CancelQueued
<1>2. x \in Runs /\ x \notin Perfs /\ task[x].at = "waiting"
  BY <1>1, SettledFacts, RunsAssumption DEF Agree, ToSet, Runs
<1>3. "dropping" \in Stage \ {"starting"}
  BY DEF Stage
<1>4. QED
  BY <1>1, <1>2, <1>3, MoveKeepsSettled

LEMMA DroppedKeepsSettled ==
    ASSUME SettledInv, NEW x \in Evals, Dropped(x)
    PROVE  Links(task') /\ Settled(task', row') /\ \A s \in Runs : RowStays(s)
<1>1. /\ x \in Runs /\ x \notin Perfs /\ task[x].at = "dropping"
      /\ task' = [task EXCEPT ![x] = At("over")]
      /\ \/ row' = [row EXCEPT ![x] = IF @ = "deleted" THEN @ ELSE "cancelled"]
         \/ row' = row
  BY RunsAssumption DEF Dropped, Runs
<1>2. "over" \in Stage \ {"starting"}
  BY DEF Stage
<1>3. \A s \in Runs \ {x} : row'[s] = row[s]
  BY <1>1, SettledFacts
<1>4. QED
  BY <1>1, <1>2, <1>3, MoveKeepsSettled

LEMMA SetBudgetKeepsSettled ==
    ASSUME SettledInv, NEW b \in Budgets, SetBudget(b)
    PROVE  Links(task') /\ Settled(task', row') /\ \A s \in Runs : RowStays(s)
<1>1. Pump(None, task, em) /\ row' = row
  BY DEF SetBudget
<1>2. Resumable(None, task)
  BY DEF Resumable
<1>3. QED
  BY <1>1, <1>2, SettledFacts, PumpKeepsSettled DEF RowStays

LEMMA PerfActionsKeepSettled ==
    ASSUME SettledInv, NEW p \in Perfs, PerfStart(p) \/ PerfStep(p)
    PROVE  Links(task') /\ Settled(task', row') /\ \A s \in Runs : RowStays(s)
<1>1. /\ p \in Runs /\ {"creating", "watched", "over"} \subseteq Stage \ {"starting"}
      /\ "running" \notin Final
  BY DEF Runs, Stage, Final
<1>2. CASE PerfStart(p)
  BY <1>1, <1>2, MoveKeepsSettled DEF PerfStart
<1>3. CASE PerfLaunched(p)
  <2>1. /\ task[p].at = "creating"
        /\ row' = [row EXCEPT ![p] = "running"]
        /\ \/ task' = [task EXCEPT ![p] = At("watched")]
           \/ task' = [task EXCEPT ![p] = At("over")]
    BY <1>3 DEF PerfLaunched
  <2>2. row'[p] = "running" /\ \A s \in Runs \ {p} : row'[s] = row[s]
    BY <1>1, <2>1, SettledFacts
  <2>3. QED
    BY <1>1, <2>1, <2>2, MoveKeepsSettled
<1>4. CASE WatchPerf(p)
  <2>1. task[p].at = "watched" /\ row' = row /\ Pump(p, task, em)
    BY <1>4 DEF WatchPerf
  <2>2. Resumable(p, task)
    BY <2>1, SettledFacts DEF Resumable, Links
  <2>3. QED
    BY <2>1, <2>2, SettledFacts, PumpKeepsSettled DEF RowStays
<1>5. CASE PerfFinished(p)
  <2>1. /\ task[p].at \in Final /\ task[p].at \notin {"over", "pumping"}
        /\ task' = [task EXCEPT ![p] = At("over")]
        /\ \/ row' = [row EXCEPT ![p] = IF @ = "deleted" THEN @ ELSE task[p].at]
           \/ row' = row
    BY <1>5 DEF PerfFinished, Recorded, Final
  <2>2. \A s \in Runs \ {p} : row'[s] = row[s]
    BY <2>1, SettledFacts
  <2>3. QED
    BY <1>1, <2>1, <2>2, MoveKeepsSettled
<1>6. QED
  BY <1>2, <1>3, <1>4, <1>5 DEF PerfStep

LEMMA SharedActionsKeepSettled ==
    ASSUME SettledInv, NEW r \in Runs,
           CancelRunning(r) \/ DeleteRow(r) \/ ProcExits(r)
    PROVE  Links(task') /\ Settled(task', row') /\ \A s \in Runs : RowStays(s)
<1>1. /\ task' = task
      /\ row' = row \/ row' = [row EXCEPT ![r] = "deleted"]
  BY DEF CancelRunning, DeleteRow, ProcExits
<1>2. \A s \in Runs : /\ row'[s] \in {row[s], "deleted"}
                      /\ row[s] = "none" => row'[s] = "none"
  BY <1>1, SettledFacts DEF CancelRunning, DeleteRow, ProcExits
<1>3. QED
  BY <1>1, <1>2, SettledFacts DEF Settled, RowStays, Final

LEMMA RestartKeepsSettled ==
    ASSUME SettledInv, Restart
    PROVE  Links(task') /\ Settled(task', row') /\ \A s \in Runs : RowStays(s)
<1>1. \A r \in Runs : /\ task'[r].at \in {"new", "over"}
                      /\ task'[r].at = "new" => task[r].at = "new"
                      /\ row'[r] \in {row[r], "failed"}
                      /\ row[r] \in Final \cup {"none"} => row'[r] = row[r]
  BY DEF Restart, At, Final
<1>2. Links(task')
  BY <1>1 DEF Links, Waits, Runs
<1>3. QED
  BY <1>1, <1>2, SettledFacts DEF Settled, RowStays

LEMMA InitSettled == Init => SettledInv
<1> SUFFICES ASSUME Init PROVE SettledInv
  OBVIOUS
<1>1. \A r \in Runs : task[r].at = "new" /\ row[r] = "none"
  BY DEF Init, At
<1>2. QED
  BY <1>1, InitBooks DEF SettledInv, Settled, Links, Waits, Runs, Final

LEMMA NextKeepsSettled ==
    ASSUME SettledInv, [Next]_vars
    PROVE  SettledInv' /\ \A s \in Runs : RowStays(s)
<1> DEFINE Kept == Links(task') /\ Settled(task', row') /\ \A s \in Runs : RowStays(s)
<1>1. BooksInv'
  BY NextKeepsBooks DEF SettledInv
<1>2. ASSUME NEW x \in Evals, EvalStart(x) \/ CancelQueued(x) \/ EvalStep(x)
      PROVE  Kept
  BY <1>2, EvalStartKeepsSettled, CancelQueuedKeepsSettled, StartedKeepsSettled,
     StartedRaisesKeepsSettled, WatchEvalKeepsSettled, EvalFinishedKeepsSettled,
     DroppedKeepsSettled DEF EvalStep
<1>3. ASSUME NEW p \in Perfs, PerfStart(p) \/ PerfStep(p)
      PROVE  Kept
  BY <1>3, PerfActionsKeepSettled
<1>4. ASSUME NEW r \in Runs, CancelRunning(r) \/ DeleteRow(r) \/ ProcExits(r)
      PROVE  Kept
  BY <1>4, SharedActionsKeepSettled
<1>5. ASSUME NEW b \in Budgets, SetBudget(b)
      PROVE  Kept
  BY <1>5, SetBudgetKeepsSettled
<1>6. ASSUME UNCHANGED vars
      PROVE  Kept
  <2>1. task' = task /\ row' = row
    BY <1>6 DEF vars
  <2>2. QED
    BY <2>1, SettledFacts DEF RowStays
<1>7. ASSUME Restart
      PROVE  Kept
  BY <1>7, RestartKeepsSettled
<1> HIDE DEF Kept
<1>8. Kept
  BY <1>2, <1>3, <1>4, <1>5, <1>6, <1>7 DEF Next
<1>9. QED
  BY <1>1, <1>8 DEF SettledInv, Kept

\* A recorded outcome is never overwritten by another one: not by a late
\* verdict, a cancel, a launch or the boot after a restart.
THEOREM OutcomesAreFinal == Spec => RowsAreFinal
<1>1. Init => SettledInv
  BY InitSettled
<1>2. SettledInv /\ [Next]_vars => SettledInv'
  BY NextKeepsSettled
<1>3. SettledInv /\ [Next]_vars =>
        [\A r \in Runs : row[r] \in Final => row'[r] \in {row[r], "deleted"}]_vars
  BY NextKeepsSettled DEF RowStays
<1>4. QED
  BY <1>1, <1>2, <1>3, PTL DEF Spec, RowsAreFinal

-----------------------------------------------------------------------------
(***************************************************************************)
(* No evaluation starts beside a load test: every launch is a step of some *)
(* pump, and the pump looks at the slot in the step that launches.         *)
(***************************************************************************)

Yields == (live' \ live) \cap Evals # {} => pm'.current = None

LEMMA PumpYields ==
    ASSUME NEW owner, NEW tasks, NEW books, Pump(owner, tasks, books)
    PROVE  Yields
<1>1. CASE Admits(books)
  BY <1>1 DEF Admits, Yields
<1>2. CASE ~Admits(books)
  BY <1>2 DEF Pump, Yields
<1>3. QED
  BY <1>1, <1>2

LEMMA NextYields == ASSUME [Next]_vars PROVE Yields
<1>1. ASSUME NEW x \in Evals, EvalStart(x) \/ CancelQueued(x) \/ EvalStep(x)
      PROVE  Yields
  <2>1. CASE CancelQueued(x) \/ StartedRaises(x) \/ WatchEval(x) \/ Dropped(x)
    BY <2>1 DEF CancelQueued, StartedRaises, WatchEval, Dropped, Yields
  <2>2. CASE EvalStart(x) \/ Started(x) \/ EvalFinished(x)
    BY <2>2, PumpYields DEF EvalStart, Started, EvalFinished
  <2>3. QED
    BY <1>1, <2>1, <2>2 DEF EvalStep
<1>2. ASSUME NEW p \in Perfs, PerfStart(p) \/ PerfStep(p)
      PROVE  Yields
  <2>1. CASE PerfLaunched(p)
    BY <2>1, RunsAssumption DEF PerfLaunched, Yields
  <2>2. CASE PerfStart(p) \/ PerfFinished(p)
    BY <2>2 DEF PerfStart, PerfFinished, Yields
  <2>3. CASE WatchPerf(p)
    BY <2>3, PumpYields DEF WatchPerf
  <2>4. QED
    BY <1>2, <2>1, <2>2, <2>3 DEF PerfStep
<1>3. ASSUME NEW r \in Runs, CancelRunning(r) \/ DeleteRow(r) \/ ProcExits(r)
      PROVE  Yields
  BY <1>3 DEF CancelRunning, DeleteRow, ProcExits, Yields
<1>4. ASSUME NEW b \in Budgets, SetBudget(b)
      PROVE  Yields
  BY <1>4, PumpYields DEF SetBudget
<1>5. CASE Restart
  BY <1>5 DEF Restart, Yields
<1>6. CASE UNCHANGED vars
  BY <1>6 DEF vars, Yields
<1>7. QED
  BY <1>1, <1>2, <1>3, <1>4, <1>5, <1>6 DEF Next

\* A pump that was suspended when a load test took the slot launches nothing
\* when it resumes.
THEOREM LaunchesYield == Spec => EvalsYield
<1>1. [Next]_vars => [(live' \ live) \cap Evals # {} => pm'.current = None]_vars
  BY NextYields DEF Yields
<1>2. QED
  BY <1>1, PTL DEF Spec, EvalsYield
=============================================================================
