---------------------------- MODULE RunQueueBooks ----------------------------
(***************************************************************************)
(* The books of the run queue agree, every variable keeps its type, and a  *)
(* launch keeps the concurrency budget: for all runs, sizes and budgets,   *)
(* with restarts and all failures.                                         *)
(***************************************************************************)
EXTENDS RunQueue, SequenceTheorems, FiniteSetTheorems, WellFoundedInduction, TLAPS

(***************************************************************************)
(* What the three operations on the queue do to it.                        *)
(***************************************************************************)

\* cancel: list.remove shifts the later runs up by one.
LEMMA Removed ==
    ASSUME NEW S, NEW q \in Seq(S), NEW i \in DOMAIN q
    PROVE  /\ RemoveAt(q, i) \in Seq(S)
           /\ Len(RemoveAt(q, i)) = Len(q) - 1
           /\ \A j \in 1..(Len(q) - 1) :
                 RemoveAt(q, i)[j] = IF j < i THEN q[j] ELSE q[j + 1]
<1>1. Len(q) \in Nat /\ i \in 1..Len(q)
  OBVIOUS
<1>2. /\ SubSeq(q, 1, i - 1) \in Seq(S)
      /\ Len(SubSeq(q, 1, i - 1)) = i - 1
      /\ \A j \in 1..(i - 1) : SubSeq(q, 1, i - 1)[j] = q[j]
  BY <1>1, SMT
<1>3. /\ SubSeq(q, i + 1, Len(q)) \in Seq(S)
      /\ Len(SubSeq(q, i + 1, Len(q))) = Len(q) - i
      /\ \A j \in 1..(Len(q) - i) : SubSeq(q, i + 1, Len(q))[j] = q[i + j]
  BY <1>1, SMT
<1>4. ASSUME NEW a \in Seq(S), NEW b \in Seq(S), Len(a) = i - 1, Len(b) = Len(q) - i,
             \A j \in 1..(i - 1) : a[j] = q[j],
             \A j \in 1..(Len(q) - i) : b[j] = q[i + j]
      PROVE  /\ a \o b \in Seq(S)
             /\ Len(a \o b) = Len(q) - 1
             /\ \A j \in 1..(Len(q) - 1) :
                   (a \o b)[j] = IF j < i THEN q[j] ELSE q[j + 1]
  <2>1. /\ a \o b \in Seq(S)
        /\ Len(a \o b) = Len(a) + Len(b)
        /\ \A j \in 1..(Len(a) + Len(b)) :
              (a \o b)[j] = IF j <= Len(a) THEN a[j] ELSE b[j - Len(a)]
    BY <1>1, ConcatProperties, SMT
  <2>4. Len(a) + Len(b) = Len(q) - 1
    BY <1>1, <1>4
  <2>2. ASSUME NEW j \in 1..(Len(q) - 1)
        PROVE  (a \o b)[j] = IF j < i THEN q[j] ELSE q[j + 1]
    <3>1. CASE j < i
      <4>1. j \in 1..(Len(a) + Len(b)) /\ j <= Len(a) /\ j \in 1..(i - 1)
        BY <1>1, <1>4, <2>4, <3>1
      <4>2. (a \o b)[j] = a[j]
        BY <2>1, <4>1, Zenon
      <4>3. a[j] = q[j]
        BY <1>4, <4>1, Zenon
      <4>4. QED
        BY <3>1, <4>2, <4>3, Zenon
    <3>2. CASE ~(j < i)
      <4>1. j \in 1..(Len(a) + Len(b)) /\ ~(j <= Len(a))
        BY <1>1, <1>4, <2>4, <3>2
      <4>4. (a \o b)[j] = b[j - (i - 1)]
        BY <1>4, <2>1, <4>1, Zenon
      <4>2. j - (i - 1) \in 1..(Len(q) - i) /\ i + (j - (i - 1)) = j + 1
        BY <1>1, <3>2
      <4>3. QED
        BY <1>4, <3>2, <4>4, <4>2
    <3>3. QED
      BY <3>1, <3>2
  <2>3. QED
    BY <2>1, <2>4, <2>2, Zenon
<1>5. QED
  BY <1>2, <1>3, <1>4, Zenon DEF RemoveAt

\* The runs that wait after a cancel: all but the one removed, each once.
LEMMA RemovedRuns ==
    ASSUME NEW S, NEW q \in Seq(S), IsInjective(q), NEW i \in DOMAIN q
    PROVE  /\ RemoveAt(q, i) \in Seq(S)
           /\ IsInjective(RemoveAt(q, i))
           /\ ToSet(RemoveAt(q, i)) = ToSet(q) \ {q[i]}
<1> DEFINE r == RemoveAt(q, i)
<1>1. /\ r \in Seq(S)
      /\ Len(r) = Len(q) - 1
      /\ \A j \in 1..(Len(q) - 1) : r[j] = IF j < i THEN q[j] ELSE q[j + 1]
  BY Removed
<1> HIDE DEF r
<1>2. DOMAIN r = 1..(Len(q) - 1) /\ DOMAIN q = 1..Len(q) /\ Len(q) \in Nat
  BY <1>1
<1>3. IsInjective(r)
  <2> DEFINE at(j) == IF j < i THEN j ELSE j + 1
  <2>1. ASSUME NEW j \in DOMAIN r
        PROVE  at(j) \in DOMAIN q /\ r[j] = q[at(j)]
    BY <1>1, <1>2, <2>1
  <2>2. ASSUME NEW j \in DOMAIN r, NEW k \in DOMAIN r, at(j) = at(k)
        PROVE  j = k
    BY <1>2, <2>2
  <2>3. \A x, y \in DOMAIN q : q[x] = q[y] => x = y
    BY DEF IsInjective
  <2> HIDE DEF at
  <2>4. ASSUME NEW j \in DOMAIN r, NEW k \in DOMAIN r, r[j] = r[k]
        PROVE  j = k
    <3>1. at(j) = at(k)
      BY <2>1, <2>3, <2>4
    <3>2. QED
      BY <2>2, <3>1
  <2>5. QED
    BY <2>4 DEF IsInjective
<1>4. ASSUME NEW k \in DOMAIN q, k # i
      PROVE  \E j \in DOMAIN r : r[j] = q[k]
  <2>1. CASE k < i
    BY <1>1, <1>2, <2>1
  <2>2. CASE ~(k < i)
    <3>1. k - 1 \in DOMAIN r /\ ~(k - 1 < i) /\ (k - 1) + 1 = k
      BY <1>2, <1>4, <2>2
    <3>2. QED
      BY <1>1, <1>2, <3>1
  <2>3. QED
    BY <2>1, <2>2
<1>5. ToSet(r) \subseteq ToSet(q) \ {q[i]}
  BY <1>1, <1>2 DEF ToSet, IsInjective
<1>6. ToSet(q) \ {q[i]} \subseteq ToSet(r)
  BY <1>4 DEF ToSet
<1>7. QED
  BY <1>1, <1>3, <1>5, <1>6 DEF r

\* _pump: list.pop(0) takes the run that has waited longest.
LEMMA PoppedRuns ==
    ASSUME NEW S, NEW q \in Seq(S), IsInjective(q), q # <<>>
    PROVE  /\ Head(q) \in ToSet(q)
           /\ Head(q) \in S
           /\ Tail(q) \in Seq(S)
           /\ IsInjective(Tail(q))
           /\ ToSet(Tail(q)) = ToSet(q) \ {Head(q)}
<1> DEFINE r == Tail(q)
<1>1. /\ r \in Seq(S)
      /\ Len(r) = Len(q) - 1
      /\ \A j \in 1..(Len(q) - 1) : r[j] = q[j + 1]
      /\ Head(q) = q[1]
      /\ Len(q) \in Nat /\ Len(q) > 0
      /\ DOMAIN q = 1..Len(q)
  OBVIOUS
<1> HIDE DEF r
<1>2. DOMAIN r = 1..(Len(q) - 1)
  BY <1>1
<1>3. IsInjective(r)
  <2>1. ASSUME NEW j \in DOMAIN r, NEW k \in DOMAIN r, r[j] = r[k] PROVE j = k
    <3>1. /\ j \in Nat /\ j + 1 \in DOMAIN q /\ r[j] = q[j + 1]
          /\ k \in Nat /\ k + 1 \in DOMAIN q /\ r[k] = q[k + 1]
      BY <1>1, <1>2
    <3>2. j + 1 = k + 1
      BY <2>1, <3>1, Zenon DEF IsInjective
    <3>3. QED
      BY <3>1, <3>2
  <2>2. QED
    BY <2>1, Zenon DEF IsInjective
<1>4. ToSet(r) \subseteq ToSet(q) \ {q[1]}
  BY <1>1, <1>2 DEF ToSet, IsInjective
<1>5. ASSUME NEW k \in DOMAIN q, k # 1
      PROVE  \E j \in DOMAIN r : r[j] = q[k]
  <2>1. k - 1 \in DOMAIN r /\ (k - 1) + 1 = k
    BY <1>1, <1>2, <1>5
  <2>2. QED
    BY <1>1, <1>2, <2>1
<1>6. ToSet(q) \ {q[1]} \subseteq ToSet(r)
  BY <1>5 DEF ToSet
<1>7. 1 \in DOMAIN q /\ q[1] \in ToSet(q) /\ q[1] \in S
  BY <1>1 DEF ToSet
<1>8. QED
  BY <1>1, <1>3, <1>4, <1>6, <1>7 DEF r

\* start: list.append.
LEMMA AppendedRun ==
    ASSUME NEW S, NEW q \in Seq(S), IsInjective(q), NEW x \in S, x \notin ToSet(q)
    PROVE  /\ Append(q, x) \in Seq(S)
           /\ IsInjective(Append(q, x))
           /\ ToSet(Append(q, x)) = ToSet(q) \cup {x}
<1> DEFINE r == Append(q, x)
<1>1. /\ r \in Seq(S)
      /\ DOMAIN r = 1..(Len(q) + 1)
      /\ \A j \in 1..Len(q) : r[j] = q[j]
      /\ r[Len(q) + 1] = x
      /\ Len(q) \in Nat
      /\ DOMAIN q = 1..Len(q)
  OBVIOUS
<1> HIDE DEF r
<1>2. \A j \in 1..Len(q) : q[j] # x
  BY <1>1 DEF ToSet
<1>3. IsInjective(r)
  BY <1>1, <1>2 DEF IsInjective
<1>4. ToSet(r) = ToSet(q) \cup {x}
  <2>1. ToSet(r) \subseteq ToSet(q) \cup {x}
    BY <1>1 DEF ToSet
  <2>2. \A j \in DOMAIN q : j \in DOMAIN r /\ r[j] = q[j]
    BY <1>1
  <2>3. Len(q) + 1 \in DOMAIN r
    BY <1>1
  <2>4. QED
    BY <1>1, <2>1, <2>2, <2>3 DEF ToSet
<1>5. QED
  BY <1>1, <1>3, <1>4 DEF r

\* The empty queue.
LEMMA EmptyQueue ==
    /\ <<>> \in Seq(Evals)
    /\ IsInjective(<<>>)
    /\ ToSet(<<>>) = {}
BY DEF IsInjective, ToSet

(***************************************************************************)
(* Types and books together: each action keeps both.                       *)
(***************************************************************************)
BooksInv == TypeOK /\ Books

\* Moving a task to a stage.
LEMMA TaskMoves ==
    ASSUME NEW tasks \in Tasks, NEW r \in Runs, NEW stage \in Stage
    PROVE  /\ [tasks EXCEPT ![r] = At(stage)] \in Tasks
           /\ [tasks EXCEPT ![r] = At(stage)][r].at = stage
           /\ \A s \in Runs \ {r} : [tasks EXCEPT ![r] = At(stage)][s] = tasks[s]
BY DEF Tasks, At

\* What a pump does to its caller disturbs no evaluation.
LEMMA CallerMoves ==
    ASSUME NEW tasks \in Tasks, NEW owner \in Perfs \cup {None}, NEW stage \in Stage
    PROVE  /\ Caller(owner, tasks, stage) \in Tasks
           /\ \A s \in Runs \ {owner} : Caller(owner, tasks, stage)[s] = tasks[s]
           /\ \A x \in Evals : Caller(owner, tasks, stage)[x] = tasks[x]
<1>1. CASE owner = None
  BY <1>1, RunsAssumption DEF Caller, Runs
<1>2. CASE owner # None
  <2>1. owner \in Runs /\ owner \notin Evals
    BY <1>2, RunsAssumption DEF Runs
  <2>2. Caller(owner, tasks, stage) = [tasks EXCEPT ![owner] = At(stage)]
    BY <1>2 DEF Caller
  <2>3. /\ [tasks EXCEPT ![owner] = At(stage)] \in Tasks
        /\ \A s \in Runs \ {owner} : [tasks EXCEPT ![owner] = At(stage)][s] = tasks[s]
    BY <2>1, TaskMoves
  <2>4. Evals \subseteq Runs \ {owner}
    BY <2>1 DEF Runs
  <2>5. QED
    BY <2>2, <2>3, <2>4, Zenon
<1>3. QED
  BY <1>1, <1>2

LEMMA LaunchKeepsBooks ==
    ASSUME NEW owner \in Perfs \cup {None}, NEW tasks \in Tasks, NEW books \in EvalBooks,
           Agree(books, tasks), books.queue # <<>>,
           live \subseteq Runs, cancelled \subseteq Runs,
           Launch(Head(books.queue), owner, tasks, books)
    PROVE  /\ em' \in EvalBooks
           /\ task' \in Tasks
           /\ live' \subseteq Runs
           /\ cancelled' \subseteq Runs
           /\ Agree(em', task')
<1> DEFINE x == Head(books.queue)
           popped == [books EXCEPT !.queue = Tail(@), !.pending = @ \ {x}]
<1>1. /\ x \in ToSet(books.queue) /\ x \in Evals
      /\ Tail(books.queue) \in Seq(Evals)
      /\ IsInjective(Tail(books.queue))
      /\ ToSet(Tail(books.queue)) = books.pending \ {x}
      /\ x \in books.pending
  BY PoppedRuns DEF EvalBooks, Agree
<1> HIDE DEF x
<1>2. /\ popped \in EvalBooks
      /\ popped.queue = Tail(books.queue)
      /\ popped.pending = books.pending \ {x}
      /\ popped.batch = books.batch
      /\ popped.procs = books.procs
  BY <1>1 DEF EvalBooks
<1>3. x \in Runs /\ tasks[x].at = "waiting" /\ x \in books.batch
  BY <1>1 DEF Agree, Runs
<1>4. CASE /\ em' = [popped EXCEPT !.procs = @ \cup {x}]
           /\ live' = live \cup {x}
           /\ task' = [Caller(owner, tasks, "pumping")
                         EXCEPT ![x] = [at |-> "starting", for |-> owner]]
           /\ cancelled' = cancelled
  <2>1. /\ Caller(owner, tasks, "pumping") \in Tasks
        /\ \A y \in Evals : Caller(owner, tasks, "pumping")[y] = tasks[y]
    BY CallerMoves DEF Stage
  <2>2. /\ task' \in Tasks
        /\ task'[x].at = "starting"
        /\ \A y \in Evals \ {x} : task'[y] = tasks[y]
    BY <1>3, <1>4, <2>1 DEF Tasks, Stage, Runs
  <2>3. /\ em' \in EvalBooks
        /\ em'.queue = Tail(books.queue)
        /\ em'.pending = books.pending \ {x}
        /\ em'.batch = books.batch
        /\ em'.procs = books.procs \cup {x}
    BY <1>1, <1>2, <1>4 DEF EvalBooks
  <2>4. Agree(em', task')
    BY <1>1, <1>3, <2>2, <2>3 DEF Agree
  <2>5. QED
    BY <1>3, <1>4, <2>2, <2>3, <2>4
<1>5. CASE /\ em' = popped
           /\ live' = live
           /\ task' = [Caller(owner, tasks, "over") EXCEPT ![x] = At("over")]
           /\ cancelled' = cancelled
  <2>1. /\ Caller(owner, tasks, "over") \in Tasks
        /\ \A y \in Evals : Caller(owner, tasks, "over")[y] = tasks[y]
    BY CallerMoves DEF Stage
  <2>2. /\ task' \in Tasks
        /\ task'[x].at = "over"
        /\ \A y \in Evals \ {x} : task'[y] = tasks[y]
    <3>1. "over" \in Stage /\ Evals \subseteq Runs
      BY DEF Stage, Runs
    <3>2. ASSUME NEW c \in Tasks, \A y \in Evals : c[y] = tasks[y]
          PROVE  /\ [c EXCEPT ![x] = At("over")] \in Tasks
                 /\ [c EXCEPT ![x] = At("over")][x].at = "over"
                 /\ \A y \in Evals \ {x} : [c EXCEPT ![x] = At("over")][y] = tasks[y]
      BY <1>3, <3>1, <3>2, TaskMoves
    <3>3. QED
      BY <1>5, <2>1, <3>2, Zenon
  <2>3. Agree(em', task')
    BY <1>1, <1>2, <1>3, <1>5, <2>2 DEF Agree
  <2>4. QED
    BY <1>2, <1>5, <2>2, <2>3
<1>6. QED
  BY <1>4, <1>5 DEF Launch, x

LEMMA PumpKeepsBooks ==
    ASSUME NEW owner \in Perfs \cup {None}, NEW tasks \in Tasks, NEW books \in EvalBooks,
           Agree(books, tasks), live \subseteq Runs, cancelled \subseteq Runs,
           Pump(owner, tasks, books)
    PROVE  /\ em' \in EvalBooks
           /\ task' \in Tasks
           /\ live' \subseteq Runs
           /\ cancelled' \subseteq Runs
           /\ Agree(em', task')
<1>1. CASE Admits(books) /\ Launch(Head(books.queue), owner, tasks, books)
  BY <1>1, LaunchKeepsBooks DEF Admits
<1>2. CASE /\ em' = books
           /\ \E v \in Verdicts(owner) : task' = Caller(owner, tasks, v)
           /\ cancelled' = cancelled \ {owner}
           /\ live' = live
  <2>1. PICK v \in Verdicts(owner) : task' = Caller(owner, tasks, v)
    BY <1>2
  <2>2. v \in Stage
    BY DEF Verdicts, Stage, Final
  <2>3. task' \in Tasks /\ \A x \in Evals : task'[x] = tasks[x]
    BY <2>1, <2>2, CallerMoves
  <2>4. QED
    BY <1>2, <2>3 DEF Agree
<1>3. QED
  BY <1>1, <1>2 DEF Pump

-----------------------------------------------------------------------------

\* A step that leaves the evaluations' tasks and their books alone.
LEMMA BooksUntouched ==
    ASSUME NEW books, NEW tasks, NEW others, Agree(books, tasks),
           \A x \in Evals : others[x] = tasks[x]
    PROVE  Agree(books, others)
BY DEF Agree

LEMMA InitBooks == Init => BooksInv
<1> SUFFICES ASSUME Init PROVE BooksInv
  OBVIOUS
<1>1. At("new") \in [at : Stage, for : Perfs \cup {None}] /\ At("new").at = "new"
  BY DEF At, Stage
<1>2. TypeOK
  BY <1>1, EmptyQueue, ConfigAssumption
     DEF Init, TypeOK, Empty, Idle, EvalBooks, PerfBooks, Tasks, Runs
<1>3. Books
  BY <1>1, EmptyQueue DEF Init, Books, Agree, Empty, Runs
<1>4. QED
  BY <1>2, <1>3 DEF BooksInv

LEMMA EvalStartKeepsBooks ==
    ASSUME BooksInv, NEW x \in Evals, EvalStart(x)
    PROVE  BooksInv'
<1> DEFINE books == [em EXCEPT !.queue = Append(@, x), !.pending = @ \cup {x},
                               !.batch = @ \cup {x}]
           tasks == [task EXCEPT ![x] = At("waiting")]
<1>1. /\ em \in EvalBooks /\ task \in Tasks /\ x \in Runs /\ "waiting" \in Stage
      /\ Agree(em, task) /\ task[x].at = "new" /\ live \subseteq Runs /\ cancelled \subseteq Runs
  BY DEF BooksInv, TypeOK, Books, EvalStart, Runs, Stage
<1>2. /\ tasks \in Tasks
      /\ tasks[x].at = "waiting"
      /\ \A y \in Runs \ {x} : tasks[y] = task[y]
  BY <1>1, TaskMoves
<1>3. /\ Append(em.queue, x) \in Seq(Evals)
      /\ IsInjective(Append(em.queue, x))
      /\ ToSet(Append(em.queue, x)) = em.pending \cup {x}
      /\ x \notin em.procs
  BY <1>1, AppendedRun DEF EvalBooks, Agree
<1>4. /\ books \in EvalBooks
      /\ books.queue = Append(em.queue, x)
      /\ books.pending = em.pending \cup {x}
      /\ books.batch = em.batch \cup {x}
      /\ books.procs = em.procs
  BY <1>1, <1>3 DEF EvalBooks
<1> HIDE DEF books, tasks
<1>5. Agree(books, tasks)
  BY <1>1, <1>2, <1>3, <1>4 DEF Agree, Runs
<1>6. /\ Pump(None, tasks, books)
      /\ row' = [row EXCEPT ![x] = "queued"]
      /\ UNCHANGED <<pm, budget, asked, restarts>>
  BY DEF EvalStart, books, tasks
<1>7. /\ em' \in EvalBooks /\ task' \in Tasks /\ live' \subseteq Runs
      /\ cancelled' \subseteq Runs /\ Agree(em', task')
  BY <1>1, <1>2, <1>4, <1>5, <1>6, PumpKeepsBooks
<1>8. x \notin Perfs
  BY RunsAssumption
<1>9. QED
  BY <1>1, <1>6, <1>7, <1>8 DEF BooksInv, TypeOK, Books

LEMMA StartedKeepsBooks ==
    ASSUME BooksInv, NEW x \in Evals, Started(x)
    PROVE  BooksInv'
<1> DEFINE tasks == [task EXCEPT ![x] = At("watched")]
<1>1. /\ em \in EvalBooks /\ task \in Tasks /\ x \in Runs /\ "watched" \in Stage
      /\ Agree(em, task) /\ task[x].at = "starting" /\ live \subseteq Runs /\ cancelled \subseteq Runs
  BY DEF BooksInv, TypeOK, Books, Started, Runs, Stage
<1>2. /\ tasks \in Tasks
      /\ tasks[x].at = "watched"
      /\ \A y \in Runs \ {x} : tasks[y] = task[y]
  BY <1>1, TaskMoves
<1>3. task[x].for \in Perfs \cup {None}
  BY <1>1 DEF Tasks
<1>4. /\ Pump(task[x].for, tasks, em)
      /\ row' = [row EXCEPT ![x] = IF @ = "queued" THEN "running" ELSE @]
      /\ UNCHANGED <<pm, budget, asked, restarts>>
  BY DEF Started
<1> HIDE DEF tasks
<1>5. Agree(em, tasks)
  BY <1>1, <1>2 DEF Agree, Runs
<1>6. /\ em' \in EvalBooks /\ task' \in Tasks /\ live' \subseteq Runs
      /\ cancelled' \subseteq Runs /\ Agree(em', task')
  BY <1>1, <1>2, <1>3, <1>4, <1>5, PumpKeepsBooks
<1>7. QED
  BY <1>1, <1>4, <1>6 DEF BooksInv, TypeOK, Books

LEMMA StartedRaisesKeepsBooks ==
    ASSUME BooksInv, NEW x \in Evals, StartedRaises(x)
    PROVE  BooksInv'
<1> DEFINE c == Caller(task[x].for, task, "over")
<1>1. /\ task \in Tasks /\ x \in Runs /\ "over" \in Stage
      /\ Agree(em, task) /\ task[x].at = "starting"
  BY DEF BooksInv, TypeOK, Books, StartedRaises, Runs, Stage
<1>2. task[x].for \in Perfs \cup {None}
  BY <1>1 DEF Tasks
<1>3. c \in Tasks /\ \A y \in Evals : c[y] = task[y]
  BY <1>1, <1>2, CallerMoves
<1>4. /\ task' = [c EXCEPT ![x] = At("over")]
      /\ UNCHANGED <<em, pm, cancelled, budget, row, live, asked, restarts>>
  BY DEF StartedRaises
<1> HIDE DEF c
<1>5. /\ task' \in Tasks
      /\ task'[x].at = "over"
      /\ \A y \in Evals \ {x} : task'[y] = task[y]
  <2>1. /\ [c EXCEPT ![x] = At("over")] \in Tasks
        /\ [c EXCEPT ![x] = At("over")][x].at = "over"
        /\ \A y \in Runs \ {x} : [c EXCEPT ![x] = At("over")][y] = c[y]
    BY <1>1, <1>3, TaskMoves
  <2>2. Evals \subseteq Runs
    BY DEF Runs
  <2>3. QED
    BY <1>3, <1>4, <2>1, <2>2, Zenon
<1>6. Agree(em, task')
  BY <1>1, <1>5 DEF Agree
<1>7. QED
  BY <1>4, <1>5, <1>6 DEF BooksInv, TypeOK, Books

LEMMA WatchEvalKeepsBooks ==
    ASSUME BooksInv, NEW x \in Evals, WatchEval(x)
    PROVE  BooksInv'
<1>1. /\ em \in EvalBooks /\ task \in Tasks /\ x \in Runs
      /\ Agree(em, task) /\ task[x].at = "watched"
  BY DEF BooksInv, TypeOK, Books, WatchEval, Runs
<1>2. PICK v \in Verdicts(x) : task' = [task EXCEPT ![x] = At(v)]
  BY DEF WatchEval
<1>3. v \in Final /\ v \in Stage
  BY DEF Verdicts, Final, Stage
<1>4. /\ task' \in Tasks
      /\ task'[x].at = v
      /\ \A y \in Runs \ {x} : task'[y] = task[y]
  <2>1. /\ [task EXCEPT ![x] = At(v)] \in Tasks
        /\ [task EXCEPT ![x] = At(v)][x].at = v
        /\ \A y \in Runs \ {x} : [task EXCEPT ![x] = At(v)][y] = task[y]
    BY <1>1, <1>3, TaskMoves
  <2>2. QED
    BY <1>2, <2>1, Zenon
<1>5. /\ em' \in EvalBooks
      /\ em'.queue = em.queue
      /\ em'.pending = em.pending
      /\ em'.batch = em.batch \ {x}
      /\ em'.procs = em.procs \ {x}
  BY <1>1 DEF WatchEval, EvalBooks
<1>6. Agree(em', task')
  BY <1>1, <1>3, <1>4, <1>5 DEF Agree, Runs, Final
<1>7. QED
  BY <1>4, <1>5, <1>6 DEF BooksInv, TypeOK, Books, WatchEval

\* Writing a verdict, or failing to, keeps the rows typed.
LEMMA RecordedTyped ==
    ASSUME TypeOK, NEW r \in Runs, NEW status \in Final,
           \/ row' = [row EXCEPT ![r] = IF @ = "deleted" THEN @ ELSE status]
           \/ row' = row
    PROVE  /\ row' \in [Runs -> Final \cup {"none", "queued", "running", "deleted"}]
           /\ \A p \in Perfs : row'[p] # "queued"
<1>1. /\ row \in [Runs -> Final \cup {"none", "queued", "running", "deleted"}]
      /\ \A p \in Perfs : row[p] # "queued" /\ p \in Runs
  BY DEF TypeOK, Runs
<1>2. status # "queued"
  BY DEF Final
<1>3. QED
  BY <1>1, <1>2

LEMMA EvalFinishedKeepsBooks ==
    ASSUME BooksInv, NEW x \in Evals, EvalFinished(x)
    PROVE  BooksInv'
<1> DEFINE tasks == [task EXCEPT ![x] = At("over")]
<1>1. /\ em \in EvalBooks /\ task \in Tasks /\ x \in Runs /\ "over" \in Stage
      /\ Agree(em, task) /\ task[x].at \in Final /\ live \subseteq Runs
      /\ cancelled \subseteq Runs /\ x \notin Perfs
  BY RunsAssumption DEF BooksInv, TypeOK, Books, EvalFinished, Runs, Stage
<1>2. /\ tasks \in Tasks
      /\ tasks[x].at = "over"
      /\ \A y \in Runs \ {x} : tasks[y] = task[y]
  BY <1>1, TaskMoves
<1>3. /\ Pump(None, tasks, em)
      /\ UNCHANGED <<pm, budget, asked, restarts>>
      /\ \/ row' = [row EXCEPT ![x] = IF @ = "deleted" THEN @ ELSE task[x].at]
         \/ row' = row
  BY DEF EvalFinished, Recorded
<1> HIDE DEF tasks
<1>4. Agree(em, tasks)
  BY <1>1, <1>2 DEF Agree, Runs, Final
<1>5. /\ em' \in EvalBooks /\ task' \in Tasks /\ live' \subseteq Runs
      /\ cancelled' \subseteq Runs /\ Agree(em', task')
  BY <1>1, <1>2, <1>3, <1>4, PumpKeepsBooks
<1>6. /\ row' \in [Runs -> Final \cup {"none", "queued", "running", "deleted"}]
      /\ \A p \in Perfs : row'[p] # "queued"
  BY <1>1, <1>3, RecordedTyped DEF BooksInv
<1>7. QED
  BY <1>3, <1>5, <1>6 DEF BooksInv, TypeOK, Books

LEMMA CancelQueuedKeepsBooks ==
    ASSUME BooksInv, NEW x \in Evals, CancelQueued(x)
    PROVE  BooksInv'
<1>1. /\ em \in EvalBooks /\ task \in Tasks /\ x \in Runs /\ "dropping" \in Stage
      /\ Agree(em, task)
  BY DEF BooksInv, TypeOK, Books, Runs, Stage
<1>2. PICK i \in DOMAIN em.queue :
        /\ em.queue[i] = x
        /\ em' = [em EXCEPT !.queue = RemoveAt(@, i), !.pending = @ \ {x},
                            !.batch = @ \ {x}]
        /\ task' = [task EXCEPT ![x] = At("dropping")]
        /\ UNCHANGED <<pm, cancelled, budget, row, live, asked, restarts>>
  BY DEF CancelQueued
<1>3. /\ RemoveAt(em.queue, i) \in Seq(Evals)
      /\ IsInjective(RemoveAt(em.queue, i))
      /\ ToSet(RemoveAt(em.queue, i)) = em.pending \ {x}
  BY <1>1, <1>2, RemovedRuns DEF EvalBooks, Agree
<1>4. x \in em.pending
  BY <1>1, <1>2 DEF Agree, ToSet
<1>5. /\ em' \in EvalBooks
      /\ em'.queue = RemoveAt(em.queue, i)
      /\ em'.pending = em.pending \ {x}
      /\ em'.batch = em.batch \ {x}
      /\ em'.procs = em.procs
  BY <1>1, <1>2, <1>3 DEF EvalBooks
<1>6. /\ task' \in Tasks
      /\ task'[x].at = "dropping"
      /\ \A y \in Runs \ {x} : task'[y] = task[y]
  <2>1. /\ [task EXCEPT ![x] = At("dropping")] \in Tasks
        /\ [task EXCEPT ![x] = At("dropping")][x].at = "dropping"
        /\ \A y \in Runs \ {x} : [task EXCEPT ![x] = At("dropping")][y] = task[y]
    BY <1>1, TaskMoves
  <2>2. QED
    BY <1>2, <2>1, Zenon
<1>7. Agree(em', task')
  BY <1>1, <1>3, <1>4, <1>5, <1>6 DEF Agree, Runs
<1>8. QED
  BY <1>2, <1>5, <1>6, <1>7 DEF BooksInv, TypeOK, Books

LEMMA DroppedKeepsBooks ==
    ASSUME BooksInv, NEW x \in Evals, Dropped(x)
    PROVE  BooksInv'
<1>1. /\ task \in Tasks /\ x \in Runs /\ "over" \in Stage
      /\ Agree(em, task) /\ task[x].at = "dropping" /\ x \notin Perfs
  BY RunsAssumption DEF BooksInv, TypeOK, Books, Dropped, Runs, Stage
<1>2. /\ task' \in Tasks
      /\ task'[x].at = "over"
      /\ \A y \in Runs \ {x} : task'[y] = task[y]
  <2>1. /\ [task EXCEPT ![x] = At("over")] \in Tasks
        /\ [task EXCEPT ![x] = At("over")][x].at = "over"
        /\ \A y \in Runs \ {x} : [task EXCEPT ![x] = At("over")][y] = task[y]
    BY <1>1, TaskMoves
  <2>2. task' = [task EXCEPT ![x] = At("over")]
    BY DEF Dropped
  <2>3. QED
    BY <2>1, <2>2, Zenon
<1>3. Agree(em, task')
  BY <1>1, <1>2 DEF Agree, Runs
<1>4. /\ \/ row' = [row EXCEPT ![x] = IF @ = "deleted" THEN @ ELSE "cancelled"]
         \/ row' = row
      /\ asked' \in {asked, asked \cup {x}}
      /\ UNCHANGED <<em, pm, cancelled, budget, live, restarts>>
  BY DEF Dropped
<1>5. /\ row' \in [Runs -> Final \cup {"none", "queued", "running", "deleted"}]
      /\ \A p \in Perfs : row'[p] # "queued"
  BY <1>1, <1>4, RecordedTyped DEF BooksInv, Final
<1>6. QED
  BY <1>1, <1>2, <1>3, <1>4, <1>5 DEF BooksInv, TypeOK, Books

LEMMA SetBudgetKeepsBooks ==
    ASSUME BooksInv, NEW b \in Budgets, SetBudget(b)
    PROVE  BooksInv'
<1>1. /\ Pump(None, task, em) /\ budget' = b
      /\ UNCHANGED <<pm, row, asked, restarts>>
  BY DEF SetBudget
<1>2. /\ em' \in EvalBooks /\ task' \in Tasks /\ live' \subseteq Runs
      /\ cancelled' \subseteq Runs /\ Agree(em', task')
  BY <1>1, PumpKeepsBooks DEF BooksInv, TypeOK, Books
<1>3. QED
  BY <1>1, <1>2 DEF BooksInv, TypeOK, Books

\* The actions of a load test move no evaluation.
LEMMA PerfTaskKeepsBooks ==
    ASSUME task \in Tasks, Agree(em, task), NEW p \in Perfs, NEW stage \in Stage
    PROVE  /\ [task EXCEPT ![p] = At(stage)] \in Tasks
           /\ Agree(em, [task EXCEPT ![p] = At(stage)])
<1>1. p \in Runs /\ Evals \subseteq Runs \ {p}
  BY RunsAssumption DEF Runs
<1>2. /\ [task EXCEPT ![p] = At(stage)] \in Tasks
      /\ \A y \in Runs \ {p} : [task EXCEPT ![p] = At(stage)][y] = task[y]
  BY <1>1, TaskMoves
<1>3. \A y \in Evals : [task EXCEPT ![p] = At(stage)][y] = task[y]
  BY <1>1, <1>2, Zenon
<1>4. QED
  BY <1>2, <1>3, BooksUntouched

LEMMA PerfActionsKeepBooks ==
    ASSUME BooksInv, NEW p \in Perfs, PerfStart(p) \/ PerfStep(p)
    PROVE  BooksInv'
<1>1. /\ em \in EvalBooks /\ task \in Tasks /\ Agree(em, task) /\ p \in Runs
      /\ live \subseteq Runs /\ cancelled \subseteq Runs /\ pm \in PerfBooks
      /\ {"creating", "watched", "over"} \subseteq Stage
  BY DEF BooksInv, TypeOK, Books, Runs, Stage
<1>2. \A stage \in {"creating", "watched", "over"} :
        /\ [task EXCEPT ![p] = At(stage)] \in Tasks
        /\ Agree(em, [task EXCEPT ![p] = At(stage)])
  BY <1>1, PerfTaskKeepsBooks
<1>3. CASE PerfStart(p)
  BY <1>2, <1>3 DEF PerfStart, BooksInv, TypeOK, Books
<1>4. CASE PerfLaunched(p)
  <2>1. /\ row' \in [Runs -> Final \cup {"none", "queued", "running", "deleted"}]
        /\ \A q \in Perfs : row'[q] # "queued"
        /\ pm' \in PerfBooks /\ live' \subseteq Runs
        /\ UNCHANGED <<em, cancelled, budget, asked, restarts>>
    BY <1>1, <1>4 DEF PerfLaunched, BooksInv, TypeOK, PerfBooks, Runs
  <2>2. task' \in Tasks /\ Agree(em, task')
    BY <1>2, <1>4 DEF PerfLaunched
  <2>3. QED
    BY <2>1, <2>2 DEF BooksInv, TypeOK, Books
<1>5. CASE WatchPerf(p)
  <2>1. /\ Pump(p, task, em) /\ UNCHANGED <<budget, row, asked, restarts>>
        /\ pm' = [current |-> IF pm.current = p THEN None ELSE pm.current,
                  procs |-> pm.procs \ {p}]
    BY <1>5 DEF WatchPerf
  <2>2. pm' \in PerfBooks
    BY <1>1, <2>1 DEF PerfBooks
  <2>3. /\ em' \in EvalBooks /\ task' \in Tasks /\ live' \subseteq Runs
        /\ cancelled' \subseteq Runs /\ Agree(em', task')
    BY <1>1, <2>1, PumpKeepsBooks
  <2>4. QED
    BY <2>1, <2>2, <2>3 DEF BooksInv, TypeOK, Books
<1>6. CASE PerfFinished(p)
  <2>1. /\ row' \in [Runs -> Final \cup {"none", "queued", "running", "deleted"}]
        /\ \A q \in Perfs : row'[q] # "queued"
        /\ UNCHANGED <<em, pm, cancelled, budget, live, asked, restarts>>
    <3>1. /\ task[p].at \in Final
          /\ \/ row' = [row EXCEPT ![p] = IF @ = "deleted" THEN @ ELSE task[p].at]
             \/ row' = row
          /\ UNCHANGED <<em, pm, cancelled, budget, live, asked, restarts>>
      BY <1>6 DEF PerfFinished, Recorded
    <3>2. QED
      BY <1>1, <3>1, RecordedTyped DEF BooksInv
  <2>2. task' \in Tasks /\ Agree(em, task')
    BY <1>2, <1>6 DEF PerfFinished
  <2>3. QED
    BY <2>1, <2>2 DEF BooksInv, TypeOK, Books
<1>7. QED
  BY <1>3, <1>4, <1>5, <1>6 DEF PerfStep

LEMMA SharedActionsKeepBooks ==
    ASSUME BooksInv, NEW r \in Runs,
           CancelRunning(r) \/ DeleteRow(r) \/ ProcExits(r)
    PROVE  BooksInv'
<1>1. CASE CancelRunning(r)
  BY <1>1 DEF CancelRunning, BooksInv, TypeOK, Books
<1>2. CASE DeleteRow(r)
  BY <1>2 DEF DeleteRow, BooksInv, TypeOK, Books
<1>3. CASE ProcExits(r)
  BY <1>3 DEF ProcExits, BooksInv, TypeOK, Books
<1>4. QED
  BY <1>1, <1>2, <1>3

LEMMA RestartKeepsBooks == ASSUME BooksInv, Restart PROVE BooksInv'
<1>1. /\ task \in Tasks /\ "over" \in Stage /\ restarts \in 0..MaxRestarts
      /\ row \in [Runs -> Final \cup {"none", "queued", "running", "deleted"}]
  BY DEF BooksInv, TypeOK, Stage
<1>2. /\ At("over") \in [at : Stage, for : Perfs \cup {None}] /\ At("over").at = "over"
  BY <1>1 DEF At
<1>3. /\ task' \in Tasks
      /\ \A x \in Evals : task'[x].at \in {"new", "over"}
  BY <1>1, <1>2 DEF Restart, Tasks, Runs
<1>4. /\ em' = Empty /\ pm' = Idle /\ em' \in EvalBooks /\ pm' \in PerfBooks
  BY EmptyQueue DEF Restart, Empty, Idle, EvalBooks, PerfBooks
<1>5. Agree(em', task')
  BY <1>3, <1>4, EmptyQueue DEF Agree, Empty
<1>6. /\ row' \in [Runs -> Final \cup {"none", "queued", "running", "deleted"}]
      /\ \A p \in Perfs : row'[p] # "queued"
  BY <1>1 DEF Restart, BooksInv, TypeOK, Final, Runs
<1>7. restarts' \in 0..MaxRestarts
  BY <1>1, ConfigAssumption DEF Restart
<1>8. QED
  BY <1>3, <1>4, <1>5, <1>6, <1>7 DEF Restart, BooksInv, TypeOK, Books

LEMMA NextKeepsBooks == BooksInv /\ [Next]_vars => BooksInv'
<1> SUFFICES ASSUME BooksInv, [Next]_vars PROVE BooksInv'
  OBVIOUS
<1>1. ASSUME NEW x \in Evals, EvalStart(x) \/ CancelQueued(x) \/ EvalStep(x)
      PROVE  BooksInv'
  BY <1>1, EvalStartKeepsBooks, CancelQueuedKeepsBooks, StartedKeepsBooks,
     StartedRaisesKeepsBooks, WatchEvalKeepsBooks, EvalFinishedKeepsBooks,
     DroppedKeepsBooks DEF EvalStep
<1>2. ASSUME NEW p \in Perfs, PerfStart(p) \/ PerfStep(p)
      PROVE  BooksInv'
  BY <1>2, PerfActionsKeepBooks
<1>3. ASSUME NEW r \in Runs, CancelRunning(r) \/ DeleteRow(r) \/ ProcExits(r)
      PROVE  BooksInv'
  BY <1>3, SharedActionsKeepBooks
<1>4. ASSUME NEW b \in Budgets, SetBudget(b)
      PROVE  BooksInv'
  BY <1>4, SetBudgetKeepsBooks
<1>5. CASE Restart
  BY <1>5, RestartKeepsBooks
<1>6. CASE UNCHANGED vars
  BY <1>6 DEF vars, BooksInv, TypeOK, Books
<1>7. QED
  BY <1>1, <1>2, <1>3, <1>4, <1>5, <1>6 DEF Next

\* The invariant of this module, for the theorems that build on it.
THEOREM BooksInvariant == Spec => []BooksInv
<1>1. Init => BooksInv
  BY InitBooks
<1>2. BooksInv /\ [Next]_vars => BooksInv'
  BY NextKeepsBooks
<1>3. QED
  BY <1>1, <1>2, PTL DEF Spec

\* Every variable of the two managers, of the store's rows and of the runner
\* processes keeps its type.
THEOREM RunTypes == Spec => []TypeOK
<1>1. BooksInv => TypeOK
  BY DEF BooksInv
<1>2. QED
  BY <1>1, BooksInvariant, PTL

\* The queue, the requests, the batch sizes, the slots and the coroutines of
\* EvalManager agree, whatever pumps, cancels and failures interleave.
THEOREM BooksAgree == Spec => []Books
<1>1. BooksInv => Books
  BY DEF BooksInv
<1>2. QED
  BY <1>1, BooksInvariant, PTL

-----------------------------------------------------------------------------
(***************************************************************************)
(* The concurrency budget.  InUse is a fold over the set of processes, a   *)
(* recursive function on its subsets; that it adds up the sizes, whatever  *)
(* order it takes the runs in, is shown by taking a smallest set for which *)
(* it would not.                                                           *)
(***************************************************************************)

Load(S) == MapThenSumSet(LAMBDA x : Size[x], S)

First(s) == CHOOSE x \in s : TRUE
Others(s) == s \ {First(s)}

\* f is the fold's function on the subsets of S.
Adds(S, f) ==
    f = [s \in SUBSET S |-> IF s = {} THEN 0 ELSE Size[First(s)] + f[Others(s)]]

Adder(S) == CHOOSE f : Adds(S, f)

LEMMA LoadIsAdder == ASSUME NEW S PROVE Load(S) = Adder(S)[S]
BY DEF Load, MapThenSumSet, MapThenFoldSet, Adder, Adds, First, Others

LEMMA FirstIsOne ==
    ASSUME NEW s, s # {}
    PROVE  First(s) \in s /\ Others(s) \subseteq s /\ Others(s) # s
BY DEF First, Others

\* A finite set of sets has a smallest one.
LEMMA Smallest ==
    ASSUME NEW S, IsFiniteSet(S), NEW T, T \subseteq SUBSET S, T # {}
    PROVE  \E x \in T : \A y \in SUBSET x : y # x => y \notin T
<1> DEFINE R == StrictSubsetOrdering(S)
<1>1. IsWellFoundedOn(R, SUBSET S)
  BY FS_StrictSubsetOrderingWellFounded, FS_FiniteSubsetsOfFinite
<1>2. \E x \in T : \A y \in T : ~(<<y, x>> \in R)
  <2> HIDE DEF R
  <2> QED
    BY <1>1, WFMin
<1>3. \A x, y \in SUBSET S : y \subseteq x /\ x # y => <<y, x>> \in R
  BY DEF StrictSubsetOrdering
<1>4. QED
  BY <1>2, <1>3

\* Two such functions agree wherever both are defined.
LEMMA AddersAgree ==
    ASSUME NEW A, NEW f, Adds(A, f), NEW B, NEW g, Adds(B, g),
           NEW s, IsFiniteSet(s), s \subseteq A, s \subseteq B
    PROVE  f[s] = g[s]
<1> DEFINE T == {t \in SUBSET s : f[t] # g[t]}
<1> SUFFICES ASSUME T # {} PROVE FALSE
  OBVIOUS
<1>1. PICK t \in T : \A y \in SUBSET t : y # t => y \notin T
  <2> HIDE DEF T
  <2>1. T \subseteq SUBSET s
    BY DEF T
  <2> QED
    BY <2>1, Smallest
<1>2. t \in SUBSET A /\ t \in SUBSET B /\ f[t] # g[t]
  OBVIOUS
<1>3. CASE t = {}
  BY <1>2, <1>3 DEF Adds
<1>4. CASE t # {}
  <2>1. Others(t) \subseteq t /\ Others(t) # t
    BY <1>4, FirstIsOne
  <2>2. f[Others(t)] = g[Others(t)]
    BY <1>1, <2>1
  <2>3. /\ f[t] = Size[First(t)] + f[Others(t)]
        /\ g[t] = Size[First(t)] + g[Others(t)]
    BY <1>2, <1>4 DEF Adds
  <2>4. QED
    BY <1>2, <2>2, <2>3
<1>5. QED
  BY <1>3, <1>4

\* There is one, and its values are numbers.
LEMMA AdderExists ==
    ASSUME NEW S \in SUBSET Evals, IsFiniteSet(S)
    PROVE  \E f \in [SUBSET S -> Nat] : Adds(S, f)
<1> DEFINE Has(s) == \E f \in [SUBSET s -> Nat] : Adds(s, f)
           T == {s \in SUBSET S : ~Has(s)}
<1> SUFFICES ASSUME T # {} PROVE FALSE
  OBVIOUS
<1>1. PICK t \in T : \A y \in SUBSET t : y # t => y \notin T
  <2> HIDE DEF T
  <2>1. T \subseteq SUBSET S
    BY DEF T
  <2> QED
    BY <2>1, Smallest
<1>2. t \in SUBSET S /\ ~Has(t) /\ \A y \in SUBSET t : y # t => Has(y)
  BY <1>1
<1> DEFINE G(s) == CHOOSE f \in [SUBSET s -> Nat] : Adds(s, f)
           f == [s \in SUBSET t |-> IF s = {} THEN 0
                                    ELSE Size[First(s)] + G(Others(s))[Others(s)]]
<1>3. \A y \in SUBSET t : y # t => G(y) \in [SUBSET y -> Nat] /\ Adds(y, G(y))
  BY <1>2
<1> HIDE DEF G, T, Has
<1>4. ASSUME NEW s \in SUBSET t, s # {}
      PROVE  /\ Others(s) \in SUBSET t /\ Others(s) # t
             /\ Size[First(s)] \in Nat
             /\ G(Others(s))[Others(s)] \in Nat
  <2>1. First(s) \in s /\ Others(s) \subseteq s /\ Others(s) # s
    BY <1>4, FirstIsOne
  <2>2. Others(s) \in SUBSET t /\ Others(s) # t
    BY <2>1
  <2>3. Size[First(s)] \in Nat
    BY <1>2, <2>1, SizeAssumption
  <2>4. G(Others(s))[Others(s)] \in Nat
    <3>1. G(Others(s)) \in [SUBSET Others(s) -> Nat]
      BY <1>3, <2>2
    <3>2. QED
      BY <3>1
  <2>5. QED
    BY <2>2, <2>3, <2>4
<1>5. f \in [SUBSET t -> Nat]
  <2>1. ASSUME NEW s \in SUBSET t
        PROVE  (IF s = {} THEN 0 ELSE Size[First(s)] + G(Others(s))[Others(s)]) \in Nat
    BY <1>4
  <2>2. QED
    BY <2>1
<1>6. ASSUME NEW s \in SUBSET t, s # {}
      PROVE  f[Others(s)] = G(Others(s))[Others(s)]
  <2> DEFINE r == Others(s)
  <2>1. r \in SUBSET t /\ r # t /\ Adds(r, G(r))
    BY <1>3, <1>4, <1>6
  <2> HIDE DEF r
  <2>2. ASSUME r = {} PROVE f[r] = G(r)[r]
    <3>1. f[r] = 0
      BY <2>1, <2>2
    <3>2. G(r)[r] = 0
      BY <2>1, <2>2 DEF Adds
    <3> HIDE DEF f
    <3>3. QED
      BY <3>1, <3>2
  <2>3. ASSUME r # {} PROVE f[r] = G(r)[r]
    <3>1. Others(r) \in SUBSET r /\ Others(r) \in SUBSET t /\ Others(r) # t
      BY <1>4, <2>1, <2>3, FirstIsOne
    <3>2. f[r] = Size[First(r)] + G(Others(r))[Others(r)]
      BY <2>1, <2>3
    <3>3. G(r)[r] = Size[First(r)] + G(r)[Others(r)]
      BY <2>1, <2>3 DEF Adds
    <3>4. Adds(Others(r), G(Others(r)))
      BY <1>3, <3>1
    <3>5. IsFiniteSet(Others(r))
      BY <1>2, <3>1, FS_Subset
    <3>6. G(r)[Others(r)] = G(Others(r))[Others(r)]
      BY <2>1, <3>1, <3>4, <3>5, AddersAgree
    <3> HIDE DEF f
    <3>7. QED
      BY <3>2, <3>3, <3>6
  <2>4. QED
    BY <2>2, <2>3 DEF r
<1>7. Adds(t, f)
  <2>1. f = [s \in SUBSET t |-> IF s = {} THEN 0 ELSE Size[First(s)] + f[Others(s)]]
    <3>1. ASSUME NEW s \in SUBSET t
          PROVE  f[s] = IF s = {} THEN 0 ELSE Size[First(s)] + f[Others(s)]
      BY <1>6
    <3>2. DOMAIN f = SUBSET t /\ f = [s \in DOMAIN f |-> f[s]]
      OBVIOUS
    <3> HIDE DEF f
    <3>3. QED
      BY <3>1, <3>2
  <2> HIDE DEF f
  <2>2. QED
    BY <2>1 DEF Adds
<1>8. QED
  BY <1>2, <1>5, <1>7 DEF Has

\* What the fold computes, one run at a time.
LEMMA LoadOfFirst ==
    ASSUME NEW S \in SUBSET Evals, IsFiniteSet(S)
    PROVE  /\ Load(S) \in Nat
           /\ S = {} => Load(S) = 0
           /\ S # {} => Load(S) = Size[First(S)] + Load(Others(S))
<1>1. PICK f \in [SUBSET S -> Nat] : Adds(S, f)
  BY AdderExists
<1>2. ASSUME NEW s \in SUBSET S
      PROVE  Load(s) = f[s]
  <2>1. s \in SUBSET Evals /\ IsFiniteSet(s)
    BY FS_Subset
  <2>2. Adds(s, Adder(s))
    BY <2>1, AdderExists DEF Adder
  <2>3. Adder(s)[s] = f[s]
    BY <1>1, <2>1, <2>2, AddersAgree
  <2>4. QED
    BY <2>3, LoadIsAdder
<1>3. Load(S) = f[S]
  BY <1>2
<1>4. S # {} => Load(Others(S)) = f[Others(S)]
  BY <1>2, FirstIsOne
<1>5. QED
  BY <1>1, <1>3, <1>4 DEF Adds

\* The order does not matter: any run can be the last one added.
LEMMA LoadOfAny ==
    ASSUME NEW S \in SUBSET Evals, IsFiniteSet(S), NEW x \in S
    PROVE  Load(S) = Size[x] + Load(S \ {x})
<1> DEFINE T == {s \in SUBSET S : \E y \in s : Load(s) # Size[y] + Load(s \ {y})}
<1> SUFFICES ASSUME T # {} PROVE FALSE
  OBVIOUS
<1>1. PICK t \in T : \A y \in SUBSET t : y # t => y \notin T
  <2> HIDE DEF T
  <2>1. T \subseteq SUBSET S
    BY DEF T
  <2> QED
    BY <2>1, Smallest
<1>2. PICK y \in t : Load(t) # Size[y] + Load(t \ {y})
  OBVIOUS
<1>3. \A s \in SUBSET t : s # t => \A z \in s : Load(s) = Size[z] + Load(s \ {z})
  BY <1>1
<1> HIDE DEF T
<1>4. t \in SUBSET Evals /\ IsFiniteSet(t) /\ t # {}
  BY <1>1, FS_Subset DEF T
<1> DEFINE p == First(t)
<1>5. p \in t /\ Others(t) = t \ {p}
  BY <1>4, FirstIsOne DEF Others
<1> HIDE DEF p
<1>6. Load(t) = Size[p] + Load(t \ {p})
  BY <1>4, <1>5, LoadOfFirst DEF p
<1>7. p # y
  BY <1>2, <1>6
<1>8. Load(t \ {p}) = Size[y] + Load((t \ {p}) \ {y})
  BY <1>3, <1>5, <1>7
<1>9. Load(t \ {y}) = Size[p] + Load((t \ {y}) \ {p})
  BY <1>3, <1>5, <1>7
<1>10. PICK rest : rest = (t \ {y}) \ {p} /\ rest = (t \ {p}) \ {y}
  OBVIOUS
<1>11. Size[y] \in Nat /\ Size[p] \in Nat /\ Load(rest) \in Nat
  <2>1. rest \in SUBSET Evals /\ IsFiniteSet(rest)
    BY <1>4, <1>10, FS_Subset
  <2>2. QED
    BY <1>4, <1>5, <2>1, LoadOfFirst, SizeAssumption
<1>12. Load(t) = Size[p] + (Size[y] + Load(rest))
  BY <1>6, <1>8, <1>10
<1>13. Size[y] + Load(t \ {y}) = Size[y] + (Size[p] + Load(rest))
  BY <1>9, <1>10
<1>14. Size[p] + (Size[y] + Load(rest)) = Size[y] + (Size[p] + Load(rest))
  BY <1>11
<1>15. QED
  BY <1>2, <1>12, <1>13, <1>14

\* Fewer runs are no heavier load.
LEMMA LoadGrows ==
    ASSUME NEW S \in SUBSET Evals, IsFiniteSet(S), NEW R \in SUBSET S
    PROVE  Load(R) <= Load(S)
<1> DEFINE T == {s \in SUBSET S : \E r \in SUBSET s : ~(Load(r) <= Load(s))}
<1> SUFFICES ASSUME T # {} PROVE FALSE
  OBVIOUS
<1>1. PICK t \in T : \A y \in SUBSET t : y # t => y \notin T
  <2> HIDE DEF T
  <2>1. T \subseteq SUBSET S
    BY DEF T
  <2> QED
    BY <2>1, Smallest
<1>2. PICK r \in SUBSET t : ~(Load(r) <= Load(t))
  OBVIOUS
<1>3. \A s \in SUBSET t : s # t => \A q \in SUBSET s : Load(q) <= Load(s)
  BY <1>1
<1> HIDE DEF T
<1>4. t \in SUBSET Evals /\ IsFiniteSet(t) /\ Load(t) \in Nat
  BY <1>1, FS_Subset, LoadOfFirst DEF T
<1>5. r # t
  BY <1>2, <1>4
<1>6. PICK x \in t : x \notin r
  BY <1>5
<1>7. Load(r) <= Load(t \ {x})
  BY <1>3, <1>6
<1>8. Load(t) = Size[x] + Load(t \ {x})
  BY <1>4, LoadOfAny
<1>9. /\ Size[x] \in Nat
      /\ Load(t \ {x}) \in Nat /\ Load(r) \in Nat
  <2>1. \A s \in SUBSET t : s \in SUBSET Evals /\ IsFiniteSet(s)
    BY <1>4, FS_Subset
  <2>2. Size[x] \in Nat
    BY <1>4, SizeAssumption
  <2>3. t \ {x} \in SUBSET t
    OBVIOUS
  <2>4. QED
    BY <2>1, <2>2, <2>3, LoadOfFirst
<1>10. QED
  BY <1>2, <1>7, <1>8, <1>9

-----------------------------------------------------------------------------

Fitting ==
    LET mine == live' \cap em'.procs
    IN  \/ Cardinality(mine) = 1
        \/ MapThenSumSet(LAMBDA x : Size[x], mine) <= budget'

Within == (live' \ live) \cap Evals # {} => Fitting

\* A pump admits a run only if it fits, or is alone.
LEMMA PumpFits ==
    ASSUME NEW owner \in Perfs \cup {None}, NEW tasks \in Tasks, NEW books \in EvalBooks,
           Agree(books, tasks), IsFiniteSet(books.procs), budget' \in Nat,
           Pump(owner, tasks, books)
    PROVE  Within /\ IsFiniteSet(em'.procs)
<1> DEFINE x == Head(books.queue)
<1>1. CASE Admits(books) /\ Launch(x, owner, tasks, books)
  <2>1. x \in Evals /\ tasks[x].at = "waiting"
    BY <1>1, PoppedRuns DEF Admits, EvalBooks, Agree
  <2>2. x \notin books.procs
    BY <2>1 DEF Agree
  <2>3. \/ em'.procs = books.procs \cup {x} /\ live' = live \cup {x}
        \/ em'.procs = books.procs /\ live' = live
    BY <1>1 DEF Launch, EvalBooks
  <2>4. Fits(books)
    BY <1>1 DEF Admits
  <2> HIDE DEF x
  <2>5. IsFiniteSet(em'.procs)
    BY <2>3, FS_AddElement
  <2>6. books.procs \subseteq Evals /\ books.procs \cap books.batch = books.procs
    BY DEF EvalBooks, Agree
  <2>7. ASSUME (live' \ live) \cap Evals # {}
        PROVE  Fitting
    <3> DEFINE mine == live' \cap em'.procs
               all == books.procs \cup {x}
    <3>1. em'.procs = all /\ x \in mine
      BY <2>3, <2>7
    <3>2. CASE books.procs = {}
      <4>1. mine = {x}
        BY <3>1, <3>2
      <4>2. QED
        BY <4>1, FS_Singleton DEF Fitting
    <3>3. CASE InUse(books) + Size[x] <= budget'
      <4>1. InUse(books) = Load(books.procs)
        BY <2>6 DEF InUse, Load
      <4>2. all \in SUBSET Evals /\ IsFiniteSet(all) /\ all \ {x} = books.procs /\ x \in all
        BY <2>1, <2>2, <2>5, <2>6, <3>1
      <4>3. Load(all) = Size[x] + Load(books.procs)
        BY <4>2, LoadOfAny
      <4>4. mine \in SUBSET all
        BY <3>1
      <4>5. Load(mine) <= Load(all)
        BY <4>2, <4>4, LoadGrows
      <4>6. Load(books.procs) \in Nat /\ Load(mine) \in Nat /\ Size[x] \in Nat
        BY <2>1, <2>6, <4>2, <4>4, LoadOfFirst, FS_Subset, SizeAssumption
      <4>7. Load(mine) <= budget'
        BY <3>3, <4>1, <4>3, <4>5, <4>6
      <4>8. QED
        BY <4>7 DEF Fitting, Load
    <3>4. QED
      BY <2>4, <3>2, <3>3 DEF Fits, x
  <2>8. QED
    BY <2>5, <2>7 DEF Within
<1>2. CASE em' = books /\ live' = live
  BY <1>2 DEF Within
<1>3. QED
  BY <1>1, <1>2 DEF Pump

BudgetInv == BooksInv /\ IsFiniteSet(em.procs)

\* The steps of an evaluation that end in a pump.
LEMMA EvalPumps ==
    ASSUME BooksInv, NEW x \in Evals, EvalStart(x) \/ Started(x) \/ EvalFinished(x)
    PROVE  \E owner \in Perfs \cup {None}, tasks \in Tasks, books \in EvalBooks :
              /\ Agree(books, tasks) /\ books.procs = em.procs
              /\ Pump(owner, tasks, books)
<1>1. /\ em \in EvalBooks /\ task \in Tasks /\ x \in Runs /\ Agree(em, task)
      /\ {"waiting", "watched", "over"} \subseteq Stage
  BY DEF BooksInv, TypeOK, Books, Runs, Stage
<1>2. CASE EvalStart(x)
  <2> DEFINE books == [em EXCEPT !.queue = Append(@, x), !.pending = @ \cup {x},
                                 !.batch = @ \cup {x}]
             tasks == [task EXCEPT ![x] = At("waiting")]
  <2>1. Pump(None, tasks, books) /\ task[x].at = "new"
    BY <1>2 DEF EvalStart
  <2>2. /\ tasks \in Tasks /\ tasks[x].at = "waiting"
        /\ \A s \in Runs \ {x} : tasks[s] = task[s]
    BY <1>1, TaskMoves
  <2>3. /\ Append(em.queue, x) \in Seq(Evals)
        /\ IsInjective(Append(em.queue, x))
        /\ ToSet(Append(em.queue, x)) = em.pending \cup {x}
        /\ x \notin em.procs
    BY <1>1, <2>1, AppendedRun DEF EvalBooks, Agree
  <2>4. /\ books \in EvalBooks
        /\ books.queue = Append(em.queue, x)
        /\ books.pending = em.pending \cup {x}
        /\ books.batch = em.batch \cup {x}
        /\ books.procs = em.procs
    BY <1>1, <2>3 DEF EvalBooks
  <2> HIDE DEF books, tasks
  <2>5. Agree(books, tasks)
    BY <1>1, <2>1, <2>2, <2>3, <2>4 DEF Agree, Runs
  <2>6. QED
    BY <2>1, <2>2, <2>4, <2>5
<1>3. ASSUME NEW stage \in {"watched", "over"}, NEW owner \in Perfs \cup {None},
             task[x].at \in Final => stage = "over",
             task[x].at \notin Final => task[x].at = "starting" /\ stage = "watched",
             Pump(owner, [task EXCEPT ![x] = At(stage)], em)
      PROVE  \E tasks \in Tasks : Agree(em, tasks) /\ Pump(owner, tasks, em)
  <2> DEFINE tasks == [task EXCEPT ![x] = At(stage)]
  <2>1. /\ tasks \in Tasks /\ tasks[x].at = stage
        /\ \A s \in Runs \ {x} : tasks[s] = task[s]
    BY <1>1, <1>3, TaskMoves
  <2>2. Pump(owner, tasks, em)
    BY <1>3
  <2> HIDE DEF tasks
  <2>3. Agree(em, tasks)
    BY <1>1, <1>3, <2>1 DEF Agree, Runs, Final
  <2>4. QED
    BY <2>1, <2>2, <2>3
<1>4. CASE Started(x)
  <2>1. task[x].for \in Perfs \cup {None}
    BY <1>1 DEF Tasks
  <2>2. \E tasks \in Tasks : Agree(em, tasks) /\ Pump(task[x].for, tasks, em)
    BY <1>3, <1>4, <2>1 DEF Started, Final
  <2>3. QED
    BY <1>1, <2>1, <2>2
<1>5. CASE EvalFinished(x)
  <2>1. \E tasks \in Tasks : Agree(em, tasks) /\ Pump(None, tasks, em)
    BY <1>3, <1>5 DEF EvalFinished
  <2>2. QED
    BY <1>1, <2>1
<1>6. QED
  BY <1>2, <1>4, <1>5

LEMMA NextFits ==
    ASSUME BudgetInv, [Next]_vars
    PROVE  BudgetInv' /\ Within
<1>1. BooksInv' /\ budget' \in Nat
  BY NextKeepsBooks, BudgetsAssumption DEF BudgetInv, BooksInv, TypeOK
<1>2. /\ em \in EvalBooks /\ task \in Tasks /\ Agree(em, task)
      /\ IsFiniteSet(em.procs)
  BY DEF BudgetInv, BooksInv, TypeOK, Books
<1> DEFINE Kept == Within /\ IsFiniteSet(em'.procs)
<1>3. ASSUME NEW x \in Evals, EvalStart(x) \/ CancelQueued(x) \/ EvalStep(x)
      PROVE  Kept
  <2>1. CASE EvalStart(x) \/ Started(x) \/ EvalFinished(x)
    BY <1>1, <1>2, <2>1, EvalPumps, PumpFits DEF BudgetInv
  <2>2. CASE CancelQueued(x) \/ StartedRaises(x) \/ WatchEval(x) \/ Dropped(x)
    <3>1. em'.procs \subseteq em.procs /\ live' = live
      BY <1>2, <2>2 DEF CancelQueued, StartedRaises, WatchEval, Dropped, EvalBooks
    <3>2. QED
      BY <1>2, <3>1, FS_Subset DEF Within
  <2>3. QED
    BY <1>3, <2>1, <2>2 DEF EvalStep
<1>4. ASSUME NEW p \in Perfs, PerfStart(p) \/ PerfStep(p)
      PROVE  Kept
  <2>1. CASE WatchPerf(p)
    BY <1>1, <1>2, <2>1, PumpFits DEF WatchPerf
  <2>2. CASE PerfStart(p) \/ PerfLaunched(p) \/ PerfFinished(p)
    BY <1>2, <2>2, RunsAssumption DEF PerfStart, PerfLaunched, PerfFinished, Within
  <2>3. QED
    BY <1>4, <2>1, <2>2 DEF PerfStep
<1>5. ASSUME NEW r \in Runs, CancelRunning(r) \/ DeleteRow(r) \/ ProcExits(r)
      PROVE  Kept
  BY <1>2, <1>5 DEF CancelRunning, DeleteRow, ProcExits, Within
<1>6. ASSUME NEW b \in Budgets, SetBudget(b)
      PROVE  Kept
  BY <1>1, <1>2, <1>6, PumpFits DEF SetBudget
<1>7. ASSUME Restart
      PROVE  Kept
  BY <1>7, FS_EmptySet DEF Restart, Empty, Within
<1>8. ASSUME UNCHANGED vars
      PROVE  Kept
  BY <1>2, <1>8 DEF vars, Within
<1>9. Kept
  <2> HIDE DEF Kept
  <2> QED
    BY <1>3, <1>4, <1>5, <1>6, <1>7, <1>8 DEF Next
<1>10. QED
  BY <1>1, <1>9 DEF BudgetInv

\* A launch takes the processes that exist over the concurrency budget only
\* when the run it launches is alone, however many pumps are under way and
\* whatever the budget is changed to.
THEOREM BudgetIsKept == Spec => NeverOvercommits
<1>1. Init => BudgetInv
  BY InitBooks, FS_EmptySet DEF Init, Empty, BudgetInv
<1>2. BudgetInv /\ [Next]_vars => BudgetInv'
  BY NextFits
<1>3. BudgetInv /\ [Next]_vars =>
        [(live' \ live) \cap Evals # {} =>
            LET mine == live' \cap em'.procs
            IN  \/ Cardinality(mine) = 1
                \/ MapThenSumSet(LAMBDA x : Size[x], mine) <= budget']_vars
  BY NextFits DEF Within, Fitting
<1>4. QED
  BY <1>1, <1>2, <1>3, PTL DEF Spec, NeverOvercommits
=============================================================================
