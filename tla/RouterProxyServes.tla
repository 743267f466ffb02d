-------------------------- MODULE RouterProxyServes --------------------------
(***************************************************************************)
(* Failover and fallback of RouterProxy reach a healthy instance, proved   *)
(* for any chain of groups, any number of requests and replicas, and every *)
(* mixture of refusals, 5xx answers, sleeping and draining instances.      *)
(***************************************************************************)
EXTENDS RouterProxyCounts

-----------------------------------------------------------------------------
\* Group p holds a healthy instance that the attempts of one request must reach.
Reaches(p) == Chain[p] \cap Healthy # {} /\ Cardinality(Chain[p]) <= 3

NoneReaches(p) == \A n \in 1..p : ~Reaches(n)

\* What a frame knows: groups it has left behind reach no healthy instance, the
\* attempts of this group failed at instances that are not healthy, and a failure
\* it is about to report is one that no healthy instance could have prevented.
FrameOK(q) ==
    /\ NoneReaches(q.pos - 1)
    /\ q.at = "new" => q.pos = 1 /\ q.tried = {} /\ q.reply = "ok"
    /\ q.at \in {"opening", "closing"} =>
          /\ q.tried \subseteq Chain[q.pos] /\ q.inst \in q.tried
          /\ (q.tried \ {q.inst}) \cap Healthy = {} /\ q.reply = "ok"
    /\ q.at = "closing" => q.inst \notin Healthy
    /\ q.at = "error" \/ q.reply = "error" => ~Reaches(q.pos)
    /\ q.at \in {"refused", "failed"} \/ q.reply = "failed" => NoneReaches(Len(Chain))

HealthyAwake ==
    /\ \A i \in Healthy : engine[i] # "asleep"
    /\ \A rt \in Routers : asleep[rt] \cap Healthy = {}

ServesInv == TypeOK /\ HealthyAwake /\ \A r \in Reqs : FrameOK(req[r])

-----------------------------------------------------------------------------
\* The loops.

\* An exhausted group reaches nothing: its healthy instance would be left over.
LEMMA ExhaustedGroup ==
    ASSUME HealthyAwake, NEW q \in Request, NEW p \in 1..Len(Chain),
           q.tried \cap Healthy = {}, Awake(q, p) = {}
    PROVE  ~Reaches(p)
<1>1. asleep[q.rt] \cap Healthy = {}
  BY DEF HealthyAwake, Request
<1> QED
  BY <1>1 DEF Awake, Reaches

\* The last attempt of a group of at most three has tried all of it.
LEMMA LastAttemptTriesAll ==
    ASSUME NEW q \in Request, q.tried \subseteq Chain[q.pos], q.tried \cap Healthy = {},
           LastAttempt(q)
    PROVE  ~Reaches(q.pos)
<1> SUFFICES ASSUME Reaches(q.pos) PROVE FALSE
  OBVIOUS
<1>1. q.pos \in 1..Len(Chain)
  BY ChainDomain DEF Request
<1>2. IsFiniteSet(Chain[q.pos])
  BY <1>1, ChainDomain, ChainAssumption, FS_Subset
<1>3. Cardinality(q.tried) <= Cardinality(Chain[q.pos])
      /\ Cardinality(q.tried) \in Nat /\ Cardinality(Chain[q.pos]) \in Nat
      /\ (Cardinality(Chain[q.pos]) = Cardinality(q.tried) => Chain[q.pos] = q.tried)
  BY <1>2, FS_Subset, FS_CardinalityType
<1>4. Cardinality(q.tried) >= Cardinality(Chain[q.pos])
  BY <1>3 DEF LastAttempt, MaxAttempts, Reaches
<1>5. Chain[q.pos] = q.tried
  BY <1>3, <1>4
<1> QED
  BY <1>5 DEF Reaches

\* What the loops may be entered with.
Entered(q, p) ==
    /\ q.tried \cap Healthy = {} /\ q.tried \subseteq Chain[q.pos] /\ q.reply = "ok"
    /\ p \in Nat /\ p >= 1 /\ NoneReaches(p - 1) /\ q.pos \in {p, p - 1}

LEMMA AttemptServes ==
    ASSUME ServesInv, NEW r \in Reqs, NEW q \in Request, NEW p, NEW load, Entered(q, p),
           NEW n \in p..Len(Chain), \A m \in p..(n - 1) : Awake(q, m) = {},
           Attempt(r, q, n, load)
    PROVE  \E x \in Request : req' = [req EXCEPT ![r] = x] /\ FrameOK(x)
<1>1. PICK i \in Eligible(q.rt, Awake(q, n)) :
          req' = [req EXCEPT ![r] =
                [q EXCEPT !.at = "opening", !.pos = n, !.inst = i,
                          !.tried = (IF n = q.pos THEN @ ELSE {}) \cup {i},
                          !.stale = IF n = q.pos THEN @ ELSE "no",
                          !.lastResort = Awake(q, n) \subseteq marks[q.rt]]]
  BY DEF Attempt
<1> DEFINE x == [q EXCEPT !.at = "opening", !.pos = n, !.inst = i,
                          !.tried = (IF n = q.pos THEN @ ELSE {}) \cup {i},
                          !.stale = IF n = q.pos THEN @ ELSE "no",
                          !.lastResort = Awake(q, n) \subseteq marks[q.rt]]
<1>2. n \in 1..Len(Chain) /\ p..(n - 1) \subseteq 1..Len(Chain)
  BY ChainDomain DEF Entered
<1>3. i \in Instances /\ i \in Chain[n]
  BY <1>2, EligibleAreInstances DEF ServesInv
<1>4. /\ x \in Request /\ x.at = "opening" /\ x.pos = n /\ x.inst = i /\ x.reply = "ok"
      /\ x.tried = (IF n = q.pos THEN q.tried ELSE {}) \cup {i}
  BY <1>2, <1>3, ChainDomain DEF Request, Open, Entered
<1>5. \A m \in p..(n - 1) : ~Reaches(m)
  BY <1>2, ExhaustedGroup DEF Entered, ServesInv
<1>6. NoneReaches(n - 1)
  BY <1>2, <1>5 DEF NoneReaches, Entered
<1>7. x.tried \subseteq Chain[n] /\ i \in x.tried /\ (x.tried \ {i}) \cap Healthy = {}
  BY <1>3, <1>4 DEF Entered
<1>8. FrameOK(x)
  BY <1>4, <1>6, <1>7 DEF FrameOK
<1> QED
  BY <1>1, <1>4, <1>8

LEMMA NoneLeftServes ==
    ASSUME ServesInv, NEW r \in Reqs, NEW q \in Request, NEW p, NEW load, Entered(q, p),
           \A m \in p..Len(Chain) : Awake(q, m) = {}, NoneLeft(r, q, p, load),
           NoneReaches(q.pos - 1)
    PROVE  \E x \in Request : req' = [req EXCEPT ![r] = x] /\ FrameOK(x)
<1>1. NoneReaches(Len(Chain))
  <2>1. \A m \in p..Len(Chain) : m \in 1..Len(Chain)
    BY ChainDomain DEF Entered
  <2>2. \A m \in p..Len(Chain) : ~Reaches(m)
    BY <2>1, ExhaustedGroup DEF Entered, ServesInv
  <2> QED
    BY <2>2, ChainDomain DEF NoneReaches, Entered
<1>2. q.pos \in 1..Len(Chain)
  BY ChainDomain DEF Request
<1>3. ASSUME NEW at \in {"failed", "refused", "handed"}, NEW reply \in {"ok", "failed"},
             NEW x, x = [Settled(q, at) EXCEPT !.reply = reply]
      PROVE  x \in Request /\ FrameOK(x)
  <2>1. x \in Request /\ x.at = at /\ x.reply = reply /\ x.pos = q.pos
    BY <1>3 DEF Settled, Request, Open, Ended
  <2> QED
    BY <1>1, <1>2, <2>1 DEF FrameOK
<1>4. \A at \in {"failed", "refused"} :
         Settled(q, at) = [Settled(q, at) EXCEPT !.reply = "ok"]
  BY DEF Settled, Request, Entered
<1>5. \E at \in {"failed", "refused", "handed"}, reply \in {"ok", "failed"} :
         req' = [req EXCEPT ![r] = [Settled(q, at) EXCEPT !.reply = reply]]
  <2>1. \/ req' = [req EXCEPT ![r] = Settled(q, "failed")]
        \/ req' = [req EXCEPT ![r] = [Settled(q, "handed") EXCEPT !.reply = "failed"]]
        \/ req' = [req EXCEPT ![r] = Settled(q, "refused")]
    BY DEF NoneLeft
  <2> QED
    BY <2>1, <1>4
<1> QED
  BY <1>3, <1>5

LEMMA ProceedServes ==
    ASSUME ServesInv, NEW r \in Reqs, NEW q \in Request, NEW p, NEW load, Entered(q, p),
           NoneReaches(q.pos - 1), Proceed(r, q, p, load)
    PROVE  \E x \in Request : req' = [req EXCEPT ![r] = x] /\ FrameOK(x)
<1> DEFINE able == {n \in p..Len(Chain) : Awake(q, n) # {}}
<1>1. CASE \E n \in able : (\A m \in able : n <= m) /\ Attempt(r, q, n, load)
  <2>1. PICK n \in able : (\A m \in able : n <= m) /\ Attempt(r, q, n, load)
    BY <1>1
  <2>2. \A m \in p..(n - 1) : Awake(q, m) = {}
    BY <2>1, ChainDomain DEF Entered
  <2> QED
    BY <2>1, <2>2, AttemptServes
<1>2. CASE able = {} /\ NoneLeft(r, q, p, load)
  <2>1. \A m \in p..Len(Chain) : Awake(q, m) = {}
    BY <1>2
  <2> QED
    BY <1>2, <2>1, NoneLeftServes
<1> QED
  BY <1>1, <1>2 DEF Proceed

-----------------------------------------------------------------------------
\* The steps of a request.

LEMMA FailedAttemptEnters ==
    ASSUME ServesInv, NEW r \in Reqs, req[r].at \in {"opening", "closing"},
           req[r].inst \notin Healthy
    PROVE  /\ Entered(req[r], req[r].pos) /\ NoneReaches(req[r].pos - 1)
           /\ LastAttempt(req[r]) => ~Reaches(req[r].pos)
<1> DEFINE q == req[r]
<1>1. q \in Request /\ FrameOK(q)
  BY DEF ServesInv, TypeOK
<1>2. q.tried \cap Healthy = {} /\ q.tried \subseteq Chain[q.pos] /\ q.reply = "ok"
      /\ NoneReaches(q.pos - 1)
  BY <1>1 DEF FrameOK
<1>3. q.pos \in Nat /\ q.pos >= 1
  BY <1>1, ChainDomain DEF Request
<1> QED
  BY <1>1, <1>2, <1>3, LastAttemptTriesAll DEF Entered

LEMMA ServeServes ==
    ASSUME ServesInv, NEW r \in Reqs, NEW type, NEW reply \in {"ok", "error"},
           Serve(r, type, reply), req[r].at = "opening",
           reply = "error" => ~Reaches(req[r].pos)
    PROVE  \E x \in Request : req' = [req EXCEPT ![r] = x] /\ FrameOK(x)
<1> DEFINE at == IF type = "sse" THEN "handed" ELSE "reading"
           x == [Settled(req[r], at) EXCEPT !.reply = reply]
<1>1. req[r] \in Request /\ FrameOK(req[r])
  BY DEF ServesInv, TypeOK
<1>2. x \in Request /\ x.at = at /\ x.reply = reply /\ x.pos = req[r].pos
  BY <1>1 DEF Settled, Request, Open
<1>3. FrameOK(x)
  BY <1>1, <1>2 DEF FrameOK
<1>4. req' = [req EXCEPT ![r] = x]
  BY DEF Serve, ServesInv, TypeOK
<1> QED
  BY <1>2, <1>3, <1>4

\* A step past the loops: only `at` and perhaps `reply` change.
LEMMA LaterServes ==
    ASSUME ServesInv, NEW r \in Reqs,
           NEW at \in {"exiting", "streaming", "dropped", "broken", "ok", "error", "failed"},
           NEW reply \in {req[r].reply, "broken"},
           req' = [req EXCEPT ![r].at = at, ![r].reply = reply],
           at = "error" => req[r].reply = "error",
           at = "failed" => req[r].reply = "failed"
    PROVE  \E x \in Request : req' = [req EXCEPT ![r] = x] /\ FrameOK(x)
<1> DEFINE x == [req[r] EXCEPT !.at = at, !.reply = reply]
<1>1. req[r] \in Request /\ FrameOK(req[r])
  BY DEF ServesInv, TypeOK
<1>2. x \in Request /\ x.at = at /\ x.reply = reply /\ x.pos = req[r].pos
  BY <1>1 DEF Request, Open, Ended
<1>3. FrameOK(x)
  BY <1>1, <1>2 DEF FrameOK
<1>4. req' = [req EXCEPT ![r] = x]
  BY DEF ServesInv, TypeOK
<1> QED
  BY <1>2, <1>3, <1>4

LEMMA RequestServes ==
    ASSUME ServesInv, NEW r \in Reqs, RequestStep(r)
    PROVE  \E x \in Request : req' = [req EXCEPT ![r] = x] /\ FrameOK(x)
<1> DEFINE q == req[r]
           Fine == \E x \in Request : req' = [req EXCEPT ![r] = x] /\ FrameOK(x)
<1>1. q \in Request /\ FrameOK(q) /\ req \in [Reqs -> Request]
  BY DEF ServesInv, TypeOK
<1>2. q.pos \in Nat /\ q.pos >= 1 /\ q.pos \in 1..Len(Chain)
  BY <1>1, ChainDomain DEF Request
<1>3. CASE Arrive(r)
  <2>1. Entered(q, 1) /\ NoneReaches(q.pos - 1)
    <3>1. q.pos = 1 /\ q.tried = {} /\ q.reply = "ok" /\ q.at = "new"
      BY <1>1, <1>3 DEF FrameOK, Arrive
    <3> QED
      BY <1>1, <1>2, <3>1 DEF Entered, FrameOK, NoneReaches
  <2> QED
    BY <1>1, <1>3, <2>1, ProceedServes DEF Arrive
<1>4. CASE Unreachable(r)
  <2> DEFINE y == [q EXCEPT !.stale = "no"]
  <2>1. Entered(q, q.pos) /\ NoneReaches(q.pos - 1) /\ (LastAttempt(q) => ~Reaches(q.pos))
    BY <1>4, FailedAttemptEnters DEF Unreachable
  <2>2. y \in Request /\ y.pos = q.pos /\ y.tried = q.tried /\ y.reply = q.reply
    BY <1>1 DEF Request
  <2>3. LastAttempt(q) => Entered(y, q.pos + 1) /\ NoneReaches(y.pos - 1)
    BY <1>2, <2>1, <2>2 DEF Entered, NoneReaches
  <2> QED
    BY <1>1, <1>4, <2>1, <2>2, <2>3, ProceedServes DEF Unreachable
<1>5. CASE Answered(r)
  BY <1>5, ServeServes DEF Answered
<1>6. CASE ServerError(r)
  <2>1. q.at = "opening" /\ q.inst \notin Healthy
    BY <1>6 DEF ServerError
  <2>2. PICK type \in ErrorTypes :
           IF LastAttempt(q) THEN Serve(r, type, "error")
           ELSE req' = [req EXCEPT ![r].at = "closing", ![r].stale = type]
    BY <1>6 DEF ServerError
  <2>3. CASE LastAttempt(q)
    BY <2>1, <2>2, <2>3, FailedAttemptEnters, ServeServes
  <2>4. CASE ~LastAttempt(q)
    <3> DEFINE x == [q EXCEPT !.at = "closing", !.stale = type]
    <3>1. /\ x \in Request /\ x.at = "closing" /\ x.pos = q.pos /\ x.tried = q.tried
          /\ x.inst = q.inst /\ x.reply = q.reply
      BY <1>1, TypeErrors DEF Request, Open
    <3>2. FrameOK(x)
      BY <1>1, <2>1, <3>1 DEF FrameOK
    <3>3. req' = [req EXCEPT ![r] = x]
      BY <1>1, <2>2, <2>4
    <3> QED
      BY <3>1, <3>2, <3>3
  <2> QED
    BY <2>3, <2>4
<1>7. CASE Closed(r)
  <2>1. q.inst \notin Healthy /\ q.at = "closing"
    BY <1>1, <1>7 DEF FrameOK, Closed
  <2>2. Entered(q, q.pos) /\ NoneReaches(q.pos - 1)
    BY <2>1, FailedAttemptEnters
  <2> QED
    BY <1>1, <1>7, <2>2, ProceedServes DEF Closed
<1>8. CASE BodyRead(r)
  <2>1. PICK end \in {q.reply, "broken"} :
           req' = [req EXCEPT ![r].at = "exiting", ![r].reply = end]
    BY <1>8 DEF BodyRead
  <2> QED
    BY <2>1, LaterServes
<1>9. ASSUME NEW at \in {"exiting", "streaming", "dropped", "broken", "ok", "error", "failed"},
             req' = [req EXCEPT ![r].at = at],
             at = "error" => q.reply = "error", at = "failed" => q.reply = "failed"
      PROVE  Fine
  <2>1. [q EXCEPT !.at = at] = [q EXCEPT !.at = at, !.reply = q.reply]
    BY <1>1 DEF Request
  <2>2. req' = [req EXCEPT ![r].at = at, ![r].reply = q.reply]
    BY <1>1, <1>9, <2>1
  <2> QED
    BY <1>9, <2>2, LaterServes
<1>10. q.reply \in {"ok", "error", "failed", "broken"}
  BY <1>1 DEF Request
<1>11. CASE Exited(r)
  BY <1>9, <1>10, <1>11 DEF Exited
<1>12. CASE StreamStarts(r)
  BY <1>9, <1>12 DEF StreamStarts
<1>13. CASE StreamEnds(r)
  <2>1. PICK end \in {q.reply, "broken"} : req' = [req EXCEPT ![r].at = end]
    BY <1>13 DEF StreamEnds
  <2> QED
    BY <1>9, <1>10, <2>1
<1>14. CASE HangsUp(r)
  BY <1>9, <1>14 DEF HangsUp
<1> QED
  BY <1>3, <1>4, <1>5, <1>6, <1>7, <1>8, <1>11, <1>12, <1>13, <1>14 DEF RequestStep

-----------------------------------------------------------------------------
\* The invariant and the theorem.

LEMMA HealthyStaysAwake ==
    ASSUME ServesInv, Next
    PROVE  HealthyAwake'
<1>1. Sleepable \cap Healthy = {} /\ Healthy \subseteq Instances
  BY RouterAssumption
<1>2. TypeOK /\ HealthyAwake
  BY DEF ServesInv
<1>3. CASE UNCHANGED <<engine, asleep>>
  BY <1>2, <1>3 DEF HealthyAwake
<1>4. ASSUME NEW i \in Instances, BackendStep(i)
      PROVE  HealthyAwake'
  <2>1. asleep' = asleep
    BY <1>4 DEF BackendStep
  <2>2. engine' = engine \/ engine' = [engine EXCEPT ![i] = "down"]
        \/ engine' = [engine EXCEPT ![i] = "up"] \/ SleepOrWake(i)
    BY <1>4 DEF BackendStep, StopBegins, DrainAnswered, DrainFails, Killed, Started,
                UndrainEnds, Marked, Unmarked
  <2>3. CASE SleepOrWake(i)
    BY <1>1, <1>2, <2>1, <2>3 DEF SleepOrWake, HealthyAwake, TypeOK
  <2> QED
    BY <1>1, <1>2, <2>1, <2>2, <2>3 DEF HealthyAwake, TypeOK
<1>5. ASSUME NEW rt \in Routers, PollStep(rt)
      PROVE  HealthyAwake'
  <2>1. engine' = engine
    BY <1>5 DEF PollStep
  <2>2. CASE asleep' = asleep
    BY <1>2, <2>1, <2>2 DEF HealthyAwake
  <2>3. CASE PollAsleep(rt)
    <3>1. PICK heard \in SUBSET {i \in Instances : engine[i] = "asleep"} :
             asleep' = [asleep EXCEPT ![rt] = heard]
      BY <2>3 DEF PollAsleep
    <3>2. heard \cap Healthy = {}
      BY <1>2, <3>1 DEF HealthyAwake
    <3> QED
      BY <1>2, <2>1, <3>1, <3>2 DEF HealthyAwake, TypeOK
  <2> QED
    BY <1>5, <2>2, <2>3 DEF PollStep, PollReads, PollRefreshes
<1>6. ASSUME NEW rt \in Routers, RouterRestarts(rt)
      PROVE  HealthyAwake'
  BY <1>2, <1>6 DEF RouterRestarts, HealthyAwake, TypeOK
<1>7. ASSUME NEW r \in Reqs, RequestStep(r)
      PROVE  HealthyAwake'
  BY <1>3, <1>7 DEF RequestStep
<1>8. ASSUME NEW i \in Instances, Expires(i),
             UNCHANGED <<req, inflight, engine, drain, restarts>>
      PROVE  HealthyAwake'
  BY <1>3, <1>8 DEF Expires
<1> QED
  BY <1>4, <1>5, <1>6, <1>7, <1>8 DEF Next

LEMMA FramesStayOK ==
    ASSUME ServesInv, Next
    PROVE  \A r \in Reqs : FrameOK(req'[r])
<1>1. req \in [Reqs -> Request] /\ \A r \in Reqs : FrameOK(req[r])
  BY DEF ServesInv, TypeOK
<1>2. ASSUME NEW r \in Reqs, RequestStep(r)
      PROVE  \A y \in Reqs : FrameOK(req'[y])
  BY <1>1, <1>2, RequestServes
<1>3. CASE req' = req
  BY <1>1, <1>3
<1>4. ASSUME NEW rt \in Routers, RouterRestarts(rt)
      PROVE  \A y \in Reqs : FrameOK(req'[y])
  <2> TAKE y \in Reqs
  <2>1. FrameOK([req[y] EXCEPT !.at = "broken"])
    <3>1. /\ [req[y] EXCEPT !.at = "broken"].at = "broken"
          /\ [req[y] EXCEPT !.at = "broken"].reply = req[y].reply
          /\ [req[y] EXCEPT !.at = "broken"].pos = req[y].pos
      BY <1>1 DEF Request
    <3> QED
      BY <1>1, <3>1 DEF FrameOK
  <2>2. req'[y] \in {req[y], [req[y] EXCEPT !.at = "broken"]}
    BY <1>4 DEF RouterRestarts
  <2> QED
    BY <1>1, <2>1, <2>2
<1>5. ASSUME NEW i \in Instances, BackendStep(i)
      PROVE  \A y \in Reqs : FrameOK(req'[y])
  BY <1>3, <1>5 DEF BackendStep
<1>6. ASSUME NEW rt \in Routers, PollStep(rt)
      PROVE  \A y \in Reqs : FrameOK(req'[y])
  BY <1>3, <1>6 DEF PollStep
<1> QED
  BY <1>2, <1>3, <1>4, <1>5, <1>6 DEF Next

LEMMA InitServes == Init => ServesInv
<1> SUFFICES ASSUME Init PROVE ServesInv
  OBVIOUS
<1>1. \A r \in Reqs : req[r].at = "new" /\ req[r].tried = {} /\ req[r].pos = 1
                      /\ req[r].reply = "ok"
  BY DEF Init
<1>2. \A r \in Reqs : FrameOK(req[r])
  BY <1>1 DEF FrameOK, NoneReaches
<1>3. HealthyAwake
  BY RouterAssumption DEF Init, HealthyAwake
<1> QED
  BY <1>2, <1>3, InitTyped DEF ServesInv

LEMMA ServesSuffices == ServesInv => HealthyServes
<1> SUFFICES ASSUME ServesInv, NEW r \in Reqs, NEW p \in DOMAIN Chain, Reaches(p)
             PROVE  /\ req[r].at \notin {"refused", "failed"}
                    /\ req[r].at = "error" => req[r].pos < p
  BY DEF HealthyServes, Reaches
<1>1. FrameOK(req[r]) /\ p \in 1..Len(Chain) /\ req[r].pos \in 1..Len(Chain)
  BY ChainDomain DEF ServesInv, TypeOK, Request
<1>2. req[r].at \notin {"refused", "failed"}
  BY <1>1 DEF FrameOK, NoneReaches
<1>3. ASSUME req[r].at = "error" PROVE req[r].pos < p
  BY <1>1, <1>3, ChainDomain DEF FrameOK, NoneReaches
<1> QED
  BY <1>2, <1>3

\* A request never ends unserved when some group of at most three instances holds
\* a healthy one, unless an earlier group answered it with a 5xx: for any chain,
\* under all failures, stops, sleeps, drains and restarts of the others.
THEOREM HealthyInstanceServes == Spec => []HealthyServes
<1>1. ServesInv /\ [Next]_vars => ServesInv'
  <2> SUFFICES ASSUME ServesInv, [Next]_vars PROVE ServesInv'
    OBVIOUS
  <2>1. CASE UNCHANGED vars
    BY <2>1 DEF vars, ServesInv, TypeOK, HealthyAwake
  <2>2. CASE Next
    <3>1. TypeOK'
      BY <2>2, RequestStepTyped, BackendStepTyped, PollStepTyped, ExpiryTyped, RestartTyped
         DEF Next, ServesInv
    <3> QED
      BY <2>2, <3>1, HealthyStaysAwake, FramesStayOK DEF ServesInv
  <2> QED
    BY <2>1, <2>2
<1> QED
  BY <1>1, InitServes, ServesSuffices, PTL DEF Spec
=============================================================================
