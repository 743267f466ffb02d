-------------------------- MODULE RouterProxyCounts --------------------------
(***************************************************************************)
(* Type correctness of RouterProxy, the exactness of the in-flight counts, *)
(* and the idleness of a drained instance, for any number of requests,     *)
(* groups and instances, and but for the last of replicas.                 *)
(***************************************************************************)
EXTENDS RouterProxy, FiniteSetTheorems, TLAPS

-----------------------------------------------------------------------------
\* The route chain and the values that stand for "not written yet".

LEMMA ChainDomain == /\ DOMAIN Chain = 1..Len(Chain) /\ Len(Chain) \in Nat
                     /\ 1 \in 1..Len(Chain)
                     /\ \A p \in 1..Len(Chain) : Chain[p] \subseteq Instances
BY ChainAssumption

LEMMA Defaults == AnInstance \in Instances /\ ARouter \in Routers
<1>1. Instances # {}
  BY ChainAssumption, ChainDomain
<1>2. Routers # {}
  BY RouterAssumption
<1> QED
  BY <1>1, <1>2 DEF AnInstance, ARouter

-----------------------------------------------------------------------------
\* In-flight counts stay numbers.

Loads == [Routers -> [Instances -> Nat]]

LEMMA LoadsTyped ==
    ASSUME NEW load \in Loads, NEW rt \in Routers, NEW i \in Instances
    PROVE  Incr(load, rt, i) \in Loads /\ Decr(load, rt, i) \in Loads
BY DEF Incr, Decr, Loads

LEMMA ReleasedTyped ==
    ASSUME TypeOK, NEW r \in Reqs
    PROVE  Released(r) \in Loads
<1>1. req[r] \in Request /\ inflight \in Loads
  BY DEF TypeOK, Loads
<1> QED
  BY <1>1, LoadsTyped DEF Released, Request

\* What one turn of the loops may leave behind: an attempt that is counted, or a
\* request that ended without one.  Only a stale event stream is handed on.
Lands(r, q, load) ==
    \E x \in Request :
        /\ req' = [req EXCEPT ![r] = x] /\ x.rt = q.rt /\ x.stale \in {"no", q.stale}
        /\ \/ /\ x.at = "opening" /\ x.reply = q.reply /\ inflight' = Incr(load, x.rt, x.inst)
              /\ x.inst \in marks[x.rt] => x.lastResort
           \/ x.at \in {"failed", "refused"} /\ x.reply = q.reply /\ inflight' = load
           \/ x.at = "handed" /\ x.reply = "failed" /\ q.stale = "sse" /\ inflight' = load

LEMMA SettledTyped ==
    ASSUME NEW q \in Request, NEW at \in Open \cup Ended
    PROVE  Settled(q, at) \in Request /\ Settled(q, at).rt = q.rt
           /\ Settled(q, at).at = at /\ Settled(q, at).inst = q.inst
           /\ Settled(q, at).stale = "no" /\ Settled(q, at).reply = q.reply
           /\ Settled(q, at).lastResort = q.lastResort
BY DEF Settled, Request

LEMMA EligibleAreInstances ==
    ASSUME TypeOK, NEW q \in Request, NEW p \in 1..Len(Chain),
           NEW i \in Eligible(q.rt, Awake(q, p))
    PROVE  i \in Instances /\ i \in Awake(q, p) /\ i \in Chain[p]
BY ChainDomain DEF Eligible, Awake

LEMMA AttemptLands ==
    ASSUME TypeOK, NEW r \in Reqs, NEW q \in Request, NEW p \in 1..Len(Chain),
           NEW load, Attempt(r, q, p, load)
    PROVE  Lands(r, q, load)
<1>1. PICK i \in Eligible(q.rt, Awake(q, p)) :
          /\ req' = [req EXCEPT ![r] =
                [q EXCEPT !.at = "opening", !.pos = p, !.inst = i,
                          !.tried = (IF p = q.pos THEN @ ELSE {}) \cup {i},
                          !.stale = IF p = q.pos THEN @ ELSE "no",
                          !.lastResort = Awake(q, p) \subseteq marks[q.rt]]]
          /\ inflight' = Incr(load, q.rt, i)
  BY DEF Attempt
<1>2. i \in Instances
  BY EligibleAreInstances
<1> DEFINE x == [q EXCEPT !.at = "opening", !.pos = p, !.inst = i,
                          !.tried = (IF p = q.pos THEN @ ELSE {}) \cup {i},
                          !.stale = IF p = q.pos THEN @ ELSE "no",
                          !.lastResort = Awake(q, p) \subseteq marks[q.rt]]
<1>3. x \in Request /\ x.rt = q.rt /\ x.at = "opening" /\ x.inst = i
      /\ x.reply = q.reply /\ x.stale \in {"no", q.stale}
      /\ x.lastResort = (Awake(q, p) \subseteq marks[q.rt])
  BY <1>2, ChainDomain DEF Request, Open
<1>4. i \in marks[q.rt] => Awake(q, p) \subseteq marks[q.rt]
  BY DEF Eligible
<1> QED
  BY <1>1, <1>3, <1>4 DEF Lands

LEMMA NoneLeftLands ==
    ASSUME TypeOK, NEW r \in Reqs, NEW q \in Request, NEW p, NEW load,
           NoneLeft(r, q, p, load)
    PROVE  Lands(r, q, load)
<1> DEFINE x == [Settled(q, "handed") EXCEPT !.reply = "failed"]
<1>1. Settled(q, "failed") \in Request /\ Settled(q, "refused") \in Request
      /\ Settled(q, "handed") \in Request /\ Settled(q, "handed").rt = q.rt
      /\ Settled(q, "failed").rt = q.rt /\ Settled(q, "refused").rt = q.rt
      /\ Settled(q, "failed").at = "failed" /\ Settled(q, "refused").at = "refused"
      /\ Settled(q, "handed").at = "handed"
      /\ Settled(q, "handed").stale = "no" /\ Settled(q, "failed").stale = "no"
      /\ Settled(q, "refused").stale = "no"
      /\ Settled(q, "failed").reply = q.reply /\ Settled(q, "refused").reply = q.reply
  BY SettledTyped DEF Open, Ended
<1>2. x \in Request /\ x.rt = q.rt /\ x.at = "handed" /\ x.reply = "failed"
      /\ x.stale = "no"
  BY <1>1 DEF Request
<1>3. inflight' = load
  BY DEF NoneLeft
<1>4. CASE p = Len(Chain) /\ q.stale = "json"
  <2>1. req' = [req EXCEPT ![r] = Settled(q, "failed")]
    BY <1>4 DEF NoneLeft
  <2> QED
    BY <2>1, <1>1, <1>3 DEF Lands
<1>5. CASE p = Len(Chain) /\ q.stale = "sse"
  <2>1. req' = [req EXCEPT ![r] = x]
    BY <1>5 DEF NoneLeft
  <2> QED
    BY <2>1, <1>2, <1>3, <1>5 DEF Lands
<1>6. CASE ~(p = Len(Chain) /\ q.stale \in {"json", "sse"})
  <2>1. req' = [req EXCEPT ![r] = Settled(q, "refused")]
    BY <1>6 DEF NoneLeft
  <2> QED
    BY <2>1, <1>1, <1>3 DEF Lands
<1> QED
  BY <1>4, <1>5, <1>6

LEMMA ProceedLands ==
    ASSUME TypeOK, NEW r \in Reqs, NEW q \in Request, NEW p \in Nat \ {0},
           NEW load, Proceed(r, q, p, load)
    PROVE  Lands(r, q, load)
<1>1. p..Len(Chain) \subseteq 1..Len(Chain)
  BY ChainDomain
<1>2. CASE \E n \in p..Len(Chain) : Attempt(r, q, n, load)
  BY <1>1, <1>2, AttemptLands
<1>3. CASE NoneLeft(r, q, p, load)
  BY <1>3, NoneLeftLands
<1> QED
  BY <1>2, <1>3 DEF Proceed

-----------------------------------------------------------------------------
\* What a step of a request does to its frame and to the counts: it turns the
\* loops, goes on with the same instance, ends and releases it, or is dropped.

Turns(r) ==
    \E q \in Request, load \in Loads :
        /\ Lands(r, q, load) /\ q.rt = req[r].rt
        /\ q.stale \in {"no", req[r].stale} /\ q.reply = req[r].reply
        /\ \/ req[r].at = "new" /\ load = inflight
           \/ req[r].at \in {"opening", "closing"} /\ load = Released(r)

GoesOn(r) ==
    /\ req[r].at \in Open /\ inflight' = inflight
    /\ \E x \in Request :
          /\ req' = [req EXCEPT ![r] = x] /\ x.rt = req[r].rt /\ x.inst = req[r].inst
          /\ x.at \in Open /\ x.stale \in {"no", req[r].stale} \cup ErrorTypes
          /\ x.reply \in {req[r].reply, "ok", "error", "broken"}
          /\ x.lastResort = req[r].lastResort

Ends(r) ==
    /\ req[r].at \in Open /\ inflight' = Released(r)
    /\ \E x \in Request :
          /\ req' = [req EXCEPT ![r] = x] /\ x.rt = req[r].rt /\ x.inst = req[r].inst
          /\ x.at \in Ended /\ x.stale = req[r].stale /\ x.reply = req[r].reply

Drops(r) ==
    /\ EarlyHangup /\ inflight' = inflight
    /\ \E x \in Request : req' = [req EXCEPT ![r] = x] /\ x.stale = req[r].stale
                          /\ x.reply = req[r].reply

LEMMA TypeErrors == ErrorTypes \subseteq {"json", "sse"}
BY RouterAssumption

LEMMA ServeGoesOn ==
    ASSUME TypeOK, NEW r \in Reqs, NEW type \in {"json", "sse"}, NEW reply \in {"ok", "error"},
           req[r].at \in Open, Serve(r, type, reply), inflight' = inflight
    PROVE  GoesOn(r)
<1> DEFINE at == IF type = "sse" THEN "handed" ELSE "reading"
           x == [Settled(req[r], at) EXCEPT !.reply = reply]
<1>1. req[r] \in Request /\ at \in Open
  BY DEF TypeOK, Open
<1>2. /\ Settled(req[r], at) \in Request
      /\ Settled(req[r], at).rt = req[r].rt /\ Settled(req[r], at).at = at
      /\ Settled(req[r], at).inst = req[r].inst /\ Settled(req[r], at).stale = "no"
      /\ Settled(req[r], at).lastResort = req[r].lastResort
  BY <1>1, SettledTyped
<1>3. /\ x \in Request /\ x.rt = req[r].rt /\ x.inst = req[r].inst /\ x.at = at
      /\ x.stale = "no" /\ x.reply = reply /\ x.lastResort = req[r].lastResort
  BY <1>2 DEF Request
<1>4. req' = [req EXCEPT ![r] = x]
  BY DEF Serve, TypeOK
<1> QED
  BY <1>1, <1>3, <1>4 DEF GoesOn

LEMMA RequestSteps ==
    ASSUME TypeOK, NEW r \in Reqs, RequestStep(r)
    PROVE  Turns(r) \/ GoesOn(r) \/ Ends(r) \/ Drops(r)
<1> DEFINE q == req[r]
<1>1. q \in Request /\ inflight \in Loads /\ Released(r) \in Loads
  BY ReleasedTyped DEF TypeOK, Loads
<1>2. q.pos \in Nat \ {0} /\ q.pos + 1 \in Nat \ {0}
  BY <1>1, ChainDomain DEF Request
<1>3. CASE Arrive(r)
  <2>1. Lands(r, q, inflight)
    BY <1>3, <1>1, ProceedLands, 1 \in Nat \ {0} DEF Arrive
  <2> QED
    BY <2>1, <1>3, <1>1 DEF Turns, Arrive
<1>4. CASE Unreachable(r)
  <2> DEFINE y == [q EXCEPT !.stale = "no"]
  <2>1. y \in Request /\ y.rt = q.rt /\ y.stale = "no" /\ y.reply = q.reply
    BY <1>1 DEF Request
  <2>2. Proceed(r, y, q.pos + 1, Released(r)) \/ Proceed(r, q, q.pos, Released(r))
    BY <1>4 DEF Unreachable
  <2>3. Lands(r, y, Released(r)) \/ Lands(r, q, Released(r))
    BY <2>1, <2>2, <1>1, <1>2, ProceedLands
  <2> QED
    BY <2>1, <2>3, <1>1, <1>4 DEF Turns, Unreachable
<1>5. CASE Answered(r)
  BY <1>5, ServeGoesOn DEF Answered, Open
<1>6. CASE ServerError(r)
  <2>1. PICK type \in ErrorTypes :
           IF LastAttempt(q) THEN Serve(r, type, "error")
           ELSE req' = [req EXCEPT ![r].at = "closing", ![r].stale = type]
    BY <1>6 DEF ServerError
  <2>2. q.at = "opening" /\ inflight' = inflight
    BY <1>6 DEF ServerError
  <2>3. CASE Serve(r, type, "error")
    BY <2>2, <2>3, TypeErrors, ServeGoesOn DEF Open
  <2>4. CASE req' = [req EXCEPT ![r].at = "closing", ![r].stale = type]
    <3> DEFINE x == [q EXCEPT !.at = "closing", !.stale = type]
    <3>1. x \in Request /\ x.rt = q.rt /\ x.inst = q.inst /\ x.at = "closing"
          /\ x.stale = type /\ x.reply = q.reply /\ x.lastResort = q.lastResort
      BY <1>1, TypeErrors DEF Request, Open
    <3>2. req' = [req EXCEPT ![r] = x]
      BY <2>4 DEF TypeOK
    <3> QED
      BY <2>2, <3>1, <3>2 DEF GoesOn, Open
  <2> QED
    BY <2>1, <2>3, <2>4
<1>7. CASE Closed(r)
  <2>1. Lands(r, q, Released(r))
    BY <1>7, <1>1, <1>2, ProceedLands DEF Closed
  <2> QED
    BY <2>1, <1>7, <1>1 DEF Turns, Closed
<1>8. CASE BodyRead(r)
  <2>1. PICK end \in {q.reply, "broken"} :
           req' = [req EXCEPT ![r].at = "exiting", ![r].reply = end]
    BY <1>8 DEF BodyRead
  <2> DEFINE x == [q EXCEPT !.at = "exiting", !.reply = end]
  <2>2. x \in Request /\ x.rt = q.rt /\ x.inst = q.inst /\ x.at = "exiting"
        /\ x.stale = q.stale /\ x.reply = end /\ x.lastResort = q.lastResort
    BY <1>1 DEF Request, Open
  <2>3. req' = [req EXCEPT ![r] = x]
    BY <2>1 DEF TypeOK
  <2> QED
    BY <1>8, <2>2, <2>3 DEF BodyRead, GoesOn, Open
<1>9. CASE Exited(r)
  <2> DEFINE x == [q EXCEPT !.at = q.reply]
  <2>1. x \in Request /\ x.rt = q.rt /\ x.inst = q.inst /\ x.at \in Ended
        /\ x.stale = q.stale /\ x.reply = q.reply
    BY <1>1 DEF Request, Ended
  <2>2. req' = [req EXCEPT ![r] = x]
    BY <1>9 DEF Exited, TypeOK
  <2> QED
    BY <1>9, <2>1, <2>2 DEF Exited, Ends, Open
<1>10. CASE StreamStarts(r)
  <2>1. CASE q.reply = "failed"
    <3> DEFINE x == [q EXCEPT !.at = "failed"]
    <3>1. x \in Request /\ x.rt = q.rt /\ x.inst = q.inst /\ x.at \in Ended
          /\ x.stale = q.stale /\ x.reply = q.reply
      BY <1>1 DEF Request, Ended
    <3>2. req' = [req EXCEPT ![r] = x]
      BY <1>10, <2>1 DEF StreamStarts, TypeOK
    <3> QED
      BY <1>10, <2>1, <3>1, <3>2 DEF StreamStarts, Ends, Open
  <2>2. CASE q.reply # "failed"
    <3> DEFINE x == [q EXCEPT !.at = "streaming"]
    <3>1. x \in Request /\ x.rt = q.rt /\ x.inst = q.inst /\ x.at = "streaming"
          /\ x.stale = q.stale /\ x.reply = q.reply /\ x.lastResort = q.lastResort
      BY <1>1 DEF Request, Open
    <3>2. req' = [req EXCEPT ![r] = x]
      BY <1>10, <2>2 DEF StreamStarts, TypeOK
    <3> QED
      BY <1>10, <2>2, <3>1, <3>2 DEF StreamStarts, GoesOn, Open
  <2> QED
    BY <2>1, <2>2
<1>11. CASE StreamEnds(r)
  <2>1. PICK end \in {q.reply, "broken"} : req' = [req EXCEPT ![r].at = end]
    BY <1>11 DEF StreamEnds
  <2> DEFINE x == [q EXCEPT !.at = end]
  <2>2. x \in Request /\ x.rt = q.rt /\ x.inst = q.inst /\ x.at \in Ended
        /\ x.stale = q.stale /\ x.reply = q.reply
    BY <1>1 DEF Request, Ended
  <2>3. req' = [req EXCEPT ![r] = x]
    BY <2>1 DEF TypeOK
  <2> QED
    BY <1>11, <2>2, <2>3 DEF StreamEnds, Ends, Open
<1>12. CASE HangsUp(r)
  <2> DEFINE x == [q EXCEPT !.at = "dropped"]
  <2>1. x \in Request /\ x.stale = q.stale /\ x.reply = q.reply
    BY <1>1 DEF Request, Ended
  <2>2. req' = [req EXCEPT ![r] = x]
    BY <1>12 DEF HangsUp, TypeOK
  <2> QED
    BY <1>12, <2>1, <2>2 DEF HangsUp, Drops
<1> QED
  BY <1>3, <1>4, <1>5, <1>6, <1>7, <1>8, <1>9, <1>10, <1>11, <1>12 DEF RequestStep

-----------------------------------------------------------------------------
\* Type correctness.

LEMMA RequestStepTyped ==
    ASSUME TypeOK, NEW r \in Reqs, RequestStep(r)
    PROVE  TypeOK'
<1>1. /\ \E x \in Request : req' = [req EXCEPT ![r] = x]
      /\ inflight' \in Loads
  <2>1. inflight \in Loads /\ Released(r) \in Loads
    BY ReleasedTyped DEF TypeOK, Loads
  <2>2. CASE Turns(r)
    <3>1. PICK q \in Request, load \in Loads : Lands(r, q, load)
      BY <2>2 DEF Turns
    <3>2. PICK x \in Request : /\ req' = [req EXCEPT ![r] = x]
                               /\ inflight' \in {load, Incr(load, x.rt, x.inst)}
      BY <3>1 DEF Lands
    <3>3. Incr(load, x.rt, x.inst) \in Loads
      BY LoadsTyped DEF Request
    <3> QED
      BY <3>2, <3>3
  <2>3. CASE GoesOn(r) \/ Ends(r) \/ Drops(r)
    BY <2>1, <2>3 DEF GoesOn, Ends, Drops
  <2> QED
    BY <2>2, <2>3, RequestSteps
<1>2. UNCHANGED <<asleep, marks, poll, stored, engine, drain, restarts>>
  BY DEF RequestStep
<1> QED
  BY <1>1, <1>2 DEF TypeOK, Loads

LEMMA BackendStepTyped ==
    ASSUME TypeOK, NEW i \in Instances, BackendStep(i)
    PROVE  TypeOK'
<1>1. UNCHANGED <<req, inflight, asleep, poll, restarts>>
  BY DEF BackendStep
<1>2. \A from : \A to \in {"none", "asking", "marking", "drained", "cut", "undraining",
                           "clearing"} :
         Stage(i, from, to) => drain' \in [Instances -> Draining]
  BY DEF Stage, TypeOK, Draining
<1>3. CASE StopBegins(i) \/ Killed(i) \/ Started(i)
  <2>1. drain' \in [Instances -> Draining]
    BY <1>2, <1>3 DEF StopBegins, Killed, Started
  <2>2. engine' \in [Instances -> {"up", "asleep", "down"}]
    BY <1>3 DEF StopBegins, Killed, Started, TypeOK
  <2> QED
    BY <1>1, <1>3, <2>1, <2>2 DEF StopBegins, Killed, Started, TypeOK
<1>4. CASE DrainAnswered(i) \/ DrainFails(i) \/ UndrainEnds(i)
  <2>1. drain' \in [Instances -> Draining]
    BY <1>2, <1>4 DEF DrainAnswered, DrainFails, UndrainEnds
  <2>2. stored' \subseteq Instances
    BY <1>4 DEF DrainAnswered, DrainFails, UndrainEnds, TypeOK
  <2> QED
    BY <1>1, <1>4, <2>1, <2>2 DEF DrainAnswered, DrainFails, UndrainEnds, TypeOK
<1>5. ASSUME NEW rt \in Routers, Marked(i, rt)
      PROVE  TypeOK'
  <2>1. drain' \in [Instances -> Draining]
    BY <1>5 DEF Marked, TypeOK, Draining
  <2>2. marks' \in [Routers -> SUBSET Instances]
    BY <1>5 DEF Marked, TypeOK
  <2> QED
    BY <1>1, <1>5, <2>1, <2>2 DEF Marked, TypeOK
<1>7. ASSUME NEW rt \in Routers, Unmarked(i, rt)
      PROVE  TypeOK'
  <2>1. drain' \in [Instances -> Draining]
    BY <1>2, <1>7 DEF Unmarked
  <2>2. marks' \in [Routers -> SUBSET Instances]
    BY <1>7 DEF Unmarked, TypeOK
  <2> QED
    BY <1>1, <1>7, <2>1, <2>2 DEF Unmarked, TypeOK
<1>6. CASE SleepOrWake(i)
  BY <1>1, <1>6 DEF SleepOrWake, TypeOK
<1> QED
  BY <1>3, <1>4, <1>5, <1>6, <1>7 DEF BackendStep

LEMMA PollStepTyped ==
    ASSUME TypeOK, NEW rt \in Routers, PollStep(rt)
    PROVE  TypeOK'
<1>1. UNCHANGED <<req, inflight, engine, drain, restarts>>
  BY DEF PollStep
<1>2. CASE PollAsleep(rt)
  <2>1. PICK heard \in SUBSET {i \in Instances : engine[i] = "asleep"} :
           asleep' = [asleep EXCEPT ![rt] = heard]
    BY <1>2 DEF PollAsleep
  <2>2. asleep' \in [Routers -> SUBSET Instances]
    BY <2>1 DEF TypeOK
  <2>3. poll' \in [Routers -> Polling]
    <3>1. poll' = [poll EXCEPT ![rt].at = "list"]
      BY <1>2 DEF PollAsleep
    <3> QED
      BY <3>1 DEF TypeOK, Polling
  <2> QED
    BY <1>1, <1>2, <2>2, <2>3 DEF PollAsleep, TypeOK
<1>3. CASE PollReads(rt)
  <2>1. poll' \in [Routers -> Polling]
    BY <1>3 DEF PollReads, TypeOK, Polling
  <2> QED
    BY <1>1, <1>3, <2>1 DEF PollReads, TypeOK
<1>4. CASE PollRefreshes(rt)
  <2>1. poll[rt].seen \subseteq Instances
    BY DEF TypeOK, Polling
  <2>2. marks' \in [Routers -> SUBSET Instances] /\ poll' \in [Routers -> Polling]
    BY <1>4, <2>1 DEF PollRefreshes, TypeOK, Polling
  <2> QED
    BY <1>1, <1>4, <2>2 DEF PollRefreshes, TypeOK
<1> QED
  BY <1>2, <1>3, <1>4 DEF PollStep

LEMMA ExpiryTyped ==
    ASSUME TypeOK, NEW i \in Instances, Expires(i),
           UNCHANGED <<req, inflight, engine, drain, restarts>>
    PROVE  TypeOK'
BY DEF Expires, TypeOK, Polling

LEMMA RestartTyped ==
    ASSUME TypeOK, NEW rt \in Routers, RouterRestarts(rt)
    PROVE  TypeOK'
<1>1. req' \in [Reqs -> Request]
  <2>1. \A q \in Request : [q EXCEPT !.at = "broken"] \in Request
    BY DEF Request, Ended
  <2>2. \A r \in Reqs : req[r] \in Request
    BY DEF TypeOK
  <2> QED
    BY <2>1, <2>2 DEF RouterRestarts
<1>2. inflight' \in [Routers -> [Instances -> Nat]]
  BY DEF RouterRestarts, TypeOK
<1>3. drain' \in [Instances -> Draining]
  BY DEF RouterRestarts, TypeOK, Draining
<1>4. restarts' \in 0..MaxRestarts
  BY RouterAssumption DEF RouterRestarts, TypeOK
<1> QED
  BY <1>1, <1>2, <1>3, <1>4 DEF RouterRestarts, TypeOK, Polling

LEMMA InitTyped == Init => TypeOK
<1> SUFFICES ASSUME Init PROVE TypeOK
  OBVIOUS
<1>1. PICK lb \in [Reqs -> Routers] :
         req = [r \in Reqs |-> [at |-> "new", rt |-> lb[r], pos |-> 1, tried |-> {},
                                inst |-> AnInstance, stale |-> "no",
                                lastResort |-> FALSE, reply |-> "ok"]]
  BY DEF Init
<1>2. req \in [Reqs -> Request]
  BY <1>1, ChainDomain, Defaults DEF Request
<1>3. drain \in [Instances -> Draining]
  BY Defaults DEF Init, Draining
<1> QED
  BY <1>2, <1>3, RouterAssumption DEF Init, TypeOK, Polling

\* Every variable keeps its type: frames of requests, counts, marks and stages.
THEOREM RouterTypes == Spec => []TypeOK
<1>1. TypeOK /\ [Next]_vars => TypeOK'
  <2> SUFFICES ASSUME TypeOK, [Next]_vars PROVE TypeOK'
    OBVIOUS
  <2>1. CASE UNCHANGED vars
    BY <2>1 DEF vars, TypeOK
  <2>2. CASE Next
    BY <2>2, RequestStepTyped, BackendStepTyped, PollStepTyped, ExpiryTyped, RestartTyped
       DEF Next
  <2> QED
    BY <2>1, <2>2
<1> QED
  BY <1>1, InitTyped, PTL DEF Spec

-----------------------------------------------------------------------------
\* The counts.  No frame holds a stale event stream, so every open request serves.

NoStaleStream == \A r \in Reqs : req[r].stale # "sse" /\ req[r].reply # "failed"

CountsInv == TypeOK /\ NoStaleStream /\ InflightExact

\* Requests other than r that replica rt serves from i.
OthersAt(r, rt, i) == {x \in Reqs \ {r} : Serving(x, rt, i)}

\* A load that counts every request but r.
CountsOthers(r, load) ==
    /\ load \in Loads
    /\ \A rt \in Routers, i \in Instances :
          load[rt][i] = Cardinality(OthersAt(r, rt, i))

LEMMA OthersFinite ==
    ASSUME NEW r \in Reqs, NEW rt, NEW i
    PROVE  /\ IsFiniteSet(OthersAt(r, rt, i)) /\ r \notin OthersAt(r, rt, i)
           /\ Cardinality(OthersAt(r, rt, i)) \in Nat
           /\ Cardinality(OthersAt(r, rt, i) \cup {r}) = Cardinality(OthersAt(r, rt, i)) + 1
<1>1. IsFiniteSet(OthersAt(r, rt, i))
  BY ChainAssumption, FS_Subset, OthersAt(r, rt, i) \in SUBSET Reqs DEF OthersAt
<1>2. r \notin OthersAt(r, rt, i)
  BY DEF OthersAt
<1> QED
  BY <1>1, <1>2, FS_CardinalityType, FS_AddElement

LEMMA CountSplit ==
    ASSUME NEW r \in Reqs, NEW rt, NEW i
    PROVE  /\ Serving(r, rt, i) =>
                 {x \in Reqs : Serving(x, rt, i)} = OthersAt(r, rt, i) \cup {r}
           /\ ~Serving(r, rt, i) =>
                 {x \in Reqs : Serving(x, rt, i)} = OthersAt(r, rt, i)
BY DEF OthersAt

LEMMA IdleCountsOthers ==
    ASSUME CountsInv, NEW r \in Reqs, req[r].at \notin Open
    PROVE  CountsOthers(r, inflight)
<1>1. \A rt \in Routers, i \in Instances : ~Serving(r, rt, i)
  BY DEF Serving
<1> QED
  BY <1>1, CountSplit DEF CountsInv, TypeOK, Loads, InflightExact, CountsOthers

LEMMA ReleasedCountsOthers ==
    ASSUME CountsInv, NEW r \in Reqs, req[r].at \in Open
    PROVE  CountsOthers(r, Released(r))
<1> DEFINE q == req[r]
<1>1. q \in Request /\ inflight \in Loads /\ Released(r) \in Loads
  BY ReleasedTyped DEF CountsInv, TypeOK, Loads
<1>2. q.rt \in Routers /\ q.inst \in Instances
  BY <1>1 DEF Request
<1>3. ASSUME NEW rt \in Routers, NEW i \in Instances
      PROVE  Released(r)[rt][i] = Cardinality(OthersAt(r, rt, i))
  <2>1. inflight[rt][i] = Cardinality({x \in Reqs : Serving(x, rt, i)})
    BY DEF CountsInv, InflightExact
  <2>2. CASE rt = q.rt /\ i = q.inst
    <3>1. Serving(r, rt, i)
      BY <2>2 DEF Serving, CountsInv, NoStaleStream
    <3>2. inflight[rt][i] = Cardinality(OthersAt(r, rt, i)) + 1
      BY <2>1, <3>1, CountSplit, OthersFinite
    <3>3. Released(r)[rt][i] = IF inflight[rt][i] <= 1 THEN 0 ELSE inflight[rt][i] - 1
      BY <1>1, <1>2, <2>2 DEF Released, Decr, Loads
    <3>4. Cardinality(OthersAt(r, rt, i)) \in Nat
      BY OthersFinite
    <3> QED
      BY <3>2, <3>3, <3>4
  <2>3. CASE ~(rt = q.rt /\ i = q.inst)
    <3>1. ~Serving(r, rt, i)
      BY <2>3 DEF Serving
    <3>2. Released(r)[rt][i] = inflight[rt][i]
      BY <1>1, <1>2, <2>3 DEF Released, Decr, Loads
    <3> QED
      BY <2>1, <3>1, <3>2, CountSplit
  <2> QED
    BY <2>2, <2>3
<1> QED
  BY <1>1, <1>3 DEF CountsOthers

\* Only the frame of r changes, so the other requests serve where they did.
LEMMA OthersStay ==
    ASSUME TypeOK, NEW r \in Reqs, NEW x, req' = [req EXCEPT ![r] = x]
    PROVE  /\ \A rt, i : OthersAt(r, rt, i)' = OthersAt(r, rt, i)
           /\ req'[r] = x
BY DEF OthersAt, Serving, TypeOK

LEMMA NowOpen ==
    ASSUME TypeOK, NEW r \in Reqs, NEW x \in Request, NEW load, CountsOthers(r, load),
           req' = [req EXCEPT ![r] = x], x.at \in Open, x.reply # "failed",
           inflight' = Incr(load, x.rt, x.inst)
    PROVE  InflightExact'
<1>1. x.rt \in Routers /\ x.inst \in Instances
  BY DEF Request
<1>2. ASSUME NEW rt \in Routers, NEW i \in Instances
      PROVE  inflight'[rt][i] = Cardinality({y \in Reqs : Serving(y, rt, i)'})
  <2>1. OthersAt(r, rt, i)' = OthersAt(r, rt, i) /\ req'[r] = x
    BY OthersStay
  <2>2. CASE rt = x.rt /\ i = x.inst
    <3>1. Serving(r, rt, i)'
      BY <2>1, <2>2 DEF Serving
    <3>2. {y \in Reqs : Serving(y, rt, i)'} = OthersAt(r, rt, i) \cup {r}
      BY <2>1, <3>1 DEF OthersAt
    <3>3. inflight'[rt][i] = load[rt][i] + 1
      BY <1>1, <2>2 DEF Incr, CountsOthers, Loads
    <3> QED
      BY <3>2, <3>3, OthersFinite DEF CountsOthers
  <2>3. CASE ~(rt = x.rt /\ i = x.inst)
    <3>1. ~Serving(r, rt, i)'
      BY <2>1, <2>3 DEF Serving
    <3>2. {y \in Reqs : Serving(y, rt, i)'} = OthersAt(r, rt, i)
      BY <2>1, <3>1 DEF OthersAt
    <3>3. inflight'[rt][i] = load[rt][i]
      BY <1>1, <2>3 DEF Incr, CountsOthers, Loads
    <3> QED
      BY <3>2, <3>3 DEF CountsOthers
  <2> QED
    BY <2>2, <2>3
<1> QED
  BY <1>2 DEF InflightExact

LEMMA NowEnded ==
    ASSUME TypeOK, NEW r \in Reqs, NEW x, CountsOthers(r, inflight'),
           req' = [req EXCEPT ![r] = x], x.at \notin Open
    PROVE  InflightExact'
<1>1. ASSUME NEW rt \in Routers, NEW i \in Instances
      PROVE  inflight'[rt][i] = Cardinality({y \in Reqs : Serving(y, rt, i)'})
  <2>1. OthersAt(r, rt, i)' = OthersAt(r, rt, i) /\ req'[r] = x
    BY OthersStay
  <2>2. ~Serving(r, rt, i)'
    BY <2>1 DEF Serving
  <2>3. {y \in Reqs : Serving(y, rt, i)'} = OthersAt(r, rt, i)
    BY <2>1, <2>2 DEF OthersAt
  <2> QED
    BY <2>3 DEF CountsOthers
<1> QED
  BY <1>1 DEF InflightExact

LEMMA StillOpen ==
    ASSUME CountsInv, NEW r \in Reqs, NEW x \in Request, req' = [req EXCEPT ![r] = x],
           req[r].at \in Open, x.at \in Open, x.rt = req[r].rt, x.inst = req[r].inst,
           x.reply # "failed", inflight' = inflight
    PROVE  InflightExact'
<1>1. ASSUME NEW y \in Reqs, NEW rt, NEW i
      PROVE  Serving(y, rt, i)' <=> Serving(y, rt, i)
  <2>1. CASE y = r
    BY <2>1 DEF Serving, CountsInv, NoStaleStream, TypeOK
  <2>2. CASE y # r
    BY <2>2 DEF Serving, CountsInv, TypeOK
  <2> QED
    BY <2>1, <2>2
<1>2. \A rt, i : {y \in Reqs : Serving(y, rt, i)'} = {y \in Reqs : Serving(y, rt, i)}
  BY <1>1
<1> QED
  BY <1>2 DEF InflightExact, CountsInv

LEMMA RequestStepCounts ==
    ASSUME ~EarlyHangup, ErrorTypes = {"json"}, CountsInv, NEW r \in Reqs, RequestStep(r)
    PROVE  NoStaleStream' /\ InflightExact'
<1>1. TypeOK /\ NoStaleStream
  BY DEF CountsInv
<1>2. ASSUME NEW x, req' = [req EXCEPT ![r] = x], x.stale # "sse", x.reply # "failed"
      PROVE  NoStaleStream'
  BY <1>1, <1>2 DEF NoStaleStream, TypeOK
<1>3. req[r].stale # "sse" /\ req[r].reply # "failed"
  BY <1>1 DEF NoStaleStream
<1>4. CASE Turns(r)
  <2>1. PICK q \in Request, load \in Loads :
           /\ Lands(r, q, load)
           /\ q.stale \in {"no", req[r].stale} /\ q.reply = req[r].reply
           /\ \/ req[r].at = "new" /\ load = inflight
              \/ req[r].at \in {"opening", "closing"} /\ load = Released(r)
    BY <1>4 DEF Turns
  <2>2. CountsOthers(r, load)
    BY <2>1, IdleCountsOthers, ReleasedCountsOthers DEF Open
  <2>3. q.stale # "sse" /\ q.reply # "failed"
    BY <2>1, <1>3
  <2>4. PICK x \in Request :
           /\ req' = [req EXCEPT ![r] = x] /\ x.stale \in {"no", q.stale}
           /\ x.reply = q.reply
           /\ \/ x.at = "opening" /\ inflight' = Incr(load, x.rt, x.inst)
              \/ x.at \in {"failed", "refused"} /\ inflight' = load
    BY <2>1, <2>3 DEF Lands
  <2>5. x.stale # "sse" /\ x.reply # "failed"
    BY <2>3, <2>4
  <2>6. CASE x.at = "opening" /\ inflight' = Incr(load, x.rt, x.inst)
    BY <1>1, <1>2, <2>2, <2>4, <2>5, <2>6, NowOpen DEF Open
  <2>7. CASE x.at \in {"failed", "refused"} /\ inflight' = load
    BY <1>1, <1>2, <2>2, <2>4, <2>5, <2>7, NowEnded DEF Open
  <2> QED
    BY <2>4, <2>6, <2>7
<1>5. CASE GoesOn(r)
  <2>1. PICK x \in Request :
           /\ req' = [req EXCEPT ![r] = x] /\ x.rt = req[r].rt /\ x.inst = req[r].inst
           /\ x.at \in Open /\ x.stale \in {"no", req[r].stale} \cup ErrorTypes
           /\ x.reply \in {req[r].reply, "ok", "error", "broken"}
    BY <1>5 DEF GoesOn
  <2>2. x.stale # "sse" /\ x.reply # "failed"
    BY <2>1, <1>3
  <2> QED
    BY <1>2, <1>5, <2>1, <2>2, StillOpen DEF GoesOn
<1>6. CASE Ends(r)
  <2>1. PICK x \in Request :
           /\ req' = [req EXCEPT ![r] = x] /\ x.at \in Ended
           /\ x.stale = req[r].stale /\ x.reply = req[r].reply
    BY <1>6 DEF Ends
  <2>2. CountsOthers(r, inflight')
    BY <1>6, ReleasedCountsOthers DEF Ends
  <2>3. x.at \notin Open
    BY <2>1 DEF Ended, Open
  <2> QED
    BY <1>1, <1>2, <1>3, <2>1, <2>2, <2>3, NowEnded
<1> QED
  BY <1>1, <1>4, <1>5, <1>6, RequestSteps DEF Drops

LEMMA OthersKeepCounts ==
    ASSUME CountsInv, UNCHANGED <<req, inflight>>
    PROVE  NoStaleStream' /\ InflightExact'
<1>1. \A y, rt, i : Serving(y, rt, i)' <=> Serving(y, rt, i)
  BY DEF Serving
<1> QED
  BY <1>1 DEF CountsInv, NoStaleStream, InflightExact

LEMMA RestartCounts ==
    ASSUME CountsInv, NEW rt \in Routers, RouterRestarts(rt)
    PROVE  NoStaleStream' /\ InflightExact'
<1>1. \A r \in Reqs : /\ req'[r].rt = req[r].rt /\ req'[r].inst = req[r].inst
                      /\ req'[r].stale = req[r].stale /\ req'[r].reply = req[r].reply
                      /\ req'[r].at = IF req[r].rt = rt /\ req[r].at \in Open
                                      THEN "broken" ELSE req[r].at
  <2> TAKE r \in Reqs
  <2>1. req[r] \in Request
    BY DEF CountsInv, TypeOK
  <2>2. req'[r] = IF req[r].rt = rt /\ req[r].at \in Open
                  THEN [req[r] EXCEPT !.at = "broken"] ELSE req[r]
    BY DEF RouterRestarts
  <2> QED
    BY <2>1, <2>2 DEF Request
<1>2. NoStaleStream'
  BY <1>1 DEF CountsInv, NoStaleStream
<1>3. \A y \in Reqs, n \in Routers, i \in Instances : Serving(y, n, i)' <=> (n # rt /\ Serving(y, n, i))
  BY <1>1 DEF Serving, Open
<1>4. ASSUME NEW n \in Routers, NEW i \in Instances
      PROVE  inflight'[n][i] = Cardinality({y \in Reqs : Serving(y, n, i)'})
  <2>1. CASE n = rt
    <3>1. {y \in Reqs : Serving(y, n, i)'} = {}
      BY <1>3, <2>1
    <3>2. inflight'[n][i] = 0
      BY <2>1 DEF RouterRestarts, CountsInv, TypeOK
    <3> QED
      BY <3>1, <3>2, FS_EmptySet
  <2>2. CASE n # rt
    <3>1. {y \in Reqs : Serving(y, n, i)'} = {y \in Reqs : Serving(y, n, i)}
      BY <1>3, <2>2
    <3>2. inflight'[n][i] = inflight[n][i]
      BY <2>2 DEF RouterRestarts, CountsInv, TypeOK
    <3> QED
      BY <3>1, <3>2 DEF CountsInv, InflightExact
  <2> QED
    BY <2>1, <2>2
<1> QED
  BY <1>2, <1>4 DEF InflightExact

LEMMA InitCounts == Init => CountsInv
<1> SUFFICES ASSUME Init PROVE CountsInv
  OBVIOUS
<1>1. \A r \in Reqs : req[r].at = "new" /\ req[r].stale = "no" /\ req[r].reply = "ok"
  BY DEF Init
<1>2. \A rt, i : {r \in Reqs : Serving(r, rt, i)} = {}
  BY <1>1 DEF Serving, Open
<1>3. InflightExact
  BY <1>2, FS_EmptySet DEF Init, InflightExact
<1> QED
  BY <1>1, <1>3, InitTyped DEF CountsInv, NoStaleStream

LEMMA NextCounts ==
    ~EarlyHangup /\ ErrorTypes = {"json"} /\ CountsInv /\ [Next]_vars => CountsInv'
<1> SUFFICES ASSUME ~EarlyHangup, ErrorTypes = {"json"}, CountsInv, [Next]_vars
             PROVE  NoStaleStream' /\ InflightExact' /\ TypeOK'
  BY DEF CountsInv
<1>1. TypeOK
  BY DEF CountsInv
<1>2. CASE UNCHANGED vars
  BY <1>1, <1>2, OthersKeepCounts DEF vars, TypeOK
<1>3. ASSUME NEW r \in Reqs, RequestStep(r)
      PROVE  NoStaleStream' /\ InflightExact' /\ TypeOK'
  BY <1>1, <1>3, RequestStepCounts, RequestStepTyped
<1>4. ASSUME NEW i \in Instances, BackendStep(i)
      PROVE  NoStaleStream' /\ InflightExact' /\ TypeOK'
  BY <1>1, <1>4, OthersKeepCounts, BackendStepTyped DEF BackendStep
<1>5. ASSUME NEW i \in Instances, Expires(i),
             UNCHANGED <<req, inflight, engine, drain, restarts>>
      PROVE  NoStaleStream' /\ InflightExact' /\ TypeOK'
  BY <1>1, <1>5, OthersKeepCounts, ExpiryTyped
<1>6. ASSUME NEW rt \in Routers, PollStep(rt)
      PROVE  NoStaleStream' /\ InflightExact' /\ TypeOK'
  BY <1>1, <1>6, OthersKeepCounts, PollStepTyped DEF PollStep
<1>7. ASSUME NEW rt \in Routers, RouterRestarts(rt)
      PROVE  NoStaleStream' /\ InflightExact' /\ TypeOK'
  BY <1>1, <1>7, RestartCounts, RestartTyped
<1> QED
  BY <1>2, <1>3, <1>4, <1>5, <1>6, <1>7 DEF Next

\* backend_inflight equals the number of requests the replica is serving from the
\* instance, through every failover, fallback, error, stream and restart, when no
\* client leaves before the first chunk of a stream and no 5xx is an event stream.
THEOREM InflightIsExact ==
    ~EarlyHangup /\ ErrorTypes = {"json"} => (Spec => []InflightExact)
<1> SUFFICES ASSUME ~EarlyHangup, ErrorTypes = {"json"} PROVE Spec => []InflightExact
  OBVIOUS
<1>1. CountsInv /\ [Next]_vars => CountsInv'
  BY NextCounts
<1>2. CountsInv => InflightExact
  BY DEF CountsInv
<1> QED
  BY <1>1, <1>2, InitCounts, PTL DEF Spec

-----------------------------------------------------------------------------
\* Draining, with one replica whose polls do not overlap a /drain.

OneReplica == \A m, n \in Routers : m = n
Undisturbed == OneReplica /\ ~PollsCross /\ ~StoreMayFail

\* DrainedIsIdle, instance by instance.
IdleOf(i) ==
    drain[i].at = "drained" =>
        \A r \in Reqs, rt \in Routers : Serving(r, rt, i) => req[r].lastResort
DrainInv == CountsInv /\ (restarts = 0 => \A i \in Instances : IdleOf(i) /\ MarkHeld(i))

\* A step of a request: whoever is chosen although it is marked was the last
\* resort.
LEMMA RequestIdle ==
    ASSUME ~EarlyHangup, CountsInv, CountsInv', NEW r \in Reqs, RequestStep(r),
           NEW i \in Instances, IdleOf(i), MarkHeld(i)
    PROVE  IdleOf(i)' /\ MarkHeld(i)'
<1>1. TypeOK /\ TypeOK' /\ NoStaleStream /\ UNCHANGED <<marks, poll, stored, drain>>
  BY DEF CountsInv, RequestStep
<1>2. PICK x \in Request : req' = [req EXCEPT ![r] = x] /\ x.reply # "failed"
         /\ \/ x.at \notin Open
            \/ x.inst \in marks[x.rt] => x.lastResort
            \/ /\ req[r].at \in Open
               /\ x.rt = req[r].rt /\ x.inst = req[r].inst /\ x.lastResort = req[r].lastResort
  <2>1. PICK x \in Request : req' = [req EXCEPT ![r] = x]
         /\ \/ x.at \notin Open \/ x.reply = "failed"
            \/ x.inst \in marks[x.rt] => x.lastResort
            \/ /\ req[r].at \in Open
               /\ x.rt = req[r].rt /\ x.inst = req[r].inst /\ x.lastResort = req[r].lastResort
    BY <1>1, RequestSteps DEF Turns, Lands, GoesOn, Ends, Drops, Open, Ended
  <2>2. req'[r] = x
    BY <1>1, <2>1 DEF TypeOK
  <2>3. x.reply # "failed"
    BY <2>2 DEF CountsInv, NoStaleStream
  <2> QED
    BY <2>1, <2>3
<1>3. req'[r] = x /\ \A u \in Reqs \ {r} : req'[u] = req[u]
  BY <1>1, <1>2 DEF TypeOK
<1>4. ASSUME drain[i].at = "drained", NEW u \in Reqs, NEW rt \in Routers, Serving(u, rt, i)'
      PROVE  req'[u].lastResort
  <2>1. CASE u # r
    BY <1>3, <1>4, <2>1 DEF IdleOf, Serving
  <2>2. CASE u = r
    <3>1. x.at \in Open /\ x.rt = rt /\ x.inst = i
      BY <1>3, <1>4, <2>2 DEF Serving
    <3>2. i \in marks[rt]
      BY <1>4 DEF MarkHeld
    <3>3. req[r].reply # "failed"
      BY <1>1 DEF NoStaleStream
    <3> QED
      BY <1>2, <1>3, <1>4, <2>2, <3>1, <3>2, <3>3 DEF IdleOf, Serving
  <2> QED
    BY <2>1, <2>2
<1> QED
  BY <1>1, <1>4 DEF IdleOf, MarkHeld

\* No request step: idleness is kept, unless a drain ends.
LEMMA KeepIdle ==
    ASSUME UNCHANGED req, NEW i \in Instances, IdleOf(i),
           drain'[i].at = "drained" => drain[i].at = "drained"
    PROVE  IdleOf(i)'
BY DEF IdleOf, Serving

\* A drain that ends well: the replica counts nothing.
LEMMA NothingServed ==
    ASSUME CountsInv, NEW i \in Instances, NEW rt \in Routers, inflight[rt][i] = 0,
           NEW r \in Reqs
    PROVE  ~Serving(r, rt, i)
<1> DEFINE S == {u \in Reqs : Serving(u, rt, i)}
<1>1. IsFiniteSet(S)
  BY ChainAssumption, FS_Subset, S \in SUBSET Reqs
<1>2. Cardinality(S) = 0
  BY DEF CountsInv, InflightExact
<1> QED
  BY <1>1, <1>2, FS_EmptySet

LEMMA BackendDrains ==
    ASSUME Undisturbed, CountsInv, NEW i \in Instances, BackendStep(i),
           NEW j \in Instances, IdleOf(j), MarkHeld(j)
    PROVE  IdleOf(j)' /\ MarkHeld(j)'
<1>1. TypeOK /\ UNCHANGED <<req, inflight, poll>>
  BY DEF CountsInv, BackendStep
<1>2. CASE DrainAnswered(i)
  <2>1. PICK end \in {"asking", "cut", "drained"} :
           /\ (end = "drained") <=> (inflight[drain[i].rt][i] = 0)
           /\ Stage(i, {"marking"}, end)
    BY <1>2 DEF DrainAnswered
  <2>2. stored' = stored \cup {i} /\ UNCHANGED marks
    BY <1>2 DEF DrainAnswered, Undisturbed
  <2>3. /\ drain[i].at = "marking" /\ drain'[i].at = end
        /\ j # i => drain'[j] = drain[j]
    BY <1>1, <2>1 DEF Stage, TypeOK, Draining
  <2>4. MarkHeld(j)'
    BY <1>1, <2>1, <2>2, <2>3 DEF MarkHeld
  <2>5. CASE j = i /\ end = "drained"
    <3>1. \A r \in Reqs, rt \in Routers : ~Serving(r, rt, i)
      BY <1>1, <2>1, <2>5, NothingServed DEF Undisturbed, OneReplica, TypeOK, Draining
    <3> QED
      BY <1>1, <2>4, <2>5, <3>1 DEF IdleOf, Serving
  <2> QED
    BY <1>1, <2>3, <2>4, <2>5, KeepIdle
<1>3. ASSUME NEW rt \in Routers, Marked(i, rt) PROVE IdleOf(j)' /\ MarkHeld(j)'
  <2>1. /\ drain'[i].at = "marking"
        /\ j # i => drain'[j] = drain[j]
        /\ marks'[rt] = marks[rt] \cup {i} /\ poll[rt].at # "refresh" /\ UNCHANGED stored
    BY <1>1, <1>3 DEF Marked, Undisturbed, TypeOK, Draining
  <2>2. \A n \in Routers : n = rt
    BY DEF Undisturbed, OneReplica
  <2> QED
    BY <1>1, <2>1, <2>2, KeepIdle DEF MarkHeld
<1>4. CASE /\ ~DrainAnswered(i) /\ ~ \E rt \in Routers : Marked(i, rt)
  <2>1. /\ drain'[i].at \notin {"marking", "drained"} \/ UNCHANGED <<drain, marks, stored>>
        /\ j # i => drain'[j] = drain[j]
    BY <1>1, <1>4 DEF BackendStep, StopBegins, DrainFails, Killed, Started, Unmarked,
                      UndrainEnds, SleepOrWake, Stage, TypeOK, Draining
  <2>2. /\ \A k \in stored : k # i => k \in stored'
        /\ \A rt \in Routers : \A k \in marks[rt] : k # i => k \in marks'[rt]
    BY <1>1, <1>4 DEF BackendStep, StopBegins, DrainFails, Killed, Started, Unmarked,
                      UndrainEnds, SleepOrWake, Stage, TypeOK
  <2> QED
    BY <1>1, <2>1, <2>2, KeepIdle DEF MarkHeld
<1> QED
  BY <1>2, <1>3, <1>4

LEMMA PollDrains ==
    ASSUME Undisturbed, TypeOK, NEW rt \in Routers, PollStep(rt),
           NEW j \in Instances, IdleOf(j), MarkHeld(j)
    PROVE  IdleOf(j)' /\ MarkHeld(j)'
<1>1. UNCHANGED <<req, drain, stored>> /\ \A n \in Routers : n = rt
  BY DEF PollStep, PollAsleep, PollReads, PollRefreshes, Undisturbed, OneReplica
<1>2. IdleOf(j)'
  BY <1>1, KeepIdle
<1>3. CASE PollAsleep(rt)
  <2>1. poll'[rt].at = "list" /\ UNCHANGED marks
    BY <1>3 DEF PollAsleep, TypeOK, Polling
  <2> QED
    BY <1>1, <1>2, <2>1 DEF MarkHeld
<1>4. CASE PollReads(rt)
  <2>1. /\ poll'[rt].at = "refresh" /\ poll'[rt].seen = stored /\ UNCHANGED marks
        /\ ~(drain[j].at = "marking" /\ drain[j].rt = rt)
    BY <1>4 DEF PollReads, Undisturbed, TypeOK
  <2>2. drain[j].rt = rt
    BY <1>1 DEF TypeOK, Draining
  <2> QED
    BY <1>1, <1>2, <2>1, <2>2 DEF MarkHeld
<1>5. CASE PollRefreshes(rt)
  <2>1. /\ poll[rt].at = "refresh" /\ poll'[rt].at = "probe" /\ marks'[rt] = poll[rt].seen
    BY <1>5 DEF PollRefreshes, TypeOK
  <2> QED
    BY <1>1, <1>2, <2>1 DEF MarkHeld
<1> QED
  BY <1>2, <1>3, <1>4, <1>5 DEF PollStep

LEMMA ExpiryDrains ==
    ASSUME TypeOK, NEW i \in Instances, Expires(i),
           UNCHANGED <<req, inflight, engine, drain, restarts>>,
           NEW j \in Instances, IdleOf(j), MarkHeld(j)
    PROVE  IdleOf(j)' /\ MarkHeld(j)'
<1>1. \A rt \in Routers : /\ marks'[rt] = marks[rt] \ {i}
                          /\ poll'[rt].at = poll[rt].at
                          /\ poll'[rt].seen = poll[rt].seen \ {i}
  BY DEF Expires, TypeOK, Polling
<1>2. stored' = stored \ {i} /\ drain[i].at = "none"
  BY DEF Expires
<1> QED
  BY <1>1, <1>2, KeepIdle DEF MarkHeld

LEMMA InitDrains == Init => DrainInv
<1> SUFFICES ASSUME Init PROVE DrainInv
  OBVIOUS
<1>1. \A i \in Instances : drain[i].at = "none"
  BY DEF Init
<1> QED
  BY <1>1, InitCounts DEF DrainInv, IdleOf, MarkHeld

LEMMA NextDrains ==
    /\ Undisturbed /\ ~EarlyHangup /\ ErrorTypes = {"json"}
    /\ DrainInv /\ [Next]_vars
    => DrainInv'
<1> SUFFICES ASSUME Undisturbed, ~EarlyHangup, ErrorTypes = {"json"}, DrainInv, [Next]_vars,
                    restarts' = 0, NEW j \in Instances
             PROVE  IdleOf(j)' /\ MarkHeld(j)'
  BY NextCounts DEF DrainInv
<1>1. TypeOK /\ CountsInv /\ CountsInv'
  BY NextCounts DEF DrainInv, CountsInv
<1>2. ~ \E rt \in Routers : RouterRestarts(rt)
  BY <1>1 DEF RouterRestarts, TypeOK
<1>3. UNCHANGED restarts
  BY <1>2 DEF Next, RequestStep, BackendStep, PollStep, vars
<1>4. IdleOf(j) /\ MarkHeld(j)
  BY <1>3 DEF DrainInv
<1>5. CASE UNCHANGED vars
  BY <1>4, <1>5 DEF vars, IdleOf, MarkHeld, Serving
<1> QED
  BY <1>1, <1>2, <1>4, <1>5, RequestIdle, BackendDrains, ExpiryDrains, PollDrains DEF Next

\* The handshake of a graceful stop works: with one replica, a table whose writes
\* succeed and a poller whose read of the marks does not overlap a /drain, an
\* instance that the router reported idle and that is about to be killed serves
\* nothing but requests that had nowhere else to go.
THEOREM DrainedStaysIdle ==
    Undisturbed /\ ~EarlyHangup /\ ErrorTypes = {"json"} => (Spec => []DrainedIsIdle)
<1> SUFFICES ASSUME Undisturbed, ~EarlyHangup, ErrorTypes = {"json"}
             PROVE  Spec => []DrainedIsIdle
  OBVIOUS
<1>1. DrainInv /\ [Next]_vars => DrainInv'
  BY NextDrains
<1>2. DrainInv => DrainedIsIdle
  BY DEF DrainInv, DrainedIsIdle, IdleOf
<1> QED
  BY <1>1, <1>2, InitDrains, PTL DEF Spec
=============================================================================
