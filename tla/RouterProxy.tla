----------------------------- MODULE RouterProxy -----------------------------
(***************************************************************************)
(* The router: _proxy_to_backend with its failover and fallback loops, the *)
(* in-flight counts, the drain marks and the poller that refreshes them,   *)
(* and the backend's graceful stop, which relies on both.                  *)
(*                                                                         *)
(* A request is one coroutine of one router replica, and req[r] is its     *)
(* frame.  A step is the code between two awaits.  The routing strategy is *)
(* a choice: random and round_robin may pick any candidate, and cooldowns  *)
(* and scores only weigh candidates.                                       *)
(*                                                                         *)
(* An operator whose name ends in _Word is a variation of the operator     *)
(* after it with one bug in it; no specification uses it.                  *)
(***************************************************************************)
EXTENDS Naturals, Sequences, FiniteSets

CONSTANTS
    Routers,           \* router replicas behind one load balancer
    Reqs,              \* requests, all for the same model
    Instances,         \* backend instances
    Chain,             \* the groups of build_route_chain, the primary first
    Healthy,           \* instances that always answer
    Stoppable,         \* instances that somebody stops and starts
    Sleepable,         \* instances launched with sleep mode
    ErrorTypes,        \* content types of a 5xx answer
    EarlyHangup,       \* clients may leave between the headers and the first chunk
    StoreMayFail,      \* a write of a drain mark may fail
    PollsCross,        \* the poller's read of the marks may overlap a /drain
    MaxRestarts        \* bound on restarts of routers

ASSUME ChainAssumption ==
    /\ Chain \in Seq(SUBSET Instances) /\ Chain # <<>>
    /\ \A p \in DOMAIN Chain : Chain[p] # {}
    /\ IsFiniteSet(Instances) /\ IsFiniteSet(Reqs)
ASSUME RouterAssumption ==
    /\ Routers # {} /\ Healthy \subseteq Instances
    /\ Stoppable \subseteq Instances \ Healthy
    /\ Sleepable \subseteq Instances \ Healthy
    /\ ErrorTypes \subseteq {"json", "sse"} /\ ErrorTypes # {}
    /\ {EarlyHangup, StoreMayFail, PollsCross} \subseteq BOOLEAN
    /\ MaxRestarts \in Nat

VARIABLES
    req,         \* the frame of _proxy_to_backend for each request
    inflight,    \* backend_inflight of each replica
    asleep,      \* instances whose cached metrics say is_sleeping, per replica
    marks,       \* app.state.draining of each replica
    poll,        \* where the metrics poller of each replica is
    stored,      \* table draining of the shared store
    engine,      \* what each model server really is
    drain,       \* the backend's stop or start of each instance
    restarts     \* restarts of routers so far

requestVars == <<req, inflight>>
markVars == <<marks, poll, stored>>
vars == <<req, inflight, asleep, marks, poll, stored, engine, drain, restarts>>

Ended == {"ok", "error", "refused", "failed", "broken", "dropped"}
Open == {"opening", "closing", "reading", "exiting", "handed", "streaming"}

\* at: the await the request is at, or how it ended.  pos, tried: the loops.
\* stale: type of a 5xx response of this group that was closed but is still
\* bound to `response`.  reply: how the request will end.  lastResort: it was
\* given a draining instance because there was no other.
Request == [at : {"new"} \cup Open \cup Ended, rt : Routers, pos : DOMAIN Chain,
            tried : SUBSET Instances, inst : Instances,
            stale : {"no", "json", "sse"}, lastResort : BOOLEAN,
            reply : {"ok", "error", "failed", "broken"}]

Polling == [at : {"probe", "list", "refresh"}, seen : SUBSET Instances]

Draining == [at : {"none", "asking", "marking", "drained", "cut", "undraining",
                   "clearing"}, rt : Routers]

TypeOK ==
    /\ req \in [Reqs -> Request]
    /\ inflight \in [Routers -> [Instances -> Nat]]
    /\ asleep \in [Routers -> SUBSET Instances]
    /\ marks \in [Routers -> SUBSET Instances]
    /\ poll \in [Routers -> Polling]
    /\ stored \subseteq Instances
    /\ engine \in [Instances -> {"up", "asleep", "down"}]
    /\ drain \in [Instances -> Draining]
    /\ restarts \in 0..MaxRestarts

\* Values of fields that are written before they are read.
AnInstance == CHOOSE i \in Instances : TRUE
ARouter == CHOOSE rt \in Routers : TRUE

\* The load balancer's choice of a replica is part of the initial state.
Init ==
    /\ \E lb \in [Reqs -> Routers] :
          req = [r \in Reqs |-> [at |-> "new", rt |-> lb[r], pos |-> 1, tried |-> {},
                                 inst |-> AnInstance, stale |-> "no",
                                 lastResort |-> FALSE, reply |-> "ok"]]
    /\ inflight = [rt \in Routers |-> [i \in Instances |-> 0]]
    /\ asleep = [rt \in Routers |-> {}]
    /\ marks = [rt \in Routers |-> {}]
    /\ poll = [rt \in Routers |-> [at |-> "probe", seen |-> {}]]
    /\ stored = {}
    /\ engine = [i \in Instances |-> "up"]
    /\ drain = [i \in Instances |-> [at |-> "none", rt |-> ARouter]]
    /\ restarts = 0

-----------------------------------------------------------------------------
(* In-flight counts. *)

\* incr_inflight.
Incr(load, rt, i) == [load EXCEPT ![rt][i] = @ + 1]

\* decr_inflight: an absent key counts as zero and stays absent.
Decr(load, rt, i) == [load EXCEPT ![rt][i] = IF @ <= 1 THEN 0 ELSE @ - 1]

\* The count without the request's current instance.
Released(r) == Decr(inflight, req[r].rt, req[r].inst)

-----------------------------------------------------------------------------
(* Routing. *)

\* max_attempts of a group.
MaxAttempts(p) == IF Cardinality(Chain[p]) > 3 THEN 3 ELSE Cardinality(Chain[p])

LastAttempt(q) == Cardinality(q.tried) >= MaxAttempts(q.pos)

\* What is left for select_instance in group p: `tried` belongs to one group.
Awake(q, p) ==
    Chain[p] \ ((IF p = q.pos THEN q.tried ELSE {}) \cup asleep[q.rt])

\* Draining instances are dropped while an alternative remains.
Eligible(rt, candidates) ==
    IF candidates \subseteq marks[rt] THEN candidates ELSE candidates \ marks[rt]

\* The frame of a request that is answered: the loops are over.
Settled(q, at) == [q EXCEPT !.at = at, !.tried = {}, !.stale = "no"]

\* Variation: the exclusion set holds only the last instance tried.
Attempt_Forgets(r, q, p, load) ==
    \E i \in Eligible(q.rt, Awake(q, p)) :
        /\ req' = [req EXCEPT ![r] =
              [q EXCEPT !.at = "opening", !.pos = p, !.inst = i, !.tried = {i},
                        !.stale = IF p = q.pos THEN @ ELSE "no",
                        !.lastResort = Awake(q, p) \subseteq marks[q.rt]]]
        /\ inflight' = Incr(load, q.rt, i)

\* The next attempt: an instance of group p is chosen and counted.
Attempt(r, q, p, load) ==
    \E i \in Eligible(q.rt, Awake(q, p)) :
        /\ req' = [req EXCEPT ![r] =
              [q EXCEPT !.at = "opening", !.pos = p, !.inst = i,
                        !.tried = (IF p = q.pos THEN @ ELSE {}) \cup {i},
                        !.stale = IF p = q.pos THEN @ ELSE "no",
                        !.lastResort = Awake(q, p) \subseteq marks[q.rt]]]
        /\ inflight' = Incr(load, q.rt, i)

\* No group is left.  When select_instance raised in the last group after a 5xx
\* there, `response` is still that closed response and is served: reading it
\* raises, streaming it fails in the generator.
NoneLeft(r, q, p, load) ==
    /\ inflight' = load
    /\ req' = [req EXCEPT ![r] =
          CASE p = Len(Chain) /\ q.stale = "json" -> Settled(q, "failed")
            [] p = Len(Chain) /\ q.stale = "sse" ->
                  [Settled(q, "handed") EXCEPT !.reply = "failed"]
            [] OTHER -> Settled(q, "refused")]

\* The two loops from group p on.
Proceed(r, q, p, load) ==
    LET able == {n \in p..Len(Chain) : Awake(q, n) # {}}
    IN  \/ \E n \in able : (\A m \in able : n <= m) /\ Attempt(r, q, n, load)
        \/ able = {} /\ NoneLeft(r, q, p, load)

Arrive(r) ==
    /\ req[r].at = "new"
    /\ Proceed(r, req[r], 1, inflight)

\* Variation: a transport error on a group's last attempt ends the request.
Unreachable_GivesUp(r) ==
    LET q == req[r]
    IN  /\ q.at = "opening" /\ q.inst \notin Healthy
        /\ IF LastAttempt(q)
           THEN NoneLeft(r, [q EXCEPT !.stale = "no"], q.pos + 1, Released(r))
           ELSE Proceed(r, q, q.pos, Released(r))

\* stream_ctx.__aenter__ raises.
Unreachable(r) ==
    LET q == req[r]
    IN  /\ q.at = "opening" /\ q.inst \notin Healthy
        /\ IF LastAttempt(q)
           THEN Proceed(r, [q EXCEPT !.stale = "no"], q.pos + 1, Released(r))
           ELSE Proceed(r, q, q.pos, Released(r))

\* The response is served: an event stream is handed to its generator, another
\* body is read here.
Serve(r, type, reply) ==
    req' = [req EXCEPT ![r] =
       [Settled(@, IF type = "sse" THEN "handed" ELSE "reading") EXCEPT !.reply = reply]]

Answered(r) ==
    /\ req[r].at = "opening" /\ engine[req[r].inst] = "up"
    /\ \E type \in {"json", "sse"} : Serve(r, type, "ok")
    /\ UNCHANGED inflight

ServerError(r) ==
    LET q == req[r]
    IN  /\ q.at = "opening" /\ q.inst \notin Healthy /\ engine[q.inst] # "down"
        /\ \E type \in ErrorTypes :
              IF LastAttempt(q)
              THEN Serve(r, type, "error")
              ELSE req' = [req EXCEPT ![r].at = "closing", ![r].stale = type]
        /\ UNCHANGED inflight

\* Variation: the failover after a 5xx forgets to release the count.
Closed_Leaks(r) ==
    /\ req[r].at = "closing"
    /\ Proceed(r, req[r], req[r].pos, inflight)

\* The 5xx response is closed: the next attempt.
Closed(r) ==
    /\ req[r].at = "closing"
    /\ Proceed(r, req[r], req[r].pos, Released(r))

\* response.aread returns or raises; then the context is closed in `finally`.
BodyRead(r) ==
    /\ req[r].at = "reading"
    /\ \E end \in {req[r].reply, "broken"} :
          /\ end = "broken" => req[r].inst \notin Healthy
          /\ req' = [req EXCEPT ![r].at = "exiting", ![r].reply = end]
    /\ UNCHANGED inflight

Exited(r) ==
    /\ req[r].at = "exiting"
    /\ req' = [req EXCEPT ![r].at = req[r].reply]
    /\ inflight' = Released(r)

\* The generator's first step.  Over a closed response it raises, and its
\* `finally` releases a count that nobody holds.
StreamStarts(r) ==
    /\ req[r].at = "handed"
    /\ IF req[r].reply = "failed"
       THEN req' = [req EXCEPT ![r].at = "failed"] /\ inflight' = Released(r)
       ELSE req' = [req EXCEPT ![r].at = "streaming"] /\ UNCHANGED inflight

\* The stream is exhausted, breaks, or loses its client.
StreamEnds(r) ==
    /\ req[r].at = "streaming"
    /\ \E end \in {req[r].reply, "broken"} : req' = [req EXCEPT ![r].at = end]
    /\ inflight' = Released(r)

\* The client leaves before the generator's first step: its `finally` never runs.
HangsUp(r) ==
    /\ EarlyHangup /\ req[r].at = "handed"
    /\ req' = [req EXCEPT ![r].at = "dropped"]
    /\ UNCHANGED inflight

RequestStep(r) ==
    /\ \/ Arrive(r) \/ Unreachable(r) \/ Answered(r) \/ ServerError(r) \/ Closed(r)
       \/ BodyRead(r) \/ Exited(r) \/ StreamStarts(r) \/ StreamEnds(r) \/ HangsUp(r)
    /\ UNCHANGED <<asleep, marks, poll, stored, engine, drain, restarts>>

-----------------------------------------------------------------------------
(* The backend stops and starts instances: _drain_instance with the router's *)
(* /drain, _undrain_instance with /undrain.                                  *)

Stage(i, from, to) == drain[i].at \in from /\ drain' = [drain EXCEPT ![i].at = to]

StopBegins(i) ==
    /\ i \in Stoppable /\ engine[i] # "down"
    /\ Stage(i, {"none"}, "asking")
    /\ UNCHANGED <<marks, stored, engine>>

\* Variation: /drain writes the shared mark only.
Marked_OnlyShared(i, rt) ==
    /\ drain[i].at = "asking"
    /\ PollsCross \/ poll[rt].at # "refresh"
    /\ drain' = [drain EXCEPT ![i] = [at |-> "marking", rt |-> rt]]
    /\ UNCHANGED <<marks, stored, engine>>

\* /drain up to its store write.
Marked(i, rt) ==
    /\ drain[i].at = "asking"
    /\ PollsCross \/ poll[rt].at # "refresh"
    /\ drain' = [drain EXCEPT ![i] = [at |-> "marking", rt |-> rt]]
    /\ marks' = [marks EXCEPT ![rt] = @ \cup {i}]
    /\ UNCHANGED <<stored, engine>>

\* The write returns, the count of this replica is the answer, and the backend
\* stops, asks again, or gives up at its deadline.
DrainAnswered(i) ==
    /\ \E end \in {"asking", "cut", "drained"} :
          /\ (end = "drained") <=> (inflight[drain[i].rt][i] = 0)
          /\ Stage(i, {"marking"}, end)
    /\ stored' \in {stored \cup {i}} \cup (IF StoreMayFail THEN {stored} ELSE {})
    /\ UNCHANGED <<marks, engine>>

\* The POST fails: "stopping anyway".
DrainFails(i) ==
    /\ Stage(i, {"asking", "marking"}, "cut")
    /\ stored' \in {stored} \cup (IF drain[i].at = "marking" THEN {stored \cup {i}} ELSE {})
    /\ UNCHANGED <<marks, engine>>

Killed(i) ==
    /\ Stage(i, {"drained", "cut"}, "none")
    /\ engine' = [engine EXCEPT ![i] = "down"]
    /\ UNCHANGED <<marks, stored>>

Started(i) ==
    /\ engine[i] = "down"
    /\ Stage(i, {"none"}, "undraining")
    /\ engine' = [engine EXCEPT ![i] = "up"]
    /\ UNCHANGED <<marks, stored>>

Unmarked(i, rt) ==
    /\ Stage(i, {"undraining"}, "clearing")
    /\ marks' = [marks EXCEPT ![rt] = @ \ {i}]
    /\ UNCHANGED <<stored, engine>>

UndrainEnds(i) ==
    /\ \/ Stage(i, {"clearing"}, "none") /\ stored' = stored \ {i}
       \/ StoreMayFail /\ Stage(i, {"clearing"}, "none") /\ UNCHANGED stored
       \/ Stage(i, {"undraining"}, "none") /\ UNCHANGED stored
    /\ UNCHANGED <<marks, engine>>

\* A model server is put to sleep or woken.  (One that crashes answers like one
\* that refuses.)
SleepOrWake(i) ==
    /\ i \in Sleepable /\ engine[i] # "down" /\ drain[i].at = "none"
    /\ engine' = [engine EXCEPT ![i] = IF @ = "up" THEN "asleep" ELSE "up"]
    /\ UNCHANGED <<marks, stored, drain>>

BackendStep(i) ==
    /\ \/ StopBegins(i) \/ DrainAnswered(i) \/ DrainFails(i) \/ Killed(i)
       \/ Started(i) \/ UndrainEnds(i) \/ SleepOrWake(i)
       \/ \E rt \in Routers : Marked(i, rt) \/ Unmarked(i, rt)
    /\ UNCHANGED <<req, inflight, asleep, poll, restarts>>

-----------------------------------------------------------------------------
(* The poller of each replica, expiry, and restarts of a router. *)

\* The sleep probes of one turn and the new metrics cache; a probe that fails
\* counts as not sleeping.
PollAsleep(rt) ==
    /\ poll[rt].at = "probe"
    /\ \E heard \in SUBSET {i \in Instances : engine[i] = "asleep"} :
          asleep' = [asleep EXCEPT ![rt] = heard]
    /\ poll' = [poll EXCEPT ![rt].at = "list"]
    /\ UNCHANGED <<marks, stored>>

\* list_draining reads the table ...
PollReads(rt) ==
    /\ poll[rt].at = "list"
    /\ PollsCross \/ \A i \in Instances : ~(drain[i].at = "marking" /\ drain[i].rt = rt)
    /\ poll' = [poll EXCEPT ![rt] = [at |-> "refresh", seen |-> stored]]
    /\ UNCHANGED <<asleep, marks, stored>>

\* Variation: the marks read are added to the local ones.
PollRefreshes_Merges(rt) ==
    /\ poll[rt].at = "refresh"
    /\ marks' = [marks EXCEPT ![rt] = @ \cup poll[rt].seen]
    /\ poll' = [poll EXCEPT ![rt] = [at |-> "probe", seen |-> {}]]
    /\ UNCHANGED <<asleep, stored>>

\* ... and its result replaces app.state.draining.
PollRefreshes(rt) ==
    /\ poll[rt].at = "refresh"
    /\ marks' = [marks EXCEPT ![rt] = poll[rt].seen]
    /\ poll' = [poll EXCEPT ![rt] = [at |-> "probe", seen |-> {}]]
    /\ UNCHANGED <<asleep, stored>>

\* A mark expires everywhere.  While the backend drains, it renews the mark
\* well within the ttl.
Expires(i) ==
    /\ drain[i].at = "none"
    /\ i \in stored \cup UNION {marks[rt] \cup poll[rt].seen : rt \in Routers}
    /\ stored' = stored \ {i}
    /\ marks' = [rt \in Routers |-> marks[rt] \ {i}]
    /\ poll' = [rt \in Routers |-> [poll[rt] EXCEPT !.seen = @ \ {i}]]
    /\ UNCHANGED asleep

PollStep(rt) ==
    /\ PollAsleep(rt) \/ PollReads(rt) \/ PollRefreshes(rt)
    /\ UNCHANGED <<req, inflight, engine, drain, restarts>>

\* A router dies with its requests and boots with empty state.
RouterRestarts(rt) ==
    /\ restarts < MaxRestarts
    /\ restarts' = restarts + 1
    /\ req' = [r \in Reqs |-> IF req[r].rt = rt /\ req[r].at \in Open
                              THEN [req[r] EXCEPT !.at = "broken"] ELSE req[r]]
    /\ inflight' = [inflight EXCEPT ![rt] = [i \in Instances |-> 0]]
    /\ asleep' = [asleep EXCEPT ![rt] = {}]
    /\ marks' = [marks EXCEPT ![rt] = {}]
    /\ poll' = [poll EXCEPT ![rt] = [at |-> "probe", seen |-> {}]]
    /\ drain' = [i \in Instances |-> IF drain[i].rt = rt /\ drain[i].at = "marking"
                                     THEN [drain[i] EXCEPT !.at = "cut"] ELSE drain[i]]
    /\ UNCHANGED <<stored, engine>>

Next ==
    \/ \E r \in Reqs : RequestStep(r)
    \/ \E i \in Instances : BackendStep(i)
    \/ \E i \in Instances : Expires(i) /\ UNCHANGED <<req, inflight, engine, drain, restarts>>
    \/ \E rt \in Routers : PollStep(rt) \/ RouterRestarts(rt)

Spec == Init /\ [][Next]_vars

\* A request that has arrived goes on (model servers answer or refuse, generators
\* are started) and the poller polls.  Arrivals, stops and starts, expiries,
\* changes of the servers and restarts of a router are not fair.
FairSpec ==
    /\ Spec
    /\ \A r \in Reqs : WF_vars(req[r].at # "new" /\ RequestStep(r))
    /\ \A rt \in Routers : WF_vars(PollStep(rt))

-----------------------------------------------------------------------------
(* Properties. *)

\* A request that a replica serves from an instance: between incr_inflight and
\* the matching decr_inflight, with an open response or waiting for one.
Serving(r, rt, i) ==
    /\ req[r].at \in Open /\ req[r].rt = rt /\ req[r].inst = i
    /\ ~(req[r].at = "handed" /\ req[r].reply = "failed")

\* backend_inflight is exact: what /drain reports and what the strategies weigh
\* is the number of requests the replica is serving, whatever the mixture of
\* failed attempts, failovers, streams and errors that led there.
InflightExact ==
    \A rt \in Routers, i \in Instances :
        inflight[rt][i] = Cardinality({r \in Reqs : Serving(r, rt, i)})

\* _drain_instance: once the router has reported nothing in flight and the backend
\* goes on to kill the process, no request is being served there, except one that
\* had no other instance to go to.  Until a router restarts, which forgets marks.
DrainedIsIdle ==
    restarts = 0 =>
        \A i \in Instances : drain[i].at = "drained" =>
            \A r \in Reqs, rt \in Routers : Serving(r, rt, i) => req[r].lastResort

\* What makes DrainedIsIdle inductive for a single replica whose polls do not
\* overlap a /drain: from the answer of /drain on the mark is in the table and in
\* the replica, and what the poller is about to write there holds it too.
MarkHeld(i) ==
    \A rt \in Routers :
        /\ drain[i].at = "marking" => i \in marks[rt] /\ poll[rt].at # "refresh"
        /\ drain[i].at = "drained" =>
              /\ i \in stored /\ i \in marks[rt]
              /\ poll[rt].at = "refresh" => i \in poll[rt].seen

\* Failover and fallback reach a healthy instance: a request never ends unserved
\* when a group of at most three instances holds one, unless an earlier group
\* answered it with a 5xx on its last attempt.
HealthyServes ==
    \A r \in Reqs, p \in DOMAIN Chain :
        Chain[p] \cap Healthy # {} /\ Cardinality(Chain[p]) <= 3 =>
            /\ req[r].at \notin {"refused", "failed"}
            /\ req[r].at = "error" => req[r].pos < p

\* Every request that has arrived ends: the failover and fallback loops do.
RequestsEnd == \A r \in Reqs : (req[r].at \in Open) ~> (req[r].at \in Ended)

\* The store decides: every replica agrees with it again and again, so it comes to
\* honour a mark that stays there and to forget one that stays cleared, however
\* polls, /drain and /undrain cross.
MarksSpread ==
    \A i \in Stoppable, rt \in Routers :
        []<>((i \in stored) <=> (i \in marks[rt]))
=============================================================================
