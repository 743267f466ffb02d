----------------------------- MODULE Autoscaler -----------------------------
(***************************************************************************)
(* The autoscaler of one group of replicas                                 *)
(* (apps/backend/app/llmops/autoscaler.py) and the load it acts on         *)
(* (load_monitor.py). The group climbs and descends the ladder             *)
(* stopped - starting - ready - sleeping.                                  *)
(*                                                                         *)
(* The instances of the group are 1..Count, in the order of the registry.  *)
(* Time is counted in passes of autoscaler_loop, which are one interval    *)
(* apart. Queue depths are kept as the comparisons the policy makes: no    *)
(* traffic, some, more waiting per replica than scale_up_waiting.          *)
(***************************************************************************)
EXTENDS Integers, FiniteSets, FiniteSetsExt

CONSTANTS
    Count,           \* replicas that the group declares
    MinReady, MinWarm, MaxReady,
    Window, SleepAfter, StopAfter, Cooldown,   \* in passes
    SleepCapable,    \* the group is launched with sleep mode
    MaxSetbacks      \* bound: lost scrapes, refused or late calls, crashes, new leaders

ASSUME ScaleAssumption ==
    /\ Count \in Nat \ {0} /\ MinReady \in Nat /\ MinWarm \in Nat /\ MaxReady \in Nat
    /\ Window \in Nat /\ SleepAfter \in Nat /\ StopAfter \in Nat /\ Cooldown \in Nat
    /\ SleepCapable \in BOOLEAN /\ MaxSetbacks \in Nat

VARIABLES
    state,    \* instance -> its state in the registry
    load,     \* what the requests of the group ask for
    stats,    \* app.state.load_stats of the group, from the last poll
    timing,   \* GroupTiming, as ages in passes
    decided,  \* the action that decide() returned and _apply has not made yet
    enabled,  \* cfg.enabled
    quiet,    \* history: passes in a row in which the stats were idle
    setbacks  \* lost scrapes, refused or late calls, crashes, new leaders so far

scaleVars == <<state, load, stats, timing, decided, enabled, quiet, setbacks>>

Member == 1..Count
Loads == {"none", "some", "queue"}

None == -1       \* over_since or idle_since is None
Unset == [over |-> None, idle |-> None, up |-> Cooldown]

NoAction == <<"none", 0>>
Verbs == {"wake", "start", "sleep", "stop"}

In(s) == {i \in Member : state[i] = s}
Ready == In("ready")
Asleep == In("sleeping")
Halted == In("stopped")
Effective == Cardinality(Ready) + Cardinality(In("starting"))
Resident == Cardinality(Ready) + Cardinality(Asleep)

ScaleInit ==
    /\ state \in [Member -> {"stopped", "ready"}]
    /\ load = "none"
    /\ stats = "none"
    /\ timing = Unset
    /\ decided = NoAction
    /\ enabled \in BOOLEAN
    /\ quiet = 0
    /\ setbacks = 0

Setback ==
    /\ setbacks < MaxSetbacks
    /\ setbacks' = setbacks + 1

-----------------------------------------------------------------------------
LoadChanges ==
    /\ load' \in Loads \ {load}
    /\ UNCHANGED <<state, stats, timing, decided, enabled, quiet, setbacks>>

\* load_monitor_loop: the sum over the READY replicas; a scrape that fails
\* counts as no traffic, as does a group without a READY replica.
Poll ==
    /\ \/ /\ stats' = IF Ready = {} THEN "none" ELSE load
          /\ UNCHANGED setbacks
       \/ /\ Setback
          /\ stats' = "none"
    /\ UNCHANGED <<state, load, timing, decided, enabled, quiet>>

-----------------------------------------------------------------------------
\* An age one pass later; beyond the longest time it is compared with it stays.
Older(age, cap) == IF age = None \/ age = cap THEN age ELSE age + 1

Idles == Max({SleepAfter, StopAfter})

Aged == [over |-> Older(timing.over, Window), idle |-> Older(timing.idle, Idles),
         up |-> Older(timing.up, Cooldown)]

Since(age) == IF age = None THEN 0 ELSE age

\* One more replica: an asleep one is woken before a stopped one is started.
\* Variation: only stopped replicas are started.
Raise_Cold == IF Halted # {} THEN <<"start", Min(Halted)>> ELSE NoAction

Raise == IF Asleep # {} THEN <<"wake", Min(Asleep)>>
         ELSE IF Halted # {} THEN <<"start", Min(Halted)>> ELSE NoAction

\* The floor, before any timing is touched.
HoldsFloor ==
    /\ Effective < MinReady
    /\ decided' = Raise
    /\ timing' = Aged

\* Sustained queue pressure; the cooldown is charged before a candidate is known.
\* Variation: the window starts again with every pass.
ScalesUp_Restarts ==
    /\ Effective >= MinReady
    /\ stats = "queue"
    /\ LET over == 0
           fires == over >= Window /\ Aged.up >= Cooldown /\ Effective < MaxReady
       IN  /\ decided' = IF fires THEN Raise ELSE NoAction
           /\ timing' = [over |-> IF fires THEN None ELSE over, idle |-> None,
                         up |-> IF fires THEN 0 ELSE Aged.up]

ScalesUp ==
    /\ Effective >= MinReady
    /\ stats = "queue"
    /\ LET over == Since(Aged.over)
           fires == over >= Window /\ Aged.up >= Cooldown /\ Effective < MaxReady
       IN  /\ decided' = IF fires THEN Raise ELSE NoAction
           /\ timing' = [over |-> IF fires THEN None ELSE over, idle |-> None,
                         up |-> IF fires THEN 0 ELSE Aged.up]

Watches ==
    /\ Effective >= MinReady
    /\ stats = "some"
    /\ decided' = NoAction
    /\ timing' = [Aged EXCEPT !.over = None, !.idle = None]

\* The whole group is idle: the last ready replica goes to sleep (or stops), the
\* last asleep one stops.
\* Variation: asleep replicas count as resident only while some replica is ready.
Lowered_ReadyOnly(idle) ==
    IF idle >= SleepAfter /\ Cardinality(Ready) > MinReady
    THEN <<IF SleepCapable THEN "sleep" ELSE "stop", Max(Ready)>>
    ELSE IF idle >= StopAfter /\ Cardinality(Ready) > MinWarm /\ Asleep # {}
    THEN <<"stop", Max(Asleep)>>
    ELSE NoAction

Lowered(idle) ==
    IF idle >= SleepAfter /\ Cardinality(Ready) > MinReady
    THEN <<IF SleepCapable THEN "sleep" ELSE "stop", Max(Ready)>>
    ELSE IF idle >= StopAfter /\ Resident > MinWarm /\ Asleep # {}
    THEN <<"stop", Max(Asleep)>>
    ELSE NoAction

ScalesDown ==
    /\ Effective >= MinReady
    /\ stats = "none"
    /\ decided' = Lowered(Since(Aged.idle))
    /\ timing' = [Aged EXCEPT !.over = None, !.idle = Since(@)]

\* A pass of the loop; a group whose policy is off is skipped, its timing kept.
Decide ==
    /\ decided = NoAction
    /\ \/ enabled /\ (HoldsFloor \/ ScalesUp \/ Watches \/ ScalesDown)
       \/ ~enabled /\ timing' = Aged /\ UNCHANGED decided
    /\ quiet' = IF stats # "none" THEN 0 ELSE IF quiet <= SleepAfter THEN quiet + 1 ELSE quiet
    /\ UNCHANGED <<state, load, stats, enabled, setbacks>>

-----------------------------------------------------------------------------
\* What a manager call does to an instance of this backend in the state it finds
\* it in; a call that does not apply raises. start() refuses only what is
\* starting or ready. A stop's drain and kill are one step with its end.
Effect(verb, i) ==
    CASE verb = "wake" /\ state[i] = "sleeping" -> "ready"
      [] verb = "start" /\ state[i] \in {"stopped", "failed", "sleeping"} -> "starting"
      [] verb = "sleep" /\ state[i] = "ready" -> "sleeping"
      [] verb = "stop" -> "stopped"
      [] OTHER -> state[i]

\* _apply: the call is made, or refused (GPU, sleep endpoint); either way the
\* next pass starts anew.
Apply ==
    /\ decided # NoAction
    /\ \/ /\ state' = [state EXCEPT ![decided[2]] = Effect(decided[1], decided[2])]
          /\ UNCHANGED setbacks
       \/ /\ Setback
          /\ UNCHANGED state
    /\ decided' = NoAction
    /\ UNCHANGED <<load, stats, timing, enabled, quiet>>

-----------------------------------------------------------------------------
\* The lifecycle of the instances, as the reconciler drives it.
Readies(i) ==
    /\ state[i] = "starting"
    /\ state' = [state EXCEPT ![i] = "ready"]
    /\ UNCHANGED <<load, stats, timing, decided, enabled, quiet, setbacks>>

Fails(i) ==
    /\ state[i] \in {"starting", "ready", "sleeping"}
    /\ Setback
    /\ state' = [state EXCEPT ![i] = "failed"]
    /\ UNCHANGED <<load, stats, timing, decided, enabled, quiet>>

Restarts(i) ==
    /\ state[i] = "failed"
    /\ state' = [state EXCEPT ![i] = "starting"]
    /\ UNCHANGED <<load, stats, timing, decided, enabled, quiet, setbacks>>

\* set_group_autoscale turns the policy on or off.
Toggles ==
    /\ enabled' = ~enabled
    /\ UNCHANGED <<state, load, stats, timing, decided, quiet, setbacks>>

\* While the policy is on, calls by hand are refused (_reject_if_autoscaled); the
\* check is the first thing a call does, so the effect of one that was admitted
\* before the policy came on may still follow, as a setback.
ByHand(verb, i) ==
    /\ \/ ~enabled /\ UNCHANGED setbacks
       \/ enabled /\ Setback
    /\ Effect(verb, i) # state[i]
    /\ state' = [state EXCEPT ![i] = Effect(verb, i)]
    /\ UNCHANGED <<load, stats, timing, decided, enabled, quiet>>

SwitchedByHand(i) == ByHand("start", i) \/ ByHand("stop", i)
RestedByHand(i) == ByHand("sleep", i) \/ ByHand("wake", i)

\* Another replica of the backend becomes the leader: new loops, no timing, no
\* stats yet. A call that was under way is cancelled before it had an effect.
NewLeader ==
    /\ Setback
    /\ stats' = "none"
    /\ timing' = Unset
    /\ decided' = NoAction
    /\ quiet' = 0
    /\ UNCHANGED <<state, load, enabled>>

ScaleNext ==
    \/ LoadChanges \/ Poll \/ Decide \/ Apply \/ Toggles \/ NewLeader
    \/ \E i \in Member : \/ Readies(i) \/ Fails(i) \/ Restarts(i)
                         \/ SwitchedByHand(i) \/ RestedByHand(i)

\* Both loops run, and a starting server answers its probe in the end.
ScaleFairness ==
    /\ WF_scaleVars(Poll) /\ WF_scaleVars(Decide) /\ WF_scaleVars(Apply)
    /\ \A i \in Member : WF_scaleVars(Readies(i))

ScaleSpec == ScaleInit /\ [][ScaleNext]_scaleVars

-----------------------------------------------------------------------------
\* Every variable has its type.
ScaleTypeOK ==
    /\ state \in [Member -> {"stopped", "starting", "ready", "sleeping", "failed"}]
    /\ load \in Loads /\ stats \in Loads
    /\ timing.over \in None..Window /\ timing.idle \in None..Idles
    /\ timing.up \in 0..Cooldown
    /\ decided \in {NoAction} \cup (Verbs \X Member)
    /\ enabled \in BOOLEAN /\ quiet \in 0..(SleepAfter + 1) /\ setbacks \in 0..MaxSetbacks

\* The floor (schema.py:93 "always-warm serving replicas"): whatever crashes, is
\* refused or was stopped by hand, a group whose policy stays on comes back to
\* min_ready replicas while it has one to raise.
FloorHeld ==
    <>[]enabled => []<>(Effective >= MinReady \/ Asleep \cup Halted = {})

\* Pressure is served (autoscaler.py:12-14): under a queue that lasts, the group
\* grows to max_ready while it has a replica to raise.
PressureServed ==
    MinReady > 0 /\ <>[](enabled /\ load = "queue") =>
        []<>(Effective >= MaxReady \/ Asleep \cup Halted = {})

\* Descent (autoscaler.py:15-17): a group without traffic ends at min_ready
\* ready replicas, and at no more resident ones than its floors ask for.
Descends ==
    <>[](enabled /\ load = "none") =>
        <>[](/\ Cardinality(Ready) <= MinReady
             /\ Resident <= Max({MinReady, MinWarm}))

\* A replica goes to sleep after the group was idle for sleep_after_s
\* (schema.py:98, autoscaler.py:43 "when the group last went fully idle").
SleepsWhenIdle ==
    [][decided'[1] \in {"sleep", "stop"} /\ decided = NoAction => quiet' > SleepAfter]_scaleVars
=============================================================================
