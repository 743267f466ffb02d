------------------------------- MODULE Alerts -------------------------------
(***************************************************************************)
(* Alerts on the transitions of a model                                    *)
(* (apps/backend/app/llmops/events.py, notifier.py, api/alerts.py): every  *)
(* transition is recorded in the store, then classified from the fields of *)
(* the instance as they are by then, and dispatched to the sinks that want *)
(* its severity, unless the same event of the model went out a moment ago. *)
(*                                                                         *)
(* One model: cooldowns are per model, and reconcile passes treat every    *)
(* model alike. A start is one step here; ModelLifecycle has its awaits.   *)
(***************************************************************************)
EXTENDS Integers, FiniteSets

CONSTANTS
    MaxRestarts,  \* settings.max_restarts
    Quiet,        \* the cooldown of an event, in ticks
    Sink,         \* rows that admins may add to alert_sinks
    Floor,        \* sink -> the severity it asks for
    Wired,        \* sinks that are configured by the environment
    Admin,        \* requests to /alerts/sinks that may be under way at once
    InOrder,      \* answers of the store arrive in the order of the statements
    MaxTrouble    \* bound: crashes, refused starts, wakes, changes of sinks

ASSUME AlertAssumption ==
    /\ MaxRestarts \in Nat /\ Quiet \in Nat
    /\ Floor \in [Sink -> 0..3] /\ Wired \subseteq Sink
    /\ InOrder \in BOOLEAN /\ MaxTrouble \in Nat

VARIABLES
    model,     \* fields of the ModelInstance
    emits,     \* per actor: the transition whose event it is recording
    stage,     \* where the reconcile pass is
    sent,      \* Notifier._last_sent: event -> its age, Quiet when old or unsent
    rows,      \* table alert_sinks
    sinks,     \* Notifier.sinks
    admin,     \* per admin request: what it does, and what its reload has read
    told,      \* history: the last failure was announced for what it was
    silent,    \* history: the last automatic restart was refused before a spawn
    trouble    \* how much of MaxTrouble is spent

alertVars == <<model, emits, stage, sent, rows, sinks, admin, told, silent, trouble>>

Emitter == {"pass", "task"}
Event == {"failed", "gave_up", "recovered"}
Severity == [failed |-> 2, gave_up |-> 3, recovered |-> 0]

Life == {"stopped", "starting", "up", "asleep", "down"}
Model == [life : Life, wanted : BOOLEAN, managed : BOOLEAN,
          count : 0..MaxRestarts, armed : BOOLEAN, failed : BOOLEAN]

NoCall == [step |-> "none", sink |-> {}, list |-> {}, turn |-> 0]

AlertInit ==
    /\ model = [life |-> "stopped", wanted |-> FALSE, managed |-> FALSE,
                count |-> 0, armed |-> FALSE, failed |-> FALSE]
    /\ emits = [a \in Emitter |-> "none"]
    /\ stage = "check"
    /\ sent = [e \in Event |-> Quiet]
    /\ rows = {} /\ sinks = Wired
    /\ admin = [q \in Admin |-> NoCall]
    /\ told = FALSE /\ silent = FALSE
    /\ trouble = 0

Troubled ==
    /\ trouble < MaxTrouble
    /\ trouble' = trouble + 1

sinkVars == <<rows, sinks, admin>>

\* The actor begins to emit a transition: it awaits record_model_event first.
Begins(a, to) == emits' = [emits EXCEPT ![a] = to]

-----------------------------------------------------------------------------
\* A FAILED instance is armed for a restart when it is wanted, managed and
\* within its budget.
Armed == model.wanted /\ model.managed /\ model.count < MaxRestarts

\* The pass finds the process of the instance gone, or its start timed out.
PassFails ==
    /\ stage = "check"
    /\ model.life \in {"starting", "up", "asleep"} /\ model.managed
    /\ Troubled
    /\ model' = [model EXCEPT !.life = "down", !.armed = Armed, !.failed = TRUE]
    /\ Begins("pass", "failed")
    /\ stage' = "emit"
    /\ UNCHANGED <<sent, sinkVars, told, silent>>

PassReadies ==
    /\ stage = "check"
    /\ model.life = "starting"
    /\ model' = [model EXCEPT !.life = "up", !.count = 0, !.armed = FALSE]
    /\ Begins("pass", "ready")
    /\ stage' = "emit"
    /\ UNCHANGED <<sent, sinkVars, told, silent, trouble>>

PassFindsNothing ==
    /\ stage = "check"
    /\ stage' = "restart"
    /\ UNCHANGED <<model, emits, sent, sinkVars, told, silent, trouble>>

\* What manager.start does to an instance that is not up: its GPU checks refuse
\* it, it is launched, or the launch fails.
Launched(count) ==
    [model EXCEPT !.life = "starting", !.wanted = TRUE, !.managed = TRUE,
                  !.count = count, !.armed = FALSE]

Unlaunched(count) == [Launched(count) EXCEPT !.life = "down", !.managed = FALSE]

\* _process_restarts charges the attempt, then calls manager.start.
PassRestarts ==
    /\ stage = "restart"
    /\ IF model.life = "down" /\ model.wanted /\ model.managed /\ model.armed
            /\ model.count < MaxRestarts
       THEN \/ /\ model' = Launched(model.count + 1)
               /\ silent' = FALSE
               /\ UNCHANGED <<emits, trouble>>
            \/ /\ Troubled
               /\ model' = [model EXCEPT !.armed = FALSE, !.count = @ + 1]
               /\ silent' = TRUE
               /\ UNCHANGED emits
            \/ /\ Troubled
               /\ model' = Unlaunched(model.count + 1)
               /\ silent' = FALSE
               /\ Begins("pass", "failed")
       ELSE UNCHANGED <<model, emits, silent, trouble>>
    /\ stage' = IF emits'["pass"] = "none" THEN "check" ELSE "last"
    /\ UNCHANGED <<sent, sinkVars, told>>

\* Calls of operators and of the autoscaler, one at a time.
TaskStarts ==
    /\ emits["task"] = "none"
    /\ model.life \in {"stopped", "asleep", "down"}
    /\ \/ model' = Launched(0) /\ UNCHANGED <<emits, trouble>>
       \/ Troubled /\ model' = Unlaunched(0) /\ Begins("task", "failed")
    /\ silent' = FALSE
    /\ UNCHANGED <<stage, sent, sinkVars, told>>

TaskStops ==
    /\ emits["task"] = "none"
    /\ model.life # "stopped"
    /\ model' = [model EXCEPT !.life = "stopped", !.wanted = FALSE, !.armed = FALSE]
    /\ UNCHANGED <<emits, stage, sent, sinkVars, told, silent, trouble>>

TaskSleeps ==
    /\ emits["task"] = "none"
    /\ model.life = "up"
    /\ model' = [model EXCEPT !.life = "asleep", !.wanted = FALSE]
    /\ UNCHANGED <<emits, stage, sent, sinkVars, told, silent, trouble>>

TaskWakes ==
    /\ emits["task"] = "none"
    /\ model.life = "asleep"
    /\ Troubled
    /\ model' = [model EXCEPT !.life = "up", !.wanted = TRUE]
    /\ Begins("task", "ready")
    /\ UNCHANGED <<stage, sent, sinkVars, told, silent>>

-----------------------------------------------------------------------------
GivenUp ==
    model.managed /\ model.wanted /\ model.count >= MaxRestarts /\ ~model.armed

\* classify_event: what the transition means by now.
Classified(to) ==
    CASE to = "failed" -> IF GivenUp THEN "gave_up" ELSE "failed"
      [] to = "ready" /\ model.failed -> "recovered"
      [] OTHER -> "none"

Eligible(e) == {s \in sinks : Severity[e] >= Floor[s]}

\* Variation: one cooldown for the model, whatever the event.
Suppressed_Model(e) == \E f \in Event : sent[f] < Quiet

Suppressed(e) == sent[e] < Quiet

\* emit_transition after its await, in one step: a READY clears the flag, the
\* alert is dispatched unless it is suppressed or nobody wants it.
Emit(a) ==
    /\ emits[a] # "none"
    /\ LET e == Classified(emits[a])
           heard == e # "none" /\ Eligible(e) # {} /\ ~Suppressed(e)
       IN  /\ sent' = IF heard THEN [sent EXCEPT ![e] = 0] ELSE sent
           /\ told' = IF emits[a] # "failed" THEN told
                      ELSE e = "gave_up" /\ (heard \/ Eligible(e) = {} \/ sent[e] < Quiet)
    /\ model' = IF emits[a] = "ready" THEN [model EXCEPT !.failed = FALSE] ELSE model
    /\ Begins(a, "none")
    /\ stage' = CASE a = "pass" /\ stage = "emit" -> "restart"
                  [] a = "pass" /\ stage = "last" -> "check"
                  [] OTHER -> stage
    /\ UNCHANGED <<sinkVars, silent, trouble>>

\* Time passes.
Ages ==
    /\ \E e \in Event : sent[e] < Quiet
    /\ sent' = [e \in Event |-> IF sent[e] < Quiet THEN sent[e] + 1 ELSE Quiet]
    /\ UNCHANGED <<model, emits, stage, sinkVars, told, silent, trouble>>

-----------------------------------------------------------------------------
\* Requests that add or remove a sink: the row, then the list of rows, then the
\* live sinks. With one connection the answers come in order.
Writes(q, s) ==
    /\ admin[q].step = "none"
    /\ s \notin Wired
    /\ Troubled
    /\ rows' = IF s \in rows THEN rows \ {s} ELSE rows \cup {s}
    /\ admin' = [admin EXCEPT ![q] = [NoCall EXCEPT !.step = "list"]]
    /\ UNCHANGED <<model, emits, stage, sent, sinks, told, silent>>

Turns == {admin[q].turn : q \in Admin}
NextTurn == 1 + CHOOSE t \in Turns : \A u \in Turns : u <= t

\* Variation: the list is the one from before the change.
Lists_Before(q) ==
    /\ admin[q].step = "list"
    /\ admin' = [admin EXCEPT ![q] = [NoCall EXCEPT !.step = "set", !.list = sinks \ Wired,
                                                    !.turn = NextTurn]]
    /\ UNCHANGED <<model, emits, stage, sent, rows, sinks, told, silent, trouble>>

Lists(q) ==
    /\ admin[q].step = "list"
    /\ admin' = [admin EXCEPT ![q] = [NoCall EXCEPT !.step = "set", !.list = rows,
                                                    !.turn = NextTurn]]
    /\ UNCHANGED <<model, emits, stage, sent, rows, sinks, told, silent, trouble>>

SetsSinks(q) ==
    /\ admin[q].step = "set"
    /\ InOrder => \A p \in Admin : admin[p].step = "set" => admin[p].turn >= admin[q].turn
    /\ sinks' = Wired \cup admin[q].list
    /\ admin' = [admin EXCEPT ![q] = NoCall]
    /\ UNCHANGED <<model, emits, stage, sent, rows, told, silent, trouble>>

AlertNext ==
    \/ PassFails \/ PassReadies \/ PassFindsNothing \/ PassRestarts
    \/ TaskStarts \/ TaskStops \/ TaskSleeps \/ TaskWakes
    \/ \E a \in Emitter : Emit(a)
    \/ Ages
    \/ \E q \in Admin : Lists(q) \/ SetsSinks(q) \/ \E s \in Sink : Writes(q, s)

AlertSpec == AlertInit /\ [][AlertNext]_alertVars

-----------------------------------------------------------------------------
\* Every variable has its type.
AlertTypeOK ==
    /\ model \in Model
    /\ emits \in [Emitter -> {"none", "failed", "ready"}]
    /\ stage \in {"check", "emit", "restart", "last"}
    /\ sent \in [Event -> 0..Quiet]
    /\ rows \subseteq Sink /\ sinks \subseteq Sink
    /\ \A q \in Admin : admin[q].step \in {"none", "list", "set"} /\ admin[q].list \subseteq Sink
    /\ told \in BOOLEAN /\ silent \in BOOLEAN /\ trouble \in 0..MaxTrouble

\* A model that is down with its budget spent, and nothing left to emit for it; one
\* whose spawn failed is unmanaged, and not given up (GivenUp).
Abandoned ==
    model.life = "down" /\ GivenUp /\ \A a \in Emitter : emits[a] = "none"

\* Giving up is announced (events.py:24 "the moment a human needs to step in"):
\* a critical alert went out, or one did within the cooldown, or nobody asked
\* for it, unless the last restart was refused before it was a transition.
GaveUpTold == Abandoned => told \/ silent

\* The same without the exception (notifier.py:4-6 "discrete state events - a
\* model crashing, the auto-restart budget being exhausted").
GaveUpAlways == Abandoned => told

\* Changes of the sinks take effect (api/alerts.py:3-4): when no request is
\* under way, the live sinks are those of the environment and the table.
SinksCurrent ==
    (\A q \in Admin : admin[q].step = "none") => sinks = Wired \cup rows

\* A model is announced as recovered only when it is up (events.py:65).
RecoveredIsUp ==
    [][sent["recovered"] # 0 /\ sent'["recovered"] = 0 => model.life = "up"]_alertVars
=============================================================================
