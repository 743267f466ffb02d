------------------------------ MODULE LoraLoad ------------------------------
(***************************************************************************)
(* Hot loading of a LoRA adapter (apps/backend/app/llmops/manager.py,      *)
(* load_lora, unload_lora): the adapter is posted to every ready instance  *)
(* of a group, one after another, and then written to the overlay, from    *)
(* which a later start mounts it.                                          *)
(*                                                                         *)
(* One group that supports runtime LoRA, one adapter. The engine behind a  *)
(* post is external: it does what it is asked, refuses, or its answer does *)
(* not come back.                                                          *)
(***************************************************************************)
EXTENDS Sequences, SequencesExt

CONSTANTS
    Order,       \* the instances of the group, in the order of the registry
    Op,          \* calls of load_lora and unload_lora
    MayLose,     \* posts may time out, and undoing may fail
    MayRestart   \* instances may stop and start meanwhile

VARIABLES
    server,   \* per instance: its state, and whether it has the adapter
    saved,    \* the adapter is in lora_modules of the overlay and the config
    op        \* the calls

loraVars == <<server, saved, op>>

Inst == Range(Order)
NoOp == [does |-> "none", step |-> "idle", todo |-> <<>>, done |-> <<>>, answer |-> "ok"]

LoraInit ==
    /\ server = [i \in Inst |-> [life |-> "ready", has |-> FALSE]]
    /\ saved = FALSE
    /\ op = [o \in Op |-> NoOp]

\* _ready_lora_targets: a snapshot.
Targets == SelectSeq(Order, LAMBDA i : server[i].life = "ready")

-----------------------------------------------------------------------------
\* A load without a ready instance is a conflict.
LoadBegins(o) ==
    /\ op[o].step = "idle"
    /\ Targets # <<>>
    /\ op' = [op EXCEPT ![o] = [NoOp EXCEPT !.does = "load", !.step = "posts", !.todo = Targets]]
    /\ UNCHANGED <<server, saved>>

\* An unload without one goes on to the overlay at once.
UnloadBegins(o) ==
    /\ op[o].step = "idle"
    /\ op' = [op EXCEPT ![o] = [NoOp EXCEPT !.does = "unload", !.todo = Targets,
                                            !.step = IF Targets = <<>> THEN "over" ELSE "posts"]]
    /\ saved' = (saved /\ Targets # <<>>)
    /\ UNCHANGED server

\* _post_lora reaches an instance that loads or unloads the adapter, or not.
Posted(o, wants, then) ==
    LET i == Head(op[o].todo)
    IN  \E answer \in {"ok", "refused", "lost"}, does \in BOOLEAN :
          /\ answer = "ok" => does /\ server[i].life = "ready"
          /\ answer = "refused" => ~does /\ (wants \/ ~server[i].has \/ MayLose)
          /\ answer = "lost" => MayLose \/ server[i].life # "ready"
          /\ does => server[i].life = "ready"
          /\ server' = IF does THEN [server EXCEPT ![i].has = wants] ELSE server
          /\ op' = [op EXCEPT ![o].step = then, ![o].answer = answer]

Posts(o) ==
    /\ op[o].step = "posts"
    /\ Posted(o, op[o].does = "load", "posted")
    /\ UNCHANGED saved

\* A load goes on to the next instance, and saves after the last; a refusal is
\* undone where it was done, and another failure is raised as it is.
LoadAnswered(o) ==
    /\ op[o].step = "posted" /\ op[o].does = "load"
    /\ LET i == Head(op[o].todo)
           rest == Tail(op[o].todo)
       IN  \/ /\ op[o].answer = "ok"
              /\ op' = [op EXCEPT ![o].step = IF rest = <<>> THEN "over" ELSE "posts",
                                  ![o].todo = rest, ![o].done = Append(@, i)]
              /\ saved' = (saved \/ rest = <<>>)
           \/ /\ op[o].answer = "refused"
              /\ op' = [op EXCEPT ![o].step = IF op[o].done = <<>> THEN "over" ELSE "undoes",
                                  ![o].todo = op[o].done]
              /\ UNCHANGED saved
           \/ /\ op[o].answer = "lost"
              /\ op' = [op EXCEPT ![o].step = "over"]
              /\ UNCHANGED saved
    /\ UNCHANGED server

\* An unload collects the errors and goes on.
UnloadAnswered(o) ==
    /\ op[o].step = "posted" /\ op[o].does = "unload"
    /\ LET rest == Tail(op[o].todo)
       IN  /\ op' = [op EXCEPT ![o].step = IF rest = <<>> THEN "over" ELSE "posts",
                               ![o].todo = rest]
           /\ saved' = (saved /\ rest # <<>>)
    /\ UNCHANGED server

\* The rollback, whose failures are logged.
Undoes(o) ==
    /\ op[o].step = "undoes"
    /\ Posted(o, FALSE, "undone")
    /\ UNCHANGED saved

Undone(o) ==
    /\ op[o].step = "undone"
    /\ LET rest == Tail(op[o].todo)
       IN  op' = [op EXCEPT ![o].step = IF rest = <<>> THEN "over" ELSE "undoes",
                            ![o].todo = rest]
    /\ UNCHANGED <<server, saved>>

-----------------------------------------------------------------------------
\* build_spec reads the config when the start begins, long before it is ready.
Launches(i) ==
    /\ MayRestart
    /\ server[i].life = "down"
    /\ server' = [server EXCEPT ![i] = [life |-> "starting", has |-> saved]]
    /\ UNCHANGED <<saved, op>>

Readied(i) ==
    /\ server[i].life = "starting"
    /\ server' = [server EXCEPT ![i].life = "ready"]
    /\ UNCHANGED <<saved, op>>

Halts(i) ==
    /\ MayRestart
    /\ server[i].life # "down"
    /\ server' = [server EXCEPT ![i] = [life |-> "down", has |-> FALSE]]
    /\ UNCHANGED <<saved, op>>

LoraNext ==
    \/ \E o \in Op : \/ LoadBegins(o) \/ UnloadBegins(o) \/ Posts(o) \/ LoadAnswered(o)
                     \/ UnloadAnswered(o) \/ Undoes(o) \/ Undone(o)
    \/ \E i \in Inst : Launches(i) \/ Readied(i) \/ Halts(i)

LoraSpec == LoraInit /\ [][LoraNext]_loraVars

-----------------------------------------------------------------------------
\* Every variable has its type.
LoraTypeOK ==
    /\ server \in [Inst -> [life : {"down", "starting", "ready"}, has : BOOLEAN]]
    /\ saved \in BOOLEAN
    /\ \A o \in Op : /\ op[o].does \in {"none", "load", "unload"}
                     /\ op[o].step \in {"idle", "posts", "posted", "undoes", "undone", "over"}
                     /\ op[o].answer \in {"ok", "refused", "lost"}
                     /\ Range(op[o].todo) \cup Range(op[o].done) \subseteq Inst

\* The group is never left with the adapter on some instances only
\* (manager.py:867, "All-or-nothing across instances"). A post that times out
\* is not a LoraRuntimeError: what was loaded before it stays.
GroupIsEven ==
    (\A o \in Op : op[o].step \in {"idle", "over"})
      => \A i, k \in Inst : server[i].life = "ready" /\ server[k].life = "ready"
                              => server[i].has = server[k].has
=============================================================================
