--------------------------- MODULE ConfigOverlay ---------------------------
(***************************************************************************)
(* The overlay of the configuration and its history                        *)
(* (apps/backend/app/services/overlay.py, core/config_versioning.py,       *)
(* api/config.py, the overlay operations of llmops/manager.py, the table   *)
(* config_versions). A backend keeps its overlay in a file; in HA mode the *)
(* newest version in the shared store is the truth, and every backend and  *)
(* every router copies it over the file.                                   *)
(*                                                                         *)
(* An overlay gives parameters to instances, each a group of its own, and  *)
(* a policy (autoscale, fallback, shared settings). Ports and launch       *)
(* commands are left out, and so is the validation that comes before an    *)
(* overlay is saved: what it refuses changes nothing. The check that comes *)
(* after, of the launcher, is modelled.                                    *)
(***************************************************************************)
EXTENDS Integers, Sequences, SequencesExt, FiniteSets

CONSTANTS
    Backend,    \* backend processes, each with its overlay file
    Inst,       \* instance keys
    Policy,     \* the group settings of an overlay, as one item
    Value,      \* parameters
    Unsupported,\* those of an engine that schema.py names and no launcher serves
    Absent,     \* not in Value: not overridden, not defined, not running
    Base,       \* config.yaml: Inst \cup {Policy} -> Value \cup {Absent}
    Lone,       \* the backend of a deployment without a shared store
    Modes,      \* subset of {"file", "store"}: SQLite and one backend, Postgres
    Request,    \* bound: the requests that change the overlay, one each
    Kinds,      \* bound: per mode and request, the operations it may be
    Replaced,   \* the overlays an uploaded backup may hold
    MaxStarts,  \* bound: starts of instances
    MaxErrors   \* bound: store errors

Item == Inst \cup {Policy}
Overlay == [Item -> Value \cup {Absent}]

ASSUME ConfAssumption ==
    /\ Absent \notin Value /\ Policy \notin Inst
    /\ Unsupported \subseteq Value
    /\ Base \in Overlay
    /\ Lone \in Backend /\ Modes \subseteq {"file", "store"}
    /\ Replaced \subseteq Overlay
    /\ MaxStarts \in Nat /\ MaxErrors \in Nat

VARIABLES
    mode,     \* which of the two deployments this is
    file,     \* per replica: the overlay file
    conf,     \* per replica: the overlay manager.config was merged from
    reg,      \* per replica: the registry: parameters and liveness by key
    procs,    \* per replica: the processes: <<key, parameters>>
    start,    \* the start that is between its resolved spec and its launch
    versions, \* table config_versions, oldest first
    syncing,  \* per replica: the overlay its sync pass has read
    req,      \* the requests
    count     \* starts and faults so far

confVars == <<mode, file, conf, reg, procs, start, versions, syncing, req, count>>

\* merge_into: the overlay overrides config.yaml, item by item.
Merged(o) == [i \in Item |-> IF o[i] # Absent THEN o[i] ELSE Base[i]]

NoRecord == [spec |-> Absent, live |-> FALSE]
Record == [spec : Value \cup {Absent}, live : BOOLEAN]
NoStart == [at |-> Absent, key |-> Absent, spec |-> Absent, held |-> FALSE]
NoRead == <<>>

Empty == [i \in Item |-> Absent]

\* _resolve_specs and build_registry: what the launchers make of an overlay. An
\* instance whose engine has none gets no record.
Specs(o) ==
    [k \in Inst |-> IF Merged(o)[k] \in Unsupported THEN Absent ELSE Merged(o)[k]]

Stages == {"idle", "arrived", "stopping", "saved", "recording", "aligning",
           "reloading", "handled", "selecting", "inserting", "done"}

\* before: the overlay when the middleware let the request in; next: the overlay
\* it proposes; item: what it changes; blob: the snapshot being recorded;
\* mark: the length of the history when an import saved; ok: it was accepted;
\* back: it found, when it was done, the overlay that it had met; late: it was
\* answered with an error after it had saved the overlay next.
NoRequest == [stage |-> "idle", at |-> Absent, kind |-> Absent, before |-> Empty,
              next |-> Empty, item |-> Absent, busy |-> {}, blob |-> Empty,
              mark |-> 0, ok |-> FALSE, back |-> FALSE, late |-> FALSE]

Registered(o) == [k \in Inst |-> [spec |-> Specs(o)[k], live |-> FALSE]]

ConfInit ==
    /\ mode \in Modes
    /\ file = [r \in Backend |-> Empty]
    /\ conf = [r \in Backend |-> Empty]
    /\ reg = [r \in Backend |-> Registered(Empty)]
    /\ procs = [r \in Backend |-> {}]
    /\ start = NoStart
    /\ versions = <<Empty>>      \* snapshot_overlay("startup baseline")
    /\ syncing = [r \in Backend |-> NoRead]
    /\ req = [q \in Request |-> NoRequest]
    /\ count = [starts |-> 0, faults |-> 0]

Newest == Last(versions)

Serving == IF mode = "store" THEN Backend ELSE {Lone}

Where(q) == req[q].at

Moves(q, stage) == req' = [req EXCEPT ![q].stage = stage]

\* The request is over; what it did is kept for the properties.
Ends(q) == req' = [req EXCEPT ![q].stage = "done", ![q].before = Empty, ![q].blob = Empty]

\* It ends without a snapshot: the overlay is as it was when it came.
Returns(q) == req' = [req EXCEPT ![q].stage = "done", ![q].back = TRUE, ![q].blob = Empty]

StoreError ==
    /\ count.faults < MaxErrors
    /\ count' = [count EXCEPT !.faults = @ + 1]

-----------------------------------------------------------------------------
\* The middleware hashes the file and lets the request through.
Arrive(q, r, kind) ==
    /\ req[q].stage = "idle"
    /\ req' = [req EXCEPT ![q] = [NoRequest EXCEPT !.stage = "arrived", !.at = r,
                                  !.kind = kind, !.before = file[r]]]
    /\ UNCHANGED <<file, conf, reg, procs, start, versions, syncing, count>>

\* save_overlay, then manager.config; the records of the registry as given. A
\* start under way keeps the record it holds only while that stays registered.
Saves(r, o, records) ==
    /\ file' = [file EXCEPT ![r] = o]
    /\ conf' = [conf EXCEPT ![r] = o]
    /\ reg' = [reg EXCEPT ![r] = records]
    /\ start' = [start EXCEPT !.held = @ /\ (start.at = r => records[start.key].spec # Absent)]

\* The overlay with one item changed: what the handler loads, edits and saves
\* without an await in between.
Changed(r, i, v) == [file[r] EXCEPT ![i] = v]

Accepted(q, stage, o, i) ==
    req' = [req EXCEPT ![q].stage = stage, ![q].next = o, ![q].item = i, ![q].ok = TRUE]

\* The request is answered with an error, so the middleware takes no snapshot,
\* and the overlay it has saved stays.
EndsLate(q, o) ==
    req' = [req EXCEPT ![q].stage = "done", ![q].before = Empty, ![q].next = o, ![q].late = TRUE]

\* The end that create and update share. The overlay is saved, and only then the
\* launcher of its engine looked up: without one the answer is 409 and the
\* record stays as it was; with one the record takes the parameters.
Edits(q, k, v) ==
    \/ /\ v \in Unsupported
       /\ Saves(Where(q), Changed(Where(q), k, v), reg[Where(q)])
       /\ EndsLate(q, Changed(Where(q), k, v))
    \/ /\ v \notin Unsupported
       /\ Saves(Where(q), Changed(Where(q), k, v), [reg[Where(q)] EXCEPT ![k].spec = v])
       /\ Accepted(q, "handled", Changed(Where(q), k, v), k)

\* create_overlay_model: a key that is not registered. A group that exists keeps
\* its settings, and with them its engine; one that exists only in the merged
\* configuration has no settings in the overlay, and does not validate.
Create(q, k, v) ==
    /\ reg[Where(q)][k].spec = Absent
    /\ LET found == Merged(file[Where(q)])[k]
       IN /\ found # Absent => (found \in Unsupported <=> v \in Unsupported)
          /\ Merged(conf[Where(q)])[k] # Absent => found # Absent
    /\ Edits(q, k, v)

\* update_overlay_model: a stopped instance, whose engine may change.
Update(q, k, v) ==
    /\ reg[Where(q)][k].spec # Absent /\ ~reg[Where(q)][k].live
    /\ Edits(q, k, v)

\* delete_overlay_model: a stopped instance of the overlay; the record goes even
\* when the entry only overrode config.yaml.
RemoveModel(q, k) ==
    /\ reg[Where(q)][k].spec # Absent /\ ~reg[Where(q)][k].live
    /\ file[Where(q)][k] # Absent
    /\ Saves(Where(q), Changed(Where(q), k, Absent), [reg[Where(q)] EXCEPT ![k] = NoRecord])
    /\ Accepted(q, "handled", Changed(Where(q), k, Absent), k)

\* Shared settings, which no record of the registry holds.
SetPolicy(q, v, stage) ==
    /\ v \notin Unsupported
    /\ Saves(Where(q), Changed(Where(q), Policy, v), reg[Where(q)])
    /\ Accepted(q, stage, Changed(Where(q), Policy, v), Policy)

SetAutoscale(q, v) == req[q].kind = "autoscale" /\ SetPolicy(q, v, "handled")

\* set_fallback reloads the router before it returns.
SetFallback(q, v) == req[q].kind = "fallback" /\ SetPolicy(q, v, "reloading")

\* update_embedding_model, which is refused while the embedding server runs; that
\* server is outside the model.
UpdateEmbedding(q, v) == req[q].kind = "embedding" /\ SetPolicy(q, v, "handled")

\* A handler that raises before it saves answers 4xx: nothing has changed, and the
\* middleware records nothing.
Refused(q) ==
    /\ Ends(q)
    /\ UNCHANGED <<file, conf, reg, start>>

Handle(q) ==
    /\ req[q].stage = "arrived"
    /\ \/ \E k \in Inst, v \in Value :
            \/ req[q].kind = "create" /\ Create(q, k, v)
            \/ req[q].kind = "update" /\ Update(q, k, v)
       \/ req[q].kind = "delete" /\ \E k \in Inst : RemoveModel(q, k)
       \/ \E v \in Value : SetAutoscale(q, v) \/ SetFallback(q, v) \/ UpdateEmbedding(q, v)
       \/ req[q].kind \notin {"import", "rollback", "force"} /\ Refused(q)
    /\ UNCHANGED <<procs, versions, syncing, count>>

-----------------------------------------------------------------------------
\* The keys whose definition an overlay removes or changes.
Affected(r, o) == {k \in Inst : reg[r][k].spec # Absent /\ reg[r][k].spec # Specs(o)[k]}

BusyKeys(r, o) == {k \in Affected(r, o) : reg[r][k].live}

\* resync_registry: the records of the overlay, those of instances it does not
\* touch kept as they are.
Resynced(r, o) ==
    [k \in Inst |-> IF Specs(o)[k] = Absent THEN NoRecord
                    ELSE [reg[r][k] EXCEPT !.spec = Specs(o)[k]]]

\* The versions that the dashboard lists and a rollback names.
Recorded == ToSet(versions)

\* What a request may restore: a version of the history, or an uploaded backup.
Proposed(q) == IF req[q].kind = "rollback" THEN Recorded ELSE Replaced

\* import_overlay: a backup, or a version of the history, unless it touches
\* running instances; force stops those first.
ImportBegins(q) ==
    /\ req[q].stage = "arrived"
    /\ req[q].kind \in {"import", "rollback", "force"}
    /\ \E o \in Proposed(q) :
         IF BusyKeys(Where(q), o) # {} /\ req[q].kind # "force"
         THEN Ends(q)
         ELSE req' = [req EXCEPT ![q].stage = "stopping", ![q].next = o,
                                 ![q].busy = BusyKeys(Where(q), o)]
    /\ UNCHANGED <<file, conf, reg, procs, start, versions, syncing, count>>

\* Stops the process of a record.
Stopped(r, k) ==
    /\ reg' = [reg EXCEPT ![r][k].live = FALSE]
    /\ procs' = [procs EXCEPT ![r] = {p \in @ : p[1] # k}]

ImportStops(q) ==
    /\ req[q].stage = "stopping"
    /\ \E k \in req[q].busy :
         /\ Stopped(Where(q), k)
         /\ req' = [req EXCEPT ![q].busy = @ \ {k}]
    /\ UNCHANGED <<file, conf, start, versions, syncing, count>>

\* The overlay is saved. In HA mode a snapshot of the file is taken at once;
\* otherwise the registry is aligned in the same step.
\* Variation: the snapshot is left to the middleware in HA mode too.
ImportSaves_Later(q) ==
    /\ req[q].stage = "stopping" /\ req[q].busy = {}
    /\ req' = [req EXCEPT ![q].stage = IF mode = "store" THEN "aligning" ELSE "reloading",
                          ![q].blob = req[q].next, ![q].mark = Len(versions), ![q].ok = TRUE]
    /\ Saves(Where(q), req[q].next,
             IF mode = "store" THEN reg[Where(q)] ELSE Resynced(Where(q), req[q].next))
    /\ UNCHANGED <<procs, versions, syncing, count>>

ImportSaves(q) ==
    /\ req[q].stage = "stopping" /\ req[q].busy = {}
    /\ req' = [req EXCEPT ![q].stage = IF mode = "store" THEN "saved" ELSE "reloading",
                          ![q].blob = req[q].next, ![q].mark = Len(versions), ![q].ok = TRUE]
    /\ Saves(Where(q), req[q].next,
             IF mode = "store" THEN reg[Where(q)] ELSE Resynced(Where(q), req[q].next))
    /\ UNCHANGED <<procs, versions, syncing, count>>

\* record_config_version: the newest hash is compared, then the row inserted;
\* an error is logged.
ImportSelects(q) ==
    /\ req[q].stage = "saved"
    /\ \/ Moves(q, IF Newest = req[q].blob THEN "aligning" ELSE "recording") /\ UNCHANGED count
       \/ StoreError /\ Moves(q, "aligning")
    /\ UNCHANGED <<file, conf, reg, procs, start, versions, syncing>>

ImportInserts(q) ==
    /\ req[q].stage = "recording"
    /\ \/ versions' = Append(versions, req[q].blob) /\ UNCHANGED count
       \/ StoreError /\ UNCHANGED versions
    /\ Moves(q, "aligning")
    /\ UNCHANGED <<file, conf, reg, procs, start, syncing>>

\* The registry is aligned with the overlay of the request, whatever is current.
ImportAligns(q) ==
    /\ req[q].stage = "aligning"
    /\ reg' = [reg EXCEPT ![Where(q)] = Resynced(Where(q), req[q].next)]
    /\ start' = [start EXCEPT !.held =
                   @ /\ (start.at = Where(q) => Specs(req[q].next)[start.key] # Absent)]
    /\ Moves(q, "reloading")
    /\ UNCHANGED <<file, conf, procs, versions, syncing, count>>

-----------------------------------------------------------------------------
\* hydrate_overlay_from_store: HA mode only.
Hydrated(r) == IF mode = "store" THEN [file EXCEPT ![r] = Newest] ELSE file

\* The router reloads, or cannot be reached; then the handler is over.
ReloadsRouter(q) ==
    /\ req[q].stage = "reloading"
    /\ file' \in {file, Hydrated(Where(q))}
    /\ Moves(q, "handled")
    /\ UNCHANGED <<conf, reg, procs, start, versions, syncing, count>>

\* Somebody else reloads the router: an instance became ready, a user asked.
Reload(r) ==
    /\ file' = Hydrated(r)
    /\ UNCHANGED <<conf, reg, procs, start, versions, syncing, req, count>>

\* The snapshot is not needed when the newest version has its content.
Compared(q, blob) ==
    IF Newest = blob THEN Ends(q)
    ELSE req' = [req EXCEPT ![q].stage = "inserting", ![q].blob = blob]

Unchanged(q) == file[Where(q)] = req[q].before

\* SQLite runs statements in the order they are issued, so the newest version is
\* the one at this moment; a shared store is asked for it.
Takes(q) ==
    IF mode = "file" THEN Compared(q, file[Where(q)])
    ELSE req' = [req EXCEPT ![q].stage = "selecting", ![q].blob = file[Where(q)]]

\* The middleware hashes the file again; it snapshots what it finds there when
\* that is not what the request met.
\* Variation: only a request that met the newest version takes a snapshot.
Snapshots_Optimistic(q) ==
    /\ req[q].stage = "handled"
    /\ \/ Unchanged(q) /\ Returns(q)
       \/ ~Unchanged(q) /\ IF Newest = req[q].before THEN Takes(q) ELSE Ends(q)
    /\ UNCHANGED <<file, conf, reg, procs, start, versions, syncing, count>>

Snapshots(q) ==
    /\ req[q].stage = "handled"
    /\ \/ Unchanged(q) /\ Returns(q)
       \/ ~Unchanged(q) /\ Takes(q)
    /\ UNCHANGED <<file, conf, reg, procs, start, versions, syncing, count>>

Select(q) ==
    /\ req[q].stage = "selecting"
    /\ \/ Compared(q, req[q].blob) /\ UNCHANGED count
       \/ StoreError /\ Ends(q)
    /\ UNCHANGED <<file, conf, reg, procs, start, versions, syncing>>

Insert(q) ==
    /\ req[q].stage = "inserting"
    /\ \/ versions' = Append(versions, req[q].blob) /\ UNCHANGED count
       \/ StoreError /\ UNCHANGED versions
    /\ Ends(q)
    /\ UNCHANGED <<file, conf, reg, procs, start, syncing>>

-----------------------------------------------------------------------------
\* _overlay_sync_loop reads the newest version, then copies it over the file and
\* aligns registry and configuration in one step, running instances included.
SyncReads(r) ==
    /\ mode = "store"
    /\ syncing[r] = NoRead
    /\ syncing' = [syncing EXCEPT ![r] = <<Newest>>]
    /\ UNCHANGED <<file, conf, reg, procs, start, versions, req, count>>

\* Variation: nothing is done when the file holds that overlay already.
SyncApplies_IfNew(r) ==
    /\ syncing[r] # NoRead
    /\ IF file[r] = syncing[r][1] THEN UNCHANGED <<file, conf, reg, start>>
       ELSE Saves(r, syncing[r][1], Resynced(r, syncing[r][1]))
    /\ syncing' = [syncing EXCEPT ![r] = NoRead]
    /\ UNCHANGED <<procs, versions, req, count>>

SyncApplies(r) ==
    /\ syncing[r] # NoRead
    /\ Saves(r, syncing[r][1], Resynced(r, syncing[r][1]))
    /\ syncing' = [syncing EXCEPT ![r] = NoRead]
    /\ UNCHANGED <<procs, versions, req, count>>

\* manager.start resolves the parameters of a record, with the launcher the record
\* was made for whatever engine the configuration names, runs its GPU checks, and
\* then launches, with the record it found at first.
Resolves(r, k) ==
    /\ start = NoStart /\ count.starts < MaxStarts
    /\ reg[r][k].spec # Absent /\ ~reg[r][k].live
    /\ Merged(conf[r])[k] # Absent
    /\ start' = [at |-> r, key |-> k, spec |-> Merged(conf[r])[k], held |-> TRUE]
    /\ count' = [count EXCEPT !.starts = @ + 1]
    /\ UNCHANGED <<file, conf, reg, procs, versions, syncing, req>>

LaunchesOne ==
    /\ start # NoStart
    /\ procs' = [procs EXCEPT ![start.at] = @ \cup {<<start.key, start.spec>>}]
    /\ reg' = IF start.held
              THEN [reg EXCEPT ![start.at][start.key] = [spec |-> start.spec, live |-> TRUE]]
              ELSE reg
    /\ start' = NoStart
    /\ UNCHANGED <<file, conf, versions, syncing, req, count>>

StopsOne(r, k) ==
    /\ reg[r][k].live
    /\ Stopped(r, k)
    /\ UNCHANGED <<file, conf, start, versions, syncing, req, count>>

RequestStep(q) ==
    \/ Handle(q) \/ ImportBegins(q) \/ ImportStops(q) \/ ImportSaves(q)
    \/ ImportSelects(q) \/ ImportInserts(q) \/ ImportAligns(q)
    \/ ReloadsRouter(q) \/ Snapshots(q) \/ Select(q) \/ Insert(q)

ConfNext ==
    /\ \/ \E q \in Request :
            \/ RequestStep(q)
            \/ \E r \in Serving, kind \in Kinds[mode][q] : Arrive(q, r, kind)
       \/ \E r \in Serving : \/ SyncReads(r) \/ SyncApplies(r) \/ Reload(r)
                              \/ \E k \in Inst : Resolves(r, k) \/ StopsOne(r, k)
       \/ LaunchesOne
    /\ UNCHANGED mode

\* A request that arrived is carried on, and the sync loop of a replica runs.
ConfFairness ==
    /\ \A q \in Request : WF_confVars(RequestStep(q) /\ UNCHANGED mode)
    /\ \A r \in Backend : WF_confVars((SyncReads(r) \/ SyncApplies(r)) /\ UNCHANGED mode)

ConfSpec == ConfInit /\ [][ConfNext]_confVars

-----------------------------------------------------------------------------
\* Every variable has its type.
ConfTypeOK ==
    /\ file \in [Backend -> Overlay] /\ conf \in [Backend -> Overlay]
    /\ reg \in [Backend -> [Inst -> Record]]
    /\ \A r \in Backend : procs[r] \subseteq Inst \X Value
    /\ start = NoStart \/ start \in [at : Backend, key : Inst, spec : Value, held : BOOLEAN]
    /\ versions \in Seq(Overlay) /\ versions # <<>>
    /\ \A r \in Backend : syncing[r] = NoRead \/ syncing[r][1] \in Overlay
    /\ \A q \in Request : req[q].stage \in Stages

Settled == \A q \in Request : req[q].stage \in {"idle", "done"}

\* Convergence (manager.sync_overlay_from_store): when no request is in flight
\* any more, every replica comes to use the newest version.
Agrees(r) ==
    /\ file[r] = Newest /\ conf[r] = Newest
    /\ \A k \in Inst : reg[r][k].spec = Specs(Newest)[k] \/ reg[r][k].live

FleetAgrees == mode = "store" => <>[](\A r \in Backend : Agrees(r))

\* An import is not lost (manager.py:1061-1067): once its router reload may
\* run, its overlay is or was the newest version, saved no earlier than itself.
ImportIsRecorded ==
    \A q \in Request :
        mode = "store" /\ req[q].kind \in {"import", "rollback", "force"} /\ req[q].ok
            /\ req[q].stage \notin {"saved", "recording"} /\ count.faults = 0
        => \E i \in req[q].mark..Len(versions) : versions[i] = req[q].next

\* What is current can be rolled back to (main.py:174, config_versioning.py:1):
\* with no request in flight the overlay file is in the history, unless requests
\* that crossed went back to what one of them had met, or it is what a request
\* saved that was then answered with an error.
CurrentIsKept ==
    mode = "file" /\ Settled /\ count.faults = 0 =>
        \A r \in Serving :
            \/ file[r] \in Recorded
            \/ \E q \in Request : \/ req[q].back /\ req[q].before = file[r]
                                  \/ req[q].late /\ req[q].next = file[r]

\* A snapshot is taken whenever a request changes the overlay
\* (config_versioning.py:1): the same without the exceptions.
CurrentIsAlwaysKept ==
    mode = "file" /\ Settled /\ count.faults = 0 =>
        \A r \in Serving : file[r] \in Recorded

\* Every overlay change is snapshotted (llmops_store.py:691): what an accepted
\* request changed shows in some version.
ChangeIsRecorded ==
    \A q \in Request :
        req[q].stage = "done" /\ req[q].ok /\ req[q].item # Absent /\ count.faults = 0 =>
            \E i \in 1..Len(versions) : versions[i][req[q].item] = req[q].next[req[q].item]

\* Nothing is orphaned (manager.py:1042): a process belongs to a live record
\* with the parameters it was launched with.
NothingOrphaned ==
    \A r \in Backend : \A p \in procs[r] : reg[r][p[1]] = [spec |-> p[2], live |-> TRUE]
=============================================================================
