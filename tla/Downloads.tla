------------------------------ MODULE Downloads ------------------------------
(***************************************************************************)
(* Downloads of model weights, LoRA adapters and benchmark datasets        *)
(* (apps/backend/app/services/downloads.py, lora_downloads.py,             *)
(* dataset_downloads.py and their routes): a job per folder, whose task    *)
(* runs the blocking snapshot in a thread while a poller samples the size  *)
(* of the folder. The three managers differ in the size they look up and   *)
(* in the warming of an evaluation dataset.                                *)
(*                                                                         *)
(* One folder: downloads into different folders share nothing.             *)
(***************************************************************************)
EXTENDS Integers, FiniteSets, FiniteSetsExt

CONSTANTS
    Job,         \* job objects: the current one, and those it replaced
    NoJob,
    FullSize,    \* size of the folder once everything is there
    MaxDeletes   \* bound: deletions of the folder

ASSUME DownloadAssumption ==
    NoJob \notin Job /\ FullSize \in Nat \ {0} /\ MaxDeletes \in Nat

VARIABLES
    kind,     \* what the folder holds
    current,  \* _jobs[key]
    task,     \* _tasks[key]: the job whose _run is registered
    jobs,     \* the job objects, and where their _run and _poll are
    onDisk,   \* bytes in the folder
    deletes   \* how much of MaxDeletes is spent

downloadVars == <<kind, current, task, jobs, onDisk, deletes>>

Kind == {"model", "lora", "perf", "eval"}

\* Places of _run that have a task; in "fetching" and after it a poller too.
Steps == {"spawned", "sizing", "fetching", "measuring", "measured"}

NewJob == [step |-> "spawned", state |-> "pending", total |-> 0, bytes |-> 0, final |-> 0,
           poll |-> "off", sample |-> 0, cut |-> FALSE, warming |-> FALSE]

Unused == [NewJob EXCEPT !.step = "over", !.state = "unused"]

DownloadInit ==
    /\ kind \in Kind
    /\ current = NoJob /\ task = NoJob
    /\ jobs = [j \in Job |-> Unused]
    /\ onDisk = 0
    /\ deletes = 0

Runs(j) == jobs[j].step \in Steps

-----------------------------------------------------------------------------
\* start returns the job that is in flight, and makes a new one otherwise.
\* Variation: only a job that is downloading counts as in flight.
InFlight_Begun(j) == j # NoJob /\ jobs[j].state = "downloading"

InFlight(j) == j # NoJob /\ jobs[j].state \in {"pending", "downloading"}

StartsDownload(j) ==
    /\ ~InFlight(current)
    /\ j # current /\ ~Runs(j)
    /\ current' = j /\ task' = j
    /\ jobs' = [jobs EXCEPT ![j] = NewJob]
    /\ UNCHANGED <<kind, onDisk, deletes>>

\* _run begins: a dataset has no size to look up, and its poller starts at once.
BeginsDownload(j) ==
    /\ jobs[j].step = "spawned"
    /\ jobs' = [jobs EXCEPT
         ![j].state = "downloading",
         ![j].step = IF kind \in {"model", "lora"} THEN "sizing" ELSE "fetching",
         ![j].poll = IF kind \in {"model", "lora"} THEN "off" ELSE "reading"]
    /\ UNCHANGED <<kind, current, task, onDisk, deletes>>

\* model_total_size answers, fails, or knows the sizes of some files only.
Sized(j) ==
    /\ jobs[j].step = "sizing"
    /\ \E n \in 0..FullSize :
         jobs' = [jobs EXCEPT ![j].step = "fetching", ![j].total = n, ![j].poll = "reading"]
    /\ UNCHANGED <<kind, current, task, onDisk, deletes>>

\* The thread of the snapshot writes; it returns with every file written, if
\* none was deleted under it.
Fetches(j) ==
    /\ jobs[j].step = "fetching"
    /\ onDisk < FullSize
    /\ onDisk' = onDisk + 1
    /\ UNCHANGED <<kind, current, task, jobs, deletes>>

Fetched(j) ==
    /\ jobs[j].step = "fetching"
    /\ onDisk = FullSize \/ jobs[j].cut
    /\ jobs' = [jobs EXCEPT ![j].step = "measuring"]
    /\ UNCHANGED <<kind, current, task, onDisk, deletes>>

\* The final size is read in a thread, and its answer completes the job.
Measures(j) ==
    /\ jobs[j].step = "measuring"
    /\ jobs' = [jobs EXCEPT ![j].step = "measured", ![j].final = onDisk]
    /\ UNCHANGED <<kind, current, task, onDisk, deletes>>

\* The finally clause of _run: the poller is cancelled, even one whose sample
\* is already there, and the task is no longer registered.
\* Variation: the poller is left to stop by itself.
Leaves_Polling(j, job) == [jobs EXCEPT ![j] = [job EXCEPT !.step = "over"]]

Leaves(j, job) == [jobs EXCEPT ![j] = [job EXCEPT !.step = "over", !.poll = "off", !.cut = FALSE]]

Completes(j) ==
    /\ jobs[j].step = "measured"
    /\ LET job == jobs[j]
       IN  jobs' = Leaves(j, [job EXCEPT
             !.state = "completed", !.bytes = job.final,
             !.total = IF job.total > 0 THEN Max({job.total, job.final}) ELSE 0,
             !.warming = kind = "eval"])
    /\ task' = NoJob
    /\ UNCHANGED <<kind, current, onDisk, deletes>>

\* The snapshot fails; the lookups of sizes do not.
FailsDownload(j) ==
    /\ jobs[j].step = "fetching"
    /\ jobs' = Leaves(j, [jobs[j] EXCEPT !.state = "failed"])
    /\ task' = NoJob
    /\ UNCHANGED <<kind, current, onDisk, deletes>>

-----------------------------------------------------------------------------
\* _poll: a thread reads the size, the answer is assigned, a second passes.
Samples(j) ==
    /\ jobs[j].poll = "reading"
    /\ jobs' = [jobs EXCEPT ![j].poll = "answered", ![j].sample = onDisk]
    /\ UNCHANGED <<kind, current, task, onDisk, deletes>>

ShowsSample(j) ==
    /\ jobs[j].poll = "answered"
    /\ jobs' = [jobs EXCEPT ![j].poll = "resting", ![j].bytes = jobs[j].sample]
    /\ UNCHANGED <<kind, current, task, onDisk, deletes>>

SamplesAgain(j) ==
    /\ jobs[j].poll = "resting"
    /\ jobs' = [jobs EXCEPT ![j].poll = "reading"]
    /\ UNCHANGED <<kind, current, task, onDisk, deletes>>

\* _warm_eval is over, whatever came of it.
Warmed(j) ==
    /\ jobs[j].warming
    /\ jobs' = [jobs EXCEPT ![j].warming = FALSE]
    /\ UNCHANGED <<kind, current, task, onDisk, deletes>>

\* The routes that delete what is in a folder ask no job.
Deleted ==
    /\ deletes < MaxDeletes
    /\ onDisk > 0
    /\ deletes' = deletes + 1
    /\ onDisk' = 0
    /\ jobs' = [j \in Job |-> [jobs[j] EXCEPT !.cut = jobs[j].step = "fetching" \/ @]]
    /\ UNCHANGED <<kind, current, task>>

DeletesModel == kind = "model" /\ Deleted
DeletesAdapter == kind = "lora" /\ Deleted
DeletesDataset == kind \in {"perf", "eval"} /\ Deleted

\* The dashboard is killed and started again: jobs are not persisted.
ForgetsJobs ==
    /\ current # NoJob
    /\ current' = NoJob /\ task' = NoJob
    /\ jobs' = [j \in Job |-> Unused]
    /\ UNCHANGED <<kind, onDisk, deletes>>

DownloadNext ==
    \/ \E j \in Job : \/ StartsDownload(j) \/ BeginsDownload(j) \/ Sized(j) \/ Fetches(j)
                      \/ Fetched(j) \/ Measures(j) \/ Completes(j) \/ FailsDownload(j)
                      \/ Samples(j) \/ ShowsSample(j) \/ SamplesAgain(j) \/ Warmed(j)
    \/ DeletesModel \/ DeletesAdapter \/ DeletesDataset
    \/ ForgetsJobs

DownloadSpec == DownloadInit /\ [][DownloadNext]_downloadVars

-----------------------------------------------------------------------------
\* Every variable has its type.
DownloadTypeOK ==
    /\ kind \in Kind /\ current \in Job \cup {NoJob} /\ task \in Job \cup {NoJob}
    /\ jobs \in [Job -> [step : Steps \cup {"over"},
                         state : {"unused", "pending", "downloading", "completed", "failed"},
                         total : 0..FullSize, bytes : 0..FullSize, final : 0..FullSize,
                         poll : {"off", "reading", "answered", "resting"},
                         sample : 0..FullSize, cut : BOOLEAN, warming : BOOLEAN]]
    /\ onDisk \in 0..FullSize
    /\ deletes \in 0..MaxDeletes

\* One thread at a time writes a folder, and it belongs to the job the
\* dashboard shows (start is idempotent while a download is in flight, and the
\* task of a finished job does not unregister the one of its successor).
OneRunner ==
    \A j \in Job : Runs(j) => /\ current = j /\ task = j
                              /\ \A other \in Job \ {j} : ~Runs(other)

\* A completed job keeps the size it was completed with: a sample the poller
\* took earlier does not arrive after the final one (the finally clause of _run).
SizeIsFinal ==
    [][\A j \in Job : jobs[j].state = "completed" /\ jobs'[j].state = "completed"
                        => jobs'[j].bytes = jobs[j].bytes]_downloadVars

\* What the dashboard shows as completed is on the disk. It is not when the
\* folder is deleted, during the download or after it (api/downloads.py).
CompletedIsOnDisk ==
    current # NoJob /\ jobs[current].state = "completed" => onDisk = FullSize
=============================================================================
