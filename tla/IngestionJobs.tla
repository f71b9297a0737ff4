--------------------------- MODULE IngestionJobs ---------------------------
(***************************************************************************)
(* Asynchronous ingestion jobs: POST /ingestion/jobs, the background run   *)
(* of run_ingestion_job, and clients that poll GET /ingestion/jobs/{id}.   *)
(*                                                                         *)
(* JsonJobStore keeps one file per job.  write_text truncates the file and *)
(* then writes it, under a lock that readers do not take; other workers do *)
(* not share it either.  The outcome of a job is its record; its effect is *)
(* the index it saved.                                                     *)
(***************************************************************************)
EXTENDS Naturals

CONSTANTS
  Jobs,       \* job ids
  Workers,    \* processes that run jobs: API workers and the CLI
  NoWorker,   \* nobody runs the job
  MaxCrashes, \* bound on process crashes
  MaxErrors   \* bound on failing writes of a job file

ASSUME WorkerAssumption == NoWorker \notin Workers
ASSUME BoundAssumption == MaxCrashes \in Nat /\ MaxErrors \in Nat

\* Contents of a job file: missing, truncated, or a record with its status.
NoFile == "missing"
Empty == "empty"
Statuses == {"pending", "running", "succeeded", "failed"}
Terminal == {"succeeded", "failed"}

PCs == {"new", "creating", "scheduled", "starting", "work", "finished",
        "recording", "done", "dead"}

VARIABLES
  disk,     \* disk[j]: the file of job j
  pc,       \* pc[j]: the next step of the request and the task of job j
  host,     \* host[j]: the process that runs job j
  outcome,  \* outcome[j]: the status of the task's JobResult
  saved,    \* the jobs that replaced the index
  seen,     \* seen[j]: the last status a client was told
  crashes, errors  \* bounded counters

task == <<pc, host, outcome>>
jobVars == <<disk, task, saved, seen, crashes, errors>>

GoTo(j, label) == pc' = [pc EXCEPT ![j] = label]
Write(j, contents) == disk' = [disk EXCEPT ![j] = contents]

-----------------------------------------------------------------------------
JobInit ==
  /\ disk = [j \in Jobs |-> NoFile]
  /\ pc = [j \in Jobs |-> "new"]
  /\ host = [j \in Jobs |-> NoWorker]
  /\ outcome = [j \in Jobs |-> "pending"]
  /\ saved = {}
  /\ seen = [j \in Jobs |-> NoFile]
  /\ crashes = 0
  /\ errors = 0

\* JobStore.create: the file is created empty, then holds a pending job.
Create(j, w) ==
  /\ pc[j] = "new"
  /\ GoTo(j, "creating")
  /\ host' = [host EXCEPT ![j] = w]
  /\ Write(j, Empty)
  /\ UNCHANGED <<outcome, saved, seen, crashes, errors>>

\* The client gets 202 with a pending job, the task is scheduled.
Submitted(j) ==
  /\ pc[j] = "creating"
  /\ Write(j, "pending")
  /\ GoTo(j, "scheduled")
  /\ seen' = [seen EXCEPT ![j] = "pending"]
  /\ UNCHANGED <<host, outcome, saved, crashes, errors>>

\* run_ingestion_job reads the job and starts to write it back as running.
BeginRun(j) ==
  /\ pc[j] = "scheduled"
  /\ disk[j] # NoFile
  /\ outcome' = [outcome EXCEPT ![j] = "running"]
  /\ Write(j, Empty)
  /\ GoTo(j, "starting")
  /\ UNCHANGED <<host, saved, seen, crashes, errors>>

Running(j) ==
  /\ pc[j] = "starting"
  /\ Write(j, outcome[j])
  /\ GoTo(j, "work")
  /\ UNCHANGED <<host, outcome, saved, seen, crashes, errors>>

\* Mutant: success is noted before the index is saved.
PipelineAnnounced(j) ==
  /\ pc[j] = "work"
  /\ outcome' = [outcome EXCEPT ![j] = "succeeded"]
  /\ GoTo(j, "finished")
  /\ \/ saved' = saved \cup {j}
     \/ UNCHANGED saved
  /\ UNCHANGED <<disk, host, seen, crashes, errors>>

\* Load, validate, chunk and embed the CSV and save the index; or any of it
\* raises before the index file is replaced.
Pipeline(j) ==
  /\ pc[j] = "work"
  /\ \/ /\ saved' = saved \cup {j}
        /\ outcome' = [outcome EXCEPT ![j] = "succeeded"]
     \/ /\ outcome' = [outcome EXCEPT ![j] = "failed"]
        /\ UNCHANGED saved
  /\ GoTo(j, "finished")
  /\ UNCHANGED <<disk, host, seen, crashes, errors>>

BeginRecord(j) ==
  /\ pc[j] = "finished"
  /\ disk[j] # NoFile
  /\ Write(j, Empty)
  /\ GoTo(j, "recording")
  /\ UNCHANGED <<host, outcome, saved, seen, crashes, errors>>

\* Mutant: the task returns without the final store.update.
RecordNothing(j) ==
  /\ pc[j] = "recording"
  /\ Write(j, "running")
  /\ GoTo(j, "done")
  /\ UNCHANGED <<host, outcome, saved, seen, crashes, errors>>

Record(j) ==
  /\ pc[j] = "recording"
  /\ Write(j, outcome[j])
  /\ GoTo(j, "done")
  /\ UNCHANGED <<host, outcome, saved, seen, crashes, errors>>

-----------------------------------------------------------------------------
\* Mutant: a file that does not parse is answered as a failed job.
PollGuesses(j) ==
  /\ seen[j] # NoFile
  /\ seen' = [seen EXCEPT ![j] = IF disk[j] = Empty THEN "failed" ELSE disk[j]]
  /\ UNCHANGED <<disk, task, saved, crashes, errors>>

\* JsonJobStore.get, once the client knows the id.  An empty file does not
\* parse: the request fails and the client has learnt nothing.
Poll(j) ==
  /\ seen[j] # NoFile
  /\ seen' = [seen EXCEPT ![j] = IF disk[j] \in Statuses THEN disk[j] ELSE seen[j]]
  /\ UNCHANGED <<disk, task, saved, crashes, errors>>

-----------------------------------------------------------------------------
(* Failures.                                                               *)

\* write_text raises before or after it truncated the file (a full disk): the
\* exception leaves the handler or the background task.
WriteFails(j) ==
  /\ errors < MaxErrors
  /\ pc[j] \in {"creating", "scheduled", "starting", "finished", "recording"}
  /\ errors' = errors + 1
  /\ GoTo(j, "dead")
  /\ UNCHANGED <<disk, host, outcome, saved, seen, crashes>>

\* A process dies with its tasks.  No process looks for them afterwards.
Crash(w) ==
  /\ crashes < MaxCrashes
  /\ \E j \in Jobs : host[j] = w /\ pc[j] \notin {"done", "dead"}
  /\ crashes' = crashes + 1
  /\ pc' = [j \in Jobs |-> IF host[j] = w /\ pc[j] # "done" THEN "dead" ELSE pc[j]]
  /\ UNCHANGED <<disk, host, outcome, saved, seen, errors>>

-----------------------------------------------------------------------------
Steps(j) == Submitted(j) \/ BeginRun(j) \/ Running(j) \/ Pipeline(j) \/ BeginRecord(j)
              \/ Record(j)

JobNext ==
  \/ \E j \in Jobs : Steps(j) \/ Poll(j) \/ WriteFails(j)
  \/ \E j \in Jobs, w \in Workers : Create(j, w)
  \/ \E w \in Workers : Crash(w)

JobSpec == JobInit /\ [][JobNext]_jobVars

\* Submitted tasks run; clients, crashes and disks promise nothing.
FairSpec == JobSpec /\ \A j \in Jobs : WF_jobVars(Steps(j))

-----------------------------------------------------------------------------
(* Properties.                                                             *)

\* Every variable keeps its type.
JobTypeOK ==
  /\ disk \in [Jobs -> Statuses \cup {NoFile, Empty}]
  /\ pc \in [Jobs -> PCs]
  /\ host \in [Jobs -> Workers \cup {NoWorker}]
  /\ outcome \in [Jobs -> Statuses]
  /\ saved \in SUBSET Jobs
  /\ seen \in [Jobs -> Statuses \cup {NoFile}]
  /\ crashes \in 0..MaxCrashes
  /\ errors \in 0..MaxErrors

\* What the file, the index and the client's knowledge of a job can be at each
\* step of its task.
OutcomeKnown(j) ==
  outcome[j] \in Terminal /\ (outcome[j] = "succeeded" <=> j \in saved)

JobInv(j) ==
  /\ pc[j] = "new" => disk[j] = NoFile /\ seen[j] = NoFile /\ host[j] = NoWorker
                         /\ j \notin saved
  /\ pc[j] = "creating" => disk[j] = Empty /\ seen[j] = NoFile /\ j \notin saved
  /\ pc[j] = "scheduled" => disk[j] = "pending" /\ seen[j] = "pending" /\ j \notin saved
  /\ pc[j] = "starting" => disk[j] = Empty /\ seen[j] = "pending"
                              /\ outcome[j] = "running" /\ j \notin saved
  /\ pc[j] = "work" => disk[j] = "running" /\ j \notin saved
  /\ pc[j] = "finished" => disk[j] = "running" /\ OutcomeKnown(j)
  /\ pc[j] = "recording" => disk[j] = Empty /\ OutcomeKnown(j)
  /\ pc[j] \in {"work", "finished", "recording"} => seen[j] \in {"pending", "running"}
  /\ pc[j] = "done" => disk[j] = outcome[j] /\ OutcomeKnown(j)
                          /\ seen[j] \in {"pending", "running", outcome[j]}
  /\ pc[j] = "dead" => disk[j] \in {Empty, "pending", "running"}
                          /\ seen[j] \in {NoFile, "pending", "running"}
                          /\ (seen[j] = "running" => disk[j] # "pending")

\* The inductive invariant.
IngestionInv == JobTypeOK /\ \A j \in Jobs : JobInv(j)

\* What a client was told is true of the index: a job it saw succeed has
\* replaced the index and a job it saw fail has not.
ReportedOutcomeIsTrue ==
  \A j \in Jobs : /\ seen[j] = "succeeded" => j \in saved
                  /\ seen[j] = "failed" => j \notin saved

Rank(status) == IF status = NoFile THEN 0
                ELSE IF status = "pending" THEN 1
                ELSE IF status = "running" THEN 2 ELSE 3

\* "The job status transitions pending -> running -> succeeded/failed": polls
\* never see a job go back, and a terminal status is final.
StatusStep ==
  \A j \in Jobs : /\ Rank(seen'[j]) >= Rank(seen[j])
                  /\ seen[j] \in Terminal => seen'[j] = seen[j]

\* No step takes back what a client was told.
StatusMovesForward == [][StatusStep]_jobVars

\* A submitted job reaches the terminal status clients poll for, unless its
\* process dies or the record cannot be written.
JobsFinishOrDie ==
  \A j \in Jobs : pc[j] = "scheduled" ~> disk[j] \in Terminal \/ pc[j] = "dead"

\* "the client polls for the terminal status": a submitted job reaches it.
JobsFinish == \A j \in Jobs : pc[j] = "scheduled" ~> disk[j] \in Terminal
=============================================================================
