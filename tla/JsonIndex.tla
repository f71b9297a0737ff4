----------------------------- MODULE JsonIndex -----------------------------
(***************************************************************************)
(* The shared JSON feedback index and the agent snapshots of the API       *)
(* workers that serve it.                                                  *)
(*                                                                         *)
(* Request threads of several workers and command-line processes load,     *)
(* merge and replace one index file.  Writers hold an OS lock (reentrant   *)
(* within a thread) over load, merge and save; a save writes a temporary   *)
(* sibling and renames it over the index.  Readers take no lock while the  *)
(* version of the file (inode and timestamps) is the one they have cached. *)
(***************************************************************************)
EXTENDS Naturals

CONSTANTS
  Threads,     \* request threads of API workers and CLI processes
  Workers,     \* API worker processes
  WorkerOf,    \* WorkerOf[t]: the worker thread t runs in, or Cli
  Cli,         \* marks a thread that is a process of its own
  NoThread,    \* the lock has no owner
  Sources,     \* scoped source ids
  CsvSources,  \* sources listed by the CSV of a full build
  Missing,     \* contents of an index file that does not exist
  Inodes,      \* file identities, reused by the file system
  NoInode,     \* identity of a missing file
  CoarseClock, \* TRUE: two saves may carry the same timestamps
  MaxWrites,   \* bound on write identifiers
  MaxCrashes   \* bound on process crashes

ASSUME ThreadAssumption ==
  /\ WorkerOf \in [Threads -> Workers \cup {Cli}]
  /\ Cli \notin Workers
  /\ NoThread \notin Threads
ASSUME InodeAssumption == NoInode \notin Inodes
ASSUME SourceAssumption == CsvSources \subseteq Sources
ASSUME BoundAssumption ==
  /\ MaxWrites \in Nat \ {0}
  /\ MaxCrashes \in Nat
  /\ CoarseClock \in BOOLEAN
ASSUME MissingAssumption == Missing \notin [Sources -> 0..MaxWrites]

Absent == 0        \* no chunk of the source is indexed
InitialBuild == 1  \* identifier of the build of a missing index

Contents == [Sources -> 0..MaxWrites]

\* A store together with the version of the file it was read from.
Snapshots == [content : Contents \cup {Missing},
              ino     : Inodes \cup {NoInode},
              stamp   : Nat]

\* A store that has not been saved yet.
Draft(store) == [content |-> store, ino |-> NoInode, stamp |-> 0]

NoSnapshot == Draft(Missing)

Kinds == {"query", "boot", "ensure", "ingest", "update", "rebuild"}

Ops == [kind : Kinds, batch : SUBSET Sources, id : 0..MaxWrites]

NoOp == [kind |-> "query", batch |-> {}, id |-> 0]

PCs == {"idle", "stat", "wait", "reload", "open", "recheck", "merge",
        "save", "replace", "publish", "ret"}

VARIABLES
  file,     \* the committed index file
  lock,     \* the thread that holds the writer lock, or NoThread
  state,    \* state[w]: the agent snapshot worker w serves
  up,       \* the workers that have finished starting
  pc,       \* pc[t]: the next step of thread t
  op,       \* op[t]: the operation thread t runs
  local,    \* local[t]: the store and version thread t works on
  writes,   \* identifiers given to writes so far
  crashes   \* processes that crashed so far

vars == <<file, lock, state, up, pc, op, local, writes, crashes>>

-----------------------------------------------------------------------------
\* Mutant: the version is the inode alone.
SameInode(a, b) == a.ino = b.ino

SameVersion(a, b) == a.ino = b.ino /\ a.stamp = b.stamp

Exists == file.content # Missing

\* build_index: one entry per CSV row, nothing else.
FullBuild(id) == [s \in Sources |-> IF s \in CsvSources THEN id ELSE Absent]

\* update_json_index starts from the committed store, or from an empty one.
LoadedStore == IF Exists THEN file.content ELSE [s \in Sources |-> Absent]

\* upsert_sources: drop every chunk of an incoming source, append the new ones.
UpsertSources(store, batch, id) ==
  [s \in Sources |-> IF s \in batch THEN id ELSE store[s]]

\* Mutant: nobody waits for the lock.
LockIsFree(t) == t \in Threads

\* The OS lock, reentrant within a thread.
CanLock(t) == lock = NoThread \/ lock = t

GoTo(t, label) == pc' = [pc EXCEPT ![t] = label]

Unlock(t) == lock' = IF lock = t THEN NoThread ELSE lock

\* The threads in ts have nothing to do any more.
Stop(ts) ==
  /\ pc' = [t \in Threads |-> IF t \in ts THEN "idle" ELSE pc[t]]
  /\ op' = [t \in Threads |-> IF t \in ts THEN NoOp ELSE op[t]]
  /\ local' = [t \in Threads |-> IF t \in ts THEN NoSnapshot ELSE local[t]]

\* A save waits for the lock unless an enclosing frame already holds it.
WaitsForLock(t) == pc[t] \in {"wait", "save"}

ThreadsOf(w) == {t \in Threads : WorkerOf[t] = w}

-----------------------------------------------------------------------------
Init ==
  /\ file = NoSnapshot
  /\ lock = NoThread
  /\ state = [w \in Workers |-> NoSnapshot]
  /\ up = {}
  /\ pc = [t \in Threads |-> "idle"]
  /\ op = [t \in Threads |-> NoOp]
  /\ local = [t \in Threads |-> NoSnapshot]
  /\ writes = InitialBuild
  /\ crashes = 0

-----------------------------------------------------------------------------
(* Calls begin.                                                            *)

Begin(t, kind, batch, id, label) ==
  /\ pc[t] = "idle"
  /\ GoTo(t, label)
  /\ op' = [op EXCEPT ![t] = [kind |-> kind, batch |-> batch, id |-> id]]
  /\ UNCHANGED <<file, lock, state, up, crashes>>

\* A worker starts: AgentSnapshots.__init__ builds its first agent.
StartBoot(t) ==
  /\ WorkerOf[t] \in Workers \ up
  /\ \A u \in ThreadsOf(WorkerOf[t]) : pc[u] = "idle"
  /\ Begin(t, "boot", {}, InitialBuild, "wait")
  /\ UNCHANGED <<local, writes>>

\* A query or chat request reads its worker's (agent, version) pair.
StartQuery(t) ==
  /\ WorkerOf[t] \in up
  /\ Begin(t, "query", {}, 0, "stat")
  /\ local' = [local EXCEPT ![t] = state[WorkerOf[t]]]
  /\ UNCHANGED writes

\* A command-line process loads the index, or builds it when it is missing.
StartEnsure(t) ==
  /\ WorkerOf[t] = Cli
  /\ Begin(t, "ensure", {}, InitialBuild, "open")
  /\ UNCHANGED <<local, writes>>

\* A batch of records arrives: POST /ingestion/records, or the CLI's update.
StartUpdate(t) ==
  /\ WorkerOf[t] \in up \cup {Cli}
  /\ writes < MaxWrites
  /\ writes' = writes + 1
  /\ \E batch \in SUBSET Sources \ {{}} :
       Begin(t, IF WorkerOf[t] = Cli THEN "update" ELSE "ingest",
             batch, writes + 1, "wait")
  /\ UNCHANGED local

\* A full build embeds the CSV before it asks for the lock.
StartRebuild(t) ==
  /\ WorkerOf[t] \in up \cup {Cli}
  /\ writes < MaxWrites
  /\ writes' = writes + 1
  /\ Begin(t, "rebuild", {}, writes + 1, "save")
  /\ local' = [local EXCEPT ![t] = Draft(FullBuild(writes + 1))]

-----------------------------------------------------------------------------
(* The lock.                                                               *)

\* What the block does first.
FirstStep(kind) ==
  IF kind = "query" THEN "reload"
  ELSE IF kind = "boot" THEN "open"
  ELSE IF kind = "ensure" THEN "recheck" ELSE "merge"

\* Mutant: a reload does not take the lock.
AcquireNoReaderLock(t) ==
  /\ pc[t] = "wait"
  /\ CanLock(t)
  /\ IF op[t].kind = "query" THEN UNCHANGED lock ELSE lock' = t
  /\ GoTo(t, FirstStep(op[t].kind))
  /\ UNCHANGED <<file, state, up, op, local, writes, crashes>>

Acquire(t) ==
  /\ pc[t] = "wait"
  /\ CanLock(t)
  /\ lock' = t
  /\ GoTo(t, FirstStep(op[t].kind))
  /\ UNCHANGED <<file, state, up, op, local, writes, crashes>>

\* Mutant: waiting for the lock has no timeout.
NoTimeOut(t) == t \notin Threads

\* The lock stayed busy for the whole timeout: the call fails.
TimeOut(t) ==
  /\ WaitsForLock(t)
  /\ ~CanLock(t)
  /\ Stop({t})
  /\ UNCHANGED <<file, lock, state, up, writes, crashes>>

-----------------------------------------------------------------------------
(* Reading.                                                                *)

\* The fast path of AgentSnapshots.get: one stat, no lock.
Stat(t) ==
  /\ pc[t] = "stat"
  /\ GoTo(t, IF SameVersion(file, local[t]) THEN "ret" ELSE "wait")
  /\ UNCHANGED <<file, lock, state, up, op, local, writes, crashes>>

\* Under the lock another thread of the worker may already have reloaded.
ReloadNotNeeded(t) ==
  /\ pc[t] = "reload"
  /\ SameVersion(file, state[WorkerOf[t]])
  /\ local' = [local EXCEPT ![t] = state[WorkerOf[t]]]
  /\ Unlock(t)
  /\ GoTo(t, "ret")
  /\ UNCHANGED <<file, state, up, op, writes, crashes>>

\* Stat and load the committed file.
Reload(t) ==
  /\ pc[t] = "reload"
  /\ ~SameVersion(file, state[WorkerOf[t]])
  /\ local' = [local EXCEPT ![t] = file]
  /\ GoTo(t, "publish")
  /\ UNCHANGED <<file, lock, state, up, op, writes, crashes>>

\* load_or_build_index looks for the file, without the lock in a CLI process
\* and under the worker's lock while it boots.
Open(t) ==
  /\ pc[t] = "open"
  /\ \/ /\ Exists
        /\ local' = [local EXCEPT ![t] = file]
        /\ GoTo(t, IF op[t].kind = "boot" THEN "publish" ELSE "ret")
     \/ /\ ~Exists
        /\ GoTo(t, IF op[t].kind = "boot" THEN "recheck" ELSE "wait")
        /\ UNCHANGED local
  /\ UNCHANGED <<file, lock, state, up, op, writes, crashes>>

\* Mutant: finding the index leaves the lock held.
RecheckFoundKeepsLock(t) ==
  /\ pc[t] = "recheck"
  /\ Exists
  /\ local' = [local EXCEPT ![t] = file]
  /\ GoTo(t, IF op[t].kind = "boot" THEN "publish" ELSE "ret")
  /\ UNCHANGED <<file, lock, state, up, op, writes, crashes>>

\* Another process may have created the index while this one waited.
RecheckFound(t) ==
  /\ pc[t] = "recheck"
  /\ Exists
  /\ local' = [local EXCEPT ![t] = file]
  /\ IF op[t].kind = "boot"
       THEN GoTo(t, "publish") /\ UNCHANGED lock
       ELSE GoTo(t, "ret") /\ Unlock(t)
  /\ UNCHANGED <<file, state, up, op, writes, crashes>>

RecheckMissing(t) ==
  /\ pc[t] = "recheck"
  /\ ~Exists
  /\ local' = [local EXCEPT ![t] = Draft(FullBuild(op[t].id))]
  /\ GoTo(t, "save")
  /\ UNCHANGED <<file, lock, state, up, op, writes, crashes>>

-----------------------------------------------------------------------------
(* Writing.                                                                *)

\* update_json_index: load the committed store and merge the batch into it.
Merge(t) ==
  /\ pc[t] = "merge"
  /\ local' = [local EXCEPT ![t] = Draft(UpsertSources(LoadedStore, op[t].batch, op[t].id))]
  /\ GoTo(t, "save")
  /\ UNCHANGED <<file, lock, state, up, op, writes, crashes>>

\* write_index_json: the temporary sibling is written, flushed and synced.
WriteTemporary(t) ==
  /\ pc[t] = "save"
  /\ CanLock(t)
  /\ lock' = t
  /\ \E i \in Inodes \ {file.ino} :
       local' = [local EXCEPT ![t] = [content |-> local[t].content, ino |-> i, stamp |-> 0]]
  /\ GoTo(t, "replace")
  /\ UNCHANGED <<file, state, up, op, writes, crashes>>

\* os.replace: the temporary becomes the index in one step.  A fine clock
\* gives every save its own timestamps.
Replace(t) ==
  /\ pc[t] = "replace"
  /\ \E stamp \in {file.stamp + 1} \cup (IF CoarseClock THEN {file.stamp} ELSE {}) :
       LET new == [content |-> local[t].content, ino |-> local[t].ino, stamp |-> stamp]
       IN  file' = new /\ local' = [local EXCEPT ![t] = new]
  /\ IF op[t].kind \in {"ingest", "boot"}
       THEN GoTo(t, "publish") /\ UNCHANGED lock
       ELSE GoTo(t, "ret") /\ Unlock(t)
  /\ UNCHANGED <<state, up, op, writes, crashes>>

\* Mutant: the pair keeps the previous agent under the new version.
PublishPreviousAgent(t) ==
  /\ pc[t] = "publish"
  /\ LET w == WorkerOf[t]
     IN  /\ state' = [state EXCEPT ![w] =
              [content |-> IF w \in up THEN state[w].content ELSE local[t].content,
               ino |-> file.ino, stamp |-> file.stamp]]
         /\ up' = up \cup {w}
  /\ Unlock(t)
  /\ GoTo(t, "ret")
  /\ UNCHANGED <<file, op, local, writes, crashes>>

\* The worker's pair is replaced before the lock is released.  A reload keeps
\* the version it read before loading; the others stat the file now.
Publish(t) ==
  /\ pc[t] = "publish"
  /\ LET w == WorkerOf[t]
         version == IF op[t].kind = "query" THEN local[t] ELSE file
     IN  /\ state' = [state EXCEPT ![w] = [content |-> local[t].content,
                                            ino |-> version.ino, stamp |-> version.stamp]]
         /\ up' = up \cup {w}
  /\ Unlock(t)
  /\ GoTo(t, "ret")
  /\ UNCHANGED <<file, op, local, writes, crashes>>

-----------------------------------------------------------------------------
(* Calls end.                                                              *)

Return(t) ==
  /\ pc[t] = "ret"
  /\ Stop({t})
  /\ UNCHANGED <<file, lock, state, up, writes, crashes>>

\* Loading, merging, preparing an agent, writing the temporary, renaming it or
\* emitting a telemetry event raises: the temporary is unlinked, the lock
\* released, and neither the file nor the worker's pair changes.
Fail(t) ==
  /\ pc[t] \in {"open", "reload", "recheck", "merge", "save", "replace", "publish"}
  /\ Unlock(t)
  /\ Stop({t})
  /\ UNCHANGED <<file, state, up, writes, crashes>>

\* A process dies: its threads stop, the OS releases the lock they held and
\* the served snapshot is lost.  The index file stays.
CrashOf(ts) ==
  /\ crashes < MaxCrashes
  /\ \E t \in ts : pc[t] # "idle"
  /\ crashes' = crashes + 1
  /\ Stop(ts)
  /\ lock' = IF lock \in ts THEN NoThread ELSE lock
  /\ UNCHANGED <<file, writes>>

CrashWorker(w) ==
  /\ CrashOf(ThreadsOf(w))
  /\ state' = [state EXCEPT ![w] = NoSnapshot]
  /\ up' = up \ {w}

CrashCli(t) ==
  /\ WorkerOf[t] = Cli
  /\ CrashOf({t})
  /\ UNCHANGED <<state, up>>

-----------------------------------------------------------------------------
Calls(t) == StartBoot(t) \/ StartQuery(t) \/ StartEnsure(t) \/ StartUpdate(t)
              \/ StartRebuild(t)

Steps(t) == Acquire(t) \/ TimeOut(t) \/ Stat(t) \/ ReloadNotNeeded(t) \/ Reload(t)
              \/ Open(t) \/ RecheckFound(t) \/ RecheckMissing(t) \/ Merge(t)
              \/ WriteTemporary(t) \/ Replace(t) \/ Publish(t) \/ Return(t)

Next ==
  \/ \E t \in Threads : Calls(t) \/ Steps(t) \/ Fail(t) \/ CrashCli(t)
  \/ \E w \in Workers : CrashWorker(w)

Spec == Init /\ [][Next]_vars

\* A thread that can run or time out eventually does; callers, failures and
\* crashes promise nothing.
FairSpec == Spec /\ \A t \in Threads : WF_vars(Steps(t))

-----------------------------------------------------------------------------
(* Properties.                                                             *)

\* Every variable keeps its type, and a started worker serves a loaded store.
TypeOK ==
  /\ file \in Snapshots
  /\ lock \in Threads \cup {NoThread}
  /\ state \in [Workers -> Snapshots]
  /\ up \in SUBSET Workers
  /\ \A w \in up : state[w].content \in Contents
  /\ pc \in [Threads -> PCs]
  /\ op \in [Threads -> Ops]
  /\ local \in [Threads -> Snapshots]
  /\ writes \in 1..MaxWrites
  /\ crashes \in 0..MaxCrashes

\* The threads inside a `with index_write_lock` block.
Holds(t) ==
  \/ pc[t] \in {"reload", "recheck", "merge", "replace", "publish"}
  \/ pc[t] = "open" /\ op[t].kind = "boot"
  \/ pc[t] = "save" /\ op[t].kind # "rebuild"

\* The lock belongs to the one thread inside such a block.
LockInv == \A t \in Threads : Holds(t) <=> lock = t

\* Which operation and which process can be at which step.
StepInv ==
  \A t \in Threads :
    /\ pc[t] \in {"stat", "reload"} => op[t].kind = "query"
    /\ pc[t] \in {"open", "recheck"} => op[t].kind \in {"boot", "ensure"}
    /\ pc[t] = "merge" => op[t].kind \in {"ingest", "update"}
    /\ pc[t] = "wait" => op[t].kind # "rebuild"
    /\ pc[t] \in {"save", "replace"} => op[t].kind # "query"
    /\ pc[t] = "publish" => op[t].kind \in {"query", "ingest", "boot"}
    /\ pc[t] # "idle" /\ op[t].kind \in {"query", "ingest", "boot"} => WorkerOf[t] \in Workers
    /\ pc[t] # "idle" /\ op[t].kind \in {"query", "ingest"} => WorkerOf[t] \in up

\* What a thread is about to commit or publish: under the lock the draft of an
\* update is the merge of its batch into the file as it is now, an initial
\* build has no file to overwrite, and what is published is the file.
DraftInv ==
  \A t \in Threads :
    /\ pc[t] \in {"save", "replace"} => local[t].content \in Contents
    /\ pc[t] \in {"save", "replace"} /\ op[t].kind \in {"ingest", "update"} =>
         local[t].content = UpsertSources(LoadedStore, op[t].batch, op[t].id)
    /\ pc[t] \in {"save", "replace"} /\ op[t].kind \in {"boot", "ensure"} => ~Exists
    /\ pc[t] \in {"save", "replace"} /\ op[t].kind \in {"boot", "ensure", "rebuild"} =>
         local[t].content = FullBuild(op[t].id)
    /\ pc[t] = "publish" => local[t] = file /\ Exists

\* The file is there once a worker runs and never goes back in time, and with a
\* fine clock a cached snapshot with the timestamps of the file is the file.
Tracks(snapshot) ==
  /\ snapshot.stamp <= file.stamp
  /\ ~CoarseClock /\ snapshot.stamp = file.stamp => snapshot = file

VersionInv ==
  /\ up # {} => Exists
  /\ \A w \in up : Tracks(state[w])
  /\ \A t \in Threads : pc[t] = "stat" => Tracks(local[t])

\* The inductive invariant behind the theorems of JsonIndexProofs.
IndexInv == TypeOK /\ LockInv /\ StepInv /\ DraftInv /\ VersionInv

\* The fast path of AgentSnapshots.get is sound: a worker whose cached version
\* is the version of the file serves the contents of the file.
CachedVersionIsCurrent ==
  \A w \in up : SameVersion(state[w], file) => state[w].content = file.content

\* The step in which thread t renames its temporary over the index.
Commits(t) == pc[t] = "replace" /\ pc'[t] \in {"publish", "ret"}

\* An incremental update (update_json_index) never undoes what somebody else
\* committed meanwhile: outside its batch the index keeps what the file holds
\* at the moment of the rename.
NoLostUpdateStep ==
  \A t \in Threads :
    Commits(t) /\ op[t].kind \in {"ingest", "update"} =>
      /\ file'.content # Missing
      /\ \A s \in Sources : file'.content[s] =
           (IF s \in op[t].batch THEN op[t].id
            ELSE IF Exists THEN file.content[s] ELSE Absent)

NoLostUpdate == [][NoLostUpdateStep]_vars

\* load_or_build_index "never rebuilds over committed data": an initial build
\* reaches the index file only while there is none.
InitialBuildStep ==
  \A t \in Threads : Commits(t) /\ op[t].kind \in {"boot", "ensure"} => ~Exists

InitialBuildNeverOverwrites == [][InitialBuildStep]_vars

\* A worker never goes back to an older index: what Publish installs is at
\* least as recent as what the worker serves ("preventing stale publication").
NoStalePublicationStep ==
  \A w \in Workers : w \in up /\ w \in up' => state'[w].stamp >= state[w].stamp

NoStalePublication == [][NoStalePublicationStep]_vars

\* Whatever fails, times out or crashes, the writer lock is free again and
\* again.
LockIsReleased == []<>(lock = NoThread)

\* Every query, ingestion, rebuild and start of a worker ends: it returns,
\* fails or times out on the lock, however often others take it.
CallsEnd == \A t \in Threads : pc[t] # "idle" ~> pc[t] = "idle"

-----------------------------------------------------------------------------
(* The index is an atomic register: see IndexRegister.                     *)

Phase(t) == IF pc[t] = "idle" THEN "idle"
            ELSE IF pc[t] \in {"publish", "ret"} THEN "done" ELSE "open"

Answer(t) == IF Phase(t) = "done" /\ op[t].kind \in {"query", "boot", "ensure"}
               THEN local[t].content ELSE Missing

Register == INSTANCE IndexRegister WITH
  index  <- file.content,
  phase  <- [t \in Threads |-> Phase(t)],
  call   <- op,
  answer <- [t \in Threads |-> Answer(t)]

\* Every query, ingestion, rebuild and initial build takes effect at one moment
\* between its start and its end, on the whole index: a query answers from the
\* contents committed at some moment of the request.
ImplementsRegister == Register!Spec
=============================================================================
