-------------------------- MODULE QdrantSnapshots --------------------------
(***************************************************************************)
(* Coordinated serving of a remote Qdrant collection.                      *)
(*                                                                         *)
(* API workers cache a snapshot of the collection.  They and external      *)
(* writers share one local lock and a generation marker that a writer      *)
(* replaces before it touches the collection.  A replacement of sources is *)
(* no transaction: new points are upserted, then obsolete points deleted,  *)
(* and either request may fail after changing some of its points.          *)
(***************************************************************************)
EXTENDS Naturals

CONSTANTS
  Threads,    \* request threads of API workers and external writers
  Workers,    \* API worker processes
  WorkerOf,   \* WorkerOf[t]: the worker thread t runs in, or Cli
  Cli,        \* marks an external writer, a process of its own
  NoThread,   \* the lock has no owner
  Sources,    \* scoped source ids
  CsvSources, \* sources of the CSV that seeds an empty collection
  MaxChunks,  \* chunks of the longest source
  MaxWrites,  \* bound on write identifiers
  MaxMarkers, \* bound on marker generations
  MaxDamage,  \* how often somebody removes or corrupts the marker file
  MaxCrashes  \* bound on process crashes

ASSUME ThreadAssumption ==
  /\ WorkerOf \in [Threads -> Workers \cup {Cli}]
  /\ Cli \notin Workers
  /\ NoThread \notin Threads
ASSUME SourceAssumption == CsvSources \subseteq Sources /\ CsvSources # {}
ASSUME BoundAssumption ==
  /\ MaxChunks \in Nat \ {0}
  /\ MaxWrites \in Nat \ {0}
  /\ MaxMarkers \in Nat
  /\ MaxDamage \in Nat
  /\ MaxCrashes \in Nat

Absent == 0     \* the collection has no such point
Seed == 1       \* write identifier of the CSV rows
NoMarker == 0   \* the marker file is missing
Malformed == MaxMarkers + 1  \* the marker file does not parse

\* Chunk k of a source has a point id of its own.
Points == Sources \X (1..MaxChunks)

Collections == [Points -> 0..MaxWrites]

EmptyCollection == [p \in Points |-> Absent]

\* A batch gives every source of it at least one chunk.
Shapes == [Sources -> 0..MaxChunks]

NoShape == [s \in Sources |-> 0]

Batches == [shape : Shapes, id : 0..MaxWrites]

NoBatch == [shape |-> NoShape, id |-> 0]

PCs == {"idle", "wait", "check", "plan", "mark", "scan", "upsert", "delete",
        "publish", "seed", "load"}

VARIABLES
  remote,   \* the collection on the Qdrant server
  lock,     \* the thread that holds the shared lock, or NoThread
  marker,   \* the generation in the marker file, NoMarker or Malformed
  up,       \* the workers that have finished starting
  cache,    \* cache[w]: the snapshot worker w serves
  gen,      \* gen[w]: the generation it was loaded under
  loaded,   \* loaded[w]: _snapshot_loaded_at is set
  pc,       \* pc[t]: the next step of thread t
  kind,     \* kind[t]: "get", "ingest" or "boot"
  batch,    \* batch[t]: the records thread t replaces
  draft,    \* draft[t]: the merged snapshot an ingestion prepared
  token,    \* token[t]: the generation qdrant_write_lock yielded
  obsolete, \* obsolete[t]: the point ids an ingestion still has to delete
  failed,   \* batches a client may retry
  writes, markers, damage, crashes  \* bounded counters

threadVars == <<pc, kind, batch, draft, token, obsolete>>
cacheVars == <<up, cache, gen, loaded>>
counters == <<writes, markers, damage, crashes>>
vars == <<remote, lock, marker, cacheVars, threadVars, failed, counters>>

-----------------------------------------------------------------------------
BatchSources(b) == {s \in Sources : b.shape[s] > 0}

\* The points of a batch, and all points of its sources.
Incoming(b) == {p \in Points : p[2] <= b.shape[p[1]]}

SourcePoints(b) == {p \in Points : p[1] \in BatchSources(b)}

\* Mutant: the merge keeps the trailing chunks of a source that got shorter.
MergedByChunk(store, b) == [p \in Points |-> IF p \in Incoming(b) THEN b.id ELSE store[p]]

\* upsert_sources of the local snapshot: every chunk of an incoming source goes.
Merged(store, b) ==
  [p \in Points |-> IF p \in Incoming(b) THEN b.id
                    ELSE IF p \in SourcePoints(b) THEN Absent ELSE store[p]]

CsvBatch == [shape |-> [s \in Sources |-> IF s \in CsvSources THEN 1 ELSE 0], id |-> Seed]

Overwrite(points, value) ==
  [p \in Points |-> IF p \in points THEN value ELSE remote[p]]

ThreadsOf(w) == {t \in Threads : WorkerOf[t] = w}

GoTo(t, label) == pc' = [pc EXCEPT ![t] = label]

Unlock(t) == lock' = IF lock = t THEN NoThread ELSE lock

Stop(ts) ==
  /\ pc' = [t \in Threads |-> IF t \in ts THEN "idle" ELSE pc[t]]
  /\ kind' = [t \in Threads |-> IF t \in ts THEN "get" ELSE kind[t]]
  /\ batch' = [t \in Threads |-> IF t \in ts THEN NoBatch ELSE batch[t]]
  /\ draft' = [t \in Threads |-> IF t \in ts THEN EmptyCollection ELSE draft[t]]
  /\ token' = [t \in Threads |-> IF t \in ts THEN NoMarker ELSE token[t]]
  /\ obsolete' = [t \in Threads |-> IF t \in ts THEN {} ELSE obsolete[t]]

-----------------------------------------------------------------------------
Init ==
  /\ remote = EmptyCollection
  /\ lock = NoThread
  /\ marker = NoMarker
  /\ up = {}
  /\ cache = [w \in Workers |-> EmptyCollection]
  /\ gen = [w \in Workers |-> NoMarker]
  /\ loaded = [w \in Workers |-> FALSE]
  /\ pc = [t \in Threads |-> "idle"]
  /\ kind = [t \in Threads |-> "get"]
  /\ batch = [t \in Threads |-> NoBatch]
  /\ draft = [t \in Threads |-> EmptyCollection]
  /\ token = [t \in Threads |-> NoMarker]
  /\ obsolete = [t \in Threads |-> {}]
  /\ failed = {}
  /\ writes = Seed
  /\ markers = 0
  /\ damage = 0
  /\ crashes = 0

Begin(t, k, b) ==
  /\ pc[t] = "idle"
  /\ GoTo(t, "wait")
  /\ kind' = [kind EXCEPT ![t] = k]
  /\ batch' = [batch EXCEPT ![t] = b]
  /\ UNCHANGED <<remote, lock, marker, cacheVars, draft, token, obsolete>>

\* QdrantAgentSnapshots.__init__
StartBoot(t) ==
  /\ WorkerOf[t] \in Workers \ up
  /\ \A u \in ThreadsOf(WorkerOf[t]) : pc[u] = "idle"
  /\ Begin(t, "boot", NoBatch)
  /\ UNCHANGED <<failed, counters>>

StartGet(t) ==
  /\ WorkerOf[t] \in up
  /\ Begin(t, "get", NoBatch)
  /\ UNCHANGED <<failed, counters>>

\* New records for some sources.
StartIngest(t) ==
  /\ WorkerOf[t] \in up \cup {Cli}
  /\ writes < MaxWrites
  /\ \E shape \in Shapes \ {NoShape} :
       Begin(t, "ingest", [shape |-> shape, id |-> writes + 1])
  /\ writes' = writes + 1
  /\ UNCHANGED <<failed, markers, damage, crashes>>

\* "Retry the identical batch to finish the replacement."
StartRetry(t) ==
  /\ WorkerOf[t] \in up \cup {Cli}
  /\ \E b \in failed : Begin(t, "ingest", b) /\ failed' = failed \ {b}
  /\ UNCHANGED counters

Acquire(t) ==
  /\ pc[t] = "wait"
  /\ lock = NoThread
  /\ lock' = t
  /\ GoTo(t, IF kind[t] = "get" THEN "check"
             ELSE IF kind[t] = "ingest" /\ WorkerOf[t] # Cli THEN "plan" ELSE "mark")
  /\ UNCHANGED <<remote, marker, cacheVars, kind, batch, draft, token, obsolete,
                 failed, counters>>

-----------------------------------------------------------------------------
(* Serving.                                                                *)

\* The generation is the cached one and the snapshot is younger than its
\* lifetime; the request keeps the cached agent.
UseCache(t) ==
  /\ pc[t] = "check"
  /\ marker # Malformed
  /\ loaded[WorkerOf[t]]
  /\ gen[WorkerOf[t]] = marker
  /\ Unlock(t)
  /\ Stop({t})
  /\ UNCHANGED <<remote, marker, cacheVars, failed, counters>>

\* The generation changed, the lifetime is over (at any time, the clock is not
\* modelled) or nothing is loaded: download the collection.
Refresh(t) ==
  /\ pc[t] = "check"
  /\ marker # Malformed
  /\ LET w == WorkerOf[t]
     IN  /\ cache' = [cache EXCEPT ![w] = remote]
         /\ gen' = [gen EXCEPT ![w] = marker]
         /\ loaded' = [loaded EXCEPT ![w] = TRUE]
  /\ Unlock(t)
  /\ Stop({t})
  /\ UNCHANGED <<remote, marker, up, failed, counters>>

-----------------------------------------------------------------------------
(* Writing.                                                                *)

\* Download the collection, merge the batch and prepare the agent.
Plan(t) ==
  /\ pc[t] = "plan"
  /\ draft' = [draft EXCEPT ![t] = Merged(remote, batch[t])]
  /\ GoTo(t, "mark")
  /\ UNCHANGED <<remote, lock, marker, cacheVars, kind, batch, token, obsolete,
                 failed, counters>>

\* Mutant: a writer leaves the marker as it is.
MarkNothing(t) ==
  /\ pc[t] = "mark"
  /\ marker # Malformed
  /\ token' = [token EXCEPT ![t] = marker]
  /\ GoTo(t, IF kind[t] = "boot" THEN "seed" ELSE "scan")
  /\ UNCHANGED <<remote, lock, marker, cacheVars, kind, batch, draft, obsolete, failed,
                 counters>>

\* qdrant_write_lock: a fresh generation reaches the marker file first.
Mark(t) ==
  /\ pc[t] = "mark"
  /\ marker # Malformed
  /\ markers < MaxMarkers
  /\ markers' = markers + 1
  /\ marker' = markers + 1
  /\ token' = [token EXCEPT ![t] = markers + 1]
  /\ GoTo(t, IF kind[t] = "boot" THEN "seed" ELSE "scan")
  /\ UNCHANGED <<remote, lock, cacheVars, kind, batch, draft, obsolete, failed,
                 writes, damage, crashes>>

\* Mutant: obsolete points are never looked up.
ScanNothing(t) ==
  /\ pc[t] = "scan"
  /\ GoTo(t, "upsert")
  /\ UNCHANGED <<remote, lock, marker, cacheVars, kind, batch, draft, token, obsolete,
                 failed, counters>>

\* upsert_sources looks up the existing points of the sources.
Scan(t) ==
  /\ pc[t] = "scan"
  /\ obsolete' = [obsolete EXCEPT ![t] =
       {p \in SourcePoints(batch[t]) \ Incoming(batch[t]) : remote[p] # Absent}]
  /\ GoTo(t, "upsert")
  /\ UNCHANGED <<remote, lock, marker, cacheVars, kind, batch, draft, token, failed,
                 counters>>

UpsertPoints(t) ==
  /\ pc[t] = "upsert"
  /\ remote' = Overwrite(Incoming(batch[t]), batch[t].id)
  /\ GoTo(t, IF obsolete[t] = {} THEN "publish" ELSE "delete")
  /\ UNCHANGED <<lock, marker, cacheVars, kind, batch, draft, token, obsolete, failed,
                 counters>>

DeleteObsolete(t) ==
  /\ pc[t] = "delete"
  /\ remote' = Overwrite(obsolete[t], Absent)
  /\ GoTo(t, "publish")
  /\ UNCHANGED <<lock, marker, cacheVars, kind, batch, draft, token, obsolete, failed,
                 counters>>

\* The call succeeded: an API worker publishes the agent it prepared and asks
\* for a reload, because Qdrant may have normalised the vectors.
Publish(t) ==
  /\ pc[t] = "publish"
  /\ IF WorkerOf[t] = Cli THEN UNCHANGED <<cache, loaded>>
     ELSE /\ cache' = [cache EXCEPT ![WorkerOf[t]] = draft[t]]
          /\ loaded' = [loaded EXCEPT ![WorkerOf[t]] = FALSE]
  /\ Unlock(t)
  /\ Stop({t})
  /\ UNCHANGED <<remote, marker, up, gen, failed, counters>>

\* build_qdrant_index seeds a collection without points.
SeedCollection(t) ==
  /\ pc[t] = "seed"
  /\ remote' = IF remote = EmptyCollection THEN Overwrite(Incoming(CsvBatch), Seed) ELSE remote
  /\ GoTo(t, "load")
  /\ UNCHANGED <<lock, marker, cacheVars, kind, batch, draft, token, obsolete, failed,
                 counters>>

LoadFirst(t) ==
  /\ pc[t] = "load"
  /\ LET w == WorkerOf[t]
     IN  /\ up' = up \cup {w}
         /\ cache' = [cache EXCEPT ![w] = remote]
         /\ gen' = [gen EXCEPT ![w] = token[t]]
         /\ loaded' = [loaded EXCEPT ![w] = TRUE]
  /\ Unlock(t)
  /\ Stop({t})
  /\ UNCHANGED <<remote, marker, failed, counters>>

-----------------------------------------------------------------------------
(* Failures.                                                               *)

\* The points a remote request of thread t is about to change, and their new
\* value.
RequestPoints(t) ==
  IF pc[t] = "upsert" THEN Incoming(batch[t])
  ELSE IF pc[t] = "delete" THEN obsolete[t]
  ELSE IF pc[t] = "seed" /\ remote = EmptyCollection THEN Incoming(CsvBatch) ELSE {}

RequestValue(t) ==
  IF pc[t] = "upsert" THEN batch[t].id ELSE IF pc[t] = "delete" THEN Absent ELSE Seed

\* The lock times out, the marker does not parse, preparing, a request or a
\* download raises.  A failing request may have changed some of its points.
Fail(t) ==
  /\ pc[t] # "idle"
  /\ \E done \in SUBSET RequestPoints(t) : remote' = Overwrite(done, RequestValue(t))
  /\ failed' = IF kind[t] = "ingest" THEN failed \cup {batch[t]} ELSE failed
  /\ Unlock(t)
  /\ Stop({t})
  /\ UNCHANGED <<marker, cacheVars, counters>>

\* A worker process dies with its threads; the OS releases the lock.
CrashWorker(w) ==
  /\ crashes < MaxCrashes
  /\ w \in up \/ \E t \in ThreadsOf(w) : pc[t] # "idle"
  /\ crashes' = crashes + 1
  /\ IF lock \in ThreadsOf(w)
       THEN \E done \in SUBSET RequestPoints(lock) :
              remote' = Overwrite(done, RequestValue(lock))
       ELSE UNCHANGED remote
  /\ lock' = IF lock \in ThreadsOf(w) THEN NoThread ELSE lock
  /\ Stop(ThreadsOf(w))
  /\ up' = up \ {w}
  /\ cache' = [cache EXCEPT ![w] = EmptyCollection]
  /\ gen' = [gen EXCEPT ![w] = NoMarker]
  /\ loaded' = [loaded EXCEPT ![w] = FALSE]
  /\ failed' = failed \cup {batch[t] : t \in {u \in ThreadsOf(w) : kind[u] = "ingest"}}
  /\ UNCHANGED <<marker, writes, markers, damage>>

\* Somebody removes the marker file, or overwrites it with something else.
DamageMarker ==
  /\ damage < MaxDamage
  /\ damage' = damage + 1
  /\ marker' \in {NoMarker, Malformed} \ {marker}
  /\ UNCHANGED <<remote, lock, cacheVars, threadVars, failed, writes, markers, crashes>>

\* An operator removes a marker that does not parse.
RemoveMalformed ==
  /\ marker = Malformed
  /\ marker' = NoMarker
  /\ UNCHANGED <<remote, lock, cacheVars, threadVars, failed, counters>>

-----------------------------------------------------------------------------
Calls(t) == StartBoot(t) \/ StartGet(t) \/ StartIngest(t) \/ StartRetry(t)

Steps(t) == Acquire(t) \/ UseCache(t) \/ Refresh(t) \/ Plan(t) \/ Mark(t) \/ Scan(t)
              \/ UpsertPoints(t) \/ DeleteObsolete(t) \/ Publish(t) \/ SeedCollection(t)
              \/ LoadFirst(t)

Next ==
  \/ \E t \in Threads : Calls(t) \/ Steps(t) \/ Fail(t)
  \/ \E w \in Workers : CrashWorker(w)
  \/ DamageMarker
  \/ RemoveMalformed

Spec == Init /\ [][Next]_vars

-----------------------------------------------------------------------------
(* Properties.                                                             *)

\* Every variable keeps its type, and a served snapshot carries a generation
\* some writer made or the mark of a missing marker.
TypeOK ==
  /\ remote \in Collections
  /\ lock \in Threads \cup {NoThread}
  /\ marker \in 0..(MaxMarkers + 1)
  /\ up \in SUBSET Workers
  /\ cache \in [Workers -> Collections]
  /\ gen \in [Workers -> 0..MaxMarkers]
  /\ loaded \in [Workers -> BOOLEAN]
  /\ \A w \in Workers : loaded[w] => w \in up
  /\ pc \in [Threads -> PCs]
  /\ kind \in [Threads -> {"get", "ingest", "boot"}]
  /\ batch \in [Threads -> Batches]
  /\ draft \in [Threads -> Collections]
  /\ token \in [Threads -> 0..MaxMarkers]
  /\ obsolete \in [Threads -> SUBSET Points]
  /\ failed \in SUBSET Batches
  /\ writes \in Seed..MaxWrites
  /\ markers \in 0..MaxMarkers
  /\ damage \in 0..MaxDamage
  /\ crashes \in 0..MaxCrashes

\* A worker whose snapshot carries the generation of the marker file serves
\* what the collection holds, even after writers failed or died half-way:
\* "All workers see completed updates on their next request" (README).
ValidCacheIsRemote ==
  \A w \in up : loaded[w] /\ gen[w] = marker => cache[w] = remote

\* A source that has chunks never has none, whatever request fails or which
\* process dies: upsert_sources upserts new points before deleting old ones.
SourceNeverVanishesStep ==
  \A s \in Sources :
    (\E k \in 1..MaxChunks : remote[<<s, k>>] # Absent) =>
      \E k \in 1..MaxChunks : remote'[<<s, k>>] # Absent

SourceNeverVanishes == [][SourceNeverVanishesStep]_vars

\* An ingestion that has nothing left to send has replaced its sources completely,
\* whatever partial updates earlier attempts left behind ("Retrying the identical
\* batch converges").
SuccessReplacesSources ==
  \A t \in Threads : pc[t] = "publish" =>
    \A p \in SourcePoints(batch[t]) :
      remote[p] = IF p \in Incoming(batch[t]) THEN batch[t].id ELSE Absent

\* The agent an ingestion publishes at once is the collection it left behind.
PublishedAgentIsRemoteStep ==
  \A w \in Workers : w \in up /\ w \in up' /\ cache'[w] # cache[w] => cache'[w] = remote'

PublishedAgentIsRemote == [][PublishedAgentIsRemoteStep]_vars
-----------------------------------------------------------------------------
(* Why they hold: the parts of the inductive invariant.                    *)

\* How threads, the lock and workers belong together: whoever is past the lock
\* holds it, a thread takes the steps of its kind, and its worker is up unless it
\* is the one that starts the worker.
LockInv ==
  \A t \in Threads :
    /\ pc[t] \notin {"idle", "wait"} <=> lock = t
    /\ pc[t] = "check" => kind[t] = "get"
    /\ pc[t] \in {"plan", "scan", "upsert", "delete", "publish"} => kind[t] = "ingest"
    /\ pc[t] \in {"seed", "load"} => kind[t] = "boot"
    /\ pc[t] = "mark" => kind[t] \in {"ingest", "boot"}
    /\ pc[t] # "idle" /\ kind[t] = "get" => WorkerOf[t] \in up
    /\ pc[t] # "idle" /\ kind[t] = "boot" => WorkerOf[t] \in Workers

\* A thread has replaced the marker and its call has not ended.
WritingSteps == {"scan", "upsert", "delete", "publish", "seed", "load"}

Writing == \E t \in Threads : pc[t] \in WritingSteps

\* The marker file holds the last generation unless somebody damaged it, a writer
\* works under the last generation, and no worker was loaded under a later one.
MarkerInv ==
  /\ marker \in {markers, NoMarker, Malformed}
  /\ damage = 0 => marker = markers
  /\ up # {} => markers # NoMarker
  /\ \A t \in Threads : pc[t] \in WritingSteps => token[t] = markers /\ markers # NoMarker
  /\ \A w \in Workers : gen[w] <= markers

\* A snapshot of the last generation is the collection, and nobody is writing
\* under that generation any more.
GenerationInv ==
  \A w \in up : loaded[w] /\ gen[w] = markers => ~Writing /\ cache[w] = remote

\* The same of a snapshot loaded while the marker was missing, until a writer makes
\* a new one.  No such snapshot is older than the loss, if there was only one.
LossInv ==
  damage <= 1 =>
    \A w \in up : loaded[w] /\ gen[w] = NoMarker =>
      /\ damage # 0 /\ marker # Malformed
      /\ marker = NoMarker => ~Writing /\ cache[w] = remote

\* Batches that are sent, or may be sent again, hold points.
IdInv ==
  /\ \A t \in Threads : kind[t] = "ingest" => pc[t] # "idle" /\ batch[t].id # Absent
  /\ \A b \in failed : b.id # Absent

\* How far the replacement of the batch of thread t has come.
Others(b) == SourcePoints(b) \ Incoming(b)

Replacing(t) ==
  /\ pc[t] = "upsert" => obsolete[t] = {p \in Others(batch[t]) : remote[p] # Absent}
  /\ pc[t] = "delete" =>
       /\ obsolete[t] \subseteq Others(batch[t])
       /\ \A p \in Incoming(batch[t]) : remote[p] = batch[t].id
       /\ \A p \in Others(batch[t]) \ obsolete[t] : remote[p] = Absent
  /\ pc[t] = "publish" =>
       /\ \A p \in Incoming(batch[t]) : remote[p] = batch[t].id
       /\ \A p \in Others(batch[t]) : remote[p] = Absent

\* What a worker prepared is the collection that its ingestion leaves behind.
Prepared(t) ==
  kind[t] = "ingest" /\ WorkerOf[t] # Cli =>
    /\ pc[t] \in {"mark", "scan", "upsert"} => draft[t] = Merged(remote, batch[t])
    /\ pc[t] = "delete" => draft[t] = Overwrite(obsolete[t], Absent)
    /\ pc[t] = "publish" => draft[t] = remote

QdrantInv ==
  /\ TypeOK /\ LockInv /\ MarkerInv /\ GenerationInv /\ LossInv /\ IdInv
  /\ \A t \in Threads : Replacing(t) /\ Prepared(t)
=============================================================================
