--------------------------- MODULE RemoteProofs ---------------------------
(***************************************************************************)
(* The two components that work against a remote service which knows no    *)
(* transaction with them: workers and writers of a Qdrant collection, and  *)
(* consumers of a Kafka partition.  For any number of threads, workers,    *)
(* sources and chunks, cached snapshots are valid, replacements complete   *)
(* and no source vanishes; for any topic, batch size and number of         *)
(* failures, commits skip nothing and nothing is returned twice as long as *)
(* partitions are assigned only as a poll begins.                          *)
(***************************************************************************)
EXTENDS QdrantSnapshots, StreamIngestion, TLAPS

-----------------------------------------------------------------------------
(* Collections and batches.                                                *)

\* The empty collection and the empty batch have their types.
LEMMA EmptyTypes == EmptyCollection \in Collections /\ NoBatch \in Batches
  BY BoundAssumption
  DEF EmptyCollection, Collections, NoBatch, Batches, NoShape, Shapes, Absent

\* A write identifier, like no identifier, is a number of the collection.
LEMMA ValueTypes ==
  ASSUME TypeOK
  PROVE  /\ Absent \in 0..MaxWrites /\ Seed \in 0..MaxWrites
         /\ \A t \in Threads : batch[t].id \in 0..MaxWrites /\ RequestValue(t) \in 0..MaxWrites
  BY BoundAssumption DEF TypeOK, Batches, RequestValue, Absent, Seed

\* Requests and merges of snapshots yield collections.
LEMMA OverwriteType ==
  ASSUME remote \in Collections, NEW points, NEW value \in 0..MaxWrites
  PROVE  Overwrite(points, value) \in Collections
  BY DEF Overwrite, Collections

LEMMA MergedType ==
  ASSUME NEW store \in Collections, NEW b \in Batches
  PROVE  Merged(store, b) \in Collections
  BY BoundAssumption DEF Merged, Collections, Batches, Absent

\* Only a thread that replaced the marker changes the collection.
LEMMA NoRequest ==
  ASSUME TypeOK, NEW t \in Threads, pc[t] \notin WritingSteps,
         NEW done \in SUBSET RequestPoints(t)
  PROVE  Overwrite(done, RequestValue(t)) = remote
  <1>1. done = {}
    BY DEF RequestPoints, WritingSteps
  <1> QED BY <1>1 DEF Overwrite, TypeOK, Collections

-----------------------------------------------------------------------------
(* The lock, the marker and what was loaded under it.                      *)

\* Every step keeps the types.
LEMMA TypeStep == ASSUME QdrantInv, [Next]_vars PROVE TypeOK'
  <1>0. TypeOK /\ LockInv /\ MarkerInv
    BY DEF QdrantInv
  <1>1. ASSUME NEW t \in Threads, StartBoot(t) PROVE TypeOK'
    BY <1>0, <1>1, ThreadAssumption, BoundAssumption, EmptyTypes
    DEF StartBoot, Begin, GoTo, ThreadsOf, cacheVars, counters, TypeOK, LockInv, MarkerInv,
        WritingSteps, PCs, Seed, NoMarker, Malformed
  <1>2. ASSUME NEW t \in Threads, StartGet(t) PROVE TypeOK'
    BY <1>0, <1>2, ThreadAssumption, BoundAssumption, EmptyTypes
    DEF StartGet, Begin, GoTo, cacheVars, counters, TypeOK, LockInv, MarkerInv, WritingSteps,
        PCs, Seed, NoMarker, Malformed
  <1>3. ASSUME NEW t \in Threads, StartIngest(t) PROVE TypeOK'
    <2>1. PICK shape \in Shapes : Begin(t, "ingest", [shape |-> shape, id |-> writes + 1])
      BY <1>3 DEF StartIngest
    <2>2. [shape |-> shape, id |-> writes + 1] \in Batches /\ writes' \in Seed..MaxWrites
      BY <1>0, <1>3, BoundAssumption DEF StartIngest, TypeOK, Batches, Seed
    <2> QED
      BY <1>0, <1>3, <2>1, <2>2 DEF StartIngest, Begin, GoTo, cacheVars, TypeOK, PCs
  <1>4. ASSUME NEW t \in Threads, StartRetry(t) PROVE TypeOK'
    <2>1. PICK b \in Batches : Begin(t, "ingest", b) /\ failed' = failed \ {b}
      BY <1>0, <1>4 DEF StartRetry, TypeOK
    <2> QED
      BY <1>0, <1>4, <2>1 DEF StartRetry, Begin, GoTo, cacheVars, counters, TypeOK, PCs
  <1>5. ASSUME NEW t \in Threads, Acquire(t) PROVE TypeOK'
    BY <1>0, <1>5, ThreadAssumption, BoundAssumption, EmptyTypes
    DEF Acquire, GoTo, cacheVars, counters, TypeOK, LockInv, MarkerInv, WritingSteps, PCs,
        Seed, NoMarker, Malformed
  <1>6. ASSUME NEW t \in Threads, UseCache(t) PROVE TypeOK'
    BY <1>0, <1>6, ThreadAssumption, BoundAssumption, EmptyTypes
    DEF UseCache, Unlock, Stop, cacheVars, counters, TypeOK, LockInv, MarkerInv, WritingSteps,
        PCs, Seed, NoMarker, Malformed
  <1>7. ASSUME NEW t \in Threads, Refresh(t) PROVE TypeOK'
    BY <1>0, <1>7, ThreadAssumption, BoundAssumption, EmptyTypes
    DEF Refresh, Unlock, Stop, counters, TypeOK, LockInv, MarkerInv, WritingSteps, PCs, Seed,
        NoMarker, Malformed
  <1>8. ASSUME NEW t \in Threads, Plan(t) PROVE TypeOK'
    <2>1. Merged(remote, batch[t]) \in Collections
      BY <1>0, MergedType DEF TypeOK
    <2> QED
      BY <1>0, <1>8, <2>1 DEF Plan, GoTo, cacheVars, counters, TypeOK, PCs
  <1>9. ASSUME NEW t \in Threads, Mark(t) PROVE TypeOK'
    BY <1>0, <1>9, ThreadAssumption, BoundAssumption, EmptyTypes
    DEF Mark, GoTo, cacheVars, TypeOK, LockInv, MarkerInv, WritingSteps, PCs, Seed, NoMarker,
        Malformed
  <1>10. ASSUME NEW t \in Threads, Scan(t) PROVE TypeOK'
    <2>1. {p \in SourcePoints(batch[t]) \ Incoming(batch[t]) : remote[p] # Absent}
            \subseteq Points
      BY DEF SourcePoints
    <2> QED
      BY <1>0, <1>10, <2>1 DEF Scan, GoTo, cacheVars, counters, TypeOK, PCs
  <1>11. ASSUME NEW t \in Threads, UpsertPoints(t) PROVE TypeOK'
    <2>1. remote' \in Collections
      BY <1>0, <1>11, ValueTypes, OverwriteType DEF UpsertPoints, TypeOK
    <2> QED
      BY <1>0, <1>11, <2>1, ThreadAssumption, BoundAssumption, EmptyTypes DEF UpsertPoints,
        GoTo, cacheVars, counters, TypeOK, PCs
  <1>12. ASSUME NEW t \in Threads, DeleteObsolete(t) PROVE TypeOK'
    <2>1. remote' \in Collections
      BY <1>0, <1>12, ValueTypes, OverwriteType DEF DeleteObsolete, TypeOK
    <2> QED
      BY <1>0, <1>12, <2>1, ThreadAssumption, BoundAssumption, EmptyTypes DEF DeleteObsolete,
        GoTo, cacheVars, counters, TypeOK, PCs
  <1>13. ASSUME NEW t \in Threads, Publish(t) PROVE TypeOK'
    <2>1. cache' \in [Workers -> Collections] /\ loaded' \in [Workers -> BOOLEAN]
      BY <1>0, <1>13 DEF Publish, TypeOK
    <2>2. \A w \in Workers : loaded'[w] => w \in up'
      BY <1>0, <1>13 DEF Publish, TypeOK
    <2> QED
      BY <1>0, <1>13, <2>1, <2>2, EmptyTypes, BoundAssumption DEF Publish, Unlock, Stop,
        counters, TypeOK, PCs, NoMarker
  <1>14. ASSUME NEW t \in Threads, SeedCollection(t) PROVE TypeOK'
    <2>1. remote' \in Collections
      BY <1>0, <1>14, ValueTypes, OverwriteType DEF SeedCollection, TypeOK
    <2> QED
      BY <1>0, <1>14, <2>1, ThreadAssumption, BoundAssumption, EmptyTypes DEF SeedCollection,
        GoTo, cacheVars, counters, TypeOK, PCs
  <1>15. ASSUME NEW t \in Threads, LoadFirst(t) PROVE TypeOK'
    BY <1>0, <1>15, ThreadAssumption, BoundAssumption, EmptyTypes
    DEF LoadFirst, Unlock, Stop, counters, TypeOK, LockInv, MarkerInv, WritingSteps, PCs, Seed,
        NoMarker, Malformed
  <1>16. ASSUME NEW t \in Threads, Fail(t) PROVE TypeOK'
    <2>1. remote' \in Collections
      BY <1>0, <1>16, ValueTypes, OverwriteType DEF Fail, TypeOK
    <2>2. failed' \in SUBSET Batches
      BY <1>0, <1>16 DEF Fail, TypeOK
    <2> QED
      BY <1>0, <1>16, <2>1, <2>2, EmptyTypes, BoundAssumption DEF Fail, Unlock, Stop,
        cacheVars, counters, TypeOK, PCs, NoMarker
  <1>17. ASSUME NEW w \in Workers, CrashWorker(w) PROVE TypeOK'
    <2>1. remote' \in Collections
      BY <1>0, <1>17, ValueTypes, OverwriteType DEF CrashWorker, ThreadsOf, TypeOK
    <2>2. failed' \in SUBSET Batches
      BY <1>0, <1>17 DEF CrashWorker, ThreadsOf, TypeOK
    <2>3. crashes' \in 0..MaxCrashes
      BY <1>0, <1>17, BoundAssumption DEF CrashWorker, TypeOK
    <2> QED
      BY <1>0, <1>17, <2>1, <2>2, <2>3, EmptyTypes, BoundAssumption DEF CrashWorker, ThreadsOf,
        Stop, TypeOK, PCs, NoMarker
  <1>18. ASSUME DamageMarker PROVE TypeOK'
    BY <1>0, <1>18, ThreadAssumption, BoundAssumption, EmptyTypes
    DEF DamageMarker, cacheVars, threadVars, TypeOK, LockInv, MarkerInv, WritingSteps, PCs,
        Seed, NoMarker, Malformed
  <1>19. ASSUME RemoveMalformed PROVE TypeOK'
    BY <1>0, <1>19, ThreadAssumption, BoundAssumption, EmptyTypes
    DEF RemoveMalformed, cacheVars, threadVars, counters, TypeOK, LockInv, MarkerInv,
        WritingSteps, PCs, Seed, NoMarker, Malformed
  <1>20. CASE UNCHANGED vars
    BY <1>0, <1>20, ThreadAssumption, BoundAssumption, EmptyTypes DEF vars, cacheVars,
        threadVars, counters, TypeOK, LockInv, MarkerInv, WritingSteps, PCs, Seed, NoMarker,
        Malformed
  <1> QED BY <1>1, <1>2, <1>3, <1>4, <1>5, <1>6, <1>7, <1>8, <1>9, <1>10, <1>11, <1>12, <1>13,
        <1>14, <1>15, <1>16, <1>17, <1>18, <1>19, <1>20 DEF Next, Calls, Steps

\* Every step keeps threads, the lock and workers together.
LEMMA LockStep == ASSUME QdrantInv, [Next]_vars PROVE LockInv'
  <1>0. TypeOK /\ LockInv
    BY DEF QdrantInv
  <1>1. ASSUME NEW t \in Threads, StartBoot(t) PROVE LockInv'
    BY <1>0, <1>1, ThreadAssumption
    DEF StartBoot, Begin, GoTo, ThreadsOf, cacheVars, counters, TypeOK, LockInv, PCs
  <1>2. ASSUME NEW t \in Threads, StartGet(t) PROVE LockInv'
    BY <1>0, <1>2, ThreadAssumption
    DEF StartGet, Begin, GoTo, cacheVars, counters, TypeOK, LockInv, PCs
  <1>3. ASSUME NEW t \in Threads, StartIngest(t) PROVE LockInv'
    BY <1>0, <1>3, ThreadAssumption
    DEF StartIngest, Begin, GoTo, cacheVars, TypeOK, LockInv, PCs
  <1>4. ASSUME NEW t \in Threads, StartRetry(t) PROVE LockInv'
    BY <1>0, <1>4, ThreadAssumption
    DEF StartRetry, Begin, GoTo, cacheVars, counters, TypeOK, LockInv, PCs
  <1>5. ASSUME NEW t \in Threads, Acquire(t) PROVE LockInv'
    BY <1>0, <1>5, ThreadAssumption
    DEF Acquire, GoTo, cacheVars, counters, TypeOK, LockInv, PCs
  <1>6. ASSUME NEW t \in Threads, UseCache(t) PROVE LockInv'
    BY <1>0, <1>6, ThreadAssumption
    DEF UseCache, Unlock, Stop, cacheVars, counters, TypeOK, LockInv, PCs
  <1>7. ASSUME NEW t \in Threads, Refresh(t) PROVE LockInv'
    BY <1>0, <1>7, ThreadAssumption
    DEF Refresh, Unlock, Stop, counters, TypeOK, LockInv, PCs
  <1>8. ASSUME NEW t \in Threads, Plan(t) PROVE LockInv'
    BY <1>0, <1>8, ThreadAssumption
    DEF Plan, GoTo, cacheVars, counters, TypeOK, LockInv, PCs
  <1>9. ASSUME NEW t \in Threads, Mark(t) PROVE LockInv'
    BY <1>0, <1>9, ThreadAssumption
    DEF Mark, GoTo, cacheVars, TypeOK, LockInv, PCs
  <1>10. ASSUME NEW t \in Threads, Scan(t) PROVE LockInv'
    BY <1>0, <1>10, ThreadAssumption
    DEF Scan, GoTo, cacheVars, counters, TypeOK, LockInv, PCs
  <1>11. ASSUME NEW t \in Threads, UpsertPoints(t) PROVE LockInv'
    BY <1>0, <1>11, ThreadAssumption
    DEF UpsertPoints, GoTo, cacheVars, counters, TypeOK, LockInv, PCs
  <1>12. ASSUME NEW t \in Threads, DeleteObsolete(t) PROVE LockInv'
    BY <1>0, <1>12, ThreadAssumption
    DEF DeleteObsolete, GoTo, cacheVars, counters, TypeOK, LockInv, PCs
  <1>13. ASSUME NEW t \in Threads, Publish(t) PROVE LockInv'
    BY <1>0, <1>13, ThreadAssumption
    DEF Publish, Unlock, Stop, counters, TypeOK, LockInv, PCs
  <1>14. ASSUME NEW t \in Threads, SeedCollection(t) PROVE LockInv'
    BY <1>0, <1>14, ThreadAssumption
    DEF SeedCollection, GoTo, cacheVars, counters, TypeOK, LockInv, PCs
  <1>15. ASSUME NEW t \in Threads, LoadFirst(t) PROVE LockInv'
    BY <1>0, <1>15, ThreadAssumption
    DEF LoadFirst, Unlock, Stop, counters, TypeOK, LockInv, PCs
  <1>16. ASSUME NEW t \in Threads, Fail(t) PROVE LockInv'
    BY <1>0, <1>16, ThreadAssumption
    DEF Fail, Unlock, Stop, cacheVars, counters, TypeOK, LockInv, PCs
  <1>17. ASSUME NEW w \in Workers, CrashWorker(w) PROVE LockInv'
    BY <1>0, <1>17, ThreadAssumption
    DEF CrashWorker, Stop, ThreadsOf, TypeOK, LockInv, PCs
  <1>18. ASSUME DamageMarker PROVE LockInv'
    BY <1>0, <1>18, ThreadAssumption
    DEF DamageMarker, cacheVars, threadVars, TypeOK, LockInv, PCs
  <1>19. ASSUME RemoveMalformed PROVE LockInv'
    BY <1>0, <1>19, ThreadAssumption
    DEF RemoveMalformed, cacheVars, threadVars, counters, TypeOK, LockInv, PCs
  <1>20. CASE UNCHANGED vars
    BY <1>0, <1>20, ThreadAssumption DEF vars, cacheVars, threadVars, counters, TypeOK,
        LockInv, PCs
  <1> QED BY <1>1, <1>2, <1>3, <1>4, <1>5, <1>6, <1>7, <1>8, <1>9, <1>10, <1>11, <1>12, <1>13,
        <1>14, <1>15, <1>16, <1>17, <1>18, <1>19, <1>20 DEF Next, Calls, Steps

\* Every step keeps the marker at the last generation or damaged.
LEMMA MarkerStep == ASSUME QdrantInv, [Next]_vars PROVE MarkerInv'
  <1>0. TypeOK /\ LockInv /\ MarkerInv
    BY DEF QdrantInv
  <1>1. ASSUME NEW t \in Threads, StartBoot(t) PROVE MarkerInv'
    BY <1>0, <1>1, ThreadAssumption, BoundAssumption
    DEF StartBoot, Begin, GoTo, ThreadsOf, cacheVars, counters, TypeOK, LockInv, MarkerInv,
        WritingSteps, PCs, NoMarker, Malformed
  <1>2. ASSUME NEW t \in Threads, StartGet(t) PROVE MarkerInv'
    BY <1>0, <1>2, ThreadAssumption, BoundAssumption
    DEF StartGet, Begin, GoTo, cacheVars, counters, TypeOK, LockInv, MarkerInv, WritingSteps,
        PCs, NoMarker, Malformed
  <1>3. ASSUME NEW t \in Threads, StartIngest(t) PROVE MarkerInv'
    BY <1>0, <1>3, ThreadAssumption, BoundAssumption
    DEF StartIngest, Begin, GoTo, cacheVars, TypeOK, LockInv, MarkerInv, WritingSteps, PCs,
        NoMarker, Malformed
  <1>4. ASSUME NEW t \in Threads, StartRetry(t) PROVE MarkerInv'
    BY <1>0, <1>4, ThreadAssumption, BoundAssumption
    DEF StartRetry, Begin, GoTo, cacheVars, counters, TypeOK, LockInv, MarkerInv, WritingSteps,
        PCs, NoMarker, Malformed
  <1>5. ASSUME NEW t \in Threads, Acquire(t) PROVE MarkerInv'
    BY <1>0, <1>5, ThreadAssumption, BoundAssumption
    DEF Acquire, GoTo, cacheVars, counters, TypeOK, LockInv, MarkerInv, WritingSteps, PCs,
        NoMarker, Malformed
  <1>6. ASSUME NEW t \in Threads, UseCache(t) PROVE MarkerInv'
    BY <1>0, <1>6, ThreadAssumption, BoundAssumption
    DEF UseCache, Unlock, Stop, cacheVars, counters, TypeOK, LockInv, MarkerInv, WritingSteps,
        PCs, NoMarker, Malformed
  <1>7. ASSUME NEW t \in Threads, Refresh(t) PROVE MarkerInv'
    BY <1>0, <1>7, ThreadAssumption, BoundAssumption
    DEF Refresh, Unlock, Stop, counters, TypeOK, LockInv, MarkerInv, WritingSteps, PCs,
        NoMarker, Malformed
  <1>8. ASSUME NEW t \in Threads, Plan(t) PROVE MarkerInv'
    BY <1>0, <1>8, ThreadAssumption, BoundAssumption
    DEF Plan, GoTo, cacheVars, counters, TypeOK, LockInv, MarkerInv, WritingSteps, PCs,
        NoMarker, Malformed
  <1>9. ASSUME NEW t \in Threads, Mark(t) PROVE MarkerInv'
    BY <1>0, <1>9, ThreadAssumption, BoundAssumption
    DEF Mark, GoTo, cacheVars, TypeOK, LockInv, MarkerInv, WritingSteps, PCs, NoMarker,
        Malformed
  <1>10. ASSUME NEW t \in Threads, Scan(t) PROVE MarkerInv'
    BY <1>0, <1>10, ThreadAssumption, BoundAssumption
    DEF Scan, GoTo, cacheVars, counters, TypeOK, LockInv, MarkerInv, WritingSteps, PCs,
        NoMarker, Malformed
  <1>11. ASSUME NEW t \in Threads, UpsertPoints(t) PROVE MarkerInv'
    BY <1>0, <1>11, ThreadAssumption, BoundAssumption
    DEF UpsertPoints, GoTo, cacheVars, counters, TypeOK, LockInv, MarkerInv, WritingSteps, PCs,
        NoMarker, Malformed
  <1>12. ASSUME NEW t \in Threads, DeleteObsolete(t) PROVE MarkerInv'
    BY <1>0, <1>12, ThreadAssumption, BoundAssumption
    DEF DeleteObsolete, GoTo, cacheVars, counters, TypeOK, LockInv, MarkerInv, WritingSteps,
        PCs, NoMarker, Malformed
  <1>13. ASSUME NEW t \in Threads, Publish(t) PROVE MarkerInv'
    BY <1>0, <1>13, ThreadAssumption, BoundAssumption
    DEF Publish, Unlock, Stop, counters, TypeOK, LockInv, MarkerInv, WritingSteps, PCs,
        NoMarker, Malformed
  <1>14. ASSUME NEW t \in Threads, SeedCollection(t) PROVE MarkerInv'
    BY <1>0, <1>14, ThreadAssumption, BoundAssumption
    DEF SeedCollection, GoTo, cacheVars, counters, TypeOK, LockInv, MarkerInv, WritingSteps,
        PCs, NoMarker, Malformed
  <1>15. ASSUME NEW t \in Threads, LoadFirst(t) PROVE MarkerInv'
    BY <1>0, <1>15, ThreadAssumption, BoundAssumption
    DEF LoadFirst, Unlock, Stop, counters, TypeOK, LockInv, MarkerInv, WritingSteps, PCs,
        NoMarker, Malformed
  <1>16. ASSUME NEW t \in Threads, Fail(t) PROVE MarkerInv'
    BY <1>0, <1>16, ThreadAssumption, BoundAssumption
    DEF Fail, Unlock, Stop, cacheVars, counters, TypeOK, LockInv, MarkerInv, WritingSteps, PCs,
        NoMarker, Malformed
  <1>17. ASSUME NEW w \in Workers, CrashWorker(w) PROVE MarkerInv'
    BY <1>0, <1>17, ThreadAssumption, BoundAssumption
    DEF CrashWorker, Stop, ThreadsOf, TypeOK, LockInv, MarkerInv, WritingSteps, PCs, NoMarker,
        Malformed
  <1>18. ASSUME DamageMarker PROVE MarkerInv'
    BY <1>0, <1>18, ThreadAssumption, BoundAssumption
    DEF DamageMarker, cacheVars, threadVars, TypeOK, LockInv, MarkerInv, WritingSteps, PCs,
        NoMarker, Malformed
  <1>19. ASSUME RemoveMalformed PROVE MarkerInv'
    BY <1>0, <1>19, ThreadAssumption, BoundAssumption
    DEF RemoveMalformed, cacheVars, threadVars, counters, TypeOK, LockInv, MarkerInv,
        WritingSteps, PCs, NoMarker, Malformed
  <1>20. CASE UNCHANGED vars
    BY <1>0, <1>20, ThreadAssumption, BoundAssumption DEF vars, cacheVars, threadVars,
        counters, TypeOK, LockInv, MarkerInv, WritingSteps, PCs, NoMarker, Malformed
  <1> QED BY <1>1, <1>2, <1>3, <1>4, <1>5, <1>6, <1>7, <1>8, <1>9, <1>10, <1>11, <1>12, <1>13,
        <1>14, <1>15, <1>16, <1>17, <1>18, <1>19, <1>20 DEF Next, Calls, Steps

\* A step of the collection ends with the last generation, or under a new one that
\* no snapshot has yet.
LEMMA GenerationStep == ASSUME QdrantInv, [Next]_vars PROVE GenerationInv'
  <1>0. TypeOK /\ LockInv /\ MarkerInv /\ GenerationInv
    BY DEF QdrantInv
  <1>1. ASSUME NEW t \in Threads, StartBoot(t) PROVE GenerationInv'
    BY <1>0, <1>1, ThreadAssumption, BoundAssumption
    DEF StartBoot, Begin, GoTo, ThreadsOf, cacheVars, counters, TypeOK, LockInv, MarkerInv,
        GenerationInv, Writing, WritingSteps, PCs, NoMarker, Malformed
  <1>2. ASSUME NEW t \in Threads, StartGet(t) PROVE GenerationInv'
    BY <1>0, <1>2, ThreadAssumption, BoundAssumption
    DEF StartGet, Begin, GoTo, cacheVars, counters, TypeOK, LockInv, MarkerInv, GenerationInv,
        Writing, WritingSteps, PCs, NoMarker, Malformed
  <1>3. ASSUME NEW t \in Threads, StartIngest(t) PROVE GenerationInv'
    BY <1>0, <1>3, ThreadAssumption, BoundAssumption
    DEF StartIngest, Begin, GoTo, cacheVars, TypeOK, LockInv, MarkerInv, GenerationInv,
        Writing, WritingSteps, PCs, NoMarker, Malformed
  <1>4. ASSUME NEW t \in Threads, StartRetry(t) PROVE GenerationInv'
    BY <1>0, <1>4, ThreadAssumption, BoundAssumption
    DEF StartRetry, Begin, GoTo, cacheVars, counters, TypeOK, LockInv, MarkerInv,
        GenerationInv, Writing, WritingSteps, PCs, NoMarker, Malformed
  <1>5. ASSUME NEW t \in Threads, Acquire(t) PROVE GenerationInv'
    BY <1>0, <1>5, ThreadAssumption, BoundAssumption
    DEF Acquire, GoTo, cacheVars, counters, TypeOK, LockInv, MarkerInv, GenerationInv, Writing,
        WritingSteps, PCs, NoMarker, Malformed
  <1>6. ASSUME NEW t \in Threads, UseCache(t) PROVE GenerationInv'
    BY <1>0, <1>6, ThreadAssumption, BoundAssumption
    DEF UseCache, Unlock, Stop, cacheVars, counters, TypeOK, LockInv, MarkerInv, GenerationInv,
        Writing, WritingSteps, PCs, NoMarker, Malformed
  <1>7. ASSUME NEW t \in Threads, Refresh(t) PROVE GenerationInv'
    BY <1>0, <1>7, ThreadAssumption, BoundAssumption
    DEF Refresh, Unlock, Stop, counters, TypeOK, LockInv, MarkerInv, GenerationInv, Writing,
        WritingSteps, PCs, NoMarker, Malformed
  <1>8. ASSUME NEW t \in Threads, Plan(t) PROVE GenerationInv'
    BY <1>0, <1>8, ThreadAssumption, BoundAssumption
    DEF Plan, GoTo, cacheVars, counters, TypeOK, LockInv, MarkerInv, GenerationInv, Writing,
        WritingSteps, PCs, NoMarker, Malformed
  <1>9. ASSUME NEW t \in Threads, Mark(t) PROVE GenerationInv'
    BY <1>0, <1>9, ThreadAssumption, BoundAssumption
    DEF Mark, GoTo, cacheVars, TypeOK, LockInv, MarkerInv, GenerationInv, Writing,
        WritingSteps, PCs, NoMarker, Malformed
  <1>10. ASSUME NEW t \in Threads, Scan(t) PROVE GenerationInv'
    BY <1>0, <1>10, ThreadAssumption, BoundAssumption
    DEF Scan, GoTo, cacheVars, counters, TypeOK, LockInv, MarkerInv, GenerationInv, Writing,
        WritingSteps, PCs, NoMarker, Malformed
  <1>11. ASSUME NEW t \in Threads, UpsertPoints(t) PROVE GenerationInv'
    BY <1>0, <1>11, ThreadAssumption, BoundAssumption
    DEF UpsertPoints, GoTo, cacheVars, counters, TypeOK, LockInv, MarkerInv, GenerationInv,
        Writing, WritingSteps, PCs, NoMarker, Malformed
  <1>12. ASSUME NEW t \in Threads, DeleteObsolete(t) PROVE GenerationInv'
    BY <1>0, <1>12, ThreadAssumption, BoundAssumption
    DEF DeleteObsolete, GoTo, cacheVars, counters, TypeOK, LockInv, MarkerInv, GenerationInv,
        Writing, WritingSteps, PCs, NoMarker, Malformed
  <1>13. ASSUME NEW t \in Threads, Publish(t) PROVE GenerationInv'
    BY <1>0, <1>13, ThreadAssumption, BoundAssumption
    DEF Publish, Unlock, Stop, counters, TypeOK, LockInv, MarkerInv, GenerationInv, Writing,
        WritingSteps, PCs, NoMarker, Malformed
  <1>14. ASSUME NEW t \in Threads, SeedCollection(t) PROVE GenerationInv'
    BY <1>0, <1>14, ThreadAssumption, BoundAssumption
    DEF SeedCollection, GoTo, cacheVars, counters, TypeOK, LockInv, MarkerInv, GenerationInv,
        Writing, WritingSteps, PCs, NoMarker, Malformed
  <1>15. ASSUME NEW t \in Threads, LoadFirst(t) PROVE GenerationInv'
    BY <1>0, <1>15, ThreadAssumption, BoundAssumption
    DEF LoadFirst, Unlock, Stop, counters, TypeOK, LockInv, MarkerInv, GenerationInv, Writing,
        WritingSteps, PCs, NoMarker, Malformed
  <1>16. ASSUME NEW t \in Threads, Fail(t) PROVE GenerationInv'
    <2>1. remote' = remote \/ pc[t] \in WritingSteps
      BY <1>0, <1>16, NoRequest DEF Fail
    <2> QED
      BY <1>0, <1>16, <2>1, ThreadAssumption, BoundAssumption
      DEF Fail, Unlock, Stop, cacheVars, counters, TypeOK, LockInv, MarkerInv, GenerationInv,
        Writing,
          WritingSteps, PCs, NoMarker, Malformed
  <1>17. ASSUME NEW w \in Workers, CrashWorker(w) PROVE GenerationInv'
    <2>1. remote' = remote \/ Writing
      BY <1>0, <1>17, NoRequest DEF CrashWorker, ThreadsOf, Writing
    <2>2. Writing' => Writing
      BY <1>17 DEF CrashWorker, Stop, Writing, WritingSteps
    <2>3. \A v \in up' : /\ v \in up /\ loaded'[v] = loaded[v]
                         /\ gen'[v] = gen[v] /\ cache'[v] = cache[v]
      BY <1>0, <1>17 DEF CrashWorker, TypeOK
    <2> QED
      BY <1>0, <1>17, <2>1, <2>2, <2>3 DEF CrashWorker, GenerationInv
  <1>18. ASSUME DamageMarker PROVE GenerationInv'
    BY <1>0, <1>18, ThreadAssumption, BoundAssumption
    DEF DamageMarker, cacheVars, threadVars, TypeOK, LockInv, MarkerInv, GenerationInv,
        Writing, WritingSteps, PCs, NoMarker, Malformed
  <1>19. ASSUME RemoveMalformed PROVE GenerationInv'
    BY <1>0, <1>19, ThreadAssumption, BoundAssumption
    DEF RemoveMalformed, cacheVars, threadVars, counters, TypeOK, LockInv, MarkerInv,
        GenerationInv, Writing, WritingSteps, PCs, NoMarker, Malformed
  <1>20. CASE UNCHANGED vars
    BY <1>0, <1>20, ThreadAssumption, BoundAssumption DEF vars, cacheVars, threadVars,
        counters, TypeOK, LockInv, MarkerInv, GenerationInv, Writing, WritingSteps, PCs,
        NoMarker, Malformed
  <1> QED BY <1>1, <1>2, <1>3, <1>4, <1>5, <1>6, <1>7, <1>8, <1>9, <1>10, <1>11, <1>12, <1>13,
        <1>14, <1>15, <1>16, <1>17, <1>18, <1>19, <1>20 DEF Next, Calls, Steps

\* The same of the time without a marker: who loads a snapshot holds the lock, so
\* nobody writes.
LEMMA LossStep == ASSUME QdrantInv, [Next]_vars PROVE LossInv'
  <1>0. TypeOK /\ LockInv /\ MarkerInv /\ LossInv
    BY DEF QdrantInv
  <1>1. ASSUME NEW t \in Threads, StartBoot(t) PROVE LossInv'
    BY <1>0, <1>1, ThreadAssumption, BoundAssumption
    DEF StartBoot, Begin, GoTo, ThreadsOf, cacheVars, counters, TypeOK, LockInv, MarkerInv,
        LossInv, Writing, WritingSteps, PCs, NoMarker, Malformed
  <1>2. ASSUME NEW t \in Threads, StartGet(t) PROVE LossInv'
    BY <1>0, <1>2, ThreadAssumption, BoundAssumption
    DEF StartGet, Begin, GoTo, cacheVars, counters, TypeOK, LockInv, MarkerInv, LossInv,
        Writing, WritingSteps, PCs, NoMarker, Malformed
  <1>3. ASSUME NEW t \in Threads, StartIngest(t) PROVE LossInv'
    BY <1>0, <1>3, ThreadAssumption, BoundAssumption
    DEF StartIngest, Begin, GoTo, cacheVars, TypeOK, LockInv, MarkerInv, LossInv, Writing,
        WritingSteps, PCs, NoMarker, Malformed
  <1>4. ASSUME NEW t \in Threads, StartRetry(t) PROVE LossInv'
    BY <1>0, <1>4, ThreadAssumption, BoundAssumption
    DEF StartRetry, Begin, GoTo, cacheVars, counters, TypeOK, LockInv, MarkerInv, LossInv,
        Writing, WritingSteps, PCs, NoMarker, Malformed
  <1>5. ASSUME NEW t \in Threads, Acquire(t) PROVE LossInv'
    BY <1>0, <1>5, ThreadAssumption, BoundAssumption
    DEF Acquire, GoTo, cacheVars, counters, TypeOK, LockInv, MarkerInv, LossInv, Writing,
        WritingSteps, PCs, NoMarker, Malformed
  <1>6. ASSUME NEW t \in Threads, UseCache(t) PROVE LossInv'
    BY <1>0, <1>6, ThreadAssumption, BoundAssumption
    DEF UseCache, Unlock, Stop, cacheVars, counters, TypeOK, LockInv, MarkerInv, LossInv,
        Writing, WritingSteps, PCs, NoMarker, Malformed
  <1>7. ASSUME NEW t \in Threads, Refresh(t) PROVE LossInv'
    BY <1>0, <1>7, ThreadAssumption, BoundAssumption
    DEF Refresh, Unlock, Stop, counters, TypeOK, LockInv, MarkerInv, LossInv, Writing,
        WritingSteps, PCs, NoMarker, Malformed
  <1>8. ASSUME NEW t \in Threads, Plan(t) PROVE LossInv'
    BY <1>0, <1>8, ThreadAssumption, BoundAssumption
    DEF Plan, GoTo, cacheVars, counters, TypeOK, LockInv, MarkerInv, LossInv, Writing,
        WritingSteps, PCs, NoMarker, Malformed
  <1>9. ASSUME NEW t \in Threads, Mark(t) PROVE LossInv'
    BY <1>0, <1>9, ThreadAssumption, BoundAssumption
    DEF Mark, GoTo, cacheVars, TypeOK, LockInv, MarkerInv, LossInv, Writing, WritingSteps, PCs,
        NoMarker, Malformed
  <1>10. ASSUME NEW t \in Threads, Scan(t) PROVE LossInv'
    BY <1>0, <1>10, ThreadAssumption, BoundAssumption
    DEF Scan, GoTo, cacheVars, counters, TypeOK, LockInv, MarkerInv, LossInv, Writing,
        WritingSteps, PCs, NoMarker, Malformed
  <1>11. ASSUME NEW t \in Threads, UpsertPoints(t) PROVE LossInv'
    BY <1>0, <1>11, ThreadAssumption, BoundAssumption
    DEF UpsertPoints, GoTo, cacheVars, counters, TypeOK, LockInv, MarkerInv, LossInv, Writing,
        WritingSteps, PCs, NoMarker, Malformed
  <1>12. ASSUME NEW t \in Threads, DeleteObsolete(t) PROVE LossInv'
    BY <1>0, <1>12, ThreadAssumption, BoundAssumption
    DEF DeleteObsolete, GoTo, cacheVars, counters, TypeOK, LockInv, MarkerInv, LossInv,
        Writing, WritingSteps, PCs, NoMarker, Malformed
  <1>13. ASSUME NEW t \in Threads, Publish(t) PROVE LossInv'
    BY <1>0, <1>13, ThreadAssumption, BoundAssumption
    DEF Publish, Unlock, Stop, counters, TypeOK, LockInv, MarkerInv, LossInv, Writing,
        WritingSteps, PCs, NoMarker, Malformed
  <1>14. ASSUME NEW t \in Threads, SeedCollection(t) PROVE LossInv'
    BY <1>0, <1>14, ThreadAssumption, BoundAssumption
    DEF SeedCollection, GoTo, cacheVars, counters, TypeOK, LockInv, MarkerInv, LossInv,
        Writing, WritingSteps, PCs, NoMarker, Malformed
  <1>15. ASSUME NEW t \in Threads, LoadFirst(t) PROVE LossInv'
    BY <1>0, <1>15, ThreadAssumption, BoundAssumption
    DEF LoadFirst, Unlock, Stop, counters, TypeOK, LockInv, MarkerInv, LossInv, Writing,
        WritingSteps, PCs, NoMarker, Malformed
  <1>16. ASSUME NEW t \in Threads, Fail(t) PROVE LossInv'
    <2>1. remote' = remote \/ pc[t] \in WritingSteps
      BY <1>0, <1>16, NoRequest DEF Fail
    <2> QED
      BY <1>0, <1>16, <2>1, ThreadAssumption, BoundAssumption
      DEF Fail, Unlock, Stop, cacheVars, counters, TypeOK, LockInv, MarkerInv, LossInv, Writing,
          WritingSteps, PCs, NoMarker, Malformed
  <1>17. ASSUME NEW w \in Workers, CrashWorker(w) PROVE LossInv'
    <2>1. remote' = remote \/ Writing
      BY <1>0, <1>17, NoRequest DEF CrashWorker, ThreadsOf, Writing
    <2>2. Writing' => Writing
      BY <1>17 DEF CrashWorker, Stop, Writing, WritingSteps
    <2>3. \A v \in up' : /\ v \in up /\ loaded'[v] = loaded[v]
                         /\ gen'[v] = gen[v] /\ cache'[v] = cache[v]
      BY <1>0, <1>17 DEF CrashWorker, TypeOK
    <2> QED
      BY <1>0, <1>17, <2>1, <2>2, <2>3 DEF CrashWorker, LossInv
  <1>18. ASSUME DamageMarker PROVE LossInv'
    BY <1>0, <1>18, ThreadAssumption, BoundAssumption
    DEF DamageMarker, cacheVars, threadVars, TypeOK, LockInv, MarkerInv, LossInv, Writing,
        WritingSteps, PCs, NoMarker, Malformed
  <1>19. ASSUME RemoveMalformed PROVE LossInv'
    BY <1>0, <1>19, ThreadAssumption, BoundAssumption
    DEF RemoveMalformed, cacheVars, threadVars, counters, TypeOK, LockInv, MarkerInv, LossInv,
        Writing, WritingSteps, PCs, NoMarker, Malformed
  <1>20. CASE UNCHANGED vars
    BY <1>0, <1>20, ThreadAssumption, BoundAssumption DEF vars, cacheVars, threadVars,
        counters, TypeOK, LockInv, MarkerInv, LossInv, Writing, WritingSteps, PCs, NoMarker,
        Malformed
  <1> QED BY <1>1, <1>2, <1>3, <1>4, <1>5, <1>6, <1>7, <1>8, <1>9, <1>10, <1>11, <1>12, <1>13,
        <1>14, <1>15, <1>16, <1>17, <1>18, <1>19, <1>20 DEF Next, Calls, Steps

\* Every step keeps batches from holding nothing.
LEMMA IdStep == ASSUME QdrantInv, [Next]_vars PROVE IdInv'
  <1>0. TypeOK /\ IdInv /\ LockInv
    BY DEF QdrantInv
  <1>1. ASSUME NEW t \in Threads, StartBoot(t) PROVE IdInv'
    BY <1>0, <1>1, ThreadAssumption
    DEF StartBoot, Begin, GoTo, ThreadsOf, cacheVars, counters, TypeOK, IdInv, LockInv, PCs,
        Absent, Seed, NoBatch
  <1>2. ASSUME NEW t \in Threads, StartGet(t) PROVE IdInv'
    BY <1>0, <1>2, ThreadAssumption
    DEF StartGet, Begin, GoTo, cacheVars, counters, TypeOK, IdInv, LockInv, PCs, Absent, Seed,
        NoBatch
  <1>3. ASSUME NEW t \in Threads, StartIngest(t) PROVE IdInv'
    BY <1>0, <1>3, ThreadAssumption
    DEF StartIngest, Begin, GoTo, cacheVars, TypeOK, IdInv, LockInv, PCs, Absent, Seed, NoBatch
  <1>4. ASSUME NEW t \in Threads, StartRetry(t) PROVE IdInv'
    BY <1>0, <1>4, ThreadAssumption
    DEF StartRetry, Begin, GoTo, cacheVars, counters, TypeOK, IdInv, LockInv, PCs, Absent,
        Seed, NoBatch
  <1>5. ASSUME NEW t \in Threads, Acquire(t) PROVE IdInv'
    BY <1>0, <1>5, ThreadAssumption
    DEF Acquire, GoTo, cacheVars, counters, TypeOK, IdInv, LockInv, PCs, Absent, Seed, NoBatch
  <1>6. ASSUME NEW t \in Threads, UseCache(t) PROVE IdInv'
    BY <1>0, <1>6, ThreadAssumption
    DEF UseCache, Unlock, Stop, cacheVars, counters, TypeOK, IdInv, LockInv, PCs, Absent, Seed,
        NoBatch
  <1>7. ASSUME NEW t \in Threads, Refresh(t) PROVE IdInv'
    BY <1>0, <1>7, ThreadAssumption
    DEF Refresh, Unlock, Stop, counters, TypeOK, IdInv, LockInv, PCs, Absent, Seed, NoBatch
  <1>8. ASSUME NEW t \in Threads, Plan(t) PROVE IdInv'
    BY <1>0, <1>8, ThreadAssumption
    DEF Plan, GoTo, cacheVars, counters, TypeOK, IdInv, LockInv, PCs, Absent, Seed, NoBatch
  <1>9. ASSUME NEW t \in Threads, Mark(t) PROVE IdInv'
    BY <1>0, <1>9, ThreadAssumption
    DEF Mark, GoTo, cacheVars, TypeOK, IdInv, LockInv, PCs, Absent, Seed, NoBatch
  <1>10. ASSUME NEW t \in Threads, Scan(t) PROVE IdInv'
    BY <1>0, <1>10, ThreadAssumption
    DEF Scan, GoTo, cacheVars, counters, TypeOK, IdInv, LockInv, PCs, Absent, Seed, NoBatch
  <1>11. ASSUME NEW t \in Threads, UpsertPoints(t) PROVE IdInv'
    BY <1>0, <1>11, ThreadAssumption
    DEF UpsertPoints, GoTo, cacheVars, counters, TypeOK, IdInv, LockInv, PCs, Absent, Seed,
        NoBatch
  <1>12. ASSUME NEW t \in Threads, DeleteObsolete(t) PROVE IdInv'
    BY <1>0, <1>12, ThreadAssumption
    DEF DeleteObsolete, GoTo, cacheVars, counters, TypeOK, IdInv, LockInv, PCs, Absent, Seed,
        NoBatch
  <1>13. ASSUME NEW t \in Threads, Publish(t) PROVE IdInv'
    BY <1>0, <1>13, ThreadAssumption
    DEF Publish, Unlock, Stop, counters, TypeOK, IdInv, LockInv, PCs, Absent, Seed, NoBatch
  <1>14. ASSUME NEW t \in Threads, SeedCollection(t) PROVE IdInv'
    BY <1>0, <1>14, ThreadAssumption
    DEF SeedCollection, GoTo, cacheVars, counters, TypeOK, IdInv, LockInv, PCs, Absent, Seed,
        NoBatch
  <1>15. ASSUME NEW t \in Threads, LoadFirst(t) PROVE IdInv'
    BY <1>0, <1>15, ThreadAssumption
    DEF LoadFirst, Unlock, Stop, counters, TypeOK, IdInv, LockInv, PCs, Absent, Seed, NoBatch
  <1>16. ASSUME NEW t \in Threads, Fail(t) PROVE IdInv'
    BY <1>0, <1>16, ThreadAssumption
    DEF Fail, Unlock, Stop, cacheVars, counters, TypeOK, IdInv, LockInv, PCs, Absent, Seed,
        NoBatch
  <1>17. ASSUME NEW w \in Workers, CrashWorker(w) PROVE IdInv'
    BY <1>0, <1>17, ThreadAssumption
    DEF CrashWorker, Stop, ThreadsOf, TypeOK, IdInv, LockInv, PCs, Absent, Seed, NoBatch
  <1>18. ASSUME DamageMarker PROVE IdInv'
    BY <1>0, <1>18, ThreadAssumption
    DEF DamageMarker, cacheVars, threadVars, TypeOK, IdInv, LockInv, PCs, Absent, Seed, NoBatch
  <1>19. ASSUME RemoveMalformed PROVE IdInv'
    BY <1>0, <1>19, ThreadAssumption
    DEF RemoveMalformed, cacheVars, threadVars, counters, TypeOK, IdInv, LockInv, PCs, Absent,
        Seed, NoBatch
  <1>20. CASE UNCHANGED vars
    BY <1>0, <1>20, ThreadAssumption DEF vars, cacheVars, threadVars, counters, TypeOK, IdInv,
        LockInv, PCs, Absent, Seed, NoBatch
  <1> QED BY <1>1, <1>2, <1>3, <1>4, <1>5, <1>6, <1>7, <1>8, <1>9, <1>10, <1>11, <1>12, <1>13,
        <1>14, <1>15, <1>16, <1>17, <1>18, <1>19, <1>20 DEF Next, Calls, Steps

-----------------------------------------------------------------------------
(* Replacements under way.                                                 *)

\* While a thread is past the lock, the others wait or do nothing.
LEMMA OthersWait ==
  ASSUME TypeOK, LockInv, NEW t \in Threads, pc[t] \notin {"idle", "wait"},
         NEW u \in Threads, u # t
  PROVE  pc[u] \in {"idle", "wait"}
  BY DEF TypeOK, LockInv

\* A thread whose variables and whose collection stay as they are is as far as before.
LEMMA ProgressKept ==
  ASSUME NEW u \in Threads, Replacing(u), Prepared(u), pc'[u] = pc[u], kind'[u] = kind[u],
         batch'[u] = batch[u], draft'[u] = draft[u], obsolete'[u] = obsolete[u],
         remote' = remote
  PROVE  Replacing(u)' /\ Prepared(u)'
  BY DEF Replacing, Prepared, Overwrite

\* There is nothing to say of a thread that does not replace anything.
LEMMA NoProgress ==
  ASSUME NEW u \in Threads, pc'[u] \in {"idle", "wait", "check", "plan", "seed", "load"}
  PROVE  Replacing(u)' /\ Prepared(u)'
  BY DEF Replacing, Prepared

\* Every step keeps what is known of replacements under way.
LEMMA ReplacementStep == ASSUME QdrantInv,
        [Next]_vars PROVE \A u \in Threads : Replacing(u)' /\ Prepared(u)'
  <1>0. TypeOK /\ LockInv /\ (\A u \in Threads : Replacing(u) /\ Prepared(u))
    BY DEF QdrantInv
  <1>1. ASSUME NEW t \in Threads,
        StartBoot(t) PROVE \A u \in Threads : Replacing(u)' /\ Prepared(u)'
    <2>1. \A u \in Threads \ {t} : Replacing(u)' /\ Prepared(u)'
      BY <1>0, <1>1, ProgressKept, NoProgress, OthersWait DEF StartBoot, Begin, GoTo,
        ThreadsOf, cacheVars, counters, TypeOK
    <2>2. Replacing(t)' /\ Prepared(t)'
      BY <1>0, <1>1, NoProgress DEF StartBoot, Begin, GoTo, ThreadsOf, cacheVars, counters,
        TypeOK, LockInv
    <2> QED BY <2>1, <2>2
  <1>2. ASSUME NEW t \in Threads,
        StartGet(t) PROVE \A u \in Threads : Replacing(u)' /\ Prepared(u)'
    <2>1. \A u \in Threads \ {t} : Replacing(u)' /\ Prepared(u)'
      BY <1>0, <1>2, ProgressKept, NoProgress, OthersWait DEF StartGet, Begin, GoTo, cacheVars,
        counters, TypeOK
    <2>2. Replacing(t)' /\ Prepared(t)'
      BY <1>0, <1>2, NoProgress DEF StartGet, Begin, GoTo, cacheVars, counters, TypeOK, LockInv
    <2> QED BY <2>1, <2>2
  <1>3. ASSUME NEW t \in Threads,
        StartIngest(t) PROVE \A u \in Threads : Replacing(u)' /\ Prepared(u)'
    <2>1. \A u \in Threads \ {t} : Replacing(u)' /\ Prepared(u)'
      BY <1>0, <1>3, ProgressKept, NoProgress, OthersWait DEF StartIngest, Begin, GoTo,
        cacheVars, TypeOK
    <2>2. Replacing(t)' /\ Prepared(t)'
      BY <1>0, <1>3, NoProgress DEF StartIngest, Begin, GoTo, cacheVars, TypeOK, LockInv
    <2> QED BY <2>1, <2>2
  <1>4. ASSUME NEW t \in Threads,
        StartRetry(t) PROVE \A u \in Threads : Replacing(u)' /\ Prepared(u)'
    <2>1. \A u \in Threads \ {t} : Replacing(u)' /\ Prepared(u)'
      BY <1>0, <1>4, ProgressKept, NoProgress, OthersWait DEF StartRetry, Begin, GoTo,
        cacheVars, counters, TypeOK
    <2>2. Replacing(t)' /\ Prepared(t)'
      BY <1>0, <1>4, NoProgress DEF StartRetry, Begin, GoTo, cacheVars, counters, TypeOK,
        LockInv
    <2> QED BY <2>1, <2>2
  <1>5. ASSUME NEW t \in Threads,
        Acquire(t) PROVE \A u \in Threads : Replacing(u)' /\ Prepared(u)'
    <2>1. \A u \in Threads \ {t} : Replacing(u)' /\ Prepared(u)'
      BY <1>0, <1>5, ProgressKept, NoProgress, OthersWait DEF Acquire, GoTo, cacheVars,
        counters, TypeOK
    <2>2. Replacing(t)' /\ Prepared(t)'
      BY <1>0, <1>5 DEF Acquire, GoTo, cacheVars, counters, TypeOK, LockInv, Replacing, Prepared
    <2> QED BY <2>1, <2>2
  <1>6. ASSUME NEW t \in Threads,
        UseCache(t) PROVE \A u \in Threads : Replacing(u)' /\ Prepared(u)'
    <2>1. \A u \in Threads \ {t} : Replacing(u)' /\ Prepared(u)'
      BY <1>0, <1>6, ProgressKept, NoProgress, OthersWait DEF UseCache, Unlock, Stop,
        cacheVars, counters, TypeOK
    <2>2. Replacing(t)' /\ Prepared(t)'
      BY <1>0, <1>6, NoProgress DEF UseCache, Unlock, Stop, cacheVars, counters, TypeOK, LockInv
    <2> QED BY <2>1, <2>2
  <1>7. ASSUME NEW t \in Threads,
        Refresh(t) PROVE \A u \in Threads : Replacing(u)' /\ Prepared(u)'
    <2>1. \A u \in Threads \ {t} : Replacing(u)' /\ Prepared(u)'
      BY <1>0, <1>7, ProgressKept, NoProgress, OthersWait DEF Refresh, Unlock, Stop, counters,
        TypeOK
    <2>2. Replacing(t)' /\ Prepared(t)'
      BY <1>0, <1>7, NoProgress DEF Refresh, Unlock, Stop, counters, TypeOK, LockInv
    <2> QED BY <2>1, <2>2
  <1>8. ASSUME NEW t \in Threads, Plan(t) PROVE \A u \in Threads : Replacing(u)' /\ Prepared(u)'
    <2>1. \A u \in Threads \ {t} : Replacing(u)' /\ Prepared(u)'
      BY <1>0, <1>8, ProgressKept, NoProgress, OthersWait DEF Plan, GoTo, cacheVars, counters,
        TypeOK
    <2>2. Replacing(t)' /\ Prepared(t)'
      BY <1>0, <1>8 DEF Plan, GoTo, cacheVars, counters, TypeOK, LockInv, Replacing, Prepared
    <2> QED BY <2>1, <2>2
  <1>9. ASSUME NEW t \in Threads, Mark(t) PROVE \A u \in Threads : Replacing(u)' /\ Prepared(u)'
    <2>1. \A u \in Threads \ {t} : Replacing(u)' /\ Prepared(u)'
      BY <1>0, <1>9, ProgressKept, NoProgress, OthersWait DEF Mark, GoTo, cacheVars, counters,
        TypeOK
    <2>2. Replacing(t)' /\ Prepared(t)'
      BY <1>0, <1>9 DEF Mark, GoTo, cacheVars, counters, TypeOK, LockInv, Replacing, Prepared
    <2> QED BY <2>1, <2>2
  <1>10. ASSUME NEW t \in Threads,
        Scan(t) PROVE \A u \in Threads : Replacing(u)' /\ Prepared(u)'
    <2>1. \A u \in Threads \ {t} : Replacing(u)' /\ Prepared(u)'
      BY <1>0, <1>10, ProgressKept, NoProgress, OthersWait DEF Scan, GoTo, cacheVars, counters,
        TypeOK
    <2>2. Replacing(t)' /\ Prepared(t)'
      BY <1>0, <1>10 DEF Scan, GoTo, cacheVars, counters, TypeOK, LockInv, Replacing, Prepared,
        Others
    <2> QED BY <2>1, <2>2
  <1>11. ASSUME NEW t \in Threads,
        UpsertPoints(t) PROVE \A u \in Threads : Replacing(u)' /\ Prepared(u)'
    <2>1. \A u \in Threads \ {t} : Replacing(u)' /\ Prepared(u)'
      BY <1>0, <1>11, ProgressKept, NoProgress, OthersWait DEF UpsertPoints, GoTo, cacheVars,
        counters, TypeOK
    <2>2. Replacing(t)' /\ Prepared(t)'
      <3>1. /\ batch'[t] = batch[t] /\ draft'[t] = draft[t] /\ obsolete'[t] = obsolete[t]
            /\ kind'[t] = kind[t] /\ pc'[t] = IF obsolete[t] = {} THEN "publish" ELSE "delete"
        BY <1>0, <1>11 DEF UpsertPoints, GoTo, TypeOK
      <3>2. /\ remote' \in [Points -> 0..MaxWrites]
            /\ \A p \in Points :
                 remote'[p] = IF p \in Incoming(batch[t]) THEN batch[t].id ELSE remote[p]
        BY <1>0, <1>11, ValueTypes, OverwriteType DEF UpsertPoints, Overwrite, Collections,
        TypeOK
      <3>3. obsolete[t] = {p \in Others(batch[t]) : remote[p] # Absent}
        BY <1>0, <1>11 DEF UpsertPoints, Replacing
      <3>4. Replacing(t)'
        BY <3>1, <3>2, <3>3 DEF Replacing, Others, SourcePoints, Incoming
      <3>5. ASSUME kind[t] = "ingest", WorkerOf[t] # Cli
            PROVE  draft[t] = [p \in Points |-> IF p \in obsolete[t] THEN Absent ELSE remote'[p]]
        <4>1. draft[t] = Merged(remote, batch[t])
          BY <1>0, <1>11, <3>5 DEF UpsertPoints, Prepared
        <4>2. ASSUME NEW p \in Points
              PROVE  draft[t][p] = IF p \in obsolete[t] THEN Absent ELSE remote'[p]
          BY <3>2, <3>3, <4>1 DEF Merged, Others
        <4> QED BY <4>1, <4>2 DEF Merged
      <3>6. obsolete[t] = {} =>
              remote' = [p \in Points |-> IF p \in obsolete[t] THEN Absent ELSE remote'[p]]
        BY <3>2
      <3>7. Prepared(t)'
        BY <3>1, <3>5, <3>6 DEF Prepared, Overwrite
      <3> QED BY <3>4, <3>7
    <2> QED BY <2>1, <2>2
  <1>12. ASSUME NEW t \in Threads,
        DeleteObsolete(t) PROVE \A u \in Threads : Replacing(u)' /\ Prepared(u)'
    <2>1. \A u \in Threads \ {t} : Replacing(u)' /\ Prepared(u)'
      BY <1>0, <1>12, ProgressKept, NoProgress, OthersWait DEF DeleteObsolete, GoTo, cacheVars,
        counters, TypeOK
    <2>2. Replacing(t)' /\ Prepared(t)'
      <3>1. /\ batch'[t] = batch[t] /\ draft'[t] = draft[t] /\ obsolete'[t] = obsolete[t]
            /\ kind'[t] = kind[t] /\ pc'[t] = "publish"
        BY <1>0, <1>12 DEF DeleteObsolete, GoTo, TypeOK
      <3>2. Replacing(t)'
        BY <1>0, <1>12, <3>1 DEF DeleteObsolete, Replacing, Others, SourcePoints, Incoming,
        Overwrite
      <3>3. Prepared(t)'
        BY <1>0, <1>12, <3>1 DEF DeleteObsolete, Prepared
      <3> QED BY <3>2, <3>3
    <2> QED BY <2>1, <2>2
  <1>13. ASSUME NEW t \in Threads,
        Publish(t) PROVE \A u \in Threads : Replacing(u)' /\ Prepared(u)'
    <2>1. \A u \in Threads \ {t} : Replacing(u)' /\ Prepared(u)'
      BY <1>0, <1>13, ProgressKept, NoProgress, OthersWait DEF Publish, Unlock, Stop, counters,
        TypeOK
    <2>2. Replacing(t)' /\ Prepared(t)'
      BY <1>0, <1>13, NoProgress DEF Publish, Unlock, Stop, counters, TypeOK, LockInv
    <2> QED BY <2>1, <2>2
  <1>14. ASSUME NEW t \in Threads,
        SeedCollection(t) PROVE \A u \in Threads : Replacing(u)' /\ Prepared(u)'
    <2>1. \A u \in Threads \ {t} : Replacing(u)' /\ Prepared(u)'
      BY <1>0, <1>14, ProgressKept, NoProgress, OthersWait DEF SeedCollection, GoTo, cacheVars,
        counters, TypeOK
    <2>2. Replacing(t)' /\ Prepared(t)'
      BY <1>0, <1>14, NoProgress DEF SeedCollection, GoTo, cacheVars, counters, TypeOK, LockInv
    <2> QED BY <2>1, <2>2
  <1>15. ASSUME NEW t \in Threads,
        LoadFirst(t) PROVE \A u \in Threads : Replacing(u)' /\ Prepared(u)'
    <2>1. \A u \in Threads \ {t} : Replacing(u)' /\ Prepared(u)'
      BY <1>0, <1>15, ProgressKept, NoProgress, OthersWait DEF LoadFirst, Unlock, Stop,
        counters, TypeOK
    <2>2. Replacing(t)' /\ Prepared(t)'
      BY <1>0, <1>15, NoProgress DEF LoadFirst, Unlock, Stop, counters, TypeOK, LockInv
    <2> QED BY <2>1, <2>2
  <1>16. ASSUME NEW t \in Threads,
        Fail(t) PROVE \A u \in Threads : Replacing(u)' /\ Prepared(u)'
    <2>1. \A u \in Threads : u = t \/ pc[t] = "wait" \/ pc[u] \in {"idle", "wait"}
      BY <1>0, <1>16, OthersWait DEF Fail, TypeOK
    <2>2. pc[t] = "wait" => remote' = remote
      BY <1>0, <1>16, NoRequest DEF Fail, WritingSteps
    <2>3. ASSUME NEW u \in Threads PROVE Replacing(u)' /\ Prepared(u)'
      <3>1. CASE u = t
        BY <1>0, <1>16, <3>1, NoProgress DEF Fail, Stop, TypeOK
      <3>2. CASE u # t /\ pc[u] \in {"idle", "wait"}
        BY <1>0, <1>16, <3>2, NoProgress DEF Fail, Stop, TypeOK
      <3>3. CASE u # t /\ pc[t] = "wait"
        BY <1>0, <1>16, <2>2, <3>3, ProgressKept DEF Fail, Stop, TypeOK
      <3> QED BY <2>1, <3>1, <3>2, <3>3
    <2> QED BY <2>3
  <1>17. ASSUME NEW w \in Workers,
        CrashWorker(w) PROVE \A u \in Threads : Replacing(u)' /\ Prepared(u)'
    <2> SUFFICES ASSUME NEW u \in Threads PROVE Replacing(u)' /\ Prepared(u)'
      OBVIOUS
    <2>1. CASE u \in ThreadsOf(w)
      BY <1>0, <1>17, <2>1, NoProgress DEF CrashWorker, Stop
    <2>2. CASE u \notin ThreadsOf(w) /\ lock \notin ThreadsOf(w)
      BY <1>0, <1>17, <2>2, ProgressKept DEF CrashWorker, Stop
    <2>3. CASE u \notin ThreadsOf(w) /\ lock \in ThreadsOf(w)
      <3>1. pc[u] \in {"idle", "wait"}
        BY <1>0, <2>3, OthersWait DEF ThreadsOf, LockInv, TypeOK, PCs
      <3> QED BY <1>0, <1>17, <2>3, <3>1, NoProgress DEF CrashWorker, Stop
    <2> QED BY <2>1, <2>2, <2>3
  <1>18. ASSUME DamageMarker PROVE \A u \in Threads : Replacing(u)' /\ Prepared(u)'
    BY <1>0, <1>18, ProgressKept DEF DamageMarker, threadVars
  <1>19. ASSUME RemoveMalformed PROVE \A u \in Threads : Replacing(u)' /\ Prepared(u)'
    BY <1>0, <1>19, ProgressKept DEF RemoveMalformed, threadVars
  <1>20. CASE UNCHANGED vars
    BY <1>0, <1>20, ProgressKept DEF vars, threadVars
  <1> QED BY <1>1, <1>2, <1>3, <1>4, <1>5, <1>6, <1>7, <1>8, <1>9, <1>10, <1>11, <1>12, <1>13,
        <1>14, <1>15, <1>16, <1>17, <1>18, <1>19, <1>20 DEF Next, Calls, Steps

-----------------------------------------------------------------------------
(* The theorems on snapshots.                                              *)

\* A collection nobody has touched, and no process.
LEMMA InitQdrantInv == Init => QdrantInv
  <1> SUFFICES ASSUME Init PROVE QdrantInv
    OBVIOUS
  <1>1. TypeOK
    BY EmptyTypes, BoundAssumption, ThreadAssumption
    DEF Init, TypeOK, PCs, Seed, NoMarker
  <1>2. LockInv /\ MarkerInv
    BY ThreadAssumption, BoundAssumption
    DEF Init, LockInv, MarkerInv, WritingSteps, NoMarker, Malformed
  <1>3. GenerationInv /\ LossInv /\ IdInv
    BY DEF Init, GenerationInv, LossInv, IdInv
  <1>4. \A t \in Threads : Replacing(t) /\ Prepared(t)
    BY DEF Init, Replacing, Prepared
  <1> QED BY <1>1, <1>2, <1>3, <1>4 DEF QdrantInv

\* Every step preserves the invariant.
LEMMA QdrantInvStep == QdrantInv /\ [Next]_vars => QdrantInv'
  BY TypeStep, LockStep, MarkerStep, GenerationStep, LossStep, IdStep, ReplacementStep
  DEF QdrantInv

\* The inductive invariant of coordinated snapshots.
THEOREM QdrantInvariant == Spec => []QdrantInv
  BY InitQdrantInv, QdrantInvStep, PTL DEF Spec

\* A snapshot under the generation of the marker file is the collection, for any
\* failures and crashes of writers and workers, and however often the marker file
\* was damaged, as long as it is there; and when it is missing, if it was damaged
\* only once.  (A second loss brings back the mark of the first: snapshots that
\* were loaded then look valid again.)
THEOREM ValidCaches == Spec => [](damage <= 1 \/ marker # NoMarker => ValidCacheIsRemote)
  <1>1. QdrantInv => (damage <= 1 \/ marker # NoMarker => ValidCacheIsRemote)
    <2> SUFFICES ASSUME QdrantInv, damage <= 1 \/ marker # NoMarker, NEW w \in up,
                        loaded[w], gen[w] = marker
                 PROVE  cache[w] = remote
      BY DEF ValidCacheIsRemote
    <2>1. marker # Malformed
      BY BoundAssumption DEF QdrantInv, TypeOK, Malformed
    <2>2. CASE marker = markers
      BY <2>2 DEF QdrantInv, GenerationInv
    <2>3. CASE marker = NoMarker
      BY <2>1, <2>3 DEF QdrantInv, LossInv
    <2> QED BY <2>1, <2>2, <2>3 DEF QdrantInv, MarkerInv
  <1> QED BY <1>1, QdrantInvariant, PTL

\* An ingestion about to return has replaced its sources completely, whatever
\* earlier attempts, other writers or crashed processes left there.
THEOREM ReplacementsComplete == Spec => []SuccessReplacesSources
  <1>1. QdrantInv => SuccessReplacesSources
    BY DEF QdrantInv, Replacing, Others, SuccessReplacesSources
  <1> QED BY <1>1, QdrantInvariant, PTL

\* Whenever the snapshot of a running worker changes, it becomes the collection as
\* it is then, also when an ingestion publishes what it merged by itself.
THEOREM PublishedAgents == Spec => PublishedAgentIsRemote
  <1>1. QdrantInv /\ [Next]_vars => [PublishedAgentIsRemoteStep]_vars
    <2> SUFFICES ASSUME QdrantInv, [Next]_vars, NEW w \in up, w \in up', cache'[w] # cache[w]
                 PROVE  cache'[w] = remote'
      BY DEF PublishedAgentIsRemoteStep
    <2>0. TypeOK /\ LockInv /\ \A t \in Threads : Prepared(t)
      BY DEF QdrantInv
    <2>1. ASSUME NEW t \in Threads, Refresh(t) PROVE cache'[w] = remote'
      BY <2>0, <2>1 DEF Refresh, TypeOK
    <2>2. ASSUME NEW t \in Threads, Publish(t) PROVE cache'[w] = remote'
      BY <2>0, <2>2 DEF Publish, TypeOK, LockInv, Prepared
    <2>3. ASSUME NEW t \in Threads, LoadFirst(t) PROVE cache'[w] = remote'
      BY <2>0, <2>3 DEF LoadFirst, TypeOK
    <2>4. ASSUME NEW v \in Workers, CrashWorker(v) PROVE cache'[w] = remote'
      BY <2>0, <2>4 DEF CrashWorker, TypeOK
    <2>5. ASSUME NEW t \in Threads, Calls(t) PROVE FALSE
      BY <2>5 DEF Calls, StartBoot, StartGet, StartIngest, StartRetry, Begin, cacheVars
    <2>6. ASSUME NEW t \in Threads, Steps(t), ~Refresh(t), ~Publish(t), ~LoadFirst(t)
          PROVE  FALSE
      BY <2>6 DEF Steps, Acquire, UseCache, Plan, Mark, Scan, UpsertPoints, DeleteObsolete,
        SeedCollection, cacheVars
    <2>7. ASSUME NEW t \in Threads, Fail(t) PROVE FALSE
      BY <2>7 DEF Fail, cacheVars
    <2>8. CASE DamageMarker \/ RemoveMalformed \/ UNCHANGED vars
      BY <2>8 DEF DamageMarker, RemoveMalformed, vars, cacheVars
    <2> QED BY <2>1, <2>2, <2>3, <2>4, <2>5, <2>6, <2>7, <2>8 DEF Next
  <1> QED BY <1>1, QdrantInvariant, PTL DEF Spec, PublishedAgentIsRemote

\* Writing an identifier to points removes no point.
LEMMA WritesRemoveNothing ==
  ASSUME TypeOK, NEW points, NEW value, value # Absent,
         remote' = Overwrite(points, value)
  PROVE  SourceNeverVanishesStep
  BY DEF TypeOK, Collections, Points, Overwrite, SourceNeverVanishesStep

\* Deleting obsolete points leaves the first chunk of their source.
LEMMA DeletesLeaveSources ==
  ASSUME QdrantInv, NEW t \in Threads, pc[t] = "delete", NEW points \in SUBSET obsolete[t],
         remote' = Overwrite(points, Absent)
  PROVE  SourceNeverVanishesStep
  <1>1. points \subseteq Others(batch[t]) /\ \A p \in Incoming(batch[t]) : remote[p] = batch[t].id
    BY DEF QdrantInv, Replacing
  <1>2. batch[t].id # Absent /\ batch[t] \in Batches
    BY DEF QdrantInv, IdInv, LockInv, TypeOK
  <1> SUFFICES ASSUME NEW s \in Sources, NEW k \in 1..MaxChunks, remote[<<s, k>>] # Absent
               PROVE  \E i \in 1..MaxChunks : remote'[<<s, i>>] # Absent
    BY DEF SourceNeverVanishesStep
  <1>3. CASE <<s, k>> \notin points
    BY <1>3 DEF Overwrite, Points
  <1>4. CASE <<s, k>> \in points
    <2>1. <<s, 1>> \in Incoming(batch[t]) /\ 1 \in 1..MaxChunks
      BY <1>1, <1>2, <1>4, BoundAssumption
      DEF Others, SourcePoints, BatchSources, Incoming, Points, Batches, Shapes
    <2>2. <<s, 1>> \notin points
      BY <1>1, <2>1 DEF Others
    <2>3. remote'[<<s, 1>>] = remote[<<s, 1>>]
      BY <2>1, <2>2 DEF Overwrite, Incoming
    <2> QED BY <1>1, <1>2, <2>1, <2>3
  <1> QED BY <1>3, <1>4

\* The same of the requests of a thread, whole or in part.
LEMMA RequestsLeaveSources ==
  ASSUME QdrantInv, NEW t \in Threads, NEW done \in SUBSET RequestPoints(t),
         remote' = Overwrite(done, RequestValue(t))
  PROVE  SourceNeverVanishesStep
  <1>1. TypeOK
    BY DEF QdrantInv
  <1>2. CASE pc[t] = "upsert"
    <2>1. RequestValue(t) # Absent
      BY <1>2 DEF QdrantInv, LockInv, IdInv, RequestValue
    <2> QED BY <1>1, <2>1, WritesRemoveNothing
  <1>3. CASE pc[t] = "delete"
    BY <1>3, DeletesLeaveSources DEF RequestPoints, RequestValue
  <1>4. CASE pc[t] \notin {"upsert", "delete"}
    BY <1>1, <1>4, WritesRemoveNothing DEF RequestValue, Seed, Absent
  <1> QED BY <1>2, <1>3, <1>4

\* No step, no failing request and no crash leaves a source without chunks that had
\* some: new points come first, and only points the batch replaces are deleted.
THEOREM SourcesStay == Spec => SourceNeverVanishes
  <1>1. QdrantInv /\ [Next]_vars => [SourceNeverVanishesStep]_vars
    <2> SUFFICES ASSUME QdrantInv, [Next]_vars, remote' # remote
                 PROVE  SourceNeverVanishesStep
      BY DEF SourceNeverVanishesStep
    <2>0. TypeOK
      BY DEF QdrantInv
    <2>1. ASSUME NEW t \in Threads, UpsertPoints(t) PROVE SourceNeverVanishesStep
      BY <2>1, RequestsLeaveSources DEF UpsertPoints, RequestPoints, RequestValue
    <2>2. ASSUME NEW t \in Threads, DeleteObsolete(t) PROVE SourceNeverVanishesStep
      BY <2>2, RequestsLeaveSources DEF DeleteObsolete, RequestPoints, RequestValue
    <2>3. ASSUME NEW t \in Threads, SeedCollection(t) PROVE SourceNeverVanishesStep
      BY <2>3, RequestsLeaveSources DEF SeedCollection, RequestPoints, RequestValue
    <2>4. ASSUME NEW t \in Threads, Fail(t) PROVE SourceNeverVanishesStep
      BY <2>4, RequestsLeaveSources DEF Fail
    <2>5. ASSUME NEW w \in Workers, CrashWorker(w) PROVE SourceNeverVanishesStep
      BY <2>5, RequestsLeaveSources DEF CrashWorker, ThreadsOf
    <2>6. ASSUME NEW t \in Threads, Calls(t) PROVE FALSE
      BY <2>6 DEF Calls, StartBoot, StartGet, StartIngest, StartRetry, Begin
    <2>7. ASSUME NEW t \in Threads, Steps(t), ~UpsertPoints(t), ~DeleteObsolete(t),
                 ~SeedCollection(t)
          PROVE  FALSE
      BY <2>7 DEF Steps, Acquire, UseCache, Refresh, Plan, Mark, Scan, Publish, LoadFirst
    <2>8. CASE DamageMarker \/ RemoveMalformed \/ UNCHANGED vars
      BY <2>8 DEF DamageMarker, RemoveMalformed, vars
    <2> QED BY <2>1, <2>2, <2>3, <2>4, <2>5, <2>6, <2>7, <2>8 DEF Next
  <1> QED BY <1>1, QdrantInvariant, PTL DEF Spec, SourceNeverVanishes

-----------------------------------------------------------------------------
(* Lists of offsets.                                                       *)

\* The empty list.
LEMMA EmptyMembers == Members(<<>>) = {} /\ <<>> \in Lists /\ Len(<<>>) = 0
  BY DEF Members, Lists

\* A list with one more offset.
LEMMA AppendMembers ==
  ASSUME NEW s \in Lists, NEW o \in Offsets
  PROVE  /\ Append(s, o) \in Lists
         /\ Len(Append(s, o)) = Len(s) + 1 /\ Len(s) \in Nat
         /\ Append(s, o)[Len(s) + 1] = o
         /\ \A i \in 1..Len(s) : Append(s, o)[i] = s[i]
         /\ Members(Append(s, o)) = Members(s) \cup {o}
  <1>1. /\ Append(s, o) \in Lists
        /\ Len(Append(s, o)) = Len(s) + 1 /\ Len(s) \in Nat
        /\ Append(s, o)[Len(s) + 1] = o
        /\ \A i \in 1..Len(s) : Append(s, o)[i] = s[i]
    BY DEF Lists
  <1>2. 1..Len(Append(s, o)) = (1..Len(s)) \cup {Len(s) + 1}
    BY <1>1
  <1>3. Members(Append(s, o)) = Members(s) \cup {o}
    BY <1>1, <1>2 DEF Members
  <1> QED BY <1>1, <1>3

\* What a list of offsets holds.
LEMMA MembersAreOffsets ==
  ASSUME NEW s \in Lists
  PROVE  /\ Len(s) \in Nat
         /\ \A i \in 1..Len(s) : s[i] \in Offsets /\ s[i] \in Members(s)
         /\ Members(s) \subseteq Offsets
  <1>1. Len(s) \in Nat /\ \A i \in 1..Len(s) : s[i] \in Offsets
    BY DEF Lists
  <1> QED BY <1>1 DEF Members

\* Two lists, one after the other.
LEMMA ConcatMembers ==
  ASSUME NEW s \in Lists, NEW t \in Lists
  PROVE  /\ s \o t \in Lists
         /\ Len(s \o t) = Len(s) + Len(t)
         /\ \A i \in 1..Len(s) : (s \o t)[i] = s[i]
         /\ \A i \in 1..Len(t) : (s \o t)[Len(s) + i] = t[i]
         /\ Members(s \o t) = Members(s) \cup Members(t)
  <1>1. /\ s \o t \in Lists
        /\ Len(s \o t) = Len(s) + Len(t) /\ Len(s) \in Nat /\ Len(t) \in Nat
        /\ \A i \in 1..Len(s) : (s \o t)[i] = s[i]
        /\ \A i \in 1..Len(t) : (s \o t)[Len(s) + i] = t[i]
    BY DEF Lists
  <1>2. \A i \in 1..(Len(s) + Len(t)) : i \in 1..Len(s) \/ i - Len(s) \in 1..Len(t)
    BY <1>1
  <1>3. Members(s \o t) \subseteq Members(s) \cup Members(t)
    <2> SUFFICES ASSUME NEW i \in 1..(Len(s) + Len(t))
                 PROVE  (s \o t)[i] \in Members(s) \cup Members(t)
      BY <1>1 DEF Members
    <2>1. CASE i \in 1..Len(s)
      BY <1>1, <2>1 DEF Members
    <2>2. CASE i - Len(s) \in 1..Len(t)
      <3>1. Len(s) + (i - Len(s)) = i
        BY <1>1
      <3> QED BY <1>1, <2>2, <3>1 DEF Members
    <2> QED BY <1>2, <2>1, <2>2
  <1>4. Members(s) \subseteq Members(s \o t)
    <2>1. \A i \in 1..Len(s) : i \in 1..Len(s \o t)
      BY <1>1
    <2> QED BY <1>1, <2>1 DEF Members
  <1>5. Members(t) \subseteq Members(s \o t)
    <2>1. \A i \in 1..Len(t) : Len(s) + i \in 1..Len(s \o t)
      BY <1>1
    <2> QED BY <1>1, <2>1 DEF Members
  <1> QED BY <1>1, <1>3, <1>4, <1>5

\* An initial segment of a list of offsets.
LEMMA PrefixMembers ==
  ASSUME NEW s \in Lists, NEW n \in 0..Len(s)
  PROVE  Members(SubSeq(s, 1, n)) \subseteq Offsets
  <1>1. SubSeq(s, 1, n) \in Lists
    BY DEF Lists
  <1> QED BY <1>1, MembersAreOffsets

-----------------------------------------------------------------------------
(* Types and batches.                                                      *)

\* The invariant holds at the start.
LEMMA InitPrefixInv == StreamInit => PrefixInv
  <1> SUFFICES ASSUME StreamInit PROVE PrefixInv
    OBVIOUS
  <1> USE TopicAssumption, BatchAssumption, EmptyMembers
  <1>1. StreamTypeOK
    BY DEF StreamInit, StreamTypeOK, Handled
  <1>2. BatchInv
    BY DEF StreamInit, BatchInv, Handled
  <1>3. Seen = {}
    BY DEF StreamInit, Seen
  <1> QED BY <1>1, <1>2, <1>3 DEF StreamInit, PrefixInv, NothingIsSkipped

\* A call that raises leaves an empty batch and loses what was in it.
LEMMA RaiseKeeps ==
  ASSUME PrefixInv, Raise, topic' = topic, position' \in 1..(TopicSize + 1),
         committed' \in 1..(TopicSize + 1), failures' \in 0..MaxFailures,
         deadLetters' \subseteq Offsets
  PROVE  StreamTypeOK' /\ BatchInv' /\ Seen' = Seen
  <1> USE EmptyMembers, BatchAssumption
  <1>1. Members(envelopes) \subseteq Offsets
    BY MembersAreOffsets DEF PrefixInv, StreamTypeOK
  <1>2. StreamTypeOK'
    BY <1>1 DEF PrefixInv, StreamTypeOK, Raise, Handled
  <1>3. BatchInv'
    BY DEF BatchInv, Raise, Handled
  <1>4. Seen' = Seen
    BY DEF Seen, Raise
  <1> QED BY <1>2, <1>3, <1>4

\* The message that the loop handles next.
LEMMA CurrentMessage ==
  ASSUME PrefixInv, Handled < Len(envelopes)
  PROVE  /\ Current \in Offsets /\ Current \in Members(envelopes)
         /\ Handled + 1 \in 1..Len(envelopes)
         /\ Handled \in Nat /\ Len(records) \in Nat /\ Len(issues) \in Nat
  <1>1. Len(records) \in Nat /\ Len(issues) \in Nat /\ Len(envelopes) \in Nat
    BY MembersAreOffsets DEF PrefixInv, StreamTypeOK
  <1>2. Handled \in Nat /\ Handled + 1 \in 1..Len(envelopes)
    BY <1>1 DEF Handled
  <1> QED BY <1>1, <1>2, MembersAreOffsets DEF PrefixInv, StreamTypeOK, Current

\* A valid message moves from the batch to the records.
LEMMA AcceptKeeps ==
  ASSUME PrefixInv, Accept
  PROVE  StreamTypeOK' /\ BatchInv' /\ Seen' = Seen
  <1>1. /\ Current \in Offsets /\ Current \in Members(envelopes)
        /\ Handled + 1 \in 1..Len(envelopes)
        /\ Handled \in Nat /\ Len(records) \in Nat /\ Len(issues) \in Nat
    BY CurrentMessage DEF Accept
  <1>2. /\ records' \in Lists /\ Len(records') = Len(records) + 1
        /\ Members(records') = Members(records) \cup {Current}
    BY <1>1, AppendMembers DEF Accept, PrefixInv, StreamTypeOK
  <1>3. Handled' = Handled + 1
    BY <1>1, <1>2 DEF Handled, Accept
  <1>4. committed' \in 1..(TopicSize + 1)
    BY <1>1, TopicAssumption DEF Accept, Offsets
  <1>5. Handled' <= Len(envelopes)
    BY <1>1, <1>3
  <1>6. StreamTypeOK'
    BY <1>2, <1>4, <1>5 DEF Accept, PrefixInv, StreamTypeOK, history
  <1>7. ASSUME NEW i \in 1..Handled'
        PROVE  envelopes[i] \in Members(records') \cup Members(issues)
    <2>1. CASE i \in 1..Handled
      BY <1>2, <2>1 DEF PrefixInv, BatchInv
    <2>2. CASE i = Handled + 1
      BY <1>2, <2>2 DEF Current
    <2> QED BY <1>1, <1>3, <2>1, <2>2
  <1>8. BatchInv'
    BY <1>1, <1>2, <1>7 DEF BatchInv, Accept, PrefixInv
  <1>9. Seen' = Seen
    BY DEF Accept, Seen, history
  <1> QED BY <1>6, <1>8, <1>9

\* An invalid message moves from the batch to the issues.
LEMMA RejectKeeps ==
  ASSUME PrefixInv, Reject
  PROVE  StreamTypeOK' /\ BatchInv' /\ Seen' = Seen
  <1>1. /\ Current \in Offsets /\ Current \in Members(envelopes)
        /\ Handled + 1 \in 1..Len(envelopes)
        /\ Handled \in Nat /\ Len(records) \in Nat /\ Len(issues) \in Nat
    BY CurrentMessage DEF Reject
  <1>2. /\ issues' \in Lists /\ Len(issues') = Len(issues) + 1
        /\ Members(issues') = Members(issues) \cup {Current}
    BY <1>1, AppendMembers DEF Reject, PrefixInv, StreamTypeOK
  <1>3. Handled' = Handled + 1
    BY <1>1, <1>2 DEF Handled, Reject
  <1>4. Handled' <= Len(envelopes)
    BY <1>1, <1>3
  <1>5. StreamTypeOK'
    BY <1>2, <1>4 DEF Reject, PrefixInv, StreamTypeOK, history
  <1>6. ASSUME NEW i \in 1..Handled'
        PROVE  envelopes[i] \in Members(records) \cup Members(issues')
    <2>1. CASE i \in 1..Handled
      BY <1>2, <2>1 DEF PrefixInv, BatchInv
    <2>2. CASE i = Handled + 1
      BY <1>2, <2>2 DEF Current
    <2> QED BY <1>1, <1>3, <2>1, <2>2
  <1>7. BatchInv'
    BY <1>1, <1>2, <1>6 DEF BatchInv, Reject, PrefixInv
  <1>8. Seen' = Seen
    BY DEF Reject, Seen, history
  <1> QED BY <1>5, <1>7, <1>8

\* Once the loop is done, its records and issues are the batch.
LEMMA ReturnKeeps ==
  ASSUME PrefixInv, Return
  PROVE  StreamTypeOK' /\ BatchInv' /\ Seen' = Seen
  <1> USE EmptyMembers, BatchAssumption
  <1>1. Members(records) \cup Members(issues) = Members(envelopes)
    <2>1. Handled = Len(envelopes)
      BY DEF PrefixInv, BatchInv, Return
    <2>2. Members(envelopes) \subseteq Members(records) \cup Members(issues)
      BY <2>1 DEF PrefixInv, BatchInv, Members
    <2> QED BY <2>2 DEF PrefixInv, BatchInv
  <1>2. /\ delivered' \in Lists
        /\ Members(delivered') = Members(delivered) \cup Members(records)
    BY ConcatMembers DEF Return, PrefixInv, StreamTypeOK
  <1>3. Members(issues) \subseteq Offsets
    BY MembersAreOffsets DEF PrefixInv, StreamTypeOK
  <1>4. StreamTypeOK'
    BY <1>2, <1>3 DEF Return, PrefixInv, StreamTypeOK, Handled
  <1>5. BatchInv'
    BY DEF BatchInv, Return, Handled
  <1>6. Seen' = Seen
    BY <1>1, <1>2 DEF Return, Seen
  <1> QED BY <1>4, <1>5, <1>6

\* poll puts the next message into the batch.
LEMMA FetchKeeps ==
  ASSUME PrefixInv, Fetch
  PROVE  StreamTypeOK' /\ BatchInv' /\ Seen' = Seen \cup {position}
  <1> USE EmptyMembers, TopicAssumption, BatchAssumption
  <1>1. /\ envelopes' \in Lists /\ Len(envelopes') = Len(envelopes) + 1
        /\ Len(envelopes) \in Nat
        /\ Members(envelopes') = Members(envelopes) \cup {position}
    BY AppendMembers DEF Fetch, PrefixInv, StreamTypeOK
  <1>2. records = <<>> /\ issues = <<>> /\ records' = <<>> /\ issues' = <<>>
    BY DEF Fetch, PrefixInv, BatchInv
  <1>3. Handled' = 0
    BY <1>2 DEF Handled
  <1>4. position' \in 1..(TopicSize + 1) /\ Len(envelopes') <= MaxMessages
    BY <1>1 DEF Fetch, Offsets
  <1>5. StreamTypeOK'
    BY <1>1, <1>2, <1>3, <1>4 DEF Fetch, PrefixInv, StreamTypeOK, history
  <1>6. BatchInv'
    BY <1>2, <1>3 DEF BatchInv, Fetch
  <1>7. Seen' = Seen \cup {position}
    BY <1>1 DEF Fetch, Seen, history
  <1> QED BY <1>5, <1>6, <1>7

\* A garbled message ends its poll, seen and lost.
LEMMA FetchGarbledKeeps ==
  ASSUME PrefixInv, FetchGarbled
  PROVE  StreamTypeOK' /\ BatchInv' /\ Seen' = Seen \cup {position}
  <1> USE EmptyMembers, TopicAssumption, BatchAssumption
  <1>1. records = <<>> /\ issues = <<>> /\ records' = <<>> /\ issues' = <<>>
    BY DEF FetchGarbled, PrefixInv, BatchInv
  <1>2. Handled' = 0
    BY <1>1 DEF Handled
  <1>3. position' \in 1..(TopicSize + 1)
    BY DEF FetchGarbled, Offsets
  <1>4. Members(envelopes) \subseteq Offsets /\ position \in Offsets
    BY MembersAreOffsets DEF FetchGarbled, PrefixInv, StreamTypeOK
  <1>5. StreamTypeOK'
    <2>1. /\ envelopes' \in Lists /\ Len(envelopes') = 0 /\ Handled' <= Len(envelopes')
          /\ Len(envelopes') <= MaxMessages
          /\ records' \in Lists /\ issues' \in Lists
      BY <1>1, <1>2 DEF FetchGarbled
    <2>2. lost' \subseteq Offsets
      BY <1>4 DEF FetchGarbled, PrefixInv, StreamTypeOK
    <2> QED BY <1>3, <2>1, <2>2 DEF FetchGarbled, PrefixInv, StreamTypeOK
  <1>6. BatchInv'
    BY <1>1, <1>2 DEF BatchInv, FetchGarbled
  <1>7. Seen' = Seen \cup {position}
    BY DEF FetchGarbled, Seen
  <1> QED BY <1>5, <1>6, <1>7

\* Steps that change neither the lists of the call nor the histories.
QuietStep ==
  \/ StartConsume \/ EndPoll \/ WriteDeadLetters \/ SkipDeadLetters \/ Assign

\* Quiet steps keep what was seen; a new assignment goes back to the commit.
LEMMA QuietKeeps ==
  ASSUME PrefixInv, QuietStep
  PROVE  /\ StreamTypeOK' /\ BatchInv' /\ Seen' = Seen
         /\ committed' = committed /\ position' \in {position, committed}
         /\ UNCHANGED <<envelopes, records, issues, history>>
  <1> USE TopicAssumption
  <1>1. /\ UNCHANGED <<envelopes, records, issues, history>>
        /\ committed' = committed /\ position' \in {position, committed} /\ topic' = topic
    BY DEF QuietStep, StartConsume, EndPoll, WriteDeadLetters, SkipDeadLetters, Assign, call
  <1>2. Handled' = Handled
    BY <1>1 DEF Handled
  <1>3. /\ step' \in {"idle", "polling", "validating", "returning"}
        /\ failures' \in 0..MaxFailures
    BY DEF QuietStep, StartConsume, EndPoll, WriteDeadLetters, SkipDeadLetters, Assign, call,
           CanFail, PrefixInv, StreamTypeOK
  <1>4. deadLetters' \subseteq Offsets
    BY MembersAreOffsets
       DEF QuietStep, StartConsume, EndPoll, WriteDeadLetters, SkipDeadLetters, Assign,
           PrefixInv, StreamTypeOK
  <1>5. StreamTypeOK'
    BY <1>1, <1>2, <1>3, <1>4 DEF PrefixInv, StreamTypeOK, history
  <1>6. BatchInv'
    BY <1>1, <1>2
       DEF QuietStep, StartConsume, EndPoll, WriteDeadLetters, SkipDeadLetters, Assign, call,
           PrefixInv, BatchInv
  <1>7. Seen' = Seen
    BY <1>1 DEF Seen, history
  <1> QED BY <1>1, <1>5, <1>6, <1>7

-----------------------------------------------------------------------------
(* Commits skip nothing.                                                   *)

\* Every step keeps the invariant.
LEMMA NextPrefixInv == PrefixInv /\ [StreamNext]_streamVars => PrefixInv'
  <1> SUFFICES ASSUME PrefixInv, [StreamNext]_streamVars PROVE PrefixInv'
    OBVIOUS
  <1> USE TopicAssumption
  <1>1. /\ \A o \in Seen : 1..o \subseteq Seen
        /\ 1..(position - 1) \subseteq Seen
        /\ 1..(committed - 1) \subseteq Seen
        /\ position \in 1..(TopicSize + 1) /\ committed \in 1..(TopicSize + 1)
    BY DEF PrefixInv, NothingIsSkipped, StreamTypeOK
  \* Steps that see nothing new.
  <1>2. ASSUME StreamTypeOK', BatchInv', Seen' = Seen,
               position' \in {position, committed},
               committed' = committed \/ committed' - 1 \in Seen
        PROVE  PrefixInv'
    <2>1. 1..(committed' - 1) \subseteq Seen
      BY <1>1, <1>2
    <2>2. 1..(position' - 1) \subseteq Seen
      BY <1>1, <1>2
    <2> QED BY <1>1, <1>2, <2>1, <2>2 DEF PrefixInv, NothingIsSkipped
  \* Steps that fetch the message at the position.
  <1>3. ASSUME StreamTypeOK', BatchInv', Seen' = Seen \cup {position},
               position' = position + 1, committed' = committed
        PROVE  PrefixInv'
    <2>1. 1..position = (1..(position - 1)) \cup {position}
      BY <1>1
    <2>2. 1..position \subseteq Seen' /\ position' - 1 = position
      BY <1>1, <1>3, <2>1
    <2>3. \A o \in Seen' : 1..o \subseteq Seen'
      BY <1>1, <1>3, <2>2
    <2> QED BY <1>1, <1>3, <2>2, <2>3 DEF PrefixInv, NothingIsSkipped
  <1>4. CASE QuietStep
    BY <1>2, <1>4, QuietKeeps
  <1>5. CASE Fetch
    BY <1>3, <1>5, FetchKeeps DEF Fetch
  <1>6. CASE FetchGarbled
    BY <1>3, <1>6, FetchGarbledKeeps DEF FetchGarbled
  <1>7. CASE Accept
    <2>1. Current \in Seen /\ Current \in Offsets
      BY <1>7, CurrentMessage DEF Accept, Seen
    <2>2. committed' - 1 = Current /\ position' = position
      BY <1>7, <2>1 DEF Accept, Offsets
    <2> QED BY <1>2, <1>7, <2>1, <2>2, AcceptKeeps
  <1>8. CASE Reject
    BY <1>2, <1>8, RejectKeeps DEF Reject
  <1>9. CASE Return
    BY <1>2, <1>9, ReturnKeeps DEF Return
  <1>10. CASE ConsumerError \/ WriteFails \/ Restart
    <2>1. /\ Raise /\ topic' = topic /\ committed' = committed
          /\ position' \in {position, committed} /\ failures' \in 0..MaxFailures
      BY <1>10 DEF ConsumerError, WriteFails, Restart, CanFail, PrefixInv, StreamTypeOK
    <2>2. deadLetters' \subseteq Offsets
      <3>1. CASE WriteFails
        BY <3>1, PrefixMembers DEF WriteFails, PrefixInv, StreamTypeOK
      <3> QED BY <1>10, <3>1 DEF ConsumerError, Restart, PrefixInv, StreamTypeOK
    <2> QED BY <1>1, <1>2, <2>1, <2>2, RaiseKeeps
  <1>11. CASE AckFails
    <2>1. Current \in Seen /\ Current \in Offsets
      BY <1>11, CurrentMessage DEF AckFails, Seen
    <2>2. /\ Raise /\ topic' = topic /\ position' = position
          /\ failures' \in 0..MaxFailures /\ deadLetters' \subseteq Offsets
          /\ committed' \in {committed, Current + 1}
      BY <1>11 DEF AckFails, CanFail, PrefixInv, StreamTypeOK
    <2>3. /\ committed' \in 1..(TopicSize + 1)
          /\ committed' = committed \/ committed' - 1 \in Seen
      BY <1>1, <2>1, <2>2 DEF Offsets
    <2> QED BY <1>1, <1>2, <2>2, <2>3, RaiseKeeps
  <1>12. CASE UNCHANGED streamVars
    BY <1>12 DEF streamVars, call, history, PrefixInv, StreamTypeOK, BatchInv, Seen, NothingIsSkipped, Handled
  <1> QED BY <1>4, <1>5, <1>6, <1>7, <1>8, <1>9, <1>10, <1>11, <1>12
          DEF StreamNext, Step, QuietStep

\* What calls have seen is a prefix of the topic, and the position and the
\* commit are not beyond it.
THEOREM PrefixInvariant == StreamSpec => []PrefixInv
  <1> QED BY InitPrefixInv, NextPrefixInv, PTL DEF StreamSpec

\* Type correctness; in particular every message of a batch is handled once.
THEOREM TypeCorrect == StreamSpec => []StreamTypeOK
  <1>1. PrefixInv => StreamTypeOK
    BY DEF PrefixInv
  <1> QED BY <1>1, PrefixInvariant, PTL

\* A commit never skips a message that no call fetched: what lies below it was
\* returned, is being handled, or was in the batch of a call that raised.
THEOREM CommitsSkipNothing == StreamSpec => []NothingIsSkipped
  <1>1. PrefixInv => NothingIsSkipped
    BY DEF PrefixInv
  <1> QED BY <1>1, PrefixInvariant, PTL

-----------------------------------------------------------------------------
(* Nothing is returned twice.                                              *)

\* The empty list repeats nothing.
LEMMA EmptyDistinct == Distinct(<<>>)
  BY DEF Distinct

\* A new offset repeats nothing.
LEMMA AppendDistinct ==
  ASSUME NEW s \in Lists, NEW o \in Offsets, o \notin Members(s), Distinct(s)
  PROVE  Distinct(Append(s, o))
  <1>1. /\ Len(Append(s, o)) = Len(s) + 1 /\ Len(s) \in Nat
        /\ Append(s, o)[Len(s) + 1] = o
        /\ \A i \in 1..Len(s) : Append(s, o)[i] = s[i] /\ s[i] # o
    BY AppendMembers DEF Members
  <1>2. \A i \in 1..(Len(s) + 1) : i \in 1..Len(s) \/ i = Len(s) + 1
    BY <1>1
  <1> QED BY <1>1, <1>2 DEF Distinct

\* Lists without a common offset repeat nothing.
LEMMA ConcatDistinct ==
  ASSUME NEW s \in Lists, NEW t \in Lists, Distinct(s), Distinct(t),
         Members(s) \cap Members(t) = {}
  PROVE  Distinct(s \o t)
  <1>1. /\ Len(s \o t) = Len(s) + Len(t) /\ Len(s) \in Nat /\ Len(t) \in Nat
        /\ \A i \in 1..Len(s) : (s \o t)[i] = s[i] /\ s[i] \in Members(s)
        /\ \A i \in 1..Len(t) : (s \o t)[Len(s) + i] = t[i] /\ t[i] \in Members(t)
    <2>1. /\ Len(s \o t) = Len(s) + Len(t)
          /\ \A i \in 1..Len(s) : (s \o t)[i] = s[i]
          /\ \A i \in 1..Len(t) : (s \o t)[Len(s) + i] = t[i]
      BY ConcatMembers
    <2>2. /\ Len(s) \in Nat /\ \A i \in 1..Len(s) : s[i] \in Members(s)
          /\ Len(t) \in Nat /\ \A i \in 1..Len(t) : t[i] \in Members(t)
      BY MembersAreOffsets
    <2> QED BY <2>1, <2>2
  <1>2. \A i \in 1..(Len(s) + Len(t)) :
          i \in 1..Len(s) \/ (i - Len(s) \in 1..Len(t) /\ Len(s) + (i - Len(s)) = i)
    BY <1>1
  <1> SUFFICES ASSUME NEW i \in 1..(Len(s) + Len(t)), NEW j \in 1..(Len(s) + Len(t)),
                      (s \o t)[i] = (s \o t)[j]
               PROVE  i = j
    BY <1>1 DEF Distinct
  <1>3. CASE i \in 1..Len(s) /\ j \in 1..Len(s)
    BY <1>1, <1>3 DEF Distinct
  <1>4. CASE i \in 1..Len(s) /\ j \notin 1..Len(s)
    <2>1. (s \o t)[i] \in Members(s) /\ (s \o t)[j] \in Members(t)
      BY <1>1, <1>2, <1>4
    <2> QED BY <2>1
  <1>5. CASE i \notin 1..Len(s) /\ j \in 1..Len(s)
    <2>1. (s \o t)[j] \in Members(s) /\ (s \o t)[i] \in Members(t)
      BY <1>1, <1>2, <1>5
    <2> QED BY <2>1
  <1>6. CASE i \notin 1..Len(s) /\ j \notin 1..Len(s)
    <2>1. /\ i - Len(s) \in 1..Len(t) /\ (s \o t)[i] = t[i - Len(s)]
          /\ j - Len(s) \in 1..Len(t) /\ (s \o t)[j] = t[j - Len(s)]
      BY <1>1, <1>2, <1>6
    <2>2. i - Len(s) = j - Len(s)
      BY <2>1 DEF Distinct
    <2> QED BY <1>1, <2>2
  <1> QED BY <1>3, <1>4, <1>5, <1>6

\* The invariant holds at the start.
LEMMA InitOnceInv == StreamInit => OnceInv
  BY EmptyMembers, EmptyDistinct DEF StreamInit, OnceInv, DeliveredOnce

\* Between calls only the commit and the returned records matter.
LEMMA IdleOnce ==
  ASSUME PrefixInv, OnceInv, envelopes' = <<>>, records' = <<>>, delivered' = delivered,
         committed' \in Nat, committed <= committed', position' \in Nat, committed' <= position'
  PROVE  OnceInv'
  <1>1. Members(delivered) \subseteq Offsets /\ committed \in Nat
    BY MembersAreOffsets DEF PrefixInv, StreamTypeOK
  <1>2. \A o \in Members(delivered) : o < committed'
    BY <1>1 DEF OnceInv, Offsets
  <1> QED BY <1>2, EmptyMembers, EmptyDistinct DEF OnceInv, DeliveredOnce

\* A fetched message lies behind everything delivered.
LEMMA FetchOnce ==
  ASSUME PrefixInv, OnceInv, Fetch
  PROVE  OnceInv'
  <1>1. /\ Len(envelopes') = Len(envelopes) + 1 /\ Len(envelopes) \in Nat
        /\ envelopes'[Len(envelopes) + 1] = position
        /\ \A i \in 1..Len(envelopes) : envelopes'[i] = envelopes[i]
    BY AppendMembers DEF Fetch, PrefixInv, StreamTypeOK
  <1>2. /\ position \in Nat /\ committed \in Nat /\ position' = position + 1
        /\ committed' = committed /\ records' = records /\ delivered' = delivered
        /\ \A i \in 1..Len(envelopes) : envelopes[i] \in Nat
    BY MembersAreOffsets DEF Fetch, PrefixInv, StreamTypeOK, history, Offsets
  <1>3. records = <<>> /\ issues = <<>> /\ issues' = issues
    BY DEF Fetch, PrefixInv, BatchInv
  <1>4. Handled = 0 /\ Handled' = 0
    BY <1>2, <1>3, EmptyMembers DEF Handled
  <1>5. \A i \in 1..(Len(envelopes) + 1) : i \in 1..Len(envelopes) \/ i = Len(envelopes) + 1
    BY <1>1
  <1>6. ASSUME NEW i \in 1..(Len(envelopes) + 1)
        PROVE  /\ envelopes'[i] < position + 1 /\ committed <= envelopes'[i]
               /\ \A j \in 1..(Len(envelopes) + 1) : i < j => envelopes'[i] < envelopes'[j]
    <2>1. CASE i \in 1..Len(envelopes)
      <3>1. /\ envelopes[i] < position /\ committed <= envelopes[i]
            /\ \A j \in 1..Len(envelopes) : i < j => envelopes[i] < envelopes[j]
        BY <1>4, <2>1 DEF OnceInv
      <3> QED BY <1>1, <1>2, <1>5, <2>1, <3>1
    <2>2. CASE i = Len(envelopes) + 1
      BY <1>1, <1>2, <2>2 DEF OnceInv
    <2> QED BY <1>5, <2>1, <2>2
  <1>7. committed' <= position'
    BY <1>2 DEF OnceInv
  <1> QED BY <1>1, <1>2, <1>4, <1>6, <1>7 DEF OnceInv, DeliveredOnce

\* An accepted message was not delivered before.
LEMMA AcceptOnce ==
  ASSUME PrefixInv, OnceInv, Accept
  PROVE  OnceInv'
  <1>1. /\ Current \in Offsets /\ Current = envelopes[Handled + 1]
        /\ Handled + 1 \in 1..Len(envelopes)
        /\ Handled \in Nat /\ Len(records) \in Nat /\ Len(issues) \in Nat
        /\ Len(envelopes) \in Nat
    BY CurrentMessage, MembersAreOffsets DEF Accept, Current, PrefixInv, StreamTypeOK
  <1>2. /\ records \in Lists /\ records' = Append(records, Current)
        /\ Len(records') = Len(records) + 1
        /\ Members(records') = Members(records) \cup {Current}
        /\ Members(records) \subseteq Offsets /\ Members(delivered) \subseteq Offsets
    BY <1>1, AppendMembers, MembersAreOffsets DEF Accept, PrefixInv, StreamTypeOK
  <1>3. Handled' = Handled + 1
    BY <1>1, <1>2 DEF Handled, Accept
  <1>4. committed <= Current /\ Current < position
    BY <1>1 DEF OnceInv
  <1>5. /\ committed \in Nat /\ position \in Nat /\ Current \in Nat
        /\ committed' = Current + 1 /\ position' = position
        /\ envelopes' = envelopes /\ delivered' = delivered
    BY <1>1 DEF Accept, PrefixInv, StreamTypeOK, Offsets, history
  <1>6. \A o \in Members(delivered) \cup Members(records) : o \in Nat /\ o < Current
    BY <1>2, <1>4, <1>5 DEF OnceInv, Offsets
  <1>7. Current \notin Members(delivered) /\ Current \notin Members(records)
    BY <1>5, <1>6
  <1>8. Distinct(records')
    BY <1>1, <1>2, <1>7, AppendDistinct DEF OnceInv
  <1>9. \A o \in Members(delivered) \cup Members(records') : o < committed'
    BY <1>2, <1>5, <1>6
  <1>10. Members(delivered) \cap Members(records') = {}
    BY <1>2, <1>7 DEF OnceInv
  <1>11. ASSUME NEW i \in 1..Len(envelopes), i > Handled'
         PROVE  committed' <= envelopes[i]
    <2>1. Handled + 1 < i
      BY <1>1, <1>3, <1>11
    <2>2. Current < envelopes[i]
      BY <1>1, <2>1 DEF OnceInv
    <2>3. envelopes[i] \in Nat
      BY MembersAreOffsets DEF PrefixInv, StreamTypeOK, Offsets
    <2> QED BY <1>5, <2>2, <2>3
  <1>12. committed' <= position'
    BY <1>4, <1>5
  <1> QED BY <1>5, <1>8, <1>9, <1>10, <1>11, <1>12 DEF OnceInv, DeliveredOnce

\* A rejected message is delivered to nobody.
LEMMA RejectOnce ==
  ASSUME PrefixInv, OnceInv, Reject
  PROVE  OnceInv'
  <1>1. Handled \in Nat /\ Len(records) \in Nat /\ Len(issues) \in Nat /\ Current \in Offsets
    BY CurrentMessage DEF Reject
  <1>2. Len(issues') = Len(issues) + 1
    BY <1>1, AppendMembers DEF Reject, PrefixInv, StreamTypeOK
  <1>3. Handled' = Handled + 1
    BY <1>1, <1>2 DEF Handled, Reject
  <1>4. /\ UNCHANGED <<position, committed, envelopes, records, delivered>>
        /\ Len(envelopes) \in Nat
    BY MembersAreOffsets DEF Reject, history, PrefixInv, StreamTypeOK
  <1>5. \A i \in 1..Len(envelopes) : i > Handled' => i > Handled
    BY <1>1, <1>3, <1>4
  <1> QED BY <1>4, <1>5 DEF OnceInv, DeliveredOnce

\* The records of a call are returned behind what was delivered before.
LEMMA ReturnOnce ==
  ASSUME PrefixInv, OnceInv, Return
  PROVE  OnceInv'
  <1>1. /\ Distinct(delivered')
        /\ Members(delivered') = Members(delivered) \cup Members(records)
    BY ConcatDistinct, ConcatMembers DEF Return, PrefixInv, StreamTypeOK, OnceInv, DeliveredOnce
  <1>2. UNCHANGED <<position, committed>> /\ envelopes' = <<>> /\ records' = <<>>
    BY DEF Return
  <1> QED BY <1>1, <1>2, EmptyMembers, EmptyDistinct DEF OnceInv, DeliveredOnce

\* No partition is assigned anew once a poll has fetched something.
LEMMA QuietOnce ==
  ASSUME PrefixInv, OnceInv, QuietStep, ~AssignedInPoll
  PROVE  OnceInv'
  <1>1. /\ UNCHANGED <<envelopes, records, issues, delivered>> /\ committed' = committed
    BY QuietKeeps DEF history
  <1>2. Handled' = Handled
    BY <1>1 DEF Handled
  <1>3. CASE position' = position
    BY <1>1, <1>2, <1>3 DEF OnceInv, DeliveredOnce
  <1>4. CASE envelopes = <<>> /\ position' = committed
    <2>1. committed \in Nat
      BY DEF PrefixInv, StreamTypeOK
    <2> QED BY <1>1, <1>2, <1>4, <2>1, EmptyMembers DEF OnceInv, DeliveredOnce
  <1>5. position' = position \/ (envelopes = <<>> /\ position' = committed)
    BY DEF QuietStep, StartConsume, EndPoll, WriteDeadLetters, SkipDeadLetters, Assign
  <1> QED BY <1>3, <1>4, <1>5

\* Every step keeps the invariant.
LEMMA NextOnceInv ==
  ASSUME PrefixInv, OnceInv, [StreamNext]_streamVars, ~AssignedInPoll
  PROVE  OnceInv'
  <1>1. /\ position \in Nat /\ committed \in Nat /\ committed <= position
        /\ position \in 1..(TopicSize + 1)
    BY DEF PrefixInv, StreamTypeOK, OnceInv
  <1>2. CASE ConsumerError \/ WriteFails \/ Restart
    <2>1. /\ envelopes' = <<>> /\ records' = <<>> /\ delivered' = delivered
          /\ committed' = committed /\ position' \in {position, committed}
      BY <1>2 DEF ConsumerError, WriteFails, Restart, Raise
    <2> QED BY <1>1, <2>1, IdleOnce
  <1>3. CASE FetchGarbled
    <2>1. records = <<>>
      BY <1>3 DEF FetchGarbled, PrefixInv, BatchInv
    <2>2. /\ envelopes' = <<>> /\ records' = <<>> /\ delivered' = delivered
          /\ committed' = committed /\ position' = position + 1
      BY <1>3, <2>1 DEF FetchGarbled
    <2> QED BY <1>1, <2>2, IdleOnce
  <1>4. CASE AckFails
    <2>1. /\ envelopes' = <<>> /\ records' = <<>> /\ delivered' = delivered
          /\ committed' \in {committed, Current + 1} /\ position' = position
      BY <1>4 DEF AckFails, Raise
    <2>2. /\ Current \in Nat /\ committed <= Current /\ Current < position
      BY <1>4, CurrentMessage DEF AckFails, Current, OnceInv, Offsets
    <2> QED BY <1>1, <2>1, <2>2, IdleOnce
  <1>5. CASE UNCHANGED streamVars
    BY <1>5 DEF streamVars, call, history, OnceInv, DeliveredOnce, Handled
  <1> QED BY <1>2, <1>3, <1>4, <1>5, FetchOnce, AcceptOnce, RejectOnce, ReturnOnce, QuietOnce
          DEF StreamNext, Step, QuietStep

\* If partitions are assigned only when a poll begins, no message is returned
\* as a record twice, for any topic and any failing commits and restarts.
THEOREM RecordsAreReturnedOnce == StreamSpec /\ ~AssignedInPoll => []DeliveredOnce
  <1>1. StreamInit => OnceInv
    BY InitOnceInv
  <1>2. PrefixInv /\ OnceInv /\ [StreamNext]_streamVars /\ ~AssignedInPoll => OnceInv'
    BY NextOnceInv
  <1>3. OnceInv => DeliveredOnce
    BY DEF OnceInv
  <1> QED
    <2> SUFFICES ASSUME ~AssignedInPoll PROVE StreamSpec => []DeliveredOnce
      OBVIOUS
    <2>1. PrefixInv /\ OnceInv /\ [StreamNext]_streamVars => OnceInv'
      BY <1>2
    <2> QED BY <1>1, <1>3, <2>1, PrefixInvariant, PTL DEF StreamSpec
=============================================================================
