-------------------------- MODULE JsonIndexProofs --------------------------
(***************************************************************************)
(* Proofs about JsonIndex, for any number of workers, threads, sources and *)
(* writes.  IndexInv is the inductive invariant; the theorems at the end   *)
(* are what it gives.                                                      *)
(***************************************************************************)
EXTENDS JsonIndex, TLAPS

USE ThreadAssumption, InodeAssumption, SourceAssumption, BoundAssumption,
    MissingAssumption

-----------------------------------------------------------------------------
(* The stores the actions compute.                                         *)

\* A full build is a store.
LEMMA FullBuildType == ASSUME NEW id \in 0..MaxWrites PROVE FullBuild(id) \in Contents
BY DEF FullBuild, Absent, Contents

\* update_json_index starts from a store whether or not the file exists.
LEMMA LoadedStoreType == ASSUME TypeOK PROVE LoadedStore \in Contents
BY DEF LoadedStore, TypeOK, Snapshots, Contents, Exists, Absent

\* Replacing the sources of a batch gives a store.
LEMMA UpsertType ==
  ASSUME NEW store \in Contents, NEW batch, NEW id \in 0..MaxWrites
  PROVE  UpsertSources(store, batch, id) \in Contents
BY DEF UpsertSources, Contents

\* A store is never the mark of a missing file.
LEMMA StoresExist == Missing \notin Contents
BY DEF Contents

-----------------------------------------------------------------------------
(* The invariant.                                                          *)

\* The invariant holds before anything has started.
LEMMA InitIndexInv == Init => IndexInv
BY DEF Init, IndexInv, TypeOK, LockInv, StepInv, DraftInv, VersionInv, Holds,
       Snapshots, NoSnapshot, Draft, Ops, NoOp, Kinds, PCs, InitialBuild

\* Every step of Next preserves it: one case per action, one step per conjunct.
LEMMA NextIndexInv == IndexInv /\ [Next]_vars => IndexInv'
<1> SUFFICES ASSUME IndexInv, [Next]_vars PROVE IndexInv'
  OBVIOUS
<1> USE DEF IndexInv
<1>1. ASSUME NEW t \in Threads, StartBoot(t) PROVE IndexInv'
  <2>1. TypeOK'
    BY <1>1 DEF StartBoot, Begin, GoTo, InitialBuild, TypeOK, StepInv,
           DraftInv, Snapshots, Contents, Ops, Kinds, PCs, InitialBuild
  <2>2. LockInv'
    BY <1>1 DEF StartBoot, Begin, GoTo, InitialBuild, TypeOK, LockInv,
           StepInv, Holds
  <2>3. StepInv'
    BY <1>1 DEF StartBoot, Begin, GoTo, InitialBuild, TypeOK, StepInv, Ops,
           Kinds
  <2>4. DraftInv'
    BY <1>1, StoresExist DEF StartBoot, Begin, GoTo, InitialBuild, TypeOK,
           LockInv, StepInv, DraftInv, Holds, Snapshots, Ops, LoadedStore,
           Exists
  <2>5. VersionInv'
    BY <1>1 DEF StartBoot, Begin, GoTo, InitialBuild, TypeOK, LockInv,
           StepInv, DraftInv, VersionInv, Tracks, Holds, Snapshots, Exists
  <2> QED BY <2>1, <2>2, <2>3, <2>4, <2>5
<1>2. ASSUME NEW t \in Threads, StartQuery(t) PROVE IndexInv'
  <2>1. TypeOK'
    BY <1>2 DEF StartQuery, Begin, GoTo, TypeOK, StepInv, DraftInv, Snapshots,
           Contents, Ops, Kinds, PCs
  <2>2. LockInv'
    BY <1>2 DEF StartQuery, Begin, GoTo, TypeOK, LockInv, StepInv, Holds
  <2>3. StepInv'
    BY <1>2 DEF StartQuery, Begin, GoTo, TypeOK, StepInv, Ops, Kinds
  <2>4. DraftInv'
    BY <1>2, StoresExist DEF StartQuery, Begin, GoTo, TypeOK, LockInv,
           StepInv, DraftInv, Holds, Snapshots, Ops, LoadedStore, Exists
  <2>5. VersionInv'
    BY <1>2 DEF StartQuery, Begin, GoTo, TypeOK, LockInv, StepInv, DraftInv,
           VersionInv, Tracks, Holds, Snapshots, Exists
  <2> QED BY <2>1, <2>2, <2>3, <2>4, <2>5
<1>3. ASSUME NEW t \in Threads, StartEnsure(t) PROVE IndexInv'
  <2>1. TypeOK'
    BY <1>3 DEF StartEnsure, Begin, GoTo, InitialBuild, TypeOK, StepInv,
           DraftInv, Snapshots, Contents, Ops, Kinds, PCs, InitialBuild
  <2>2. LockInv'
    BY <1>3 DEF StartEnsure, Begin, GoTo, InitialBuild, TypeOK, LockInv,
           StepInv, Holds
  <2>3. StepInv'
    BY <1>3 DEF StartEnsure, Begin, GoTo, InitialBuild, TypeOK, StepInv, Ops,
           Kinds
  <2>4. DraftInv'
    BY <1>3, StoresExist DEF StartEnsure, Begin, GoTo, InitialBuild, TypeOK,
           LockInv, StepInv, DraftInv, Holds, Snapshots, Ops, LoadedStore,
           Exists
  <2>5. VersionInv'
    BY <1>3 DEF StartEnsure, Begin, GoTo, InitialBuild, TypeOK, LockInv,
           StepInv, DraftInv, VersionInv, Tracks, Holds, Snapshots, Exists
  <2> QED BY <2>1, <2>2, <2>3, <2>4, <2>5
<1>4. ASSUME NEW t \in Threads, StartUpdate(t) PROVE IndexInv'
  <2>1. TypeOK'
    BY <1>4 DEF StartUpdate, Begin, GoTo, TypeOK, StepInv, DraftInv,
           Snapshots, Contents, Ops, Kinds, PCs
  <2>2. LockInv'
    BY <1>4 DEF StartUpdate, Begin, GoTo, TypeOK, LockInv, StepInv, Holds
  <2>3. StepInv'
    BY <1>4 DEF StartUpdate, Begin, GoTo, TypeOK, StepInv, Ops, Kinds
  <2>4. DraftInv'
    BY <1>4, StoresExist DEF StartUpdate, Begin, GoTo, TypeOK, LockInv,
           StepInv, DraftInv, Holds, Snapshots, Ops, LoadedStore, Exists
  <2>5. VersionInv'
    BY <1>4 DEF StartUpdate, Begin, GoTo, TypeOK, LockInv, StepInv, DraftInv,
           VersionInv, Tracks, Holds, Snapshots, Exists
  <2> QED BY <2>1, <2>2, <2>3, <2>4, <2>5
<1>5. ASSUME NEW t \in Threads, StartRebuild(t) PROVE IndexInv'
  <2>1. TypeOK'
    BY <1>5, FullBuildType DEF StartRebuild, Begin, GoTo, Draft, TypeOK,
           StepInv, DraftInv, Snapshots, Ops, Kinds, PCs
  <2>2. LockInv'
    BY <1>5 DEF StartRebuild, Begin, GoTo, Draft, TypeOK, LockInv, StepInv,
           Holds
  <2>3. StepInv'
    BY <1>5 DEF StartRebuild, Begin, GoTo, Draft, TypeOK, StepInv, Ops, Kinds
  <2>4. DraftInv'
    <3>1. \A u \in Threads \ {t} : pc'[u] = pc[u] /\ op'[u] = op[u] /\ local'[u] = local[u]
      BY <1>5 DEF StartRebuild, Begin, GoTo, TypeOK
    <3>2. pc'[t] = "save" /\ op'[t].kind = "rebuild"
      BY <1>5 DEF StartRebuild, Begin, GoTo, TypeOK
    <3>3. op'[t].id \in 0..MaxWrites /\ local'[t].content = FullBuild(op'[t].id)
      BY <1>5 DEF StartRebuild, Begin, Draft, TypeOK
    <3>4. file' = file
      BY <1>5 DEF StartRebuild, Begin
    <3> QED BY <3>1, <3>2, <3>3, <3>4, FullBuildType DEF DraftInv, Exists, LoadedStore
  <2>5. VersionInv'
    BY <1>5 DEF StartRebuild, Begin, GoTo, Draft, TypeOK, LockInv, StepInv,
           DraftInv, VersionInv, Tracks, Holds, Snapshots, Exists
  <2> QED BY <2>1, <2>2, <2>3, <2>4, <2>5
<1>6. ASSUME NEW t \in Threads, Acquire(t) PROVE IndexInv'
  <2>1. TypeOK'
    BY <1>6 DEF Acquire, CanLock, GoTo, FirstStep, TypeOK, StepInv, DraftInv,
           Snapshots, Contents, Ops, Kinds, PCs
  <2>2. LockInv'
    BY <1>6 DEF Acquire, CanLock, GoTo, FirstStep, TypeOK, LockInv, StepInv,
           Holds
  <2>3. StepInv'
    BY <1>6 DEF Acquire, CanLock, GoTo, FirstStep, TypeOK, StepInv, Ops, Kinds
  <2>4. DraftInv'
    BY <1>6, StoresExist DEF Acquire, CanLock, GoTo, FirstStep, TypeOK,
           LockInv, StepInv, DraftInv, Holds, Snapshots, Ops, LoadedStore,
           Exists
  <2>5. VersionInv'
    BY <1>6 DEF Acquire, CanLock, GoTo, FirstStep, TypeOK, LockInv, StepInv,
           DraftInv, VersionInv, Tracks, Holds, Snapshots, Exists
  <2> QED BY <2>1, <2>2, <2>3, <2>4, <2>5
<1>7. ASSUME NEW t \in Threads, TimeOut(t) PROVE IndexInv'
  <2>1. TypeOK'
    BY <1>7 DEF TimeOut, WaitsForLock, CanLock, Stop, NoSnapshot, Draft, NoOp,
           TypeOK, StepInv, DraftInv, Snapshots, Contents, Ops, Kinds, PCs
  <2>2. LockInv'
    BY <1>7 DEF TimeOut, WaitsForLock, CanLock, Stop, NoSnapshot, Draft, NoOp,
           TypeOK, LockInv, StepInv, Holds
  <2>3. StepInv'
    BY <1>7 DEF TimeOut, WaitsForLock, CanLock, Stop, NoSnapshot, Draft, NoOp,
           TypeOK, StepInv, Ops, Kinds
  <2>4. DraftInv'
    BY <1>7, StoresExist DEF TimeOut, WaitsForLock, CanLock, Stop, NoSnapshot,
           Draft, NoOp, TypeOK, LockInv, StepInv, DraftInv, Holds, Snapshots,
           Ops, LoadedStore, Exists
  <2>5. VersionInv'
    BY <1>7 DEF TimeOut, WaitsForLock, CanLock, Stop, NoSnapshot, Draft, NoOp,
           TypeOK, LockInv, StepInv, DraftInv, VersionInv, Tracks, Holds,
           Snapshots, Exists
  <2> QED BY <2>1, <2>2, <2>3, <2>4, <2>5
<1>8. ASSUME NEW t \in Threads, Stat(t) PROVE IndexInv'
  <2>1. TypeOK'
    BY <1>8 DEF Stat, GoTo, SameVersion, TypeOK, StepInv, DraftInv, Snapshots,
           Contents, Ops, Kinds, PCs
  <2>2. LockInv'
    BY <1>8 DEF Stat, GoTo, SameVersion, TypeOK, LockInv, StepInv, Holds
  <2>3. StepInv'
    BY <1>8 DEF Stat, GoTo, SameVersion, TypeOK, StepInv, Ops, Kinds
  <2>4. DraftInv'
    BY <1>8, StoresExist DEF Stat, GoTo, SameVersion, TypeOK, LockInv,
           StepInv, DraftInv, Holds, Snapshots, Ops, LoadedStore, Exists
  <2>5. VersionInv'
    BY <1>8 DEF Stat, GoTo, SameVersion, TypeOK, LockInv, StepInv, DraftInv,
           VersionInv, Tracks, Holds, Snapshots, Exists
  <2> QED BY <2>1, <2>2, <2>3, <2>4, <2>5
<1>9. ASSUME NEW t \in Threads, ReloadNotNeeded(t) PROVE IndexInv'
  <2>1. TypeOK'
    BY <1>9 DEF ReloadNotNeeded, SameVersion, Unlock, GoTo, TypeOK, StepInv,
           DraftInv, Snapshots, Contents, Ops, Kinds, PCs
  <2>2. LockInv'
    BY <1>9 DEF ReloadNotNeeded, SameVersion, Unlock, GoTo, TypeOK, LockInv,
           StepInv, Holds
  <2>3. StepInv'
    BY <1>9 DEF ReloadNotNeeded, SameVersion, Unlock, GoTo, TypeOK, StepInv,
           Ops, Kinds
  <2>4. DraftInv'
    BY <1>9, StoresExist DEF ReloadNotNeeded, SameVersion, Unlock, GoTo,
           TypeOK, LockInv, StepInv, DraftInv, Holds, Snapshots, Ops,
           LoadedStore, Exists
  <2>5. VersionInv'
    BY <1>9 DEF ReloadNotNeeded, SameVersion, Unlock, GoTo, TypeOK, LockInv,
           StepInv, DraftInv, VersionInv, Tracks, Holds, Snapshots, Exists
  <2> QED BY <2>1, <2>2, <2>3, <2>4, <2>5
<1>10. ASSUME NEW t \in Threads, Reload(t) PROVE IndexInv'
  <2>1. TypeOK'
    BY <1>10 DEF Reload, SameVersion, GoTo, TypeOK, StepInv, DraftInv,
           Snapshots, Contents, Ops, Kinds, PCs
  <2>2. LockInv'
    BY <1>10 DEF Reload, SameVersion, GoTo, TypeOK, LockInv, StepInv, Holds
  <2>3. StepInv'
    BY <1>10 DEF Reload, SameVersion, GoTo, TypeOK, StepInv, Ops, Kinds
  <2>4. DraftInv'
    BY <1>10, StoresExist DEF Reload, SameVersion, GoTo, TypeOK, LockInv,
           StepInv, DraftInv, Holds, Snapshots, Ops, VersionInv, LoadedStore,
           Exists
  <2>5. VersionInv'
    BY <1>10 DEF Reload, SameVersion, GoTo, TypeOK, LockInv, StepInv,
           DraftInv, VersionInv, Tracks, Holds, Snapshots, Exists
  <2> QED BY <2>1, <2>2, <2>3, <2>4, <2>5
<1>11. ASSUME NEW t \in Threads, Open(t) PROVE IndexInv'
  <2>1. TypeOK'
    <3>1. local' \in [Threads -> Snapshots]
      BY <1>11 DEF Open, TypeOK
    <3>2. pc' \in [Threads -> PCs]
      BY <1>11 DEF Open, GoTo, TypeOK, PCs
    <3> QED BY <1>11, <3>1, <3>2 DEF Open, TypeOK
  <2>2. LockInv'
    BY <1>11 DEF Open, GoTo, Exists, TypeOK, LockInv, StepInv, Holds
  <2>3. StepInv'
    BY <1>11 DEF Open, GoTo, Exists, TypeOK, StepInv, Ops, Kinds
  <2>4. DraftInv'
    BY <1>11, StoresExist DEF Open, GoTo, Exists, TypeOK, LockInv, StepInv,
           DraftInv, Holds, Snapshots, Ops, LoadedStore
  <2>5. VersionInv'
    BY <1>11 DEF Open, GoTo, Exists, TypeOK, LockInv, StepInv, DraftInv,
           VersionInv, Tracks, Holds, Snapshots
  <2> QED BY <2>1, <2>2, <2>3, <2>4, <2>5
<1>12. ASSUME NEW t \in Threads, RecheckFound(t) PROVE IndexInv'
  <2>1. TypeOK'
    BY <1>12 DEF RecheckFound, Exists, GoTo, Unlock, TypeOK, StepInv,
           DraftInv, Snapshots, Contents, Ops, Kinds, PCs
  <2>2. LockInv'
    BY <1>12 DEF RecheckFound, Exists, GoTo, Unlock, TypeOK, LockInv, StepInv,
           Holds
  <2>3. StepInv'
    BY <1>12 DEF RecheckFound, Exists, GoTo, Unlock, TypeOK, StepInv, Ops,
           Kinds
  <2>4. DraftInv'
    BY <1>12, StoresExist DEF RecheckFound, Exists, GoTo, Unlock, TypeOK,
           LockInv, StepInv, DraftInv, Holds, Snapshots, Ops, LoadedStore
  <2>5. VersionInv'
    BY <1>12 DEF RecheckFound, Exists, GoTo, Unlock, TypeOK, LockInv, StepInv,
           DraftInv, VersionInv, Tracks, Holds, Snapshots
  <2> QED BY <2>1, <2>2, <2>3, <2>4, <2>5
<1>13. ASSUME NEW t \in Threads, RecheckMissing(t) PROVE IndexInv'
  <2>1. TypeOK'
    BY <1>13, FullBuildType DEF RecheckMissing, Exists, GoTo, Draft,
           InitialBuild, TypeOK, StepInv, DraftInv, Snapshots, Ops, Kinds, PCs
  <2>2. LockInv'
    BY <1>13 DEF RecheckMissing, Exists, GoTo, Draft, InitialBuild, TypeOK,
           LockInv, StepInv, Holds
  <2>3. StepInv'
    BY <1>13 DEF RecheckMissing, Exists, GoTo, Draft, InitialBuild, TypeOK,
           StepInv, Ops, Kinds
  <2>4. DraftInv'
    BY <1>13, FullBuildType, StoresExist DEF RecheckMissing, Exists, GoTo,
           Draft, InitialBuild, TypeOK, LockInv, StepInv, DraftInv, Holds,
           Snapshots, Ops, Kinds, LoadedStore
  <2>5. VersionInv'
    BY <1>13 DEF RecheckMissing, Exists, GoTo, Draft, InitialBuild, TypeOK,
           LockInv, StepInv, DraftInv, VersionInv, Tracks, Holds, Snapshots
  <2> QED BY <2>1, <2>2, <2>3, <2>4, <2>5
<1>14. ASSUME NEW t \in Threads, Merge(t) PROVE IndexInv'
  <2>1. TypeOK'
    BY <1>14, LoadedStoreType, UpsertType DEF Merge, GoTo, Draft, TypeOK,
           StepInv, DraftInv, Snapshots, Ops, Kinds, PCs
  <2>2. LockInv'
    BY <1>14 DEF Merge, GoTo, Draft, TypeOK, LockInv, StepInv, Holds
  <2>3. StepInv'
    BY <1>14 DEF Merge, GoTo, Draft, TypeOK, StepInv, Ops, Kinds
  <2>4. DraftInv'
    BY <1>14, LoadedStoreType, UpsertType, StoresExist DEF Merge, GoTo, Draft,
           TypeOK, LockInv, StepInv, DraftInv, Holds, Snapshots, Ops,
           LoadedStore, Exists
  <2>5. VersionInv'
    BY <1>14 DEF Merge, GoTo, Draft, TypeOK, LockInv, StepInv, DraftInv,
           VersionInv, Tracks, Holds, Snapshots, Exists
  <2> QED BY <2>1, <2>2, <2>3, <2>4, <2>5
<1>15. ASSUME NEW t \in Threads, WriteTemporary(t) PROVE IndexInv'
  <2>1. TypeOK'
    BY <1>15 DEF WriteTemporary, CanLock, GoTo, TypeOK, StepInv, DraftInv,
           Snapshots, Contents, Ops, Kinds, PCs
  <2>2. LockInv'
    BY <1>15 DEF WriteTemporary, CanLock, GoTo, TypeOK, LockInv, StepInv,
           Holds
  <2>3. StepInv'
    BY <1>15 DEF WriteTemporary, CanLock, GoTo, TypeOK, StepInv, Ops, Kinds
  <2>4. DraftInv'
    BY <1>15, StoresExist DEF WriteTemporary, CanLock, GoTo, TypeOK, LockInv,
           StepInv, DraftInv, Holds, Snapshots, Ops, LoadedStore, Exists
  <2>5. VersionInv'
    BY <1>15 DEF WriteTemporary, CanLock, GoTo, TypeOK, LockInv, StepInv,
           DraftInv, VersionInv, Tracks, Holds, Snapshots, Exists
  <2> QED BY <2>1, <2>2, <2>3, <2>4, <2>5
<1>16. ASSUME NEW t \in Threads, Replace(t) PROVE IndexInv'
  <2>1. TypeOK'
    <3>1. local' \in [Threads -> Snapshots]
      BY <1>16 DEF Replace, TypeOK, Snapshots, DraftInv
    <3>2. pc' \in [Threads -> PCs]
      BY <1>16 DEF Replace, GoTo, TypeOK, PCs
    <3> QED BY <1>16, <3>1, <3>2 DEF Replace, Unlock, TypeOK, Snapshots, DraftInv
  <2>2. LockInv'
    BY <1>16 DEF Replace, Unlock, GoTo, TypeOK, LockInv, StepInv, Holds
  <2>3. StepInv'
    BY <1>16 DEF Replace, Unlock, GoTo, TypeOK, StepInv, Ops, Kinds
  <2>4. DraftInv'
    BY <1>16, StoresExist DEF Replace, Unlock, GoTo, TypeOK, LockInv, StepInv,
           DraftInv, Holds, Snapshots, Ops, LoadedStore, Exists
  <2>5. VersionInv'
    BY <1>16, StoresExist DEF Replace, Unlock, GoTo, TypeOK, LockInv, StepInv,
           DraftInv, VersionInv, Tracks, Holds, Snapshots, Exists
  <2> QED BY <2>1, <2>2, <2>3, <2>4, <2>5
<1>17. ASSUME NEW t \in Threads, Publish(t) PROVE IndexInv'
  <2>1. TypeOK'
    BY <1>17 DEF Publish, Unlock, GoTo, TypeOK, StepInv, DraftInv, Snapshots,
           Exists, Ops, Kinds, PCs
  <2>2. LockInv'
    BY <1>17 DEF Publish, Unlock, GoTo, TypeOK, LockInv, StepInv, Holds
  <2>3. StepInv'
    BY <1>17 DEF Publish, Unlock, GoTo, TypeOK, StepInv, Ops, Kinds
  <2>4. DraftInv'
    BY <1>17, StoresExist DEF Publish, Unlock, GoTo, TypeOK, LockInv, StepInv,
           DraftInv, Holds, Snapshots, Ops, LoadedStore, Exists
  <2>5. VersionInv'
    BY <1>17, StoresExist DEF Publish, Unlock, GoTo, TypeOK, LockInv, StepInv,
           DraftInv, VersionInv, Tracks, Holds, Snapshots, Exists
  <2> QED BY <2>1, <2>2, <2>3, <2>4, <2>5
<1>18. ASSUME NEW t \in Threads, Return(t) PROVE IndexInv'
  <2>1. TypeOK'
    BY <1>18 DEF Return, Stop, NoSnapshot, Draft, NoOp, TypeOK, StepInv,
           DraftInv, Snapshots, Contents, Ops, Kinds, PCs
  <2>2. LockInv'
    BY <1>18 DEF Return, Stop, NoSnapshot, Draft, NoOp, TypeOK, LockInv,
           StepInv, Holds
  <2>3. StepInv'
    BY <1>18 DEF Return, Stop, NoSnapshot, Draft, NoOp, TypeOK, StepInv, Ops,
           Kinds
  <2>4. DraftInv'
    BY <1>18, StoresExist DEF Return, Stop, NoSnapshot, Draft, NoOp, TypeOK,
           LockInv, StepInv, DraftInv, Holds, Snapshots, Ops, LoadedStore,
           Exists
  <2>5. VersionInv'
    BY <1>18 DEF Return, Stop, NoSnapshot, Draft, NoOp, TypeOK, LockInv,
           StepInv, DraftInv, VersionInv, Tracks, Holds, Snapshots, Exists
  <2> QED BY <2>1, <2>2, <2>3, <2>4, <2>5
<1>19. ASSUME NEW t \in Threads, Fail(t) PROVE IndexInv'
  <2>1. TypeOK'
    BY <1>19 DEF Fail, Unlock, Stop, NoSnapshot, Draft, NoOp, TypeOK, StepInv,
           DraftInv, Snapshots, Contents, Ops, Kinds, PCs
  <2>2. LockInv'
    BY <1>19 DEF Fail, Unlock, Stop, NoSnapshot, Draft, NoOp, TypeOK, LockInv,
           StepInv, Holds
  <2>3. StepInv'
    BY <1>19 DEF Fail, Unlock, Stop, NoSnapshot, Draft, NoOp, TypeOK, StepInv,
           Ops, Kinds
  <2>4. DraftInv'
    BY <1>19, StoresExist DEF Fail, Unlock, Stop, NoSnapshot, Draft, NoOp,
           TypeOK, LockInv, StepInv, DraftInv, Holds, Snapshots, Ops,
           LoadedStore, Exists
  <2>5. VersionInv'
    BY <1>19 DEF Fail, Unlock, Stop, NoSnapshot, Draft, NoOp, TypeOK, LockInv,
           StepInv, DraftInv, VersionInv, Tracks, Holds, Snapshots, Exists
  <2> QED BY <2>1, <2>2, <2>3, <2>4, <2>5
<1>20. ASSUME NEW t \in Threads, CrashCli(t) PROVE IndexInv'
  <2>1. TypeOK'
    BY <1>20 DEF CrashCli, CrashOf, Stop, NoSnapshot, Draft, NoOp, TypeOK,
           StepInv, DraftInv, Snapshots, Contents, Ops, Kinds, PCs
  <2>2. LockInv'
    BY <1>20 DEF CrashCli, CrashOf, Stop, NoSnapshot, Draft, NoOp, TypeOK,
           LockInv, StepInv, Holds
  <2>3. StepInv'
    BY <1>20 DEF CrashCli, CrashOf, Stop, NoSnapshot, Draft, NoOp, TypeOK,
           StepInv, Ops, Kinds
  <2>4. DraftInv'
    BY <1>20, StoresExist DEF CrashCli, CrashOf, Stop, NoSnapshot, Draft,
           NoOp, TypeOK, LockInv, StepInv, DraftInv, Holds, Snapshots, Ops,
           LoadedStore, Exists
  <2>5. VersionInv'
    BY <1>20 DEF CrashCli, CrashOf, Stop, NoSnapshot, Draft, NoOp, TypeOK,
           LockInv, StepInv, DraftInv, VersionInv, Tracks, Holds, Snapshots,
           Exists
  <2> QED BY <2>1, <2>2, <2>3, <2>4, <2>5
<1>21. ASSUME NEW w \in Workers, CrashWorker(w) PROVE IndexInv'
  <2>1. TypeOK'
    BY <1>21 DEF CrashWorker, CrashOf, Stop, NoSnapshot, Draft, NoOp,
           ThreadsOf, TypeOK, StepInv, DraftInv, Snapshots, Contents, Ops,
           Kinds, PCs
  <2>2. LockInv'
    BY <1>21 DEF CrashWorker, CrashOf, Stop, NoSnapshot, Draft, NoOp,
           ThreadsOf, TypeOK, LockInv, StepInv, Holds
  <2>3. StepInv'
    BY <1>21 DEF CrashWorker, CrashOf, Stop, NoSnapshot, Draft, NoOp,
           ThreadsOf, TypeOK, StepInv, Ops, Kinds
  <2>4. DraftInv'
    BY <1>21, StoresExist DEF CrashWorker, CrashOf, Stop, NoSnapshot, Draft,
           NoOp, ThreadsOf, TypeOK, LockInv, StepInv, DraftInv, Holds,
           Snapshots, Ops, LoadedStore, Exists
  <2>5. VersionInv'
    BY <1>21 DEF CrashWorker, CrashOf, Stop, NoSnapshot, Draft, NoOp,
           ThreadsOf, TypeOK, LockInv, StepInv, DraftInv, VersionInv, Tracks,
           Holds, Snapshots, Exists
  <2> QED BY <2>1, <2>2, <2>3, <2>4, <2>5
<1>22. CASE UNCHANGED vars
  BY <1>22 DEF vars, TypeOK, LockInv, StepInv, DraftInv, VersionInv, Tracks, Holds,
         Exists, LoadedStore
<1> QED BY <1>1, <1>2, <1>3, <1>4, <1>5, <1>6, <1>7, <1>8, <1>9, <1>10, <1>11, <1>12,
           <1>13, <1>14, <1>15, <1>16, <1>17, <1>18, <1>19, <1>20, <1>21, <1>22 DEF Next, Calls, Steps

\* The invariant holds in every reachable state.
THEOREM IndexInvariant == Spec => []IndexInv
BY InitIndexInv, NextIndexInv, PTL DEF Spec

-----------------------------------------------------------------------------
(* What the invariant gives.                                               *)

\* Every variable keeps its type and a started worker serves a loaded store.
THEOREM TypeCorrect == Spec => []TypeOK
<1>1. IndexInv => TypeOK
  BY DEF IndexInv
<1> QED BY <1>1, IndexInvariant, PTL

\* When no two saves share a timestamp, a worker whose cached version is the
\* version of the file serves the contents of the file: the lock-free path of
\* AgentSnapshots.get never answers from an index somebody has replaced.
THEOREM CacheIsCurrent ==
  ASSUME ~CoarseClock PROVE Spec => []CachedVersionIsCurrent
<1>1. IndexInv => CachedVersionIsCurrent
  BY DEF IndexInv, VersionInv, Tracks, CachedVersionIsCurrent, SameVersion
<1> QED BY <1>1, IndexInvariant, PTL

\* Only os.replace moves a thread from the temporary to the end of its save.
LEMMA OnlyReplaceCommits ==
  ASSUME IndexInv, [Next]_vars, NEW t \in Threads, Commits(t) PROVE Replace(t)
<1> USE DEF Commits, IndexInv, TypeOK
<1>1. ASSUME NEW u \in Threads, Calls(u) PROVE FALSE
  BY <1>1 DEF Calls, StartBoot, StartQuery, StartEnsure, StartUpdate, StartRebuild,
              Begin, GoTo
<1>2. ASSUME NEW u \in Threads, Steps(u) PROVE Replace(t)
  BY <1>2 DEF Steps, Acquire, TimeOut, Stat, ReloadNotNeeded, Reload, Open, RecheckFound,
              RecheckMissing, Merge, WriteTemporary, Replace, Publish, Return, GoTo, Stop
<1>3. ASSUME NEW u \in Threads, Fail(u) \/ CrashCli(u) PROVE FALSE
  BY <1>3 DEF Fail, CrashCli, CrashOf, Stop
<1>4. ASSUME NEW w \in Workers, CrashWorker(w) PROVE FALSE
  BY <1>4 DEF CrashWorker, CrashOf, Stop
<1>5. CASE UNCHANGED vars
  BY <1>5 DEF vars
<1> QED BY <1>1, <1>2, <1>3, <1>4, <1>5 DEF Next

\* An incremental update commits the merge of its batch into the file as it is
\* at that moment, whatever other workers and processes did meanwhile.
THEOREM UpdatesAreNotLost == Spec => NoLostUpdate
<1>1. IndexInv /\ [Next]_vars => [NoLostUpdateStep]_vars
  <2> SUFFICES ASSUME IndexInv, [Next]_vars, NEW t \in Threads, Commits(t),
                      op[t].kind \in {"ingest", "update"}
               PROVE  /\ file'.content # Missing
                      /\ \A s \in Sources : file'.content[s] =
                           (IF s \in op[t].batch THEN op[t].id
                            ELSE IF Exists THEN file.content[s] ELSE Absent)
    BY DEF NoLostUpdateStep
  <2>1. Replace(t)
    BY OnlyReplaceCommits
  <2>2. file'.content = UpsertSources(LoadedStore, op[t].batch, op[t].id)
    BY <2>1 DEF Replace, IndexInv, DraftInv
  <2>3. file'.content \in Contents
    BY <2>1 DEF Replace, IndexInv, DraftInv
  <2> QED BY <2>2, <2>3, StoresExist DEF UpsertSources, LoadedStore
<1> QED BY <1>1, IndexInvariant, PTL DEF NoLostUpdate, Spec

\* The build of a missing index reaches the file only while there is none.
THEOREM InitialBuildIsSafe == Spec => InitialBuildNeverOverwrites
<1>1. IndexInv /\ [Next]_vars => [InitialBuildStep]_vars
  BY OnlyReplaceCommits DEF InitialBuildStep, IndexInv, DraftInv, Commits
<1> QED BY <1>1, IndexInvariant, PTL DEF InitialBuildNeverOverwrites, Spec

\* No worker ever returns to an older index.
THEOREM PublicationIsMonotonic == Spec => NoStalePublication
<1>1. IndexInv /\ [Next]_vars => [NoStalePublicationStep]_vars
  <2> SUFFICES ASSUME IndexInv, [Next]_vars, NEW v \in Workers, v \in up, v \in up'
               PROVE  state'[v].stamp >= state[v].stamp
    BY DEF NoStalePublicationStep
  <2> USE DEF IndexInv, TypeOK, Snapshots
  <2>1. CASE UNCHANGED state
    BY <2>1
  <2>2. ASSUME NEW t \in Threads, Publish(t) PROVE state'[v].stamp >= state[v].stamp
    BY <2>2 DEF Publish, DraftInv, VersionInv, Tracks
  <2>3. ASSUME NEW w \in Workers, CrashWorker(w) PROVE state'[v].stamp >= state[v].stamp
    BY <2>3 DEF CrashWorker
  <2>4. ASSUME NEW t \in Threads, Calls(t) PROVE UNCHANGED state
    BY <2>4 DEF Calls, StartBoot, StartQuery, StartEnsure, StartUpdate, StartRebuild, Begin
  <2>5. ASSUME NEW t \in Threads, Steps(t) PROVE Publish(t) \/ UNCHANGED state
    BY <2>5 DEF Steps, Acquire, TimeOut, Stat, ReloadNotNeeded, Reload, Open, RecheckFound,
                RecheckMissing, Merge, WriteTemporary, Replace, Return
  <2>6. ASSUME NEW t \in Threads, Fail(t) \/ CrashCli(t) PROVE UNCHANGED state
    BY <2>6 DEF Fail, CrashCli
  <2> QED BY <2>1, <2>2, <2>3, <2>4, <2>5, <2>6 DEF Next, vars
<1> QED BY <1>1, IndexInvariant, PTL DEF NoStalePublication, Spec

-----------------------------------------------------------------------------
(* The index is an atomic register.                                        *)

\* The register starts empty and idle.
LEMMA InitRegister == Init => Register!Init
BY DEF Init, Register!Init, NoSnapshot, Draft, NoOp, Register!NoCall, Phase, Answer

\* A call that begins is one the register has started.
LEMMA BeginIsStart ==
  ASSUME TypeOK, NEW t \in Threads, NEW kind \in Kinds, NEW batch \in SUBSET Sources,
         NEW id \in 0..MaxWrites, NEW label \in {"stat", "wait", "open", "save"},
         Begin(t, kind, batch, id, label),
         \A u \in Threads \ {t} : local'[u] = local[u]
  PROVE  Register!Start(t)
<1> DEFINE c == [kind |-> kind, batch |-> batch, id |-> id]
<1> USE DEF TypeOK, Begin, GoTo, Phase, Answer
<1>1. c \in Register!Calls
  BY DEF Kinds, Register!Calls, Register!WriteKinds, Register!ReadKinds
<1>2. op' = [op EXCEPT ![t] = c]
  OBVIOUS
<1>3. [u \in Threads |-> Phase(u)]' = [[u \in Threads |-> Phase(u)] EXCEPT ![t] = "open"]
  OBVIOUS
<1>4. [u \in Threads |-> Answer(u)]' = [[u \in Threads |-> Answer(u)] EXCEPT ![t] = Missing]
  OBVIOUS
<1>5. Phase(t) = "idle" /\ UNCHANGED file.content
  OBVIOUS
<1> QED BY <1>1, <1>2, <1>3, <1>4, <1>5 DEF Register!Start

\* Every step of the file, the lock and the caches is a step of the register or
\* leaves it alone: a call takes effect in the step that loads or replaces the
\* file, or in the stat that finds the cached version current.
LEMMA NextRegister ==
  ASSUME ~CoarseClock, IndexInv, [Next]_vars
  PROVE  [Register!Next]_(Register!vars)
<1> USE DEF IndexInv, TypeOK, Register!vars, Phase, Answer
<1>1. ASSUME NEW t \in Threads, StartBoot(t) PROVE Register!Start(t)
  BY <1>1, BeginIsStart DEF StartBoot, Kinds, InitialBuild
<1>2. ASSUME NEW t \in Threads, StartQuery(t) PROVE Register!Start(t)
  BY <1>2, BeginIsStart DEF StartQuery, Kinds
<1>3. ASSUME NEW t \in Threads, StartEnsure(t) PROVE Register!Start(t)
  BY <1>3, BeginIsStart DEF StartEnsure, Kinds, InitialBuild
<1>4. ASSUME NEW t \in Threads, StartUpdate(t) PROVE Register!Start(t)
  BY <1>4, BeginIsStart DEF StartUpdate, Kinds
<1>5. ASSUME NEW t \in Threads, StartRebuild(t) PROVE Register!Start(t)
  BY <1>5, BeginIsStart DEF StartRebuild, Kinds
<1>6. ASSUME NEW t \in Threads, TimeOut(t) PROVE Register!End({t})
  BY <1>6 DEF TimeOut, WaitsForLock, Stop, NoSnapshot, Draft, NoOp,
           Register!End, Register!NoCall
<1>7. ASSUME NEW t \in Threads, Return(t) PROVE Register!End({t})
  BY <1>7 DEF Return, Stop, NoSnapshot, Draft, NoOp, Register!End,
           Register!NoCall
<1>8. ASSUME NEW t \in Threads, Fail(t) PROVE Register!End({t})
  BY <1>8 DEF Fail, Stop, NoSnapshot, Draft, NoOp, Register!End,
           Register!NoCall
<1>9. ASSUME NEW t \in Threads, CrashCli(t) PROVE Register!End({t})
  BY <1>9 DEF CrashCli, CrashOf, Stop, NoSnapshot, Draft, NoOp, Register!End,
           Register!NoCall
<1>10. ASSUME NEW w \in Workers, CrashWorker(w) PROVE Register!End(ThreadsOf(w))
  BY <1>10 DEF ThreadsOf, CrashWorker, CrashOf, Stop, NoSnapshot, Draft, NoOp,
           Register!End, Register!NoCall
<1>11. ASSUME NEW t \in Threads, Acquire(t) PROVE UNCHANGED Register!vars
  BY <1>11 DEF Acquire, FirstStep, GoTo, StepInv
<1>12. ASSUME NEW t \in Threads, RecheckMissing(t) PROVE UNCHANGED Register!vars
  BY <1>12 DEF RecheckMissing, GoTo, StepInv
<1>13. ASSUME NEW t \in Threads, Merge(t) PROVE UNCHANGED Register!vars
  BY <1>13 DEF Merge, GoTo, StepInv
<1>14. ASSUME NEW t \in Threads, WriteTemporary(t) PROVE UNCHANGED Register!vars
  BY <1>14 DEF WriteTemporary, GoTo, StepInv
<1>15. ASSUME NEW t \in Threads, Publish(t) PROVE UNCHANGED Register!vars
  BY <1>15 DEF Publish, GoTo, StepInv
<1>16. ASSUME NEW t \in Threads, Stat(t) PROVE Register!TakeEffect(t) \/ UNCHANGED Register!vars
  BY <1>16 DEF Stat, GoTo, SameVersion, StepInv, VersionInv, Tracks,
           Register!TakeEffect, Register!Effect, Register!ReadKinds
<1>17. ASSUME NEW t \in Threads, ReloadNotNeeded(t) PROVE Register!TakeEffect(t)
  BY <1>17 DEF ReloadNotNeeded, GoTo, SameVersion, StepInv, VersionInv,
           Tracks, Register!TakeEffect, Register!Effect, Register!ReadKinds
<1>18. ASSUME NEW t \in Threads, Reload(t) PROVE Register!TakeEffect(t)
  BY <1>18 DEF Reload, GoTo, StepInv, Register!TakeEffect, Register!Effect,
           Register!ReadKinds
<1>19. ASSUME NEW t \in Threads, Open(t) PROVE Register!TakeEffect(t) \/ UNCHANGED Register!vars
  BY <1>19 DEF Open, Exists, GoTo, StepInv, Register!TakeEffect,
           Register!Effect, Register!ReadKinds
<1>20. ASSUME NEW t \in Threads, RecheckFound(t) PROVE Register!TakeEffect(t)
  BY <1>20 DEF RecheckFound, Exists, GoTo, StepInv, Register!TakeEffect,
           Register!Effect, Register!ReadKinds
<1>21. ASSUME NEW t \in Threads, Replace(t) PROVE Register!TakeEffect(t)
  <2> USE <1>21 DEF Replace, GoTo, StepInv, DraftInv, Register!ReadKinds
  <2>1. file'.content = Register!Effect(op[t])
    <3>1. CASE op[t].kind \in {"ingest", "update"}
      BY <3>1 DEF Register!Effect, Register!Upsert, UpsertSources, LoadedStore, Exists,
                  Absent, Register!Absent
    <3>2. CASE op[t].kind \in {"boot", "ensure", "rebuild"}
      BY <3>2 DEF Register!Effect, Register!FullBuild, FullBuild, Exists,
                  Absent, Register!Absent
    <3> QED BY <3>1, <3>2 DEF Ops, Kinds
  <2>2. [u \in Threads |-> Phase(u)]' = [[u \in Threads |-> Phase(u)] EXCEPT ![t] = "done"]
    OBVIOUS
  <2>3. [u \in Threads |-> Answer(u)]' =
          IF op[t].kind \in Register!ReadKinds
            THEN [[u \in Threads |-> Answer(u)] EXCEPT ![t] = file'.content]
            ELSE [u \in Threads |-> Answer(u)]
    OBVIOUS
  <2> QED BY <2>1, <2>2, <2>3 DEF Register!TakeEffect
<1>22. CASE UNCHANGED vars
  BY <1>22 DEF vars
<1>23. ASSUME NEW t \in Threads, Calls(t) PROVE Register!Next
  BY <1>23, <1>1, <1>2, <1>3, <1>4, <1>5 DEF Calls, Register!Next
<1>24. ASSUME NEW t \in Threads, Steps(t) PROVE Register!Next \/ UNCHANGED Register!vars
  BY <1>24, <1>6, <1>7, <1>11, <1>12, <1>13, <1>14, <1>15, <1>16, <1>17,
           <1>18, <1>19, <1>20, <1>21
     DEF Steps, Register!Next
<1>25. ASSUME NEW t \in Threads, Fail(t) \/ CrashCli(t) PROVE Register!Next
  BY <1>25, <1>8, <1>9 DEF Register!Next
<1>26. ASSUME NEW w \in Workers, CrashWorker(w) PROVE Register!Next
  BY <1>26, <1>10 DEF Register!Next, ThreadsOf
<1> QED BY <1>22, <1>23, <1>24, <1>25, <1>26 DEF Next

\* The file, the lock and the caches implement the atomic register: every query,
\* ingestion, rebuild and start takes effect at one moment of its call.
THEOREM IndexIsARegister ==
  ASSUME ~CoarseClock PROVE Spec => ImplementsRegister
<1>1. IndexInv /\ [Next]_vars => [Register!Next]_(Register!vars)
  BY NextRegister
<1> QED BY <1>1, InitRegister, IndexInvariant, PTL
           DEF Spec, ImplementsRegister, Register!Spec
=============================================================================
