----------------------- MODULE ReconcilerCacheProofs ------------------------
(***************************************************************************)
(* What an informer cache that is behind may still be trusted with, and    *)
(* what follows from that alone, in every environment: a                   *)
(* WorkloadDependency that is gone does no harm, one that only observes    *)
(* never acts, and what has been admitted has no cycle.                    *)
(***************************************************************************)
EXTENDS ReconcilerTypeProofs
-----------------------------------------------------------------------------
(***************************************************************************)
(* The caches and the resourceVersions.                                    *)
(***************************************************************************)

\* A copy with the current resourceVersion is a copy of the current object.
FreshIsCurrent == \A w \in WDs : fresh[w] => wdCache[w] = wd[w]
LevelIsCurrent == \A x \in Workloads : level[x] => workloadCache[x] = workload[x]

\* A job that will succeed in removing the finalizer removes that of an object that
\* is being deleted, and the cache already knows that it is.
RemovesDeleted ==
  job # Idle /\ job.step = "unfinalize" /\ job.current
    => wd[job.wd].deleting /\ wdCache[job.wd].deleting

\* What the cache holds as admitted exists, with its finalizer, in the API server.
AdmittedExists == \A w \in WDs : Admitted(w) => wd[w].exists /\ wd[w].finalizer

CacheInv == FreshIsCurrent /\ LevelIsCurrent /\ RemovesDeleted /\ AdmittedExists

\* Ageing a status leaves its phase alone, and no clock that has not been started starts.
LEMMA AgeingKeeps ==
  ASSUME NEW w \in WDs, NEW s \in Status
  PROVE  /\ OlderStatus(w, s).phase = s.phase
         /\ s.degradedSince = Nil => OlderStatus(w, s).degradedSince = Nil
         /\ s.healthySince = Nil => OlderStatus(w, s).healthySince = Nil
         /\ s.suspendedAt = Nil => OlderStatus(w, s).suspendedAt = Nil
<1>1. /\ OlderStatus(w, s).phase = s.phase
      /\ OlderStatus(w, s).degradedSince = Older(s.degradedSince, degradedWindow(w))
      /\ OlderStatus(w, s).healthySince = Older(s.healthySince, recoveryWindow(w))
      /\ OlderStatus(w, s).suspendedAt = Older(s.suspendedAt, MaxSuspend[w])
  BY DEF OlderStatus, Status
<1> QED BY <1>1 DEF Older

\* The passing of time ages the status of an object and changes nothing else of it, in
\* the API server and in the cache.
LEMMA TickKeeps ==
  ASSUME TypeOK, Tick, NEW w \in WDs
  PROVE  /\ wd'[w].exists = wd[w].exists /\ wd'[w].finalizer = wd[w].finalizer
         /\ wd'[w].deleting = wd[w].deleting /\ wd'[w].mode = wd[w].mode
         /\ wd'[w].status = OlderStatus(w, wd[w].status)
         /\ wdCache'[w].exists = wdCache[w].exists
         /\ wdCache'[w].finalizer = wdCache[w].finalizer
         /\ wdCache'[w].deleting = wdCache[w].deleting
<1>1. /\ wd'[w] = [wd[w] EXCEPT !.status = OlderStatus(w, @)]
      /\ wdCache'[w] = [wdCache[w] EXCEPT !.status = OlderStatus(w, @)]
  BY DEF Tick
<1>2. wd[w] \in WD /\ wdCache[w] \in WD BY DEF TypeOK
<1>3. /\ wd'[w].exists = wd[w].exists /\ wd'[w].finalizer = wd[w].finalizer
      /\ wd'[w].deleting = wd[w].deleting /\ wd'[w].mode = wd[w].mode
      /\ wd'[w].status = OlderStatus(w, wd[w].status)
  BY <1>1, <1>2 DEF WD
<1>4. /\ wdCache'[w].exists = wdCache[w].exists
      /\ wdCache'[w].finalizer = wdCache[w].finalizer
      /\ wdCache'[w].deleting = wdCache[w].deleting
  BY <1>1, <1>2 DEF WD
<1> QED BY <1>3, <1>4

\* At first the caches are level.
LEMMA InitCache == Init => CacheInv
<1> SUFFICES ASSUME Init PROVE CacheInv OBVIOUS
<1>1. FreshIsCurrent /\ LevelIsCurrent BY Zenon DEF Init, FreshIsCurrent, LevelIsCurrent
<1>2. RemovesDeleted BY Zenon DEF Init, RemovesDeleted
<1>3. AdmittedExists BY Zenon DEF Init, AdmittedExists, Admitted
<1> QED BY <1>1, <1>2, <1>3 DEF CacheInv

\* A patch marks the workload it changes.
LEMMA PatchLevel ==
  ASSUME TypeOK, LevelIsCurrent, UNCHANGED workloadCache,
         NoPatch \/ \E x \in Workloads, n \in Nat : Patch(x, n)
  PROVE  LevelIsCurrent'
<1>1. CASE NoPatch BY <1>1 DEF NoPatch, LevelIsCurrent
<1>2. CASE \E x \in Workloads, n \in Nat : Patch(x, n)
  <2>1. PICK x \in Workloads, n \in Nat : Patch(x, n) BY <1>2
  <2>2. CASE NoPatch BY <1>1, <2>2
  <2>3. CASE /\ workload' = [workload EXCEPT ![x].replicas = n]
             /\ level' = [level EXCEPT ![x] = FALSE]
    BY <2>3 DEF LevelIsCurrent, TypeOK
  <2> QED BY <2>1, <2>2, <2>3 DEF Patch
<1> QED BY <1>1, <1>2

\* What a reconcile does to workloads is to patch one, or nothing.
LEMMA ReconcilePatches ==
  ASSUME TypeOK, NEW w \in WDs, Reconcile(w)
  PROVE  NoPatch \/ \E n \in Nat : Patch(Dependent[w], n)
<1>1. ASSUME NEW s \in Status, restoreWorkload(w, s)
      PROVE  NoPatch \/ \E n \in Nat : Patch(Dependent[w], n)
  BY <1>1 DEF restoreWorkload, Status
<1>2. ASSUME suspendWorkload(w)
      PROVE  NoPatch \/ \E n \in Nat : Patch(Dependent[w], n)
  BY <1>2 DEF suspendWorkload
<1>3. CASE \/ ReconcileGone(w) \/ RejectCycle(w) \/ ReconcilePaused(w) \/ DependentMissing(w)
           \/ DeferToRollout(w) \/ ReconcileObserve(w) \/ ReconcileGate(w) \/ StayReleased(w)
           \/ AwaitMaxSuspend(w) \/ StartDegraded(w) \/ AwaitWindow(w) \/ BecomeHealthy(w)
           \/ StartRecovery(w) \/ AwaitRecovery(w)
  BY <1>3 DEF ReconcileGone, RejectCycle, ReconcilePaused, DependentMissing, DeferToRollout,
              ReconcileObserve, ReconcileGate, StayReleased, AwaitMaxSuspend, StartDegraded,
              AwaitWindow, BecomeHealthy, StartRecovery, AwaitRecovery
<1>4. CASE AddFinalizer(w) BY <1>4 DEF AddFinalizer, NoPatch, historyVars
<1>5. CASE handleDeletion(w) \/ ForceRestore(w) \/ Restore(w)
  BY <1>1, <1>5, ReadTypes DEF handleDeletion, ForceRestore, Restore
<1>6. CASE handleSuspended(w) \/ Suspend(w) BY <1>2, <1>6 DEF handleSuspended, Suspend
<1> QED BY <1>3, <1>4, <1>5, <1>6 DEF Reconcile

\* The job a reconcile leaves: none, the removal of the finalizer of an object that
\* the cache holds as being deleted, or a status write.
LEMMA ReconcileJob ==
  ASSUME NEW w \in WDs, Reconcile(w)
  PROVE  /\ job = Idle
         /\ \/ job' = Idle
            \/ /\ handleDeletion(w)
               /\ job'.step = "unfinalize" /\ job'.wd = w /\ job'.current = fresh[w]
               /\ wdCache[w].deleting
            \/ /\ \E s, phase : setStatus(w, s, phase)
               /\ job'.step = "status" /\ job'.wd = w
<1>1. job = Idle BY ReconcileTakes DEF Take, AddFinalizer
<1>2. CASE AddFinalizer(w) BY <1>1, <1>2 DEF AddFinalizer
<1>3. CASE ReconcileGone(w) \/ AwaitMaxSuspend(w) \/ AwaitWindow(w) \/ AwaitRecovery(w)
  BY <1>1, <1>3 DEF ReconcileGone, AwaitMaxSuspend, AwaitWindow, AwaitRecovery
<1>4. CASE handleDeletion(w) BY <1>1, <1>4 DEF handleDeletion
<1>5. ASSUME \E s, phase : setStatus(w, s, phase)
      PROVE  job'.step = "status" /\ job'.wd = w
  BY <1>5 DEF setStatus
<1>6. CASE \/ RejectCycle(w) \/ ReconcilePaused(w) \/ DependentMissing(w)
           \/ DeferToRollout(w) \/ ReconcileObserve(w) \/ ReconcileGate(w) \/ StayReleased(w)
           \/ ForceRestore(w) \/ handleSuspended(w) \/ StartDegraded(w) \/ Suspend(w)
           \/ BecomeHealthy(w) \/ StartRecovery(w) \/ Restore(w)
  <2>1. \E s, phase : setStatus(w, s, phase)
    BY <1>6 DEF RejectCycle, ReconcilePaused, DependentMissing, DeferToRollout,
                ReconcileObserve, ReconcileGate, StayReleased, ForceRestore, handleSuspended,
                StartDegraded, Suspend, BecomeHealthy, StartRecovery, Restore
  <2> QED BY <1>1, <1>5, <2>1
<1> QED BY <1>2, <1>3, <1>4, <1>6 DEF Reconcile

\* Everybody else's write to a workload is one of Outside.
LEMMA OutsideObject ==
  ASSUME NEW x \in Workloads,
         \/ ScaleWorkload(x) \/ PodsChange(x) \/ RolloutChange(x)
         \/ DeleteWorkload(x) \/ CreateWorkload(x)
  PROVE  \E object : Outside(x, object)
BY Zenon DEF ScaleWorkload, PodsChange, RolloutChange, DeleteWorkload, CreateWorkload

\* Every step keeps the caches and the resourceVersions consistent.
LEMMA NextCache ==
  ASSUME TypeOK, CacheInv, [Next]_vars
  PROVE  CacheInv'
<1> USE DEF CacheInv
<1>1. ASSUME NEW w \in WDs, Reconcile(w) PROVE CacheInv'
  <2>1. LevelIsCurrent'
    <3>1. UNCHANGED workloadCache
      BY <1>1, ReconcileTakes DEF Take, AddFinalizer, cacheVars
    <3>2. NoPatch \/ \E n \in Nat : Patch(Dependent[w], n) BY <1>1, ReconcilePatches
    <3>3. Dependent[w] \in Workloads BY ConstantsAssumption
    <3> QED BY <3>1, <3>2, <3>3, PatchLevel
  <2>2. CASE AddFinalizer(w)
    <3>1. FreshIsCurrent' BY <2>2 DEF AddFinalizer, FreshIsCurrent, TypeOK
    <3>2. RemovesDeleted' BY <2>2 DEF AddFinalizer, RemovesDeleted
    <3>3. AdmittedExists' BY <2>2 DEF AddFinalizer, AdmittedExists, Admitted, TypeOK, WD
    <3> QED BY <2>1, <3>1, <3>2, <3>3
  <2>3. CASE Take(w)
    <3>1. wd' = wd /\ wdCache' = wdCache /\ fresh' = fresh BY <2>3 DEF Take, cacheVars
    <3>2. FreshIsCurrent' BY <3>1 DEF FreshIsCurrent
    <3>3. AdmittedExists' BY <3>1 DEF AdmittedExists, Admitted
    <3>4. RemovesDeleted'
      BY <1>1, <3>1, ReconcileJob, Zenon DEF RemovesDeleted, FreshIsCurrent
    <3> QED BY <2>1, <3>2, <3>3, <3>4
  <2> QED BY <1>1, <2>2, <2>3, ReconcileTakes
<1>2. CASE Write
  <2>1. LevelIsCurrent'
    BY <1>2 DEF Write, StatusUpdated, StatusConflict, FinalizerRemoved, WriteFailed,
                LevelIsCurrent, cacheVars
  <2>2. CASE StatusConflict \/ WriteFailed
    <3>1. wd' = wd /\ wdCache' = wdCache /\ fresh' = fresh
      BY <2>2 DEF StatusConflict, WriteFailed, cacheVars
    <3>2. FreshIsCurrent' BY <3>1 DEF FreshIsCurrent
    <3>3. AdmittedExists' BY <3>1 DEF AdmittedExists, Admitted
    <3>4. job' = Idle \/ job'.step = "status"
      BY <2>2, Zenon DEF StatusConflict, WriteFailed, TypeOK, Job
    <3>5. RemovesDeleted' BY <3>4 DEF RemovesDeleted
    <3> QED BY <2>1, <3>2, <3>3, <3>5
  <2>3. CASE StatusUpdated
    <3>1. job \in Job BY <2>3 DEF StatusUpdated, TypeOK
    <3>2. ASSUME NEW w \in WDs, fresh'[w] PROVE wdCache'[w] = wd'[w]
      <4>1. fresh[w] /\ (w = job.wd => applyFields(job) = wd[w].status)
        BY <2>3, <3>1, <3>2, Zenon DEF StatusUpdated, TypeOK, Job
      <4>2. wdCache'[w] = wd[w] BY <2>3, <4>1 DEF StatusUpdated, FreshIsCurrent
      <4>3. wd'[w] = wd[w] \/ wd'[w] = [wd[w] EXCEPT !.status = wd[w].status]
        BY <2>3, <3>1, <4>1 DEF StatusUpdated, TypeOK, Job
      <4>4. [wd[w] EXCEPT !.status = wd[w].status] = wd[w] BY DEF TypeOK, WD
      <4> QED BY <4>2, <4>3, <4>4
    <3>3. AdmittedExists'
      BY <2>3, <3>1 DEF StatusUpdated, AdmittedExists, Admitted, TypeOK, WD, Job
    <3>4. RemovesDeleted' BY <2>3 DEF StatusUpdated, RemovesDeleted
    <3> QED BY <2>1, <3>2, <3>3, <3>4 DEF FreshIsCurrent
  <2>4. CASE FinalizerRemoved
    <3>1. job \in Job BY <2>4 DEF FinalizerRemoved, TypeOK
    <3>2. wdCache[job.wd].deleting BY <2>4 DEF FinalizerRemoved, RemovesDeleted
    <3>3. FreshIsCurrent'
      BY <2>4, <3>1 DEF FinalizerRemoved, FreshIsCurrent, TypeOK, Job
    <3>4. AdmittedExists'
      BY <2>4, <3>1, <3>2 DEF FinalizerRemoved, AdmittedExists, Admitted, TypeOK, WD, Job
    <3>5. RemovesDeleted' BY <2>4 DEF FinalizerRemoved, RemovesDeleted
    <3> QED BY <2>1, <3>3, <3>4, <3>5
  <2> QED BY <1>2, <2>2, <2>3, <2>4 DEF Write
<1>3. CASE SyncWDs
  <2>1. FreshIsCurrent' /\ LevelIsCurrent'
    BY <1>3 DEF SyncWDs, FreshIsCurrent, LevelIsCurrent
  <2>2. RemovesDeleted' BY <1>3 DEF SyncWDs, RemovesDeleted
  <2>3. AdmittedExists' BY <1>3 DEF SyncWDs, AdmittedExists, Admitted
  <2> QED BY <2>1, <2>2, <2>3
<1>4. ASSUME NEW kind \in Kinds, SyncWorkloads(kind) PROVE CacheInv'
  <2>1. FreshIsCurrent' BY <1>4 DEF SyncWorkloads, FreshIsCurrent
  <2>2. LevelIsCurrent' BY <1>4, Zenon DEF SyncWorkloads, LevelIsCurrent
  <2>3. RemovesDeleted' BY <1>4 DEF SyncWorkloads, RemovesDeleted
  <2>4. AdmittedExists' BY <1>4 DEF SyncWorkloads, AdmittedExists, Admitted
  <2> QED BY <2>1, <2>2, <2>3, <2>4
<1>5. CASE Tick
  <2>1. FreshIsCurrent' BY <1>5 DEF Tick, FreshIsCurrent
  <2>2. LevelIsCurrent' BY <1>5 DEF Tick, LevelIsCurrent
  <2>3. RemovesDeleted' BY <1>5 DEF Tick, RemovesDeleted
  <2>4. AdmittedExists' BY <1>5, TickKeeps DEF AdmittedExists, Admitted
  <2> QED BY <2>1, <2>2, <2>3, <2>4
<1>6. CASE Restart
  <2>1. FreshIsCurrent' /\ LevelIsCurrent'
    BY <1>6 DEF Restart, FreshIsCurrent, LevelIsCurrent
  <2>2. RemovesDeleted' BY <1>6 DEF Restart, RemovesDeleted
  <2>3. AdmittedExists' BY <1>6 DEF Restart, AdmittedExists, Admitted
  <2> QED BY <2>1, <2>2, <2>3
<1>7. ASSUME NEW x \in Workloads, NEW object, Outside(x, object)
      PROVE  CacheInv'
  <2>1. FreshIsCurrent' BY <1>7 DEF Outside, FreshIsCurrent, cacheVars
  <2>2. LevelIsCurrent' BY <1>7 DEF Outside, LevelIsCurrent, TypeOK, cacheVars
  <2>3. RemovesDeleted' BY <1>7 DEF Outside, RemovesDeleted, cacheVars
  <2>4. AdmittedExists' BY <1>7 DEF Outside, AdmittedExists, Admitted, cacheVars
  <2> QED BY <2>1, <2>2, <2>3, <2>4
<1>8. ASSUME NEW w \in WDs, NEW object \in WD,
             wd' = [wd EXCEPT ![w] = object],
             fresh' = [fresh EXCEPT ![w] = FALSE],
             job' = IF job # Idle /\ job.wd = w THEN [job EXCEPT !.current = FALSE] ELSE job,
             UNCHANGED <<workload, workloadCache, wdCache, level>>,
             Admitted(w) => object.exists /\ object.finalizer
      PROVE  CacheInv'
  <2>1. FreshIsCurrent' BY <1>8 DEF FreshIsCurrent, TypeOK
  <2>2. LevelIsCurrent' BY <1>8 DEF LevelIsCurrent
  <2>3. RemovesDeleted'
    <3>1. CASE job = Idle BY <1>8, <3>1 DEF RemovesDeleted
    <3>2. CASE job # Idle /\ job.wd = w
      <4>1. job'.current = FALSE BY <1>8, <3>2 DEF TypeOK, Job
      <4> QED BY <4>1 DEF RemovesDeleted
    <3>3. CASE job # Idle /\ job.wd # w
      BY <1>8, <3>3 DEF RemovesDeleted, TypeOK, Job
    <3> QED BY <3>1, <3>2, <3>3
  <2>4. AdmittedExists' BY <1>8 DEF AdmittedExists, Admitted, TypeOK
  <2> QED BY <2>1, <2>2, <2>3, <2>4
<1>9. CASE Environment
  <2>1. ASSUME NEW x \in Workloads,
               \/ ScaleWorkload(x) \/ PodsChange(x) \/ RolloutChange(x)
               \/ DeleteWorkload(x) \/ CreateWorkload(x)
        PROVE  CacheInv'
    BY <1>7, <2>1, OutsideObject
  <2>2. ASSUME NEW w \in WDs, TogglePause(w) \/ EditMode(w) \/ DeleteWD(w) \/ CreateWD(w)
        PROVE  CacheInv'
    <3>1. CASE TogglePause(w)
      <4> DEFINE object == [wd[w] EXCEPT !.paused = ~@]
      <4>1. object \in WD BY Zenon DEF TypeOK, WD
      <4>2. object.exists = wd[w].exists /\ object.finalizer = wd[w].finalizer
        BY DEF TypeOK, WD
      <4> HIDE DEF object
      <4> QED
        BY <1>8, <3>1, <4>1, <4>2, Zenon DEF TogglePause, UserWrites, AdmittedExists, object
    <3>2. CASE EditMode(w)
      <4>1. PICK m \in Modes : UserWrites(w, [wd[w] EXCEPT !.mode = m])
        BY <3>2 DEF EditMode
      <4> DEFINE object == [wd[w] EXCEPT !.mode = m]
      <4>2. object \in WD
        <5>1. wd[w] \in WD /\ m \in AllModes BY ConstantsAssumption DEF TypeOK
        <5> QED BY <5>1 DEF WD
      <4>3. object.exists = wd[w].exists /\ object.finalizer = wd[w].finalizer
        BY DEF TypeOK, WD
      <4> HIDE DEF object
      <4> QED BY <1>8, <4>1, <4>2, <4>3, Zenon DEF UserWrites, AdmittedExists, object
    <3>3. CASE DeleteWD(w)
      <4> DEFINE object == IF wd[w].finalizer THEN [wd[w] EXCEPT !.deleting = TRUE]
                                              ELSE [wd[w] EXCEPT !.exists = FALSE]
      <4>1. object \in WD
        <5>1. wd[w] \in WD BY DEF TypeOK
        <5>2. [wd[w] EXCEPT !.deleting = TRUE] \in WD BY <5>1, Zenon DEF WD
        <5>3. [wd[w] EXCEPT !.exists = FALSE] \in WD BY <5>1, Zenon DEF WD
        <5> QED BY <5>2, <5>3
      <4>2. wd[w].finalizer => object.exists = wd[w].exists /\ object.finalizer
        <5>1. wd[w] \in WD BY DEF TypeOK
        <5> QED BY <5>1 DEF WD
      <4> HIDE DEF object
      <4> QED BY <1>8, <3>3, <4>1, <4>2, Zenon DEF DeleteWD, UserWrites, AdmittedExists, object
    <3>4. CASE CreateWD(w)
      <4>1. PICK m \in Modes : wd' = [wd EXCEPT ![w] = NewWD(m)] BY <3>4, Zenon DEF CreateWD
      <4>2. NewWD(m) \in WD BY NewWDType, ConstantsAssumption
      <4>3. ~Admitted(w) BY <3>4 DEF CreateWD, AdmittedExists
      <4> QED BY <1>8, <3>4, <4>1, <4>2, <4>3, Zenon DEF CreateWD
    <3> QED BY <2>2, <3>1, <3>2, <3>3, <3>4
  <2> QED BY <1>9, <2>1, <2>2 DEF Environment
<1>10. CASE UNCHANGED vars
  BY <1>10 DEF vars, FreshIsCurrent, LevelIsCurrent, RemovesDeleted, AdmittedExists, Admitted
<1> QED BY <1>1, <1>2, <1>3, <1>4, <1>5, <1>6, <1>9, <1>10 DEF Next

\* In every behaviour the caches are consistent, and what a cache holds as admitted
\* is still protected by its finalizer.
LEMMA CacheCorrect == Spec => [](TypeOK /\ CacheInv)
<1>1. Init => TypeOK /\ CacheInv BY InitType, InitCache
<1>2. TypeOK /\ CacheInv /\ [Next]_vars => (TypeOK /\ CacheInv)' BY NextType, NextCache
<1> QED BY <1>1, <1>2, PTL DEF Spec

\* Only a reconcile acts.
LEMMA OnlyReconcilesAct ==
  ASSUME NEW w \in WDs, Next, Acts(w)
  PROVE  Reconcile(w)
<1>1. job = Idle /\ job' # Idle BY DEF Acts
<1>2. ~Write /\ ~SyncWDs /\ ~Tick /\ ~Restart
  BY <1>1 DEF Write, StatusUpdated, StatusConflict, FinalizerRemoved, WriteFailed, SyncWDs,
              Tick, Restart
<1>3. ~ \E kind \in Kinds : SyncWorkloads(kind) BY <1>1 DEF SyncWorkloads
<1>4. ~Environment
  <2>1. \A x \in Workloads : ~(\/ ScaleWorkload(x) \/ PodsChange(x) \/ RolloutChange(x)
                               \/ DeleteWorkload(x) \/ CreateWorkload(x))
    BY <1>1, OutsideObject DEF Outside
  <2>2. \A u \in WDs : ~(TogglePause(u) \/ EditMode(u) \/ DeleteWD(u) \/ CreateWD(u))
    BY <1>1 DEF TogglePause, EditMode, DeleteWD, CreateWD, UserWrites
  <2> QED BY <2>1, <2>2 DEF Environment
<1>5. PICK v \in WDs : Reconcile(v) BY <1>2, <1>3, <1>4 DEF Next
<1>6. v = w BY <1>1, <1>5, ReconcileJob DEF Acts
<1> QED BY <1>5, <1>6

\* A workload is taken to zero by handleSuspended in strict mode, or by Suspend.
LEMMA EmptiesBy ==
  ASSUME TypeOK, NEW w \in WDs, Next, Empties(w)
  PROVE  handleSuspended(w) \/ Suspend(w)
<1>0. Dependent[w] \in Workloads BY ConstantsAssumption
<1>1. Reconcile(w) BY OnlyReconcilesAct DEF Empties
<1>2. ~NoPatch BY DEF Empties, NoPatch
<1>3. ASSUME NEW n \in Nat, Patch(Dependent[w], n) PROVE n = 0
  BY <1>0, <1>2, <1>3 DEF Patch, Empties, TypeOK, Workload
<1>4. ASSUME NEW s \in Status, restoreWorkload(w, s) PROVE FALSE
  BY <1>2, <1>3, <1>4 DEF restoreWorkload, Status
<1>5. wdCache[w].status \in Status BY DEF TypeOK, WD
<1>6. ~handleDeletion(w) BY <1>2, <1>4, <1>5 DEF handleDeletion
<1>7. ~AddFinalizer(w) BY <1>2 DEF AddFinalizer, NoPatch, historyVars
<1>8. ~ForceRestore(w) /\ ~Restore(w) BY <1>4, <1>5 DEF ForceRestore, Restore
<1>9. ~(\/ ReconcileGone(w) \/ RejectCycle(w) \/ ReconcilePaused(w) \/ DependentMissing(w)
        \/ DeferToRollout(w) \/ ReconcileObserve(w) \/ ReconcileGate(w) \/ StayReleased(w)
        \/ AwaitMaxSuspend(w) \/ StartDegraded(w) \/ AwaitWindow(w) \/ BecomeHealthy(w)
        \/ StartRecovery(w) \/ AwaitRecovery(w))
  BY <1>2 DEF ReconcileGone, RejectCycle, ReconcilePaused, DependentMissing, DeferToRollout,
              ReconcileObserve, ReconcileGate, StayReleased, AwaitMaxSuspend, StartDegraded,
              AwaitWindow, BecomeHealthy, StartRecovery, AwaitRecovery
<1> QED BY <1>1, <1>6, <1>7, <1>8, <1>9 DEF Reconcile

\* Both act for a WorkloadDependency that the cache holds as admitted, and because of
\* a dependency that is not ok.
LEMMA EmptiesAdmitted ==
  ASSUME TypeOK, NEW w \in WDs, Next, Empties(w)
  PROVE  Take(w) /\ Admitted(w) /\ ~allOk(w)
  BY EmptiesBy DEF handleSuspended, Suspend, Degrading, Enforce, Evaluate

\* However stale the cache, and whatever crashes and fails, no reconcile of a
\* WorkloadDependency that is gone takes its dependent to zero: a copy that still
\* shows it as admitted shows a finalizer that only handleDeletion removes, and
\* handleDeletion has seen the deletion in that same cache.
THEOREM GoneHandsOff == Spec => GoneMeansHandsOff
<1>1. TypeOK /\ CacheInv /\ [Next]_vars
        => [\A w \in WDs : Empties(w) => wd[w].exists]_vars
  <2> SUFFICES ASSUME TypeOK, CacheInv, [Next]_vars, NEW w \in WDs, Empties(w)
               PROVE  wd[w].exists
    OBVIOUS
  <2>1. Next BY DEF Empties, vars
  <2> QED BY <2>1, EmptiesAdmitted DEF CacheInv, AdmittedExists
<1> QED BY <1>1, CacheCorrect, PTL DEF Spec, GoneMeansHandsOff
-----------------------------------------------------------------------------
(***************************************************************************)
(* Observers do not act: HandsOff needs to know that no copy of an object, *)
(* and no write on its way, has a phase Suspended that a reconcile could   *)
(* act on.                                                                 *)
(***************************************************************************)

\* Users choose no mode that scales.
Observers == Modes \subseteq {"observe", "gate"}

\* Nothing is, was or will be Suspended, and every copy has a mode that does not scale.
ObserverInv ==
  /\ \A w \in WDs : /\ wd[w].mode \in Modes /\ wd[w].status.phase # "Suspended"
                    /\ wdCache[w].mode \in Modes /\ wdCache[w].status.phase # "Suspended"
  /\ job # Idle => job.phase # "Suspended"

\* A reconcile of an observer changes no workload and writes another phase than
\* Suspended.
LEMMA ReconcileObserves ==
  ASSUME TypeOK, ObserverInv, Observers, NEW w \in WDs, Reconcile(w)
  PROVE  /\ workload' = workload
         /\ job' # Idle => job'.phase # "Suspended"
<1>1. wdCache[w].mode \notin {"strict", "soft"} /\ wdCache[w].status.phase # "Suspended"
  BY DEF ObserverInv, Observers
<1>2. ~Enforce(w) BY <1>1 DEF Enforce
<1>3. ASSUME NEW s, NEW phase, phase # "Suspended", setStatus(w, s, phase)
      PROVE  job'.phase # "Suspended"
  BY <1>3 DEF setStatus
<1>4. CASE ReconcileGone(w) \/ AddFinalizer(w)
  BY <1>4 DEF ReconcileGone, AddFinalizer, NoPatch, ObserverInv
<1>5. CASE handleDeletion(w) BY <1>1, <1>5 DEF handleDeletion, NoPatch
<1>6. CASE \/ RejectCycle(w) \/ ReconcilePaused(w) \/ DependentMissing(w)
           \/ DeferToRollout(w) \/ ReconcileObserve(w) \/ ReconcileGate(w)
  <2>1. \E phase \in {"Unknown", "Paused", "Degraded", "Healthy", "Observed"} :
           setStatus(w, wdCache[w].status, phase)
    BY <1>6 DEF RejectCycle, ReconcilePaused, DependentMissing, DeferToRollout,
                ReconcileObserve, ReconcileGate
  <2>2. NoPatch
    BY <1>6 DEF RejectCycle, ReconcilePaused, DependentMissing, DeferToRollout,
                ReconcileObserve, ReconcileGate
  <2> QED BY <1>3, <2>1, <2>2 DEF NoPatch
<1>7. CASE \/ StayReleased(w) \/ ForceRestore(w) \/ AwaitMaxSuspend(w) \/ handleSuspended(w)
           \/ StartDegraded(w) \/ AwaitWindow(w) \/ Suspend(w) \/ BecomeHealthy(w)
           \/ StartRecovery(w) \/ AwaitRecovery(w) \/ Restore(w)
  BY <1>2, <1>7 DEF StayReleased, ForceRestore, AwaitMaxSuspend, handleSuspended,
                    StartDegraded, AwaitWindow, Suspend, BecomeHealthy, StartRecovery,
                    AwaitRecovery, Restore, Degrading, Recovering
<1> QED BY <1>4, <1>5, <1>6, <1>7 DEF Reconcile

\* Every step keeps ObserverInv.
LEMMA NextObserves ==
  ASSUME TypeOK, ObserverInv, Observers, [Next]_vars
  PROVE  ObserverInv'
<1> DEFINE Calmly(o) == o.mode \in Modes /\ o.status.phase # "Suspended"
<1>0. \A w \in WDs : Calmly(wd[w]) /\ Calmly(wdCache[w]) BY DEF ObserverInv
<1>1. ASSUME NEW w \in WDs, Reconcile(w) PROVE ObserverInv'
  <2>1. job' # Idle => job'.phase # "Suspended" BY <1>1, ReconcileObserves
  <2>2. wdCache' = wdCache BY <1>1, ReconcileTakes DEF Take, AddFinalizer, cacheVars
  <2>3. \A v \in WDs : wd'[v].mode = wd[v].mode /\ wd'[v].status = wd[v].status
    <3>1. CASE Take(w) BY <3>1 DEF Take
    <3>2. CASE AddFinalizer(w)
      <4>1. wd' = [wd EXCEPT ![w].finalizer = TRUE] BY <3>2 DEF AddFinalizer
      <4> QED BY <4>1 DEF TypeOK, WD
    <3> QED BY <1>1, <3>1, <3>2, ReconcileTakes
  <2> QED BY <2>1, <2>2, <2>3 DEF ObserverInv
<1>2. CASE Write
  <2>0. job \in Job
    BY <1>2 DEF Write, StatusUpdated, StatusConflict, FinalizerRemoved, WriteFailed, TypeOK
  <2>1. job # Idle /\ wdCache' = wdCache
    BY <1>2 DEF Write, StatusUpdated, StatusConflict, FinalizerRemoved, WriteFailed, cacheVars
  <2>2. job' = Idle \/ job'.phase = job.phase
    BY <1>2, <2>0, Zenon DEF Write, StatusUpdated, StatusConflict, FinalizerRemoved,
        WriteFailed, Job
  <2>3. ASSUME NEW v \in WDs PROVE Calmly(wd'[v])
    <3>1. CASE StatusUpdated
      <4>1. CASE v = job.wd
        <5>1. wd'[v] = [wd[v] EXCEPT !.status = applyFields(job)]
          BY <2>0, <3>1, <4>1 DEF StatusUpdated, TypeOK, Job
        <5>2. wd'[v].mode = wd[v].mode /\ wd'[v].status = applyFields(job)
          BY <5>1 DEF TypeOK, WD
        <5>3. applyFields(job).phase = job.phase BY DEF applyFields
        <5> QED BY <2>1, <5>2, <5>3 DEF ObserverInv
      <4>2. CASE v # job.wd
        <5>1. wd'[v] = wd[v] BY <3>1, <4>2 DEF StatusUpdated, TypeOK
        <5> QED BY <1>0, <5>1
      <4> QED BY <4>1, <4>2
    <3>2. CASE StatusConflict \/ WriteFailed
      BY <1>0, <3>2 DEF StatusConflict, WriteFailed
    <3>3. CASE FinalizerRemoved
      <4>1. wd'[v].mode = wd[v].mode /\ wd'[v].status = wd[v].status
        BY <2>0, <3>3 DEF FinalizerRemoved, TypeOK, WD, Job
      <4> QED BY <1>0, <4>1
    <3> QED BY <1>2, <3>1, <3>2, <3>3 DEF Write
  <2> QED BY <2>1, <2>2, <2>3 DEF ObserverInv
<1>3. CASE SyncWDs \/ Restart
  BY <1>0, <1>3 DEF SyncWDs, Restart, ObserverInv
<1>4. CASE \E kind \in Kinds : SyncWorkloads(kind)
  BY <1>0, <1>4 DEF SyncWorkloads, ObserverInv
<1>5. CASE Tick
  <2>1. job' = job BY <1>5 DEF Tick
  <2>2. \A v \in WDs : /\ wd'[v].mode = wd[v].mode
                       /\ wd'[v].status = OlderStatus(v, wd[v].status)
                       /\ wdCache'[v].mode = wdCache[v].mode
                       /\ wdCache'[v].status = OlderStatus(v, wdCache[v].status)
    BY <1>5 DEF Tick, TypeOK, WD
  <2>3. \A v \in WDs : \A s \in Status : OlderStatus(v, s).phase = s.phase
    BY DEF OlderStatus, Status
  <2>4. \A v \in WDs : wd[v].status \in Status /\ wdCache[v].status \in Status
    BY DEF TypeOK, WD
  <2> QED BY <2>1, <2>2, <2>3, <2>4 DEF ObserverInv
<1>6. CASE Environment
  <2>1. ASSUME NEW x \in Workloads, NEW object, Outside(x, object) PROVE ObserverInv'
    BY <1>0, <2>1 DEF Outside, ObserverInv, cacheVars
  <2>2. ASSUME NEW w \in WDs, NEW object, Calmly(object),
               wd' = [wd EXCEPT ![w] = object], wdCache' = wdCache,
               job' = IF job # Idle /\ job.wd = w THEN [job EXCEPT !.current = FALSE] ELSE job
        PROVE  ObserverInv'
    <3>1. job' = Idle \/ (job # Idle /\ job'.phase = job.phase)
      BY <2>2 DEF TypeOK, Job
    <3>2. \A v \in WDs : Calmly(wd'[v]) BY <1>0, <2>2 DEF TypeOK
    <3> QED BY <1>0, <2>2, <3>1, <3>2 DEF ObserverInv
  <2>3. ASSUME NEW w \in WDs, TogglePause(w) \/ EditMode(w) \/ DeleteWD(w) \/ CreateWD(w)
        PROVE  ObserverInv'
    <3>1. CASE TogglePause(w) \/ DeleteWD(w)
      <4>1. PICK object : /\ UserWrites(w, object)
                          /\ object.mode = wd[w].mode /\ object.status = wd[w].status
        <5>0. wd[w] \in WD BY DEF TypeOK
        <5>1. ASSUME NEW b \in BOOLEAN
              PROVE  /\ [wd[w] EXCEPT !.paused = b].mode = wd[w].mode
                     /\ [wd[w] EXCEPT !.paused = b].status = wd[w].status
                     /\ [wd[w] EXCEPT !.deleting = b].mode = wd[w].mode
                     /\ [wd[w] EXCEPT !.deleting = b].status = wd[w].status
                     /\ [wd[w] EXCEPT !.exists = b].mode = wd[w].mode
                     /\ [wd[w] EXCEPT !.exists = b].status = wd[w].status
          BY <5>0 DEF WD
        <5>2. CASE TogglePause(w) BY <5>0, <5>1, <5>2 DEF TogglePause, WD
        <5>3. CASE DeleteWD(w) BY <5>1, <5>3, Zenon DEF DeleteWD
        <5> QED BY <3>1, <5>2, <5>3
      <4> QED BY <1>0, <2>2, <4>1, Zenon DEF UserWrites
    <3>2. CASE EditMode(w)
      <4>1. PICK m \in Modes : UserWrites(w, [wd[w] EXCEPT !.mode = m])
        BY <3>2 DEF EditMode
      <4> DEFINE object == [wd[w] EXCEPT !.mode = m]
      <4>2. object.mode = m /\ object.status = wd[w].status BY DEF TypeOK, WD
      <4> HIDE DEF object
      <4> QED BY <1>0, <2>2, <4>1, <4>2, Zenon DEF UserWrites, object
    <3>3. CASE CreateWD(w)
      <4>1. PICK m \in Modes : wd' = [wd EXCEPT ![w] = NewWD(m)] BY <3>3, Zenon DEF CreateWD
      <4>2. Calmly(NewWD(m)) BY Zenon DEF NewWD, EmptyStatus
      <4> QED BY <2>2, <3>3, <4>1, <4>2, Zenon DEF CreateWD
    <3> QED BY <2>3, <3>1, <3>2, <3>3
  <2> QED BY <1>6, <2>1, <2>3, OutsideObject DEF Environment
<1>7. CASE UNCHANGED vars BY <1>7 DEF vars, ObserverInv
<1> QED BY <1>1, <1>2, <1>3, <1>4, <1>5, <1>6, <1>7 DEF Next

\* Init has ObserverInv.
LEMMA InitObserves == Init => ObserverInv
<1> SUFFICES ASSUME Init PROVE ObserverInv OBVIOUS
<1>1. PICK mode \in [WDs -> Modes] :
        wd = [w \in WDs |-> [NewWD(mode[w]) EXCEPT !.exists = "create" \notin Disturbances]]
  BY Zenon DEF Init
<1>2. \A w \in WDs : wd[w].mode \in Modes /\ wd[w].status.phase = ""
  BY <1>1, Zenon DEF NewWD, EmptyStatus
<1>3. wdCache = wd /\ job = Idle BY Zenon DEF Init
<1> QED BY <1>2, <1>3, Zenon DEF ObserverInv

\* Where users choose only observe and gate, no reconcile ever changes a workload:
\* not through a stale copy, a retried or failed write, a pause, an edit of the mode,
\* a deletion or a restart.
THEOREM ObserversHandsOff == ASSUME Observers PROVE Spec => HandsOff
<1>1. Init => TypeOK /\ ObserverInv BY InitType, InitObserves
<1>2. TypeOK /\ ObserverInv /\ [Next]_vars => (TypeOK /\ ObserverInv)'
  BY NextType, NextObserves
<1>3. TypeOK /\ ObserverInv /\ [Next]_vars
        => [\A w \in WDs : Acts(w) => workload' = workload]_vars
  <2> SUFFICES ASSUME TypeOK, ObserverInv, Next, NEW w \in WDs, Acts(w)
               PROVE  workload' = workload
    OBVIOUS
  <2> QED BY OnlyReconcilesAct, ReconcileObserves
<1> QED BY <1>1, <1>2, <1>3, PTL DEF Spec, HandsOff
-----------------------------------------------------------------------------
(***************************************************************************)
(* Paths: what Reaches and HasCycle of DependencyGraph say of a set of     *)
(* edges that grows.                                                       *)
(***************************************************************************)

\* The edges that do not leave k.
Without(edges, k) == {f \in edges : f[1] # k}

\* R holds node and is closed under the edges.
Closed(edges, node, R) == node \in R /\ \A e \in edges : e[1] \in R => e[2] \in R

\* A set that holds a node and is closed under the edges holds what the node reaches.
\* (Reaches looks at sets of nodes only; any set will do.)
LEMMA ReachesClosed ==
  ASSUME NEW E, NEW k, NEW l, Reaches(E, k, l), NEW R, Closed(E, k, R)
  PROVE  l \in R
<1> DEFINE D == R \cap (Nodes(E) \cup {k})
<1>1. D \in SUBSET (Nodes(E) \cup {k}) /\ k \in D BY DEF Closed
<1>2. ASSUME NEW e \in E, e[1] \in D PROVE e[2] \in D
  BY <1>2 DEF Closed, Nodes
<1>3. l \in D BY <1>1, <1>2, Zenon DEF Reaches
<1> QED BY <1>3

\* What every closed set has is reached.
LEMMA ReachesFrom ==
  ASSUME NEW E, NEW k, NEW l, \A R : Closed(E, k, R) => l \in R
  PROVE  Reaches(E, k, l)
  BY DEF Reaches, Closed

\* A node reaches itself.
LEMMA ReachesSelf == ASSUME NEW E, NEW k PROVE Reaches(E, k, k)
  BY ReachesFrom DEF Closed

\* An edge leads from its first node to its second.
LEMMA ReachesAlong == ASSUME NEW E, NEW e \in E PROVE Reaches(E, e[1], e[2])
  BY ReachesFrom DEF Closed

\* Paths can be joined.
LEMMA ReachesOn ==
  ASSUME NEW E, NEW k, NEW l, NEW m, Reaches(E, k, l), Reaches(E, l, m)
  PROVE  Reaches(E, k, m)
<1>1. ASSUME NEW R, Closed(E, k, R) PROVE m \in R
  <2>1. l \in R BY <1>1, ReachesClosed
  <2>2. Closed(E, l, R) BY <1>1, <2>1 DEF Closed
  <2> QED BY <2>2, ReachesClosed
<1> QED BY <1>1, ReachesFrom

\* More edges, more paths.
LEMMA ReachesMore ==
  ASSUME NEW E, NEW F, E \subseteq F, NEW k, NEW l, Reaches(E, k, l)
  PROVE  Reaches(F, k, l)
<1>1. ASSUME NEW R, Closed(F, k, R) PROVE l \in R
  <2>1. Closed(E, k, R) BY <1>1 DEF Closed
  <2> QED BY <2>1, ReachesClosed
<1> QED BY <1>1, ReachesFrom

\* A path ends when it reaches its end for the first time.
LEMMA FirstArrival ==
  ASSUME NEW E, NEW k, NEW l, Reaches(E, k, l)
  PROVE  Reaches(Without(E, l), k, l)
<1>1. ASSUME NEW R, Closed(Without(E, l), k, R), l \notin R PROVE FALSE
  <2>1. Closed(E, k, R) BY <1>1 DEF Closed, Without
  <2> QED BY <1>1, <2>1, ReachesClosed
<1> QED BY <1>1, ReachesFrom

\* A path leaves its start for the last time.
LEMMA LastDeparture ==
  ASSUME NEW E, NEW k, NEW l, Reaches(E, k, l), k # l
  PROVE  \E e \in E : e[1] = k /\ Reaches(Without(E, k), e[2], l)
<1> SUFFICES ASSUME \A e \in E : e[1] = k => ~Reaches(Without(E, k), e[2], l)
             PROVE  FALSE
  OBVIOUS
<1> DEFINE R == {k} \cup {m \in Nodes(E) : ~Reaches(Without(E, k), m, l)}
<1>1. ASSUME NEW e \in E, e[1] \in R PROVE e[2] \in R
  <2>1. e[2] \in Nodes(E) BY DEF Nodes
  <2>2. CASE e[1] = k BY <2>1, <2>2
  <2>3. CASE e[1] # k
    <3>1. e \in Without(E, k) /\ ~Reaches(Without(E, k), e[1], l) BY <1>1, <2>3 DEF Without
    <3>2. ~Reaches(Without(E, k), e[2], l) BY <3>1, ReachesAlong, ReachesOn
    <3> QED BY <2>1, <3>2
  <2> QED BY <2>2, <2>3
<1>2. Closed(E, k, R) BY <1>1 DEF Closed
<1>3. l \in R BY <1>2, ReachesClosed
<1>4. Reaches(Without(E, k), l, l) BY ReachesSelf
<1> QED BY <1>3, <1>4

\* Nothing is reached from where no edge leaves.
LEMMA Stuck ==
  ASSUME NEW E, NEW k, NEW l, \A e \in E : e[1] # k, Reaches(E, k, l)
  PROVE  k = l
<1>1. Closed(E, k, {k}) BY DEF Closed
<1> QED BY <1>1, ReachesClosed

\* A path that needs edges of E that are not in F leads to one of them within F, and
\* from one of them on within F.
LEMMA NewEdge ==
  ASSUME NEW E, NEW F, NEW n, \A e \in E : e \notin F => e[1] = n,
         NEW k, NEW l, Reaches(E, k, l), ~Reaches(F, k, l)
  PROVE  /\ Reaches(F, k, n)
         /\ \E e \in E : e \notin F /\ Reaches(F, e[2], l)
<1>1. Reaches(F, k, n)
  <2> SUFFICES ASSUME ~Reaches(F, k, n) PROVE FALSE OBVIOUS
  <2> DEFINE R == {m \in Nodes(E) \cup {k} : Reaches(F, k, m)}
  <2>1. ASSUME NEW e \in E, e[1] \in R PROVE e[2] \in R
    <3>1. e \in F /\ e[2] \in Nodes(E) BY <2>1 DEF Nodes
    <3> QED BY <2>1, <3>1, ReachesAlong, ReachesOn
  <2>2. Closed(E, k, R) BY <2>1, ReachesSelf DEF Closed
  <2> QED BY <2>2, ReachesClosed
<1>2. \E e \in E : e \notin F /\ Reaches(F, e[2], l)
  <2> SUFFICES ASSUME \A e \in E : e \notin F => ~Reaches(F, e[2], l) PROVE FALSE OBVIOUS
  <2> DEFINE R == {m \in Nodes(E) \cup {k} : ~Reaches(F, m, l)}
  <2>1. ASSUME NEW e \in E, e[1] \in R PROVE e[2] \in R
    <3>1. e[2] \in Nodes(E) BY DEF Nodes
    <3>2. e \in F => ~Reaches(F, e[2], l) BY <2>1, ReachesAlong, ReachesOn
    <3> QED BY <3>1, <3>2
  <2>2. Closed(E, k, R) BY <2>1 DEF Closed
  <2>3. l \in R BY <2>2, ReachesClosed
  <2> QED BY <2>3, ReachesSelf
<1> QED BY <1>1, <1>2

\* A path that does not come to d does not need the edges that leave it.
LEMMA Avoids ==
  ASSUME NEW E, NEW k, NEW l, NEW d, Reaches(E, k, l), ~Reaches(E, k, d)
  PROVE  Reaches(Without(E, d), k, l)
<1> SUFFICES ASSUME ~Reaches(Without(E, d), k, l) PROVE FALSE OBVIOUS
<1>1. \A e \in E : e \notin Without(E, d) => e[1] = d BY DEF Without
<1>2. Reaches(Without(E, d), k, d) BY <1>1, NewEdge
<1>3. Without(E, d) \subseteq E BY DEF Without
<1> QED BY <1>2, <1>3, ReachesMore

\* A cycle that is not found by going through n, where the new edges leave, is found
\* by going through no other node either: turned round, it is a cycle through n.
LEMMA TurnedRound ==
  ASSUME NEW E, NEW F, F \subseteq E, NEW n, NEW D,
         \A e \in E : e \notin F => e[1] = n /\ e[2] \in D,
         NEW u, NEW A, \A a \in A : <<u, a>> \in F,
         ~HasCycle(E, n, D), ~HasCycle(F, u, A)
  PROVE  ~HasCycle(E, u, A)
<1> SUFFICES ASSUME NEW a \in A, a # u, NEW e \in E, e[1] = a, e[2] # u,
                    Reaches(Without(E, a), e[2], u)
             PROVE  FALSE
  BY Zenon DEF HasCycle, CycleThrough, Without
<1> DEFINE b == e[2]
           G == Without(Without(E, a), u)
           H == Without(Without(F, a), u)
           back == <<u, a>>
<1>1. Reaches(G, b, u) BY FirstArrival
<1>2. /\ G \subseteq E /\ H \subseteq G /\ H \subseteq F
      /\ \A f \in G : f[1] # a /\ f[1] # u
      /\ H \subseteq Without(F, a)
      /\ back \in E /\ back[1] = u /\ back[2] = a
  BY DEF Without
<1>3. ASSUME NEW start \in D, start # n, NEW f \in E, f[1] = start, f[2] # n,
             Reaches(Without(E, start), f[2], n)
      PROVE  FALSE
  BY <1>3, Zenon DEF HasCycle, CycleThrough, Without
<1>4. e \in F => ~Reaches(H, b, u)
  <2> SUFFICES ASSUME e \in F, Reaches(H, b, u) PROVE FALSE OBVIOUS
  <2>1. Reaches(Without(F, a), b, u) BY <1>2, ReachesMore
  <2> QED BY <2>1, Zenon DEF HasCycle, CycleThrough, Without
<1> HIDE DEF G, H, back
<1>5. CASE e \notin F
  <2>1. a = n /\ b \in D BY <1>5
  <2>2. b # n BY <1>1, <1>2, <2>1, Stuck
  <2>3. PICK f \in G : f[1] = b /\ Reaches(Without(G, b), f[2], u) BY <1>1, LastDeparture
  <2>4. f[2] # n
    <3>1. \A g \in Without(G, b) : g[1] # a BY <1>2 DEF Without
    <3> QED BY <2>1, <2>3, <3>1, Stuck
  <2>5. Without(G, b) \subseteq Without(E, b) /\ back \in Without(E, b) BY <1>2 DEF Without
  <2>6. Reaches(Without(E, b), f[2], u) BY <2>3, <2>5, ReachesMore
  <2>7. Reaches(Without(E, b), u, a) BY <1>2, <2>5, ReachesAlong
  <2>8. Reaches(Without(E, b), f[2], n) BY <2>1, <2>6, <2>7, ReachesOn
  <2> QED BY <1>2, <1>3, <2>1, <2>2, <2>3, <2>4, <2>8
<1>6. CASE e \in F
  <2>1. ~Reaches(H, b, u) BY <1>4, <1>6
  <2>2. \A f \in G : f \notin H => f \notin F BY DEF G, H, Without
  <2>3. /\ Reaches(H, b, n)
        /\ \E f \in G : f \notin H /\ Reaches(H, f[2], u)
    <3>1. \A f \in G : f \notin H => f[1] = n BY <1>2, <2>2
    <3> QED BY <1>1, <2>1, <3>1, NewEdge
  <2>4. PICK f \in G : f \notin H /\ Reaches(H, f[2], u) BY <2>3
  <2> DEFINE d == f[2]
  <2>5. f[1] = n /\ d \in D /\ n # a /\ n # u BY <1>2, <2>2, <2>4
  <2>6. ~Reaches(H, n, u) BY <2>1, <2>3, ReachesOn
  <2>7. ~Reaches(H, b, d) BY <2>1, <2>4, ReachesOn
  <2>8. d # n BY <2>4, <2>6
  <2>9. d # a BY <1>2, <2>4, Stuck
  <2>10. e \in Without(E, d) /\ Reaches(Without(E, d), a, b)
    <3>1. e \in Without(E, d) BY <2>9 DEF Without
    <3> QED BY <3>1, ReachesAlong
  <2>11. Reaches(Without(E, d), b, n)
    <3>1. Reaches(Without(H, d), b, n) BY <2>3, <2>7, Avoids
    <3>2. Without(H, d) \subseteq Without(E, d) BY <1>2 DEF Without
    <3> QED BY <3>1, <3>2, ReachesMore
  <2>12. Reaches(Without(E, d), a, n) BY <2>10, <2>11, ReachesOn
  <2>13. CASE d = u BY <1>2, <1>3, <2>5, <2>8, <2>12, <2>13
  <2>14. CASE d # u
    <3>1. PICK g \in H : g[1] = d /\ Reaches(Without(H, d), g[2], u)
      BY <2>4, <2>14, LastDeparture
    <3>2. Without(H, d) \subseteq H /\ Without(H, d) \subseteq Without(E, d)
          /\ back \in Without(E, d)
      BY <1>2, <2>14 DEF Without
    <3>3. g[2] # n BY <2>6, <3>1, <3>2, ReachesMore
    <3>4. Reaches(Without(E, d), g[2], u) BY <3>1, <3>2, ReachesMore
    <3>5. Reaches(Without(E, d), u, a) BY <1>2, <3>2, ReachesAlong
    <3>6. Reaches(Without(E, d), g[2], n) BY <2>12, <3>4, <3>5, ReachesOn
    <3> QED BY <1>2, <1>3, <2>5, <2>8, <3>1, <3>3, <3>6
  <2> QED BY <2>13, <2>14
<1> QED BY <1>5, <1>6
-----------------------------------------------------------------------------
(***************************************************************************)
(* Admission: AdmittedAcyclic is inductive together with AdmittedKnown.    *)
(***************************************************************************)


\* More edges, more cycles for DetectCycle to find.
LEMMA CyclesMore ==
  ASSUME NEW E, NEW F, E \subseteq F, NEW n, NEW D, HasCycle(E, n, D)
  PROVE  HasCycle(F, n, D)
<1>1. PICK start \in D, e \in E : /\ start # n /\ e[1] = start /\ e[2] # n
                                  /\ Reaches(Without(E, start), e[2], n)
  BY Zenon DEF HasCycle, CycleThrough, Without
<1>2. Without(E, start) \subseteq Without(F, start) BY DEF Without
<1>3. Reaches(Without(F, start), e[2], n) BY <1>1, <1>2, ReachesMore
<1> QED BY <1>1, <1>3, Zenon DEF HasCycle, CycleThrough, Without

\* w has been admitted, in the API server.
Finalized(w) == wd[w].exists /\ wd[w].finalizer

\* However old the cache, it has every object that has been admitted: the reconcile
\* that admitted it read it from there.
AdmittedKnown == \A w \in WDs : Finalized(w) => wdCache[w].exists

\* Nothing but AddFinalizer gives an object a finalizer.
LEMMA OnlyFinalizerAdmits ==
  ASSUME TypeOK, [Next]_vars, \A w \in WDs : ~AddFinalizer(w), NEW v \in WDs, Finalized(v)'
  PROVE  Finalized(v)
<1>1. CASE \E w \in WDs : Reconcile(w) BY <1>1, ReconcileTakes DEF Take, Finalized
<1>2. CASE Write
  <2>0. job \in Job
    BY <1>2 DEF Write, StatusUpdated, StatusConflict, FinalizerRemoved, WriteFailed, TypeOK
  <2>1. CASE StatusUpdated
    BY <2>0, <2>1 DEF StatusUpdated, TypeOK, WD, Job, Finalized
  <2>2. CASE StatusConflict \/ WriteFailed
    BY <2>2 DEF StatusConflict, WriteFailed, Finalized
  <2>3. CASE FinalizerRemoved
    BY <2>0, <2>3 DEF FinalizerRemoved, TypeOK, WD, Job, Finalized
  <2> QED BY <1>2, <2>1, <2>2, <2>3 DEF Write
<1>3. CASE SyncWDs \/ (\E kind \in Kinds : SyncWorkloads(kind)) \/ Restart \/ UNCHANGED vars
  BY <1>3 DEF SyncWDs, SyncWorkloads, Restart, vars, Finalized
<1>4. CASE Tick BY <1>4, TickKeeps DEF Finalized
<1>5. ASSUME NEW w \in WDs, NEW object, wd' = [wd EXCEPT ![w] = object],
             object.exists /\ object.finalizer => Finalized(w)
      PROVE  Finalized(v)
  BY <1>5 DEF TypeOK, Finalized
<1>6. CASE Environment
  <2>1. ASSUME NEW x \in Workloads, NEW object, Outside(x, object) PROVE Finalized(v)
    BY <2>1 DEF Outside, Finalized
  <2>2. ASSUME NEW w \in WDs, TogglePause(w) \/ EditMode(w) \/ DeleteWD(w) \/ CreateWD(w)
        PROVE  Finalized(v)
    <3>0. wd[w] \in WD BY DEF TypeOK
    <3>1. CASE TogglePause(w)
      BY <1>5, <3>0, <3>1 DEF TogglePause, UserWrites, WD, Finalized
    <3>2. CASE EditMode(w)
      <4>1. PICK m \in Modes : wd' = [wd EXCEPT ![w] = [wd[w] EXCEPT !.mode = m]]
        BY <3>2, Zenon DEF EditMode, UserWrites
      <4> QED BY <1>5, <3>0, <4>1 DEF WD, Finalized
    <3>3. CASE DeleteWD(w)
      BY <1>5, <3>0, <3>3 DEF DeleteWD, UserWrites, WD, Finalized
    <3>4. CASE CreateWD(w)
      <4>1. PICK m \in Modes : wd' = [wd EXCEPT ![w] = NewWD(m)] BY <3>4, Zenon DEF CreateWD
      <4> QED BY <1>5, <4>1, Zenon DEF NewWD
    <3> QED BY <2>2, <3>1, <3>2, <3>3, <3>4
  <2> QED BY <1>6, <2>1, <2>2, OutsideObject DEF Environment
<1> QED BY <1>1, <1>2, <1>3, <1>4, <1>6 DEF Next

\* The cache loses no object but one that the API server has lost: AdmittedKnown is
\* kept by every step, Restart and the creation of a namesake among them.
LEMMA NextKnown ==
  ASSUME TypeOK, AdmittedKnown, [Next]_vars
  PROVE  AdmittedKnown'
<1> SUFFICES ASSUME NEW v \in WDs, Finalized(v)' PROVE wdCache'[v].exists
  BY DEF AdmittedKnown
<1>1. CASE \E w \in WDs : AddFinalizer(w)
  <2>1. PICK w \in WDs : AddFinalizer(w) BY <1>1
  <2>2. wdCache' = wdCache /\ wdCache[w].exists BY <2>1 DEF AddFinalizer, Unadmitted
  <2>3. v # w => wd'[v] = wd[v] BY <2>1 DEF AddFinalizer, TypeOK
  <2> QED BY <2>2, <2>3 DEF AdmittedKnown, Finalized
<1>2. CASE \A w \in WDs : ~AddFinalizer(w)
  <2>1. wdCache[v].exists BY <1>2, OnlyFinalizerAdmits DEF AdmittedKnown
  <2>2. CASE wdCache' = wdCache BY <2>1, <2>2
  <2>3. CASE wdCache' = wd /\ wd' = wd BY <2>3 DEF Finalized
  <2>4. CASE Tick BY <2>1, <2>4, Zenon DEF Tick, TypeOK, WD
  <2>5. CASE \/ SyncWDs \/ Restart \/ UNCHANGED vars
             \/ \E kind \in Kinds : SyncWorkloads(kind)
    BY <2>2, <2>3, <2>5 DEF SyncWDs, Restart, SyncWorkloads, vars
  <2>6. CASE \E w \in WDs : Reconcile(w)
    BY <1>2, <2>2, <2>6, ReconcileTakes DEF Take, cacheVars
  <2>7. CASE Write
    BY <2>2, <2>7 DEF Write, StatusUpdated, StatusConflict, FinalizerRemoved, WriteFailed,
                      cacheVars
  <2>8. CASE Environment
    <3>1. ASSUME NEW x \in Workloads, NEW object, Outside(x, object) PROVE wdCache' = wdCache
      BY <3>1 DEF Outside, cacheVars
    <3>2. ASSUME NEW w \in WDs, TogglePause(w) \/ EditMode(w) \/ DeleteWD(w) \/ CreateWD(w)
          PROVE  wdCache' = wdCache
      BY <3>2 DEF TogglePause, EditMode, DeleteWD, CreateWD, UserWrites
    <3> QED BY <2>2, <2>8, <3>1, <3>2, OutsideObject DEF Environment
  <2> QED BY <2>4, <2>5, <2>6, <2>7, <2>8 DEF Next
<1> QED BY <1>1, <1>2

\* No step closes a cycle: AddFinalizer follows a DetectCycle that saw every edge that
\* is admitted, and its own, and a cycle that goes through the new edges goes through
\* the object they leave (TurnedRound).
LEMMA NextAcyclic ==
  ASSUME "error" \notin Disturbances, TypeOK, AdmittedKnown, AdmittedAcyclic, [Next]_vars
  PROVE  AdmittedAcyclic'
<1> SUFFICES ASSUME NEW v \in WDs, Finalized(v)'
             PROVE  ~HasCycle(AdmittedEdges', Dependent[v], Dependencies(v))
  BY DEF AdmittedAcyclic, Finalized
<1>0. \A u \in WDs : \A a \in Dependencies(u) :
         Finalized(u) => <<Dependent[u], a>> \in AdmittedEdges
  BY DEF AdmittedEdges, Finalized
<1>1. CASE \A w \in WDs : ~AddFinalizer(w)
  <2>1. \A u \in WDs : Finalized(u)' => Finalized(u) BY <1>1, OnlyFinalizerAdmits
  <2>2. AdmittedEdges' \subseteq AdmittedEdges
    BY <2>1 DEF AdmittedEdges, Finalized
  <2>3. ~HasCycle(AdmittedEdges, Dependent[v], Dependencies(v))
    BY <2>1 DEF AdmittedAcyclic, Finalized
  <2> QED BY <2>2, <2>3, CyclesMore
<1>2. CASE \E w \in WDs : AddFinalizer(w)
  <2>1. PICK w \in WDs : AddFinalizer(w) BY <1>2
  <2> DEFINE E == AdmittedEdges'
             F == AdmittedEdges
             n == Dependent[w]
             D == Dependencies(w)
  <2>2. /\ \A u \in WDs : Finalized(u) => Finalized(u)'
        /\ \A u \in WDs : Finalized(u)' => Finalized(u) \/ u = w
        /\ wdCache[w].exists /\ ~DetectCycle(w)
    BY <2>1 DEF AddFinalizer, Unadmitted, TypeOK, WD, Finalized
  <2>3. F \subseteq E BY <2>2 DEF AdmittedEdges, Finalized
  <2>4. \A e \in E : e \notin F => e[1] = n /\ e[2] \in D
    <3> SUFFICES ASSUME NEW e \in E, e \notin F PROVE e[1] = n /\ e[2] \in D OBVIOUS
    <3>1. PICK u \in WDs : Finalized(u)' /\ e \in {Dependent[u]} \X Dependencies(u)
      BY DEF AdmittedEdges, Finalized
    <3>2. ~Finalized(u) BY <3>1 DEF AdmittedEdges, Finalized
    <3> QED BY <2>2, <3>1, <3>2
  <2>5. E \subseteq Edges(w)
    <3>1. \A u \in WDs : Finalized(u)' => wdCache[u].exists BY <2>2 DEF AdmittedKnown
    <3> QED BY <3>1 DEF AdmittedEdges, Finalized, Edges
  <2>6. ~HasCycle(E, n, D) BY <2>2, <2>5, CyclesMore DEF DetectCycle
  <2>7. CASE v = w BY <2>6, <2>7
  <2>8. CASE v # w
    <3>1. Finalized(v) BY <2>2, <2>8
    <3>2. ~HasCycle(F, Dependent[v], Dependencies(v)) BY <3>1 DEF AdmittedAcyclic, Finalized
    <3>3. \A a \in Dependencies(v) : <<Dependent[v], a>> \in F BY <1>0, <3>1
    <3> HIDE DEF E, F, n, D
    <3> QED BY <2>3, <2>4, <2>6, <3>2, <3>3, TurnedRound DEF E
  <2> QED BY <2>7, <2>8
<1> QED BY <1>1, <1>2

\* Where DetectCycle always gets an answer from the cache, the WorkloadDependencies that
\* have been admitted never form a cycle of three or more, in whatever order they are
\* created, deleted and reconciled, however far behind the caches are, and whatever
\* crashes.  (A DetectCycle that fails is ignored by Reconcile, hence the hypothesis.)
THEOREM NoCycleAdmitted ==
  ASSUME "error" \notin Disturbances PROVE Spec => []AdmittedAcyclic
<1>1. Init => TypeOK /\ AdmittedKnown /\ AdmittedAcyclic
  <2> SUFFICES ASSUME Init PROVE AdmittedKnown /\ AdmittedAcyclic BY InitType
  <2>1. PICK mode \in [WDs -> Modes] :
          wd = [w \in WDs |-> [NewWD(mode[w]) EXCEPT !.exists = "create" \notin Disturbances]]
    BY Zenon DEF Init
  <2>2. \A w \in WDs : ~wd[w].finalizer BY <2>1 DEF NewWD
  <2> QED BY <2>2 DEF AdmittedKnown, Finalized, AdmittedAcyclic
<1>2. TypeOK /\ AdmittedKnown /\ AdmittedAcyclic /\ [Next]_vars
        => (TypeOK /\ AdmittedKnown /\ AdmittedAcyclic)'
  BY NextType, NextKnown, NextAcyclic
<1> QED BY <1>1, <1>2, PTL DEF Spec
=============================================================================
