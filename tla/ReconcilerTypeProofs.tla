------------------------ MODULE ReconcilerTypeProofs ------------------------
(***************************************************************************)
(* Type correctness of Reconciler, and the clock of maxSuspendDuration,    *)
(* for every value of the constants.  Both invariants are inductive as     *)
(* they are.                                                               *)
(***************************************************************************)
EXTENDS Reconciler, TLAPS
-----------------------------------------------------------------------------
(***************************************************************************)
(* Type correctness.                                                       *)
(***************************************************************************)

\* The parts of TypeOK that the writes of a reconcile, the reads and the history
\* of a step each have to do with.
PatchedOK == /\ workload \in [Workloads -> Workload]
             /\ level \in [Workloads -> BOOLEAN]
             /\ owed \in [Workloads -> Nat]
KeptOK == /\ wd \in [WDs -> WD]
          /\ workloadCache \in [Workloads -> Workload]
          /\ wdCache \in [WDs -> WD]
          /\ fresh \in [WDs -> BOOLEAN]
          /\ queue \subseteq WDs
JobOK == job \in Job \cup {Idle}
SeenOK == lastOk \in [WDs -> Nat] /\ released \in [WDs -> BOOLEAN]

\* TypeOK is these parts, after a step too.
LEMMA TypeParts == PatchedOK' /\ KeptOK' /\ JobOK' /\ SeenOK' => TypeOK'
  BY DEF TypeOK, PatchedOK, KeptOK, JobOK, SeenOK

\* The default status is a status, and so is one of a new object.
LEMMA EmptyStatusType == EmptyStatus \in Status
  BY DEF EmptyStatus, Status, Phases, Time

\* A patch keeps the types of what it writes.
LEMMA PatchType ==
  ASSUME TypeOK, NEW x \in Workloads, NEW n \in Nat, Patch(x, n)
  PROVE  PatchedOK'
<1>1. CASE UNCHANGED <<workload, level, owed>>
  BY <1>1 DEF TypeOK, PatchedOK
<1>2. CASE /\ workload' = [workload EXCEPT ![x].replicas = n]
           /\ level' = [level EXCEPT ![x] = FALSE]
           /\ owed' = [owed EXCEPT ![x] = IF n = 0 THEN workload[x].replicas ELSE 0]
  BY <1>2 DEF TypeOK, PatchedOK, Workload
<1> QED BY <1>1, <1>2 DEF Patch, NoPatch

\* No patch, no change.
LEMMA NoPatchType == ASSUME TypeOK, NoPatch PROVE PatchedOK'
  BY DEF TypeOK, PatchedOK, NoPatch

\* What the controller reads of w and of its dependent.
LEMMA ReadTypes ==
  ASSUME TypeOK, NEW w \in WDs
  PROVE  /\ Dependent[w] \in Workloads
         /\ wdCache[w].status \in Status
         /\ workloadCache[Dependent[w]].replicas \in Nat
  BY ConstantsAssumption DEF TypeOK, WD, Workload

\* Saved replicas that are neither nil nor zero are a count.
LEMMA RestoreType ==
  ASSUME TypeOK, NEW w \in WDs, NEW s \in Status, restoreWorkload(w, s)
  PROVE  PatchedOK'
<1>1. Dependent[w] \in Workloads BY ReadTypes
<1>2. CASE NoPatch BY <1>2, NoPatchType
<1>3. CASE Patch(Dependent[w], 1) BY <1>1, <1>3, PatchType
<1>4. CASE s.savedReplicas \notin {Nil, 0} /\ Patch(Dependent[w], s.savedReplicas)
  <2>1. s.savedReplicas \in Nat BY <1>4 DEF Status
  <2> QED BY <1>1, <1>4, <2>1, PatchType
<1> QED BY <1>2, <1>3, <1>4 DEF restoreWorkload

\* suspendWorkload keeps the types, in the cluster and in the status.
LEMMA SuspendType ==
  ASSUME TypeOK, NEW w \in WDs, NEW s \in Status
  PROVE  /\ suspendWorkload(w) => PatchedOK'
         /\ SuspendedStatus(w, s) \in Status
<1>1. suspendWorkload(w) => PatchedOK'
  BY ReadTypes, PatchType, NoPatchType DEF suspendWorkload
<1>2. SuspendedStatus(w, s) \in Status
  BY ReadTypes DEF SuspendedStatus, Status
<1> QED BY <1>1, <1>2

\* setStatus leaves a job.
LEMMA SetStatusType ==
  ASSUME TypeOK, NEW w \in WDs, NEW s \in Status, NEW phase \in Phases, setStatus(w, s, phase)
  PROVE  JobOK'
  BY DEF setStatus, JobOK, Job, TypeOK

\* applyFields makes a status.
LEMMA AppliedType ==
  ASSUME NEW j \in Job PROVE applyFields(j) \in Status
  BY DEF applyFields, Applied, Job, Status, Time

\* Take leaves what it does not name.
LEMMA TakeType == ASSUME TypeOK, NEW w \in WDs, Take(w) PROVE KeptOK'
  BY DEF TypeOK, KeptOK, Take, cacheVars

\* What a reconcile leaves of the history.
LEMMA SeenType ==
  ASSUME TypeOK, NEW w \in WDs
  PROVE  /\ Unseen => SeenOK'
         /\ Seen(w) /\ UNCHANGED released => SeenOK'
         /\ Evaluate(w) /\ KeepReleased(w) => SeenOK'
         /\ Evaluate(w) /\ released' = [released EXCEPT ![w] = TRUE] => SeenOK'
<1>1. Unseen => SeenOK' BY DEF TypeOK, SeenOK, Unseen
<1>2. Seen(w) \/ Evaluate(w) => lastOk' \in [WDs -> Nat]
  BY DEF TypeOK, Evaluate, Seen
<1>3. KeepReleased(w) => released' \in [WDs -> BOOLEAN]
  BY DEF TypeOK, KeepReleased
<1>4. released' = [released EXCEPT ![w] = TRUE] => released' \in [WDs -> BOOLEAN]
  BY DEF TypeOK
<1>5. released \in [WDs -> BOOLEAN] BY DEF TypeOK
<1> QED BY <1>1, <1>2, <1>3, <1>4, <1>5 DEF SeenOK

\* Reconcile up to the dependencies.
LEMMA EarlyType ==
  ASSUME TypeOK, NEW w \in WDs,
         \/ ReconcileGone(w) \/ handleDeletion(w) \/ AddFinalizer(w)
         \/ RejectCycle(w) \/ ReconcilePaused(w) \/ DependentMissing(w)
  PROVE  TypeOK'
<1> USE TypeParts, ReadTypes
<1>1. CASE ReconcileGone(w)
  <2>1. JobOK' BY <1>1 DEF ReconcileGone, TypeOK, JobOK
  <2> QED BY <1>1, <2>1, TakeType, NoPatchType, SeenType DEF ReconcileGone
<1>2. CASE handleDeletion(w)
  <2>1. PatchedOK' BY <1>2, RestoreType, NoPatchType, Zenon DEF handleDeletion
  <2>2. JobOK' BY <1>2 DEF handleDeletion, JobOK, Job, TypeOK, Status
  <2>3. KeptOK' /\ SeenOK' BY <1>2, TakeType, SeenType DEF handleDeletion
  <2> QED BY <2>1, <2>2, <2>3
<1>3. CASE AddFinalizer(w)
  <2>1. wd' \in [WDs -> WD]
    <3>1. wd' = [wd EXCEPT ![w] = [@ EXCEPT !.finalizer = TRUE]] BY <1>3 DEF AddFinalizer
    <3>2. wd[w] \in WD BY DEF TypeOK
    <3>3. [wd[w] EXCEPT !.finalizer = TRUE] \in WD BY <3>2, Zenon DEF WD
    <3> QED BY <3>1, <3>3, Zenon DEF TypeOK
  <2>2. fresh' \in [WDs -> BOOLEAN] BY <1>3 DEF AddFinalizer, TypeOK
  <2> QED BY <1>3, <2>1, <2>2 DEF AddFinalizer, TypeOK, historyVars
<1>4. CASE RejectCycle(w)
  <2>1. JobOK' BY <1>4, SetStatusType, Zenon DEF RejectCycle, Phases
  <2> QED BY <1>4, <2>1, TakeType, NoPatchType, SeenType DEF RejectCycle
<1>5. CASE ReconcilePaused(w)
  <2>1. JobOK' BY <1>5, SetStatusType, Zenon DEF ReconcilePaused, Phases
  <2> QED BY <1>5, <2>1, TakeType, NoPatchType, SeenType DEF ReconcilePaused
<1>6. CASE DependentMissing(w)
  <2>1. JobOK' BY <1>6, SetStatusType, Zenon DEF DependentMissing, Phases
  <2> QED BY <1>6, <2>1, TakeType, NoPatchType, SeenType DEF DependentMissing
<1> QED BY <1>1, <1>2, <1>3, <1>4, <1>5, <1>6

\* Reconcile from the dependencies on.
LEMMA LateType ==
  ASSUME TypeOK, NEW w \in WDs,
         \/ DeferToRollout(w) \/ ReconcileObserve(w) \/ ReconcileGate(w)
         \/ StayReleased(w) \/ ForceRestore(w) \/ AwaitMaxSuspend(w) \/ handleSuspended(w)
         \/ StartDegraded(w) \/ AwaitWindow(w) \/ Suspend(w)
         \/ BecomeHealthy(w) \/ StartRecovery(w) \/ AwaitRecovery(w) \/ Restore(w)
  PROVE  TypeOK'
<1> DEFINE s == wdCache[w].status
<1> USE TypeParts, ReadTypes
<1>a. s \in Status OBVIOUS
<1>b. Evaluate(w) => KeptOK' BY TakeType DEF Evaluate
<1>c. UNCHANGED job => JobOK' BY DEF TypeOK, JobOK
<1> HIDE DEF s
<1>1. CASE DeferToRollout(w)
  <2>1. JobOK' BY <1>1, <1>a, SetStatusType, Zenon DEF DeferToRollout, Phases, s
  <2> QED BY <1>1, <1>b, <2>1, NoPatchType, SeenType DEF DeferToRollout
<1>2. CASE ReconcileObserve(w)
  <2>1. JobOK' BY <1>2, <1>a, SetStatusType, Zenon DEF ReconcileObserve, Phases, s
  <2> QED BY <1>2, <1>b, <2>1, NoPatchType, SeenType DEF ReconcileObserve
<1>3. CASE ReconcileGate(w)
  <2>1. JobOK' BY <1>3, <1>a, SetStatusType, Zenon DEF ReconcileGate, Phases, s
  <2> QED BY <1>3, <1>b, <2>1, NoPatchType, SeenType DEF ReconcileGate
<1>4. CASE StayReleased(w)
  <2>1. JobOK' BY <1>4, <1>a, SetStatusType, Zenon DEF StayReleased, Phases, s
  <2> QED BY <1>4, <1>b, <2>1, NoPatchType, SeenType DEF StayReleased, Enforce
<1>5. CASE ForceRestore(w)
  <2>1. [s EXCEPT !.savedReplicas = Nil, !.healthySince = Nil] \in Status
    BY <1>a, Zenon DEF Status, Time
  <2>2. JobOK' BY <1>5, <2>1, SetStatusType, Zenon DEF ForceRestore, Phases, s
  <2>3. PatchedOK' BY <1>5, <1>a, RestoreType DEF ForceRestore, s
  <2> QED BY <1>5, <1>b, <2>2, <2>3, SeenType, Zenon DEF ForceRestore, Enforce
<1>6. CASE AwaitMaxSuspend(w)
  BY <1>6, <1>b, <1>c, NoPatchType, SeenType DEF AwaitMaxSuspend, Enforce
<1>7. CASE handleSuspended(w)
  <2>1. (IF wdCache[w].mode = "strict" THEN SuspendedStatus(w, s) ELSE s) \in Status
    BY <1>a, SuspendType
  <2>2. JobOK' BY <1>7, <2>1, SetStatusType, Zenon DEF handleSuspended, Phases, s
  <2>3. PatchedOK' BY <1>7, <1>a, SuspendType, NoPatchType DEF handleSuspended
  <2> QED BY <1>7, <1>b, <2>2, <2>3, SeenType DEF handleSuspended, Enforce
<1>8. CASE StartDegraded(w)
  <2>1. [s EXCEPT !.degradedSince = 0, !.healthySince = Nil] \in Status
    BY <1>a, Zenon DEF Status, Time
  <2>2. JobOK' BY <1>8, <2>1, SetStatusType, Zenon DEF StartDegraded, Phases, s
  <2> QED BY <1>8, <1>b, <2>2, NoPatchType, SeenType DEF StartDegraded, Degrading, Enforce
<1>9. CASE AwaitWindow(w)
  BY <1>9, <1>b, <1>c, NoPatchType, SeenType DEF AwaitWindow, Degrading, Enforce
<1>10. CASE Suspend(w)
  <2>1. JobOK' BY <1>10, <1>a, SuspendType, SetStatusType, Zenon DEF Suspend, Phases, s
  <2>2. PatchedOK' BY <1>10, <1>a, SuspendType DEF Suspend
  <2> QED BY <1>10, <1>b, <2>1, <2>2, SeenType DEF Suspend, Degrading, Enforce
<1>11. CASE BecomeHealthy(w)
  <2>1. [s EXCEPT !.degradedSince = Nil, !.healthySince = Nil] \in Status
    BY <1>a, Zenon DEF Status, Time
  <2>2. JobOK' BY <1>11, <2>1, SetStatusType, Zenon DEF BecomeHealthy, Phases, s
  <2> QED BY <1>11, <1>b, <2>2, NoPatchType, SeenType DEF BecomeHealthy, Recovering, Enforce
<1>12. CASE StartRecovery(w)
  <2>1. [s EXCEPT !.degradedSince = Nil, !.healthySince = 0] \in Status
    BY <1>a, Zenon DEF Status, Time
  <2>2. JobOK' BY <1>12, <2>1, SetStatusType, Zenon DEF StartRecovery, Phases, s
  <2> QED BY <1>12, <1>b, <2>2, NoPatchType, SeenType DEF StartRecovery, Recovering, Enforce
<1>13. CASE AwaitRecovery(w)
  BY <1>13, <1>b, <1>c, NoPatchType, SeenType DEF AwaitRecovery, Recovering, Enforce
<1>14. CASE Restore(w)
  <2>1. [s EXCEPT !.savedReplicas = Nil, !.degradedSince = Nil, !.healthySince = Nil] \in Status
    BY <1>a, Zenon DEF Status, Time
  <2>2. JobOK' BY <1>14, <2>1, SetStatusType, Zenon DEF Restore, Phases, s
  <2>3. PatchedOK' BY <1>14, <1>a, RestoreType DEF Restore, s
  <2> QED BY <1>14, <1>b, <2>2, <2>3, SeenType DEF Restore, Recovering, Enforce
<1> QED
  BY <1>1, <1>2, <1>3, <1>4, <1>5, <1>6, <1>7, <1>8, <1>9, <1>10, <1>11, <1>12, <1>13, <1>14

\* A reconcile keeps the types.
LEMMA ReconcileType == ASSUME TypeOK, NEW w \in WDs, Reconcile(w) PROVE TypeOK'
  BY EarlyType, LateType DEF Reconcile

\* So do the writes that come after it.
LEMMA WriteType == ASSUME TypeOK, Write PROVE TypeOK'
<1>1. CASE StatusUpdated
  <2>1. job \in Job BY <1>1 DEF StatusUpdated, TypeOK
  <2>2. applyFields(job) \in Status /\ job.wd \in WDs BY <2>1, AppliedType DEF Job
  <2>3. wd' \in [WDs -> WD]
    <3>1. wd' = [wd EXCEPT ![job.wd].status = applyFields(job)] BY <1>1 DEF StatusUpdated
    <3>2. \A o \in WD, s \in Status : [o EXCEPT !.status = s] \in WD BY DEF WD
    <3>3. wd \in [WDs -> WD] BY DEF TypeOK
    <3>4. [wd[job.wd] EXCEPT !.status = applyFields(job)] \in WD BY <2>2, <3>2, <3>3
    <3> QED BY <2>2, <3>1, <3>3, <3>4
  <2>4. fresh' \in [WDs -> BOOLEAN] BY <1>1, <2>2 DEF StatusUpdated, TypeOK
  <2> QED BY <1>1, <2>3, <2>4 DEF StatusUpdated, TypeOK, historyVars
<1>2. CASE StatusConflict
  <2>1. job \in Job BY <1>2 DEF StatusConflict, TypeOK
  <2>2. job.wd \in WDs BY <2>1 DEF Job
  <2>3. wdCache[job.wd].status \in Status /\ fresh[job.wd] \in BOOLEAN
    BY <2>2 DEF TypeOK, WD
  <2>4. [job EXCEPT !.base = wdCache[job.wd].status, !.current = fresh[job.wd],
                    !.attempt = @ + 1] \in Job
    <3>1. ASSUME NEW j \in Job, NEW base \in Status, NEW current \in BOOLEAN
          PROVE  [j EXCEPT !.base = base, !.current = current, !.attempt = @ + 1] \in Job
      <4>1. j.attempt + 1 \in Nat BY DEF Job
      <4>2. ASSUME NEW n \in Nat
            PROVE  [j EXCEPT !.base = base, !.current = current, !.attempt = n] \in Job
        BY Zenon DEF Job
      <4> QED BY <4>1, <4>2, Zenon
    <3> QED BY <2>1, <2>3, <3>1, Zenon
  <2>5. job' \in Job \cup {Idle} BY <1>2, <2>4 DEF StatusConflict
  <2>6. queue' \subseteq WDs BY <1>2, <2>2 DEF StatusConflict, TypeOK
  <2> QED BY <1>2, <2>5, <2>6 DEF StatusConflict, TypeOK, cacheVars, historyVars
<1>3. CASE FinalizerRemoved
  <2>1. job.wd \in WDs BY <1>3 DEF FinalizerRemoved, TypeOK, Job
  <2>2. wd' \in [WDs -> WD]
    <3>1. wd' = [wd EXCEPT ![job.wd].exists = FALSE] BY <1>3 DEF FinalizerRemoved
    <3>2. \A o \in WD : [o EXCEPT !.exists = FALSE] \in WD BY Zenon DEF WD
    <3>3. wd \in [WDs -> WD] BY DEF TypeOK
    <3>4. [wd[job.wd] EXCEPT !.exists = FALSE] \in WD BY <2>1, <3>2, <3>3
    <3> QED BY <2>1, <3>1, <3>3, <3>4
  <2>3. fresh' \in [WDs -> BOOLEAN] BY <1>3, <2>1 DEF FinalizerRemoved, TypeOK
  <2> QED BY <1>3, <2>2, <2>3 DEF FinalizerRemoved, TypeOK, historyVars
<1>4. CASE WriteFailed
  <2>1. job.wd \in WDs BY <1>4 DEF WriteFailed, TypeOK, Job
  <2> QED BY <1>4, <2>1 DEF WriteFailed, TypeOK, cacheVars, historyVars
<1> QED BY <1>1, <1>2, <1>3, <1>4 DEF Write

\* An age that grows is still an age.
LEMMA OlderType ==
  ASSUME NEW limit \in Nat
  PROVE  /\ \A age \in Time : Older(age, limit) \in Time
         /\ \A age \in Nat : Older(age, limit) \in Nat
  BY DEF Older, Time

\* A tick keeps the types of a status.
LEMMA OlderStatusType ==
  ASSUME NEW w \in WDs, NEW s \in Status PROVE OlderStatus(w, s) \in Status
  BY OlderType, ConstantsAssumption, SpecAssumption, Zenon DEF OlderStatus, Status

\* The informers, time and restarts keep the types.
LEMMA SystemType ==
  ASSUME TypeOK, SyncWDs \/ (\E kind \in Kinds : SyncWorkloads(kind)) \/ Tick \/ Restart
  PROVE  TypeOK'
<1>1. CASE SyncWDs BY <1>1 DEF SyncWDs, TypeOK, historyVars
<1>2. CASE \E kind \in Kinds : SyncWorkloads(kind)
  <2>1. PICK kind \in Kinds : SyncWorkloads(kind) BY <1>2
  <2>2. workloadCache' \in [Workloads -> Workload] BY <2>1 DEF SyncWorkloads, TypeOK
  <2>3. level' \in [Workloads -> BOOLEAN] BY <2>1 DEF SyncWorkloads, TypeOK
  <2>4. queue' \subseteq WDs BY <2>1 DEF SyncWorkloads, findWDsForWorkload, TypeOK
  <2> QED BY <2>1, <2>2, <2>3, <2>4 DEF SyncWorkloads, TypeOK, historyVars
<1>3. CASE Tick
  <2>1. ASSUME NEW f \in [WDs -> WD]
        PROVE  [w \in WDs |-> [f[w] EXCEPT !.status = OlderStatus(w, @)]] \in [WDs -> WD]
    BY OlderStatusType DEF WD
  <2>2. wd' \in [WDs -> WD] /\ wdCache' \in [WDs -> WD] BY <1>3, <2>1, Zenon DEF Tick, TypeOK
  <2>3. lastOk' \in [WDs -> Nat]
    <3>1. \A w \in WDs : Older(lastOk[w], degradedWindow(w)) \in Nat
      BY OlderType, SpecAssumption DEF TypeOK
    <3>2. lastOk' = [w \in WDs |-> IF allOk(w) THEN 0
                                   ELSE Older(lastOk[w], degradedWindow(w))]
      BY <1>3 DEF Tick
    <3> QED BY <3>1, <3>2
  <2> QED BY <1>3, <2>2, <2>3 DEF Tick, TypeOK
<1>4. CASE Restart BY <1>4 DEF Restart, TypeOK, historyVars
<1> QED BY <1>1, <1>2, <1>3, <1>4

\* A write of somebody else to a workload.
LEMMA OutsideType ==
  ASSUME TypeOK, NEW x \in Workloads, NEW object \in Workload, Outside(x, object),
         \/ UNCHANGED owed
         \/ owed' = [owed EXCEPT ![x] = 0]
  PROVE  TypeOK'
<1>1. PatchedOK' BY DEF Outside, TypeOK, PatchedOK
<1> QED BY <1>1 DEF Outside, TypeOK, PatchedOK, cacheVars

\* A write of somebody else to a WorkloadDependency.
LEMMA UserWritesType ==
  ASSUME TypeOK, NEW w \in WDs, NEW object \in WD, UserWrites(w, object)
  PROVE  TypeOK'
<1>1. job' \in Job \cup {Idle}
  BY Zenon DEF UserWrites, TypeOK, Job
<1>2. wd' \in [WDs -> WD] /\ fresh' \in [WDs -> BOOLEAN] BY DEF UserWrites, TypeOK
<1> QED BY <1>1, <1>2 DEF UserWrites, TypeOK, historyVars

\* A new WorkloadDependency has the type of one.
LEMMA NewWDType == ASSUME NEW m \in Modes PROVE NewWD(m) \in WD
  BY EmptyStatusType, ConstantsAssumption DEF NewWD, WD

\* Users and the Kubernetes controllers keep the types.
LEMMA EnvironmentType == ASSUME TypeOK, Environment PROVE TypeOK'
<1>1. ASSUME NEW x \in Workloads,
             \/ ScaleWorkload(x) \/ PodsChange(x) \/ RolloutChange(x)
             \/ DeleteWorkload(x) \/ CreateWorkload(x)
      PROVE  TypeOK'
  <2>0. workload[x] \in Workload BY DEF TypeOK
  <2>1. CASE ScaleWorkload(x)
    <3>1. PICK n \in Counts[x] : Outside(x, [workload[x] EXCEPT !.replicas = n])
      BY <2>1 DEF ScaleWorkload
    <3>2. n \in Nat BY ConstantsAssumption
    <3>3. [workload[x] EXCEPT !.replicas = n] \in Workload BY <2>0, <3>2 DEF Workload
    <3> QED BY <2>1, <3>1, <3>3, OutsideType, Zenon DEF ScaleWorkload
  <2>2. CASE PodsChange(x)
    <3>1. [workload[x] EXCEPT !.ready = ~@] \in Workload BY <2>0, Zenon DEF Workload
    <3> QED BY <2>2, <3>1, OutsideType DEF PodsChange
  <2>3. CASE RolloutChange(x)
    <3>1. PICK p \in RolloutPhases : Outside(x, [workload[x] EXCEPT !.phase = p])
      BY <2>3, Zenon DEF RolloutChange
    <3>2. [workload[x] EXCEPT !.phase = p] \in Workload BY <2>0 DEF Workload
    <3> QED BY <2>3, <3>1, <3>2, OutsideType, Zenon DEF RolloutChange
  <2>4. CASE DeleteWorkload(x)
    <3>1. [exists |-> FALSE, replicas |-> 0, ready |-> FALSE, phase |-> ""] \in Workload
      BY DEF Workload, RolloutPhases
    <3> QED BY <2>4, <3>1, OutsideType, Zenon DEF DeleteWorkload
  <2>5. CASE CreateWorkload(x)
    <3>1. PICK n \in Counts[x] :
            Outside(x, [exists |-> TRUE, replicas |-> n, ready |-> FALSE, phase |-> ""])
      BY <2>5, Zenon DEF CreateWorkload
    <3>2. n \in Nat BY ConstantsAssumption
    <3>3. [exists |-> TRUE, replicas |-> n, ready |-> FALSE, phase |-> ""] \in Workload
      BY <3>2 DEF Workload, RolloutPhases
    <3> QED BY <2>5, <3>1, <3>3, OutsideType, Zenon DEF CreateWorkload
  <2> QED BY <1>1, <2>1, <2>2, <2>3, <2>4, <2>5
<1>2. ASSUME NEW w \in WDs, TogglePause(w) \/ EditMode(w) \/ DeleteWD(w) \/ CreateWD(w)
      PROVE  TypeOK'
  <2>0. wd[w] \in WD BY DEF TypeOK
  <2>1. CASE TogglePause(w)
    <3>1. [wd[w] EXCEPT !.paused = ~@] \in WD BY <2>0, Zenon DEF WD
    <3> QED BY <2>1, <3>1, UserWritesType DEF TogglePause
  <2>2. CASE EditMode(w)
    <3>1. PICK m \in Modes : UserWrites(w, [wd[w] EXCEPT !.mode = m]) BY <2>2 DEF EditMode
    <3>2. [wd[w] EXCEPT !.mode = m] \in WD BY <2>0, ConstantsAssumption DEF WD
    <3> QED BY <3>1, <3>2, UserWritesType
  <2>3. CASE DeleteWD(w)
    <3>1. [wd[w] EXCEPT !.deleting = TRUE] \in WD /\ [wd[w] EXCEPT !.exists = FALSE] \in WD
      BY <2>0, Zenon DEF WD
    <3> QED BY <2>3, <3>1, UserWritesType DEF DeleteWD
  <2>4. CASE CreateWD(w)
    <3>1. wd' \in [WDs -> WD] BY <2>4, NewWDType DEF CreateWD, TypeOK
    <3>2. job' \in Job \cup {Idle} BY <2>4, Zenon DEF CreateWD, TypeOK, Job
    <3>3. fresh' \in [WDs -> BOOLEAN] BY <2>4 DEF CreateWD, TypeOK
    <3>4. SeenOK' BY <2>4 DEF CreateWD, TypeOK, SeenOK
    <3> QED BY <2>4, <3>1, <3>2, <3>3, <3>4 DEF CreateWD, TypeOK, SeenOK
  <2> QED BY <1>2, <2>1, <2>2, <2>3, <2>4
<1> QED BY <1>1, <1>2 DEF Environment

\* Init has the types.
LEMMA InitType == Init => TypeOK
<1> SUFFICES ASSUME Init PROVE TypeOK OBVIOUS
<1>1. workload \in [Workloads -> Workload]
  <2>1. PICK replicas : /\ \A x \in Workloads : replicas[x] \in Counts[x]
                        /\ workload = [x \in Workloads |->
                             [exists |-> TRUE, replicas |-> replicas[x], ready |-> TRUE,
                              phase |-> IF Kind[x] = "Rollout" THEN "Healthy" ELSE ""]]
    BY Zenon DEF Init
  <2>2. \A x \in Workloads : replicas[x] \in Nat BY <2>1, ConstantsAssumption, Zenon
  <2> QED BY <2>1, <2>2, Zenon DEF Workload, RolloutPhases
<1>2. wd \in [WDs -> WD]
  <2>1. PICK mode \in [WDs -> Modes] :
          wd = [w \in WDs |-> [NewWD(mode[w]) EXCEPT !.exists = "create" \notin Disturbances]]
    BY Zenon DEF Init
  <2>2. ASSUME NEW w \in WDs
        PROVE  [NewWD(mode[w]) EXCEPT !.exists = "create" \notin Disturbances] \in WD
    <3>1. NewWD(mode[w]) \in WD BY NewWDType
    <3>2. ("create" \notin Disturbances) \in BOOLEAN OBVIOUS
    <3> QED BY <3>1, <3>2, Zenon DEF WD
  <2> QED BY <2>1, <2>2
<1> QED BY <1>1, <1>2, Zenon DEF Init, TypeOK

\* Every step keeps the types.
LEMMA NextType == TypeOK /\ [Next]_vars => TypeOK'
<1> SUFFICES ASSUME TypeOK, [Next]_vars PROVE TypeOK' OBVIOUS
<1>1. CASE Next BY <1>1, ReconcileType, WriteType, SystemType, EnvironmentType DEF Next
<1>2. CASE UNCHANGED vars BY <1>2 DEF TypeOK, vars
<1> QED BY <1>1, <1>2

\* Type correctness, whatever the environment does: phases are phases, counts and
\* ages are never negative, the queue and the job name WorkloadDependencies.
THEOREM TypeCorrect == Spec => []TypeOK
  BY InitType, NextType, PTL DEF Spec
-----------------------------------------------------------------------------
(***************************************************************************)
(* What every reconcile has in common.                                     *)
(***************************************************************************)

\* A reconcile adds the finalizer, or it takes w from the queue and writes no
\* WorkloadDependency before its job does.
LEMMA ReconcileTakes == ASSUME NEW w \in WDs, Reconcile(w) PROVE AddFinalizer(w) \/ Take(w)
  BY DEF Reconcile, ReconcileGone, handleDeletion, RejectCycle, ReconcilePaused,
         DependentMissing, DeferToRollout, ReconcileObserve, ReconcileGate, StayReleased,
         ForceRestore, AwaitMaxSuspend, handleSuspended, StartDegraded, AwaitWindow, Suspend,
         BecomeHealthy, StartRecovery, AwaitRecovery, Restore, Enforce, Evaluate, Degrading,
         Recovering

\* Users who edit or delete a WorkloadDependency leave its status alone.
LEMMA UsersKeepStatus ==
  ASSUME TypeOK, NEW v \in WDs, TogglePause(v) \/ EditMode(v) \/ DeleteWD(v)
  PROVE  \A w \in WDs : wd'[w].status = wd[w].status
<1>0. wd[v] \in WD BY DEF TypeOK
<1>1. ASSUME NEW object, UserWrites(v, object), object.status = wd[v].status
      PROVE  \A w \in WDs : wd'[w].status = wd[w].status
  BY <1>1 DEF UserWrites, TypeOK
<1>2. CASE TogglePause(v)
  BY <1>0, <1>1, <1>2 DEF TogglePause, WD
<1>3. CASE EditMode(v)
  <2>1. PICK m \in Modes : UserWrites(v, [wd[v] EXCEPT !.mode = m]) BY <1>3 DEF EditMode
  <2>2. [wd[v] EXCEPT !.mode = m].status = wd[v].status BY <1>0 DEF WD
  <2> QED BY <1>1, <2>1, <2>2, Zenon
<1>4. CASE DeleteWD(v)
  <2>1. /\ [wd[v] EXCEPT !.deleting = TRUE].status = wd[v].status
        /\ [wd[v] EXCEPT !.exists = FALSE].status = wd[v].status
    BY <1>0 DEF WD
  <2> QED BY <1>1, <1>4, <2>1, Zenon DEF DeleteWD
<1> QED BY <1>2, <1>3, <1>4

-----------------------------------------------------------------------------
(***************************************************************************)
(* The clock of maxSuspendDuration.                                        *)
(***************************************************************************)

Timed(s) == s.phase = "Suspended" <=> s.suspendedAt # Nil

\* applyFields starts the clock and stops it.
LEMMA AppliedTimed == ASSUME NEW j \in Job PROVE Timed(applyFields(j))
  BY ConstantsAssumption DEF Timed, applyFields, Applied

\* Time does neither.
LEMMA OlderTimed ==
  ASSUME NEW w \in WDs, NEW s \in Status, Timed(s) PROVE Timed(OlderStatus(w, s))
<1>1. Older(s.suspendedAt, MaxSuspend[w]) = Nil <=> s.suspendedAt = Nil
  BY ConstantsAssumption DEF Older, Status, Time
<1>2. /\ OlderStatus(w, s).phase = s.phase
      /\ OlderStatus(w, s).suspendedAt = Older(s.suspendedAt, MaxSuspend[w])
  BY DEF OlderStatus, Status
<1> QED BY <1>1, <1>2 DEF Timed

\* The clock of a new WorkloadDependency is not running.
LEMMA EmptyTimed == Timed(EmptyStatus)
<1>1. EmptyStatus.phase = "" /\ EmptyStatus.suspendedAt = Nil BY DEF EmptyStatus
<1> QED BY <1>1, Zenon DEF Timed

\* At first nothing is Suspended, and no clock is running.
LEMMA InitTimed == Init => SuspensionIsTimed
<1> SUFFICES ASSUME Init, NEW w \in WDs PROVE Timed(wd[w].status)
  BY DEF SuspensionIsTimed, Timed
<1>1. PICK mode \in [WDs -> Modes] :
        wd = [v \in WDs |-> [NewWD(mode[v]) EXCEPT !.exists = "create" \notin Disturbances]]
  BY Zenon DEF Init
<1>2. wd[w].status = EmptyStatus BY <1>1 DEF NewWD
<1> QED BY <1>2, EmptyTimed

\* Every step keeps the clock running exactly while the phase is Suspended.
LEMMA NextTimed == TypeOK /\ SuspensionIsTimed /\ [Next]_vars => SuspensionIsTimed'
<1> SUFFICES ASSUME TypeOK, SuspensionIsTimed, [Next]_vars, NEW w \in WDs
             PROVE  Timed(wd'[w].status)
  BY DEF SuspensionIsTimed, Timed
<1>0. Timed(wd[w].status) BY DEF SuspensionIsTimed, Timed
<1>1. CASE UNCHANGED wd BY <1>0, <1>1
<1>2. CASE \E v \in WDs : Reconcile(v)
  <2>1. PICK v \in WDs : Reconcile(v) BY <1>2
  <2>2. CASE Take(v) BY <1>1, <2>2 DEF Take
  <2>3. CASE AddFinalizer(v)
    <3>1. wd'[w].status = wd[w].status BY <2>3 DEF AddFinalizer, TypeOK, WD
    <3> QED BY <1>0, <3>1
  <2> QED BY <2>1, <2>2, <2>3, ReconcileTakes
<1>3. CASE Write
  <2>1. CASE StatusUpdated
    <3>1. job \in Job /\ job.wd \in WDs BY <2>1 DEF StatusUpdated, TypeOK, Job
    <3>2. CASE w = job.wd
      <4>1. wd'[w].status = applyFields(job) BY <2>1, <3>1, <3>2 DEF StatusUpdated, TypeOK, WD
      <4> QED BY <3>1, <4>1, AppliedTimed
    <3>3. CASE w # job.wd
      <4>1. wd'[w] = wd[w] BY <2>1, <3>3 DEF StatusUpdated, TypeOK
      <4> QED BY <1>0, <4>1
    <3> QED BY <3>2, <3>3
  <2>2. CASE StatusConflict \/ WriteFailed BY <1>1, <2>2 DEF StatusConflict, WriteFailed
  <2>3. CASE FinalizerRemoved
    <3>1. wd'[w].status = wd[w].status
      BY <2>3 DEF FinalizerRemoved, TypeOK, WD
    <3> QED BY <1>0, <3>1
  <2> QED BY <1>3, <2>1, <2>2, <2>3 DEF Write
<1>4. CASE Tick
  <2>1. wd'[w].status = OlderStatus(w, wd[w].status) /\ wd[w].status \in Status
    BY <1>4 DEF Tick, TypeOK, WD
  <2> QED BY <1>0, <2>1, OlderTimed
<1>5. CASE SyncWDs \/ (\E kind \in Kinds : SyncWorkloads(kind)) \/ Restart
  BY <1>1, <1>5 DEF SyncWDs, SyncWorkloads, Restart
<1>6. CASE \E x \in Workloads : \/ ScaleWorkload(x) \/ PodsChange(x) \/ RolloutChange(x)
                                \/ DeleteWorkload(x) \/ CreateWorkload(x)
  BY <1>1, <1>6, Zenon DEF ScaleWorkload, PodsChange, RolloutChange, DeleteWorkload,
      CreateWorkload,
                    Outside
<1>7. CASE \E v \in WDs : TogglePause(v) \/ EditMode(v) \/ DeleteWD(v)
  <2>1. wd'[w].status = wd[w].status BY <1>7, UsersKeepStatus
  <2> QED BY <1>0, <2>1
<1>8. CASE \E v \in WDs : CreateWD(v)
  <2>1. PICK v \in WDs : CreateWD(v) BY <1>8
  <2>2. PICK m \in Modes : wd' = [wd EXCEPT ![v] = NewWD(m)] BY <2>1, Zenon DEF CreateWD
  <2>3. wd'[w].status = wd[w].status \/ wd'[w].status = EmptyStatus
    BY <2>2 DEF NewWD, TypeOK
  <2> QED BY <1>0, <2>3, EmptyTimed
<1>9. CASE UNCHANGED vars BY <1>1, <1>9 DEF vars
<1> QED BY <1>2, <1>3, <1>4, <1>5, <1>6, <1>7, <1>8, <1>9 DEF Next, Environment

\* setStatus keeps the clock of maxSuspendDuration: through conflicts, stale
\* copies, crashes and failed writes, suspendedAt is set in the API server exactly
\* while the phase is Suspended.
THEOREM SuspensionTimed == Spec => []SuspensionIsTimed
  BY TypeCorrect, InitTimed, NextTimed, PTL DEF Spec
=============================================================================
