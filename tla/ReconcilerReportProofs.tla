----------------------- MODULE ReconcilerReportProofs -----------------------
(***************************************************************************)
(* What others are told of a WorkloadDependency: by the gate, which judges *)
(* the dependencies itself (GatedReconciler), and by the condition, the    *)
(* gauges and the notifications (StatusReports).                           *)
(***************************************************************************)
EXTENDS ReconcilerPhaseProofs, ReconcilerMemoryProofs, StatusReports, GatedReconciler
-----------------------------------------------------------------------------
(***************************************************************************)
(* The gate.                                                               *)
(***************************************************************************)

\* The API server: kind, namespace and name determine an object.
DistinctNames ==
  \A x, y \in Workloads : Kind[x] = Kind[y] /\ Name[x] = Name[y] => x = y

\* In the caches the phase says what allOk says.
GateOn(w) ==
  Watching(w) /\ wdCache[w].mode = "gate" => (wdCache[w].status.phase = "Healthy" <=> allOk(w))

\* It does, or something is still to happen to w.
GateInv == \A w \in WDs : Pending(w) \/ PhaseDiffers(w) \/ GateOn(w)

\* A reconcile in gate mode writes the phase that says what allOk says.
LEMMA GateReconcile ==
  ASSUME Flat, NEW w \in WDs, Reconcile(w)
  PROVE  PhaseDiffers(w)' \/ GateOn(w)'
<1>1. SUFFICES ASSUME ~GateOn(w)' PROVE PhaseDiffers(w)'
  OBVIOUS
<1>2. /\ Watching(w) /\ wdCache[w].mode = "gate"
      /\ ~(wdCache[w].status.phase = "Healthy" <=> allOk(w))
      /\ wdCache' = wdCache
  BY <1>1, OwnReads DEF GateOn
<1>3. DeferToRollout(w) \/ ReconcileGate(w)
  BY <1>2 DEF Reconcile, ReconcileGone, handleDeletion, AddFinalizer, Unadmitted, RejectCycle,
              ReconcilePaused, DependentMissing, ReconcileObserve, Enforce, StayReleased,
              ForceRestore, AwaitMaxSuspend, handleSuspended, StartDegraded, AwaitWindow,
              Suspend, Degrading, BecomeHealthy, StartRecovery, AwaitRecovery, Restore,
              Recovering, Watching, Admitted
<1>4. PICK p : setStatus(w, wdCache[w].status, p) /\ (p = "Healthy" <=> allOk(w))
  BY <1>3 DEF DeferToRollout, Deferred, ReconcileGate
<1>5. job' # Idle /\ job'.wd = w /\ job'.step = "status" /\ job'.phase = p
  BY <1>4 DEF setStatus, Idle
<1> QED BY <1>2, <1>4, <1>5 DEF PhaseDiffers

\* Every step keeps GateInv.
LEMMA NextGate ==
  ASSUME TypeOK, CacheInv, Flat, GateInv, [Next]_vars
  PROVE  GateInv'
<1>1. SUFFICES ASSUME NEW w \in WDs PROVE Pending(w)' \/ PhaseDiffers(w)' \/ GateOn(w)'
  BY DEF GateInv
<1>2. CASE Reconcile(w) BY <1>2, GateReconcile
<1>3. CASE ~Reconcile(w)
  <2>1. PendingOn(w) /\ (Pending(w)' \/ ~Admitted(w)' \/ Same(w)) BY <1>3, NextPending
  <2>2. ~Admitted(w)' => GateOn(w)' BY DEF GateOn, Watching
  <2>3. CASE Same(w)
    <3>1. allOk(w)' <=> allOk(w) BY <2>3, SameOk DEF Same
    <3>2. GateOn(w) => GateOn(w)'
      BY <2>3, <3>1 DEF Same, GateOn, Watching, Admitted, Near
    <3> QED BY <2>1, <2>2, <2>3, <3>2 DEF GateInv, PendingOn, Same
  <2> QED BY <2>1, <2>2, <2>3
<1> QED BY <1>2, <1>3

\* The handler of the webhook and the controller judge a dependency alike, if it exists, is
\* not at a zero of klink's and is no CronJob.
LEMMA JudgeAlike ==
  ASSUME DistinctNames, NEW w \in WDs, wdCache[w].exists, wdCache[w].mode = "gate",
         \A x \in Dependencies(w) :
           workloadCache[x].exists /\ Kind[x] # "CronJob" /\ ~isSuspendedByKlink(x)
  PROVE  allOk(w) <=> ~Blocks(w)
<1>1. ASSUME NEW x \in Dependencies(w)
      PROVE  /\ Looked(x) = {x}
             /\ depStatus(x) \in {"Healthy", "CoSuspended"} <=> isDependencyHealthy(x)
  <2>1. x \in Workloads BY NearWorkloads DEF Near
  <2>2. Looked(x) = {x} BY <1>1, <2>1 DEF Looked, DistinctNames
  <2>3. Serves(x) <=> isDependencyHealthy(x) BY <1>1 DEF Serves, isDependencyHealthy
  <2> QED BY <1>1, <2>2, <2>3 DEF depStatus
<1> QED BY <1>1 DEF allOk, Blocks

\* The gate answers reviews; what it lets through is a step of the controller's environment.
LEMMA GatedIsSpec == GatedSpec => Spec
  BY PTL DEF GatedSpec, Spec

\* Between events the gate turns away exactly what the status says it would, in every
\* environment: stale caches, lost writes, crashes, pauses and edits of the mode have all
\* been made up for by the time nothing is left to do.  The hypotheses say that no
\* dependency is itself a dependent, and that the API server has no two objects of the
\* same kind and name.
THEOREM GateJudgesAlike ==
  ASSUME Flat, DistinctNames
  PROVE  GatedSpec => []GateAgrees
<1>1. Init => GateInv BY Zenon DEF Init, GateInv, Pending
<1>2. TypeOK /\ CacheInv /\ GateInv /\ [Next]_vars => GateInv' BY NextGate
<1>3. TypeOK /\ CacheInv /\ GateInv => GateAgrees
  <2> SUFFICES ASSUME TypeOK, CacheInv, GateInv, Quiet, NEW w \in WDs,
                      wd[w].exists, ~wd[w].deleting, wd[w].finalizer, ~wd[w].paused,
                      wd[w].mode = "gate", workload[Dependent[w]].exists,
                      \A x \in Dependencies(w) :
                        workload[x].exists /\ Kind[x] # "CronJob" /\ ~isSuspendedByKlink(x)
               PROVE  wd[w].status.phase = "Healthy" <=> ~Blocks(w)
    BY DEF GateAgrees
  <2>1. ~Pending(w) /\ ~PhaseDiffers(w) /\ wdCache[w] = wd[w] BY QuietReads
  <2>2. \A x \in Near(w) : workloadCache[x] = workload[x]
    BY NearWorkloads DEF Quiet, Synced, CacheInv, LevelIsCurrent
  <2>3. Watching(w) BY <2>1, <2>2 DEF Watching, Admitted, Near
  <2>4. wd[w].status.phase = "Healthy" <=> allOk(w) BY <2>1, <2>3 DEF GateInv, GateOn
  <2>5. allOk(w) <=> ~Blocks(w) BY <2>1, <2>2, JudgeAlike DEF Near
  <2> QED BY <2>4, <2>5
<1> QED BY <1>1, <1>2, <1>3, GatedIsSpec, TypeCorrect, CacheCorrect, PTL DEF Spec
-----------------------------------------------------------------------------
(***************************************************************************)
(* What a reconcile writes fits the phase that the API server has: the     *)
(* phase Released comes after Suspended, a notification compares with the  *)
(* phase that it replaces, and what has no phase has no clock.             *)
(***************************************************************************)

\* The phases that Released may follow.
ReleasedAfter(w, phase) == phase = "Released" \/ (phase = "Suspended" /\ MaxSuspend[w] > 0)

\* What the running reconcile writes fits the phase that the API server has.
PhaseJob ==
  \A w \in WDs : Writing(w) =>
    /\ job.phase # ""
    /\ job.phase # "Unknown" => job.mem.phase = wd[w].status.phase
    /\ job.phase = "Released" => ReleasedAfter(w, wd[w].status.phase)
    /\ Live(w) => job.phase # "Observed"

\* What has no phase yet has no clock, and Observed is of another mode.
PhaseStatus ==
  \A w \in WDs : Live(w) => /\ wd[w].status.phase # "Observed"
                            /\ wd[w].status.phase = "" => wd[w].status.degradedSince = Nil

PhaseInv == PhaseJob /\ PhaseStatus

\* What a reconcile writes fits the phase that it read.
LEMMA OwnPhase ==
  ASSUME TypeOK, NEW w \in WDs, Reconcile(w), job' # Idle, job'.step = "status"
  PROVE  /\ job'.phase # ""
         /\ job'.phase # "Unknown" => job'.mem.phase = wdCache[w].status.phase
         /\ job'.phase = "Released" => ReleasedAfter(w, wdCache[w].status.phase)
         /\ wdCache[w].mode \in {"strict", "soft"} => job'.phase # "Observed"
<1> DEFINE s == wdCache[w].status
           Fits(p, m) == /\ p # ""
                         /\ p # "Unknown" => m.phase = s.phase
                         /\ p = "Released" => ReleasedAfter(w, s.phase)
                         /\ wdCache[w].mode \in {"strict", "soft"} => p # "Observed"
<1> SUFFICES Fits(job'.phase, job'.mem) BY Zenon
<1>0. s \in Status /\ job = Idle BY ReconcileJob DEF TypeOK, WD
<1>1. ASSUME NEW m, NEW p, setStatus(w, m, p), Fits(p, m) PROVE Fits(job'.phase, job'.mem)
  <2>1. job'.phase = p /\ job'.mem = m BY <1>1, Zenon DEF setStatus
  <2> QED BY <1>1, <2>1, Zenon
<1> HIDE DEF Fits
<1>2. ~(\/ ReconcileGone(w) \/ AddFinalizer(w) \/ AwaitMaxSuspend(w) \/ AwaitWindow(w)
        \/ AwaitRecovery(w) \/ handleDeletion(w))
  BY <1>0 DEF ReconcileGone, AddFinalizer, AwaitMaxSuspend, AwaitWindow, AwaitRecovery,
              handleDeletion
<1>3. CASE RejectCycle(w) \/ ReconcilePaused(w) \/ DependentMissing(w) \/ DeferToRollout(w)
  <2>1. PICK p \in {"Paused", "Unknown", "Degraded"} : setStatus(w, s, p)
    BY <1>3 DEF RejectCycle, ReconcilePaused, DependentMissing, DeferToRollout
  <2> QED BY <1>1, <2>1, Zenon DEF Fits
<1>4. CASE ReconcileObserve(w) \/ ReconcileGate(w)
  <2>1. PICK p \in {"Healthy", "Observed", "Degraded"} : setStatus(w, s, p)
    BY <1>4 DEF ReconcileObserve, ReconcileGate
  <2>2. wdCache[w].mode \notin {"strict", "soft"} BY <1>4 DEF ReconcileObserve, ReconcileGate
  <2> QED BY <1>1, <2>1, <2>2, Zenon DEF Fits
<1>5. CASE StayReleased(w)
  <2>1. setStatus(w, s, "Released") /\ ReleasedAfter(w, s.phase)
    BY <1>5 DEF StayReleased, ReleasedAfter
  <2> QED BY <1>1, <2>1, Zenon DEF Fits
<1>6. CASE ForceRestore(w)
  <2> DEFINE m == [s EXCEPT !.savedReplicas = Nil, !.healthySince = Nil]
  <2>1. setStatus(w, m, "Released") /\ ReleasedAfter(w, s.phase)
    BY <1>6 DEF ForceRestore, Limited, ReleasedAfter
  <2>2. m.phase = s.phase BY <1>0 DEF Status
  <2> HIDE DEF m
  <2> QED BY <1>1, <2>1, <2>2, Zenon DEF Fits
<1>7. CASE handleSuspended(w) \/ Suspend(w)
  <2>1. PICK m \in {s, SuspendedStatus(w, s)} : setStatus(w, m, "Suspended")
    BY <1>7 DEF handleSuspended, Suspend
  <2>2. m.phase = s.phase BY <1>0 DEF SuspendedStatus, Status
  <2> QED BY <1>1, <2>1, <2>2, Zenon DEF Fits
<1>8. CASE StartDegraded(w)
  <2> DEFINE m == [s EXCEPT !.degradedSince = 0, !.healthySince = Nil]
  <2>1. setStatus(w, m, "Degraded") BY <1>8 DEF StartDegraded
  <2>2. m.phase = s.phase BY <1>0 DEF Status
  <2> HIDE DEF m
  <2> QED BY <1>1, <2>1, <2>2, Zenon DEF Fits
<1>9. CASE BecomeHealthy(w)
  <2> DEFINE m == [s EXCEPT !.degradedSince = Nil, !.healthySince = Nil]
  <2>1. setStatus(w, m, "Healthy") BY <1>9 DEF BecomeHealthy
  <2>2. m.phase = s.phase BY <1>0 DEF Status
  <2> HIDE DEF m
  <2> QED BY <1>1, <2>1, <2>2, Zenon DEF Fits
<1>10. CASE StartRecovery(w)
  <2> DEFINE m == [s EXCEPT !.degradedSince = Nil, !.healthySince = 0]
  <2>1. setStatus(w, m, "Suspended") BY <1>10 DEF StartRecovery
  <2>2. m.phase = s.phase BY <1>0 DEF Status
  <2> HIDE DEF m
  <2> QED BY <1>1, <2>1, <2>2, Zenon DEF Fits
<1>11. CASE Restore(w)
  <2> DEFINE m == [s EXCEPT !.savedReplicas = Nil, !.degradedSince = Nil, !.healthySince = Nil]
  <2>1. setStatus(w, m, "Healthy") BY <1>11 DEF Restore
  <2>2. m.phase = s.phase BY <1>0 DEF Status
  <2> HIDE DEF m
  <2> QED BY <1>1, <2>1, <2>2, Zenon DEF Fits
<1> QED
  BY <1>2, <1>3, <1>4, <1>5, <1>6, <1>7, <1>8, <1>9, <1>10, <1>11 DEF Reconcile

\* The phase in the API server changes only by the status write of a reconcile.
LEMMA PhaseStays ==
  ASSUME TypeOK, [Next]_vars, ~StatusUpdated, NEW w \in WDs, wd'[w].exists
  PROVE  \/ wd[w].exists /\ wd'[w].status.phase = wd[w].status.phase
         \/ ~wd[w].exists /\ wd'[w].status.phase = ""
<1>1. ASSUME NEW v \in WDs, Reconcile(v)
      PROVE  wd[w].exists /\ wd'[w].status.phase = wd[w].status.phase
  <2>1. CASE AddFinalizer(v)
    <3>1. wd' = [wd EXCEPT ![v].finalizer = TRUE] BY <2>1 DEF AddFinalizer
    <3>2. \A u \in WDs : wd'[u].exists = wd[u].exists /\ wd'[u].status = wd[u].status
      BY <3>1 DEF TypeOK, WD
    <3> QED BY <3>2
  <2>2. CASE Take(v) BY <2>2 DEF Take
  <2> QED BY <1>1, <2>1, <2>2, ReconcileTakes
<1>2. CASE Write
  <2>1. CASE FinalizerRemoved
    <3>1. wd' = [wd EXCEPT ![job.wd].exists = FALSE] BY <2>1 DEF FinalizerRemoved
    <3>2. wd'[w] = wd[w] BY <3>1 DEF TypeOK, WD
    <3> QED BY <3>2, Zenon
  <2>2. CASE StatusConflict \/ WriteFailed BY <2>2, Zenon DEF StatusConflict, WriteFailed
  <2> QED BY <1>2, <2>1, <2>2, Zenon DEF Write
<1>3. CASE SyncWDs \/ (\E kind \in Kinds : SyncWorkloads(kind)) \/ Restart
  BY <1>3, Zenon DEF SyncWDs, SyncWorkloads, Restart
<1>4. CASE Tick
  <2>1. wd[w].status \in Status BY DEF TypeOK, WD
  <2> QED BY <1>4, <2>1, TickKeeps, AgeingKeeps, Zenon
<1>5. CASE \E x \in Workloads : \/ ScaleWorkload(x) \/ PodsChange(x) \/ RolloutChange(x)
                                \/ DeleteWorkload(x) \/ CreateWorkload(x)
  BY <1>5, Zenon DEF ScaleWorkload, PodsChange, RolloutChange, DeleteWorkload, CreateWorkload,
      Outside
<1>6. ASSUME NEW v \in WDs, TogglePause(v) \/ EditMode(v) \/ DeleteWD(v)
      PROVE  wd[w].exists /\ wd'[w].status.phase = wd[w].status.phase
  <2>1. wd'[w].status = wd[w].status BY <1>6, UsersKeepStatus
  <2>2. w # v => wd'[w] = wd[w]
    BY <1>6 DEF TogglePause, EditMode, DeleteWD, UserWrites, TypeOK
  <2> QED BY <1>6, <2>1, <2>2 DEF TogglePause, EditMode, DeleteWD
<1>7. ASSUME NEW v \in WDs, CreateWD(v)
      PROVE  \/ wd[w].exists /\ wd'[w].status.phase = wd[w].status.phase
             \/ ~wd[w].exists /\ wd'[w].status.phase = ""
  <2>1. PICK m \in Modes : wd' = [wd EXCEPT ![v] = NewWD(m)] BY <1>7, Zenon DEF CreateWD
  <2>2. CASE w = v
    <3>1. ~wd[w].exists /\ wd'[w] = NewWD(m) BY <1>7, <2>1, <2>2 DEF CreateWD, TypeOK
    <3>2. NewWD(m).status.phase = "" BY Zenon DEF NewWD, EmptyStatus
    <3> QED BY <3>1, <3>2, Zenon
  <2>3. CASE w # v BY <2>1, <2>3, Zenon DEF TypeOK
  <2> QED BY <2>2, <2>3, Zenon
<1>8. CASE UNCHANGED vars BY <1>8, Zenon DEF vars
<1> QED BY <1>1, <1>2, <1>3, <1>4, <1>5, <1>6, <1>7, <1>8, Zenon DEF Next, Environment

\* Every step keeps PhaseInv.
LEMMA NextPhase ==
  ASSUME TypeOK, CacheInv, Steady, LiveInv, PhaseInv, [Next]_vars
  PROVE  PhaseInv'
<1> USE DEF PhaseInv
<1>0. ASSUME \A w \in WDs : /\ Live(w)' => Live(w)
                            /\ wd[w].exists /\ wd[w].finalizer => wd'[w].status = wd[w].status
                            /\ Writing(w)' => /\ Writing(w)
                                              /\ job'.phase = job.phase /\ job'.mem = job.mem
      PROVE  PhaseInv'
  <2>1. PhaseStatus' BY <1>0, Zenon DEF PhaseStatus, Live
  <2>2. ASSUME NEW w \in WDs, Writing(w)'
        PROVE  /\ job'.phase # ""
               /\ job'.phase # "Unknown" => job'.mem.phase = wd'[w].status.phase
               /\ job'.phase = "Released" => ReleasedAfter(w, wd'[w].status.phase)
               /\ Live(w)' => job'.phase # "Observed"
    <3>1. /\ Writing(w) /\ job'.phase = job.phase /\ job'.mem = job.mem
          /\ job.phase # "Unknown" => wd'[w].status = wd[w].status
      BY <1>0, <2>2 DEF LiveInv, JobStarted
    <3> QED BY <1>0, <3>1, Zenon DEF PhaseJob
  <2> QED BY <2>1, <2>2, Zenon DEF PhaseJob
<1>1. ASSUME NEW v \in WDs, Reconcile(v) PROVE PhaseInv'
  <2>1. wdCache[v] = wd[v] /\ job = Idle /\ (job' # Idle => job'.wd = v)
    BY <1>1, SteadyReads, SteadyJob, ReconcileJob
  <2>2. CASE AddFinalizer(v)
    <3>1. wd' = [wd EXCEPT ![v].finalizer = TRUE] /\ job' = Idle BY <2>1, <2>2 DEF AddFinalizer
    <3>2. \A w \in WDs : wd'[w].status = wd[w].status /\ (w # v => wd'[w] = wd[w])
      BY <3>1 DEF TypeOK, WD
    <3>3. wd[v].exists /\ ~wd[v].finalizer BY <2>1, <2>2 DEF AddFinalizer, Unadmitted
    <3>4. Unclocked(wd[v].status) /\ wd[v].status.phase \in {"", "Unknown"}
      BY <3>3, Zenon DEF LiveInv, NotStarted
    <3>5. PhaseStatus' BY <3>2, <3>4, Zenon DEF PhaseStatus, Live, Unclocked
    <3> QED BY <3>1, <3>5, Zenon DEF PhaseJob, Writing
  <2>3. CASE Take(v)
    <3>1. wd' = wd BY <2>3 DEF Take
    <3>2. PhaseStatus' BY <3>1, Zenon DEF PhaseStatus, Live
    <3>3. PhaseJob' BY <1>1, <2>1, <3>1, OwnPhase, Zenon DEF PhaseJob, Writing, Live
    <3> QED BY <3>2, <3>3
  <2> QED BY <1>1, <2>2, <2>3, ReconcileTakes
<1>2. CASE Write
  <2>0. job \in Job /\ job # Idle
    BY <1>2 DEF Write, StatusUpdated, StatusConflict, FinalizerRemoved, WriteFailed, TypeOK
  <2>1. CASE StatusUpdated
    <3> DEFINE v == job.wd
    <3>1. v \in WDs /\ Writing(v) /\ job' = Idle BY <2>0, <2>1 DEF StatusUpdated, Writing, Job
    <3>2. /\ wd'[v].status = applyFields(job) /\ wd'[v].exists = wd[v].exists
          /\ wd'[v].finalizer = wd[v].finalizer /\ wd'[v].deleting = wd[v].deleting
          /\ wd'[v].mode = wd[v].mode /\ \A w \in WDs : w # v => wd'[w] = wd[w]
      BY <2>1, <3>1, Zenon DEF StatusUpdated, TypeOK, WD
    <3>3. wd'[v].status.phase = job.phase BY <3>2 DEF applyFields
    <3>4. job.phase # "" /\ (Live(v) => job.phase # "Observed") BY <3>1, Zenon DEF PhaseJob
    <3> HIDE DEF v
    <3>5. PhaseStatus' BY <3>2, <3>3, <3>4, Zenon DEF PhaseStatus, Live
    <3> QED BY <3>1, <3>5, Zenon DEF PhaseJob, Writing
  <2>2. CASE StatusConflict \/ WriteFailed
    <3>1. wd' = wd BY <2>2 DEF StatusConflict, WriteFailed
    <3>2. job' = Idle \/ /\ job'.step = job.step /\ job'.wd = job.wd /\ job'.phase = job.phase
                         /\ job'.mem = job.mem
      BY <2>0, <2>2, Zenon DEF StatusConflict, WriteFailed, Job
    <3> QED BY <1>0, <2>0, <3>1, <3>2 DEF Writing, Live
  <2>3. CASE FinalizerRemoved
    <3>1. job' = Idle BY <2>3 DEF FinalizerRemoved
    <3>2. \A w \in WDs : wd'[w] = wd[w] \/ ~wd'[w].exists
      BY <2>0, <2>3 DEF FinalizerRemoved, TypeOK, WD, Job
    <3> QED BY <3>1, <3>2, Zenon DEF PhaseJob, PhaseStatus, Writing, Live
  <2> QED BY <1>2, <2>1, <2>2, <2>3 DEF Write
<1>3. CASE SyncWDs \/ (\E kind \in Kinds : SyncWorkloads(kind)) \/ Restart
  <2>1. wd' = wd /\ (job' = job \/ job' = Idle) BY <1>3 DEF SyncWDs, SyncWorkloads, Restart
  <2> QED BY <1>0, <2>1 DEF Writing, Live
<1>4. CASE Tick
  <2>1. job' = Idle BY <1>4 DEF Tick
  <2>2. \A w \in WDs : /\ wd'[w].exists = wd[w].exists /\ wd'[w].finalizer = wd[w].finalizer
                       /\ wd'[w].deleting = wd[w].deleting /\ wd'[w].mode = wd[w].mode
                       /\ wd'[w].status = OlderStatus(w, wd[w].status)
    BY <1>4, TickKeeps
  <2>3. \A w \in WDs : /\ wd'[w].status.phase = wd[w].status.phase
                       /\ wd[w].status.degradedSince = Nil => wd'[w].status.degradedSince = Nil
    BY <2>2, AgeingKeeps DEF TypeOK, WD
  <2>4. PhaseStatus' BY <2>2, <2>3, Zenon DEF PhaseStatus, Live
  <2> QED BY <2>1, <2>4, Zenon DEF PhaseJob, Writing
<1>5. CASE \E x \in Workloads : \/ ScaleWorkload(x) \/ PodsChange(x) \/ RolloutChange(x)
                                \/ DeleteWorkload(x) \/ CreateWorkload(x)
  <2>1. wd' = wd /\ job' = job
    BY <1>5, Zenon DEF ScaleWorkload, PodsChange, RolloutChange, DeleteWorkload,
        CreateWorkload, Outside
  <2> QED BY <1>0, <2>1 DEF Writing, Live
<1>6. ASSUME NEW v \in WDs, DeleteWD(v) \/ CreateWD(v) PROVE PhaseInv'
  <2>1. job' = IF job # Idle /\ job.wd = v THEN [job EXCEPT !.current = FALSE] ELSE job
    BY <1>6 DEF DeleteWD, CreateWD, UserWrites
  <2>2. \A w \in WDs : Writing(w)' => Writing(w) /\ job'.phase = job.phase /\ job'.mem = job.mem
    BY <2>1 DEF Writing, TypeOK, Job, Idle
  <2>3. \A w \in WDs : w # v => wd'[w] = wd[w]
    BY <1>6 DEF DeleteWD, CreateWD, UserWrites, TypeOK
  <2>4. ~Live(v)' BY <1>6 DEF DeleteWD, CreateWD, UserWrites, Live, TypeOK, WD, NewWD
  <2>5. wd[v].exists => wd'[v].status = wd[v].status
    BY <1>6, UsersKeepStatus DEF CreateWD
  <2> QED BY <1>0, <2>2, <2>3, <2>4, <2>5 DEF Live
<1>7. CASE UNCHANGED vars BY <1>0, <1>7 DEF vars, Writing, Live
<1> QED
  BY <1>1, <1>2, <1>3, <1>4, <1>5, <1>6, <1>7, Zenon
  DEF Next, Environment, Steady, TogglePause, EditMode
-----------------------------------------------------------------------------
(***************************************************************************)
(* The condition, the gauges and the notifications.                        *)
(***************************************************************************)

\* The condition, the gauges and the announcement fit the phase of the API server.
GaugeInv ==
  \A w \in WDs : wd[w].exists /\ wd[w].status.phase # ""
                   => phaseGauge[w] = recordPhase({}, wd[w].status.phase)
AnnouncedInv ==
  \A w \in WDs : wd[w].exists /\ shouldNotify(wd[w].status.phase)
                   => announced[w] = wd[w].status.phase
ConditionInv ==
  \A w \in WDs : wd[w].exists =>
    /\ wd[w].status.phase \in DOMAIN ConditionOf
         => condition[w] = ConditionOf[wd[w].status.phase]
    /\ wd[w].status.phase = "" => condition[w] = ""
    /\ wd[w].status.phase = "Released" => condition[w] = "False"

ReportType ==
  /\ condition \in [WDs -> {"", "True", "False", "Unknown"}]
  /\ phaseGauge \in [WDs -> SUBSET Phases]
  /\ announced \in [WDs -> Phases]

\* What ConditionOf says, one by one.
LEMMA ConditionValues ==
  /\ DOMAIN ConditionOf = {"Healthy", "Degraded", "Suspended", "Paused", "Unknown"}
  /\ ConditionOf["Healthy"] = "True"
  /\ ConditionOf["Degraded"] = "False" /\ ConditionOf["Suspended"] = "False"
  /\ ConditionOf["Paused"] = "Unknown" /\ ConditionOf["Unknown"] = "Unknown"
  BY DEF ConditionOf

\* At first there is nothing to report.
LEMMA InitReports ==
  ASSUME ReportsInit
  PROVE  ReportType /\ GaugeInv /\ AnnouncedInv /\ ConditionInv /\ PhaseInv
<1>1. PICK mode \in [WDs -> Modes] :
        wd = [w \in WDs |-> [NewWD(mode[w]) EXCEPT !.exists = "create" \notin Disturbances]]
  BY Zenon DEF ReportsInit, Init
<1>2. \A w \in WDs : wd[w].status = EmptyStatus /\ ~wd[w].finalizer BY <1>1 DEF NewWD
<1>3. EmptyStatus.phase = "" BY DEF EmptyStatus
<1>4. job = Idle BY Zenon DEF ReportsInit, Init
<1>5. /\ condition = [w \in WDs |-> ""] /\ phaseGauge = [w \in WDs |-> {}]
      /\ announced = [w \in WDs |-> ""]
  BY Zenon DEF ReportsInit
<1>6. ReportType BY <1>5, Zenon DEF ReportType, Phases
<1>7. PhaseInv BY <1>2, <1>4, Zenon DEF PhaseInv, PhaseJob, PhaseStatus, Writing, Live
<1>8. ConditionInv BY <1>2, <1>3, <1>5, ConditionValues, Zenon DEF ConditionInv
<1> QED BY <1>2, <1>3, <1>6, <1>7, <1>8, Zenon DEF GaugeInv, AnnouncedInv, shouldNotify

\* A status write that succeeded reports the phase that it wrote, and notifies unless the
\* phase is the one that the API server has already.
LEMMA WriteReports ==
  ASSUME TypeOK, PhaseInv, ReportType, GaugeInv, AnnouncedInv, ConditionInv, StatusUpdated, Report
  PROVE  ReportType' /\ GaugeInv' /\ AnnouncedInv' /\ ConditionInv'
<1>0. job \in Job /\ job # Idle BY DEF StatusUpdated, TypeOK
<1> DEFINE v == job.wd
           p == job.phase
<1>1. v \in WDs /\ p \in Phases /\ Writing(v) /\ wd[v].exists
  BY <1>0 DEF StatusUpdated, Writing, Job
<1>2. /\ wd'[v].status = applyFields(job) /\ \A w \in WDs : w # v => wd'[w] = wd[w]
  BY <1>1 DEF StatusUpdated, TypeOK, WD
<1>3. wd'[v].status.phase = p BY <1>2 DEF applyFields
<1>4. /\ p # ""
      /\ p # "Unknown" => job.mem.phase = wd[v].status.phase
      /\ p = "Released" => wd[v].status.phase \in {"Suspended", "Released"}
  BY <1>1, Zenon DEF PhaseInv, PhaseJob, ReleasedAfter
<1>5. /\ condition' = [condition EXCEPT ![v] = setCondition(@, p)]
      /\ phaseGauge' = [phaseGauge EXCEPT ![v] = recordPhase(@, p)]
      /\ announced' = [announced EXCEPT ![v] = maybeNotify(@, job.mem.phase, p)]
  BY DEF Report
<1> HIDE DEF v, p
<1>6. /\ condition'[v] = setCondition(condition[v], p)
      /\ phaseGauge'[v] = recordPhase({}, p)
      /\ announced'[v] = maybeNotify(announced[v], job.mem.phase, p)
      /\ \A w \in WDs : w # v => /\ condition'[w] = condition[w]
                                 /\ phaseGauge'[w] = phaseGauge[w]
                                 /\ announced'[w] = announced[w]
  BY <1>1, <1>5, Zenon DEF ReportType, recordPhase
<1>7. ReportType'
  <2>1. setCondition(condition[v], p) \in {"", "True", "False", "Unknown"}
    BY <1>1, ConditionValues, Zenon DEF setCondition, ReportType
  <2>2. recordPhase(phaseGauge[v], p) \in SUBSET Phases BY <1>1 DEF recordPhase
  <2>3. maybeNotify(announced[v], job.mem.phase, p) \in Phases
    BY <1>1, Zenon DEF maybeNotify, ReportType
  <2> QED BY <1>1, <1>5, <2>1, <2>2, <2>3, Zenon DEF ReportType
<1>8. GaugeInv' BY <1>2, <1>3, <1>6, Zenon DEF GaugeInv
<1>9. AnnouncedInv'
  <2>1. shouldNotify(p) => announced'[v] = p
    BY <1>1, <1>4, <1>6, Zenon DEF AnnouncedInv, maybeNotify, shouldNotify
  <2> QED BY <1>2, <1>3, <1>6, <2>1 DEF AnnouncedInv
<1>10. ConditionInv'
  <2>1. p \in DOMAIN ConditionOf => condition'[v] = ConditionOf[p] BY <1>6 DEF setCondition
  <2>2. p = "Released" => condition'[v] = "False"
    <3> SUFFICES ASSUME p = "Released" PROVE condition'[v] = "False" OBVIOUS
    <3>1. condition[v] = "False" BY <1>1, <1>4, ConditionValues, Zenon DEF ConditionInv
    <3> QED BY <1>6, <3>1, ConditionValues DEF setCondition
  <2>3. ASSUME NEW w \in WDs, wd'[w].exists
        PROVE  /\ wd'[w].status.phase \in DOMAIN ConditionOf
                    => condition'[w] = ConditionOf[wd'[w].status.phase]
               /\ wd'[w].status.phase = "" => condition'[w] = ""
               /\ wd'[w].status.phase = "Released" => condition'[w] = "False"
    <3>1. CASE w = v BY <1>3, <1>4, <2>1, <2>2, <3>1, Zenon
    <3>2. CASE w # v
      <4>1. wd'[w] = wd[w] BY <1>2, <3>2
      <4>2. condition'[w] = condition[w] BY <1>6, <3>2
      <4>3. wd[w].exists BY <2>3, <4>1
      <4> QED BY <4>1, <4>2, <4>3, Zenon DEF ConditionInv
    <3> QED BY <3>1, <3>2, Zenon
  <2> QED BY <2>3, Zenon DEF ConditionInv
<1> QED BY <1>7, <1>8, <1>9, <1>10

\* Every other step leaves the reports and the phases as they are; only a restart forgets
\* the gauges.
LEMMA OtherReports ==
  ASSUME TypeOK, ReportType, AnnouncedInv, ConditionInv, [Next]_vars, ~StatusUpdated,
         Forget \/ (UNCHANGED vars /\ UNCHANGED reportVars)
  PROVE  /\ ReportType' /\ AnnouncedInv' /\ ConditionInv'
         /\ "crash" \notin Disturbances /\ GaugeInv => GaugeInv'
<1>1. announced' = announced BY Zenon DEF Forget, reportVars
<1>2. \A w \in WDs : condition'[w] = IF wd'[w].exists /\ ~wd[w].exists THEN "" ELSE condition[w]
  <2>1. CASE Forget BY <2>1, Zenon DEF Forget
  <2>2. CASE UNCHANGED vars /\ UNCHANGED reportVars BY <2>2, Zenon DEF vars, reportVars
  <2> QED BY <2>1, <2>2, Zenon
<1>3. \/ Restart /\ phaseGauge' = [w \in WDs |-> {}]
      \/ phaseGauge' = phaseGauge
  BY Zenon DEF Forget, reportVars
<1>4. ReportType'
  <2>1. condition' \in [WDs -> {"", "True", "False", "Unknown"}]
    <3>1. CASE Forget BY <3>1, Zenon DEF Forget, ReportType
    <3>2. CASE UNCHANGED reportVars BY <3>2, Zenon DEF reportVars, ReportType
    <3> QED BY <3>1, <3>2, Zenon
  <2>2. phaseGauge' \in [WDs -> SUBSET Phases] BY <1>3, Zenon DEF ReportType
  <2> QED BY <1>1, <2>1, <2>2, Zenon DEF ReportType
<1>5. \A w \in WDs : wd'[w].exists =>
        \/ wd[w].exists /\ wd'[w].status.phase = wd[w].status.phase
        \/ ~wd[w].exists /\ wd'[w].status.phase = ""
  BY PhaseStays, Zenon
<1>6. AnnouncedInv' BY <1>1, <1>5, Zenon DEF AnnouncedInv, shouldNotify
<1>7. ConditionInv'
  <2>1. "" \notin DOMAIN ConditionOf BY ConditionValues
  <2> QED BY <1>2, <1>5, <2>1, Zenon DEF ConditionInv
<1>8. ASSUME "crash" \notin Disturbances, GaugeInv PROVE GaugeInv'
  <2>0. ~Restart BY <1>8 DEF Restart
  <2>1. phaseGauge' = phaseGauge BY <1>3, <2>0
  <2> QED BY <1>5, <1>8, <2>1, Zenon DEF GaugeInv
<1> QED BY <1>4, <1>6, <1>7, <1>8

\* Every step keeps what is reported in line with the phase.
LEMMA NextReports ==
  ASSUME TypeOK, PhaseInv, ReportType, AnnouncedInv, ConditionInv, GaugeInv,
         "crash" \notin Disturbances, [ReportsNext]_<<vars, reportVars>>
  PROVE  ReportType' /\ AnnouncedInv' /\ ConditionInv' /\ GaugeInv'
<1>1. CASE ReportsNext /\ StatusUpdated BY <1>1, WriteReports DEF ReportsNext
<1>2. CASE ReportsNext /\ ~StatusUpdated BY <1>2, OtherReports DEF ReportsNext
<1>3. CASE UNCHANGED <<vars, reportVars>>
  <2>1. ~StatusUpdated BY <1>3 DEF StatusUpdated, vars
  <2> QED BY <1>3, <2>1, OtherReports
<1> QED BY <1>1, <1>2, <1>3

\* PhaseInv holds where only the controller writes.
LEMMA PhaseCorrect == ASSUME Steady PROVE ReportsSpec => [](TypeOK /\ PhaseInv)
<1>1. TypeOK /\ CacheInv /\ LiveInv /\ PhaseInv /\ [Next]_vars => PhaseInv' BY NextPhase
<1>2. ReportsInit => Init /\ PhaseInv BY InitReports, Zenon DEF ReportsInit
<1>3. [ReportsNext]_<<vars, reportVars>> => [Next]_vars BY DEF ReportsNext
<1> QED BY <1>1, <1>2, <1>3, TypeCorrect, CacheCorrect, LiveCorrect, PTL DEF ReportsSpec, Spec

\* What is reported does not change what the controller does.
LEMMA ReportedIsSpec == ReportsSpec => Spec
<1>1. ReportsInit => Init BY Zenon DEF ReportsInit
<1>2. [ReportsNext]_<<vars, reportVars>> => [Next]_vars BY DEF ReportsNext
<1> QED BY <1>1, <1>2, PTL DEF ReportsSpec, Spec

\* What is reported is in line with the phase of the API server.
LEMMA ReportsCorrect ==
  ASSUME Steady, "crash" \notin Disturbances
  PROVE  ReportsSpec => [](ReportType /\ AnnouncedInv /\ ConditionInv /\ GaugeInv)
<1> DEFINE Reports == ReportType /\ AnnouncedInv /\ ConditionInv /\ GaugeInv
<1>1. ReportsInit => Reports BY InitReports
<1>2. (TypeOK /\ PhaseInv) /\ Reports /\ [ReportsNext]_<<vars, reportVars>> => Reports'
  BY NextReports
<1> QED BY <1>1, <1>2, PhaseCorrect, PTL DEF ReportsSpec

\* Nothing has the phase Released.
NoneReleased == \A w \in WDs : wd[w].exists => wd[w].status.phase # "Released"

\* Without maxSuspendDuration nothing gets it.
LEMMA NextUnreleased ==
  ASSUME TypeOK, PhaseInv, \A w \in WDs : MaxSuspend[w] = 0, NoneReleased, [Next]_vars
  PROVE  NoneReleased'
<1>1. CASE StatusUpdated
  <2>0. job \in Job /\ job # Idle BY <1>1 DEF StatusUpdated, TypeOK
  <2> DEFINE v == job.wd
  <2>1. v \in WDs /\ Writing(v) /\ wd[v].exists BY <1>1, <2>0 DEF StatusUpdated, Writing, Job
  <2>2. wd'[v].status = applyFields(job) /\ \A w \in WDs : w # v => wd'[w] = wd[w]
    BY <1>1, <2>1 DEF StatusUpdated, TypeOK, WD
  <2>3. wd'[v].status.phase = job.phase BY <2>2 DEF applyFields
  <2>4. ~ReleasedAfter(v, wd[v].status.phase) BY <2>1 DEF ReleasedAfter, NoneReleased
  <2>5. job.phase # "Released" BY <2>1, <2>4, Zenon DEF PhaseInv, PhaseJob
  <2> HIDE DEF v
  <2> QED BY <2>2, <2>3, <2>5, Zenon DEF NoneReleased
<1>2. CASE ~StatusUpdated BY <1>2, PhaseStays, Zenon DEF NoneReleased
<1> QED BY <1>1, <1>2

\* Between events the gauges show the phase that the API server has, and a phase that is
\* announced has been announced after the one before it.  A crash is excluded, since a
\* new process has no gauges until a reconcile writes a status, and so is
\* maxSuspendDuration, since recordPhase has no gauge for the phase Released.
THEOREM ReportsStayCurrent ==
  ASSUME Steady, Flat, NoRollouts, "crash" \notin Disturbances,
         \A w \in WDs : MaxSuspend[w] = 0
  PROVE  ReportsSpec => []ReportsCurrent
<1>1. TypeOK /\ PhaseInv /\ SettledPhase /\ AnnouncedInv /\ GaugeInv /\ NoneReleased
        => ReportsCurrent
  <2> SUFFICES ASSUME TypeOK, PhaseInv, SettledPhase, AnnouncedInv, GaugeInv, NoneReleased,
                      Quiet, NEW w \in WDs, Enforcing(w)
               PROVE  /\ phaseGauge[w] = {wd[w].status.phase}
                      /\ shouldNotify(wd[w].status.phase) => announced[w] = wd[w].status.phase
    BY DEF ReportsCurrent
  <2>1. wd[w].exists /\ Live(w) BY DEF Enforcing, Live
  <2>2. wd[w].status.phase \in Phases BY DEF TypeOK, WD, Status
  <2>3. wd[w].status.phase \notin {"Observed", "Released"}
    BY <2>1, Zenon DEF PhaseInv, PhaseStatus, NoneReleased
  <2>4. wd[w].status.phase # "" BY <2>1, Zenon DEF SettledPhase, PhaseInv, PhaseStatus
  <2>5. phaseGauge[w] = recordPhase({}, wd[w].status.phase) BY <2>1, <2>4, Zenon DEF GaugeInv
  <2>6. phaseGauge[w] = {wd[w].status.phase}
    BY <2>2, <2>3, <2>4, <2>5, Zenon DEF recordPhase, Phases
  <2> QED BY <2>1, <2>6 DEF AnnouncedInv
<1>2. ReportsInit => NoneReleased
  <2>1. ReportsInit => \A w \in WDs : wd[w].status.phase = ""
    <3> SUFFICES ASSUME ReportsInit PROVE \A w \in WDs : wd[w].status.phase = "" OBVIOUS
    <3>1. PICK mode \in [WDs -> Modes] :
            wd = [w \in WDs |-> [NewWD(mode[w]) EXCEPT !.exists = "create" \notin Disturbances]]
      BY Zenon DEF ReportsInit, Init
    <3>2. \A w \in WDs : wd[w].status = EmptyStatus BY <3>1 DEF NewWD
    <3>3. EmptyStatus.phase = "" BY DEF EmptyStatus
    <3> QED BY <3>2, <3>3, Zenon
  <2> QED BY <2>1, Zenon DEF NoneReleased
<1>3. (TypeOK /\ PhaseInv) /\ NoneReleased /\ [ReportsNext]_<<vars, reportVars>> => NoneReleased'
  <2>1. [ReportsNext]_<<vars, reportVars>> => [Next]_vars BY DEF ReportsNext
  <2> QED BY <2>1, NextUnreleased
<1> QED
  BY <1>1, <1>2, <1>3, ReportedIsSpec, PhaseSettles, PhaseCorrect, ReportsCorrect, PTL
  DEF ReportsSpec

\* Between events Ready is True only if the dependencies are ok and klink holds nothing
\* back from the dependent, and False only if one is not ok or the dependent waits for
\* the recovery window, in a calm environment with one WorkloadDependency for each
\* dependent and no dependent among the dependencies.
THEOREM ReadyCanBeBelieved ==
  ASSUME Calm, Flat, Unshared
  PROVE  ReportsSpec => []ReadyIsTrue
<1>1. Steady /\ NoRollouts /\ "crash" \notin Disturbances BY DEF Calm, Steady, NoRollouts
<1>2. TypeOK /\ PhaseInv /\ SettledPhase /\ HealthyMeansRunning /\ ConditionInv => ReadyIsTrue
  <2> SUFFICES ASSUME TypeOK, PhaseInv, SettledPhase, HealthyMeansRunning, ConditionInv, Quiet,
                      NEW w \in WDs, Enforcing(w)
               PROVE  /\ condition[w] = "True"  => allOk(w) /\ owed[Dependent[w]] = 0
                      /\ condition[w] = "False" => ~allOk(w) \/ wd[w].status.phase = "Suspended"
    BY DEF ReadyIsTrue
  <2>1. wd[w].exists /\ Live(w) BY DEF Enforcing, Live
  <2>2. wd[w].status.phase \in Phases BY DEF TypeOK, WD, Status
  <2>3. wd[w].status.phase # "Observed" BY <2>1, Zenon DEF PhaseInv, PhaseStatus
  <2>4. wd[w].status.phase \in DOMAIN ConditionOf
          => condition[w] = ConditionOf[wd[w].status.phase]
    BY <2>1, Zenon DEF ConditionInv
  <2>5. /\ wd[w].status.phase = "" => condition[w] = ""
        /\ wd[w].status.phase = "Released" => condition[w] = "False"
    BY <2>1, Zenon DEF ConditionInv
  <2>6. condition[w] = "True" <=> wd[w].status.phase = "Healthy"
    BY <2>2, <2>3, <2>4, <2>5, ConditionValues, Zenon DEF Phases
  <2>7. wd[w].status.phase = "Healthy" => allOk(w) BY DEF SettledPhase
  <2>8. allOk(w) => wd[w].status.phase \in {"Suspended", "Healthy"} BY DEF SettledPhase
  <2> QED BY <2>6, <2>7, <2>8 DEF HealthyMeansRunning
<1> QED
  BY <1>1, <1>2, ReportedIsSpec, PhaseSettles, PhaseCorrect, ReportsCorrect,
     HealthyHoldsNothing, PTL
=============================================================================
