----------------------- MODULE ReconcilerPhaseProofs ------------------------
(***************************************************************************)
(* What the phases say, when they say it, and for how long.  The           *)
(* invariants about a quiet system are proved along one argument: for      *)
(* every WorkloadDependency either something is still to happen (it is     *)
(* queued, an informer has yet to tell something that will queue it, or    *)
(* the running reconcile has a write to do that makes a difference), or    *)
(* what the invariant says holds of the copies that its last reconcile     *)
(* read.  NextPending shows that no step but a reconcile of its own        *)
(* disturbs this; what is left for each invariant is one reconcile.        *)
(***************************************************************************)
EXTENDS ReconcilerCacheProofs
-----------------------------------------------------------------------------
(***************************************************************************)
(* What is still to happen, and what is known when nothing is.             *)
(***************************************************************************)

\* No dependency of a WorkloadDependency is the dependent of one: what a reconcile
\* sees of the dependencies does not depend on the status of others.
Flat == \A v, w \in WDs : DependentKey(v) \notin DependsOnKeys(w)

\* The workloads that a reconcile of w reads.
Near(w) == {Dependent[w]} \cup Dependencies(w)

\* w will be reconciled, or an informer has yet to tell something that queues it.
Pending(w) == w \in queue \/ ~fresh[w] \/ \E x \in Near(w) : ~level[x]

\* The running reconcile of w is writing another phase, or another status, than the
\* one in the cache.
PhaseDiffers(w) ==
  /\ job # Idle /\ job.wd = w /\ job.step = "status"
  /\ job.phase # wdCache[w].status.phase
StatusDiffers(w) ==
  /\ job # Idle /\ job.wd = w /\ job.step = "status"
  /\ applyFields(job) # wdCache[w].status

\* A write that will conflict is one to an object that is not to be enforced any more.
Doomed ==
  job # Idle /\ ~job.current
    => ~(wd[job.wd].exists /\ wd[job.wd].finalizer /\ ~wd[job.wd].deleting)

\* Nobody but the controller, and whoever deletes it, writes to a WorkloadDependency,
\* and the caches are level when they are read.
Steady == \A d \in {"lag", "pause", "mode"} : d \notin Disturbances

\* A step leaves all that a reconcile of w reads as it is, and a write that makes a
\* difference still to do.
Same(w) ==
  /\ wdCache'[w] = wdCache[w]
  /\ \A x \in Near(w) : workloadCache'[x] = workloadCache[x]
  /\ PhaseDiffers(w) => PhaseDiffers(w)'
  /\ Steady /\ Doomed /\ StatusDiffers(w) => StatusDiffers(w)'

\* What is pending stays pending, unless w is not to be enforced.
PendingOn(w) == Pending(w) => Pending(w)' \/ ~Admitted(w)'

\* They are workloads.
LEMMA NearWorkloads == ASSUME NEW w \in WDs PROVE Near(w) \subseteq Workloads
  BY ConstantsAssumption, SpecAssumption DEF Near, Dependencies

\* A reconcile of another WorkloadDependency leaves w to be reconciled, and what w reads.
LEMMA OtherReconcile ==
  ASSUME TypeOK, NEW w \in WDs, NEW v \in WDs, v # w, Reconcile(v)
  PROVE  (Pending(w) => Pending(w)') /\ Same(w)
<1>1. job = Idle BY ReconcileJob
<1>2. wdCache' = wdCache /\ workloadCache' = workloadCache
  BY ReconcileTakes DEF Take, AddFinalizer, cacheVars
<1>3. Same(w) BY <1>1, <1>2 DEF Same, PhaseDiffers, StatusDiffers
<1>4. w \in queue => w \in queue' BY ReconcileTakes DEF Take, AddFinalizer
<1>5. ~fresh[w] => ~fresh'[w]
  BY ReconcileTakes DEF Take, AddFinalizer, cacheVars, TypeOK
<1>6. \A x \in Workloads : ~level[x] => ~level'[x]
  <2>1. NoPatch \/ \E n \in Nat : Patch(Dependent[v], n) BY ReconcilePatches
  <2> QED BY <2>1, Zenon DEF NoPatch, Patch, TypeOK
<1> QED BY <1>3, <1>4, <1>5, <1>6, NearWorkloads DEF Pending

\* A call of the running reconcile that changes something of w makes its copy stale, and
\* one that gives up queues it again.
LEMMA WritePending ==
  ASSUME TypeOK, CacheInv, NEW w \in WDs, Write
  PROVE  PendingOn(w) /\ (Pending(w)' \/ ~Admitted(w)' \/ Same(w))
<1>0. job \in Job /\ job # Idle
  BY DEF Write, StatusUpdated, StatusConflict, FinalizerRemoved, WriteFailed, TypeOK
<1>1. wdCache' = wdCache /\ workloadCache' = workloadCache /\ level' = level
  BY DEF Write, StatusUpdated, StatusConflict, FinalizerRemoved, WriteFailed, cacheVars
<1>2. queue \subseteq queue'
  BY DEF Write, StatusUpdated, StatusConflict, FinalizerRemoved, WriteFailed
<1>3. \A v \in WDs : ~fresh[v] => ~fresh'[v]
  BY <1>0 DEF Write, StatusUpdated, StatusConflict, FinalizerRemoved, WriteFailed, cacheVars,
              TypeOK, Job
<1>4. Pending(w) => Pending(w)' BY <1>1, <1>2, <1>3 DEF Pending
<1>5. ASSUME ~Pending(w)', Admitted(w)' PROVE Same(w)
  <2>1. fresh[w] /\ wdCache[w] = wd[w]
    BY <1>3, <1>5 DEF CacheInv, FreshIsCurrent, Pending
  <2>2. CASE job.wd # w \/ job.step # "status"
    BY <1>1, <2>2 DEF Same, PhaseDiffers, StatusDiffers
  <2>3. CASE job.wd = w /\ job.step = "status"
    <3>1. CASE StatusUpdated
      <4>1. applyFields(job) = wd[w].status
        BY <1>0, <1>5, <2>3, <3>1, Zenon DEF StatusUpdated, Pending, TypeOK
      <4>2. applyFields(job).phase = job.phase BY DEF applyFields
      <4> QED BY <1>1, <2>1, <2>3, <4>1, <4>2 DEF Same, PhaseDiffers, StatusDiffers
    <3>2. CASE StatusConflict
      <4>1. job.attempt + 1 < maxRetries BY <1>5, <2>3, <3>2 DEF StatusConflict, Pending
      <4>2. job' = [job EXCEPT !.base = wdCache[job.wd].status,
                               !.current = fresh[job.wd], !.attempt = @ + 1]
        BY <3>2, <4>1 DEF StatusConflict
      <4>3. job' # Idle /\ job'.wd = w /\ job'.step = "status" /\ job'.phase = job.phase
        BY <1>0, <2>3, <4>2, Zenon DEF Job, Idle
      <4>4. ~Doomed
        BY <1>0, <1>1, <1>5, <2>1, <2>3, <3>2 DEF StatusConflict, Doomed, Admitted
      <4> QED BY <1>1, <4>3, <4>4 DEF Same, PhaseDiffers
    <3>3. ~FinalizerRemoved BY <2>3 DEF FinalizerRemoved
    <3>4. ~WriteFailed BY <1>5, <2>3 DEF WriteFailed, Pending
    <3> QED BY <3>1, <3>2, <3>3, <3>4 DEF Write
  <2> QED BY <2>2, <2>3
<1> QED BY <1>4, <1>5 DEF PendingOn

\* The informers queue whoever they tell something of; the clock and a restart queue all
\* that are to be reconciled.
LEMMA SystemPending ==
  ASSUME TypeOK, CacheInv, NEW w \in WDs,
         SyncWDs \/ (\E kind \in Kinds : SyncWorkloads(kind)) \/ Tick \/ Restart
  PROVE  PendingOn(w) /\ (Pending(w)' \/ ~Admitted(w)' \/ Same(w))
<1>1. CASE SyncWDs
  <2>1. workloadCache' = workloadCache /\ level' = level /\ job' = job /\ queue \subseteq queue'
    BY <1>1 DEF SyncWDs
  <2>2. CASE ~fresh[w]
    BY <1>1, <2>2 DEF SyncWDs, Pending, PendingOn
  <2>3. CASE fresh[w]
    <3>1. wdCache'[w] = wdCache[w]
      BY <1>1, <2>3 DEF SyncWDs, CacheInv, FreshIsCurrent
    <3> QED BY <2>1, <2>3, <3>1 DEF Pending, PendingOn, Same, PhaseDiffers, StatusDiffers
  <2> QED BY <2>2, <2>3 DEF TypeOK
<1>2. ASSUME NEW kind \in Kinds, SyncWorkloads(kind)
      PROVE  PendingOn(w) /\ (Pending(w)' \/ ~Admitted(w)' \/ Same(w))
  <2>1. wdCache' = wdCache /\ fresh' = fresh /\ job' = job /\ queue \subseteq queue'
    BY <1>2 DEF SyncWorkloads
  <2>2. CASE \E x \in Near(w) : ~level[x] /\ Kind[x] = kind
    <3>1. PICK x \in Near(w) : ~level[x] /\ Kind[x] = kind BY <2>2
    <3>2. x \in Workloads BY NearWorkloads
    <3>3. Name[x] \in DependsOnKeys(w) \/ DependentKey(w) = Name[x]
      BY DEF Near, DependsOnKeys, DependentKey
    <3>4. CASE wdCache[w].exists
      <4>1. w \in findWDsForWorkload(x) BY <3>3, <3>4 DEF findWDsForWorkload
      <4>2. w \in queue' BY <1>2, <3>1, <3>2, <4>1 DEF SyncWorkloads
      <4> QED BY <4>2 DEF Pending, PendingOn
    <3>5. CASE ~wdCache[w].exists
      BY <2>1, <3>5 DEF Admitted, PendingOn
    <3> QED BY <3>4, <3>5
  <2>3. CASE \A x \in Near(w) : level[x] \/ Kind[x] # kind
    <3>1. \A x \in Near(w) : (~level[x] => ~level'[x]) /\ workloadCache'[x] = workloadCache[x]
      BY <1>2, <2>3, NearWorkloads, Zenon DEF SyncWorkloads, CacheInv, LevelIsCurrent
    <3> QED BY <2>1, <3>1 DEF Pending, PendingOn, Same, PhaseDiffers, StatusDiffers
  <2> QED BY <2>2, <2>3
<1>3. CASE Tick
  <2>1. wdCache'[w].exists = wdCache[w].exists /\ wdCache'[w].finalizer = wdCache[w].finalizer
    BY <1>3 DEF Tick, TypeOK, WD
  <2>2. wdCache[w] = wd[w]
    BY <1>3 DEF Tick, Synced, CacheInv, FreshIsCurrent
  <2>3. CASE wd[w].exists /\ wd[w].finalizer
    BY <1>3, <2>3 DEF Tick, Pending, PendingOn
  <2>4. CASE ~(wd[w].exists /\ wd[w].finalizer)
    BY <2>1, <2>2, <2>4 DEF Admitted, PendingOn
  <2> QED BY <2>3, <2>4
<1>4. CASE Restart
  BY <1>4 DEF Restart, Pending, PendingOn, Admitted
<1> QED BY <1>1, <1>2, <1>3, <1>4

\* Users and the Kubernetes controllers: whatever they write, an informer has to tell.
LEMMA EnvironmentPending ==
  ASSUME TypeOK, CacheInv, NEW w \in WDs, Environment
  PROVE  PendingOn(w) /\ (Pending(w)' \/ Same(w))
<1>1. CASE \E x \in Workloads : \/ ScaleWorkload(x) \/ PodsChange(x) \/ RolloutChange(x)
                                \/ DeleteWorkload(x) \/ CreateWorkload(x)
  <2>1. PICK x \in Workloads : \/ ScaleWorkload(x) \/ PodsChange(x) \/ RolloutChange(x)
                               \/ DeleteWorkload(x) \/ CreateWorkload(x) BY <1>1
  <2>2. PICK object : Outside(x, object)
    BY <2>1, Zenon DEF ScaleWorkload, PodsChange, RolloutChange, DeleteWorkload, CreateWorkload
  <2>3. cacheVars' = cacheVars /\ queue' = queue /\ job' = job
    BY <2>2 DEF Outside
  <2>4. \A y \in Workloads : ~level[y] => ~level'[y] BY <2>2 DEF Outside, TypeOK
  <2> QED BY <2>3, <2>4, NearWorkloads
          DEF cacheVars, Pending, PendingOn, Same, PhaseDiffers, StatusDiffers
<1>2. CASE \E v \in WDs : TogglePause(v) \/ EditMode(v) \/ DeleteWD(v) \/ CreateWD(v)
  <2>1. PICK v \in WDs : TogglePause(v) \/ EditMode(v) \/ DeleteWD(v) \/ CreateWD(v) BY <1>2
  <2>2. /\ fresh' = [fresh EXCEPT ![v] = FALSE]
        /\ job' = IF job # Idle /\ job.wd = v THEN [job EXCEPT !.current = FALSE] ELSE job
        /\ workloadCache' = workloadCache /\ wdCache' = wdCache /\ level' = level
        /\ queue' = queue
    BY <2>1 DEF TogglePause, EditMode, DeleteWD, CreateWD, UserWrites
  <2>3. Pending(w) => Pending(w)' BY <2>2 DEF Pending, TypeOK
  <2>4. CASE v = w BY <2>2, <2>4 DEF Pending, PendingOn, TypeOK
  <2>5. CASE v # w
    <3>1. job # Idle /\ job.wd = w => job' = job BY <2>2, <2>5
    <3> QED BY <2>2, <2>3, <3>1, Zenon DEF PendingOn, Same, PhaseDiffers, StatusDiffers
  <2> QED BY <2>4, <2>5
<1> QED BY <1>1, <1>2 DEF Environment

\* Every step that is not a reconcile of w leaves it pending, or leaves all that its last
\* reconcile read as it was: the watches and their mapping functions miss nothing.
LEMMA NextPending ==
  ASSUME TypeOK, CacheInv, NEW w \in WDs, [Next]_vars, ~Reconcile(w)
  PROVE  PendingOn(w) /\ (Pending(w)' \/ ~Admitted(w)' \/ Same(w))
<1>1. CASE \E v \in WDs : Reconcile(v) BY <1>1, OtherReconcile DEF PendingOn
<1>2. CASE Write BY <1>2, WritePending
<1>3. CASE SyncWDs \/ (\E kind \in Kinds : SyncWorkloads(kind)) \/ Tick \/ Restart
  BY <1>3, SystemPending
<1>4. CASE Environment BY <1>4, EnvironmentPending
<1>5. CASE UNCHANGED vars
  BY <1>5 DEF vars, PendingOn, Pending, Same, PhaseDiffers, StatusDiffers
<1> QED BY <1>1, <1>2, <1>3, <1>4, <1>5 DEF Next

\* What a reconcile sees of the dependencies is in the workloads it reads.
LEMMA SameOk ==
  ASSUME Flat, NEW w \in WDs, \A x \in Near(w) : workloadCache'[x] = workloadCache[x]
  PROVE  allOk(w)' <=> allOk(w)
<1>1. ASSUME NEW x \in Dependencies(w) PROVE ~isSuspendedByKlink(x) /\ ~isSuspendedByKlink(x)'
  BY <1>1 DEF isSuspendedByKlink, Flat, DependsOnKeys
<1>2. ASSUME NEW x \in Dependencies(w) PROVE Serves(x)' <=> Serves(x)
  BY <1>2 DEF Serves, isHealthyAsDependency, Near
<1>3. ASSUME NEW x \in Dependencies(w) PROVE depStatus(x)' = depStatus(x)
  BY <1>1, <1>2, <1>3 DEF depStatus
<1> QED BY <1>3 DEF allOk, Near

\* A reconcile of w gets as far as the dependencies.
Watching(w) == Admitted(w) /\ ~wdCache[w].paused /\ workloadCache[Dependent[w]].exists

\* A reconcile leaves what it read as it is.
LEMMA OwnReads ==
  ASSUME Flat, NEW w \in WDs, Reconcile(w)
  PROVE  /\ wdCache' = wdCache /\ workloadCache' = workloadCache
         /\ Admitted(w)' <=> Admitted(w)
         /\ Watching(w)' <=> Watching(w)
         /\ allOk(w)' <=> allOk(w)
<1>1. wdCache' = wdCache /\ workloadCache' = workloadCache
  BY ReconcileTakes DEF Take, AddFinalizer, cacheVars
<1> QED BY <1>1, SameOk DEF Admitted, Watching

\* Between events, what the caches say is so.
LEMMA QuietReads ==
  ASSUME TypeOK, CacheInv, Quiet, NEW w \in WDs
  PROVE  /\ ~Pending(w) /\ ~PhaseDiffers(w) /\ ~StatusDiffers(w)
         /\ wdCache[w] = wd[w]
         /\ workloadCache[Dependent[w]] = workload[Dependent[w]]
         /\ Enforcing(w) => Watching(w)
BY NearWorkloads, ConstantsAssumption
   DEF Quiet, Synced, Pending, PhaseDiffers, StatusDiffers, CacheInv, FreshIsCurrent,
       LevelIsCurrent, Enforcing, Watching, Admitted
-----------------------------------------------------------------------------
(***************************************************************************)
(* Strict mode.                                                            *)
(***************************************************************************)

\* The dependent is at zero in the cache, as strict mode wants it.
StrictOn(w) ==
  Watching(w) /\ wdCache[w].mode = "strict" /\ wdCache[w].status.phase = "Suspended" /\ ~allOk(w)
    => workloadCache[Dependent[w]].replicas = 0

\* Strict mode has done its work, or something is still to happen to w.
StrictInv == \A w \in WDs : Pending(w) \/ PhaseDiffers(w) \/ StrictOn(w)

\* A reconcile that finds a strict dependent above zero takes it down, and the patch
\* makes the copy in the cache stale; a Rollout that is busy makes it Degraded instead.
LEMMA StrictReconcile ==
  ASSUME TypeOK, CacheInv, Flat, \A v \in WDs : MaxSuspend[v] = 0, NEW w \in WDs, Reconcile(w)
  PROVE  Pending(w)' \/ PhaseDiffers(w)' \/ StrictOn(w)'
<1>1. SUFFICES ASSUME ~StrictOn(w)' PROVE Pending(w)' \/ PhaseDiffers(w)'
  OBVIOUS
<1>2. /\ Watching(w) /\ ~allOk(w) /\ wdCache[w].mode = "strict"
      /\ wdCache[w].status.phase = "Suspended"
      /\ workloadCache[Dependent[w]].replicas # 0
      /\ wdCache' = wdCache
  BY <1>1, OwnReads DEF StrictOn
<1>3. DeferToRollout(w) \/ handleSuspended(w)
  BY <1>2 DEF Reconcile, ReconcileGone, handleDeletion, AddFinalizer, Unadmitted, RejectCycle,
              ReconcilePaused, DependentMissing, ReconcileObserve, ReconcileGate, StayReleased,
              ForceRestore, AwaitMaxSuspend, Limited, StartDegraded, AwaitWindow, Suspend,
              Degrading, BecomeHealthy, StartRecovery, AwaitRecovery, Restore, Recovering,
              Watching, Admitted
<1>4. CASE DeferToRollout(w)
  <2>1. job' # Idle /\ job'.wd = w /\ job'.step = "status" /\ job'.phase = "Degraded"
    BY <1>4 DEF DeferToRollout, setStatus, Idle
  <2> QED BY <1>2, <2>1 DEF PhaseDiffers
<1>5. CASE handleSuspended(w)
  <2>1. Patch(Dependent[w], 0)
    BY <1>2, <1>5 DEF handleSuspended, suspendWorkload
  <2>2. Dependent[w] \in Workloads BY ConstantsAssumption
  <2>3. ~level'[Dependent[w]]
    BY <1>2, <2>1, <2>2 DEF Patch, NoPatch, TypeOK, CacheInv, LevelIsCurrent
  <2> QED BY <2>3 DEF Pending, Near
<1> QED BY <1>3, <1>4, <1>5

\* Every step keeps StrictInv.
LEMMA NextStrict ==
  ASSUME TypeOK, CacheInv, Flat, \A v \in WDs : MaxSuspend[v] = 0, StrictInv, [Next]_vars
  PROVE  StrictInv'
<1>1. SUFFICES ASSUME NEW w \in WDs PROVE Pending(w)' \/ PhaseDiffers(w)' \/ StrictOn(w)'
  BY DEF StrictInv
<1>2. CASE Reconcile(w) BY <1>2, StrictReconcile
<1>3. CASE ~Reconcile(w)
  <2>1. PendingOn(w) /\ (Pending(w)' \/ ~Admitted(w)' \/ Same(w)) BY <1>3, NextPending
  <2>2. ~Admitted(w)' => StrictOn(w)' BY DEF StrictOn, Watching
  <2>3. CASE Same(w)
    <3>1. allOk(w)' <=> allOk(w) BY <2>3, SameOk DEF Same
    <3>2. StrictOn(w) => StrictOn(w)'
      BY <2>3, <3>1 DEF Same, StrictOn, Watching, Admitted, Near
    <3> QED BY <2>1, <2>2, <2>3, <3>2 DEF StrictInv, PendingOn, Same
  <2> QED BY <2>1, <2>2, <2>3
<1> QED BY <1>2, <1>3

\* Strict mode wins over whoever scales the dependent up, with every disturbance of the
\* model: stale caches, failed writes, crashes, pauses and edits among them.  The limit
\* of a suspension is left out (MaxSuspend = 0), since it lets go on purpose.
THEOREM StrictModeWins ==
  ASSUME Flat, \A v \in WDs : MaxSuspend[v] = 0
  PROVE  Spec => []StrictEnforced
<1>1. Init => StrictInv BY Zenon DEF Init, StrictInv, Pending
<1>2. TypeOK /\ CacheInv /\ StrictInv /\ [Next]_vars => StrictInv' BY NextStrict
<1>3. TypeOK /\ CacheInv /\ StrictInv => StrictEnforced
  BY QuietReads DEF StrictInv, StrictOn, StrictEnforced, Enforcing
<1> QED BY <1>1, <1>2, <1>3, TypeCorrect, CacheCorrect, PTL DEF Spec
-----------------------------------------------------------------------------
(***************************************************************************)
(* The status of an object that only the controller writes: at most one of *)
(* its clocks runs, and no write to it conflicts.                          *)
(***************************************************************************)

\* In the API server, w is one that Reconcile enforces.
Live(w) ==
  /\ wd[w].exists /\ wd[w].finalizer /\ ~wd[w].deleting
  /\ wd[w].mode \in {"strict", "soft"}

\* The running reconcile still has to write the status of w.
Writing(w) == job # Idle /\ job.step = "status" /\ job.wd = w

\* No clock of a window runs.
Unclocked(s) == s.degradedSince = Nil /\ s.healthySince = Nil

\* At most one of the clocks runs, and Healthy is not on the way to Suspended.
Tidy(phase, s) ==
  /\ s.degradedSince = Nil \/ s.healthySince = Nil
  /\ phase = "Healthy" => s.degradedSince = Nil

\* An object without finalizer has never been enforced.
NotStarted ==
  \A w \in WDs : wd[w].exists /\ ~wd[w].finalizer
                   => Unclocked(wd[w].status) /\ wd[w].status.phase \in {"", "Unknown"}

\* So has one whose finalizer was not there when its reconcile began.
JobStarted ==
  \A w \in WDs : Writing(w) =>
    \/ wd[w].exists /\ wd[w].finalizer
    \/ /\ ~wd[w].finalizer
       /\ job.phase = "Unknown" /\ Unclocked(job.mem) /\ Unclocked(job.base)

\* The write of an enforced object does not conflict, and clears what the handler
\* cleared.
JobTidy == \A w \in WDs : Writing(w) /\ Live(w) => job.base = job.mem /\ Tidy(job.phase, job.mem)

StatusTidy == \A w \in WDs : Live(w) => Tidy(wd[w].status.phase, wd[w].status)

LiveInv == Doomed /\ NotStarted /\ JobStarted /\ JobTidy /\ StatusTidy

\* A reconcile reads what the API server has.
LEMMA SteadyReads ==
  ASSUME TypeOK, CacheInv, Steady, NEW w \in WDs, Reconcile(w)
  PROVE  fresh[w] /\ wdCache[w] = wd[w] /\ \A x \in Workloads : workloadCache[x] = workload[x]
<1>1. Synced BY ReconcileTakes DEF Take, AddFinalizer, Readable, Steady
<1> QED BY <1>1 DEF Synced, CacheInv, FreshIsCurrent, LevelIsCurrent

\* What a reconcile leaves to be written.
LEMMA SteadyJob ==
  ASSUME TypeOK, CacheInv, Steady, NEW w \in WDs, Reconcile(w), job' # Idle
  PROVE  /\ job'.wd = w /\ job'.current
         /\ job'.step = "status" =>
              /\ job'.base = job'.mem
              /\ \/ Unadmitted(w) /\ job'.phase = "Unknown" /\ job'.mem = wdCache[w].status
                 \/ /\ Admitted(w)
                    /\ wdCache[w].mode \in {"strict", "soft"}
                         /\ Tidy(wdCache[w].status.phase, wdCache[w].status)
                       => Tidy(job'.phase, job'.mem)
<1> DEFINE s == wdCache[w].status
           Goal == /\ job'.wd = w /\ job'.current
                   /\ job'.step = "status" =>
                        /\ job'.base = job'.mem
                        /\ \/ Unadmitted(w) /\ job'.phase = "Unknown" /\ job'.mem = s
                           \/ /\ Admitted(w)
                              /\ wdCache[w].mode \in {"strict", "soft"} /\ Tidy(s.phase, s)
                                 => Tidy(job'.phase, job'.mem)
<1> SUFFICES Goal OBVIOUS
<1>0. fresh[w] /\ s \in Status /\ job = Idle BY SteadyReads, ReconcileJob DEF TypeOK, WD
<1>1. ASSUME NEW m, NEW p, setStatus(w, m, p)
      PROVE  /\ job'.wd = w /\ job'.current /\ job'.step = "status"
             /\ job'.base = m /\ job'.mem = m /\ job'.phase = p
  BY <1>0, <1>1 DEF setStatus
<1>2. ~(\/ ReconcileGone(w) \/ AddFinalizer(w) \/ AwaitMaxSuspend(w) \/ AwaitWindow(w)
        \/ AwaitRecovery(w))
  BY <1>0 DEF ReconcileGone, AddFinalizer, AwaitMaxSuspend, AwaitWindow, AwaitRecovery
<1>3. CASE handleDeletion(w) BY <1>0, <1>3 DEF handleDeletion
<1>4. CASE RejectCycle(w) BY <1>1, <1>4 DEF RejectCycle
<1>5. ASSUME NEW m, NEW p, setStatus(w, m, p), Admitted(w),
             wdCache[w].mode \in {"strict", "soft"} /\ Tidy(s.phase, s) => Tidy(p, m)
      PROVE  Goal
  BY <1>1, <1>5
<1> HIDE DEF Goal
<1>6. CASE ReconcilePaused(w) \/ DependentMissing(w) \/ DeferToRollout(w) \/ StayReleased(w)
  <2>1. PICK p \in {"Paused", "Unknown", "Degraded", "Released"} : setStatus(w, s, p)
    BY <1>6 DEF ReconcilePaused, DependentMissing, DeferToRollout, StayReleased
  <2>2. Admitted(w)
    BY <1>6 DEF ReconcilePaused, DependentMissing, DeferToRollout, StayReleased, Enforce, Evaluate
  <2>3. Tidy(s.phase, s) => Tidy(p, s) BY DEF Tidy
  <2> QED BY <1>5, <2>1, <2>2, <2>3
<1>7. CASE ReconcileObserve(w) \/ ReconcileGate(w)
  <2>1. PICK p : setStatus(w, s, p) BY <1>7 DEF ReconcileObserve, ReconcileGate
  <2>2. Admitted(w) /\ wdCache[w].mode \notin {"strict", "soft"}
    BY <1>7 DEF ReconcileObserve, ReconcileGate, Evaluate
  <2> QED BY <1>5, <2>1, <2>2
<1>8. CASE \/ ForceRestore(w) \/ handleSuspended(w) \/ StartDegraded(w) \/ Suspend(w)
           \/ BecomeHealthy(w) \/ StartRecovery(w) \/ Restore(w)
  <2>1. Admitted(w)
    BY <1>8 DEF ForceRestore, handleSuspended, StartDegraded, Suspend, Degrading, BecomeHealthy,
                StartRecovery, Restore, Recovering, Enforce, Evaluate
  <2>2. CASE ForceRestore(w)
    <3> DEFINE m == [s EXCEPT !.savedReplicas = Nil, !.healthySince = Nil]
    <3>1. setStatus(w, m, "Released") BY <2>2 DEF ForceRestore
    <3>2. Tidy("Released", m) BY <1>0 DEF Tidy, Status
    <3> QED BY <1>5, <2>1, <3>1, <3>2
  <2>3. CASE handleSuspended(w) \/ Suspend(w)
    <3>1. PICK m \in {s, SuspendedStatus(w, s)} : setStatus(w, m, "Suspended")
      BY <2>3 DEF handleSuspended, Suspend
    <3>2. m.degradedSince = s.degradedSince /\ m.healthySince = s.healthySince
      BY <1>0 DEF SuspendedStatus, Status
    <3>3. Tidy(s.phase, s) => Tidy("Suspended", m) BY <3>2 DEF Tidy
    <3> QED BY <1>5, <2>1, <3>1, <3>3
  <2>4. CASE StartDegraded(w)
    <3> DEFINE m == [s EXCEPT !.degradedSince = 0, !.healthySince = Nil]
    <3>1. setStatus(w, m, "Degraded") BY <2>4 DEF StartDegraded
    <3>2. Tidy("Degraded", m) BY <1>0 DEF Tidy, Status
    <3> QED BY <1>5, <2>1, <3>1, <3>2
  <2>5. CASE BecomeHealthy(w)
    <3> DEFINE m == [s EXCEPT !.degradedSince = Nil, !.healthySince = Nil]
    <3>1. setStatus(w, m, "Healthy") BY <2>5 DEF BecomeHealthy
    <3>2. Tidy("Healthy", m) BY <1>0 DEF Tidy, Status
    <3> QED BY <1>5, <2>1, <3>1, <3>2
  <2>6. CASE StartRecovery(w)
    <3> DEFINE m == [s EXCEPT !.degradedSince = Nil, !.healthySince = 0]
    <3>1. setStatus(w, m, "Suspended") BY <2>6 DEF StartRecovery
    <3>2. Tidy("Suspended", m) BY <1>0 DEF Tidy, Status
    <3> QED BY <1>5, <2>1, <3>1, <3>2
  <2>7. CASE Restore(w)
    <3> DEFINE m == [s EXCEPT !.savedReplicas = Nil, !.degradedSince = Nil, !.healthySince = Nil]
    <3>1. setStatus(w, m, "Healthy") BY <2>7 DEF Restore
    <3>2. Tidy("Healthy", m) BY <1>0 DEF Tidy, Status
    <3> QED BY <1>5, <2>1, <3>1, <3>2
  <2> QED BY <1>8, <2>2, <2>3, <2>4, <2>5, <2>6, <2>7
<1> QED BY <1>2, <1>3, <1>4, <1>6, <1>7, <1>8 DEF Reconcile

\* At first nothing has been enforced.
LEMMA InitLive == Init => LiveInv
<1> SUFFICES ASSUME Init PROVE LiveInv OBVIOUS
<1>1. PICK mode \in [WDs -> Modes] :
        wd = [w \in WDs |-> [NewWD(mode[w]) EXCEPT !.exists = "create" \notin Disturbances]]
  BY Zenon DEF Init
<1>2. \A w \in WDs : ~wd[w].finalizer /\ wd[w].status = EmptyStatus
  BY <1>1 DEF NewWD
<1>3. job = Idle BY Zenon DEF Init
<1>4. NotStarted
  <2>1. Unclocked(EmptyStatus) /\ EmptyStatus.phase = "" BY DEF EmptyStatus, Unclocked
  <2> QED BY <1>2, <2>1, Zenon DEF NotStarted
<1>5. StatusTidy BY <1>2 DEF StatusTidy, Live
<1> QED BY <1>3, <1>4, <1>5 DEF LiveInv, Doomed, JobStarted, JobTidy, Writing

\* A reconcile keeps LiveInv: what it leaves to be written has at most one clock.
LEMMA ReconcileLive ==
  ASSUME TypeOK, CacheInv, Steady, LiveInv, NEW v \in WDs, Reconcile(v)
  PROVE  LiveInv'
<1>1. wdCache[v] = wd[v] /\ job = Idle BY SteadyReads, ReconcileJob
<1>2. CASE AddFinalizer(v)
  <2>1. wd' = [wd EXCEPT ![v].finalizer = TRUE] /\ job' = Idle
    BY <1>1, <1>2 DEF AddFinalizer
  <2>2. wd[v].exists /\ ~wd[v].finalizer
    BY <1>1, <1>2 DEF AddFinalizer, Unadmitted
  <2>3. Tidy(wd[v].status.phase, wd[v].status)
    BY <2>2, Zenon DEF LiveInv, NotStarted, Tidy, Unclocked
  <2>4. \A w \in WDs : /\ wd'[w].status = wd[w].status /\ wd'[w].exists = wd[w].exists
                       /\ wd'[w].deleting = wd[w].deleting /\ wd'[w].mode = wd[w].mode
                       /\ w # v => wd'[w] = wd[w]
                       /\ ~wd'[w].finalizer => ~wd[w].finalizer
    BY <2>1 DEF TypeOK, WD
  <2>5. NotStarted' BY <2>4, Zenon DEF LiveInv, NotStarted
  <2>6. StatusTidy' BY <2>3, <2>4 DEF LiveInv, StatusTidy, Live
  <2> QED BY <2>1, <2>5, <2>6 DEF LiveInv, Doomed, JobStarted, JobTidy, Writing
<1>3. CASE Take(v)
  <2>1. wd' = wd BY <1>3 DEF Take
  <2>2. NotStarted' /\ StatusTidy' BY <2>1, Zenon DEF LiveInv, NotStarted, StatusTidy, Live
  <2>3. CASE job' = Idle BY <2>2, <2>3 DEF LiveInv, Doomed, JobStarted, JobTidy, Writing
  <2>4. CASE job' # Idle
    <3>1. Doomed' BY <2>4, SteadyJob DEF Doomed
    <3>2. JobStarted'
      BY <1>1, <2>1, <2>4, SteadyJob, Zenon
      DEF JobStarted, Writing, LiveInv, NotStarted, Unadmitted, Admitted
    <3>3. JobTidy'
      <4> SUFFICES ASSUME Writing(v)', Live(v)' PROVE job'.base = job'.mem /\ Tidy(job'.phase, job'.mem)
        BY <2>4, SteadyJob DEF JobTidy, Writing
      <4>1. Live(v) /\ job'.step = "status" BY <2>1 DEF Live, Writing
      <4>2. Tidy(wdCache[v].status.phase, wdCache[v].status)
        BY <1>1, <4>1 DEF LiveInv, StatusTidy
      <4>3. ~Unadmitted(v) /\ wdCache[v].mode \in {"strict", "soft"}
        BY <1>1, <4>1 DEF Live, Unadmitted
      <4> QED BY <2>4, <4>1, <4>2, <4>3, SteadyJob
    <3> QED BY <2>2, <3>1, <3>2, <3>3 DEF LiveInv
  <2> QED BY <2>3, <2>4
<1> QED BY <1>2, <1>3, ReconcileTakes

\* A write keeps LiveInv: applyFields clears the clock that the handler cleared, since
\* the object it is applied to is the one that the handler read.
LEMMA WriteLive ==
  ASSUME TypeOK, CacheInv, Steady, LiveInv, Write
  PROVE  LiveInv'
<1>0. job \in Job /\ job # Idle
  BY DEF Write, StatusUpdated, StatusConflict, FinalizerRemoved, WriteFailed, TypeOK
<1> DEFINE v == job.wd
<1>v. v \in WDs BY <1>0 DEF Job
<1> HIDE DEF v
<1>1. CASE StatusUpdated
  <2>1. Writing(v) /\ wd[v].exists /\ job' = Idle
    BY <1>0, <1>1 DEF StatusUpdated, Writing, v
  <2>2. /\ wd'[v].status = applyFields(job) /\ wd'[v].exists = wd[v].exists
        /\ wd'[v].finalizer = wd[v].finalizer /\ wd'[v].deleting = wd[v].deleting
        /\ wd'[v].mode = wd[v].mode
    BY <1>1, <1>v, Zenon DEF StatusUpdated, TypeOK, WD, v
  <2>3. \A w \in WDs \ {v} : wd'[w] = wd[w] BY <1>1 DEF StatusUpdated, TypeOK, v
  <2>4. wd[v].exists /\ ~wd[v].finalizer
          => Unclocked(wd'[v].status) /\ wd'[v].status.phase \in {"", "Unknown"}
    <3> SUFFICES ASSUME ~wd[v].finalizer
                 PROVE  Unclocked(wd'[v].status) /\ wd'[v].status.phase \in {"", "Unknown"}
      BY Zenon
    <3>1. job.phase = "Unknown" /\ Unclocked(job.mem) /\ Unclocked(job.base)
      BY <1>v, <2>1 DEF LiveInv, JobStarted
    <3>2. Unclocked(applyFields(job)) /\ applyFields(job).phase = "Unknown"
      BY <3>1 DEF Unclocked, applyFields, Applied
    <3> QED BY <2>2, <3>2
  <2>5. NotStarted' BY <2>2, <2>3, <2>4, Zenon DEF LiveInv, NotStarted
  <2>6. Live(v) => Tidy(wd'[v].status.phase, wd'[v].status)
    BY <1>v, <2>1, <2>2 DEF LiveInv, JobTidy, Tidy, applyFields, Applied
  <2>7. StatusTidy' BY <2>2, <2>3, <2>6 DEF LiveInv, StatusTidy, Live
  <2> QED BY <2>1, <2>5, <2>7 DEF LiveInv, Doomed, JobStarted, JobTidy, Writing
<1>2. CASE StatusConflict
  <2>1. wd' = wd BY <1>2 DEF StatusConflict
  <2>2. NotStarted' /\ StatusTidy' BY <2>1, Zenon DEF LiveInv, NotStarted, StatusTidy, Live
  <2>3. CASE job' = Idle BY <2>2, <2>3 DEF LiveInv, Doomed, JobStarted, JobTidy, Writing
  <2>4. CASE job' # Idle
    <3>1. job' = [job EXCEPT !.base = wdCache[job.wd].status,
                             !.current = fresh[job.wd], !.attempt = @ + 1]
      BY <1>2, <2>4 DEF StatusConflict
    <3>2. fresh[v] /\ wdCache[v] = wd[v]
      BY <1>2, <1>v DEF StatusConflict, Readable, Steady, Synced, CacheInv, FreshIsCurrent
    <3>3. /\ job'.wd = v /\ job'.phase = job.phase /\ job'.mem = job.mem
          /\ job'.base = wd[v].status /\ job'.current /\ job'.step = job.step
      BY <1>0, <3>1, <3>2 DEF Job, v
    <3>4. wd[v].exists /\ Writing(v) /\ ~Live(v)
      BY <1>0, <1>2 DEF StatusConflict, Writing, LiveInv, Doomed, Live, v
    <3>5. Doomed' BY <3>3 DEF Doomed
    <3>6. JobStarted'
      BY <1>v, <2>1, <3>3, <3>4, Zenon DEF LiveInv, JobStarted, NotStarted, Writing
    <3>7. JobTidy' BY <2>1, <3>3, <3>4 DEF JobTidy, Writing, Live
    <3> QED BY <2>2, <3>5, <3>6, <3>7 DEF LiveInv
  <2> QED BY <2>3, <2>4
<1>3. CASE FinalizerRemoved \/ WriteFailed
  <2>1. job' = Idle BY <1>3 DEF FinalizerRemoved, WriteFailed
  <2>2. \A w \in WDs : wd'[w] = wd[w] \/ ~wd'[w].exists
    BY <1>3, <1>v DEF FinalizerRemoved, WriteFailed, TypeOK, WD, v
  <2> QED BY <2>1, <2>2, Zenon
          DEF LiveInv, Doomed, NotStarted, JobStarted, JobTidy, StatusTidy, Writing, Live
<1> QED BY <1>1, <1>2, <1>3 DEF Write

\* The informers, the clock and a restart keep LiveInv.
LEMMA SystemLive ==
  ASSUME TypeOK, LiveInv, SyncWDs \/ (\E kind \in Kinds : SyncWorkloads(kind)) \/ Tick \/ Restart
  PROVE  LiveInv'
<1>1. CASE SyncWDs \/ \E kind \in Kinds : SyncWorkloads(kind)
  <2>1. wd' = wd /\ job' = job BY <1>1 DEF SyncWDs, SyncWorkloads
  <2> QED
    BY <2>1, Zenon DEF LiveInv, Doomed, NotStarted, JobStarted, JobTidy, StatusTidy, Writing, Live
<1>2. CASE Restart
  <2>1. wd' = wd /\ job' = Idle BY <1>2 DEF Restart
  <2> QED
    BY <2>1, Zenon DEF LiveInv, Doomed, NotStarted, JobStarted, JobTidy, StatusTidy, Writing, Live
<1>3. CASE Tick
  <2>1. job' = Idle BY <1>3 DEF Tick
  <2>2. \A w \in WDs : /\ wd'[w].exists = wd[w].exists /\ wd'[w].finalizer = wd[w].finalizer
                       /\ wd'[w].deleting = wd[w].deleting /\ wd'[w].mode = wd[w].mode
                       /\ wd'[w].status = OlderStatus(w, wd[w].status)
    BY <1>3, TickKeeps
  <2>3. \A w \in WDs : /\ wd'[w].status.phase = wd[w].status.phase
                       /\ wd[w].status.degradedSince = Nil => wd'[w].status.degradedSince = Nil
                       /\ wd[w].status.healthySince = Nil => wd'[w].status.healthySince = Nil
    BY <2>2, AgeingKeeps DEF TypeOK, WD
  <2>4. NotStarted' BY <2>2, <2>3, Zenon DEF LiveInv, NotStarted, Unclocked
  <2>5. StatusTidy' BY <2>2, <2>3 DEF LiveInv, StatusTidy, Live, Tidy
  <2> QED BY <2>1, <2>4, <2>5 DEF LiveInv, Doomed, JobStarted, JobTidy, Writing
<1> QED BY <1>1, <1>2, <1>3

\* So do users, who delete and create, and the Kubernetes controllers.
LEMMA EnvironmentLive ==
  ASSUME TypeOK, Steady, LiveInv, Environment
  PROVE  LiveInv'
<1>1. CASE \E x \in Workloads : \/ ScaleWorkload(x) \/ PodsChange(x) \/ RolloutChange(x)
                                \/ DeleteWorkload(x) \/ CreateWorkload(x)
  <2>1. wd' = wd /\ job' = job
    BY <1>1, Zenon DEF ScaleWorkload, PodsChange, RolloutChange, DeleteWorkload,
        CreateWorkload, Outside
  <2> QED
    BY <2>1, Zenon DEF LiveInv, Doomed, NotStarted, JobStarted, JobTidy, StatusTidy, Writing, Live
<1>2. ASSUME NEW v \in WDs, DeleteWD(v) \/ CreateWD(v) PROVE LiveInv'
  <2>1. job' = IF job # Idle /\ job.wd = v THEN [job EXCEPT !.current = FALSE] ELSE job
    BY <1>2 DEF DeleteWD, CreateWD, UserWrites
  <2>2. /\ job # Idle <=> job' # Idle
        /\ job # Idle => /\ job'.wd = job.wd /\ job'.step = job.step /\ job'.phase = job.phase
                         /\ job'.mem = job.mem /\ job'.base = job.base
                         /\ job.wd # v => job' = job
    BY <2>1 DEF TypeOK, Job, Idle
  <2>3. \A w \in WDs : w # v => wd'[w] = wd[w]
    BY <1>2 DEF DeleteWD, CreateWD, UserWrites, TypeOK
  <2>4. CASE DeleteWD(v)
    <3>1. /\ wd'[v].status = wd[v].status /\ wd'[v].finalizer = wd[v].finalizer
          /\ wd'[v].deleting \/ ~wd'[v].exists
          /\ wd[v].exists /\ (wd[v].finalizer => wd'[v].exists)
      BY <2>4 DEF DeleteWD, UserWrites, TypeOK, WD
    <3>2. Doomed' BY <2>2, <2>3, <3>1 DEF LiveInv, Doomed, TypeOK, Job
    <3>3. NotStarted' BY <2>3, <3>1, Zenon DEF LiveInv, NotStarted
    <3>4. JobStarted' BY <2>2, <2>3, <3>1 DEF LiveInv, JobStarted, Writing
    <3>5. JobTidy' BY <2>2, <2>3, <3>1 DEF LiveInv, JobTidy, Writing, Live
    <3>6. StatusTidy' BY <2>3, <3>1 DEF LiveInv, StatusTidy, Live
    <3> QED BY <3>2, <3>3, <3>4, <3>5, <3>6 DEF LiveInv
  <2>5. CASE CreateWD(v)
    <3>1. PICK m \in Modes : wd' = [wd EXCEPT ![v] = NewWD(m)] BY <2>5, Zenon DEF CreateWD
    <3>2. ~wd[v].exists /\ ~wd'[v].finalizer /\ wd'[v].status = EmptyStatus
      BY <2>5, <3>1 DEF CreateWD, TypeOK, NewWD
    <3>3. Doomed' BY <2>2, <2>3, <3>2 DEF LiveInv, Doomed, TypeOK, Job
    <3>4. NotStarted'
      <4>1. Unclocked(EmptyStatus) /\ EmptyStatus.phase = "" BY DEF EmptyStatus, Unclocked
      <4> QED BY <2>3, <3>2, <4>1, Zenon DEF LiveInv, NotStarted
    <3>5. JobStarted' BY <2>2, <2>3, <3>2 DEF LiveInv, JobStarted, Writing
    <3>6. JobTidy' BY <2>2, <2>3, <3>2 DEF LiveInv, JobTidy, Writing, Live
    <3>7. StatusTidy' BY <2>3, <3>2 DEF LiveInv, StatusTidy, Live
    <3> QED BY <3>3, <3>4, <3>5, <3>6, <3>7 DEF LiveInv
  <2> QED BY <1>2, <2>4, <2>5
<1> QED BY <1>1, <1>2, Zenon DEF Environment, Steady, TogglePause, EditMode

\* Every step keeps LiveInv.
LEMMA NextLive ==
  ASSUME TypeOK, CacheInv, Steady, LiveInv, [Next]_vars
  PROVE  LiveInv'
<1>1. CASE UNCHANGED vars
  BY <1>1, Zenon DEF vars, LiveInv, Doomed, NotStarted, JobStarted, JobTidy, StatusTidy,
      Writing, Live
<1> QED BY <1>1, ReconcileLive, WriteLive, SystemLive, EnvironmentLive DEF Next

\* LiveInv holds where nobody but the controller, and whoever deletes it, writes to a
\* WorkloadDependency.
LEMMA LiveCorrect == ASSUME Steady PROVE Spec => []LiveInv
<1>1. TypeOK /\ CacheInv /\ LiveInv /\ [Next]_vars => LiveInv' BY NextLive
<1> QED BY <1>1, InitLive, TypeCorrect, CacheCorrect, PTL DEF Spec
-----------------------------------------------------------------------------
(***************************************************************************)
(* SettledPhase: the phase is right between events.                        *)
(***************************************************************************)

\* No Rollout defers what klink does to it.
NoRollouts == \A w \in WDs : Kind[Dependent[w]] # "Rollout"

\* What SettledPhase says of w, of the copies in the cache.
SettledOn(w) ==
  LET s == wdCache[w].status
  IN  Watching(w) /\ wdCache[w].mode \in {"strict", "soft"} =>
        IF s.phase = "Suspended"
        THEN IF allOk(w)
             THEN s.healthySince # Nil /\ s.healthySince < recoveryWindow(w)
             ELSE MaxSuspend[w] > 0 => s.suspendedAt < MaxSuspend[w]
        ELSE IF allOk(w)
             THEN s.phase = "Healthy"
             ELSE \/ s.phase = "Released"
                  \/ /\ s.phase # "Healthy"
                     /\ s.degradedSince # Nil /\ s.degradedSince < degradedWindow(w)

\* The phase is settled, or something is still to happen to w.
SettledInv == \A w \in WDs : Pending(w) \/ StatusDiffers(w) \/ SettledOn(w)

\* A reconcile leaves a settled phase behind, or a status write that makes a difference.
LEMMA SettledReconcile ==
  ASSUME TypeOK, CacheInv, SuspensionIsTimed, LiveInv, Steady, Flat, NoRollouts,
         NEW w \in WDs, Reconcile(w)
  PROVE  StatusDiffers(w)' \/ SettledOn(w)'
<1> DEFINE s == wdCache[w].status
<1>1. SUFFICES ASSUME Watching(w)', wdCache'[w].mode \in {"strict", "soft"}
               PROVE  StatusDiffers(w)' \/ SettledOn(w)'
  BY DEF SettledOn
<1>2. /\ Watching(w) /\ Admitted(w) /\ wdCache[w].mode \in {"strict", "soft"}
      /\ wdCache' = wdCache /\ (allOk(w)' <=> allOk(w))
  BY <1>1, OwnReads DEF Watching
<1>3. wdCache[w] = wd[w] /\ s \in Status /\ (s.phase = "Suspended" => s.suspendedAt # Nil)
  BY SteadyReads DEF SuspensionIsTimed, TypeOK, WD
<1>4. s.phase = "Healthy" => s.degradedSince = Nil
  BY <1>2, <1>3 DEF LiveInv, StatusTidy, Tidy, Live, Admitted
<1>5. ASSUME NEW m, NEW p, setStatus(w, m, p)
      PROVE  /\ job' # Idle /\ job'.wd = w /\ job'.step = "status"
             /\ job'.phase = p /\ job'.mem = m
             /\ applyFields(job').phase = p
             /\ m.degradedSince # Nil => applyFields(job').degradedSince = m.degradedSince
             /\ m.healthySince # Nil => applyFields(job').healthySince = m.healthySince
  BY <1>5, Zenon DEF setStatus, Idle, applyFields, Applied
<1>6. ASSUME NEW m, NEW p, setStatus(w, m, p), p # s.phase PROVE StatusDiffers(w)'
  BY <1>2, <1>5, <1>6 DEF StatusDiffers
<1>7. \/ StayReleased(w) \/ ForceRestore(w) \/ AwaitMaxSuspend(w) \/ handleSuspended(w)
      \/ StartDegraded(w) \/ AwaitWindow(w) \/ Suspend(w) \/ BecomeHealthy(w)
      \/ StartRecovery(w) \/ AwaitRecovery(w) \/ Restore(w)
  BY <1>2 DEF Reconcile, ReconcileGone, handleDeletion, AddFinalizer, Unadmitted, RejectCycle,
              ReconcilePaused, DependentMissing, DeferToRollout, Deferred, isProgressing,
              NoRollouts, ReconcileObserve, ReconcileGate, Watching, Admitted
<1>8. CASE StayReleased(w) \/ AwaitMaxSuspend(w) \/ handleSuspended(w)
  <2>1. ~allOk(w) /\ s.phase \in {"Released", "Suspended"}
    BY <1>8 DEF StayReleased, AwaitMaxSuspend, handleSuspended
  <2>2. s.phase = "Suspended" /\ MaxSuspend[w] > 0 => s.suspendedAt < MaxSuspend[w]
    BY <1>3, <1>8 DEF StayReleased, AwaitMaxSuspend, handleSuspended, Limited
  <2> QED BY <1>2, <2>1, <2>2 DEF SettledOn
<1>9. CASE ForceRestore(w)
  <2>1. setStatus(w, [s EXCEPT !.savedReplicas = Nil, !.healthySince = Nil], "Released")
        /\ s.phase = "Suspended"
    BY <1>9 DEF ForceRestore
  <2> QED BY <1>6, <2>1
<1>10. CASE StartDegraded(w)
  <2> DEFINE m == [s EXCEPT !.degradedSince = 0, !.healthySince = Nil]
  <2>1. setStatus(w, m, "Degraded") /\ s.degradedSince = Nil BY <1>10 DEF StartDegraded
  <2>2. m.degradedSince = 0 /\ 0 # Nil BY <1>3, ConstantsAssumption DEF Status
  <2> QED BY <1>2, <1>5, <2>1, <2>2, Zenon DEF StatusDiffers
<1>11. CASE AwaitWindow(w)
  BY <1>2, <1>4, <1>11 DEF AwaitWindow, Degrading, SettledOn
<1>12. CASE Suspend(w)
  <2>1. setStatus(w, SuspendedStatus(w, s), "Suspended") /\ s.phase # "Suspended"
    BY <1>12 DEF Suspend, Degrading
  <2> QED BY <1>6, <2>1
<1>13. CASE BecomeHealthy(w)
  <2>1. /\ setStatus(w, [s EXCEPT !.degradedSince = Nil, !.healthySince = Nil], "Healthy")
        /\ allOk(w)
    BY <1>13 DEF BecomeHealthy, Recovering
  <2>2. CASE s.phase = "Healthy" BY <1>2, <2>1, <2>2 DEF SettledOn
  <2> QED BY <1>6, <2>1, <2>2
<1>14. CASE StartRecovery(w)
  <2> DEFINE m == [s EXCEPT !.degradedSince = Nil, !.healthySince = 0]
  <2>1. setStatus(w, m, "Suspended") /\ s.healthySince = Nil BY <1>14 DEF StartRecovery
  <2>2. m.healthySince = 0 /\ 0 # Nil BY <1>3, ConstantsAssumption DEF Status
  <2> QED BY <1>2, <1>5, <2>1, <2>2, Zenon DEF StatusDiffers
<1>15. CASE AwaitRecovery(w)
  BY <1>2, <1>15 DEF AwaitRecovery, Recovering, SettledOn
<1>16. CASE Restore(w)
  <2>1. PICK m : setStatus(w, m, "Healthy") /\ s.phase = "Suspended" BY <1>16 DEF Restore
  <2> QED BY <1>6, <2>1, Zenon
<1> QED BY <1>7, <1>8, <1>9, <1>10, <1>11, <1>12, <1>13, <1>14, <1>15, <1>16

\* Every step keeps SettledInv: a write that makes a difference queues w again.
LEMMA NextSettled ==
  ASSUME TypeOK, CacheInv, SuspensionIsTimed, LiveInv, Steady, Flat, NoRollouts,
         SettledInv, [Next]_vars
  PROVE  SettledInv'
<1>1. SUFFICES ASSUME NEW w \in WDs PROVE Pending(w)' \/ StatusDiffers(w)' \/ SettledOn(w)'
  BY DEF SettledInv
<1>2. CASE Reconcile(w) BY <1>2, SettledReconcile
<1>3. CASE ~Reconcile(w)
  <2>1. PendingOn(w) /\ (Pending(w)' \/ ~Admitted(w)' \/ Same(w)) BY <1>3, NextPending
  <2>2. ~Admitted(w)' => SettledOn(w)' BY DEF SettledOn, Watching
  <2>3. CASE Same(w)
    <3>1. allOk(w)' <=> allOk(w) BY <2>3, SameOk DEF Same
    <3>2. SettledOn(w) => SettledOn(w)'
      BY <2>3, <3>1 DEF Same, SettledOn, Watching, Admitted, Near
    <3> QED BY <2>1, <2>2, <2>3, <3>2 DEF SettledInv, PendingOn, Same, LiveInv
  <2> QED BY <2>1, <2>2, <2>3
<1> QED BY <1>2, <1>3

\* Between events the phase is right and no deadline has been missed, for every
\* WorkloadDependency that scales its dependent, whatever fails, crashes, scales, breaks,
\* or is deleted and created again meanwhile.  The hypotheses leave out stale reads,
\* pauses and edits of the mode, dependents that defer (Rollouts), and dependencies that
\* are themselves dependents.
THEOREM PhaseSettles ==
  ASSUME Steady, Flat, NoRollouts
  PROVE  Spec => []SettledPhase
<1>1. Init => SettledInv BY Zenon DEF Init, SettledInv, Pending
<1>2. TypeOK /\ CacheInv /\ SuspensionIsTimed /\ LiveInv /\ SettledInv /\ [Next]_vars
        => SettledInv'
  BY NextSettled
<1>3. TypeOK /\ CacheInv /\ SettledInv => SettledPhase
  BY QuietReads DEF SettledInv, SettledOn, SettledPhase, Enforcing
<1> QED BY <1>1, <1>2, <1>3, TypeCorrect, CacheCorrect, SuspensionTimed, LiveCorrect, PTL DEF Spec
-----------------------------------------------------------------------------
(***************************************************************************)
(* WindowHonoured: the clock of the window, in the API server or on its way *)
(* there, is never older than the time since the dependencies were ok.     *)
(***************************************************************************)

\* No write is lost.
Reliable == "crash" \notin Disturbances /\ "error" \notin Disturbances

\* Nobody deletes a workload.
AllPresent == \A x \in Workloads : workload[x].exists

\* Workloads stay where nobody deletes them.
LEMMA NextPresent ==
  ASSUME TypeOK, "workloads" \notin Disturbances, AllPresent, [Next]_vars
  PROVE  AllPresent'
<1>1. CASE \E v \in WDs : Reconcile(v)
  <2>1. PICK v \in WDs : Reconcile(v) BY <1>1
  <2>2. NoPatch \/ \E n \in Nat : Patch(Dependent[v], n) BY <2>1, ReconcilePatches
  <2>3. \/ workload' = workload
        \/ \E n \in Nat : workload' = [workload EXCEPT ![Dependent[v]].replicas = n]
    BY <2>2, Zenon DEF NoPatch, Patch
  <2>4. ASSUME NEW n, workload' = [workload EXCEPT ![Dependent[v]].replicas = n], NEW x \in Workloads
        PROVE  workload'[x].exists = workload[x].exists
    BY <2>4 DEF TypeOK, Workload
  <2> QED BY <2>3, <2>4, Zenon DEF AllPresent
<1>2. CASE Write
  <2>1. workload' = workload
    BY <1>2 DEF Write, StatusUpdated, StatusConflict, FinalizerRemoved, WriteFailed
  <2> QED BY <2>1 DEF AllPresent
<1>3. CASE SyncWDs \/ (\E kind \in Kinds : SyncWorkloads(kind)) \/ Tick \/ Restart
  <2>1. workload' = workload BY <1>3 DEF SyncWDs, SyncWorkloads, Tick, Restart
  <2> QED BY <2>1 DEF AllPresent
<1>4. CASE \E x \in Workloads : ScaleWorkload(x) \/ PodsChange(x) \/ RolloutChange(x)
  <2>1. PICK x \in Workloads : ScaleWorkload(x) \/ PodsChange(x) \/ RolloutChange(x) BY <1>4
  <2>2. /\ \A y \in Workloads : y # x => workload'[y] = workload[y]
        /\ workload'[x].exists = workload[x].exists
    <3>1. workload[x] \in Workload BY DEF TypeOK
    <3>2. CASE ScaleWorkload(x)
      <4>1. PICK n : Outside(x, [workload[x] EXCEPT !.replicas = n])
        BY <3>2, Zenon DEF ScaleWorkload
      <4> QED BY <3>1, <4>1 DEF Outside, TypeOK, Workload
    <3>3. CASE PodsChange(x) BY <3>1, <3>3, Zenon DEF PodsChange, Outside, TypeOK, Workload
    <3>4. CASE RolloutChange(x)
      <4>1. PICK p : Outside(x, [workload[x] EXCEPT !.phase = p]) BY <3>4, Zenon DEF RolloutChange
      <4> QED BY <3>1, <4>1 DEF Outside, TypeOK, Workload
    <3> QED BY <2>1, <3>2, <3>3, <3>4
  <2> QED BY <2>2 DEF AllPresent
<1>5. CASE \E w \in WDs : TogglePause(w) \/ EditMode(w) \/ DeleteWD(w) \/ CreateWD(w)
  <2>1. workload' = workload BY <1>5 DEF TogglePause, EditMode, DeleteWD, CreateWD, UserWrites
  <2> QED BY <2>1 DEF AllPresent
<1>6. CASE UNCHANGED vars BY <1>6 DEF vars, AllPresent
<1> QED
  BY <1>1, <1>2, <1>3, <1>4, <1>5, <1>6, Zenon DEF Next, Environment, DeleteWorkload,
      CreateWorkload

\* In the beginning they are all there.
LEMMA InitPresent == Init => AllPresent
<1> SUFFICES ASSUME Init PROVE AllPresent OBVIOUS
<1>1. PICK replicas : workload = [x \in Workloads |->
                        [exists |-> TRUE, replicas |-> replicas[x], ready |-> TRUE,
                         phase |-> IF Kind[x] = "Rollout" THEN "Healthy" ELSE ""]]
  BY Zenon DEF Init
<1> QED BY <1>1, Zenon DEF AllPresent

\* The windows of w count: it is live and not paused.
Ticking(w) == Live(w) /\ ~wd[w].paused

\* The clock of the window of w, as the API server has it or will have it.
Clock(w) == IF Writing(w) THEN job.mem.degradedSince ELSE wd[w].status.degradedSince

\* It is no older than the time since the dependencies were last ok.
ClockInv == \A w \in WDs : Ticking(w) /\ Clock(w) # Nil => Clock(w) <= lastOk[w]

\* A reconcile leaves the history of every other object alone.
LEMMA HistoryOfOthers ==
  ASSUME TypeOK, NEW v \in WDs, Reconcile(v), NEW w \in WDs, w # v
  PROVE  lastOk'[w] = lastOk[w] /\ released'[w] = released[w]
<1>1. lastOk \in [WDs -> Nat] /\ released \in [WDs -> BOOLEAN] BY DEF TypeOK
<1>2. /\ Unseen => lastOk'[w] = lastOk[w] /\ released'[w] = released[w]
      /\ Seen(v) => lastOk'[w] = lastOk[w]
      /\ KeepReleased(v) => released'[w] = released[w]
      /\ released' = [released EXCEPT ![v] = TRUE] => released'[w] = released[w]
  BY <1>1 DEF Unseen, Seen, KeepReleased
<1>3. CASE ReconcileGone(v) \/ handleDeletion(v) \/ AddFinalizer(v) \/ RejectCycle(v)
  BY <1>2, <1>3 DEF ReconcileGone, handleDeletion, AddFinalizer, RejectCycle, Unseen, historyVars
<1>4. CASE ReconcilePaused(v) \/ DependentMissing(v)
  BY <1>2, <1>4 DEF ReconcilePaused, DependentMissing
<1>5. CASE Evaluate(v) /\ (KeepReleased(v) \/ released' = [released EXCEPT ![v] = TRUE])
  BY <1>2, <1>5 DEF Evaluate
<1>6. CASE DeferToRollout(v) \/ ReconcileObserve(v) \/ ReconcileGate(v)
  BY <1>5, <1>6 DEF DeferToRollout, ReconcileObserve, ReconcileGate
<1>7. CASE StayReleased(v) \/ ForceRestore(v) \/ AwaitMaxSuspend(v) \/ handleSuspended(v)
  BY <1>5, <1>7 DEF StayReleased, ForceRestore, AwaitMaxSuspend, handleSuspended, Enforce
<1>8. CASE StartDegraded(v) \/ AwaitWindow(v) \/ Suspend(v)
  BY <1>5, <1>8 DEF StartDegraded, AwaitWindow, Suspend, Degrading, Enforce
<1>9. CASE BecomeHealthy(v) \/ StartRecovery(v) \/ AwaitRecovery(v) \/ Restore(v)
  BY <1>5, <1>9 DEF BecomeHealthy, StartRecovery, AwaitRecovery, Restore, Recovering, Enforce
<1> QED BY <1>3, <1>4, <1>6, <1>7, <1>8, <1>9 DEF Reconcile

\* Times are numbers or Nil.
LEMMA LiveTypes ==
  ASSUME TypeOK, NEW w \in WDs
  PROVE  /\ wd[w].status.degradedSince \in Nat \cup {Nil} /\ lastOk[w] \in Nat
         /\ degradedWindow(w) \in Nat
  BY SpecAssumption DEF TypeOK, WD, Status, Time

\* A reconcile starts the clock, clears it, or leaves it, and clears it whenever it
\* sees every dependency ok.
LEMMA OwnClock ==
  ASSUME TypeOK, CacheInv, LiveInv, Steady, AllPresent, ClockInv, NEW w \in WDs, Take(w),
         Reconcile(w), Ticking(w), Clock(w)' # Nil
  PROVE  Clock(w)' <= lastOk'[w]
<1> DEFINE s == wd[w].status
<1>1. /\ job = Idle /\ wd' = wd /\ wdCache[w] = wd[w] /\ s \in Status
      /\ workloadCache[Dependent[w]].exists
  BY SteadyReads, ConstantsAssumption DEF Take, TypeOK, WD, AllPresent
<1>2. s.degradedSince # Nil => s.degradedSince <= lastOk[w]
  BY <1>1 DEF ClockInv, Clock, Writing
<1>3. /\ s.degradedSince \in Nat \cup {Nil} /\ lastOk[w] \in Nat BY LiveTypes
<1>4. Live(w) /\ Admitted(w) /\ wdCache[w].mode \in {"strict", "soft"}
  BY <1>1 DEF Admitted, Live, Ticking
<1>5. ASSUME NEW m, NEW p, setStatus(w, m, p) PROVE Clock(w)' = m.degradedSince
  BY <1>5 DEF setStatus, Clock, Writing, Idle
<1>6. ASSUME job' = Idle PROVE Clock(w)' = s.degradedSince
  BY <1>1, <1>6 DEF Clock, Writing
<1>7. ~ReconcilePaused(w) /\ ~DependentMissing(w)
  BY <1>1 DEF ReconcilePaused, DependentMissing, Ticking
<1>8. CASE DeferToRollout(w) \/ StayReleased(w)
  <2>1. lastOk' = lastOk /\ \E p : setStatus(w, s, p)
    BY <1>1, <1>8 DEF DeferToRollout, Deferred, StayReleased, Enforce, Evaluate, Seen
  <2> QED BY <1>2, <1>5, <2>1
<1>9. CASE ForceRestore(w)
  <2> DEFINE m == [s EXCEPT !.savedReplicas = Nil, !.healthySince = Nil]
  <2>1. lastOk' = lastOk /\ setStatus(w, m, "Released")
    BY <1>1, <1>9 DEF ForceRestore, Enforce, Evaluate, Seen
  <2>2. m.degradedSince = s.degradedSince BY <1>1 DEF Status
  <2> QED BY <1>2, <1>5, <2>1, <2>2, Zenon
<1>10. CASE AwaitMaxSuspend(w) \/ AwaitWindow(w)
  <2>1. lastOk' = lastOk /\ job' = Idle
    BY <1>1, <1>10 DEF AwaitMaxSuspend, AwaitWindow, Degrading, Enforce, Evaluate, Seen
  <2> QED BY <1>2, <1>6, <2>1
<1>11. CASE handleSuspended(w) \/ Suspend(w)
  <2>1. lastOk' = lastOk
    BY <1>11 DEF handleSuspended, Suspend, Degrading, Enforce, Evaluate, Seen
  <2>2. PICK m \in {s, SuspendedStatus(w, s)} : setStatus(w, m, "Suspended")
    BY <1>1, <1>11 DEF handleSuspended, Suspend
  <2>3. m.degradedSince = s.degradedSince BY <1>1 DEF SuspendedStatus, Status
  <2> QED BY <1>2, <1>5, <2>1, <2>2, <2>3
<1>12. CASE StartDegraded(w)
  <2> DEFINE m == [s EXCEPT !.degradedSince = 0, !.healthySince = Nil]
  <2>1. lastOk' = lastOk /\ setStatus(w, m, "Degraded")
    BY <1>1, <1>12 DEF StartDegraded, Degrading, Enforce, Evaluate, Seen
  <2>2. m.degradedSince = 0 BY <1>1 DEF Status
  <2> HIDE DEF m
  <2> QED BY <1>3, <1>5, <2>1, <2>2
<1>13. CASE BecomeHealthy(w) \/ StartRecovery(w) \/ Restore(w)
  <2>1. PICK m \in Status : m.degradedSince = Nil /\ \E p : setStatus(w, m, p)
    <3> DEFINE a == [s EXCEPT !.degradedSince = Nil, !.healthySince = Nil]
               b == [s EXCEPT !.degradedSince = Nil, !.healthySince = 0]
               c == [s EXCEPT !.savedReplicas = Nil, !.degradedSince = Nil, !.healthySince = Nil]
    <3>1. /\ a \in Status /\ b \in Status /\ c \in Status
          /\ a.degradedSince = Nil /\ b.degradedSince = Nil /\ c.degradedSince = Nil
      BY <1>1, Zenon DEF Status, Time
    <3>2. \/ setStatus(w, a, "Healthy") \/ setStatus(w, b, "Suspended")
          \/ setStatus(w, c, "Healthy")
      BY <1>1, <1>13 DEF BecomeHealthy, StartRecovery, Restore
    <3> HIDE DEF a, b, c
    <3> QED BY <3>1, <3>2
  <2> QED BY <1>5, <2>1
<1>14. CASE AwaitRecovery(w)
  <2>1. job' = Idle /\ s.healthySince # Nil BY <1>1, <1>14 DEF AwaitRecovery
  <2>2. s.degradedSince = Nil BY <1>4, <2>1 DEF LiveInv, StatusTidy, Tidy
  <2> QED BY <1>6, <2>1, <2>2
<1> QED
  BY <1>4, <1>7, <1>8, <1>9, <1>10, <1>11, <1>12, <1>13, <1>14
  DEF Reconcile, ReconcileGone, handleDeletion, AddFinalizer, Unadmitted, RejectCycle,
      ReconcileObserve, ReconcileGate, Admitted

\* A reconcile keeps ClockInv.
LEMMA ReconcileClock ==
  ASSUME TypeOK, CacheInv, LiveInv, Steady, AllPresent, ClockInv, NEW v \in WDs, Reconcile(v)
  PROVE  ClockInv'
<1>1. SUFFICES ASSUME NEW w \in WDs, Ticking(w)', Clock(w)' # Nil PROVE Clock(w)' <= lastOk'[w]
  BY DEF ClockInv
<1>2. job = Idle /\ wdCache[v] = wd[v] BY SteadyReads, ReconcileJob
<1>3. CASE AddFinalizer(v)
  <2>1. wd' = [wd EXCEPT ![v].finalizer = TRUE] /\ job' = Idle /\ lastOk' = lastOk
    BY <1>2, <1>3 DEF AddFinalizer, historyVars
  <2>2. wd[v].exists /\ ~wd[v].finalizer BY <1>2, <1>3 DEF AddFinalizer, Unadmitted
  <2>3. wd[v].status.degradedSince = Nil BY <2>2, Zenon DEF LiveInv, NotStarted, Unclocked
  <2>4. wd'[w].status = wd[w].status /\ (w # v => wd'[w] = wd[w]) BY <2>1 DEF TypeOK, WD
  <2>5. Clock(w)' = wd[w].status.degradedSince /\ Clock(w) = wd[w].status.degradedSince
    BY <1>2, <2>1, <2>4 DEF Clock, Writing
  <2>6. w # v BY <1>1, <2>3, <2>5
  <2> QED BY <1>1, <2>1, <2>4, <2>5, <2>6 DEF ClockInv, Ticking, Live
<1>4. CASE Take(v)
  <2>1. wd' = wd /\ Ticking(w) BY <1>1, <1>4 DEF Take, Ticking, Live
  <2>2. CASE w = v BY <1>1, <1>4, <2>1, <2>2, OwnClock
  <2>3. CASE w # v
    <3>1. Clock(w)' = wd[w].status.degradedSince /\ Clock(w) = wd[w].status.degradedSince
      BY <1>2, <2>1, <2>3, SteadyJob, Zenon DEF Clock, Writing
    <3>2. lastOk'[w] = lastOk[w]
      BY <2>3, HistoryOfOthers
    <3> QED BY <1>1, <2>1, <3>1, <3>2 DEF ClockInv
  <2> QED BY <2>2, <2>3
<1> QED BY <1>3, <1>4, ReconcileTakes

\* A write keeps ClockInv: the clock that goes to the API server is the handler's.
LEMMA WriteClock ==
  ASSUME TypeOK, CacheInv, LiveInv, Steady, Reliable, ClockInv, Write
  PROVE  ClockInv'
<1>0. job \in Job /\ job # Idle /\ lastOk' = lastOk
  BY DEF Write, StatusUpdated, StatusConflict, FinalizerRemoved, WriteFailed, TypeOK, historyVars
<1> SUFFICES ASSUME NEW w \in WDs, Ticking(w)' PROVE Ticking(w) /\ Clock(w)' = Clock(w)
  BY <1>0 DEF ClockInv
<1>1. CASE StatusUpdated
  <2>1. Live(w) /\ Ticking(w) BY <1>1 DEF StatusUpdated, Ticking, Live, TypeOK, WD
  <2>2. CASE job.wd = w
    <3>1. Writing(w) BY <1>1, <2>2 DEF StatusUpdated, Writing
    <3>2. wd'[w].status = applyFields(job) /\ job' = Idle
      BY <1>1, <2>2 DEF StatusUpdated, TypeOK, WD
    <3>3. applyFields(job).degradedSince = job.mem.degradedSince
      BY <2>1, <3>1 DEF LiveInv, JobTidy, applyFields, Applied
    <3> QED BY <2>1, <3>1, <3>2, <3>3 DEF Clock, Writing
  <2>3. CASE job.wd # w
    <3>1. wd'[w] = wd[w] /\ job' = Idle BY <1>1, <2>3 DEF StatusUpdated, TypeOK
    <3> QED BY <2>1, <2>3, <3>1 DEF Clock, Writing
  <2> QED BY <2>2, <2>3
<1>2. CASE StatusConflict \/ WriteFailed
  <2>1. wd' = wd /\ Ticking(w) /\ Live(w)
    BY <1>2 DEF StatusConflict, WriteFailed, Ticking, Live
  <2>2. job.wd # w
    BY <1>0, <1>2, <2>1 DEF StatusConflict, WriteFailed, Reliable, LiveInv, Doomed, Live
  <2>3. job' = Idle \/ job'.wd # w BY <1>0, <1>2, <2>2, Zenon DEF StatusConflict, WriteFailed, Job
  <2> QED BY <2>1, <2>2, <2>3 DEF Clock, Writing
<1>3. CASE FinalizerRemoved
  <2>1. job.wd # w BY <1>0, <1>3 DEF FinalizerRemoved, Ticking, Live, TypeOK, WD, Job
  <2>2. wd'[w] = wd[w] /\ job' = Idle BY <1>3, <2>1 DEF FinalizerRemoved, TypeOK
  <2> QED BY <2>1, <2>2 DEF Clock, Writing, Ticking, Live
<1> QED BY <1>1, <1>2, <1>3 DEF Write

\* The clock of the window and the time since the dependencies were ok run together:
\* where they are ok when a tick passes, SettledPhase says that no clock runs.
LEMMA SystemClock ==
  ASSUME TypeOK, LiveInv, Reliable, "outage" \notin Disturbances, AllPresent, SettledPhase,
         ClockInv,
         SyncWDs \/ (\E kind \in Kinds : SyncWorkloads(kind)) \/ Tick \/ Restart
  PROVE  ClockInv'
<1>1. CASE SyncWDs \/ \E kind \in Kinds : SyncWorkloads(kind)
  <2>1. wd' = wd /\ job' = job /\ lastOk' = lastOk BY <1>1 DEF SyncWDs, SyncWorkloads, historyVars
  <2> QED BY <2>1 DEF ClockInv, Clock, Writing, Ticking, Live
<1>2. ~Restart BY DEF Restart, Reliable
<1>3. CASE Tick
  <2> SUFFICES ASSUME NEW w \in WDs, Ticking(w)', Clock(w)' # Nil PROVE Clock(w)' <= lastOk'[w]
    BY DEF ClockInv
  <2> DEFINE since == wd[w].status.degradedSince
  <2>1. /\ wd'[w].exists = wd[w].exists /\ wd'[w].finalizer = wd[w].finalizer
        /\ wd'[w].deleting = wd[w].deleting /\ wd'[w].mode = wd[w].mode
        /\ wd'[w].paused = wd[w].paused
        /\ wd'[w].status = OlderStatus(w, wd[w].status)
    BY <1>3 DEF Tick, TypeOK, WD
  <2>2. wd'[w].status.degradedSince = Older(since, degradedWindow(w))
    BY <2>1 DEF OlderStatus, TypeOK, WD, Status
  <2>3. /\ job = Idle /\ job' = Idle /\ Quiet
        /\ lastOk'[w] = IF allOk(w) THEN 0 ELSE Older(lastOk[w], degradedWindow(w))
    BY <1>3 DEF Tick, Quiet
  <2>4. Ticking(w) /\ Live(w) BY <2>1 DEF Ticking, Live
  <2>5. Clock(w)' = Older(since, degradedWindow(w)) /\ Clock(w) = since
    BY <2>2, <2>3 DEF Clock, Writing
  <2>6. since # Nil => since <= lastOk[w] BY <2>4, <2>5 DEF ClockInv
  <2> HIDE DEF since
  <2>7. since \in Nat \cup {Nil} /\ lastOk[w] \in Nat /\ degradedWindow(w) \in Nat
    BY LiveTypes DEF since
  <2>8. lastOk[w] # Nil BY <2>7, ConstantsAssumption
  <2>9. since # Nil BY <2>5 DEF Older
  <2>10. ~allOk(w)
    <3>1. Enforcing(w)
      BY <2>4, ConstantsAssumption DEF Ticking, Live, Enforcing, AllPresent
    <3>2. Tidy(wd[w].status.phase, wd[w].status) BY <2>4 DEF LiveInv, StatusTidy
    <3>3. wd[w].status.phase # "Healthy" /\ wd[w].status.healthySince = Nil
      BY <2>9, <3>2 DEF Tidy, since
    <3> QED BY <2>3, <3>1, <3>3 DEF SettledPhase
  <2> QED BY <2>10, <2>3, <2>5, <2>6, <2>7, <2>8, <2>9 DEF Older
<1> QED BY <1>1, <1>2, <1>3

\* An object that is created has no clock, and one that is deleted is not enforced.
LEMMA EnvironmentClock ==
  ASSUME TypeOK, Steady, ClockInv, Environment
  PROVE  ClockInv'
<1>1. CASE \E x \in Workloads : \/ ScaleWorkload(x) \/ PodsChange(x) \/ RolloutChange(x)
                                \/ DeleteWorkload(x) \/ CreateWorkload(x)
  <2>1. wd' = wd /\ job' = job /\ lastOk' = lastOk
    BY <1>1, Zenon DEF ScaleWorkload, PodsChange, RolloutChange, DeleteWorkload,
        CreateWorkload, Outside
  <2> QED BY <2>1 DEF ClockInv, Clock, Writing, Ticking, Live
<1>2. ASSUME NEW v \in WDs, DeleteWD(v) \/ CreateWD(v) PROVE ClockInv'
  <2>1. job' = IF job # Idle /\ job.wd = v THEN [job EXCEPT !.current = FALSE] ELSE job
    BY <1>2 DEF DeleteWD, CreateWD, UserWrites
  <2>2. \A w \in WDs : w # v => wd'[w] = wd[w] /\ lastOk'[w] = lastOk[w]
    BY <1>2 DEF DeleteWD, CreateWD, UserWrites, TypeOK, historyVars
  <2>3. ~Live(v)'
    BY <1>2 DEF DeleteWD, CreateWD, UserWrites, Live, TypeOK, WD, NewWD
  <2>4. \A w \in WDs : w # v => (Writing(w)' <=> Writing(w)) /\ (Writing(w) => job' = job)
    BY <2>1 DEF Writing, TypeOK, Job, Idle
  <2> QED BY <2>2, <2>3, <2>4 DEF ClockInv, Clock, Ticking, Live
<1> QED BY <1>1, <1>2, Zenon DEF Environment, Steady, TogglePause, EditMode

\* Every step keeps ClockInv.
LEMMA NextClock ==
  ASSUME TypeOK, CacheInv, LiveInv, Steady, Reliable, "outage" \notin Disturbances,
         AllPresent, SettledPhase, ClockInv, [Next]_vars
  PROVE  ClockInv'
<1>1. CASE UNCHANGED vars BY <1>1 DEF vars, ClockInv, Clock, Writing, Ticking, Live
<1> QED BY <1>1, ReconcileClock, WriteClock, SystemClock, EnvironmentClock DEF Next

\* A reconcile that takes a dependent down for the first time has waited for the window.
LEMMA SuspendWaits ==
  ASSUME TypeOK, CacheInv, Steady, ClockInv, NEW w \in WDs, [Next]_vars, Empties(w),
         wdCache[w].status.phase # "Suspended"
  PROVE  lastOk[w] >= degradedWindow(w)
<1>0. Next BY DEF Empties, Acts, vars
<1>1. Suspend(w) BY <1>0, EmptiesBy DEF handleSuspended
<1>2. Reconcile(w) /\ job = Idle
  BY <1>1, Zenon DEF Reconcile, Suspend, Degrading, Enforce, Evaluate, Take
<1>3. wdCache[w] = wd[w] BY <1>2, SteadyReads
<1>4. Ticking(w) BY <1>1, <1>3 DEF Suspend, Degrading, Enforce, Evaluate, Admitted, Ticking, Live
<1>5. /\ wd[w].status.degradedSince # Nil
      /\ wd[w].status.degradedSince >= degradedWindow(w)
  BY <1>1, <1>3 DEF Suspend
<1>6. wd[w].status.degradedSince <= lastOk[w]
  BY <1>2, <1>4, <1>5 DEF ClockInv, Clock, Writing
<1> QED BY <1>5, <1>6, LiveTypes

\* No dependent is taken down early: a reconcile that suspends comes after a whole
\* degraded window in which the dependencies were not all ok, at no tick and at no
\* reconcile, through failures that come and go, through deletion and creation.  Left out
\* is all that lets the clock of a failure before survive: a write that is lost (a crash,
\* an error), an operator that is away or a dependent that is missing while the
\* dependencies recover, pauses, edits and stale reads, and, as for PhaseSettles, Rollouts
\* and dependencies that are dependents.
THEOREM WindowIsHonoured ==
  ASSUME Steady, Reliable, Flat, NoRollouts,
         "outage" \notin Disturbances, "workloads" \notin Disturbances
  PROVE  Spec => WindowHonoured
<1>1. Init => ClockInv
  <2> SUFFICES ASSUME Init PROVE ClockInv OBVIOUS
  <2>1. PICK mode \in [WDs -> Modes] :
          wd = [w \in WDs |-> [NewWD(mode[w]) EXCEPT !.exists = "create" \notin Disturbances]]
    BY Zenon DEF Init
  <2>2. \A w \in WDs : ~wd[w].finalizer BY <2>1 DEF NewWD
  <2> QED BY <2>2 DEF ClockInv, Ticking, Live
<1>2. TypeOK /\ AllPresent /\ [Next]_vars => AllPresent' BY NextPresent
<1>3. TypeOK /\ CacheInv /\ LiveInv /\ AllPresent /\ SettledPhase /\ ClockInv /\ [Next]_vars
        => ClockInv'
  BY NextClock
<1>4. TypeOK /\ CacheInv /\ ClockInv /\ [Next]_vars
        => [\A w \in WDs : Empties(w) /\ wdCache[w].status.phase # "Suspended"
                             => lastOk[w] >= degradedWindow(w)]_vars
  BY SuspendWaits
<1> QED
  BY <1>1, <1>2, <1>3, <1>4, InitPresent, TypeCorrect, CacheCorrect, LiveCorrect, PhaseSettles, PTL
  DEF Spec, WindowHonoured
-----------------------------------------------------------------------------
(***************************************************************************)
(* ReleasedHolds: whoever was released stays released.                     *)
(***************************************************************************)

\* w has the phase Released, or is about to get it: it is Suspended and
\* maxSuspendDuration is over.
Releasing(w) ==
  LET s == wd[w].status
  IN  /\ wd[w].finalizer /\ wd[w].mode \in {"strict", "soft"} /\ ~wd[w].paused
      /\ \/ s.phase = "Released"
         \/ /\ s.phase = "Suspended" /\ MaxSuspend[w] > 0
            /\ s.suspendedAt # Nil /\ s.suspendedAt >= MaxSuspend[w]

\* Whoever was released is Releasing, and no other phase is on its way to it.
ReleaseInv ==
  \A w \in WDs : released[w] =>
    /\ Writing(w) => job.phase = "Released"
    /\ wd[w].exists => Releasing(w)

\* The reconcile of a released one keeps the phase, or gives it the phase Released.
LEMMA OwnRelease ==
  ASSUME TypeOK, CacheInv, Steady, NoRollouts, AllPresent, ReleaseInv, NEW w \in WDs,
         Reconcile(w), Take(w), released'[w]
  PROVE  (Writing(w)' => job'.phase = "Released") /\ (wd[w].exists => Releasing(w))
<1>1. /\ wdCache[w] = wd[w] /\ workloadCache[Dependent[w]].exists
      /\ released \in [WDs -> BOOLEAN]
  BY SteadyReads, ConstantsAssumption DEF AllPresent, TypeOK
<1>2. CASE ForceRestore(w)
  <2>1. job'.phase = "Released" BY <1>2 DEF ForceRestore, setStatus
  <2>2. ~wd[w].paused /\ wd[w].finalizer /\ wd[w].mode \in {"strict", "soft"}
    BY <1>1, <1>2 DEF ForceRestore, Enforce, Evaluate, Admitted
  <2>3. /\ wd[w].status.phase = "Suspended" /\ MaxSuspend[w] > 0
        /\ wd[w].status.suspendedAt # Nil /\ wd[w].status.suspendedAt >= MaxSuspend[w]
    BY <1>1, <1>2 DEF ForceRestore, Limited
  <2> QED BY <2>1, <2>2, <2>3 DEF Releasing
<1>3. CASE ReconcileGone(w)
  BY <1>1, <1>3 DEF ReconcileGone, Take, Writing
<1>4. CASE handleDeletion(w)
  <2>1. ~Writing(w)' BY <1>4 DEF handleDeletion, Writing
  <2>2. released[w] BY <1>4 DEF handleDeletion, Unseen
  <2> QED BY <2>1, <2>2 DEF ReleaseInv, Releasing
<1>5. CASE ~ForceRestore(w) /\ ~ReconcileGone(w) /\ ~handleDeletion(w)
  <2>1. released[w] /\ ~Recovering(w) /\ wd[w].exists
    <3>1. CASE AddFinalizer(w) \/ RejectCycle(w)
      BY <1>1, <3>1 DEF AddFinalizer, RejectCycle, Unadmitted, Recovering, Enforce, Evaluate,
                        Admitted, Unseen, historyVars
    <3>2. CASE ReconcilePaused(w) \/ DependentMissing(w)
      BY <1>1, <3>2 DEF ReconcilePaused, DependentMissing, Recovering, Enforce, Evaluate, Admitted
    <3>3. CASE Evaluate(w) /\ KeepReleased(w)
      <4>1. wd[w].exists BY <1>1, <3>3, Zenon DEF Evaluate, Admitted
      <4>2. released'[w] = (released[w] /\ ~allOk(w)) BY <1>1, <3>3, Zenon DEF KeepReleased
      <4> QED BY <4>1, <4>2, Zenon DEF Recovering
    <3>4. CASE DeferToRollout(w) \/ ReconcileObserve(w) \/ ReconcileGate(w)
      BY <3>3, <3>4 DEF DeferToRollout, ReconcileObserve, ReconcileGate
    <3>5. CASE StayReleased(w) \/ AwaitMaxSuspend(w) \/ handleSuspended(w)
      BY <3>3, <3>5 DEF StayReleased, AwaitMaxSuspend, handleSuspended, Enforce
    <3>6. CASE StartDegraded(w) \/ AwaitWindow(w) \/ Suspend(w)
      BY <3>3, <3>6 DEF StartDegraded, AwaitWindow, Suspend, Degrading, Enforce
    <3>7. CASE BecomeHealthy(w) \/ StartRecovery(w) \/ AwaitRecovery(w) \/ Restore(w)
      BY <3>3, <3>7 DEF BecomeHealthy, StartRecovery, AwaitRecovery, Restore, Recovering, Enforce
    <3> QED BY <1>5, <3>1, <3>2, <3>4, <3>5, <3>6, <3>7 DEF Reconcile
  <2>2. Releasing(w) BY <2>1 DEF ReleaseInv
  <2>3. StayReleased(w) \/ AwaitMaxSuspend(w)
    <3>1. ~(AddFinalizer(w) \/ RejectCycle(w))
      BY <1>1, <2>2 DEF AddFinalizer, RejectCycle, Unadmitted, Releasing
    <3>2. ~(ReconcilePaused(w) \/ DependentMissing(w) \/ DeferToRollout(w))
      BY <1>1, <2>2, Zenon DEF ReconcilePaused, DependentMissing, DeferToRollout, Deferred,
                        isProgressing, NoRollouts, Releasing
    <3>3. ~(ReconcileObserve(w) \/ ReconcileGate(w))
      BY <1>1, <2>2, Zenon DEF ReconcileObserve, ReconcileGate, Releasing
    <3>4. ~(handleSuspended(w) \/ StartDegraded(w) \/ AwaitWindow(w) \/ Suspend(w))
      BY <1>1, <2>2 DEF handleSuspended, Limited, StartDegraded, AwaitWindow, Suspend,
                        Degrading, Releasing
    <3>5. ~(BecomeHealthy(w) \/ StartRecovery(w) \/ AwaitRecovery(w) \/ Restore(w))
      BY <2>1 DEF BecomeHealthy, StartRecovery, AwaitRecovery, Restore
    <3> QED BY <1>5, <3>1, <3>2, <3>3, <3>4, <3>5 DEF Reconcile
  <2>4. job' = Idle \/ job'.phase = "Released"
    <3>1. CASE StayReleased(w) BY <3>1 DEF StayReleased, setStatus
    <3>2. CASE AwaitMaxSuspend(w) BY <3>2 DEF AwaitMaxSuspend, Take
    <3> QED BY <2>3, <3>1, <3>2
  <2> QED BY <2>2, <2>4 DEF Writing
<1> QED BY <1>2, <1>3, <1>4, <1>5

\* Every step keeps ReleaseInv: a write that fails after the replicas were given back is
\* made up for by the next reconcile, which finds the limit exceeded again.
LEMMA NextRelease ==
  ASSUME TypeOK, CacheInv, Steady, NoRollouts, AllPresent, ReleaseInv, [Next]_vars
  PROVE  ReleaseInv'
<1>0. SUFFICES ASSUME NEW w \in WDs, released'[w]
               PROVE  (Writing(w)' => job'.phase = "Released") /\ (wd'[w].exists => Releasing(w)')
  BY DEF ReleaseInv
<1>1. released[w] => (Writing(w) => job.phase = "Released") /\ (wd[w].exists => Releasing(w))
  BY DEF ReleaseInv
<1>2. ASSUME released[w], wd'[w] = wd[w],
             Writing(w)' => Writing(w) /\ job'.phase = job.phase
      PROVE  (Writing(w)' => job'.phase = "Released") /\ (wd'[w].exists => Releasing(w)')
  BY <1>1, <1>2 DEF Releasing
<1>3. ASSUME NEW v \in WDs, Reconcile(v)
      PROVE  (Writing(w)' => job'.phase = "Released") /\ (wd'[w].exists => Releasing(w)')
  <2>1. job = Idle /\ (job' # Idle => job'.wd = v) BY <1>3, ReconcileJob, SteadyJob
  <2>2. CASE w = v /\ Take(v)
    <3>1. wd' = wd BY <2>2 DEF Take
    <3> QED BY <1>0, <1>3, <2>2, <3>1, OwnRelease DEF Releasing
  <2>3. CASE w = v /\ AddFinalizer(v)
    <3>1. released[w] BY <1>0, <2>3 DEF AddFinalizer, historyVars
    <3>2. wd[w].exists /\ ~wd[w].finalizer
      BY <1>3, <2>3, SteadyReads DEF AddFinalizer, Unadmitted
    <3> QED BY <1>1, <3>1, <3>2 DEF Releasing
  <2>4. CASE w # v
    <3>1. wd'[w] = wd[w] BY <1>3, <2>4, ReconcileTakes DEF Take, AddFinalizer, TypeOK
    <3>2. released[w]
      BY <1>0, <1>3, <2>4, HistoryOfOthers
    <3>3. ~Writing(w)' BY <2>1, <2>4 DEF Writing
    <3> QED BY <1>2, <3>1, <3>2, <3>3
  <2> QED BY <1>3, <2>2, <2>3, <2>4, ReconcileTakes
<1>4. CASE Write
  <2>0. released[w] /\ job \in Job /\ job # Idle
    BY <1>0, <1>4 DEF Write, StatusUpdated, StatusConflict, FinalizerRemoved, WriteFailed,
                      historyVars, TypeOK
  <2>1. CASE StatusUpdated /\ job.wd = w
    <3>1. job.phase = "Released" /\ Releasing(w) /\ job' = Idle
      BY <1>1, <2>0, <2>1 DEF StatusUpdated, Writing
    <3>2. wd'[w].status = applyFields(job) /\ wd'[w].finalizer = wd[w].finalizer
          /\ wd'[w].mode = wd[w].mode /\ wd'[w].paused = wd[w].paused
      BY <2>1 DEF StatusUpdated, TypeOK, WD
    <3>3. applyFields(job).phase = "Released" BY <3>1 DEF applyFields
    <3> QED BY <3>1, <3>2, <3>3 DEF Writing, Releasing
  <2>2. CASE StatusUpdated /\ job.wd # w
    <3>1. wd'[w] = wd[w] /\ job' = Idle BY <2>2 DEF StatusUpdated, TypeOK
    <3> QED BY <1>2, <2>0, <3>1 DEF Writing
  <2>3. CASE StatusConflict \/ WriteFailed
    <3>1. wd' = wd BY <2>3 DEF StatusConflict, WriteFailed
    <3>2. Writing(w)' => Writing(w) /\ job'.phase = job.phase
      BY <2>0, <2>3, Zenon DEF StatusConflict, WriteFailed, Writing, Job
    <3> QED BY <1>2, <2>0, <3>1, <3>2
  <2>4. CASE FinalizerRemoved
    <3>1. job' = Idle /\ (wd'[w] = wd[w] \/ ~wd'[w].exists)
      BY <2>0, <2>4 DEF FinalizerRemoved, TypeOK, WD, Job
    <3> QED BY <1>2, <2>0, <3>1 DEF Writing
  <2> QED BY <1>4, <2>1, <2>2, <2>3, <2>4 DEF Write
<1>5. CASE SyncWDs \/ (\E kind \in Kinds : SyncWorkloads(kind)) \/ Restart
  <2>1. released' = released /\ wd' = wd /\ (job' = job \/ job' = Idle)
    BY <1>5 DEF SyncWDs, SyncWorkloads, Restart, historyVars
  <2> QED BY <1>0, <1>2, <2>1 DEF Writing
<1>6. CASE Tick
  <2>1. released' = released /\ job' = Idle BY <1>6, Zenon DEF Tick
  <2>2. /\ wd'[w].exists = wd[w].exists /\ wd'[w].finalizer = wd[w].finalizer
        /\ wd'[w].paused = wd[w].paused /\ wd'[w].mode = wd[w].mode
        /\ wd'[w].status = OlderStatus(w, wd[w].status)
    BY <1>6 DEF Tick, TypeOK, WD
  <2>3. /\ wd'[w].status.phase = wd[w].status.phase
        /\ wd'[w].status.suspendedAt = Older(wd[w].status.suspendedAt, MaxSuspend[w])
    BY <2>2 DEF OlderStatus, TypeOK, WD, Status
  <2>4. wd[w].exists => Releasing(w) BY <1>0, <1>1, <2>1
  <2>5. wd[w].status.suspendedAt \in Nat \cup {Nil} /\ MaxSuspend[w] \in Nat
    BY ConstantsAssumption DEF TypeOK, WD, Status, Time
  <2>6. wd[w].status.suspendedAt # Nil /\ wd[w].status.suspendedAt >= MaxSuspend[w]
          => wd'[w].status.suspendedAt = wd[w].status.suspendedAt
    BY <2>3, <2>5 DEF Older
  <2> QED BY <2>1, <2>2, <2>3, <2>4, <2>6 DEF Writing, Releasing
<1>7. CASE \E x \in Workloads : \/ ScaleWorkload(x) \/ PodsChange(x) \/ RolloutChange(x)
                                \/ DeleteWorkload(x) \/ CreateWorkload(x)
  <2>1. wd' = wd /\ job' = job /\ released' = released
    BY <1>7, Zenon DEF ScaleWorkload, PodsChange, RolloutChange, DeleteWorkload,
        CreateWorkload, Outside
  <2> QED BY <1>0, <1>2, <2>1 DEF Writing
<1>8. ASSUME NEW v \in WDs, DeleteWD(v) \/ CreateWD(v)
      PROVE  (Writing(w)' => job'.phase = "Released") /\ (wd'[w].exists => Releasing(w)')
  <2>1. job' = IF job # Idle /\ job.wd = v THEN [job EXCEPT !.current = FALSE] ELSE job
    BY <1>8 DEF DeleteWD, CreateWD, UserWrites
  <2>2. Writing(w)' => Writing(w) /\ job'.phase = job.phase
    BY <2>1 DEF Writing, TypeOK, Job, Idle
  <2>3. released[w] /\ (w = v => DeleteWD(v))
    BY <1>0, <1>8 DEF DeleteWD, CreateWD, UserWrites, TypeOK, historyVars
  <2>4. CASE w # v
    <3>1. wd'[w] = wd[w] BY <1>8, <2>4 DEF DeleteWD, CreateWD, UserWrites, TypeOK
    <3> QED BY <1>2, <2>2, <2>3, <3>1
  <2>5. CASE w = v
    <3>1. /\ wd'[w].status = wd[w].status /\ wd'[w].finalizer = wd[w].finalizer
          /\ wd'[w].mode = wd[w].mode /\ wd'[w].paused = wd[w].paused /\ wd[w].exists
      BY <2>3, <2>5 DEF DeleteWD, UserWrites, TypeOK, WD
    <3> QED BY <1>1, <2>2, <2>3, <3>1 DEF Releasing
  <2> QED BY <2>4, <2>5
<1>9. CASE UNCHANGED vars BY <1>0, <1>2, <1>9 DEF vars, Writing
<1> QED
  BY <1>3, <1>4, <1>5, <1>6, <1>7, <1>8, <1>9, Zenon
  DEF Next, Environment, Steady, TogglePause, EditMode

\* Released lasts: a dependent that was given back because its suspension reached
\* maxSuspendDuration is not taken down again before the dependencies have been ok, even
\* if the write of the phase Released fails, or the process dies before it.  The
\* hypotheses leave out stale reads, pauses and edits, Rollouts, and deleted workloads.
THEOREM ReleaseLasts ==
  ASSUME Steady, NoRollouts, "workloads" \notin Disturbances
  PROVE  Spec => ReleasedHolds
<1>1. Init => AllPresent /\ ReleaseInv
  <2>1. Init => \A w \in WDs : ~released[w] BY Zenon DEF Init
  <2> QED BY <2>1, InitPresent, Zenon DEF ReleaseInv
<1>2. TypeOK /\ CacheInv /\ AllPresent /\ ReleaseInv /\ [Next]_vars => AllPresent' /\ ReleaseInv'
  BY NextPresent, NextRelease
<1>3. TypeOK /\ CacheInv /\ ReleaseInv /\ [Next]_vars
        => [\A w \in WDs : Empties(w) => ~released[w]]_vars
  <2> SUFFICES ASSUME TypeOK, CacheInv, ReleaseInv, [Next]_vars, NEW w \in WDs, Empties(w)
               PROVE  ~released[w]
    OBVIOUS
  <2>1. Next BY DEF Empties, Acts, vars
  <2>2. handleSuspended(w) \/ Suspend(w) BY <2>1, EmptiesBy
  <2>3. Reconcile(w) BY <2>2 DEF Reconcile
  <2>4. wdCache[w] = wd[w] BY <2>3, SteadyReads
  <2>5. wd[w].exists
    BY <2>2, <2>4, Zenon DEF handleSuspended, Suspend, Degrading, Enforce, Evaluate, Admitted
  <2> QED
    BY <2>2, <2>4, <2>5, Zenon DEF ReleaseInv, Releasing, handleSuspended, Suspend, Degrading,
        Limited
<1> QED BY <1>1, <1>2, <1>3, TypeCorrect, CacheCorrect, PTL DEF Spec, ReleasedHolds
=============================================================================
