----------------------- MODULE ReconcilerMemoryProofs -----------------------
(***************************************************************************)
(* NeverForgotten is not inductive: a job that writes another phase would  *)
(* forget a count that the status still has, a write that fails would      *)
(* lose one that only the job has, and a deletion would take both away.    *)
(* CalmInv says what excludes the three: a WorkloadDependency that holds   *)
(* a count has a finalizer and a mode that restores, its status write      *)
(* succeeds at the second attempt at the latest, and a reconcile lets go   *)
(* only of a workload that has its replicas back.                          *)
(***************************************************************************)
EXTENDS ReconcilerCacheProofs
-----------------------------------------------------------------------------
(***************************************************************************)
(* Nobody's replicas are forgotten.                                        *)
(***************************************************************************)

\* What the proof needs of the environment: the caches are level when they are read,
\* no write is lost, nobody pauses or changes the mode of a WorkloadDependency, and
\* the dependents have replicas.
Calm ==
  /\ \A d \in {"lag", "crash", "error", "pause", "mode"} : d \notin Disturbances
  /\ \A w \in WDs : Kind[Dependent[w]] \in {"Deployment", "StatefulSet"}

\* The running reconcile of w is writing the phase Suspended.
Suspending == job # Idle /\ job.step = "status" /\ job.phase = "Suspended"

\* Whoever is or becomes Suspended is protected and in a mode that restores.
Protected(w) == wd[w].exists /\ wd[w].finalizer /\ wd[w].mode \in {"strict", "soft"}

\* Only a deletion comes between a reconcile and its write, and only once.
WritesThrough ==
  Suspending => /\ Protected(job.wd) /\ wdCache[job.wd].exists
                /\ ~job.current => wd[job.wd].deleting /\ job.attempt = 0
                /\ job.attempt > 0 => wd[job.wd].deleting

SuspendedProtected ==
  \A w \in WDs : wd[w].exists /\ wd[w].status.phase = "Suspended" => Protected(w)

NonePaused == \A w \in WDs : ~wd[w].paused

AllHeld ==
  \A x \in Workloads : owed[x] > 0 =>
    /\ workload[x].exists /\ workload[x].replicas = 0
    /\ \E w \in WDs : Dependent[w] = x /\ Holds(w)

CalmInv == WritesThrough /\ SuspendedProtected /\ NonePaused /\ AllHeld

\* A step that changes no workload, and after which whoever held still holds.
LEMMA SameHeld ==
  ASSUME AllHeld, workload' = workload, owed' = owed, \A v \in WDs : Holds(v) => Holds(v)'
  PROVE  AllHeld'
BY DEF AllHeld

\* A step of a reconcile of w that patches nothing, and does not let go.
LEMMA NoPatchHeld ==
  ASSUME TypeOK, AllHeld, NEW w \in WDs, job = Idle, wd' = wd, NoPatch,
         job' = Idle \/ job'.wd = w,
         owed[Dependent[w]] > 0 /\ Holds(w) => Holds(w)'
  PROVE  AllHeld'
<1>0. Dependent[w] \in Workloads BY ConstantsAssumption
<1>1. \A v \in WDs : v # w /\ Holds(v) => Holds(v)' BY DEF Holds
<1>2. workload' = workload /\ owed' = owed BY DEF NoPatch
<1> QED BY <1>0, <1>1, <1>2 DEF AllHeld

\* A step of a reconcile of w that takes the dependent to zero, and will record it.
LEMMA PatchDownHeld ==
  ASSUME TypeOK, AllHeld, NEW w \in WDs, job = Idle, wd' = wd,
         Patch(Dependent[w], 0), workloadCache[Dependent[w]].replicas # 0,
         workloadCache[Dependent[w]] = workload[Dependent[w]],
         job' # Idle, job'.wd = w, Holds(w)'
  PROVE  AllHeld'
<1>0. Dependent[w] \in Workloads BY ConstantsAssumption
<1>1. \A v \in WDs : v # w /\ Holds(v) => Holds(v)' BY DEF Holds
<1>2. /\ workload' = [workload EXCEPT ![Dependent[w]].replicas = 0]
      /\ \A y \in Workloads : y # Dependent[w] => owed'[y] = owed[y]
  BY DEF Patch, TypeOK
<1>3. workload'[Dependent[w]].exists /\ workload'[Dependent[w]].replicas = 0
  BY <1>0, <1>2 DEF Patch, TypeOK, Workload
<1>4. \A y \in Workloads : y # Dependent[w] => workload'[y] = workload[y]
  BY <1>2 DEF TypeOK
<1> QED BY <1>0, <1>1, <1>2, <1>3, <1>4 DEF AllHeld

\* A step of a reconcile of w that gives the dependent its replicas back.
LEMMA PatchUpHeld ==
  ASSUME TypeOK, AllHeld, NEW w \in WDs, job = Idle, wd' = wd,
         NEW n \in Nat, n # 0, Patch(Dependent[w], n),
         workloadCache[Dependent[w]] = workload[Dependent[w]],
         job' # Idle, job'.wd = w
  PROVE  AllHeld'
<1>0. Dependent[w] \in Workloads BY ConstantsAssumption
<1>1. \A v \in WDs : v # w /\ Holds(v) => Holds(v)' BY DEF Holds
<1>2. owed'[Dependent[w]] = 0
  <2>1. CASE workload[Dependent[w]].replicas = n
    <3>1. owed[Dependent[w]] = 0 BY <1>0, <2>1 DEF AllHeld, TypeOK
    <3> QED BY <2>1, <3>1 DEF Patch, NoPatch
  <2>2. CASE workload[Dependent[w]].replicas # n
    BY <1>0, <2>2 DEF Patch, TypeOK
  <2> QED BY <2>1, <2>2
<1>3. \A y \in Workloads : y # Dependent[w] => owed'[y] = owed[y] /\ workload'[y] = workload[y]
  BY DEF Patch, NoPatch, TypeOK
<1> QED BY <1>0, <1>1, <1>2, <1>3 DEF AllHeld

\* In a calm environment a reconcile reads what the API server has.
LEMMA CalmReads ==
  ASSUME Calm, CacheInv, Readable
  PROVE  /\ \A w \in WDs : fresh[w] /\ wdCache[w] = wd[w]
         /\ \A x \in Workloads : workloadCache[x] = workload[x]
BY DEF Calm, CacheInv, Readable, Synced, FreshIsCurrent, LevelIsCurrent

\* What setStatus leaves to do.
LEMMA SetStatusJob ==
  ASSUME NEW w \in WDs, NEW s \in Status, NEW phase, setStatus(w, s, phase)
  PROVE  /\ job' # Idle /\ job'.wd = w /\ job'.step = "status" /\ job'.phase = phase
         /\ job'.mem = s /\ job'.current = fresh[w] /\ job'.attempt = 0
         /\ Holds(w)' <=> phase = "Suspended" /\ Restorable(s)
<1>1. /\ job' # Idle /\ job'.wd = w /\ job'.step = "status" /\ job'.phase = phase
      /\ job'.mem = s /\ job'.current = fresh[w] /\ job'.attempt = 0
  BY DEF setStatus, Idle
<1> QED BY <1>1 DEF Holds

\* The rest of CalmInv, for a step of a reconcile that leaves the API server's
\* WorkloadDependencies alone.
LEMMA TakeCalm ==
  ASSUME TypeOK, CacheInv, CalmInv, Calm, NEW w \in WDs, Take(w), AllHeld',
         job' # Idle /\ job'.step = "status" /\ job'.phase = "Suspended" =>
           /\ job'.wd = w /\ job'.current = fresh[w] /\ job'.attempt = 0
           /\ Admitted(w) /\ wdCache[w].mode \in {"strict", "soft"}
  PROVE  CalmInv'
<1>1. wd' = wd /\ wdCache' = wdCache BY DEF Take, cacheVars
<1>2. fresh[w] /\ wdCache[w] = wd[w] BY CalmReads DEF Take
<1>3. SuspendedProtected' BY <1>1 DEF CalmInv, SuspendedProtected, Protected
<1>4. NonePaused' BY <1>1 DEF CalmInv, NonePaused
<1>5. WritesThrough'
  <2> SUFFICES ASSUME Suspending'
               PROVE  /\ Protected(w)' /\ wdCache'[w].exists
                      /\ job'.wd = w /\ job'.current /\ job'.attempt = 0
    BY DEF WritesThrough
  <2>1. /\ job'.wd = w /\ job'.current /\ job'.attempt = 0
        /\ Admitted(w) /\ wdCache[w].mode \in {"strict", "soft"}
    BY <1>2, Zenon DEF Suspending
  <2> QED BY <1>1, <1>2, <2>1 DEF Protected, Admitted
<1> QED BY <1>3, <1>4, <1>5 DEF CalmInv

\* A reconcile that is told to do nothing more.
LEMMA SilentCalm ==
  ASSUME TypeOK, CacheInv, CalmInv, Calm, NEW w \in WDs,
         ReconcileGone(w) \/ AwaitMaxSuspend(w) \/ AwaitWindow(w) \/ AwaitRecovery(w)
  PROVE  CalmInv'
<1>1. Take(w) /\ NoPatch /\ job' = job
  BY DEF ReconcileGone, AwaitMaxSuspend, AwaitWindow, AwaitRecovery, Degrading, Recovering,
         Enforce, Evaluate
<1>2. job = Idle /\ wd' = wd BY <1>1 DEF Take
<1>3. Holds(w) => Holds(w)' BY <1>1, <1>2 DEF Holds
<1>4. AllHeld' BY <1>1, <1>2, <1>3, NoPatchHeld DEF CalmInv
<1> QED BY <1>1, <1>2, <1>4, TakeCalm

\* A reconcile that only writes another phase than Suspended: the phase it read was
\* not Suspended, or there is nothing to hold.
LEMMA OtherPhaseCalm ==
  ASSUME TypeOK, CacheInv, CalmInv, Calm, NEW w \in WDs, Take(w), NoPatch,
         NEW s \in Status, NEW phase, setStatus(w, s, phase), phase # "Suspended",
         \/ wdCache[w].status.phase # "Suspended"
         \/ ~Protected(w)
         \/ ~workloadCache[Dependent[w]].exists
  PROVE  CalmInv'
<1>0. Dependent[w] \in Workloads BY ConstantsAssumption
<1>1. job = Idle /\ wd' = wd BY DEF Take
<1>2. /\ wdCache[w] = wd[w]
      /\ workloadCache[Dependent[w]] = workload[Dependent[w]]
  BY <1>0, CalmReads DEF Take
<1>3. ~(owed[Dependent[w]] > 0 /\ Holds(w))
  BY <1>0, <1>1, <1>2 DEF CalmInv, AllHeld, SuspendedProtected, Holds
<1>4. job' # Idle /\ job'.wd = w /\ job'.phase = phase BY SetStatusJob
<1>5. AllHeld' BY <1>1, <1>3, <1>4, NoPatchHeld DEF CalmInv
<1> QED BY <1>4, <1>5, TakeCalm

\* suspendWorkload and the status it leaves hold what was held and what was taken.
LEMMA SuspendCalm ==
  ASSUME TypeOK, CacheInv, CalmInv, Calm, NEW w \in WDs, Enforce(w), suspendWorkload(w),
         setStatus(w, SuspendedStatus(w, wdCache[w].status), "Suspended")
  PROVE  CalmInv'
<1>0. Dependent[w] \in Workloads BY ConstantsAssumption
<1>1. Take(w) /\ Admitted(w) /\ wdCache[w].mode \in {"strict", "soft"}
  BY DEF Enforce, Evaluate
<1>2. job = Idle /\ wd' = wd BY <1>1 DEF Take
<1>3. /\ wdCache[w] = wd[w]
      /\ workloadCache[Dependent[w]] = workload[Dependent[w]]
  BY <1>0, <1>1, CalmReads DEF Take
<1> DEFINE s == wdCache[w].status
           t == SuspendedStatus(w, s)
           c == workloadCache[Dependent[w]]
<1>4. s \in Status /\ c \in Workload BY <1>0 DEF TypeOK, WD
<1>5. Kind[Dependent[w]] # "CronJob" BY DEF Calm
<1>6. t \in Status BY <1>4, <1>5 DEF SuspendedStatus, Status, Workload
<1>7. c.replicas = 0 => t = s BY DEF SuspendedStatus
<1>8. c.replicas # 0 => Restorable(t)
  <2> SUFFICES ASSUME c.replicas # 0 PROVE Restorable(t) OBVIOUS
  <2>1. t = [s EXCEPT !.savedReplicas = c.replicas] BY <1>5 DEF SuspendedStatus
  <2>2. t.savedReplicas = c.replicas BY <1>4, <2>1 DEF Status
  <2> QED BY <1>4, <2>2, ConstantsAssumption DEF Restorable, Workload
<1> HIDE DEF s, t, c
<1>9. /\ job' # Idle /\ job'.wd = w /\ job'.current = fresh[w] /\ job'.attempt = 0
      /\ Holds(w)' <=> Restorable(t)
  BY <1>6, SetStatusJob DEF s, t
<1>10. AllHeld'
  <2>1. CASE c.replicas = 0
    <3>1. NoPatch BY <2>1 DEF suspendWorkload, c
    <3>2. Holds(w) => Restorable(s) BY <1>2, <1>3 DEF Holds, s
    <3> QED BY <1>2, <1>7, <1>9, <2>1, <3>1, <3>2, NoPatchHeld DEF CalmInv
  <2>2. CASE c.replicas # 0
    <3>1. Patch(Dependent[w], 0) BY <2>2 DEF suspendWorkload, c
    <3> QED BY <1>2, <1>3, <1>8, <1>9, <2>2, <3>1, PatchDownHeld DEF CalmInv, c
  <2> QED BY <2>1, <2>2
<1> QED BY <1>1, <1>9, <1>10, TakeCalm

\* A reconcile that stays Suspended with the count it had.
LEMMA StaySuspendedCalm ==
  ASSUME TypeOK, CacheInv, CalmInv, Calm, NEW w \in WDs, Enforce(w), NoPatch,
         NEW s \in Status, setStatus(w, s, "Suspended"),
         s.savedReplicas = wdCache[w].status.savedReplicas
  PROVE  CalmInv'
<1>1. Take(w) /\ Admitted(w) /\ wdCache[w].mode \in {"strict", "soft"}
  BY DEF Enforce, Evaluate
<1>2. job = Idle /\ wd' = wd BY <1>1 DEF Take
<1>3. wdCache[w] = wd[w] BY <1>1, CalmReads DEF Take
<1>4. /\ job' # Idle /\ job'.wd = w /\ job'.current = fresh[w] /\ job'.attempt = 0
      /\ Holds(w)' <=> Restorable(s)
  BY SetStatusJob
<1>5. Holds(w) => Holds(w)' BY <1>2, <1>3, <1>4 DEF Holds, Restorable
<1>6. AllHeld' BY <1>2, <1>4, <1>5, NoPatchHeld DEF CalmInv
<1> QED BY <1>1, <1>4, <1>6, TakeCalm

\* restoreWorkload gives back before anything is forgotten.
LEMMA RestoreCalm ==
  ASSUME TypeOK, CacheInv, CalmInv, Calm, NEW w \in WDs, Take(w),
         restoreWorkload(w, wdCache[w].status),
         job' # Idle, job'.wd = w, job'.step = "status" => job'.phase # "Suspended"
  PROVE  CalmInv'
<1>0. Dependent[w] \in Workloads BY ConstantsAssumption
<1>1. job = Idle /\ wd' = wd BY DEF Take
<1>2. /\ wdCache[w] = wd[w]
      /\ workloadCache[Dependent[w]] = workload[Dependent[w]]
  BY <1>0, CalmReads DEF Take
<1>3. Kind[Dependent[w]] # "CronJob" BY DEF Calm
<1>4. wdCache[w].status \in Status BY DEF TypeOK, WD
<1>5. CASE ~Restorable(wdCache[w].status)
  <2>1. NoPatch BY <1>3, <1>5 DEF restoreWorkload, Restorable
  <2>2. ~Holds(w) BY <1>1, <1>2, <1>5 DEF Holds
  <2>3. AllHeld' BY <1>1, <2>1, <2>2, NoPatchHeld DEF CalmInv
  <2> QED BY <2>3, TakeCalm
<1>6. CASE Restorable(wdCache[w].status)
  <2> DEFINE n == wdCache[w].status.savedReplicas
  <2>1. n \in Nat /\ n # 0 BY <1>4, <1>6 DEF Restorable, Status
  <2>2. Patch(Dependent[w], n) BY <1>3, <1>6 DEF restoreWorkload, Restorable
  <2>3. AllHeld' BY <1>1, <1>2, <2>1, <2>2, PatchUpHeld DEF CalmInv
  <2> QED BY <2>3, TakeCalm
<1> QED BY <1>5, <1>6

\* Every reconcile keeps CalmInv.
LEMMA ReconcileCalm ==
  ASSUME TypeOK, CacheInv, CalmInv, Calm, NEW w \in WDs, Reconcile(w)
  PROVE  CalmInv'
<1> DEFINE s == wdCache[w].status
<1>0. s \in Status BY DEF TypeOK, WD
<1>1. Take(w) => wdCache[w] = wd[w] BY CalmReads DEF Take
<1>2. CASE ReconcileGone(w) \/ AwaitMaxSuspend(w) \/ AwaitWindow(w) \/ AwaitRecovery(w)
  BY <1>2, SilentCalm
<1>3. CASE handleDeletion(w)
  <2>1. Take(w) BY <1>3 DEF handleDeletion
  <2>2. job' # Idle /\ job'.wd = w /\ job'.step = "unfinalize"
    BY <1>3 DEF handleDeletion, Idle
  <2>3. CASE s.phase = "Suspended" /\ Restorable(s) /\ workloadCache[Dependent[w]].exists
    <3>1. restoreWorkload(w, s) BY <1>3, <2>3 DEF handleDeletion, Restorable
    <3> QED BY <2>1, <2>2, <3>1, RestoreCalm
  <2>4. CASE ~(s.phase = "Suspended" /\ Restorable(s) /\ workloadCache[Dependent[w]].exists)
    <3>1. NoPatch BY <1>3, <2>4 DEF handleDeletion, Restorable
    <3>2. job = Idle /\ wd' = wd BY <2>1 DEF Take
    <3>3. Dependent[w] \in Workloads BY ConstantsAssumption
    <3>4. workloadCache[Dependent[w]] = workload[Dependent[w]]
      BY <2>1, <3>3, CalmReads DEF Take
    <3>5. ~(owed[Dependent[w]] > 0 /\ Holds(w))
      BY <1>1, <2>1, <2>4, <3>2, <3>3, <3>4 DEF CalmInv, AllHeld, Holds
    <3>6. AllHeld' BY <2>2, <3>1, <3>2, <3>5, NoPatchHeld DEF CalmInv
    <3> QED BY <2>1, <2>2, <3>6, TakeCalm
  <2> QED BY <2>3, <2>4
<1>4. CASE AddFinalizer(w)
  <2>1. /\ job = Idle /\ job' = Idle /\ wd' = [wd EXCEPT ![w].finalizer = TRUE]
        /\ workload' = workload /\ owed' = owed
    BY <1>4 DEF AddFinalizer, historyVars
  <2>2. \A v \in WDs : /\ wd'[v].exists = wd[v].exists /\ wd'[v].status = wd[v].status
                       /\ wd'[v].paused = wd[v].paused /\ wd'[v].mode = wd[v].mode
                       /\ wd[v].finalizer => wd'[v].finalizer
    BY <2>1 DEF TypeOK, WD
  <2>3. AllHeld' BY <2>1, <2>2, SameHeld DEF CalmInv, Holds
  <2>4. SuspendedProtected' BY <2>2 DEF CalmInv, SuspendedProtected, Protected
  <2>5. NonePaused' BY <2>2 DEF CalmInv, NonePaused
  <2>6. WritesThrough' BY <2>1 DEF WritesThrough, Suspending
  <2> QED BY <2>3, <2>4, <2>5, <2>6 DEF CalmInv
<1>5. CASE RejectCycle(w)
  <2>1. Take(w) /\ ~wdCache[w].finalizer BY <1>5 DEF RejectCycle, Unadmitted
  <2>2. ~Protected(w) BY <1>1, <2>1 DEF Protected
  <2> QED BY <1>0, <1>5, <2>1, <2>2, OtherPhaseCalm DEF RejectCycle
<1>6. CASE ReconcilePaused(w)
  BY <1>1, <1>6 DEF ReconcilePaused, CalmInv, NonePaused
<1>7. CASE DependentMissing(w)
  BY <1>0, <1>7, OtherPhaseCalm DEF DependentMissing
<1>8. CASE DeferToRollout(w)
  BY <1>8 DEF DeferToRollout, Deferred, isProgressing, Calm
<1>9. CASE ReconcileObserve(w) \/ ReconcileGate(w)
  <2>1. Take(w) /\ wdCache[w].mode \notin {"strict", "soft"}
    BY <1>9 DEF ReconcileObserve, ReconcileGate, Evaluate
  <2>2. ~Protected(w) BY <1>1, <2>1 DEF Protected
  <2>3. NoPatch /\ \E phase \in {"Healthy", "Observed", "Degraded"} : setStatus(w, s, phase)
    BY <1>9 DEF ReconcileObserve, ReconcileGate
  <2> QED BY <1>0, <2>1, <2>2, <2>3, OtherPhaseCalm
<1>10. CASE StayReleased(w)
  BY <1>0, <1>10, OtherPhaseCalm DEF StayReleased, Enforce, Evaluate
<1>11. CASE StartDegraded(w)
  <2>1. Take(w) /\ s.phase # "Suspended"
    BY <1>11 DEF StartDegraded, Degrading, Enforce, Evaluate
  <2>2. [s EXCEPT !.degradedSince = 0, !.healthySince = Nil] \in Status
    BY <1>0, Zenon DEF Status, Time
  <2> QED BY <1>11, <2>1, <2>2, OtherPhaseCalm DEF StartDegraded
<1>12. CASE BecomeHealthy(w)
  <2>1. Take(w) /\ s.phase # "Suspended"
    BY <1>12 DEF BecomeHealthy, Recovering, Enforce, Evaluate
  <2>2. [s EXCEPT !.degradedSince = Nil, !.healthySince = Nil] \in Status
    BY <1>0, Zenon DEF Status, Time
  <2> QED BY <1>12, <2>1, <2>2, OtherPhaseCalm DEF BecomeHealthy
<1>13. CASE ForceRestore(w)
  <2>1. Take(w) BY <1>13 DEF ForceRestore, Enforce, Evaluate
  <2>2. [s EXCEPT !.savedReplicas = Nil, !.healthySince = Nil] \in Status
    BY <1>0, Zenon DEF Status, Time
  <2>3. job' # Idle /\ job'.wd = w /\ job'.phase = "Released"
    BY <1>13, <2>2, SetStatusJob DEF ForceRestore
  <2> QED BY <1>13, <2>1, <2>3, RestoreCalm DEF ForceRestore
<1>14. CASE Restore(w)
  <2>1. Take(w) BY <1>14 DEF Restore, Recovering, Enforce, Evaluate
  <2>2. [s EXCEPT !.savedReplicas = Nil, !.degradedSince = Nil, !.healthySince = Nil] \in Status
    BY <1>0, Zenon DEF Status, Time
  <2>3. job' # Idle /\ job'.wd = w /\ job'.phase = "Healthy"
    BY <1>14, <2>2, SetStatusJob DEF Restore
  <2> QED BY <1>14, <2>1, <2>3, RestoreCalm DEF Restore
<1>15. CASE handleSuspended(w)
  <2>1. CASE wdCache[w].mode = "strict"
    BY <1>15, <2>1, SuspendCalm DEF handleSuspended
  <2>2. CASE wdCache[w].mode # "strict"
    BY <1>0, <1>15, <2>2, StaySuspendedCalm DEF handleSuspended
  <2> QED BY <2>1, <2>2
<1>16. CASE Suspend(w)
  BY <1>16, SuspendCalm DEF Suspend, Degrading
<1>17. CASE StartRecovery(w)
  <2> DEFINE t == [s EXCEPT !.degradedSince = Nil, !.healthySince = 0]
  <2>1. t \in Status /\ t.savedReplicas = s.savedReplicas BY <1>0, Zenon DEF Status, Time
  <2>2. Enforce(w) /\ NoPatch /\ setStatus(w, t, "Suspended")
    BY <1>17 DEF StartRecovery, Recovering
  <2> QED BY <2>1, <2>2, StaySuspendedCalm, Zenon
<1> QED BY <1>2, <1>3, <1>4, <1>5, <1>6, <1>7, <1>8, <1>9, <1>10, <1>11, <1>12, <1>13,
           <1>14, <1>15, <1>16, <1>17 DEF Reconcile

\* Every call of a job keeps CalmInv: a Suspended status is written, at the first or
\* at the second attempt.
LEMMA WriteCalm ==
  ASSUME TypeOK, CacheInv, CalmInv, Calm, Write
  PROVE  CalmInv'
<1>0. job \in Job
  BY DEF Write, StatusUpdated, StatusConflict, FinalizerRemoved, WriteFailed, TypeOK
<1>1. /\ job # Idle /\ workload' = workload /\ owed' = owed /\ wdCache' = wdCache
  BY DEF Write, StatusUpdated, StatusConflict, FinalizerRemoved, WriteFailed, cacheVars,
         historyVars
<1>2. CASE StatusUpdated
  <2>1. job' = Idle /\ job.step = "status" /\ wd[job.wd].exists
    BY <1>2 DEF StatusUpdated
  <2>2. \A v \in WDs : v # job.wd => wd'[v] = wd[v] BY <1>2 DEF StatusUpdated, TypeOK
  <2>3. wd'[job.wd] = [wd[job.wd] EXCEPT !.status = applyFields(job)]
    BY <1>0, <1>2 DEF StatusUpdated, TypeOK, Job
  <2>4. /\ wd'[job.wd].exists = wd[job.wd].exists /\ wd'[job.wd].paused = wd[job.wd].paused
        /\ wd'[job.wd].finalizer = wd[job.wd].finalizer /\ wd'[job.wd].mode = wd[job.wd].mode
        /\ wd'[job.wd].status = applyFields(job)
    BY <1>0, <2>3 DEF TypeOK, WD, Job
  <2>5. /\ applyFields(job).phase = job.phase
        /\ Restorable(job.mem) => applyFields(job).savedReplicas = job.mem.savedReplicas
    BY DEF applyFields, Applied, Restorable
  <2>6. \A v \in WDs : Holds(v) => Holds(v)'
    BY <1>1, <2>1, <2>2, <2>4, <2>5, Zenon DEF Holds, Restorable
  <2>7. AllHeld' BY <1>1, <2>6, SameHeld DEF CalmInv
  <2>8. WritesThrough' BY <2>1 DEF WritesThrough, Suspending
  <2>9. NonePaused' BY <2>2, <2>4 DEF CalmInv, NonePaused
  <2>10. ASSUME NEW v \in WDs, wd'[v].exists, wd'[v].status.phase = "Suspended"
         PROVE  Protected(v)'
    <3>1. Protected(v)
      BY <1>1, <2>1, <2>2, <2>4, <2>5, <2>10
      DEF CalmInv, SuspendedProtected, WritesThrough, Suspending
    <3> QED BY <2>2, <2>4, <3>1 DEF Protected
  <2> QED BY <2>7, <2>8, <2>9, <2>10 DEF CalmInv, SuspendedProtected
<1>3. CASE StatusConflict
  <2>1. wd' = wd /\ ~job.current /\ fresh[job.wd] /\ job.step = "status"
    BY <1>0, <1>3, CalmReads DEF StatusConflict, Job
  <2>2. SuspendedProtected' /\ NonePaused'
    BY <2>1 DEF CalmInv, SuspendedProtected, Protected, NonePaused
  <2>3. CASE Suspending
    <3>1. job.attempt = 0 /\ wd[job.wd].deleting
      BY <2>1, <2>3 DEF CalmInv, WritesThrough
    <3>2. job' = [job EXCEPT !.base = wdCache[job.wd].status,
                             !.current = fresh[job.wd], !.attempt = @ + 1]
      BY <1>3, <3>1 DEF StatusConflict, maxRetries
    <3>3. /\ job' # Idle /\ job'.wd = job.wd /\ job'.step = job.step /\ job'.phase = job.phase
          /\ job'.mem = job.mem /\ job'.current = fresh[job.wd]
      BY <1>0, <3>2, Zenon DEF Job, Idle
    <3>4. \A v \in WDs : Holds(v) => Holds(v)' BY <1>1, <2>1, <3>3 DEF Holds
    <3>5. AllHeld' BY <1>1, <3>4, SameHeld DEF CalmInv
    <3>6. WritesThrough'
      BY <1>1, <2>1, <2>3, <3>1, <3>3 DEF CalmInv, WritesThrough, Protected
    <3> QED BY <2>2, <3>5, <3>6 DEF CalmInv
  <2>4. CASE ~Suspending
    <3>1. job' = Idle \/ (job'.wd = job.wd /\ job'.phase = job.phase)
      BY <1>0, <1>3, Zenon DEF StatusConflict, Job
    <3>2. job.phase # "Suspended" BY <1>1, <2>1, <2>4 DEF Suspending
    <3>3. \A v \in WDs : Holds(v) => Holds(v)' BY <1>1, <2>1, <3>1, <3>2 DEF Holds
    <3>4. AllHeld' BY <1>1, <3>3, SameHeld DEF CalmInv
    <3>5. WritesThrough' BY <3>1, <3>2 DEF WritesThrough, Suspending
    <3> QED BY <2>2, <3>4, <3>5 DEF CalmInv
  <2> QED BY <2>3, <2>4
<1>4. CASE FinalizerRemoved
  <2>1. job' = Idle /\ job.step = "unfinalize" BY <1>4 DEF FinalizerRemoved
  <2>2. \A v \in WDs : v # job.wd => wd'[v] = wd[v] BY <1>4 DEF FinalizerRemoved, TypeOK
  <2>3. ~wd'[job.wd].exists /\ wd'[job.wd].paused = wd[job.wd].paused
    BY <1>0, <1>4 DEF FinalizerRemoved, TypeOK, WD, Job
  <2>4. \A v \in WDs : Holds(v) => Holds(v)' BY <1>1, <2>1, <2>2 DEF Holds
  <2>5. AllHeld' BY <1>1, <2>4, SameHeld DEF CalmInv
  <2>6. WritesThrough' BY <2>1 DEF WritesThrough, Suspending
  <2>7. NonePaused' BY <2>2, <2>3 DEF CalmInv, NonePaused
  <2>8. SuspendedProtected'
    BY <2>2, <2>3 DEF CalmInv, SuspendedProtected, Protected
  <2> QED BY <2>5, <2>6, <2>7, <2>8 DEF CalmInv
<1>5. CASE WriteFailed
  <2>1. wd' = wd /\ job' = Idle BY <1>5 DEF WriteFailed
  <2>2. ~Suspending
    BY <1>0, <1>5 DEF WriteFailed, CalmInv, WritesThrough, Suspending, Protected, Calm, Job
  <2>3. \A v \in WDs : Holds(v) => Holds(v)' BY <1>1, <2>1, <2>2 DEF Holds, Suspending
  <2>4. AllHeld' BY <1>1, <2>3, SameHeld DEF CalmInv
  <2>5. WritesThrough' BY <2>1 DEF WritesThrough, Suspending
  <2>6. SuspendedProtected' /\ NonePaused'
    BY <2>1 DEF CalmInv, SuspendedProtected, Protected, NonePaused
  <2> QED BY <2>4, <2>5, <2>6 DEF CalmInv
<1> QED BY <1>2, <1>3, <1>4, <1>5 DEF Write

\* The informers and the clock keep CalmInv; nothing crashes.
LEMMA SystemCalm ==
  ASSUME TypeOK, CacheInv, CalmInv, Calm,
         SyncWDs \/ (\E kind \in Kinds : SyncWorkloads(kind)) \/ Tick \/ Restart
  PROVE  CalmInv'
<1>1. CASE SyncWDs
  <2>1. /\ wdCache' = wd /\ wd' = wd /\ job' = job /\ workload' = workload /\ owed' = owed
    BY <1>1 DEF SyncWDs, historyVars
  <2>2. AllHeld' BY <2>1, SameHeld DEF CalmInv, Holds
  <2>3. SuspendedProtected' /\ NonePaused'
    BY <2>1 DEF CalmInv, SuspendedProtected, Protected, NonePaused
  <2>4. WritesThrough' BY <2>1 DEF CalmInv, WritesThrough, Suspending, Protected
  <2> QED BY <2>2, <2>3, <2>4 DEF CalmInv
<1>2. CASE \E kind \in Kinds : SyncWorkloads(kind)
  <2>1. /\ wdCache' = wdCache /\ wd' = wd /\ job' = job /\ workload' = workload /\ owed' = owed
    BY <1>2 DEF SyncWorkloads, historyVars
  <2>2. AllHeld' BY <2>1, SameHeld DEF CalmInv, Holds
  <2>3. SuspendedProtected' /\ NonePaused'
    BY <2>1 DEF CalmInv, SuspendedProtected, Protected, NonePaused
  <2>4. WritesThrough' BY <2>1 DEF CalmInv, WritesThrough, Suspending, Protected
  <2> QED BY <2>2, <2>3, <2>4 DEF CalmInv
<1>3. CASE Tick
  <2>1. job = Idle /\ job' = job /\ workload' = workload /\ owed' = owed BY <1>3 DEF Tick
  <2>2. \A v \in WDs : /\ wd'[v].exists = wd[v].exists /\ wd'[v].paused = wd[v].paused
                       /\ wd'[v].finalizer = wd[v].finalizer /\ wd'[v].mode = wd[v].mode
                       /\ wd'[v].status = OlderStatus(v, wd[v].status)
    BY <1>3 DEF Tick, TypeOK, WD
  <2>3. \A v \in WDs : /\ wd'[v].status.phase = wd[v].status.phase
                       /\ wd'[v].status.savedReplicas = wd[v].status.savedReplicas
    <3> SUFFICES ASSUME NEW v \in WDs, NEW s \in Status
                 PROVE  /\ OlderStatus(v, s).phase = s.phase
                        /\ OlderStatus(v, s).savedReplicas = s.savedReplicas
      BY <2>2 DEF TypeOK, WD
    <3> QED BY DEF OlderStatus, Status
  <2>4. AllHeld' BY <2>1, <2>2, <2>3, SameHeld DEF CalmInv, Holds, Restorable
  <2>5. SuspendedProtected' /\ NonePaused'
    BY <2>2, <2>3 DEF CalmInv, SuspendedProtected, Protected, NonePaused
  <2>6. WritesThrough' BY <2>1 DEF WritesThrough, Suspending
  <2> QED BY <2>4, <2>5, <2>6 DEF CalmInv
<1>4. ~Restart BY DEF Restart, Calm
<1> QED BY <1>1, <1>2, <1>3, <1>4

\* Users and the Kubernetes controllers keep CalmInv: the finalizer protects what is
\* Suspended, and who scales or deletes a workload takes over from klink.
LEMMA EnvironmentCalm ==
  ASSUME TypeOK, CacheInv, CalmInv, Calm, Environment
  PROVE  CalmInv'
<1>1. ASSUME NEW x \in Workloads, NEW object, Outside(x, object),
             \/ owed' = [owed EXCEPT ![x] = 0]
             \/ /\ owed' = owed
                /\ owed[x] > 0 => object.exists /\ object.replicas = 0
      PROVE  CalmInv'
  <2>1. /\ wd' = wd /\ job' = job /\ wdCache' = wdCache
        /\ workload' = [workload EXCEPT ![x] = object]
    BY <1>1 DEF Outside, cacheVars
  <2>2. \A v \in WDs : Holds(v) <=> Holds(v)' BY <2>1 DEF Holds
  <2>3. AllHeld' BY <1>1, <2>1, <2>2 DEF CalmInv, AllHeld, TypeOK
  <2>4. SuspendedProtected' /\ NonePaused'
    BY <2>1 DEF CalmInv, SuspendedProtected, Protected, NonePaused
  <2>5. WritesThrough' BY <2>1 DEF CalmInv, WritesThrough, Suspending, Protected
  <2> QED BY <2>3, <2>4, <2>5 DEF CalmInv
<1>2. ASSUME NEW x \in Workloads,
             \/ ScaleWorkload(x) \/ PodsChange(x) \/ RolloutChange(x)
             \/ DeleteWorkload(x) \/ CreateWorkload(x)
      PROVE  CalmInv'
  <2>0. workload[x] \in Workload BY DEF TypeOK
  <2>1. CASE ScaleWorkload(x) \/ DeleteWorkload(x)
    BY <1>1, <2>1, Zenon DEF ScaleWorkload, DeleteWorkload
  <2>2. CASE PodsChange(x)
    <3> DEFINE object == [workload[x] EXCEPT !.ready = ~@]
    <3>1. object.exists = workload[x].exists /\ object.replicas = workload[x].replicas
      BY <2>0 DEF Workload
    <3>2. Outside(x, object) /\ owed' = owed BY <2>2 DEF PodsChange
    <3> HIDE DEF object
    <3> QED BY <1>1, <3>1, <3>2 DEF CalmInv, AllHeld
  <2>3. CASE RolloutChange(x)
    <3>1. PICK p : Outside(x, [workload[x] EXCEPT !.phase = p]) BY <2>3, Zenon DEF RolloutChange
    <3> DEFINE object == [workload[x] EXCEPT !.phase = p]
    <3>2. object.exists = workload[x].exists /\ object.replicas = workload[x].replicas
      BY <2>0 DEF Workload
    <3>3. Outside(x, object) /\ owed' = owed BY <2>3, <3>1, Zenon DEF RolloutChange
    <3> HIDE DEF object
    <3> QED BY <1>1, <3>2, <3>3 DEF CalmInv, AllHeld
  <2>4. CASE CreateWorkload(x)
    <3>1. ~(owed[x] > 0) BY <2>4, Zenon DEF CreateWorkload, CalmInv, AllHeld
    <3> QED BY <1>1, <2>4, <3>1, Zenon DEF CreateWorkload
  <2> QED BY <1>2, <2>1, <2>2, <2>3, <2>4
<1>3. ASSUME NEW w \in WDs, DeleteWD(w) PROVE CalmInv'
  <2> DEFINE object == IF wd[w].finalizer THEN [wd[w] EXCEPT !.deleting = TRUE]
                                          ELSE [wd[w] EXCEPT !.exists = FALSE]
  <2>1. /\ wd' = [wd EXCEPT ![w] = object] /\ ~wd[w].deleting
        /\ job' = IF job # Idle /\ job.wd = w THEN [job EXCEPT !.current = FALSE] ELSE job
        /\ workload' = workload /\ owed' = owed /\ wdCache' = wdCache
    BY <1>3 DEF DeleteWD, UserWrites, historyVars
  <2>2. /\ object.paused = wd[w].paused /\ object.mode = wd[w].mode
        /\ object.status = wd[w].status /\ object.finalizer = wd[w].finalizer
        /\ wd[w].finalizer => object.exists = wd[w].exists /\ object.deleting
        /\ ~wd[w].finalizer => ~object.exists
    BY Zenon DEF TypeOK, WD
  <2> HIDE DEF object
  <2>3. wd'[w] = object /\ \A v \in WDs : v # w => wd'[v] = wd[v] BY <2>1 DEF TypeOK
  <2>4. job = Idle <=> job' = Idle
    BY <2>1 DEF TypeOK, Job, Idle
  <2>5. job # Idle => /\ job'.wd = job.wd /\ job'.step = job.step /\ job'.phase = job.phase
                      /\ job'.mem = job.mem /\ job'.attempt = job.attempt
                      /\ job.wd # w => job'.current = job.current
    BY <2>1, Zenon DEF TypeOK, Job
  <2>6. \A v \in WDs : Holds(v) => Holds(v)'
    BY <2>2, <2>3, <2>4, <2>5 DEF Holds, CalmInv, SuspendedProtected, Protected
  <2>7. AllHeld' BY <2>1, <2>6, SameHeld DEF CalmInv
  <2>8. NonePaused' BY <2>2, <2>3 DEF CalmInv, NonePaused
  <2>9. SuspendedProtected'
    BY <2>2, <2>3 DEF CalmInv, SuspendedProtected, Protected
  <2>10. WritesThrough'
    <3> SUFFICES ASSUME Suspending' PROVE WritesThrough' BY DEF WritesThrough
    <3>1. Suspending BY <2>4, <2>5 DEF Suspending
    <3>2. job \in Job BY <3>1 DEF Suspending, TypeOK
    <3>3. CASE job.wd = w
      <4>1. Protected(w) /\ job.attempt = 0
        BY <2>1, <3>1, <3>2, <3>3 DEF CalmInv, WritesThrough, Job
      <4>2. Protected(w)' /\ wd'[w].deleting BY <2>2, <2>3, <4>1, Zenon DEF Protected
      <4> QED BY <2>1, <2>5, <3>1, <3>3, <4>1, <4>2
              DEF CalmInv, WritesThrough, Suspending
    <3>4. CASE job.wd # w
      BY <2>1, <2>3, <2>5, <3>1, <3>2, <3>4
      DEF CalmInv, WritesThrough, Suspending, Protected, Job
    <3> QED BY <3>3, <3>4
  <2> QED BY <2>7, <2>8, <2>9, <2>10 DEF CalmInv
<1>4. ASSUME NEW w \in WDs, CreateWD(w) PROVE CalmInv'
  <2>1. PICK m \in Modes : wd' = [wd EXCEPT ![w] = NewWD(m)] BY <1>4, Zenon DEF CreateWD
  <2>2. wd'[w] = NewWD(m) /\ \A v \in WDs : v # w => wd'[v] = wd[v] BY <2>1 DEF TypeOK
  <2>3. /\ ~wd[w].exists
        /\ job' = IF job # Idle /\ job.wd = w THEN [job EXCEPT !.current = FALSE] ELSE job
        /\ workload' = workload /\ owed' = owed /\ wdCache' = wdCache
    BY <1>4 DEF CreateWD
  <2>4. job = Idle <=> job' = Idle
    BY <2>3 DEF TypeOK, Job, Idle
  <2>5. job # Idle => /\ job'.wd = job.wd /\ job'.step = job.step /\ job'.phase = job.phase
                      /\ job.wd # w => job' = job
    BY <2>3 DEF TypeOK, Job
  <2>6. Suspending => job.wd # w BY <2>3 DEF CalmInv, WritesThrough, Protected
  <2>7. \A v \in WDs : Holds(v) => Holds(v)'
    BY <2>2, <2>3, <2>4, <2>5, <2>6 DEF Holds, Suspending
  <2>8. AllHeld' BY <2>3, <2>7, SameHeld DEF CalmInv
  <2>9. NonePaused' BY <2>2 DEF CalmInv, NonePaused, NewWD
  <2>10. SuspendedProtected'
    <3>1. NewWD(m).status.phase = "" BY Zenon DEF NewWD, EmptyStatus
    <3> QED BY <2>2, <3>1, Zenon DEF CalmInv, SuspendedProtected, Protected
  <2>11. WritesThrough'
    <3> SUFFICES ASSUME Suspending' PROVE WritesThrough' BY DEF WritesThrough
    <3>1. Suspending /\ job.wd # w BY <2>4, <2>5, <2>6 DEF Suspending
    <3>2. job \in Job BY <3>1, Zenon DEF Suspending, TypeOK
    <3> QED BY <2>2, <2>3, <2>5, <3>1, <3>2
            DEF CalmInv, WritesThrough, Suspending, Protected, Job
  <2> QED BY <2>8, <2>9, <2>10, <2>11 DEF CalmInv
<1>5. \A w \in WDs : ~TogglePause(w) /\ ~EditMode(w) BY DEF TogglePause, EditMode, Calm
<1> QED BY <1>2, <1>3, <1>4, <1>5 DEF Environment

\* Init has CalmInv.
LEMMA InitCalm == Init => CalmInv
<1> SUFFICES ASSUME Init PROVE CalmInv OBVIOUS
<1>1. PICK mode \in [WDs -> Modes] :
        wd = [w \in WDs |-> [NewWD(mode[w]) EXCEPT !.exists = "create" \notin Disturbances]]
  BY Zenon DEF Init
<1>2. \A w \in WDs : ~wd[w].paused /\ wd[w].status.phase = ""
  BY <1>1, Zenon DEF NewWD, EmptyStatus
<1>3. WritesThrough BY Zenon DEF Init, WritesThrough, Suspending
<1>4. AllHeld
  <2>1. \A x \in Workloads : owed[x] = 0 BY Zenon DEF Init
  <2> QED BY <2>1 DEF AllHeld
<1> QED BY <1>2, <1>3, <1>4, Zenon DEF CalmInv, SuspendedProtected, NonePaused


\* Every step of a calm environment keeps CalmInv.
LEMMA CalmInvHolds == ASSUME Calm PROVE Spec => [](TypeOK /\ CacheInv /\ CalmInv)
<1>1. Init => TypeOK /\ CacheInv /\ CalmInv BY InitType, InitCache, InitCalm
<1>2. TypeOK /\ CacheInv /\ CalmInv /\ [Next]_vars => (TypeOK /\ CacheInv /\ CalmInv)'
  <2> SUFFICES ASSUME TypeOK, CacheInv, CalmInv, [Next]_vars
               PROVE  (TypeOK /\ CacheInv /\ CalmInv)'
    OBVIOUS
  <2>1. CASE Next
    BY <2>1, ReconcileCalm, WriteCalm, SystemCalm, EnvironmentCalm, NextType, NextCache DEF Next
  <2>2. CASE UNCHANGED vars
    <3>1. /\ wd' = wd /\ job' = job /\ wdCache' = wdCache
          /\ workload' = workload /\ owed' = owed
      BY <2>2 DEF vars
    <3>2. CalmInv'
      BY <3>1 DEF CalmInv, WritesThrough, SuspendedProtected, NonePaused, AllHeld, Holds,
                  Suspending, Protected
    <3> QED BY <2>2, <3>2, NextType, NextCache
  <2> QED BY <2>1, <2>2
<1> QED BY <1>1, <1>2, PTL DEF Spec

\* Nobody's replicas are forgotten.  When reads are level, no write is lost, and
\* users neither pause a WorkloadDependency nor change its mode, every Deployment or
\* StatefulSet at the zero klink took it to is remembered by some WorkloadDependency,
\* through any interleaving of reconciles with scaling, with deletion and creation
\* of WorkloadDependencies and of workloads, and with outages.
THEOREM ReplicasRemembered == ASSUME Calm PROVE Spec => []NeverForgotten
<1>1. CalmInv => NeverForgotten
  <2> SUFFICES ASSUME CalmInv, NEW x \in Workloads, owed[x] > 0
               PROVE  \E w \in WDs : Remembers(w, x)
    BY DEF NeverForgotten
  <2> QED BY DEF CalmInv, AllHeld, Holds, Restorable, Remembers
<1> QED BY <1>1, CalmInvHolds, PTL
-----------------------------------------------------------------------------
(***************************************************************************)
(* One failure does not spread.                                            *)
(***************************************************************************)


\* One failure does not spread along mutual dependencies.  In a calm environment whose
\* dependencies are no Rollouts, klink takes a workload to zero only if one of its
\* dependencies is gone, not ready, or at a zero that klink did not put it to: whoever
\* is at a zero of klink's is held by a WorkloadDependency with the phase Suspended, and
\* evaluateDependencies takes that for ok (isSuspendedByKlink).
THEOREM FailuresStayLocal ==
  ASSUME Calm, \A w \in WDs : \A x \in Dependencies(w) : Kind[x] # "Rollout"
  PROVE  Spec => NoCascade
<1>1. TypeOK /\ CacheInv /\ CalmInv /\ [Next]_vars
        => [\A w \in WDs : Empties(w) => \E x \in Dependencies(w) : DownByItself(x)]_vars
  <2> SUFFICES ASSUME TypeOK, CacheInv, CalmInv, Next, NEW w \in WDs, Empties(w)
               PROVE  \E x \in Dependencies(w) : DownByItself(x)
    OBVIOUS
  <2>1. Take(w) /\ ~allOk(w) BY EmptiesAdmitted
  <2>2. PICK x \in Dependencies(w) :
          ~(workloadCache[x].exists /\ depStatus(x) \in {"Healthy", "CoSuspended"})
    BY <2>1 DEF allOk
  <2>3. x \in Workloads BY SpecAssumption DEF Dependencies
  <2>4. job = Idle /\ workloadCache[x] = workload[x] /\ \A v \in WDs : wdCache[v] = wd[v]
    BY <2>1, <2>3, CalmReads DEF Take
  <2>5. owed[x] > 0 => workload[x].replicas = 0 /\ isSuspendedByKlink(x)
    <3> SUFFICES ASSUME owed[x] > 0
                 PROVE  workload[x].replicas = 0 /\ isSuspendedByKlink(x)
      OBVIOUS
    <3>1. PICK v \in WDs : Dependent[v] = x /\ Holds(v) BY <2>3 DEF CalmInv, AllHeld
    <3>2. wdCache[v].exists /\ wdCache[v].status.phase = "Suspended"
      BY <2>4, <3>1 DEF Holds
    <3> QED BY <2>3, <3>1, <3>2 DEF CalmInv, AllHeld, isSuspendedByKlink, DependentKey
  <2>6. CASE ~workload[x].exists BY <2>6 DEF DownByItself
  <2>7. CASE workload[x].exists
    <3>1. ~Serves(x) /\ ~(MayBeCoSuspended(x) /\ isSuspendedByKlink(x))
      BY <2>2, <2>4, <2>7 DEF depStatus
    <3>2. ~(owed[x] > 0) BY <2>4, <2>5, <3>1 DEF MayBeCoSuspended
    <3>3. owed[x] = 0 BY <2>3, <3>2 DEF TypeOK
    <3>4. workload[x].replicas = 0 \/ ~workload[x].ready BY <2>4, <3>1 DEF Serves
    <3> QED BY <3>3, <3>4 DEF DownByItself
  <2> QED BY <2>6, <2>7
<1> QED BY <1>1, CalmInvHolds, PTL DEF Spec, NoCascade
-----------------------------------------------------------------------------
(***************************************************************************)
(* The count that comes back is the one that was taken.                    *)
(***************************************************************************)

\* No two WorkloadDependencies have the same dependent.
Unshared == \A v, w \in WDs : Dependent[v] = Dependent[w] => v = w

\* The count that w has on record, or is about to record.
Count(w) ==
  IF job # Idle /\ job.wd = w THEN job.mem.savedReplicas ELSE wd[w].status.savedReplicas

\* It is the count that klink took.
CountInv == \A w \in WDs : owed[Dependent[w]] > 0 => Count(w) = owed[Dependent[w]]

\* Whoever's dependent is at a zero of klink's is the one that holds the count.
LEMMA OwedHeld ==
  ASSUME CalmInv, Unshared, NEW w \in WDs, owed[Dependent[w]] > 0
  PROVE  Holds(w) /\ workload[Dependent[w]].replicas = 0
  BY ConstantsAssumption DEF CalmInv, AllHeld, Unshared

\* The three ways a reconcile treats its dependent.
LEMMA ReconcileGives ==
  ASSUME NEW w \in WDs, Reconcile(w)
  PROVE  NoPatch \/ suspendWorkload(w) \/ restoreWorkload(w, wdCache[w].status)
<1>1. UNCHANGED <<workload, level>> /\ UNCHANGED historyVars => NoPatch
  BY DEF NoPatch, historyVars
<1> QED
  BY <1>1 DEF Reconcile, ReconcileGone, handleDeletion, AddFinalizer, RejectCycle,
      ReconcilePaused,
    DependentMissing, DeferToRollout, ReconcileObserve, ReconcileGate, StayReleased, ForceRestore,
    AwaitMaxSuspend, handleSuspended, StartDegraded, AwaitWindow, Suspend, BecomeHealthy,
    StartRecovery, AwaitRecovery, Restore

\* A reconcile that will write Suspended has the count, or has just taken it.
LEMMA SuspendingCount ==
  ASSUME TypeOK, CacheInv, CalmInv, Calm, Unshared, CountInv, NEW w \in WDs, Take(w), Reconcile(w),
         Holds(w)', owed'[Dependent[w]] > 0
  PROVE  Count(w)' = owed'[Dependent[w]]
<1> DEFINE s == wd[w].status
           d == Dependent[w]
<1>0. /\ d \in Workloads /\ s \in Status /\ job = Idle /\ wd' = wd
      /\ wdCache[w] = wd[w] /\ workloadCache[d] = workload[d] /\ workload[d] \in Workload
  BY ConstantsAssumption, CalmReads DEF Take, TypeOK, WD
<1>1. owed[d] > 0 => s.savedReplicas = owed[d] /\ workload[d].replicas = 0
  BY <1>0, OwedHeld DEF CountInv, Count
<1>2. ASSUME NEW m \in Status, NEW p, setStatus(w, m, p)
      PROVE  p = "Suspended" /\ Count(w)' = m.savedReplicas
  BY <1>2, SetStatusJob DEF Count
<1>3. CASE job' = Idle
  <2>1. NoPatch
    BY <1>3 DEF Reconcile, ReconcileGone, handleDeletion, AddFinalizer, RejectCycle,
      ReconcilePaused, DependentMissing, DeferToRollout, ReconcileObserve, ReconcileGate,
      StayReleased, ForceRestore, AwaitMaxSuspend, handleSuspended, StartDegraded, AwaitWindow,
      Suspend, BecomeHealthy, StartRecovery, AwaitRecovery, Restore, setStatus, Idle, NoPatch,
      historyVars
  <2> QED BY <1>0, <1>1, <1>3, <2>1 DEF NoPatch, Count
<1>4. CASE suspendWorkload(w) /\ setStatus(w, SuspendedStatus(w, s), "Suspended")
  <2>1. CASE workload[d].replicas = 0
    <3>1. NoPatch /\ setStatus(w, s, "Suspended")
      BY <1>0, <1>4, <2>1 DEF suspendWorkload, SuspendedStatus
    <3> QED BY <1>0, <1>1, <1>2, <3>1 DEF NoPatch
  <2>2. CASE workload[d].replicas # 0
    <3> DEFINE m == [s EXCEPT !.savedReplicas = workload[d].replicas]
    <3>1. Patch(d, 0) /\ setStatus(w, m, "Suspended")
      BY <1>0, <1>4, <2>2 DEF suspendWorkload, SuspendedStatus, Calm
    <3>2. m \in Status /\ m.savedReplicas = workload[d].replicas
      BY <1>0 DEF Status, Workload
    <3>3. owed'[d] = workload[d].replicas BY <1>0, <2>2, <3>1 DEF Patch, TypeOK
    <3> HIDE DEF m
    <3> QED BY <1>2, <3>1, <3>2, <3>3
  <2> QED BY <2>1, <2>2
<1>5. CASE NoPatch /\ \E m \in Status : m.savedReplicas = s.savedReplicas
                                        /\ setStatus(w, m, "Suspended")
  BY <1>0, <1>1, <1>2, <1>5 DEF NoPatch
<1>6. CASE handleSuspended(w)
  <2>1. CASE wdCache[w].mode = "strict" BY <1>0, <1>4, <1>6, <2>1 DEF handleSuspended
  <2>2. CASE wdCache[w].mode # "strict" BY <1>0, <1>5, <1>6, <2>2 DEF handleSuspended
  <2> QED BY <2>1, <2>2
<1>7. CASE Suspend(w) BY <1>0, <1>4, <1>7 DEF Suspend
<1>8. CASE StartRecovery(w)
  <2> DEFINE m == [s EXCEPT !.degradedSince = Nil, !.healthySince = 0]
  <2>1. m \in Status /\ m.savedReplicas = s.savedReplicas BY <1>0, Zenon DEF Status, Time
  <2>2. NoPatch /\ setStatus(w, m, "Suspended") BY <1>0, <1>8 DEF StartRecovery
  <2> HIDE DEF m
  <2> QED BY <1>5, <2>1, <2>2
<1>9. CASE job' # Idle
  <2>1. job'.step = "status" /\ job'.phase = "Suspended"
    BY <1>9, ReconcileJob DEF Holds
  <2> QED
    BY <1>6, <1>7, <1>8, <1>9, <1>0, <2>1 DEF Reconcile, ReconcileGone, handleDeletion,
      AddFinalizer, RejectCycle, ReconcilePaused, DependentMissing, DeferToRollout,
      ReconcileObserve, ReconcileGate, StayReleased, ForceRestore, AwaitMaxSuspend, StartDegraded,
      AwaitWindow, BecomeHealthy, AwaitRecovery, Restore, setStatus
<1> QED BY <1>3, <1>9

\* Every step keeps CountInv: only the one WorkloadDependency of a dependent takes and
\* returns its count, applyFields writes what the handler saved, and users clear owed.
LEMMA NextCount ==
  ASSUME TypeOK, CacheInv, CalmInv, CalmInv', Calm, Unshared, CountInv, [Next]_vars
  PROVE  CountInv'
<1>0. SUFFICES ASSUME NEW w \in WDs, owed'[Dependent[w]] > 0
               PROVE  Count(w)' = owed'[Dependent[w]]
  BY Zenon DEF CountInv
<1> DEFINE d == Dependent[w]
<1>d. d \in Workloads BY ConstantsAssumption
<1>1. Holds(w)'
  <2>1. AllHeld' BY DEF CalmInv
  <2>2. PICK v \in WDs : Dependent[v] = d /\ Holds(v)' BY <1>0, <1>d, <2>1 DEF AllHeld
  <2> QED BY <2>2 DEF Unshared
<1>2. owed[d] > 0 => Count(w) = owed[d] /\ Holds(w) BY OwedHeld DEF CountInv
<1>3. ASSUME owed'[d] = owed[d], owed[d] > 0 => Count(w)' = Count(w)
      PROVE  Count(w)' = owed'[d]
  BY <1>0, <1>2, <1>3, Zenon
<1>4. ASSUME NEW v \in WDs, Reconcile(v) PROVE Count(w)' = owed'[d]
  <2>1. job = Idle /\ (job' # Idle => job'.wd = v) BY <1>4, ReconcileJob DEF setStatus
  <2>2. CASE w = v /\ Take(v) BY <1>0, <1>1, <1>4, <2>2, SuspendingCount
  <2>3. CASE AddFinalizer(v)
    <3>1. owed' = owed /\ job' = job /\ wd'[w].status = wd[w].status
      BY <2>3 DEF AddFinalizer, historyVars, TypeOK, WD
    <3> QED BY <1>3, <2>1, <3>1 DEF Count
  <2>4. CASE w # v /\ Take(v)
    <3>1. Dependent[v] # d BY <2>4 DEF Unshared
    <3>2. owed'[d] = owed[d]
      <4>1. NoPatch \/ \E n \in Nat : Patch(Dependent[v], n) BY <1>4, ReconcilePatches
      <4> QED BY <1>d, <3>1, <4>1, Zenon DEF NoPatch, Patch, TypeOK
    <3>3. Count(w)' = Count(w) BY <2>1, <2>4 DEF Count, Take
    <3> QED BY <1>3, <3>2, <3>3
  <2> QED BY <1>4, <2>2, <2>3, <2>4, ReconcileTakes
<1>5. CASE Write
  <2>0. job \in Job /\ job # Idle /\ owed' = owed
    BY <1>5 DEF Write, StatusUpdated, StatusConflict, FinalizerRemoved, WriteFailed, historyVars,
                TypeOK
  <2> SUFFICES ASSUME owed[d] > 0, Holds(w) PROVE Count(w)' = Count(w) BY <1>2, <1>3, <2>0
  <2>1. CASE StatusUpdated /\ job.wd = w
    <3>1. Restorable(job.mem) BY <2>0, <2>1 DEF Holds
    <3>2. wd'[w].status = applyFields(job) /\ job' = Idle
      BY <2>1 DEF StatusUpdated, TypeOK, WD
    <3>3. applyFields(job).savedReplicas = job.mem.savedReplicas
      BY <3>1 DEF applyFields, Applied, Restorable
    <3> QED BY <2>0, <2>1, <3>2, <3>3 DEF Count
  <2>2. CASE job.wd # w
    <3>1. wd'[w] = wd[w]
      BY <1>5, <2>2 DEF Write, StatusUpdated, StatusConflict, FinalizerRemoved, WriteFailed,
          TypeOK
    <3>2. job' = Idle \/ job'.wd = job.wd
      BY <1>5, <2>0, Zenon DEF Write, StatusUpdated, StatusConflict, FinalizerRemoved,
          WriteFailed, Job
    <3> QED BY <2>2, <3>1, <3>2 DEF Count
  <2>3. CASE StatusConflict /\ job.wd = w
    <3>1. Suspending /\ ~job.current BY <2>0, <2>3 DEF StatusConflict, Holds, Suspending
    <3>2. job.attempt = 0 BY <3>1 DEF CalmInv, WritesThrough
    <3>3. job' = [job EXCEPT !.base = wdCache[job.wd].status,
                             !.current = fresh[job.wd], !.attempt = @ + 1]
      BY <2>3, <3>2 DEF StatusConflict, maxRetries
    <3>4. job'.mem = job.mem /\ job'.wd = w /\ job' # Idle
      BY <2>0, <2>3, <3>3, Zenon DEF Job, Idle
    <3> QED BY <2>0, <2>3, <3>4 DEF Count
  <2>4. CASE (FinalizerRemoved \/ WriteFailed) /\ job.wd = w
    <3>1. Suspending BY <2>0, <2>4 DEF Holds, Suspending
    <3> QED BY <2>4, <3>1 DEF FinalizerRemoved, WriteFailed, Suspending, CalmInv, WritesThrough,
                              Protected, Calm
  <2> QED BY <1>5, <2>1, <2>2, <2>3, <2>4 DEF Write
<1>6. CASE SyncWDs \/ \E kind \in Kinds : SyncWorkloads(kind)
  <2>1. owed' = owed /\ wd' = wd /\ job' = job BY <1>6 DEF SyncWDs, SyncWorkloads, historyVars
  <2> QED BY <1>3, <2>1 DEF Count
<1>7. CASE Tick
  <2>1. owed' = owed /\ job = Idle /\ job' = Idle BY <1>7 DEF Tick
  <2>2. wd'[w].status = OlderStatus(w, wd[w].status) BY <1>7 DEF Tick, TypeOK, WD
  <2>3. wd'[w].status.savedReplicas = wd[w].status.savedReplicas
    BY <2>2 DEF OlderStatus, TypeOK, WD, Status
  <2> QED BY <1>3, <2>1, <2>3 DEF Count
<1>8. ASSUME NEW x \in Workloads, \/ ScaleWorkload(x) \/ PodsChange(x) \/ RolloutChange(x)
                                  \/ DeleteWorkload(x) \/ CreateWorkload(x)
      PROVE  Count(w)' = owed'[d]
  <2>1. wd' = wd /\ job' = job /\ (owed'[d] = owed[d] \/ owed'[d] = 0)
    BY <1>8, <1>d, Zenon DEF ScaleWorkload, PodsChange, RolloutChange, DeleteWorkload,
        CreateWorkload,
                      Outside, TypeOK
  <2> QED BY <1>0, <1>3, <2>1 DEF Count
<1>9. ASSUME NEW v \in WDs, DeleteWD(v) \/ CreateWD(v) PROVE Count(w)' = owed'[d]
  <2>1. /\ job' = IF job # Idle /\ job.wd = v THEN [job EXCEPT !.current = FALSE] ELSE job
        /\ owed' = owed
    BY <1>9 DEF DeleteWD, CreateWD, UserWrites, historyVars
  <2>2. /\ (job' # Idle /\ job'.wd = w) <=> (job # Idle /\ job.wd = w)
        /\ job # Idle => job'.mem = job.mem
    BY <2>1 DEF TypeOK, Job, Idle
  <2>3. CASE job # Idle /\ job.wd = w BY <1>3, <2>1, <2>2, <2>3 DEF Count
  <2>4. CASE ~(job # Idle /\ job.wd = w)
    <3>1. owed[d] > 0 => wd[w].exists BY <1>2, <2>4 DEF Holds
    <3>2. wd[w].exists => wd'[w].status = wd[w].status
      BY <1>9 DEF DeleteWD, CreateWD, UserWrites, TypeOK, WD
    <3> QED BY <1>3, <2>1, <2>2, <2>4, <3>1, <3>2 DEF Count
  <2> QED BY <2>3, <2>4
<1>10. CASE UNCHANGED vars BY <1>3, <1>10 DEF vars, Count
<1> QED
  BY <1>4, <1>5, <1>6, <1>7, <1>8, <1>9, <1>10, Zenon
  DEF Next, Environment, Calm, TogglePause, EditMode, Restart

\* What klink took is what it gives back: in a calm environment where no two
\* WorkloadDependencies have the same dependent, a reconcile that raises a dependent
\* from a zero of klink's raises it to the count it had, and not to the fallback of
\* restoreWorkload or to a count of an earlier suspension.
THEOREM CountsComeBack == ASSUME Calm, Unshared PROVE Spec => CountPreserved
<1>1. Init => CountInv
  <2> SUFFICES ASSUME Init, NEW w \in WDs PROVE ~(owed[Dependent[w]] > 0) BY DEF CountInv
  <2>1. owed = [x \in Workloads |-> 0] BY Zenon DEF Init
  <2> QED BY <2>1, ConstantsAssumption
<1>2. (TypeOK /\ CacheInv /\ CalmInv) /\ (TypeOK /\ CacheInv /\ CalmInv)' /\ CountInv /\ [Next]_vars
        => CountInv'
  BY NextCount
<1>3. TypeOK /\ CacheInv /\ CalmInv /\ CountInv /\ [Next]_vars
        => [\A w \in WDs : Raises(w) /\ owed[Dependent[w]] > 0
                             => workload'[Dependent[w]].replicas = owed[Dependent[w]]]_vars
  <2> SUFFICES ASSUME TypeOK, CacheInv, CalmInv, CountInv, Next, NEW w \in WDs, Raises(w),
                      owed[Dependent[w]] > 0
               PROVE  workload'[Dependent[w]].replicas = owed[Dependent[w]]
    OBVIOUS
  <2> DEFINE d == Dependent[w]
  <2>1. Reconcile(w) /\ job = Idle BY OnlyReconcilesAct DEF Raises, Acts
  <2>2. d \in Workloads /\ workload[d] \in Workload BY ConstantsAssumption DEF TypeOK
  <2>3. workload[d].replicas = 0 /\ wd[w].status.savedReplicas = owed[d]
    BY <2>1, OwedHeld DEF CountInv, Count
  <2>4. Readable BY <2>1, ReconcileTakes DEF Take, AddFinalizer
  <2>5. wdCache[w] = wd[w] /\ workloadCache[d] = workload[d] BY <2>2, <2>4, CalmReads
  <2>6. ~NoPatch BY <2>3 DEF Raises, NoPatch
  <2>7. ~suspendWorkload(w) BY <2>3, <2>5, <2>6 DEF suspendWorkload
  <2>8. restoreWorkload(w, wdCache[w].status) BY <2>1, <2>6, <2>7, ReconcileGives
  <2>9. Patch(d, owed[d]) BY <2>3, <2>5, <2>6, <2>8 DEF restoreWorkload, Calm
  <2>10. workload' = [workload EXCEPT ![d].replicas = owed[d]] BY <2>6, <2>9 DEF Patch
  <2> QED BY <2>2, <2>10 DEF TypeOK, Workload
<1> QED BY <1>1, <1>2, <1>3, CalmInvHolds, PTL DEF Spec, CountPreserved

\* Healthy and Released mean running, in a calm environment where no two
\* WorkloadDependencies have the same dependent: whoever says so has nothing left to give
\* back.  (A pause in between breaks it: see the run pause.)
THEOREM HealthyHoldsNothing ==
  ASSUME Calm, Unshared
  PROVE  Spec => []HealthyMeansRunning
<1>1. TypeOK /\ CacheInv /\ CalmInv => HealthyMeansRunning
  <2> SUFFICES ASSUME TypeOK, CalmInv, Quiet, NEW w \in WDs,
                      wd[w].status.phase \in {"Healthy", "Released"}
               PROVE  owed[Dependent[w]] = 0
    BY DEF HealthyMeansRunning
  <2>1. owed[Dependent[w]] \in Nat BY ConstantsAssumption DEF TypeOK
  <2>2. ~Holds(w) BY DEF Quiet, Holds, Suspending
  <2> QED BY <2>1, <2>2, OwedHeld
<1> QED BY <1>1, CalmInvHolds, PTL
=============================================================================
