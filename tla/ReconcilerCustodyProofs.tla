----------------------- MODULE ReconcilerCustodyProofs ----------------------
(***************************************************************************)
(* klink implements Custody.  The step that is hard to map is not the      *)
(* patch but the write after it: what the status holds once applyFields    *)
(* has merged the job with it must be what the reconcile meant to hold.    *)
(* CustodyInv says why it is: a status that is not Suspended keeps no old  *)
(* count to be merged in, and only a deletion, which ends with the object, *)
(* can come between a reconcile and its write.                             *)
(***************************************************************************)
EXTENDS ReconcilerMemoryProofs
-----------------------------------------------------------------------------
(***************************************************************************)
(* The invariant.                                                          *)
(***************************************************************************)

\* What is not Suspended has no count left over, unless it is about to go.
NoStale ==
  \A w \in WDs : wd[w].exists /\ ~wd[w].deleting /\ wd[w].status.phase # "Suspended"
                   => ~Restorable(wd[w].status)

AllExist == \A x \in Workloads : workload[x].exists

\* A job that writes a status.
Writing == job # Idle /\ job.step = "status"

\* Neither the job nor the status it will be merged with has a count that the
\* reconcile gave back or never had.
CleanJob ==
  Writing =>
    /\ job.phase # "Suspended" =>
         /\ ~Restorable(job.mem)
         /\ wd[job.wd].exists /\ ~wd[job.wd].deleting /\ job.current => ~Restorable(job.base)
    /\ job.phase = "Suspended" /\ ~Restorable(job.mem) =>
         ~Restorable(job.base) /\ ~Restorable(wd[job.wd].status)

\* The object of a job with a finalizer conflicts once, because of its deletion.
OneConflict ==
  job # Idle /\ wd[job.wd].exists /\ wd[job.wd].finalizer =>
    /\ wdCache[job.wd].exists
    /\ Writing /\ ~job.current => wd[job.wd].deleting /\ job.attempt = 0
    /\ Writing /\ job.attempt > 0 => wd[job.wd].deleting

\* Nothing comes between handleDeletion's patch and the removal of the finalizer.
Unfinalizes == job # Idle /\ job.step = "unfinalize" => job.current /\ wd[job.wd].exists

CustodyInv == NoStale /\ AllExist /\ CleanJob /\ OneConflict /\ Unfinalizes

\* Everything the proof knows of a state.
Inv == TypeOK /\ CacheInv /\ CalmInv /\ CustodyInv

\* Calm, and nobody deletes workloads.
Undisturbed == Calm /\ "workloads" \notin Disturbances
-----------------------------------------------------------------------------
(***************************************************************************)
(* A reconcile begins.                                                     *)
(***************************************************************************)

\* What a reconcile of w that leaves a job has done, whichever handler ran.
Started(w) ==
  /\ job = Idle /\ job' # Idle /\ job'.wd = w
  /\ wd' = wd /\ wdCache' = wdCache
  /\ wd[w].exists /\ wdCache[w].exists
  /\ job'.current /\ job'.attempt = 0
  /\ job'.step = "status" =>
       /\ job'.base = job'.mem
       /\ job'.phase # "Suspended" => ~Restorable(job'.mem)
       /\ job'.phase = "Suspended" /\ ~Restorable(job'.mem) => ~Restorable(wd[w].status)

\* What it has done to the replicas and to the count that w holds.
Moved(w) ==
  \/ workload' = workload /\ Kept(w)' = Kept(w)
  \/ /\ workload[Dependent[w]].replicas > 0
     /\ workload' = [workload EXCEPT ![Dependent[w]].replicas = 0]
     /\ Kept(w)' = workload[Dependent[w]].replicas
  \/ /\ Kept(w) > 0
     /\ workload' = [workload EXCEPT ![Dependent[w]].replicas = Kept(w)]
     /\ Kept(w)' = 0

\* A count that is held is one.
LEMMA KeptType == ASSUME TypeOK, NEW w \in WDs PROVE Kept(w) \in Nat
<1>1. job # Idle => job.mem \in Status BY DEF TypeOK, Job
<1>2. wd[w].status \in Status BY DEF TypeOK, WD
<1>3. \A s \in Status : Restorable(s) => s.savedReplicas \in Nat BY DEF Restorable, Status
<1> QED BY <1>1, <1>2, <1>3 DEF Kept, Holds

\* What w holds while no job of its own is pending.
LEMMA KeptIdle ==
  ASSUME NEW w \in WDs, ~(job # Idle /\ job.wd = w)
  PROVE  Kept(w) = IF wd[w].exists /\ wd[w].status.phase = "Suspended" /\ Restorable(wd[w].status)
                   THEN wd[w].status.savedReplicas ELSE 0
BY DEF Kept, Holds

\* What w holds while one is.
LEMMA KeptJob ==
  ASSUME NEW w \in WDs, job # Idle, job.wd = w
  PROVE  Kept(w) = IF job.step = "status" /\ job.phase = "Suspended" /\ Restorable(job.mem)
                   THEN job.mem.savedReplicas ELSE 0
BY DEF Kept, Holds

\* Nobody else's count changes when a reconcile of w begins.
LEMMA OthersKeep ==
  ASSUME NEW w \in WDs, Started(w)
  PROVE  \A v \in WDs : v # w => Kept(v)' = Kept(v)
BY DEF Started, Kept, Holds

\* A reconcile that has started keeps the invariant.
LEMMA StartedCustody ==
  ASSUME TypeOK, CustodyInv, NEW w \in WDs, Started(w), Moved(w)
  PROVE  CustodyInv'
<1>1. AllExist'
  <2>1. workload \in [Workloads -> Workload] BY DEF TypeOK
  <2>2. ASSUME NEW n, workload' = [workload EXCEPT ![Dependent[w]].replicas = n],
               NEW x \in Workloads
        PROVE  workload'[x].exists = workload[x].exists
    BY <2>1, <2>2 DEF Workload
  <2>3. \A x \in Workloads : workload'[x].exists = workload[x].exists
    BY <2>2 DEF Moved
  <2> QED BY <2>3 DEF CustodyInv, AllExist
<1>2. NoStale' BY DEF Started, CustodyInv, NoStale
<1>3. CleanJob' BY DEF Started, CleanJob, Writing
<1>4. OneConflict' BY DEF Started, OneConflict, Writing
<1>5. Unfinalizes' BY DEF Started, Unfinalizes
<1> QED BY <1>1, <1>2, <1>3, <1>4, <1>5 DEF CustodyInv

\* A reconcile that has started begins, takes or gives back, as Custody has it.
LEMMA StartedBegins ==
  ASSUME TypeOK, NEW w \in WDs, Started(w), Moved(w)
  PROVE  C!Begin
<1> DEFINE count == [x \in Workloads |-> workload[x].replicas]
           kept == [v \in WDs |-> Kept(v)]
           d == Dependent[w]
<1>0. d \in Workloads BY ConstantsAssumption
<1>1. (job # Idle) = FALSE /\ (job' # Idle) = TRUE BY DEF Started
<1>2. \A v \in WDs : v # w => Kept(v)' = Kept(v) BY OthersKeep
<1>3. ASSUME NEW n \in Nat, workload' = [workload EXCEPT ![d].replicas = n]
      PROVE  count' = [count EXCEPT ![d] = n]
  <2>1. \A x \in Workloads : workload'[x].replicas = IF x = d THEN n ELSE workload[x].replicas
    BY <1>0, <1>3 DEF TypeOK, Workload
  <2> QED BY <1>0, <2>1, Zenon
<1>4. ASSUME NEW n, Kept(w)' = n
      PROVE  kept' = [kept EXCEPT ![w] = n]
  BY <1>2, <1>4, Zenon
<1>5. CASE workload' = workload /\ Kept(w)' = Kept(w)
  <2>1. count' = count /\ kept' = kept BY <1>2, <1>5
  <2> QED BY <1>1, <2>1 DEF C!Begin
<1>6. CASE /\ workload[d].replicas > 0
           /\ workload' = [workload EXCEPT ![d].replicas = 0]
           /\ Kept(w)' = workload[d].replicas
  <2>1. count' = [count EXCEPT ![d] = 0] BY <1>3, <1>6, Zenon
  <2>2. count[d] = workload[d].replicas BY <1>0
  <2>3. kept' = [kept EXCEPT ![w] = workload[d].replicas] BY <1>4, <1>6
  <2>4. C!TakeReplicas(w) BY <1>6, <2>1, <2>2, <2>3, Zenon DEF C!TakeReplicas
  <2> QED BY <1>1, <2>4 DEF C!Begin
<1>7. CASE /\ Kept(w) > 0
           /\ workload' = [workload EXCEPT ![d].replicas = Kept(w)]
           /\ Kept(w)' = 0
  <2>1. count' = [count EXCEPT ![d] = Kept(w)] BY <1>3, <1>7, KeptType, Zenon
  <2>2. kept[w] = Kept(w) OBVIOUS
  <2>3. kept' = [kept EXCEPT ![w] = 0] BY <1>4, <1>7
  <2>4. C!GiveBack(w) BY <1>7, <2>1, <2>2, <2>3 DEF C!GiveBack
  <2> QED BY <1>1, <2>4 DEF C!Begin
<1> QED BY <1>5, <1>6, <1>7 DEF Moved

\* What every handler that writes a status has in common.
LEMMA StatusStarted ==
  ASSUME Inv, Undisturbed, NEW w \in WDs, Take(w), wdCache[w].exists,
         NEW s \in Status, NEW phase, setStatus(w, s, phase),
         phase # "Suspended" => ~Restorable(s),
         phase = "Suspended" /\ ~Restorable(s) => ~Restorable(wdCache[w].status)
  PROVE  /\ Started(w)
         /\ Kept(w)' = IF phase = "Suspended" /\ Restorable(s) THEN s.savedReplicas ELSE 0
<1>1. /\ job = Idle /\ wd' = wd /\ wdCache' = wdCache BY DEF Take, cacheVars
<1>2. fresh[w] /\ wdCache[w] = wd[w] BY CalmReads DEF Inv, Undisturbed, Take
<1>3. /\ job' # Idle /\ job'.wd = w /\ job'.step = "status" /\ job'.phase = phase
      /\ job'.mem = s /\ job'.current = fresh[w] /\ job'.attempt = 0
  BY SetStatusJob
<1>4. job'.base = s BY DEF setStatus
<1>5. Started(w) BY <1>1, <1>2, <1>3, <1>4 DEF Started
<1> QED BY <1>3, <1>5 DEF Kept, Holds

\* A reconcile that leaves the dependent alone and writes another phase than
\* Suspended, having read another.
LEMMA OtherPhaseMoves ==
  ASSUME Inv, Undisturbed, NEW w \in WDs, Take(w), NoPatch,
         wdCache[w].exists, ~wdCache[w].deleting, wdCache[w].status.phase # "Suspended",
         NEW s \in Status, s.savedReplicas = wdCache[w].status.savedReplicas,
         NEW phase, setStatus(w, s, phase), phase # "Suspended"
  PROVE  Started(w) /\ Moved(w)
<1>1. job = Idle /\ workload' = workload BY DEF Take, NoPatch
<1>2. wdCache[w] = wd[w] BY CalmReads DEF Inv, Undisturbed, Take
<1>3. ~Restorable(s) BY <1>2 DEF Inv, CustodyInv, NoStale, Restorable
<1>4. Started(w) /\ Kept(w)' = 0 BY <1>3, StatusStarted
<1>5. Kept(w) = 0 BY <1>1, <1>2, KeptIdle
<1> QED BY <1>1, <1>4, <1>5 DEF Moved

\* A reconcile that stays Suspended with the count it had.
LEMMA StaySuspendedMoves ==
  ASSUME Inv, Undisturbed, NEW w \in WDs, Take(w), NoPatch,
         wdCache[w].exists, wdCache[w].status.phase = "Suspended" \/ ~Restorable(wdCache[w].status),
         NEW s \in Status, s.savedReplicas = wdCache[w].status.savedReplicas,
         setStatus(w, s, "Suspended")
  PROVE  Started(w) /\ Moved(w)
<1>1. job = Idle /\ workload' = workload BY DEF Take, NoPatch
<1>2. wdCache[w] = wd[w] BY CalmReads DEF Inv, Undisturbed, Take
<1>3. Restorable(s) <=> Restorable(wdCache[w].status) BY DEF Restorable
<1>4. Started(w) /\ Kept(w)' = IF Restorable(s) THEN s.savedReplicas ELSE 0
  BY <1>3, StatusStarted
<1>5. Kept(w) = IF Restorable(s) THEN s.savedReplicas ELSE 0
  BY <1>1, <1>2, <1>3, KeptIdle
<1> QED BY <1>1, <1>4, <1>5 DEF Moved

\* suspendWorkload takes what there is and the status records it.
LEMMA SuspendMoves ==
  ASSUME Inv, Undisturbed, NEW w \in WDs, Enforce(w), suspendWorkload(w),
         setStatus(w, SuspendedStatus(w, wdCache[w].status), "Suspended")
  PROVE  Started(w) /\ Moved(w)
<1> DEFINE s == wdCache[w].status
           t == SuspendedStatus(w, s)
           d == Dependent[w]
           n == workload[d].replicas
<1>0. TypeOK /\ d \in Workloads /\ Calm BY ConstantsAssumption DEF Inv, Undisturbed
<1>1. Take(w) /\ wdCache[w].exists /\ ~wdCache[w].deleting BY DEF Enforce, Evaluate, Admitted
<1>2. wdCache[w] = wd[w] /\ workloadCache[d] = workload[d]
  BY <1>0, <1>1, CalmReads DEF Inv, Take
<1>3. s \in Status /\ t \in Status /\ n \in Nat /\ Kind[d] # "CronJob"
  BY <1>0, SuspendType, Zenon DEF TypeOK, WD, Workload, Calm
<1>4. CASE n = 0
  <2>1. NoPatch /\ t = s BY <1>2, <1>4 DEF suspendWorkload, SuspendedStatus
  <2>2. s.phase = "Suspended" \/ ~Restorable(s)
    BY <1>1, <1>2 DEF Inv, CustodyInv, NoStale
  <2> QED BY <1>1, <1>3, <2>1, <2>2, StaySuspendedMoves
<1>5. CASE n # 0
  <2>1. t = [s EXCEPT !.savedReplicas = n] BY <1>2, <1>3, <1>5 DEF SuspendedStatus
  <2>2. t.savedReplicas = n BY <1>3, <2>1 DEF Status
  <2>3. Restorable(t) BY <1>3, <1>5, <2>2, ConstantsAssumption DEF Restorable
  <2>4. Started(w) /\ Kept(w)' = n
    <3> HIDE DEF t, s, n
    <3> QED BY <1>1, <1>3, <2>2, <2>3, StatusStarted DEF t, s
  <2>5. Patch(d, 0) BY <1>2, <1>5 DEF suspendWorkload
  <2>6. workload' = [workload EXCEPT ![d].replicas = 0] BY <1>2, <1>5, <2>5 DEF Patch
  <2> QED BY <1>3, <1>5, <2>4, <2>6 DEF Moved
<1> QED BY <1>4, <1>5

\* restoreWorkload gives back what w holds, and the job holds it no more.
LEMMA RestoreMoves ==
  ASSUME Inv, Undisturbed, NEW w \in WDs, Take(w), wdCache[w].exists,
         wdCache[w].status.phase = "Suspended", restoreWorkload(w, wdCache[w].status),
         Kept(w)' = 0
  PROVE  Moved(w)
<1> DEFINE s == wdCache[w].status
           d == Dependent[w]
           n == s.savedReplicas
<1>0. TypeOK /\ d \in Workloads /\ job = Idle BY ConstantsAssumption DEF Inv, Take
<1>1. wdCache[w] = wd[w] /\ workloadCache[d] = workload[d]
  BY <1>0, CalmReads DEF Inv, Undisturbed, Take
<1>2. Kind[d] # "CronJob" BY DEF Undisturbed, Calm
<1>3. CASE ~Restorable(s)
  <2>1. workload' = workload BY <1>2, <1>3 DEF restoreWorkload, Restorable, NoPatch
  <2>2. Kept(w) = 0 BY <1>0, <1>1, <1>3, KeptIdle
  <2> QED BY <2>1, <2>2 DEF Moved
<1>4. CASE Restorable(s)
  <2>1. Kept(w) = n BY <1>0, <1>1, <1>4, KeptIdle
  <2>2. n \in Nat /\ n > 0
    <3>1. s \in Status BY <1>0 DEF TypeOK, WD
    <3> QED BY <1>4, <3>1 DEF Restorable, Status
  <2>3. Patch(d, n) BY <1>2, <1>4 DEF restoreWorkload, Restorable
  <2>4. workload' = [workload EXCEPT ![d].replicas = n]
    <3>1. CASE workload[d].replicas = n
      <4>1. workload' = workload BY <1>1, <2>3, <3>1 DEF Patch, NoPatch
      <4>2. workload = [workload EXCEPT ![d].replicas = n]
        BY <1>0, <3>1 DEF TypeOK, Workload
      <4> QED BY <4>1, <4>2
    <3>2. CASE workload[d].replicas # n BY <1>1, <2>3, <3>2 DEF Patch
    <3> QED BY <3>1, <3>2
  <2> QED BY <2>1, <2>2, <2>4 DEF Moved
<1> QED BY <1>3, <1>4

\* A step that changes no workload, no count that is held and no job is not seen.
LEMMA Stutters ==
  ASSUME workload' = workload, \A w \in WDs : Kept(w)' = Kept(w), job' = Idle <=> job = Idle
  PROVE  UNCHANGED C!vars
<1>1. (job' # Idle) = (job # Idle) OBVIOUS
<1>2. [w \in WDs |-> Kept(w)'] = [w \in WDs |-> Kept(w)] OBVIOUS
<1> QED BY <1>1, <1>2 DEF C!vars

\* Every reconcile either is not seen, or has started.
LEMMA ReconcileCustody ==
  ASSUME Inv, Undisturbed, NEW w \in WDs, Reconcile(w)
  PROVE  CustodyInv' /\ (C!Begin \/ UNCHANGED C!vars)
<1> DEFINE s == wdCache[w].status
<1>0. TypeOK /\ CacheInv /\ CalmInv /\ CustodyInv /\ Calm /\ s \in Status
  BY DEF Inv, Undisturbed, TypeOK, WD
<1>1. Take(w) => wdCache[w] = wd[w] /\ workloadCache[Dependent[w]] = workload[Dependent[w]]
  BY <1>0, CalmReads, ConstantsAssumption DEF Take
<1>2. Started(w) /\ Moved(w) => CustodyInv' /\ C!Begin
  BY <1>0, StartedCustody, StartedBegins
<1>3. CASE ReconcileGone(w) \/ AwaitMaxSuspend(w) \/ AwaitWindow(w) \/ AwaitRecovery(w)
  <2>1. Take(w) /\ NoPatch /\ job' = job
    BY <1>3 DEF ReconcileGone, AwaitMaxSuspend, AwaitWindow, AwaitRecovery, Degrading,
                Recovering, Enforce, Evaluate
  <2>2. wd' = wd /\ workload' = workload /\ job = Idle /\ job' = Idle
    BY <2>1 DEF Take, NoPatch
  <2>3. CustodyInv'
    BY <1>0, <2>2 DEF CustodyInv, NoStale, AllExist, CleanJob, OneConflict, Unfinalizes, Writing
  <2>4. UNCHANGED C!vars BY <2>2, Stutters DEF Kept, Holds
  <2> QED BY <2>3, <2>4
<1>4. CASE AddFinalizer(w)
  <2>1. job = Idle /\ job' = Idle /\ workload' = workload
        /\ wd' = [wd EXCEPT ![w].finalizer = TRUE]
    BY <1>4 DEF AddFinalizer
  <2>2. \A v \in WDs : /\ wd'[v].exists = wd[v].exists /\ wd'[v].status = wd[v].status
                       /\ wd'[v].deleting = wd[v].deleting
    BY <1>0, <2>1 DEF TypeOK, WD
  <2>3. CustodyInv'
    BY <1>0, <2>1, <2>2
    DEF CustodyInv, NoStale, AllExist, CleanJob, OneConflict, Unfinalizes, Writing
  <2>4. UNCHANGED C!vars BY <2>1, <2>2, Stutters DEF Kept, Holds
  <2> QED BY <2>3, <2>4
<1>5. CASE handleDeletion(w)
  <2>1. Take(w) /\ wdCache[w].exists BY <1>5 DEF handleDeletion
  <2>2. /\ job' # Idle /\ job'.wd = w /\ job'.step = "unfinalize"
        /\ job'.current = fresh[w] /\ job'.attempt = 0
    BY <1>5 DEF handleDeletion, Idle
  <2>3. Started(w)
    <3>1. job = Idle /\ wd' = wd /\ wdCache' = wdCache BY <2>1 DEF Take, cacheVars
    <3>2. fresh[w] BY <1>0, <2>1, CalmReads DEF Take
    <3> QED BY <1>1, <2>1, <2>2, <3>1, <3>2 DEF Started
  <2>4. Kept(w)' = 0 BY <2>2 DEF Kept, Holds
  <2>5. Moved(w)
    <3>1. CASE s.phase = "Suspended" /\ Restorable(s)
      <4>1. workloadCache[Dependent[w]].exists
        BY <1>0, <1>1, <2>1, ConstantsAssumption DEF CustodyInv, AllExist
      <4>2. restoreWorkload(w, s) BY <1>5, <3>1, <4>1 DEF handleDeletion, Restorable
      <4> QED BY <2>1, <2>4, <3>1, <4>2, RestoreMoves
    <3>2. CASE ~(s.phase = "Suspended" /\ Restorable(s))
      <4>1. workload' = workload BY <1>5, <3>2 DEF handleDeletion, Restorable, NoPatch
      <4>2. Kept(w) = 0 BY <1>1, <2>1, <3>2, KeptIdle DEF Take
      <4> QED BY <2>4, <4>1, <4>2 DEF Moved
    <3> QED BY <3>1, <3>2
  <2> QED BY <1>2, <2>3, <2>5
<1>6. CASE RejectCycle(w)
  <2>1. Take(w) /\ Unadmitted(w) BY <1>6 DEF RejectCycle
  <2>2. s.phase # "Suspended"
    BY <1>0, <1>1, <2>1 DEF CalmInv, SuspendedProtected, Protected, Unadmitted
  <2>3. Started(w) /\ Moved(w)
    BY <1>0, <1>6, <2>1, <2>2, OtherPhaseMoves DEF RejectCycle, Unadmitted
  <2> QED BY <1>2, <2>3
<1>7. CASE ReconcilePaused(w) \/ DependentMissing(w) \/ DeferToRollout(w)
  <2>1. ~ReconcilePaused(w) BY <1>0, <1>1 DEF ReconcilePaused, CalmInv, NonePaused
  <2>2. ~DependentMissing(w)
    BY <1>0, <1>1, ConstantsAssumption DEF DependentMissing, CustodyInv, AllExist
  <2>3. ~DeferToRollout(w)
    BY <1>0 DEF DeferToRollout, Deferred, isProgressing, Calm
  <2> QED BY <1>7, <2>1, <2>2, <2>3
<1>8. CASE ReconcileObserve(w) \/ ReconcileGate(w)
  <2>1. Take(w) /\ Admitted(w) /\ wdCache[w].mode \notin {"strict", "soft"}
    BY <1>8 DEF ReconcileObserve, ReconcileGate, Evaluate
  <2>2. s.phase # "Suspended"
    BY <1>0, <1>1, <2>1 DEF CalmInv, SuspendedProtected, Protected, Admitted
  <2>3. NoPatch /\ \E phase \in {"Healthy", "Observed", "Degraded"} : setStatus(w, s, phase)
    BY <1>8 DEF ReconcileObserve, ReconcileGate
  <2>4. Started(w) /\ Moved(w) BY <1>0, <2>1, <2>2, <2>3, OtherPhaseMoves DEF Admitted
  <2> QED BY <1>2, <2>4
<1>9. Enforce(w) => Take(w) /\ wdCache[w].exists /\ ~wdCache[w].deleting
  BY DEF Enforce, Evaluate, Admitted
<1>10. CASE StayReleased(w) \/ StartDegraded(w) \/ BecomeHealthy(w)
  <2>1. Enforce(w) /\ NoPatch /\ s.phase # "Suspended"
    BY <1>10 DEF StayReleased, StartDegraded, BecomeHealthy, Degrading, Recovering
  <2>2. \E t \in Status, phase \in {"Released", "Degraded", "Healthy"} :
          setStatus(w, t, phase) /\ t.savedReplicas = s.savedReplicas
    <3>1. CASE StayReleased(w) BY <1>0, <3>1 DEF StayReleased
    <3>2. CASE StartDegraded(w)
      <4> DEFINE t == [s EXCEPT !.degradedSince = 0, !.healthySince = Nil]
      <4>1. t \in Status /\ t.savedReplicas = s.savedReplicas BY <1>0, Zenon DEF Status, Time
      <4> QED BY <3>2, <4>1, Zenon DEF StartDegraded
    <3>3. CASE BecomeHealthy(w)
      <4> DEFINE t == [s EXCEPT !.degradedSince = Nil, !.healthySince = Nil]
      <4>1. t \in Status /\ t.savedReplicas = s.savedReplicas BY <1>0, Zenon DEF Status, Time
      <4> QED BY <3>3, <4>1, Zenon DEF BecomeHealthy
    <3> QED BY <1>10, <3>1, <3>2, <3>3
  <2>3. Started(w) /\ Moved(w) BY <1>9, <2>1, <2>2, OtherPhaseMoves
  <2> QED BY <1>2, <2>3
<1>11. CASE ForceRestore(w) \/ Restore(w)
  <2>1. Enforce(w) /\ s.phase = "Suspended" /\ restoreWorkload(w, s)
    BY <1>11 DEF ForceRestore, Restore, Recovering
  <2>2. \E t \in Status, phase \in {"Released", "Healthy"} :
          setStatus(w, t, phase) /\ t.savedReplicas = Nil
    <3>1. CASE ForceRestore(w)
      <4> DEFINE t == [s EXCEPT !.savedReplicas = Nil, !.healthySince = Nil]
      <4>1. t \in Status /\ t.savedReplicas = Nil BY <1>0, Zenon DEF Status, Time
      <4> QED BY <3>1, <4>1, Zenon DEF ForceRestore
    <3>2. CASE Restore(w)
      <4> DEFINE t == [s EXCEPT !.savedReplicas = Nil, !.degradedSince = Nil,
                                !.healthySince = Nil]
      <4>1. t \in Status /\ t.savedReplicas = Nil BY <1>0, Zenon DEF Status, Time
      <4> QED BY <3>2, <4>1, Zenon DEF Restore
    <3> QED BY <1>11, <3>1, <3>2
  <2>3. Started(w) /\ Kept(w)' = 0 BY <1>9, <2>1, <2>2, StatusStarted DEF Restorable
  <2>4. Moved(w) BY <1>9, <2>1, <2>3, RestoreMoves
  <2> QED BY <1>2, <2>3, <2>4
<1>12. CASE handleSuspended(w) \/ Suspend(w)
  <2>1. CASE Suspend(w) \/ wdCache[w].mode = "strict"
    BY <1>2, <1>12, <2>1, SuspendMoves DEF handleSuspended, Suspend, Degrading
  <2>2. CASE handleSuspended(w) /\ wdCache[w].mode # "strict"
    <3>1. Started(w) /\ Moved(w)
      BY <1>0, <1>9, <2>2, StaySuspendedMoves DEF handleSuspended
    <3> QED BY <1>2, <3>1
  <2> QED BY <1>12, <2>1, <2>2
<1>13. CASE StartRecovery(w)
  <2> DEFINE t == [s EXCEPT !.degradedSince = Nil, !.healthySince = 0]
  <2>1. t \in Status /\ t.savedReplicas = s.savedReplicas BY <1>0, Zenon DEF Status, Time
  <2>2. Enforce(w) /\ NoPatch /\ setStatus(w, t, "Suspended") /\ s.phase = "Suspended"
    BY <1>13 DEF StartRecovery, Recovering
  <2>3. Started(w) /\ Moved(w) BY <1>9, <2>1, <2>2, StaySuspendedMoves, Zenon
  <2> QED BY <1>2, <2>3
<1> QED BY <1>3, <1>4, <1>5, <1>6, <1>7, <1>8, <1>10, <1>11, <1>12, <1>13 DEF Reconcile
-----------------------------------------------------------------------------
(***************************************************************************)
(* A reconcile ends, and everything else.                                  *)
(***************************************************************************)

\* A write that ends the job and leaves everybody the count that was held.
LEMMA Ends ==
  ASSUME workload' = workload, \A w \in WDs : Kept(w)' = Kept(w), job # Idle, job' = Idle
  PROVE  C!End
<1>1. (job # Idle) = TRUE /\ (job' # Idle) = FALSE OBVIOUS
<1>2. [w \in WDs |-> Kept(w)'] = [w \in WDs |-> Kept(w)] OBVIOUS
<1> QED BY <1>1, <1>2 DEF C!End

\* Once the job is done only the statuses matter.
LEMMA IdleCustody ==
  ASSUME CustodyInv, job' = Idle, workload' = workload, NoStale'
  PROVE  CustodyInv'
BY DEF CustodyInv, AllExist, CleanJob, OneConflict, Unfinalizes, Writing

\* What applyFields makes of the job's count.
LEMMA AppliedCount ==
  ASSUME TypeOK, job # Idle
  PROVE  /\ applyFields(job).phase = job.phase
         /\ Restorable(job.mem) => /\ Restorable(applyFields(job))
                                   /\ applyFields(job).savedReplicas = job.mem.savedReplicas
         /\ ~Restorable(job.mem) /\ ~Restorable(job.base) => ~Restorable(applyFields(job))
BY DEF applyFields, Applied, Restorable

\* The calls of a job put on record what the reconcile did, or change nothing.
LEMMA WriteCustody ==
  ASSUME Inv, Undisturbed, Write
  PROVE  CustodyInv' /\ (C!End \/ UNCHANGED C!vars)
<1>0. TypeOK /\ CacheInv /\ CalmInv /\ CustodyInv /\ Calm BY DEF Inv, Undisturbed
<1>1. job # Idle /\ job \in Job /\ job.wd \in WDs /\ workload' = workload
  BY <1>0 DEF Write, StatusUpdated, StatusConflict, FinalizerRemoved, WriteFailed, TypeOK, Job
<1> DEFINE w == job.wd
<1>2. CASE StatusUpdated
  <2>1. /\ job' = Idle /\ Writing /\ wd[w].exists /\ job.current
        /\ wd' = [wd EXCEPT ![w].status = applyFields(job)]
    BY <1>2 DEF StatusUpdated, Writing
  <2>2. /\ wd'[w].exists = wd[w].exists /\ wd'[w].deleting = wd[w].deleting
        /\ wd'[w].status = applyFields(job)
        /\ \A v \in WDs : v # w => wd'[v] = wd[v]
    BY <1>0, <1>1, <2>1, Zenon DEF TypeOK, WD
  <2>3. NoStale'
    <3>1. ~wd[w].deleting /\ job.phase # "Suspended" => ~Restorable(applyFields(job))
      BY <1>0, <1>1, <2>1, AppliedCount DEF CustodyInv, CleanJob
    <3>2. wd'[w].status.phase = job.phase BY <1>0, <1>1, <2>2, AppliedCount
    <3>3. ASSUME NEW v \in WDs, wd'[v].exists, ~wd'[v].deleting,
                 wd'[v].status.phase # "Suspended"
          PROVE  ~Restorable(wd'[v].status)
      <4>1. CASE v = w BY <2>2, <3>1, <3>2, <3>3, <4>1
      <4>2. CASE v # w BY <1>0, <2>2, <3>3, <4>2 DEF CustodyInv, NoStale
      <4> QED BY <4>1, <4>2
    <3> QED BY <3>3 DEF NoStale, Restorable
  <2>4. \A v \in WDs : v # w => Kept(v)' = Kept(v) BY <2>1, <2>2 DEF Kept, Holds
  <2>5. ASSUME NEW v \in WDs, v = w PROVE Kept(v)' = Kept(v)
    <3>1. Kept(v) = IF job.phase = "Suspended" /\ Restorable(job.mem)
                    THEN job.mem.savedReplicas ELSE 0
      BY <1>1, <2>1, <2>5, KeptJob DEF Writing
    <3>2. wd'[v].exists /\ wd'[v].status = applyFields(job) /\ job' = Idle
      BY <2>1, <2>2, <2>5
    <3>3. Kept(v)' = IF job.phase = "Suspended" /\ Restorable(applyFields(job))
                     THEN applyFields(job).savedReplicas ELSE 0
      BY <1>0, <1>1, <3>2, AppliedCount DEF Kept, Holds
    <3> QED BY <1>0, <1>1, <2>1, <3>1, <3>3, AppliedCount DEF CustodyInv, CleanJob
  <2> QED BY <1>0, <1>1, <2>1, <2>3, <2>4, <2>5, IdleCustody, Ends
<1>3. \* The job ends with nothing written, and held nothing.
      ASSUME job' = Idle, wd' = wd, Kept(w) = 0,
             ~(wd[w].exists /\ wd[w].status.phase = "Suspended")
      PROVE  CustodyInv' /\ C!End
  <2>1. NoStale' BY <1>0, <1>3 DEF CustodyInv, NoStale
  <2>2. \A v \in WDs : Kept(v)' = Kept(v) BY <1>1, <1>3 DEF Kept, Holds
  <2> QED BY <1>0, <1>1, <1>3, <2>1, <2>2, IdleCustody, Ends
<1>4. CASE StatusConflict
  <2>1. /\ Writing /\ wd[w].exists /\ ~job.current /\ Readable
        /\ wd' = wd /\ wdCache' = wdCache
    BY <1>4 DEF StatusConflict, Writing, cacheVars
  <2>2. wdCache[w] = wd[w] /\ fresh[w] BY <1>0, <1>1, <2>1, CalmReads
  <2>3. CASE job.attempt + 1 < maxRetries
    <3>1. job' = [job EXCEPT !.base = wdCache[w].status, !.current = fresh[w],
                             !.attempt = @ + 1]
      BY <1>4, <2>3 DEF StatusConflict
    <3>2. /\ job' # Idle /\ job'.wd = w /\ job'.step = "status" /\ job'.phase = job.phase
          /\ job'.mem = job.mem /\ job'.base = wd[w].status
      BY <1>1, <2>1, <2>2, <3>1, Zenon DEF Job, Idle, Writing
    <3>3. CleanJob'
      <4>1. job.phase # "Suspended" /\ ~wd[w].deleting => ~Restorable(wd[w].status)
        <5> SUFFICES ASSUME ~wd[w].deleting PROVE ~Restorable(wd[w].status) OBVIOUS
        <5>1. ~wd[w].finalizer BY <1>0, <1>1, <2>1 DEF CustodyInv, OneConflict
        <5>2. wd[w].status.phase # "Suspended"
          BY <1>0, <1>1, <2>1, <5>1 DEF CalmInv, SuspendedProtected, Protected
        <5> QED BY <1>0, <1>1, <2>1, <5>2 DEF CustodyInv, NoStale
      <4> QED BY <1>0, <2>1, <3>2, <4>1 DEF CustodyInv, CleanJob, Writing
    <3>4. OneConflict'
      <4>1. job'.current BY <1>1, <2>2, <3>1 DEF Job
      <4> QED BY <1>0, <1>1, <2>1, <3>2, <4>1 DEF CustodyInv, OneConflict, Writing
    <3>5. NoStale' /\ AllExist' /\ Unfinalizes'
      BY <1>0, <1>1, <2>1, <3>2 DEF CustodyInv, NoStale, AllExist, Unfinalizes
    <3>6. \A v \in WDs : Kept(v)' = Kept(v)
      BY <1>1, <2>1, <3>2 DEF Kept, Holds, Writing
    <3>7. UNCHANGED C!vars BY <1>1, <3>2, <3>6, Stutters
    <3> QED BY <3>3, <3>4, <3>5, <3>7 DEF CustodyInv
  <2>4. CASE ~(job.attempt + 1 < maxRetries)
    <3>1. job' = Idle BY <1>4, <2>4 DEF StatusConflict
    <3>2. job.attempt # 0 BY <2>4 DEF maxRetries
    <3>3. ~wd[w].finalizer BY <1>0, <1>1, <2>1, <3>2 DEF CustodyInv, OneConflict
    <3>4. wd[w].status.phase # "Suspended"
      BY <1>0, <1>1, <2>1, <3>3 DEF CalmInv, SuspendedProtected, Protected
    <3>5. job.phase # "Suspended"
      BY <1>0, <2>1, <3>3 DEF CalmInv, WritesThrough, Suspending, Writing, Protected
    <3>6. Kept(w) = 0 BY <1>1, <3>5, KeptJob
    <3> QED BY <1>3, <2>1, <3>1, <3>4, <3>6
  <2> QED BY <2>3, <2>4
<1>5. CASE FinalizerRemoved
  <2>1. /\ job' = Idle /\ job.step = "unfinalize" /\ wd' = [wd EXCEPT ![w].exists = FALSE]
    BY <1>5 DEF FinalizerRemoved
  <2>2. ~wd'[w].exists /\ \A v \in WDs : v # w => wd'[v] = wd[v]
    BY <1>0, <1>1, <2>1 DEF TypeOK, WD
  <2>3. NoStale' BY <1>0, <2>2 DEF CustodyInv, NoStale
  <2>4. \A v \in WDs : Kept(v)' = Kept(v) BY <1>1, <2>1, <2>2 DEF Kept, Holds
  <2> QED BY <1>0, <1>1, <2>1, <2>3, <2>4, IdleCustody, Ends
<1>6. CASE WriteFailed
  <2>1. /\ job' = Idle /\ wd' = wd
        /\ \/ ~wd[w].exists
           \/ ~job.current /\ (job.step = "unfinalize" \/ ~wdCache[w].exists)
    BY <1>0, <1>6 DEF WriteFailed, Calm
  <2>2. ~Suspending
    BY <1>0, <1>1, <2>1 DEF CalmInv, WritesThrough, Suspending, Protected
  <2>3. Kept(w) = 0 BY <1>1, <2>2, KeptJob DEF Suspending
  <2>4. ~(wd[w].exists /\ wd[w].finalizer)
    BY <1>0, <1>1, <2>1 DEF CustodyInv, OneConflict, Unfinalizes
  <2>5. ~(wd[w].exists /\ wd[w].status.phase = "Suspended")
    BY <1>0, <1>1, <2>4 DEF CalmInv, SuspendedProtected, Protected
  <2> QED BY <1>3, <2>1, <2>3, <2>5
<1> QED BY <1>2, <1>4, <1>5, <1>6 DEF Write

\* The informers and the clock are not seen.
LEMMA SystemCustody ==
  ASSUME Inv, Undisturbed,
         SyncWDs \/ (\E kind \in Kinds : SyncWorkloads(kind)) \/ Tick \/ Restart
  PROVE  CustodyInv' /\ UNCHANGED C!vars
<1>0. TypeOK /\ CustodyInv BY DEF Inv
<1>1. CASE SyncWDs \/ \E kind \in Kinds : SyncWorkloads(kind)
  <2>1. wd' = wd /\ job' = job /\ workload' = workload /\ (wdCache' = wd \/ wdCache' = wdCache)
    BY <1>1 DEF SyncWDs, SyncWorkloads
  <2>2. CustodyInv'
    BY <1>0, <2>1 DEF CustodyInv, NoStale, AllExist, CleanJob, OneConflict, Unfinalizes, Writing
  <2>3. UNCHANGED C!vars BY <2>1, Stutters DEF Kept, Holds
  <2> QED BY <2>2, <2>3
<1>2. CASE Tick
  <2>1. job = Idle /\ job' = Idle /\ workload' = workload BY <1>2 DEF Tick
  <2>2. \A v \in WDs : /\ wd'[v].exists = wd[v].exists /\ wd'[v].deleting = wd[v].deleting
                       /\ wd'[v].status = OlderStatus(v, wd[v].status)
    BY <1>0, <1>2 DEF Tick, TypeOK, WD
  <2>3. \A v \in WDs : /\ wd'[v].status.phase = wd[v].status.phase
                       /\ wd'[v].status.savedReplicas = wd[v].status.savedReplicas
    <3> SUFFICES ASSUME NEW v \in WDs, NEW s \in Status
                 PROVE  /\ OlderStatus(v, s).phase = s.phase
                        /\ OlderStatus(v, s).savedReplicas = s.savedReplicas
      BY <1>0, <2>2 DEF TypeOK, WD
    <3> QED BY DEF OlderStatus, Status
  <2>4. NoStale' BY <1>0, <2>2, <2>3 DEF CustodyInv, NoStale, Restorable
  <2>5. UNCHANGED C!vars BY <2>1, <2>2, <2>3, Stutters DEF Kept, Holds, Restorable
  <2> QED BY <1>0, <2>1, <2>4, <2>5, IdleCustody
<1>3. ~Restart BY DEF Restart, Undisturbed, Calm
<1> QED BY <1>1, <1>2, <1>3

\* Whoever writes a workload scales it, as far as Custody sees.
LEMMA OutsideCustody ==
  ASSUME Inv, Undisturbed, TypeOK', NEW x \in Workloads,
         \/ ScaleWorkload(x) \/ PodsChange(x) \/ RolloutChange(x)
         \/ DeleteWorkload(x) \/ CreateWorkload(x)
  PROVE  CustodyInv' /\ C!Scale
<1>0. TypeOK /\ CustodyInv /\ workload[x] \in Workload BY DEF Inv, TypeOK
<1>1. wd' = wd /\ job' = job /\ wdCache' = wdCache
  BY OutsideObject DEF Outside, cacheVars
<1>2. ~DeleteWorkload(x) /\ ~CreateWorkload(x)
  BY Zenon DEF DeleteWorkload, CreateWorkload, Undisturbed
<1>3. PICK object : workload' = [workload EXCEPT ![x] = object] /\ object.exists
  <2>1. CASE ScaleWorkload(x)
    <3>1. PICK n \in Counts[x] : Outside(x, [workload[x] EXCEPT !.replicas = n])
      BY <2>1 DEF ScaleWorkload
    <3>2. [workload[x] EXCEPT !.replicas = n].exists BY <1>0, <2>1 DEF ScaleWorkload, Workload
    <3> QED BY <3>1, <3>2, Zenon DEF Outside
  <2>2. CASE PodsChange(x)
    <3>1. [workload[x] EXCEPT !.ready = ~@].exists BY <1>0, <2>2 DEF PodsChange, Workload
    <3> QED BY <2>2, <3>1, Zenon DEF PodsChange, Outside
  <2>3. CASE RolloutChange(x)
    <3>1. PICK p : Outside(x, [workload[x] EXCEPT !.phase = p]) BY <2>3, Zenon DEF RolloutChange
    <3>2. [workload[x] EXCEPT !.phase = p].exists BY <1>0, <2>3, Zenon DEF RolloutChange, Workload
    <3> QED BY <3>1, <3>2, Zenon DEF Outside
  <2> QED BY <1>2, <2>1, <2>2, <2>3
<1>4. AllExist' BY <1>0, <1>3 DEF CustodyInv, AllExist, TypeOK
<1>5. CustodyInv'
  BY <1>0, <1>1, <1>4 DEF CustodyInv, NoStale, CleanJob, OneConflict, Unfinalizes, Writing
<1>6. C!Scale
  <2>1. \A y \in Workloads : workload'[y].replicas \in Nat BY DEF TypeOK, Workload
  <2>2. [v \in WDs |-> Kept(v)'] = [v \in WDs |-> Kept(v)] BY <1>1 DEF Kept, Holds
  <2>3. (job' # Idle) = (job # Idle) BY <1>1
  <2> QED BY <2>1, <2>2, <2>3 DEF C!Scale
<1> QED BY <1>5, <1>6

\* Whoever deletes or creates a WorkloadDependency is not seen: what holds a count
\* has a finalizer, and what is new holds none.
LEMMA UserCustody ==
  ASSUME Inv, Undisturbed, NEW w \in WDs, NEW object \in WD,
         wd' = [wd EXCEPT ![w] = object],
         job' = IF job # Idle /\ job.wd = w THEN [job EXCEPT !.current = FALSE] ELSE job,
         workload' = workload, wdCache' = wdCache, ~wd[w].exists \/ ~wd[w].deleting,
         \/ ~object.exists /\ ~wd[w].finalizer
         \/ /\ object.exists = wd[w].exists /\ object.finalizer = wd[w].finalizer
            /\ object.deleting /\ wd[w].finalizer /\ object.status = wd[w].status
         \/ /\ ~wd[w].exists /\ ~object.finalizer /\ object.status = EmptyStatus
  PROVE  CustodyInv' /\ UNCHANGED C!vars
<1>0. TypeOK /\ CacheInv /\ CalmInv /\ CustodyInv BY DEF Inv
<1>1. wd'[w] = object /\ \A v \in WDs : v # w => wd'[v] = wd[v] BY <1>0 DEF TypeOK
<1>2. job = Idle <=> job' = Idle BY <1>0 DEF TypeOK, Job, Idle
<1>3. job # Idle => /\ job'.wd = job.wd /\ job'.step = job.step /\ job'.phase = job.phase
                    /\ job'.mem = job.mem /\ job'.base = job.base
                    /\ job'.attempt = job.attempt /\ job.wd \in WDs /\ job.attempt \in Nat
                    /\ job.wd # w => job'.current = job.current
                    /\ job.wd = w => job'.current = FALSE
  BY <1>0, Zenon DEF TypeOK, Job
<1>4. ~Restorable(EmptyStatus) /\ EmptyStatus.phase # "Suspended"
  BY Zenon DEF EmptyStatus, Restorable
<1>5. wd[w].exists /\ ~wd[w].finalizer => wd[w].status.phase # "Suspended"
  BY <1>0 DEF CalmInv, SuspendedProtected, Protected
<1>6. \A v \in WDs : Kept(v)' = Kept(v)
  BY <1>1, <1>2, <1>3, <1>4, <1>5 DEF Kept, Holds
<1>7. UNCHANGED C!vars BY <1>2, <1>6, Stutters
<1>8. NoStale' BY <1>0, <1>1, <1>4 DEF CustodyInv, NoStale
<1>9. AllExist' BY <1>0 DEF CustodyInv, AllExist
<1>10. CleanJob'
  <2>1. CASE Writing /\ job.wd = w
    BY <1>0, <1>1, <1>2, <1>3, <1>4, <2>1
    DEF CustodyInv, CleanJob, Writing, CalmInv, WritesThrough, Suspending, Protected
  <2>2. CASE Writing /\ job.wd # w
    BY <1>0, <1>1, <1>2, <1>3, <2>2 DEF CustodyInv, CleanJob, Writing
  <2>3. CASE ~Writing BY <1>2, <1>3, <2>3 DEF CleanJob, Writing
  <2> QED BY <2>1, <2>2, <2>3
<1>11. OneConflict'
  <2>1. CASE job # Idle /\ job.wd = w
    BY <1>0, <1>1, <1>2, <1>3, <2>1 DEF CustodyInv, OneConflict, Writing
  <2>2. CASE job # Idle /\ job.wd # w
    BY <1>0, <1>1, <1>2, <1>3, <2>2 DEF CustodyInv, OneConflict, Writing
  <2>3. CASE job = Idle BY <1>2, <2>3 DEF OneConflict
  <2> QED BY <2>1, <2>2, <2>3
<1>12. Unfinalizes'
  <2>1. job # Idle /\ job.step = "unfinalize" => wd[job.wd].exists /\ wd[job.wd].deleting
    BY <1>0 DEF CustodyInv, Unfinalizes, CacheInv, RemovesDeleted
  <2> QED BY <1>0, <1>1, <1>2, <1>3, <2>1 DEF CustodyInv, Unfinalizes
<1> QED BY <1>7, <1>8, <1>9, <1>10, <1>11, <1>12 DEF CustodyInv

\* Users and the Kubernetes controllers keep the invariant and scale or are not seen.
LEMMA EnvironmentCustody ==
  ASSUME Inv, Undisturbed, TypeOK', Environment
  PROVE  CustodyInv' /\ (C!Scale \/ UNCHANGED C!vars)
<1>0. TypeOK BY DEF Inv
<1>1. \A w \in WDs : ~TogglePause(w) /\ ~EditMode(w)
  BY DEF TogglePause, EditMode, Undisturbed, Calm
<1>2. ASSUME NEW w \in WDs, DeleteWD(w) PROVE CustodyInv' /\ UNCHANGED C!vars
  <2> DEFINE object == IF wd[w].finalizer THEN [wd[w] EXCEPT !.deleting = TRUE]
                                          ELSE [wd[w] EXCEPT !.exists = FALSE]
  <2>1. /\ wd' = [wd EXCEPT ![w] = object] /\ ~wd[w].deleting
        /\ job' = IF job # Idle /\ job.wd = w THEN [job EXCEPT !.current = FALSE] ELSE job
        /\ workload' = workload /\ wdCache' = wdCache
    BY <1>2 DEF DeleteWD, UserWrites
  <2>2. wd[w] \in WD BY <1>0 DEF TypeOK
  <2>3. object \in WD BY <2>2, Zenon DEF WD
  <2>4. wd[w].finalizer => /\ object.exists = wd[w].exists /\ object.deleting
                           /\ object.finalizer = wd[w].finalizer
                           /\ object.status = wd[w].status
    BY <2>2, Zenon DEF WD
  <2>5. ~wd[w].finalizer => ~object.exists BY <2>2 DEF WD
  <2> HIDE DEF object
  <2> QED BY <2>1, <2>3, <2>4, <2>5, UserCustody, Zenon
<1>3. ASSUME NEW w \in WDs, CreateWD(w) PROVE CustodyInv' /\ UNCHANGED C!vars
  <2>1. PICK m \in Modes : wd' = [wd EXCEPT ![w] = NewWD(m)] BY <1>3, Zenon DEF CreateWD
  <2>2. /\ ~wd[w].exists
        /\ job' = IF job # Idle /\ job.wd = w THEN [job EXCEPT !.current = FALSE] ELSE job
        /\ workload' = workload /\ wdCache' = wdCache
    BY <1>3 DEF CreateWD
  <2>3. NewWD(m) \in WD BY NewWDType
  <2>4. ~NewWD(m).finalizer /\ NewWD(m).status = EmptyStatus BY DEF NewWD
  <2> QED BY <2>1, <2>2, <2>3, <2>4, UserCustody, Zenon
<1> QED BY <1>1, <1>2, <1>3, OutsideCustody DEF Environment

\* Init has CustodyInv, and is an initial state of Custody.
LEMMA InitCustody == Init => CustodyInv /\ C!Init
<1> SUFFICES ASSUME Init PROVE CustodyInv /\ C!Init OBVIOUS
<1>0. TypeOK BY InitType
<1>1. PICK mode \in [WDs -> Modes] :
        wd = [w \in WDs |-> [NewWD(mode[w]) EXCEPT !.exists = "create" \notin Disturbances]]
  BY Zenon DEF Init
<1>2. \A w \in WDs : wd[w].status = EmptyStatus BY <1>1 DEF NewWD
<1>3. ~Restorable(EmptyStatus) /\ EmptyStatus.phase # "Suspended" BY DEF EmptyStatus, Restorable
<1>4. job = Idle /\ \A x \in Workloads : workload[x].exists
  <2>1. PICK replicas :
          workload = [x \in Workloads |-> [exists |-> TRUE, replicas |-> replicas[x],
                                           ready |-> TRUE,
                                           phase |-> IF Kind[x] = "Rollout" THEN "Healthy"
                                                                            ELSE ""]]
    BY Zenon DEF Init
  <2> QED BY <2>1, Zenon DEF Init
<1>5. CustodyInv
  BY <1>2, <1>3, <1>4
  DEF CustodyInv, NoStale, AllExist, CleanJob, OneConflict, Unfinalizes, Writing
<1>6. C!Init
  <2>1. \A w \in WDs : Kept(w) = 0 BY <1>2, <1>3, <1>4 DEF Kept, Holds
  <2>2. \A x \in Workloads : workload[x].replicas \in Nat BY <1>0 DEF TypeOK, Workload
  <2>3. (job # Idle) = FALSE BY <1>4
  <2> QED BY <2>1, <2>2, <2>3 DEF C!Init
<1> QED BY <1>5, <1>6

\* klink is a custodian.  When reads are level, no write is lost, and users neither
\* pause, nor change the mode of a WorkloadDependency, nor delete workloads, every
\* behaviour of the controller is one of Custody: through any interleaving of
\* reconciles and their writes with scaling, pods, outages, and the deletion and
\* creation of WorkloadDependencies, klink takes all replicas of a dependent and
\* keeps their number, or gives back the number it keeps, and does nothing else.
THEOREM KlinkIsACustodian == ASSUME Undisturbed PROVE Spec => ImplementsCustody
<1>1. Init => Inv /\ C!Init BY InitType, InitCache, InitCalm, InitCustody, Zenon DEF Inv
<1>2. Inv /\ [Next]_vars => Inv' /\ [C!Next]_(C!vars)
  <2> SUFFICES ASSUME Inv, [Next]_vars PROVE Inv' /\ [C!Next]_(C!vars) OBVIOUS
  <2>0. TypeOK /\ CacheInv /\ CalmInv /\ CustodyInv /\ Calm BY DEF Inv, Undisturbed
  <2>1. TypeOK' /\ CacheInv' BY <2>0, NextType, NextCache
  <2>2. CASE Next
    <3>1. CalmInv'
      BY <2>0, <2>2, ReconcileCalm, WriteCalm, SystemCalm, EnvironmentCalm DEF Next
    <3>2. CustodyInv' /\ (C!Next \/ UNCHANGED C!vars)
      BY <2>1, <2>2, ReconcileCustody, WriteCustody, SystemCustody, EnvironmentCustody
      DEF Next, C!Next
    <3> QED BY <2>1, <3>1, <3>2 DEF Inv
  <2>3. CASE UNCHANGED vars
    <3>1. /\ wd' = wd /\ job' = job /\ wdCache' = wdCache
          /\ workload' = workload /\ owed' = owed
      BY <2>3 DEF vars
    <3>2. CalmInv'
      BY <2>0, <3>1 DEF CalmInv, WritesThrough, SuspendedProtected, NonePaused, AllHeld,
                        Holds, Suspending, Protected
    <3>3. CustodyInv'
      BY <2>0, <3>1
      DEF CustodyInv, NoStale, AllExist, CleanJob, OneConflict, Unfinalizes, Writing
    <3>4. UNCHANGED C!vars BY <3>1, Stutters DEF Kept, Holds
    <3> QED BY <2>1, <3>2, <3>3, <3>4 DEF Inv
  <2> QED BY <2>2, <2>3
<1> QED BY <1>1, <1>2, PTL DEF Spec, ImplementsCustody, C!Spec
=============================================================================
