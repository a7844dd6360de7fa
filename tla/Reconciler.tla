------------------------------ MODULE Reconciler ------------------------------
(***************************************************************************)
(* The WorkloadDependency controller of internal/controller: Reconcile and *)
(* its handlers, the two-step "patch the workload, then write the status"  *)
(* protocol, the informer caches it reads from, the work queue that feeds  *)
(* it, and the users and Kubernetes controllers it runs beside.            *)
(*                                                                         *)
(* A reconcile that writes twice is two steps: the step that reads the     *)
(* caches, decides and patches the workload leaves a job behind, and the   *)
(* job's own steps are the calls of Status().Update (or the Update that    *)
(* removes the finalizer).  Anything may happen in between.  There is one  *)
(* job at a time: SetupWithManager asks for no MaxConcurrentReconciles,    *)
(* and controller-runtime's default is one worker.                         *)
(*                                                                         *)
(* Time is counted in ticks.  A timestamp of the status is kept as its     *)
(* age, which stops growing at the only value it is ever compared with.    *)
(* A CronJob has replicas 0 when spec.suspend is true and 1 otherwise.     *)
(***************************************************************************)
EXTENDS Integers, Sequences, DependencyGraph

CONSTANTS
  WDs,              \* the WorkloadDependency objects
  Workloads,        \* the workloads they name
  Kind,             \* Kind[x]: the kind of workload x
  Name,             \* Name[x]: its namespace/name, the key of both field indexes
  Counts,           \* Counts[x]: the replica counts users give x
  Dependent,        \* Dependent[w]: spec.dependent
  DependsOn,        \* DependsOn[w]: spec.dependsOn, a sequence of entries
                    \* [workload, window, recoveryWindow]
  MaxSuspend,       \* MaxSuspend[w]: spec.onDegraded.maxSuspendDuration, 0 for none
  Modes,            \* the enforcement modes users choose
  DefaultWindow, DefaultRecoveryWindow,
  Disturbances,     \* what the environment may do beyond scaling workloads
  Nil               \* an unset pointer of the status

Kinds == {"Deployment", "StatefulSet", "CronJob", "Rollout"}
AllModes == {"strict", "soft", "gate", "observe"}
Phases == {"", "Healthy", "Degraded", "Suspended", "Released", "Paused", "Observed", "Unknown"}
RolloutPhases == {"", "Healthy", "Progressing", "Paused", "Degraded"}
AllDisturbances ==
  { "pods",        \* pods stop being ready and become ready, Rollouts change phase
    "lag",         \* the controller reads caches that are behind the API server
    "crash",       \* the operator restarts, or loses its leader lease, at any point
    "error",       \* a write fails for another reason than a conflict, or its reply is lost
    "outage",      \* time passes while work is queued
    "pause",       \* users set and remove klink.dev/paused
    "mode",        \* users edit spec.mode
    "delete",      \* users delete WorkloadDependencies
    "create",      \* users create them; without it all of them exist from the start
    "workloads" }  \* users delete and re-create workloads

ASSUME ConstantsAssumption ==
  /\ Kind \in [Workloads -> Kinds]
  /\ Counts \in [Workloads -> SUBSET Nat]
  /\ Dependent \in [WDs -> Workloads]
  /\ MaxSuspend \in [WDs -> Nat]
  /\ Modes \subseteq AllModes
  /\ Disturbances \subseteq AllDisturbances
  /\ Nil \notin Nat

\* degradedWindow and recoveryWindow: the first positive value of the list.
FirstPositive(values, default) ==
  LET positive == {i \in DOMAIN values : values[i] > 0}
  IN  IF positive = {} THEN default
      ELSE values[CHOOSE i \in positive : \A j \in positive : i <= j]

degradedWindow(w) ==
  FirstPositive([i \in DOMAIN DependsOn[w] |-> DependsOn[w][i].window], DefaultWindow)

recoveryWindow(w) ==
  FirstPositive([i \in DOMAIN DependsOn[w] |-> DependsOn[w][i].recoveryWindow],
                DefaultRecoveryWindow)

ASSUME SpecAssumption ==
  \A w \in WDs : /\ \A i \in DOMAIN DependsOn[w] : DependsOn[w][i].workload \in Workloads
                 /\ degradedWindow(w) \in Nat
                 /\ recoveryWindow(w) \in Nat

Dependencies(w) == {DependsOn[w][i].workload : i \in DOMAIN DependsOn[w]}

\* The keys of the two field indexes: namespace and name, no kind.
DependentKey(w) == Name[Dependent[w]]
DependsOnKeys(w) == {Name[x] : x \in Dependencies(w)}
-----------------------------------------------------------------------------
VARIABLES
  workload,       \* the workloads, as the API server has them
  wd,             \* the WorkloadDependencies, as the API server has them
  workloadCache,  \* the workloads, as the controller's informers have them
  wdCache,        \* the WorkloadDependencies, as the controller's informer has them
  level,          \* level[x]: workloadCache[x] has the current resourceVersion of x
  fresh,          \* fresh[w]: wdCache[w] has the current resourceVersion of w
  queue,          \* the work queue: WorkloadDependencies to reconcile
  job,            \* the writes the running reconcile still has to do
  \* History, for the properties only:
  owed,           \* owed[x]: replicas klink took from x and nobody gave back, 0 if none
  lastOk,         \* lastOk[w]: ticks since every dependency of w was last ok
  released        \* released[w]: force-restored, and every dependency not seen ok since

cacheVars == <<workloadCache, wdCache, fresh>>
historyVars == <<owed, lastOk, released>>
vars == <<workload, wd, workloadCache, wdCache, level, fresh, queue, job,
          owed, lastOk, released>>

Time == Nat \cup {Nil}

\* WorkloadDependencyStatus, message and conditions left out.
Status == [phase : Phases, savedReplicas : Nat \cup {Nil},
           degradedSince : Time, healthySince : Time, suspendedAt : Time]

\* A WorkloadDependency: metadata, the part of the spec that users edit, status.
WD == [exists : BOOLEAN, deleting : BOOLEAN, finalizer : BOOLEAN, paused : BOOLEAN,
       mode : AllModes, status : Status]

\* ready: status.readyReplicas reaches minReadyPercent.  phase: a Rollout's status.phase.
Workload == [exists : BOOLEAN, replicas : Nat, ready : BOOLEAN, phase : RolloutPhases]

\* step: the call that comes next.  mem: the status fields the handler set before
\* setStatus.  base: the status of the object the fields are applied to.  current:
\* that object's resourceVersion is still the API server's.
Job == [step : {"status", "unfinalize"}, wd : WDs, phase : Phases,
        mem : Status, base : Status, current : BOOLEAN, attempt : Nat]

Idle == [step |-> "idle"]

EmptyStatus == [phase |-> "", savedReplicas |-> Nil, degradedSince |-> Nil,
                healthySince |-> Nil, suspendedAt |-> Nil]

NewWD(mode) == [exists |-> TRUE, deleting |-> FALSE, finalizer |-> FALSE,
                paused |-> FALSE, mode |-> mode, status |-> EmptyStatus]

TypeOK ==
  /\ workload \in [Workloads -> Workload]
  /\ wd \in [WDs -> WD]
  /\ workloadCache \in [Workloads -> Workload]
  /\ wdCache \in [WDs -> WD]
  /\ level \in [Workloads -> BOOLEAN]
  /\ fresh \in [WDs -> BOOLEAN]
  /\ queue \subseteq WDs
  /\ job \in Job \cup {Idle}
  /\ owed \in [Workloads -> Nat]
  /\ lastOk \in [WDs -> Nat]
  /\ released \in [WDs -> BOOLEAN]

Init ==
  /\ \E replicas \in [Workloads -> UNION {Counts[x] : x \in Workloads}] :
       /\ \A x \in Workloads : replicas[x] \in Counts[x]
       /\ workload = [x \in Workloads |-> [exists |-> TRUE, replicas |-> replicas[x],
                                           ready |-> TRUE,
                                           phase |-> IF Kind[x] = "Rollout" THEN "Healthy"
                                                                            ELSE ""]]
  /\ \E mode \in [WDs -> Modes] :
       wd = [w \in WDs |-> [NewWD(mode[w]) EXCEPT !.exists = "create" \notin Disturbances]]
  /\ workloadCache = workload
  /\ wdCache = wd
  /\ level = [x \in Workloads |-> TRUE]
  /\ fresh = [w \in WDs |-> TRUE]
  /\ queue = WDs
  /\ job = Idle
  /\ owed = [x \in Workloads |-> 0]
  /\ lastOk = [w \in WDs |-> 0]
  /\ released = [w \in WDs |-> FALSE]
-----------------------------------------------------------------------------
(***************************************************************************)
(* What the controller reads: always the caches.                           *)
(***************************************************************************)

\* The informers have delivered every write of the API server.
Synced == (\A x \in Workloads : level[x]) /\ (\A w \in WDs : fresh[w])

\* Without "lag" every read of the controller happens when the informers are level.
Readable == "lag" \in Disturbances \/ Synced

\* Mutant: klink does not know what it suspended.
isSuspendedByKlink_Never(x) == FALSE

\* isSuspendedByKlink: the index has no kind, and any phase Suspended will do.
isSuspendedByKlink(x) ==
  \E v \in WDs : /\ wdCache[v].exists
                 /\ DependentKey(v) = Name[x]
                 /\ wdCache[v].status.phase = "Suspended"

isHealthyAsDependency(x) == workloadCache[x].phase \in {"Healthy", "Progressing", "Paused"}

isProgressing(x) == Kind[x] = "Rollout" /\ workloadCache[x].phase = "Progressing"

\* The healthy cases of depStatus before isSuspendedByKlink is asked.
Serves(x) ==
  CASE Kind[x] = "Rollout" -> isHealthyAsDependency(x)
    [] Kind[x] = "CronJob" -> workloadCache[x].replicas # 0
    [] OTHER               -> workloadCache[x].replicas # 0 /\ workloadCache[x].ready

\* A Deployment or StatefulSet with replicas that are not ready is never CoSuspended.
MayBeCoSuspended(x) == Kind[x] = "Rollout" \/ workloadCache[x].replicas = 0

depStatus(x) ==
  IF Serves(x) THEN "Healthy"
  ELSE IF MayBeCoSuspended(x) /\ isSuspendedByKlink(x) THEN "CoSuspended" ELSE "Unhealthy"

\* allOk at the end of the loop over spec.dependsOn; a dependency that is not
\* found breaks out of the loop with allOk = false.
allOk(w) ==
  \A x \in Dependencies(w) :
     workloadCache[x].exists /\ depStatus(x) \in {"Healthy", "CoSuspended"}

\* Mutant: only those that have the finalizer are in the graph.
Edges_Admitted(w) ==
  UNION {{Dependent[v]} \X Dependencies(v) :
           v \in {u \in WDs : u = w \/ (wdCache[u].exists /\ wdCache[u].finalizer)}}

\* DetectCycle on the WorkloadDependencies of the cache (all in one namespace).  A
\* workloadKey has kind, namespace and name: it is the workload.
Edges(w) ==
  UNION {{Dependent[v]} \X Dependencies(v) : v \in {u \in WDs : u = w \/ wdCache[u].exists}}

DetectCycle(w) == HasCycle(Edges(w), Dependent[w], Dependencies(w))

\* Mutant: the lookup by dependsOn is missing.
findWDsForWorkload_Dependent(x) ==
  {w \in WDs : wdCache[w].exists /\ DependentKey(w) = Name[x]}

\* Mutant: the lookup by dependent is missing.
findWDsForWorkload_DependsOn(x) ==
  {w \in WDs : wdCache[w].exists /\ Name[x] \in DependsOnKeys(w)}

\* findWDsForWorkload: both field indexes, of the WorkloadDependencies in the cache.
findWDsForWorkload(x) ==
  {w \in WDs : wdCache[w].exists /\ (Name[x] \in DependsOnKeys(w) \/ DependentKey(w) = Name[x])}
-----------------------------------------------------------------------------
(***************************************************************************)
(* The writes of a reconcile.                                              *)
(***************************************************************************)

NoPatch == UNCHANGED <<workload, level, owed>>

\* r.Patch with client.MergeFrom: the patch holds the fields that differ from
\* the copy that was read, carries no resourceVersion, and so overwrites
\* whatever the API server has.  When nothing differs it changes nothing.
\* A patch of a workload that is gone is an error: the reconcile ends, is
\* retried, and has changed nothing.
Patch(x, n) ==
  /\ workload[x].exists
  /\ IF workloadCache[x].replicas = n \/ workload[x].replicas = n
     THEN NoPatch
     ELSE /\ workload' = [workload EXCEPT ![x].replicas = n]
          /\ level' = [level EXCEPT ![x] = FALSE]
          /\ owed' = [owed EXCEPT ![x] = IF n = 0 THEN workload[x].replicas ELSE 0]

\* Mutant: a CronJob is not told apart, and its getReplicas() of -1 is saved.
SuspendedStatus_AnyKind(w, s) ==
  LET c == workloadCache[Dependent[w]]
      replicas == IF Kind[Dependent[w]] = "CronJob" THEN -1 ELSE c.replicas
  IN  IF c.replicas = 0 THEN s ELSE [s EXCEPT !.savedReplicas = replicas]

\* Mutant: a count that is already saved is kept.
SuspendedStatus_Keep(w, s) ==
  LET c == workloadCache[Dependent[w]]
  IN  IF c.replicas = 0 \/ s.savedReplicas # Nil THEN s
      ELSE [s EXCEPT !.savedReplicas = c.replicas]

\* suspendWorkload: the status it leaves in memory, and its patch.
SuspendedStatus(w, s) ==
  LET c == workloadCache[Dependent[w]]
  IN  IF Kind[Dependent[w]] = "CronJob" \/ c.replicas = 0 THEN s
      ELSE [s EXCEPT !.savedReplicas = c.replicas]

suspendWorkload(w) ==
  IF workloadCache[Dependent[w]].replicas = 0 THEN NoPatch ELSE Patch(Dependent[w], 0)

\* Mutant: a CronJob is not told apart.
restoreWorkload_AnyKind(w, s) ==
  IF s.savedReplicas \in {Nil, 0} THEN NoPatch ELSE Patch(Dependent[w], s.savedReplicas)

\* restoreWorkload: a CronJob is resumed if it is suspended, the others go back
\* to savedReplicas, if there is one.
restoreWorkload(w, s) ==
  IF Kind[Dependent[w]] = "CronJob"
  THEN IF workloadCache[Dependent[w]].replicas = 0 THEN Patch(Dependent[w], 1) ELSE NoPatch
  ELSE IF s.savedReplicas \in {Nil, 0} THEN NoPatch ELSE Patch(Dependent[w], s.savedReplicas)

\* setStatus up to its first Status().Update: the fields are snapshot.
setStatus(w, s, phase) ==
  job' = [step |-> "status", wd |-> w, phase |-> phase, mem |-> s, base |-> s,
          current |-> fresh[w], attempt |-> 0]

\* What applyFields makes of a field: what a handler cleared is cleared only if the
\* object is the handler's own copy.
Applied(mine, other) == IF mine = Nil THEN other ELSE mine

\* Mutant: suspendedAt is set and never cleared.
applyFields_NoClear(j) ==
  [phase         |-> j.phase,
   savedReplicas |-> Applied(j.mem.savedReplicas, j.base.savedReplicas),
   degradedSince |-> Applied(j.mem.degradedSince, j.base.degradedSince),
   healthySince  |-> Applied(j.mem.healthySince, j.base.healthySince),
   suspendedAt   |-> IF j.phase = "Suspended" THEN Applied(j.base.suspendedAt, 0)
                                              ELSE j.base.suspendedAt]

applyFields(j) ==
  [phase         |-> j.phase,
   savedReplicas |-> Applied(j.mem.savedReplicas, j.base.savedReplicas),
   degradedSince |-> Applied(j.mem.degradedSince, j.base.degradedSince),
   healthySince  |-> Applied(j.mem.healthySince, j.base.healthySince),
   suspendedAt   |-> IF j.phase = "Suspended" THEN Applied(j.base.suspendedAt, 0) ELSE Nil]

maxRetries == 3

\* Status().Update succeeds iff the resourceVersion is current.  An update that
\* changes nothing leaves the resourceVersion alone.
StatusUpdated ==
  /\ job # Idle /\ job.step = "status"
  /\ wd[job.wd].exists /\ job.current
  /\ wd' = [wd EXCEPT ![job.wd].status = applyFields(job)]
  /\ fresh' = [fresh EXCEPT ![job.wd] = @ /\ applyFields(job) = wd[job.wd].status]
  /\ job' = Idle
  /\ UNCHANGED <<workload, workloadCache, wdCache, level, queue>> /\ UNCHANGED historyVars

\* A conflict: the object is read again, from the cache, and the fields applied
\* to it.  The third conflict ends the reconcile with Requeue.
StatusConflict ==
  /\ job # Idle /\ job.step = "status"
  /\ wd[job.wd].exists /\ ~job.current
  /\ Readable /\ wdCache[job.wd].exists
  /\ IF job.attempt + 1 < maxRetries
     THEN /\ job' = [job EXCEPT !.base = wdCache[job.wd].status,
                                !.current = fresh[job.wd], !.attempt = @ + 1]
          /\ UNCHANGED queue
     ELSE /\ job' = Idle
          /\ queue' = queue \cup {job.wd}
  /\ UNCHANGED <<workload, wd, level>> /\ UNCHANGED cacheVars /\ UNCHANGED historyVars

\* The end of handleDeletion: the Update without the finalizer lets the API
\* server remove the object.  A conflict is an error, and the reconcile is retried.
FinalizerRemoved ==
  /\ job # Idle /\ job.step = "unfinalize"
  /\ wd[job.wd].exists /\ job.current
  /\ wd' = [wd EXCEPT ![job.wd].exists = FALSE]
  /\ fresh' = [fresh EXCEPT ![job.wd] = FALSE]
  /\ job' = Idle
  /\ UNCHANGED <<workload, workloadCache, wdCache, level, queue>> /\ UNCHANGED historyVars

\* A write that fails for good: the object is gone, the removal of the finalizer
\* conflicts, the object to read again after a conflict is not in the cache, or,
\* with "error", anything else (setStatus and handleDeletion return the error).
\* What the handler had in memory is lost.
WriteFailed ==
  /\ job # Idle
  /\ \/ "error" \in Disturbances
     \/ ~wd[job.wd].exists
     \/ ~job.current /\ (job.step = "unfinalize" \/ ~wdCache[job.wd].exists)
  /\ job' = Idle
  /\ queue' = queue \cup {job.wd}
  /\ UNCHANGED <<workload, wd, level>> /\ UNCHANGED cacheVars /\ UNCHANGED historyVars
-----------------------------------------------------------------------------
(***************************************************************************)
(* Reconcile, one action for each way it ends.                             *)
(***************************************************************************)

\* The worker takes w from the queue.  RequeueAfter is in Tick.
Take(w) ==
  /\ job = Idle
  /\ w \in queue
  /\ Readable
  /\ queue' = queue \ {w}
  /\ UNCHANGED wd /\ UNCHANGED cacheVars

\* A reconcile of an object that is not enforced yet, or not any more.
Unseen == UNCHANGED <<lastOk, released>>

\* How the dependencies are at the time of the reconcile, whether it looks or not.
Seen(w) == lastOk' = IF allOk(w) THEN [lastOk EXCEPT ![w] = 0] ELSE lastOk

\* Get: NotFound.
ReconcileGone(w) ==
  /\ Take(w)
  /\ ~wdCache[w].exists
  /\ NoPatch /\ Unseen /\ UNCHANGED job

\* Mutant: the finalizer is removed and nothing restored.
handleDeletion_NoRestore(w) ==
  LET s == wdCache[w].status
  IN  /\ Take(w)
      /\ wdCache[w].exists /\ wdCache[w].deleting
      /\ NoPatch
      /\ job' = [step |-> "unfinalize", wd |-> w, phase |-> s.phase, mem |-> s, base |-> s,
                 current |-> fresh[w], attempt |-> 0]
      /\ Unseen

\* Mutant: handleDeletion returns after the restore and is called again later.
handleDeletion_Again(w) ==
  LET s == wdCache[w].status
      restore == s.phase = "Suspended" /\ s.savedReplicas \notin {Nil, 0}
  IN  /\ Take(w)
      /\ wdCache[w].exists /\ wdCache[w].deleting
      /\ IF restore THEN restoreWorkload(w, s) ELSE NoPatch
      /\ job' = IF restore THEN job
                ELSE [step |-> "unfinalize", wd |-> w, phase |-> s.phase, mem |-> s,
                      base |-> s, current |-> fresh[w], attempt |-> 0]
      /\ Unseen

\* handleDeletion, up to the removal of the finalizer.
handleDeletion(w) ==
  LET s == wdCache[w].status
  IN  /\ Take(w)
      /\ wdCache[w].exists /\ wdCache[w].deleting
      /\ IF /\ s.phase = "Suspended" /\ s.savedReplicas \notin {Nil, 0}
            /\ workloadCache[Dependent[w]].exists
         THEN restoreWorkload(w, s)
         ELSE NoPatch
      /\ job' = [step |-> "unfinalize", wd |-> w, phase |-> s.phase, mem |-> s, base |-> s,
                 current |-> fresh[w], attempt |-> 0]
      /\ Unseen

Unadmitted(w) == wdCache[w].exists /\ ~wdCache[w].deleting /\ ~wdCache[w].finalizer

\* The finalizer is added to a WorkloadDependency that closes no cycle, or whose
\* check failed, and w is requeued.  When its copy is out of date the Update
\* fails, and w is requeued.
AddFinalizer(w) ==
  /\ job = Idle /\ w \in queue /\ Readable
  /\ Unadmitted(w)
  /\ "error" \in Disturbances \/ ~DetectCycle(w)
  /\ fresh[w]
  /\ wd' = [wd EXCEPT ![w].finalizer = TRUE]
  /\ fresh' = [fresh EXCEPT ![w] = FALSE]
  /\ UNCHANGED <<workload, workloadCache, wdCache, level, queue, job>>
  /\ UNCHANGED historyVars

RejectCycle(w) ==
  /\ Take(w)
  /\ Unadmitted(w) /\ DetectCycle(w)
  /\ setStatus(w, wdCache[w].status, "Unknown")
  /\ NoPatch /\ Unseen

\* Mutant: reconciled without a finalizer.
Admitted_Unprotected(w) == wdCache[w].exists /\ ~wdCache[w].deleting

Admitted(w) == wdCache[w].exists /\ ~wdCache[w].deleting /\ wdCache[w].finalizer

ReconcilePaused(w) ==
  /\ Take(w)
  /\ Admitted(w) /\ wdCache[w].paused
  /\ setStatus(w, wdCache[w].status, "Paused")
  /\ NoPatch /\ Seen(w) /\ UNCHANGED released

DependentMissing(w) ==
  /\ Take(w)
  /\ Admitted(w) /\ ~wdCache[w].paused /\ ~workloadCache[Dependent[w]].exists
  /\ setStatus(w, wdCache[w].status, "Unknown")
  /\ NoPatch /\ Seen(w) /\ UNCHANGED released

\* Reconcile gets as far as the loop over the dependencies.
Evaluate(w) ==
  /\ Take(w)
  /\ Admitted(w) /\ ~wdCache[w].paused /\ workloadCache[Dependent[w]].exists
  /\ Seen(w)

\* released ends when every dependency has been seen ok.
KeepReleased(w) == released' = [released EXCEPT ![w] = @ /\ ~allOk(w)]

\* The dependent is a Rollout with a canary in flight.
Deferred(w) == ~allOk(w) /\ isProgressing(Dependent[w])

DeferToRollout(w) ==
  /\ Evaluate(w) /\ Deferred(w)
  /\ setStatus(w, wdCache[w].status, "Degraded")
  /\ NoPatch /\ KeepReleased(w)

ReconcileObserve(w) ==
  /\ Evaluate(w) /\ ~Deferred(w) /\ wdCache[w].mode = "observe"
  /\ setStatus(w, wdCache[w].status, IF allOk(w) THEN "Healthy" ELSE "Observed")
  /\ NoPatch /\ KeepReleased(w)

ReconcileGate(w) ==
  /\ Evaluate(w) /\ ~Deferred(w) /\ wdCache[w].mode = "gate"
  /\ setStatus(w, wdCache[w].status, IF allOk(w) THEN "Healthy" ELSE "Degraded")
  /\ NoPatch /\ KeepReleased(w)

\* Mutant: gate mode is forgotten.
Enforce_Gate(w) ==
  Evaluate(w) /\ ~Deferred(w) /\ wdCache[w].mode \in {"strict", "soft", "gate"}

\* The modes that scale the dependent.
Enforce(w) == Evaluate(w) /\ ~Deferred(w) /\ wdCache[w].mode \in {"strict", "soft"}

StayReleased(w) ==
  /\ Enforce(w) /\ ~allOk(w) /\ wdCache[w].status.phase = "Released"
  /\ setStatus(w, wdCache[w].status, "Released")
  /\ NoPatch /\ KeepReleased(w)

\* maxSuspendDuration applies.
Limited(w) == MaxSuspend[w] > 0 /\ wdCache[w].status.suspendedAt # Nil

\* Mutant: the phase after a forced restore is Degraded.
ForceRestore_Degraded(w) ==
  LET s == wdCache[w].status
  IN  /\ Enforce(w) /\ ~allOk(w) /\ s.phase = "Suspended"
      /\ Limited(w) /\ s.suspendedAt >= MaxSuspend[w]
      /\ restoreWorkload(w, s)
      /\ setStatus(w, [s EXCEPT !.savedReplicas = Nil, !.healthySince = Nil], "Degraded")
      /\ released' = [released EXCEPT ![w] = TRUE]

\* Mutant: the dependent is not given back.
ForceRestore_NoPatch(w) ==
  LET s == wdCache[w].status
  IN  /\ Enforce(w) /\ ~allOk(w) /\ s.phase = "Suspended"
      /\ Limited(w) /\ s.suspendedAt >= MaxSuspend[w]
      /\ NoPatch
      /\ setStatus(w, [s EXCEPT !.savedReplicas = Nil, !.healthySince = Nil], "Released")
      /\ released' = [released EXCEPT ![w] = TRUE]

ForceRestore(w) ==
  LET s == wdCache[w].status
  IN  /\ Enforce(w) /\ ~allOk(w) /\ s.phase = "Suspended"
      /\ Limited(w) /\ s.suspendedAt >= MaxSuspend[w]
      /\ restoreWorkload(w, s)
      /\ setStatus(w, [s EXCEPT !.savedReplicas = Nil, !.healthySince = Nil], "Released")
      /\ released' = [released EXCEPT ![w] = TRUE]

\* Mutant: the end of maxSuspendDuration is missed.
AwaitMaxSuspend_Late(w) ==
  LET s == wdCache[w].status
  IN  /\ Enforce(w) /\ ~allOk(w) /\ s.phase = "Suspended"
      /\ Limited(w) /\ s.suspendedAt <= MaxSuspend[w]
      /\ NoPatch /\ UNCHANGED job /\ KeepReleased(w)

\* Reconcile returns RequeueAfter and leaves the dependent alone.
AwaitMaxSuspend(w) ==
  LET s == wdCache[w].status
  IN  /\ Enforce(w) /\ ~allOk(w) /\ s.phase = "Suspended"
      /\ Limited(w) /\ s.suspendedAt < MaxSuspend[w]
      /\ NoPatch /\ UNCHANGED job /\ KeepReleased(w)

\* Strict mode takes a dependent that was scaled up down again.  (The test for a
\* Progressing Rollout in handleSuspended is never true: DeferToRollout has it.)
handleSuspended(w) ==
  LET s == wdCache[w].status
      enforce == wdCache[w].mode = "strict"
  IN  /\ Enforce(w) /\ ~allOk(w) /\ s.phase = "Suspended" /\ ~Limited(w)
      /\ IF enforce THEN suspendWorkload(w) ELSE NoPatch
      /\ setStatus(w, IF enforce THEN SuspendedStatus(w, s) ELSE s, "Suspended")
      /\ KeepReleased(w)

\* handleDegraded
Degrading(w) ==
  Enforce(w) /\ ~allOk(w) /\ wdCache[w].status.phase \notin {"Suspended", "Released"}

StartDegraded(w) ==
  LET s == wdCache[w].status
  IN  /\ Degrading(w) /\ s.degradedSince = Nil
      /\ setStatus(w, [s EXCEPT !.degradedSince = 0, !.healthySince = Nil], "Degraded")
      /\ NoPatch /\ KeepReleased(w)

AwaitWindow(w) ==
  LET s == wdCache[w].status
  IN  /\ Degrading(w) /\ s.degradedSince # Nil /\ s.degradedSince < degradedWindow(w)
      /\ NoPatch /\ UNCHANGED job /\ KeepReleased(w)

Suspend(w) ==
  LET s == wdCache[w].status
  IN  /\ Degrading(w) /\ s.degradedSince # Nil /\ s.degradedSince >= degradedWindow(w)
      /\ suspendWorkload(w)
      /\ setStatus(w, SuspendedStatus(w, s), "Suspended")
      /\ KeepReleased(w)

\* handleHealthy clears degradedSince in memory first.
Recovering(w) == Enforce(w) /\ allOk(w) /\ KeepReleased(w)

\* Mutant: degradedSince survives.
BecomeHealthy_KeepClock(w) ==
  LET s == wdCache[w].status
  IN  /\ Recovering(w) /\ s.phase # "Suspended"
      /\ setStatus(w, [s EXCEPT !.healthySince = Nil], "Healthy")
      /\ NoPatch

BecomeHealthy(w) ==
  LET s == wdCache[w].status
  IN  /\ Recovering(w) /\ s.phase # "Suspended"
      /\ setStatus(w, [s EXCEPT !.degradedSince = Nil, !.healthySince = Nil], "Healthy")
      /\ NoPatch

StartRecovery(w) ==
  LET s == wdCache[w].status
  IN  /\ Recovering(w) /\ s.phase = "Suspended" /\ s.healthySince = Nil
      /\ setStatus(w, [s EXCEPT !.degradedSince = Nil, !.healthySince = 0], "Suspended")
      /\ NoPatch

AwaitRecovery(w) ==
  LET s == wdCache[w].status
  IN  /\ Recovering(w) /\ s.phase = "Suspended"
      /\ s.healthySince # Nil /\ s.healthySince < recoveryWindow(w)
      /\ NoPatch /\ UNCHANGED job

Restore(w) ==
  LET s == wdCache[w].status
  IN  /\ Recovering(w) /\ s.phase = "Suspended"
      /\ s.healthySince # Nil /\ s.healthySince >= recoveryWindow(w)
      /\ restoreWorkload(w, s)
      /\ setStatus(w, [s EXCEPT !.savedReplicas = Nil, !.degradedSince = Nil,
                                !.healthySince = Nil], "Healthy")

Reconcile(w) ==
  \/ ReconcileGone(w)
  \/ handleDeletion(w)
  \/ AddFinalizer(w)
  \/ RejectCycle(w)
  \/ ReconcilePaused(w)
  \/ DependentMissing(w)
  \/ DeferToRollout(w)
  \/ ReconcileObserve(w)
  \/ ReconcileGate(w)
  \/ StayReleased(w)
  \/ ForceRestore(w)
  \/ AwaitMaxSuspend(w)
  \/ handleSuspended(w)
  \/ StartDegraded(w)
  \/ AwaitWindow(w)
  \/ Suspend(w)
  \/ BecomeHealthy(w)
  \/ StartRecovery(w)
  \/ AwaitRecovery(w)
  \/ Restore(w)

Write == StatusUpdated \/ StatusConflict \/ FinalizerRemoved \/ WriteFailed
-----------------------------------------------------------------------------
(***************************************************************************)
(* Informers, time, and restarts.                                          *)
(***************************************************************************)

\* The informer of WorkloadDependencies delivers what it is behind and queues it.
SyncWDs ==
  /\ \E w \in WDs : ~fresh[w]
  /\ wdCache' = wd
  /\ fresh' = [w \in WDs |-> TRUE]
  /\ queue' = queue \cup {w \in WDs : ~fresh[w]}
  /\ UNCHANGED <<workload, wd, workloadCache, level, job>> /\ UNCHANGED historyVars

\* The informer of one kind of workloads delivers what it is behind and queues
\* what findWDsForWorkload finds.
SyncWorkloads(kind) ==
  LET behind == {x \in Workloads : Kind[x] = kind /\ ~level[x]}
  IN  /\ behind # {}
      /\ workloadCache' = [x \in Workloads |-> IF Kind[x] = kind THEN workload[x]
                                                                 ELSE workloadCache[x]]
      /\ level' = [x \in Workloads |-> level[x] \/ Kind[x] = kind]
      /\ queue' = queue \cup UNION {findWDsForWorkload(x) : x \in behind}
      /\ UNCHANGED <<workload, wd, wdCache, fresh, job>> /\ UNCHANGED historyVars

Older(age, limit) == IF age # Nil /\ age < limit THEN age + 1 ELSE age

OlderStatus(w, s) ==
  [s EXCEPT !.degradedSince = Older(@, degradedWindow(w)),
            !.healthySince  = Older(@, recoveryWindow(w)),
            !.suspendedAt   = Older(@, MaxSuspend[w])]

\* Mutant: RequeueAfter is lost.
Tick_NoRequeue ==
  /\ job = Idle /\ Synced
  /\ "outage" \in Disturbances \/ queue = {}
  /\ wd' = [w \in WDs |-> [wd[w] EXCEPT !.status = OlderStatus(w, @)]]
  /\ wdCache' = [w \in WDs |-> [wdCache[w] EXCEPT !.status = OlderStatus(w, @)]]
  /\ lastOk' = [w \in WDs |-> IF allOk(w) THEN 0 ELSE Older(lastOk[w], degradedWindow(w))]
  /\ UNCHANGED <<workload, workloadCache, level, fresh, queue, job, owed, released>>

\* A tick is longer than a reconcile and than the lag of an informer.  Every
\* admitted WorkloadDependency is queued again: each reconcile of one returns a
\* RequeueAfter, of 15s or until the end of the window it waits for, and a
\* reconcile in the middle of a window does nothing.  Without "outage" the
\* operator keeps up with its queue.
Tick ==
  /\ job = Idle /\ Synced
  /\ "outage" \in Disturbances \/ queue = {}
  /\ wd' = [w \in WDs |-> [wd[w] EXCEPT !.status = OlderStatus(w, @)]]
  /\ wdCache' = [w \in WDs |-> [wdCache[w] EXCEPT !.status = OlderStatus(w, @)]]
  /\ queue' = queue \cup {w \in WDs : wd[w].exists /\ wd[w].finalizer}
  /\ lastOk' = [w \in WDs |-> IF allOk(w) THEN 0 ELSE Older(lastOk[w], degradedWindow(w))]
  /\ UNCHANGED <<workload, workloadCache, level, fresh, job, owed, released>>

\* The operator stops, in the middle of a reconcile or not, and the next one
\* lists everything and queues every WorkloadDependency.
Restart ==
  /\ "crash" \in Disturbances
  /\ job' = Idle
  /\ workloadCache' = workload
  /\ wdCache' = wd
  /\ level' = [x \in Workloads |-> TRUE]
  /\ fresh' = [w \in WDs |-> TRUE]
  /\ queue' = {w \in WDs : wd[w].exists}
  /\ UNCHANGED <<workload, wd>> /\ UNCHANGED historyVars
-----------------------------------------------------------------------------
(***************************************************************************)
(* Users and the Kubernetes controllers.                                   *)
(***************************************************************************)

\* The API server takes somebody else's write to x.
Outside(x, object) ==
  /\ workload' = [workload EXCEPT ![x] = object]
  /\ level' = [level EXCEPT ![x] = FALSE]
  /\ UNCHANGED <<wd, queue, job, lastOk, released>> /\ UNCHANGED cacheVars

\* A user, or an autoscaler, sets the replicas of x.
ScaleWorkload(x) ==
  /\ workload[x].exists
  /\ \E n \in Counts[x] \ {workload[x].replicas} :
       Outside(x, [workload[x] EXCEPT !.replicas = n])
  /\ owed' = [owed EXCEPT ![x] = 0]

\* The pods of a dependency become ready, or stop being ready.
PodsChange(x) ==
  /\ "pods" \in Disturbances
  /\ workload[x].exists
  /\ Kind[x] \in {"Deployment", "StatefulSet"}
  /\ \E w \in WDs : x \in Dependencies(w)
  /\ Outside(x, [workload[x] EXCEPT !.ready = ~@])
  /\ UNCHANGED owed

\* Argo Rollouts moves a Rollout to another phase.
RolloutChange(x) ==
  /\ "pods" \in Disturbances
  /\ workload[x].exists
  /\ Kind[x] = "Rollout"
  /\ \E p \in RolloutPhases \ {"", workload[x].phase} :
       Outside(x, [workload[x] EXCEPT !.phase = p])
  /\ UNCHANGED owed

DeleteWorkload(x) ==
  /\ "workloads" \in Disturbances
  /\ workload[x].exists
  /\ Outside(x, [exists |-> FALSE, replicas |-> 0, ready |-> FALSE, phase |-> ""])
  /\ owed' = [owed EXCEPT ![x] = 0]

CreateWorkload(x) ==
  /\ "workloads" \in Disturbances
  /\ ~workload[x].exists
  /\ \E n \in Counts[x] :
       Outside(x, [exists |-> TRUE, replicas |-> n, ready |-> FALSE, phase |-> ""])
  /\ UNCHANGED owed

\* A user's write to w: its resourceVersion changes under the cache and the job.
UserWrites(w, object) ==
  /\ wd' = [wd EXCEPT ![w] = object]
  /\ fresh' = [fresh EXCEPT ![w] = FALSE]
  /\ job' = IF job # Idle /\ job.wd = w THEN [job EXCEPT !.current = FALSE] ELSE job
  /\ UNCHANGED <<workload, workloadCache, wdCache, level, queue>> /\ UNCHANGED historyVars

TogglePause(w) ==
  /\ "pause" \in Disturbances
  /\ wd[w].exists
  /\ UserWrites(w, [wd[w] EXCEPT !.paused = ~@])

EditMode(w) ==
  /\ "mode" \in Disturbances
  /\ wd[w].exists
  /\ \E m \in Modes \ {wd[w].mode} : UserWrites(w, [wd[w] EXCEPT !.mode = m])

\* The API server keeps an object that has a finalizer.
DeleteWD(w) ==
  /\ "delete" \in Disturbances
  /\ wd[w].exists /\ ~wd[w].deleting
  /\ UserWrites(w, IF wd[w].finalizer THEN [wd[w] EXCEPT !.deleting = TRUE]
                                      ELSE [wd[w] EXCEPT !.exists = FALSE])

CreateWD(w) ==
  /\ "create" \in Disturbances
  /\ ~wd[w].exists
  /\ \E m \in Modes : wd' = [wd EXCEPT ![w] = NewWD(m)]
  /\ fresh' = [fresh EXCEPT ![w] = FALSE]
  /\ job' = IF job # Idle /\ job.wd = w THEN [job EXCEPT !.current = FALSE] ELSE job
  /\ lastOk' = [lastOk EXCEPT ![w] = 0]
  /\ released' = [released EXCEPT ![w] = FALSE]
  /\ UNCHANGED <<workload, workloadCache, wdCache, level, queue, owed>>

Environment ==
  \/ \E x \in Workloads : \/ ScaleWorkload(x) \/ PodsChange(x) \/ RolloutChange(x)
                          \/ DeleteWorkload(x) \/ CreateWorkload(x)
  \/ \E w \in WDs : TogglePause(w) \/ EditMode(w) \/ DeleteWD(w) \/ CreateWD(w)

Next ==
  \/ \E w \in WDs : Reconcile(w)
  \/ Write
  \/ SyncWDs
  \/ \E kind \in Kinds : SyncWorkloads(kind)
  \/ Tick
  \/ Restart
  \/ Environment

Spec == Init /\ [][Next]_vars

\* The informers and the writes are never blocked for good, time passes, and the
\* work queue is first come, first served: strong fairness, since w waits while
\* another reconcile is running.
Fairness ==
  /\ \A w \in WDs : SF_vars(Reconcile(w))
  /\ WF_vars(Write)
  /\ WF_vars(SyncWDs)
  /\ \A kind \in Kinds : WF_vars(SyncWorkloads(kind))
  /\ WF_vars(Tick)

FairSpec == Spec /\ Fairness
-----------------------------------------------------------------------------
(***************************************************************************)
(* Properties.                                                             *)
(***************************************************************************)

\* A reconcile of w takes the dependent of w to zero, or raises it.
Acts(w) == job = Idle /\ job' # Idle /\ job'.wd = w
Empties(w) ==
  /\ Acts(w)
  /\ workload[Dependent[w]].replicas > 0 /\ workload'[Dependent[w]].replicas = 0
Raises(w) ==
  Acts(w) /\ workload'[Dependent[w]].replicas > workload[Dependent[w]].replicas

\* w knows that it has to give x its replicas back, or is about to record it.
Remembers(w, x) ==
  /\ Dependent[w] = x
  /\ \/ /\ wd[w].exists
        /\ wd[w].status.phase = "Suspended"
        /\ Kind[x] = "CronJob" \/ wd[w].status.savedReplicas \notin {Nil, 0}
     \/ /\ job # Idle /\ job.wd = w /\ job.step = "status"
        /\ job.phase = "Suspended"
        /\ Kind[x] = "CronJob" \/ job.mem.savedReplicas \notin {Nil, 0}

\* Nobody's replicas are forgotten: while a workload is at the zero klink took it
\* to, some WorkloadDependency is Suspended with a count to restore, or the
\* reconcile that took the replicas is still writing it.  This is what the
\* finalizer, savedReplicas and the order of suspendWorkload and setStatus are for.
NeverForgotten == \A x \in Workloads : owed[x] > 0 => \E w \in WDs : Remembers(w, x)

\* What a user took to zero stays with the user, what klink took comes back whole:
\* when klink raises a workload that it emptied, it is to the count it took.
CountPreserved ==
  [][\A w \in WDs : Raises(w) /\ owed[Dependent[w]] > 0
                      => workload'[Dependent[w]].replicas = owed[Dependent[w]]]_vars

\* The window holds: unless w is already Suspended, its dependent is scaled down only
\* after a whole window in which the dependencies were not all ok, at no tick and at
\* no reconcile.
WindowHonoured ==
  [][\A w \in WDs : Empties(w) /\ wdCache[w].status.phase # "Suspended"
                      => lastOk[w] >= degradedWindow(w)]_vars

\* A WorkloadDependency that was released after maxSuspendDuration does not take
\* its dependent down again before its dependencies have been seen ok.
ReleasedHolds == [][\A w \in WDs : Empties(w) => ~released[w]]_vars

\* The clock of maxSuspendDuration runs exactly while the phase is Suspended.
SuspensionIsTimed ==
  \A w \in WDs : wd[w].status.phase = "Suspended" <=> wd[w].status.suspendedAt # Nil

\* Once w is gone from the API server no reconcile of w takes anything to zero,
\* however old the copy of w it works from.
GoneMeansHandsOff == [][\A w \in WDs : Empties(w) => wd[w].exists]_vars

\* Nothing is left to do: no write pending, the informers level, the queue empty.
Quiet == job = Idle /\ Synced /\ queue = {}

Enforcing(w) ==
  /\ wd[w].exists /\ ~wd[w].deleting /\ wd[w].finalizer /\ ~wd[w].paused
  /\ wd[w].mode \in {"strict", "soft"}
  /\ workload[Dependent[w]].exists

\* Between events the status is right and no deadline has been missed: the phase is
\* Healthy exactly when the dependencies are ok and no recovery window runs, and none
\* of the three windows is over.
SettledPhase ==
  Quiet => \A w \in WDs : Enforcing(w) =>
    LET s == wd[w].status
    IN  IF s.phase = "Suspended"
        THEN IF allOk(w)
             THEN s.healthySince # Nil /\ s.healthySince < recoveryWindow(w)
             ELSE MaxSuspend[w] > 0 => s.suspendedAt < MaxSuspend[w]
        ELSE IF allOk(w)
             THEN s.phase = "Healthy"
             ELSE \/ s.phase = "Released"
                  \/ /\ s.phase # "Healthy"
                     /\ s.degradedSince # Nil /\ s.degradedSince < degradedWindow(w)

\* Strict mode wins: between events the dependent of a strict WorkloadDependency
\* that is Suspended with a dependency that is not ok has no replicas, whatever
\* users set them to.
StrictEnforced ==
  Quiet => \A w \in WDs :
    Enforcing(w) /\ wd[w].mode = "strict" /\ wd[w].status.phase = "Suspended" /\ ~allOk(w)
      => workload[Dependent[w]].replicas = 0

\* Healthy and Released can be believed: between events the dependent of a
\* WorkloadDependency that says so is not at a zero that klink took it to.
HealthyMeansRunning ==
  Quiet => \A w \in WDs :
    Enforcing(w) /\ wd[w].status.phase \in {"Healthy", "Released"} => owed[Dependent[w]] = 0

\* Observe and gate modes never touch a workload, whatever else happens.
HandsOff == [][\A w \in WDs : Acts(w) => workload' = workload]_vars

\* One failure does not spread along mutual dependencies: klink takes a workload
\* to zero only if one of its dependencies is down for a reason of its own, and
\* not because klink took it down.
DownByItself(x) ==
  \/ ~workload[x].exists
  \/ owed[x] = 0 /\ (workload[x].replicas = 0 \/ ~workload[x].ready)
NoCascade == [][\A w \in WDs : Empties(w) => \E x \in Dependencies(w) : DownByItself(x)]_vars

\* The check before the finalizer works although the WorkloadDependencies are
\* created, checked and deleted concurrently: those that have been admitted never
\* form a cycle of three or more.
AdmittedEdges ==
  UNION {{Dependent[v]} \X Dependencies(v) :
           v \in {u \in WDs : wd[u].exists /\ wd[u].finalizer}}
AdmittedAcyclic ==
  \A w \in WDs : wd[w].exists /\ wd[w].finalizer
                   => ~HasCycle(AdmittedEdges, Dependent[w], Dependencies(w))

\* The finalizer does not block for ever.
DeletionCompletes == \A w \in WDs : wd[w].deleting ~> ~wd[w].exists

\* Nobody waits for ever: once the cluster is left alone, and no dependency is down
\* by itself, klink ends up Healthy with everything given back, although those that
\* need each other and are all Suspended see no dependency that serves.
RecoversInTheEnd ==
  (/\ <>[][~Environment]_vars
   /\ <>[](\A w \in WDs : Enforcing(w) /\ \A x \in Dependencies(w) : ~DownByItself(x)))
    => <>[](\A w \in WDs : wd[w].status.phase = "Healthy" /\ owed[Dependent[w]] = 0)

\* When a dependency stays down klink ends up Suspended, and the dependent at zero
\* again and again, however often users scale it up (strict mode).
SuspendsInTheEnd ==
  \A w \in WDs :
    <>[](Enforcing(w) /\ \E x \in Dependencies(w) : DownByItself(x))
      => /\ <>[](wd[w].status.phase = "Suspended")
         /\ []<>(workload[Dependent[w]].replicas = 0)

\* A count that restoreWorkload would restore.
Restorable(s) == s.savedReplicas \notin {Nil, 0}

\* w has, or is writing, the phase Suspended and a count to restore; what is about
\* to be overwritten does not count.
Holds(w) ==
  IF job # Idle /\ job.wd = w
  THEN job.step = "status" /\ job.phase = "Suspended" /\ Restorable(job.mem)
  ELSE wd[w].exists /\ wd[w].status.phase = "Suspended" /\ Restorable(wd[w].status)

\* The count that w holds, 0 if none.
Kept(w) ==
  IF ~Holds(w) THEN 0
  ELSE IF job # Idle /\ job.wd = w THEN job.mem.savedReplicas ELSE wd[w].status.savedReplicas

C == INSTANCE Custody WITH count  <- [x \in Workloads |-> workload[x].replicas],
                           kept   <- [w \in WDs |-> Kept(w)],
                           acting <- job # Idle

\* klink implements Custody: seen through the status and the pending write, every
\* reconcile takes all replicas and keeps their number, gives back the number it
\* keeps, or leaves both alone, and every write that follows puts on record what
\* the reconcile did.
ImplementsCustody == C!Spec
=============================================================================
