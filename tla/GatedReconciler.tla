--------------------------- MODULE GatedReconciler ----------------------------
(***************************************************************************)
(* The controller and the gate webhook (validate of internal/webhook/      *)
(* gate.go) together.  The API server asks the gate about every update of  *)
(* a workload, the users' and klink's own: a restore that the gate refuses *)
(* is an error for the reconcile, which has changed nothing and is         *)
(* retried.                                                                *)
(***************************************************************************)
EXTENDS Reconciler

CONSTANT
  Via  \* how users scale: "object" updates the workload, "scale" its subresource,
       \* as kubectl scale and an HPA do

ASSUME ViaAssumption == Via \subseteq {"object", "scale"}
-----------------------------------------------------------------------------
\* The objects that isDependencyHealthy gets for x: it takes a CronJob for a
\* Deployment.  An object that is not found is an error, and the loop goes on.
Looked(x) ==
  LET kind == IF Kind[x] = "CronJob" THEN "Deployment" ELSE Kind[x]
  IN  {y \in Workloads : Kind[y] = kind /\ Name[y] = Name[x] /\ workloadCache[y].exists}

\* Mutant: the replicas that are ready are not counted.
isDependencyHealthy_Desired(y) ==
  IF Kind[y] = "Rollout" THEN isHealthyAsDependency(y) ELSE workloadCache[y].replicas # 0

\* A workload that klink suspended is not healthy either.
isDependencyHealthy(y) ==
  IF Kind[y] = "Rollout" THEN isHealthyAsDependency(y)
                         ELSE workloadCache[y].replicas # 0 /\ workloadCache[y].ready

\* w makes validate deny a scale-up of its dependent.  Whether w is paused, or is
\* being deleted, is not asked.
Blocks(w) ==
  /\ wdCache[w].exists /\ wdCache[w].mode = "gate"
  /\ \E x \in Dependencies(w) : \E y \in Looked(x) : ~isDependencyHealthy(y)

\* The gate does not answer, or cannot list, and failurePolicy is Ignore.
Unanswered == Disturbances \cap {"error", "crash"} # {}

validate(x) == Unanswered \/ ~\E w \in WDs : Dependent[w] = x /\ Blocks(w)

\* The request is for the scale subresource: its kind is Scale, which is no kind of
\* a dependent, and the rules of the configuration do not have rollouts/scale.
BySubresource(x) ==
  "scale" \in Via /\ Kind[x] # "CronJob" /\ UNCHANGED <<queue, job>>

\* An update that gives x more replicas.  (CREATE is always allowed.)
ScaleUp(x) ==
  /\ workload[x].exists /\ workload'[x].exists
  /\ workload'[x].replicas > workload[x].replicas

\* The gate reads the informers' caches, as the controller does.
Gate == \A x \in Workloads : ScaleUp(x) => BySubresource(x) \/ (Readable /\ validate(x))

GatedSpec == Init /\ [][Next /\ Gate]_vars

\* A reconcile that was refused is retried until it is not.
GatedFairness ==
  /\ \A w \in WDs : SF_vars(Reconcile(w) /\ Gate)
  /\ WF_vars(Write)
  /\ WF_vars(SyncWDs)
  /\ \A kind \in Kinds : WF_vars(SyncWorkloads(kind))
  /\ WF_vars(Tick)
-----------------------------------------------------------------------------
\* The gate and the controller judge alike, each with code of its own: between
\* events a WorkloadDependency in gate mode says Healthy exactly when the gate lets
\* its dependent scale up, if its dependencies are there, none is a CronJob and
\* klink has suspended none.
GateAgrees ==
  Quiet => \A w \in WDs :
    /\ wd[w].exists /\ ~wd[w].deleting /\ wd[w].finalizer /\ ~wd[w].paused
    /\ wd[w].mode = "gate"
    /\ workload[Dependent[w]].exists
    /\ \A x \in Dependencies(w) :
         workload[x].exists /\ Kind[x] # "CronJob" /\ ~isSuspendedByKlink(x)
    => (wd[w].status.phase = "Healthy" <=> ~Blocks(w))

\* The gate delays a deletion and never blocks it for good: a WorkloadDependency
\* whose restore on deletion the gate refuses is gone in the end, once the cluster
\* is left alone with the gate open.  Until then it is NeverForgotten.
DeletionOutlastsGate ==
  <>[][~Environment]_vars /\ (\A w \in WDs : <>[]~Blocks(w))
    => <>[](\A w \in WDs : wd[w].deleting => ~wd[w].exists)

\* Nobody scales up past the gate, by whatever request.
GateHolds ==
  [][\A x \in Workloads, w \in WDs : Synced /\ Dependent[w] = x /\ Blocks(w) => ~ScaleUp(x)]_vars
=============================================================================
