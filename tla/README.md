# klink in TLA+

klink is a Kubernetes operator. A `WorkloadDependency` (a *WD* below) says that one
workload, the *dependent*, needs others, its *dependencies*. When a dependency has been
unhealthy for a window, klink scales the dependent to zero and remembers its replicas in
the status of the WD. When the dependencies have been healthy for a recovery window, it
gives the replicas back.

This directory holds models of the operator's controller and webhooks, what TLC checks
about them, and what TLAPS proves about them. Paths are relative to the root of the
repository, and `controller.go` stands for
`internal/controller/workloaddependency_controller.go`.

## The parts of the system

| Part | Code | Here |
|---|---|---|
| Reconciler: handlers, patches, status writes, finalizer, watches | `controller.go` | `Reconciler` |
| Workload accessors, Rollouts | `controller.go` 261-322, `rollout.go` | `Reconciler` (`Workload`, `Serves`, `isProgressing`) |
| Cycle detection | `internal/controller/cycles.go` | `CycleSearch` (the search), `DependencyGraph` (its verdict), `Reconciler!DetectCycle` |
| Status conditions | `controller.go` 748-804 | `StatusReports` |
| Metrics | `internal/controller/metrics.go` | `StatusReports`, partly: the gauge of the phase |
| Notifications | `internal/controller/notify.go` | `StatusReports`, partly: what is started |
| Gate webhook | `internal/webhook/gate.go` | `GatedReconciler` |
| Webhook TLS and server | `internal/webhook/tls.go`, `server.go` | `TLSRotation` |
| API types | `api/v1alpha1/workloaddependency_types.go` | `Reconciler` (`Status`, `WD`, `Phases`), partly |
| WD validator | `internal/webhook/wd_validator.go` | not modelled |
| Start-up, deep copies, chart, CRDs, RBAC | `cmd/main.go`, `zz_generated.deepcopy.go`, `charts/`, `config/` | not modelled |

The reconciler is the centre: it reads workloads and WDs from informer caches, patches
dependents and writes the status of WDs. The gate webhook sits between the API server and
everyone who scales a workload, the reconciler included. Conditions, metrics and
notifications follow from the status writes of the reconciler. TLS lets the API server
call the webhooks, and shares no other state with the rest.

`PROJECT.json` lists the hazards of this code with the properties that cover them.

## The modules

* `DependencyGraph`: reachability and cycles of three or more in a set of edges.
* `CycleSearch`: `DetectCycle` and `dfs`, call by call, on any graph.
* `Reconciler`: the controller and what it runs beside.
* `Custody`: what the controller promises of replicas, without caches, phases and windows.
* `GatedReconciler`: the controller and the gate webhook together.
* `StatusReports`: the controller with its condition, gauge and notifications.
* `TLSRotation`: the certificate of the webhooks.
* `MCReconciler`, `MCGated`, `MCReports`, `MCCycleSearch`, `MCTLS`: values for the
  constants; the `.cfg` files choose among them.
* `ReconcilerTypeProofs`: types and timestamps. `ReconcilerCacheProofs` extends it: what a
  stale cache may be trusted with, observers, and admission.
* `ReconcilerMemoryProofs` and `ReconcilerCustodyProofs`, on top of these: the replicas.
* `ReconcilerPhaseProofs`, on top of `ReconcilerCacheProofs`: the phases and the windows.
* `ReconcilerReportProofs`, on top of the phases and the replicas: the gate and the reports.
* `CycleSearchProofs`, `TLSProofs`: the search and the certificate.

### The reconciler: state

`workload` and `wd` are what the API server has, `workloadCache` and `wdCache` what the
informers have. `level[x]` and `fresh[w]` say that a cached copy has the current
resourceVersion. They are kept apart from the contents, since an object may change back
to what it was. `queue` is the work queue and `job` what the running reconcile has still
to write.

`owed`, `lastOk` and `released` are history. Only properties read them. `lastOk` is the time
since the dependencies were last all ok, at a tick or at a reconcile, whether that reconcile
looked at them or not.

A timestamp of the status is kept as its age in ticks, which stops growing at the one
value it is compared with (a window, or `maxSuspendDuration`). A CronJob has replicas 0
when it is suspended and 1 otherwise. `ready` abstracts `readyReplicas` against
`minReadyPercent`. `message`, events and logs are left out. In the code a
status write that changes only `message` also changes the resourceVersion; the extra
reconcile this causes finds nothing new.

### The reconciler: steps

A reconcile is one action for each way it ends (`Reconcile` lists the twenty). The action
reads the caches, decides, and patches the dependent if the handler does. Its status write
is a step of its own, because anything may come between the two calls. `setStatus` leaves
a `job`, and `StatusUpdated`, `StatusConflict`, `FinalizerRemoved` and `WriteFailed` are
the outcomes of its calls. The order is that of the code: patch first, status second.

* `Patch` is `client.MergeFrom`: it carries no resourceVersion, so it overwrites what
  others wrote, and it is empty when the cached copy already has the value.
* `applyFields` sets only what the handler set. What a handler cleared is cleared only if
  the write goes to the handler's own copy.
* A conflict reads the object again from the cache, at most three times.
* `AddFinalizer` and `RejectCycle` are the first admission.
* `SyncWDs` and `SyncWorkloads` deliver and queue (`findWDsForWorkload`).
* `Tick` lets time pass and stands for every `RequeueAfter`. A tick is longer than a
  reconcile and than the lag of an informer.
* `Restart` is a crash or a lost lease: memory is gone, and everything is listed and
  queued again.
* `ScaleWorkload` to `CreateWD` are users, autoscalers and the Kubernetes controllers.

There is one `job` at a time: `SetupWithManager` does not raise controller-runtime's
default of one worker.

`Disturbances` chooses what the environment may do beyond scaling workloads: `pods`,
`lag`, `crash`, `error`, `outage`, `pause`, `mode`, `delete`, `create`, `workloads`. Each
run states which of them its properties survive. This is a result as much as the
properties are.

### The gate

`GatedReconciler` adds to every step of `Reconciler` the condition `Gate`: a step that
gives a workload more replicas needs the consent of `validate`, unless it is a request for
the scale subresource. So the restores of klink itself are judged too. A reconcile that is
refused has changed nothing, returns an error and is retried, which is why a refusal is a
step that is not taken. `Via` says how users scale: by updating the workload or its `scale`
subresource, whose requests have the kind `Scale`. With `error` or `crash` the gate may
not answer, and `failurePolicy: Ignore` lets the request pass.

### The reports

`StatusReports` adds three variables. A status write that succeeds (`StatusUpdated`) sets
all of them in the same step, as `setStatus` does; every other step leaves them alone, but
for a new object, which has no condition, and a new process, which has no gauges.

### The certificate

`TLSRotation` has one step for each call of `EnsureCert` and `patchWebhookCABundle` to the
API server. The round is the program counter `pc` with the certificate in hand (`pem`), and
`current` stands for the resourceVersion of the Secret. `keyFits` says that the key in the
Secret belongs to its certificate, and `fits` the same of the pair in hand: nothing looks at
it until `tls.X509KeyPair` loads the pair (`SetHolder`, `LoadFails`). Any call may fail, any
write may be done and its reply lost, the process may stop anywhere, the Secret may be
deleted, emptied or given another key, and Helm may install, reset or remove a webhook
configuration at any time. `since`
and `clean` are history. `PatchCABundle` and `StartRotationLoop` of `tls.go` have no caller
and are left out.

### The search

`CycleSearch` keeps the call stack of `dfs` as two sequences, the nodes (`path`) and what
the loop of each call has still to look at (`left`). `visited` is the map that all the calls
for one dependency share. The loops take their elements in any order, because the order is
that of a `List` and of what users wrote. A key is kind, namespace and name; the field
indexes behind `findWDsForWorkload` and `isSuspendedByKlink` have no kind (`Name` in
`Reconciler`).

## What TLC checks

| Run | Properties | Instance | States |
|---|---|---|---|
| `calm` | `NeverForgotten`, `SettledPhase`, `HealthyMeansRunning`, `CountPreserved` | one WD; pods, delete, create, workloads, outage | 2,117,104 |
| `limited` | `SettledPhase`, `HealthyMeansRunning`, `WindowHonoured`, `ReleasedHolds` | `maxSuspendDuration`; pods, delete, create | 255,840 |
| `races` | `SuspensionIsTimed`, `StrictEnforced`, `GoneMeansHandsOff`, `DeletionCompletes`, `SuspendsInTheEnd` | fairness; strict mode; pods, delete, create, lag | 187,875 |
| `observers` | `HandsOff` | observe and gate on a Rollout; pods, crash, pause, mode | 377,040 |
| `mutual` | `NoCascade`, `RecoversInTheEnd` | fairness; two WDs that need each other; pods | 51,696 |
| `cycle` | `AdmittedAcyclic` | three WDs that would close a cycle; create, delete, lag | 1,352,331 |
| `reports` | `TypeOK`, `NeverForgotten`, `ReadyIsTrue`, `ReportsCurrent` | a CronJob with two dependencies; pods, workloads, outage | 575,168 |
| `gate` | `NeverForgotten`, `GateAgrees`, `DeletionOutlastsGate`, `ImplementsCustody` | fairness; one dependent, a WD that enforces and one that gates; pods, delete, outage | 126,639 |
| `search` | `TypeOK`, `ReportIsCycle`, `VerdictIsRight`, `Terminates` | fairness; the graphs of four workloads | 2,227,060 |
| `tls` | `TypeOK`, `RoundRepairs`, `ServesUnexpired`, `SecretFirst`, `TrustReturns` | fairness; five certificates, all faults | 1,362,048 |

The reconciler:

* `NeverForgotten`: while a workload is at the zero klink took it to, some WD is Suspended
  with a count to restore, or is just writing so. `reports` checks it for a CronJob, which
  has no count, and `gate` for a gate that refuses klink's own restores.
* `CountPreserved`: when klink raises a workload it emptied, it is to the count it took.
* `ImplementsCustody`: the reconciler implements `Custody`. A WD keeps (`Kept`) what its
  status says, or what the write on its way will make it say. It is checked in `gate`, where
  two WDs share a dependent of two replicas, and proved for all instances.
* `HealthyMeansRunning`: between events the dependent of a WD that says Healthy or Released
  is not at a zero klink took it to. In `limited` it says that the forced restore restores.
* `WindowHonoured`: a dependent is taken down only after a whole window in which its
  dependencies were not all ok, at no tick and at no reconcile. A recovery between two ticks
  that no reconcile falls into does not count, because an informer need not tell of it.
* `SettledPhase`: between events the phase is Healthy exactly when the dependencies are ok
  and no recovery window runs, and neither a window nor `maxSuspendDuration` is over.
* `ReleasedHolds`: after a forced restore there is no second suspension before the
  dependencies have been seen ok.
* `StrictEnforced`: between events a strict, Suspended dependent has no replicas, whatever
  users set.
* `SuspensionIsTimed`: `suspendedAt` is set exactly while the phase is Suspended.
* `GoneMeansHandsOff`: a stale copy of a WD that is gone takes nothing to zero.
* `HandsOff`: observe and gate touch no workload.
* `NoCascade`: klink's own suspension of a workload is never the only reason to suspend
  another.
* `AdmittedAcyclic`: concurrent creation does not get a cycle past the check. Each check
  needs a fresh copy of its own WD only, but whoever is admitted last has all others in
  its cache, because one informer delivers them in order. A check whose `List` fails admits
  the WD (`controller.go` 77), so the run has no `error`.
* `DeletionCompletes`, `RecoversInTheEnd`, `SuspendsInTheEnd`: what must happen does, once
  the cluster is left alone.

The gate and the reports:

* `GateAgrees`: between events a WD in gate mode says Healthy exactly when the gate lets its
  dependent scale up, although the two have code of their own for health. Excepted are a
  dependency that klink suspended itself, one that is missing and a CronJob: there the two
  differ by what they are written to look at.
* `DeletionOutlastsGate`: a deletion whose restore the gate refuses ends once the gate opens.
* `ReadyIsTrue`, `ReportsCurrent`: between events the condition, the gauge and the last
  notification say what the status and the cluster say: Ready is True only if the
  dependencies are ok and nothing is held back, and exactly the gauge of the phase is 1.

The search and the certificate:

* `TypeOK` of `CycleSearch`: no call is made for a node that is on the stack already, so the
  recursion is no deeper than there are workloads.
* `VerdictIsRight`, `ReportIsCycle`, `Terminates`: the verdict is that of `DependencyGraph`,
  the path reported is a cycle of three or more, and there is always a verdict.
* `RoundRepairs`: after one round without faults every installed configuration trusts what
  is served, whatever came before it, unless the key in the Secret does not fit.
* `ServesUnexpired`: only if no round reaches the server for the whole of
  `certRenewBefore` is an expired certificate served.
* `SecretFirst`: nothing is published or served that is not in the Secret.
* `TrustReturns`: once the faults stop, trust comes back and stays, through rotations. With
  a key that does not fit it comes back with the next renewal.

### Where the code does not do what it says

Two runs check one property, quoted from the repository in `PROJECT.json`, and TLC finds
it violated.

| Run | Property | What happens |
|---|---|---|
| `pause` | `HealthyMeansRunning` | Paused overwrites Suspended, and after the pause the dependent stays at zero under the phase Healthy |
| `gate_scale` | `GateHolds` | the gate compares the kind of the dependent with that of the request, which is `Scale` for `kubectl scale` and autoscalers, and lets them pass |

In the environment of `calm` `HealthyMeansRunning` holds. A pause is one of several ways to
lose it: it is also violated
with one of these in place of `"pause"` in `pause.cfg`:

* `"crash"`: a restart between the patch and the status write;
* `"lag"`: a reconcile from a copy older than the write of Suspended writes Healthy over it
  after its conflict;
* `"mode"`, with `"observe"` among the modes: observe overwrites Suspended with Healthy;
* nothing, with `RolloutDependent` as `Kind`: a canary overwrites Suspended with Degraded.

With `"crash"` or `"error"` added to `limited.cfg` the count is lost in the same way under
`maxSuspendDuration`, and the WD becomes Released with the dependent still at zero, although
klink "will restore the workload" (`workloaddependency_types.go` 72).

Other disagreements, which the passing runs are stated around:

* A relapse in the recovery window does not restart it: `handleSuspended` leaves
  `HealthySince` alone (`controller.go` 476, `workloaddependency_types.go` 44).
* `DegradedSince` is cleared only by a reconcile that finds the dependencies ok, evaluates
  them, and gets its status write through. It survives a recovery while the dependent is
  missing (Unknown), the WD paused or in another mode, or the operator away, and a write of
  Healthy that is lost. The next failure then finds its window already over
  (`workloaddependency_types.go` 40, `docs/api-reference.md` 68): `WindowHonoured` fails with
  any of `"workloads"`, `"pause"`, `"mode"`, `"outage"`, `"crash"`, `"error"` and `"lag"`
  added to `limited.cfg`.
* There is one window and one `DegradedSince` for all dependencies of a WD, the window of the
  first entry that sets one (`controller.go` 806), while each dependency is given a window of
  its own (`workloaddependency_types.go` 40 and 44, `docs/api-reference.md` 68-69). No
  property takes a side: where a run has two dependencies, their windows are the same.
* Deleting a Suspended WD leaves its CronJob suspended, because a CronJob has no
  `savedReplicas` (`controller.go` 230, `docs/api-reference.md` 161). `reports` has no
  `delete`.
* With `maxSuspendDuration`, strict mode does not re-enforce: `Reconcile` returns before
  `handleSuspended` (`controller.go` 214, `docs/concepts.md` 72). `races` has none.
* What a handler clears comes back when its write conflicts (`applyFields`, `controller.go`
  699). If an edit of the spec makes the write of Healthy conflict, `DegradedSince` stays
  too: `SettledPhase` fails with `"mode"` in `limited.cfg`.
* A canary overwrites Released too, and so does a dependent that is deleted and created
  again, so `ReleasedHolds` does not hold for Rollouts or with `"workloads"`.
* In soft mode the count a user set while Suspended is overwritten on recovery
  (`controller.go` 507, `docs/concepts.md` 73).
* A strict WD and a gating WD that need each other's dependents can stand off: the gate
  knows nothing of CoSuspended (`README.md` 23).
* `recordPhase` knows five phases. A Released (or Observed) WD has no gauge that is 1,
  although the gauge is 1 for the active phase (`metrics.go` 31 and 88, `README.md` 315):
  `ReportsCurrent` fails with `maxSuspendDuration` in `reports.cfg`.
* A reconcile that only waits reports nothing. After a restart the gauge stays behind until
  the next change of phase, so `ReportsCurrent` fails with `"crash"`. Ready stays True while
  Observed.
* `certNeedsRenewal` looks at the certificate and not at the key beside it. With a `tls.key`
  that does not fit, `EnsureCert` publishes the certificate and `X509KeyPair` fails, in every
  round until the renewal (`server.go` 72 and 135). `RoundRepairs` is stated without it.

Because of these, `NeverForgotten`, `CountPreserved`, `HealthyMeansRunning`,
`WindowHonoured` and `ImplementsCustody` are checked without lag, crash, error, pause and
mode, `WindowHonoured` also without outage and workloads, `SettledPhase` without lag, pause
and mode, and all of them for dependents that are not Rollouts. `ReportsCurrent` is checked
without `maxSuspendDuration`. `ImplementsCustody` also needs workloads that are not deleted, since a count is dropped with
the dependent. `NoCascade` needs level caches and no crash, and
`ReleasedHolds` workloads that are not deleted.

### Bounds

One WD and two workloads show everything that does not depend on how WDs interact. Two
WDs are needed for mutual dependencies and for a shared dependent, three for a cycle.
Windows are one tick, so that "not over" and "over" both occur; in `reports` the entries set
none, and the defaults count. `maxSuspendDuration`, where there is
one, is two ticks, which let a Suspended WD go through a whole recovery window first.
`Many` gives the dependent the counts 0, 1 and 2: zero by a user, and two counts to mix up.
`Few` and `Single` cut this down where counts do not matter much. In `cycle` WDs observe and
windows are 0, because only admission matters there. Attempts are bounded by the code's
`maxRetries`.

`search` has four workloads: the new dependent, a start, and two more, so that two branches
of a search can meet. One key stands for the new dependent, since keys are alike, and only
two may have an edge to themselves, since such an edge is treated alike at every other node
(`OneNew`). `tls` has five certificates, because four can be stored or served when one is
generated. A certificate lives three ticks and is renewed two before its end: there are ages
at which it is kept, renewed and expired. Ages stop at `certValidity`.

### Fairness

`FairSpec` of `Reconciler` assumes that the informers deliver, a write that can go on does,
time passes, and a queued WD is taken in the end. The last is strong fairness, for a WD
cannot be taken while another reconcile runs or, without lag, while an informer is behind;
the work queue is first come, first served. Users, pods and crashes are not fair.
`DeletionCompletes` holds with `lag` because conflicts need writes by others, and those end
once the informer has delivered them. In `GatedFairness` the reconcile is fair together with
the gate: one that was refused is retried with backoff, and passes when the gate is open
again and again.

`FairSpec` of `TLSRotation` assumes that the kubelet starts the process again, that calls
return, and that time passes. The last is strong fairness, since a process that fails at once
and is started again is ready for a tick only now and then, and time passes all the same.
`TrustReturns` is about behaviours in which the faults stop. In `CycleSearch`
the only assumption is that the program goes on.

## What TLAPS proves

About the reconciler, for any set of WDs and workloads, any topology (shared dependents
included), counts and windows, from `ConstantsAssumption` and `SpecAssumption`:

* `TypeCorrect`: `Spec => []TypeOK`.
* `SuspensionTimed`: `Spec => []SuspensionIsTimed`, under all disturbances. It is inductive
  with `TypeOK`: only `applyFields` writes the two fields, and `Tick` never unsets one.
* `GoneHandsOff`: `Spec => GoneMeansHandsOff`, under all disturbances. The invariant
  `CacheInv` has four parts: a fresh or level copy is a copy of the current object; a job
  that will succeed in removing a finalizer works on an object that the cache already shows
  as deleted; hence what the cache shows as admitted exists, with its finalizer, in the API
  server. This is where the finalizer earns its keep: without it a stale cache would act
  for an object that is gone.
* `ReplicasRemembered`: `Calm` implies `Spec => []NeverForgotten`. `Calm` excludes lag,
  crash, error, pause and mode, and asks for Deployments and StatefulSets as dependents,
  which is what the disagreements above show to be needed. `NeverForgotten` is not
  inductive. A status that still says Suspended while a job is about to overwrite it must
  not count as memory, so `Holds` looks at the job first. `CalmInv` adds that whoever holds
  a count has a finalizer and a mode that restores, and that its write succeeds at the
  second attempt at the latest, since only a deletion comes between. One lemma for each kind
  of step (nothing patched, taken down, given back) shows that a reconcile lets go only of a
  workload that has its replicas back.
* `KlinkIsACustodian`: `Undisturbed` (`Calm`, and nobody deletes workloads) implies
  `Spec => ImplementsCustody`. Each step of `Reconciler` is one of `Custody` or a stutter.
  The hard step is not the patch but the write after it: what the status holds once
  `applyFields` has merged the job into it must be what the reconcile meant to hold.
  `CustodyInv` says why: a status that is not Suspended keeps no old count to be merged in,
  and the only conflict a job can meet is a deletion, which ends with the object.
* `ObserversHandsOff`: if users choose only observe and gate, `Spec => HandsOff`, under all
  disturbances. `ObserverInv`: no object, copy or write on its way is ever Suspended.
* `NoCycleAdmitted`: without `error`, `Spec => []AdmittedAcyclic`, under all other
  disturbances. It is inductive with `AdmittedKnown` (the cache has every admitted WD,
  because the reconcile that admitted it read it there, and one informer delivers in order).
  The step that needs work is `AddFinalizer`: `DetectCycle` looked for cycles through the
  new WD only, and the invariant speaks of every WD. `TurnedRound` is the graph lemma behind
  it: a new cycle through an old WD uses a new edge, and turned round it is a cycle through
  the new WD. It rests on lemmas about `Reaches` (paths join, a path leaves its start for a
  last time, a path that avoids a node does without its edges).
* `FailuresStayLocal`: `Calm`, with no Rollout among the dependencies, implies
  `Spec => NoCascade`, from `CalmInv`: whoever is at a zero of klink's is held by a WD that
  is Suspended, which `isSuspendedByKlink` then finds.
* `CountsComeBack` and `HealthyHoldsNothing`: `Calm`, with one WD for each dependent
  (`Unshared`), implies `Spec => CountPreserved` and `Spec => []HealthyMeansRunning`.
  `CountInv` adds to `CalmInv` that the count on record, or on its way there, is the one
  that was taken. With a shared dependent the second WD would find the zero of the first and
  record no count, so the hypothesis is needed; the run `pause` shows the same of `Calm`.

About the phases, again for any number of WDs and any counts and windows. Between events
(`Quiet`) nothing is queued, no informer is behind and no reconcile runs. None of the
invariants that begin with `Quiet` is inductive. The proofs in `ReconcilerPhaseProofs` and
`ReconcilerReportProofs` share one strengthening: for each WD, either it is `Pending`
(queued, or an informer has yet to tell something that will queue it), or the running
reconcile has a write to do that makes a difference (`PhaseDiffers`, `StatusDiffers`), or
what the invariant says holds of the copies that the last reconcile read. `NextPending`
proves once, for every step that is not a reconcile of that WD, that this is kept: the
watches and the functions that map their events to WDs miss nothing, and whoever gives up
requeues. What is left for each invariant is a single reconcile. `Flat` says that no
dependency is itself the dependent of a WD; otherwise `allOk` also looks at the phases of
other WDs, for which the controller has no watch.

* `StrictModeWins`: `Flat` and no `maxSuspendDuration` imply `Spec => []StrictEnforced`,
  under all disturbances.
* `PhaseSettles`: `Steady` (no lag, pause or mode), `Flat` and no Rollout as a dependent imply
  `Spec => []SettledPhase`, with crashes, errors, deletion and creation. Here a write of the
  same phase with another clock matters, so the proof needs `LiveInv`: the write to an
  object that is still to be enforced does not conflict, at most one of the two clocks runs,
  and a Healthy WD has none.
* `WindowIsHonoured`: the hypotheses of `PhaseSettles`, and no crash, error, outage or
  workloads, imply `Spec => WindowHonoured`. `ClockInv`: the clock of the window, in the API
  server or on its way there, is never ahead of the time since the dependencies were last
  ok. A reconcile keeps it because it clears the clock where it finds them ok, a tick because
  of `SettledPhase`: where they are ok and nothing is left to do, no clock runs. What the
  hypotheses leave out is what makes the property fail, as listed above.
* `ReleaseLasts`: `Steady`, no Rollout as a dependent and nobody deleting workloads imply
  `Spec => ReleasedHolds`, with crashes and errors. `ReleaseInv`: whoever was released is
  Released, or still Suspended with `maxSuspendDuration` over, so that the next reconcile
  releases it again.
* `GateJudgesAlike`: `Flat`, and no two workloads of the same kind and name, imply
  `GatedSpec => []GateAgrees`, under all disturbances.
* `ReportsStayCurrent`: `Steady`, `Flat`, no Rollout as a dependent, no crash and no
  `maxSuspendDuration` imply
  `ReportsSpec => []ReportsCurrent`. `PhaseInv` relates the phase that is being written to
  the one that it replaces, `GaugeInv`, `AnnouncedInv` and `ConditionInv` relate what was
  reported to the phase, and `NoneReleased` rules out the phase that has no gauge. A crash is
  a real exception: a new process has no gauges, and a reconcile that only waits sets none.
  A failed write is none.
* `ReadyCanBeBelieved`: `Calm`, `Flat` and `Unshared` imply `ReportsSpec => []ReadyIsTrue`,
  from `PhaseSettles`, `HealthyHoldsNothing` and `ConditionInv`. Released has no condition
  of its own and keeps the False of Suspended. CronJobs as dependents are outside `Calm`;
  the run `reports` checks one.

About the search, for any set of keys and any graph:

* `TheReportIsACycle` and `TheVerdictIsRight`. A visited node whose call has returned has
  only visited neighbours, and one whose call is in progress has them as far as its loop has
  come (`DoneInv`). When the call for a start returns, the visited nodes are thus closed
  under the edges that do not leave the start, and the target is not among them
  (`NothingMissed`). Conversely the nodes on the stack are reached from one another
  (`ReachInv`). This is also why the start may be marked before its loop runs.
* `TheSearchIsShallow`: `Spec => []TypeOK`, whose one conjunct of interest is that the calls
  in progress are for different workloads.

About the certificate, for any validity, any renewal period and any set of faults, from
`TLSAssumption`:

* `OneRoundRepairs`, `NoExpiredCertificate`, `SavedBeforePublished`. Each needs to know what
  the round has in hand: that it is young enough (`AgeInv`), that the configurations the
  round has passed have it (`TrustInv`), and that the Secret has it (`SecretInv`). The key in
  the Secret fits exactly if the one in hand does, as long as nobody changes the Secret.
* `RotationTypes`: `Spec => []TypeOK`.

Only model-checked are the liveness properties (`DeletionCompletes`, `SuspendsInTheEnd`,
`RecoversInTheEnd`, `DeletionOutlastsGate`, `Terminates`, `TrustReturns`): fairness is out of
the prover's reach. Every invariant and action property of the passing runs has a theorem.
A CronJob as a dependent is outside `Calm`, so that `NeverForgotten` and `ReadyIsTrue` are
only checked for it, in `reports`.

## Not modelled

* The WD validator: a stateless check of one object. What it excludes shapes the constants
  of the runs (no CronJob as a dependency, no empty `dependsOn`, no negative duration).
* `minReadyPercent`: `int32(float64(ready) / float64(desired) * 100)` is floating point,
  which TLC does not have. Truncation only lowers the percentage, by one at most (29 of 100
  gives 28), so that an exact threshold may be missed and is never passed too early.
* The counters of `metrics.go` and `suspended_workloads`: they are written beside the state,
  have no bound, and nothing reads them. (`suspended_workloads` goes up with every strict
  re-enforcement and down once.)
* The sending of notifications: a goroutine with HTTP retries that changes nothing the
  operator reads. Notifications of later phases may arrive first. The filter `onPhases` only
  narrows which are started.
* Edits of `spec.dependent` and `spec.dependsOn`, and WDs of other namespaces: the cycle
  check looks at neither.
* `webhook/server.go` serves on the leader only while the Service selects every pod; with
  one replica, the chart's default, the two are the same.
* Start-up, chart, CRDs, RBAC and deep copies: wiring, configuration and generated code.
