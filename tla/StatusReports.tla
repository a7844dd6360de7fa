---------------------------- MODULE StatusReports -----------------------------
(***************************************************************************)
(* What the controller tells others of a WorkloadDependency: the condition *)
(* Ready of its status (setCondition), the gauge dependency_phase          *)
(* (recordPhase of metrics.go) and the notifications of phase changes      *)
(* (maybeNotify of notify.go).  All three are side effects of setStatus:   *)
(* the first is part of the object that it writes, the others follow a     *)
(* write that succeeded.  A reconcile that only waits reports nothing.     *)
(***************************************************************************)
EXTENDS Reconciler

VARIABLES
  condition,   \* condition[w]: the status of Ready in the API server, "" for none
  phaseGauge,  \* phaseGauge[w]: the phases whose gauge is 1
  announced    \* announced[w]: the phase of the last notification that was started

reportVars == <<condition, phaseGauge, announced>>

\* Phases that have a condition, and what it is.
ConditionOf == [Healthy   |-> "True",
                Degraded  |-> "False",
                Suspended |-> "False",
                Paused    |-> "Unknown",
                Unknown   |-> "Unknown"]

\* Mutant: a condition that is there is not replaced.
setCondition_Append(old, phase) ==
  IF old = "" /\ phase \in DOMAIN ConditionOf THEN ConditionOf[phase] ELSE old

\* A phase that has none leaves the condition as it was.
setCondition(old, phase) == IF phase \in DOMAIN ConditionOf THEN ConditionOf[phase] ELSE old

\* Mutant: the gauge of the old phase is not set back to 0.
recordPhase_NoReset(old, phase) ==
  old \cup ({phase} \cap {"Healthy", "Degraded", "Suspended", "Paused", "Unknown"})

\* All gauges are set: the one of the phase to 1, if there is one, the others to 0.
recordPhase(old, phase) ==
  {phase} \cap {"Healthy", "Degraded", "Suspended", "Paused", "Unknown"}

\* shouldNotify without onPhases.
shouldNotify(phase) == phase \in {"Suspended", "Healthy"}

\* Started when the phase differs from the one the reconcile read.
maybeNotify(old, prev, phase) == IF prev # phase /\ shouldNotify(phase) THEN phase ELSE old

\* What a status write that succeeded reports.
Report ==
  /\ condition' = [condition EXCEPT ![job.wd] = setCondition(@, job.phase)]
  /\ phaseGauge' = [phaseGauge EXCEPT ![job.wd] = recordPhase(@, job.phase)]
  /\ announced' = [announced EXCEPT ![job.wd] = maybeNotify(@, job.mem.phase, job.phase)]

\* An object that is created has no condition; a process that starts has no gauges.
Forget ==
  /\ condition' = [w \in WDs |-> IF wd'[w].exists /\ ~wd[w].exists THEN "" ELSE condition[w]]
  /\ phaseGauge' = IF Restart THEN [w \in WDs |-> {}] ELSE phaseGauge
  /\ UNCHANGED announced

ReportsInit ==
  /\ Init
  /\ condition = [w \in WDs |-> ""]
  /\ phaseGauge = [w \in WDs |-> {}]
  /\ announced = [w \in WDs |-> ""]

ReportsNext ==
  /\ Next
  /\ IF StatusUpdated THEN Report ELSE Forget

ReportsSpec == ReportsInit /\ [][ReportsNext]_<<vars, reportVars>>
-----------------------------------------------------------------------------
\* Ready can be believed: between events, Ready is True only if the dependencies are
\* ok and klink does not hold the dependent at zero, and it is False only if one is
\* not ok or the dependent waits for the recovery window.
ReadyIsTrue ==
  Quiet => \A w \in WDs : Enforcing(w) =>
    /\ condition[w] = "True"  => allOk(w) /\ owed[Dependent[w]] = 0
    /\ condition[w] = "False" => ~allOk(w) \/ wd[w].status.phase = "Suspended"

\* Whoever watches the metrics or the notifications is up to date: between events
\* the gauge that is 1 is that of the phase in the API server, and a phase that is
\* announced has been announced after the one before it.
ReportsCurrent ==
  Quiet => \A w \in WDs : Enforcing(w) =>
    /\ phaseGauge[w] = {wd[w].status.phase}
    /\ shouldNotify(wd[w].status.phase) => announced[w] = wd[w].status.phase
=============================================================================
