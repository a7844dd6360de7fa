------------------------------- MODULE MCGated --------------------------------
(***************************************************************************)
(* Values for the constants of GatedReconciler.                            *)
(***************************************************************************)
EXTENDS GatedReconciler

Entry(x) == [workload |-> x, window |-> 1, recoveryWindow |-> 1]
Unlimited == [w \in WDs |-> 0]

\* Two WorkloadDependencies with the same dependent and the same dependency, one
\* that enforces and one that gates.
Both_WDs == {"bar-needs-foo", "bar-gated-by-foo"}
Both_Workloads == {"foo", "bar"}
Both_Dependent == [w \in Both_WDs |-> "bar"]
Both_DependsOn == [w \in Both_WDs |-> <<Entry("foo")>>]
Both_Name == [foo |-> "default/foo", bar |-> "default/bar"]
Deployments == [x \in Workloads |-> "Deployment"]
Few == [foo |-> {1}, bar |-> {1, 2}]
Single == [foo |-> {1}, bar |-> {2}]

OneOfEach ==
  /\ Init
  /\ wd["bar-needs-foo"].mode \in {"strict", "soft"}
  /\ wd["bar-gated-by-foo"].mode = "gate"

BothSpec == OneOfEach /\ [][Next /\ Gate]_vars /\ GatedFairness
=============================================================================
