----------------------------- MODULE MCReconciler -----------------------------
(***************************************************************************)
(* Values for the constants of Reconciler.                                 *)
(***************************************************************************)
EXTENDS Reconciler

Entry(x) == [workload |-> x, window |-> 1, recoveryWindow |-> 1]
Instantly(x) == [workload |-> x, window |-> 0, recoveryWindow |-> 0]
Unlimited == [w \in WDs |-> 0]
TwoTicks == [w \in WDs |-> 2]

\* One WorkloadDependency: bar needs foo.
One_WDs == {"bar-needs-foo"}
One_Workloads == {"foo", "bar"}
One_Dependent == [w \in One_WDs |-> "bar"]
One_DependsOn == [w \in One_WDs |-> <<Entry("foo")>>]
One_Name == [foo |-> "default/foo", bar |-> "default/bar"]
Deployments == [x \in Workloads |-> "Deployment"]
RolloutDependent == [foo |-> "Deployment", bar |-> "Rollout"]

\* The dependency's replicas never change, only the readiness of its pods.
Many == [foo |-> {1}, bar |-> {0, 1, 2}]
Few == [foo |-> {1}, bar |-> {1, 2}]
Single == [x \in Workloads |-> {1}]

\* Two that need each other, as in the tests of CoSuspended.
Mutual_WDs == {"bar-needs-foo", "foo-needs-bar"}
Mutual_Dependent == [w \in Mutual_WDs |-> IF w = "bar-needs-foo" THEN "bar" ELSE "foo"]
Mutual_DependsOn ==
  [w \in Mutual_WDs |-> IF w = "bar-needs-foo" THEN <<Entry("foo")>> ELSE <<Entry("bar")>>]

\* Three that would form a cycle: a needs b, b needs c, c needs a.  The windows
\* are shorter than a tick.
Cycle_WDs == {"a-needs-b", "b-needs-c", "c-needs-a"}
Cycle_Workloads == {"a", "b", "c"}
Cycle_Name == [a |-> "default/a", b |-> "default/b", c |-> "default/c"]
Cycle_Dependent ==
  [w \in Cycle_WDs |-> CASE w = "a-needs-b" -> "a" [] w = "b-needs-c" -> "b" [] OTHER -> "c"]
Cycle_DependsOn ==
  [w \in Cycle_WDs |-> CASE w = "a-needs-b" -> <<Instantly("b")>>
                         [] w = "b-needs-c" -> <<Instantly("c")>>
                         [] OTHER           -> <<Instantly("a")>>]
=============================================================================
