------------------------------ MODULE MCReports -------------------------------
(***************************************************************************)
(* Values for the constants of StatusReports: a CronJob that needs a       *)
(* StatefulSet and a Deployment, with the default windows.                 *)
(***************************************************************************)
EXTENDS StatusReports

Report_WDs == {"bar-needs-both"}
Report_Workloads == {"foo", "baz", "bar"}
Report_Dependent == [w \in Report_WDs |-> "bar"]
Report_DependsOn ==
  [w \in Report_WDs |-> << [workload |-> "foo", window |-> 0, recoveryWindow |-> 0],
                           [workload |-> "baz", window |-> 0, recoveryWindow |-> 0] >>]
Report_Name == [foo |-> "default/foo", baz |-> "default/baz", bar |-> "default/bar"]
Report_Kind == [foo |-> "StatefulSet", baz |-> "Deployment", bar |-> "CronJob"]
Report_Counts == [x \in Report_Workloads |-> {1}]
Unlimited == [w \in WDs |-> 0]
=============================================================================
