SPECIFICATION ReportsSpec
CONSTANTS
  WDs <- Report_WDs
  Workloads <- Report_Workloads
  Dependent <- Report_Dependent
  DependsOn <- Report_DependsOn
  Name <- Report_Name
  Kind <- Report_Kind
  Counts <- Report_Counts
  MaxSuspend <- Unlimited
  Modes = {"strict", "soft"}
  DefaultWindow = 1
  DefaultRecoveryWindow = 1
  Disturbances = {"pods", "workloads", "outage"}
  Nil = Nil
INVARIANTS TypeOK NeverForgotten ReadyIsTrue ReportsCurrent
