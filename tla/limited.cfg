SPECIFICATION Spec
CONSTANTS
  WDs <- One_WDs
  Workloads <- One_Workloads
  Dependent <- One_Dependent
  DependsOn <- One_DependsOn
  Name <- One_Name
  Kind <- Deployments
  Counts <- Many
  MaxSuspend <- TwoTicks
  Modes = {"strict", "soft"}
  DefaultWindow = 1
  DefaultRecoveryWindow = 1
  Disturbances = {"pods", "delete", "create"}
  Nil = Nil
INVARIANTS SettledPhase HealthyMeansRunning
PROPERTIES WindowHonoured ReleasedHolds
