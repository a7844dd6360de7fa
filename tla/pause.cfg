SPECIFICATION Spec
CONSTANTS
  WDs <- One_WDs
  Workloads <- One_Workloads
  Dependent <- One_Dependent
  DependsOn <- One_DependsOn
  Name <- One_Name
  Kind <- Deployments
  Counts <- Many
  MaxSuspend <- Unlimited
  Modes = {"strict", "soft"}
  DefaultWindow = 1
  DefaultRecoveryWindow = 1
  Disturbances = {"pods", "pause"}
  Nil = Nil
INVARIANTS HealthyMeansRunning
