SPECIFICATION Spec
CONSTANTS
  WDs <- One_WDs
  Workloads <- One_Workloads
  Dependent <- One_Dependent
  DependsOn <- One_DependsOn
  Name <- One_Name
  Kind <- RolloutDependent
  Counts <- Single
  MaxSuspend <- Unlimited
  Modes = {"observe", "gate"}
  DefaultWindow = 1
  DefaultRecoveryWindow = 1
  Disturbances = {"pods", "crash", "pause", "mode"}
  Nil = Nil
PROPERTIES HandsOff
