SPECIFICATION GatedSpec
CONSTANTS
  WDs <- Both_WDs
  Workloads <- Both_Workloads
  Dependent <- Both_Dependent
  DependsOn <- Both_DependsOn
  Name <- Both_Name
  Kind <- Deployments
  Counts <- Few
  MaxSuspend <- Unlimited
  Modes = {"strict", "gate"}
  DefaultWindow = 1
  DefaultRecoveryWindow = 1
  Disturbances = {"pods"}
  Via = {"object", "scale"}
  Nil = Nil
PROPERTIES GateHolds
