SPECIFICATION BothSpec
CONSTANTS
  WDs <- Both_WDs
  Workloads <- Both_Workloads
  Dependent <- Both_Dependent
  DependsOn <- Both_DependsOn
  Name <- Both_Name
  Kind <- Deployments
  Counts <- Single
  MaxSuspend <- Unlimited
  Modes = {"strict", "gate"}
  DefaultWindow = 1
  DefaultRecoveryWindow = 1
  Disturbances = {"pods", "delete", "outage"}
  Via = {"object", "scale"}
  Nil = Nil
INVARIANTS NeverForgotten GateAgrees
PROPERTIES DeletionOutlastsGate ImplementsCustody
