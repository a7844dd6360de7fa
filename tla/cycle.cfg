SPECIFICATION Spec
CONSTANTS
  WDs <- Cycle_WDs
  Workloads <- Cycle_Workloads
  Dependent <- Cycle_Dependent
  DependsOn <- Cycle_DependsOn
  Name <- Cycle_Name
  Kind <- Deployments
  Counts <- Single
  MaxSuspend <- Unlimited
  Modes = {"observe"}
  DefaultWindow = 0
  DefaultRecoveryWindow = 0
  Disturbances = {"create", "delete", "lag"}
  Nil = Nil
INVARIANTS AdmittedAcyclic
