SPECIFICATION FairSpec
CONSTANTS
  WDs <- One_WDs
  Workloads <- One_Workloads
  Dependent <- One_Dependent
  DependsOn <- One_DependsOn
  Name <- One_Name
  Kind <- Deployments
  Counts <- Single
  MaxSuspend <- Unlimited
  Modes = {"strict"}
  DefaultWindow = 1
  DefaultRecoveryWindow = 1
  Disturbances = {"pods", "delete", "create", "lag"}
  Nil = Nil
INVARIANTS SuspensionIsTimed StrictEnforced
PROPERTIES GoneMeansHandsOff DeletionCompletes SuspendsInTheEnd
