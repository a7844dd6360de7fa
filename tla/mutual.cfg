SPECIFICATION FairSpec
CONSTANTS
  WDs <- Mutual_WDs
  Workloads <- One_Workloads
  Dependent <- Mutual_Dependent
  DependsOn <- Mutual_DependsOn
  Name <- One_Name
  Kind <- Deployments
  Counts <- Single
  MaxSuspend <- Unlimited
  Modes = {"strict"}
  DefaultWindow = 1
  DefaultRecoveryWindow = 1
  Disturbances = {"pods"}
  Nil = Nil
PROPERTIES NoCascade RecoversInTheEnd
