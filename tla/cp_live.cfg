SPECIFICATION FairSpec
CONSTANTS
  DataPlanes = {d1}
  Services = {s1}
  NoDataPlane = NoDataPlane
  NoService = NoService
  NoContainer = NoContainer
  Images = {"unset", "versioned"}
  CAStates = {"valid", "malformed"}
  HeldAtCreation = {FALSE}
  UserEnvs <- MCUserEnvs
  LaggingKinds = {}
  RemovableKinds = {"Deployment", "ClusterRoleBinding"}
  EditableKinds = {"ServiceAccount", "ClusterRole", "ClusterRoleBinding", "Secret", "Deployment"}
  MaxEdits = 2
  MaxFaults = 1
  MaxCreates = 2
PROPERTIES Converges GoesDormant DeletionCompletes
\* The system may come to rest: a resource that is gone leaves nothing to do.
CHECK_DEADLOCK FALSE
