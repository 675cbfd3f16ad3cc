SPECIFICATION FairSpec
CONSTANTS
  DataPlanes = {d1}
  Services = {s1}
  NoDataPlane = NoDataPlane
  NoService = NoService
  NoContainer = NoContainer
  Images = {"versioned"}
  CAStates = {"valid"}
  HeldAtCreation = {FALSE}
  UserEnvs <- MCUserEnvs
  LaggingKinds = {}
  RemovableKinds = {}
  EditableKinds = {"ServiceAccount", "ClusterRole", "ClusterRoleBinding", "Secret", "Deployment"}
  MaxEdits = 2
  MaxFaults = 0
  MaxCreates = 2
PROPERTIES MissingDataPlaneReported
\* The system may come to rest: a resource that is gone leaves nothing to do.
CHECK_DEADLOCK FALSE
