SPECIFICATION FairSpec
CONSTANTS
  DataPlanes = {d1}
  Services = {s1}
  NoDataPlane = NoDataPlane
  NoService = NoService
  NoContainer = NoContainer
  Images = {"versioned"}
  CAStates = {"valid", "unusable"}
  HeldAtCreation = {TRUE, FALSE}
  UserEnvs <- MCUserEnvs
  LaggingKinds = {"ServiceAccount"}
  RemovableKinds = {}
  EditableKinds = {"ServiceAccount"}
  MaxEdits = 2
  MaxFaults = 0
  MaxCreates = 2
PROPERTIES DeletionCompletes
\* The system may come to rest: a resource that is gone leaves nothing to do.
CHECK_DEADLOCK FALSE
