SPECIFICATION MCSpec
CONSTANTS
  TheDataPlane = d1
  NoDataPlane = NoDataPlane
  NoContainer = NoContainer
  Images = {"versioned"}
  CAStates = {"valid", "malformed"}
  HeldAtCreation = {FALSE}
  UserEnvs = {}
  LaggingKinds = {}
  RemovableKinds = {}
  EditableKinds = {}
  MaxEdits = 1
  MaxFaults = 1
  MaxCreates = 1
  ServicesLag = {FALSE}
  MaxServices = 3
  MaxServiceEdits = 1
  MaxServiceFaults = 0
PROPERTIES Connected ImplementsControlPlane
\* The system may come to rest: resources that are gone leave nothing to do.
CHECK_DEADLOCK FALSE
