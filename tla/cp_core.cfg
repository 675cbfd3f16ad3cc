SPECIFICATION Spec
CONSTANTS
  DataPlanes = {d1}
  Services = {s1}
  NoDataPlane = NoDataPlane
  NoService = NoService
  NoContainer = NoContainer
  Images = {"versioned"}
  CAStates = {"valid"}
  HeldAtCreation = {FALSE}
  UserEnvs <- MCUserEnvs
  LaggingKinds = {}
  RemovableKinds = {}
  EditableKinds = {"ServiceAccount", "ClusterRole", "ClusterRoleBinding", "Secret", "Deployment"}
  MaxEdits = 3
  MaxFaults = 1
  MaxCreates = 2
INVARIANTS TypeOK GuardedByFinalizer AtMostOne ReadyImpliesProvisioned ProvisionedComplete Inv Assembled
PROPERTIES BindingsGoFirst UserIntentPreserved ImplementsLifecycle ImplementsEnvironment DeploysConfigured AddressesFollowDataPlane
\* The system may come to rest: a resource that is gone leaves nothing to do.
CHECK_DEADLOCK FALSE
