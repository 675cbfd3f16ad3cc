SPECIFICATION FairSpec
CONSTANTS
  Requests <- MCRequests
  MaxEdits = 3
  MaxFaults = 1
INVARIANTS TypeOK OnlySupportedDeployed NeededGranted
PROPERTIES Provisioned
