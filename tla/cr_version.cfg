SPECIFICATION FairSpec
CONSTANTS
  Requests <- MCRequests
  MaxEdits = 0
  MaxFaults = 0
INVARIANTS AllNeededGranted
