SPECIFICATION Spec
CONSTANTS
  ObjectNames = {o1, o2}
  ObjectKinds = {"configMap"}
  Contents <- MCIncomplete
  Modes = {"off"}
  FieldValues = {}
  StdDecoding <- MCStdDecoding
  RawDecoding <- MCRawDecoding
  Missing = Missing
  Unset = Unset
  MaxEntries = 2
  MaxChanges = 0
  MaxFaults = 0
INVARIANTS DBLessOnly
\* A behaviour is one review, and ends with it.
CHECK_DEADLOCK FALSE
