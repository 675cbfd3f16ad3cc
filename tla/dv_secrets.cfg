SPECIFICATION Spec
CONSTANTS
  ObjectNames = {o1}
  ObjectKinds = {"secret"}
  Contents = {"off", "cassandra"}
  Modes = {"off"}
  FieldValues = {}
  StdDecoding <- MCStdDecoding
  RawDecoding <- MCRawDecoding
  Missing = Missing
  Unset = Unset
  MaxEntries = 1
  MaxChanges = 0
  MaxFaults = 0
INVARIANTS DBLessOnly
\* A behaviour is one review, and ends with it.
CHECK_DEADLOCK FALSE
