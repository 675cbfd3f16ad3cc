SPECIFICATION Spec
CONSTANTS
  ObjectNames = {o1, o2}
  ObjectKinds = {"configMap", "secret"}
  Contents <- MCContents
  Modes = {"off", "postgres", ""}
  FieldValues = {"off", "postgres"}
  StdDecoding <- MCStdDecoding
  RawDecoding <- MCRawDecoding
  Missing = Missing
  Unset = Unset
  MaxEntries = 2
  MaxChanges = 1
  MaxFaults = 1
SYMMETRY MCSymmetry
INVARIANTS TypeOK DBLessWhenVisible DBLessAccepted ReviewInv
\* A behaviour is one review, and ends with it.
CHECK_DEADLOCK FALSE
