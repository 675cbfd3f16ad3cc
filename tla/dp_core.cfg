SPECIFICATION ResyncSpec
CONSTANTS
  ServicesLag = {TRUE, FALSE}
  MaxEdits = 3
  MaxFaults = 1
  MaxCreates = 3
INVARIANTS TypeOK AtMostOneService StatusNamesService Inv
PROPERTIES Exposed NothingLeft
\* The system may come to rest: a resource that is gone leaves nothing to do.
CHECK_DEADLOCK FALSE
