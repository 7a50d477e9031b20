CONSTANTS
  Producers = {p1, p2}
  Main = p1
  Versions = {"sync", "counted", "blocking", "ring"}
  RingSize = 3
  MaxOps = 2
  MaxFailures = 2
  None = None
SPECIFICATION Spec
CHECK_DEADLOCK FALSE
INVARIANTS
  TypeOK
  InOrder
  NoSilentFailure
PROPERTIES
  CallsReturn
