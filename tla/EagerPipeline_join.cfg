CONSTANTS
  Producers = {p1, p2}
  Joiners = {p1}
  Capacity = 1
  MaxTasks = 1
  MaxJoins = 1
  MaxFailures = 2
  None = None
SPECIFICATION Spec
CHECK_DEADLOCK FALSE
INVARIANTS
  TypeOK
  JoinSound
  QueueBounded
PROPERTIES
  
  JoinReturns
