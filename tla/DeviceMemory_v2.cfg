SPECIFICATION Spec
CONSTANTS
  PoolSize = 9
  SmallUnits = 1
  TightFit = 60
  MaxPadding = 4
  Threads = {t1}
  Fixers = {}
  ha = ha
  hb = hb
  hc = hc
  hd = hd
  he = he
  Handles <- MCHandles
  Size <- MCSize
  Stream <- MCStream
  Recipes <- MCLargerWorkspace
  InitialWorkspace = 1
  MaxCalls = 4
  None = None
CHECK_DEADLOCK FALSE
INVARIANTS NoRegression
