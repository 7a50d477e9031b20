SPECIFICATION Spec
CONSTANTS
  PoolSize = 9
  SmallUnits = 1
  TightFit = 60
  MaxPadding = 4
  Threads = {t1, t2}
  Fixers = {t2}
  ha = ha
  hb = hb
  hc = hc
  hd = hd
  he = he
  Handles <- MCHandles
  Size <- MCSize
  Stream <- MCStream
  Recipes <- MCRecipes
  InitialWorkspace = 1
  MaxCalls = 4
  None = None
CHECK_DEADLOCK FALSE
INVARIANTS TypeOK PoolSound TableMatchesPool DataIntact AddressesCurrent WorkspaceReserved 
PROPERTIES  DefragmentationDelivers
