CONSTANTS
  Streams = {s1, s2}
  s1 = s1
  s2 = s2
  Threads = {t1, t2}
  t1 = t1
  t2 = t2
  Addrs = {a1}
  a1 = a1
  a2 = a2
  Events = {e1, e2, e3, e4}
  Ops <- ExternalOps
  MaxWork = 2
  Calls <- IssuerAndWaiter
  MaxCmds = 2
  MayFail = FALSE
  Null = Null
SPECIFICATION FairSpec
PROPERTIES
  EventuallyDone
  WaitReturns
