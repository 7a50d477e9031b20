CONSTANTS
  compute = compute
  compute2 = compute2
  dma_h2d = dma_h2d
  dma_d2h = dma_d2h
  dma_d2d = dma_d2d
  x = x
  y = y
  h_in = h_in
  h_out = h_out
  Streams = {compute, dma_d2h, dma_d2d}
  Threads = {t1}
  Addrs = {x, y, h_in, h_out}
  Events = {e1, e2, e3}
  Ops <- ReadBackOps
  MaxWork = 2
  Calls <- Program
  MaxCmds = 6
  MayFail = FALSE
  Null = Null
  ComputeStreams = {compute}
SPECIFICATION Spec
INVARIANTS
  WritesFollowReads
