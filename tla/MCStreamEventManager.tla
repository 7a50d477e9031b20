------------------------ MODULE MCStreamEventManager ------------------------
(***************************************************************************)
(* Instances of StreamEventManager for TLC.                                *)
(***************************************************************************)
EXTENDS StreamEventManager, TLC

CONSTANTS s1, s2, a1, a2, t1, t2

Op(s, wait, reg, ext) ==
  [s |-> s, wait |-> wait, rd |-> wait, wr |-> reg, reg |-> reg, ext |-> ext]

\* A recipe on s1 with an external output, and an operation on s2 that reads
\* its output and takes over its address.
ExternalOps ==
  {Op(s1, {}, {a1}, a1), Op(s2, {a1}, {a1}, Null)}

\* Two streams that produce the same address.
PlainOps ==
  {Op(s1, {a1}, {a1}, Null), Op(s2, {a1}, {a1}, Null)}

\* Two threads that issue operations.
TwoIssuers == [t \in Threads |-> {"op"}]

\* One thread issues operations while the other makes every other call.
IssuerAndCaller ==
  [t \in Threads |-> IF t = t1 THEN {"op"} ELSE CallKinds \ {"op"}]

\* One thread issues operations, the other waits for addresses.
IssuerAndWaiter ==
  [t \in Threads |-> IF t = t1 THEN {"op"} ELSE {"wait_until_done"}]

Symmetry == Permutations(Threads)
=============================================================================
