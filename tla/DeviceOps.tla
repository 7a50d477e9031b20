------------------------------ MODULE DeviceOps ------------------------------
(***************************************************************************)
(* The operations the bridge issues on device memory - a recipe launch and *)
(* the copies - as clients of the stream event manager: what each waits    *)
(* for, what it registers a producer for, and which stream it runs on      *)
(* (RecipeLauncher::Launch in backend/kernel/hpu_habana_cache.cpp, the     *)
(* copy functions of backend/synapse_helpers/device.cpp).                  *)
(*                                                                         *)
(* The streams run concurrently, so the order in which the program issued  *)
(* two conflicting operations holds on the device only through these waits *)
(* and registrations.  The threads of the instances below are one program  *)
(* thread: launched is the program order.                                  *)
(***************************************************************************)
EXTENDS StreamEventManager

CONSTANTS ComputeStreams    \* the streams recipes are launched on

ASSUME DeviceAssumption == ComputeStreams \subseteq Streams

\* Fault: only the outputs get a producer.
RegisterOutputs(s, in, out, ext) ==
  [s |-> s, wait |-> in, rd |-> in, wr |-> out, reg |-> out, ext |-> ext]

\* RecipeLauncher::Launch: the stream waits for the inputs; the outputs and
\* the inputs are registered (so that a later writer of an input waits).
RecipeLaunch(s, in, out, ext) ==
  [s |-> s, wait |-> in, rd |-> in, wr |-> out, reg |-> out \cup in,
   ext |-> ext]

\* Fault: the copy does not wait for the destination.
WaitForSource(s, host, dst) ==
  [s |-> s, wait |-> {host}, rd |-> {host}, wr |-> {dst}, reg |-> {dst},
   ext |-> Null]

\* copy_data_to_device from pinned host memory, on the DMA_H2D stream.
CopyToDevice(s, host, dst) ==
  [s |-> s, wait |-> {dst, host}, rd |-> {host}, wr |-> {dst}, reg |-> {dst},
   ext |-> Null]

\* copy_data_to_host to pinned host memory, on the DMA_D2H stream: only the
\* host destination gets a producer.
CopyToHost(s, src, host) ==
  [s |-> s, wait |-> {src}, rd |-> {src}, wr |-> {host}, reg |-> {host},
   ext |-> Null]

\* copy_data_within_device, on the DMA_D2D stream: waits for the source and
\* registers the destination.
CopyWithinDevice(s, src, dst) ==
  [s |-> s, wait |-> {src}, rd |-> {src}, wr |-> {dst}, reg |-> {dst},
   ext |-> Null]

-----------------------------------------------------------------------------
(* What the order of the operations rests on.                              *)

\* The addresses whose producer operation o becomes.
Produces(o) == o.reg \cup ({o.ext} \cap Addrs)

\* Operation p, issued after o, runs after what o does with a: it waits for
\* the producer of a, or runs on the stream of o.
RunsAfter(p, o, a) == a \in p.wait \/ p.s = o.s

\* One thread issues the operations, no launch throws, and an operation that
\* takes over an address runs after the one it takes it over from.
ProgramOrder ==
  /\ \A t, u \in Threads : t = u
  /\ ~MayFail
  /\ \A o, p \in Ops : \A a \in Produces(o) \cap Produces(p) : RunsAfter(p, o, a)

\* The operations register what they write, and run after the producers of
\* what they read or overwrite.
WritesCovered ==
  \A o, p \in Ops : \A a \in o.wr \cap (p.rd \cup p.wr) :
    a \in Produces(o) /\ RunsAfter(p, o, a)

\* Recipes register what they read, and those that overwrite it run after it.
RecipeReadsCovered ==
  \A o, p \in Ops : o.s \in ComputeStreams =>
    \A a \in o.rd \cap p.wr : a \in Produces(o) /\ RunsAfter(p, o, a)

-----------------------------------------------------------------------------
(* Properties *)

Issued == 1 .. Len(launched)

\* The device is done with address a as far as operation i uses it: i has
\* been executed, or has signalled its external tensor a.
Released(i, a) ==
  \/ i \in executed
  \/ /\ launched[i].ext = a
     /\ \E e \in fired : partial[e] /\ work[e] = i

\* Operation j runs after what operation i, issued before it, does with a.
Follows(j, i, a) == j \in executed => Released(i, a)

\* What an operation reads, or overwrites, has been written by every operation
\* issued before it that writes the same address, on whatever stream: the
\* chain of waits through events_by_addr_ survives displacement and completion.
ReadsAndWritesFollowWrites ==
  \A i, j \in Issued :
    i < j => \A a \in launched[i].wr \cap (launched[j].rd \cup launched[j].wr) :
               Follows(j, i, a)

\* A recipe registers a producer for its inputs too, so an operation that
\* writes one of them later runs after the recipe has read it.
WritesFollowRecipeReads ==
  \A i, j \in Issued :
    i < j /\ launched[i].s \in ComputeStreams =>
      \A a \in launched[i].rd \cap launched[j].wr : Follows(j, i, a)

\* An operation that writes an address runs after every operation issued
\* before it that reads the address ("Write after read dependancy").
WritesFollowReads ==
  \A i, j \in Issued :
    i < j => \A a \in launched[i].rd \cap launched[j].wr : Follows(j, i, a)
=============================================================================
