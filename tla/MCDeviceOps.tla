----------------------------- MODULE MCDeviceOps -----------------------------
(***************************************************************************)
(* Instances of DeviceOps for TLC: one program thread, the compute stream  *)
(* and the DMA streams, two device addresses and pinned host buffers.      *)
(***************************************************************************)
EXTENDS DeviceOps

CONSTANTS compute, compute2, dma_h2d, dma_d2h, dma_d2d, x, y, h_in, h_out

\* In-place recipes on two compute streams, one signalling y from inside the
\* recipe, with copies in and out of the device.
RecipeAndCopyOps ==
  {RecipeLaunch(compute, {x}, {x}, Null),
   RecipeLaunch(compute2, {x, y}, {y}, y),
   CopyToDevice(dma_h2d, h_in, x),
   CopyToHost(dma_d2h, y, h_out)}

\* Copies out of x, to the host and to y, and an in-place recipe on x.
ReadBackOps ==
  {RecipeLaunch(compute, {x}, {x}, Null), CopyToHost(dma_d2h, x, h_out),
   CopyWithinDevice(dma_d2d, x, y)}

Program == [t \in Threads |-> {"op"}]
=============================================================================
