--------------------------- MODULE MCDeviceMemory ---------------------------
(***************************************************************************)
(* Instances of DeviceMemory: a tensor in the corner for small ones, four  *)
(* outside of it, and what the threads launch.                             *)
(***************************************************************************)
EXTENDS DeviceMemory, TLC

CONSTANTS ha, hb, hc, hd, he

MCHandles == {ha, hb, hc, hd, he}
MCSize    == ha :> 1 @@ hb :> 2 @@ hc :> 1 @@ hd :> 2 @@ he :> 3
MCStream  == [h \in MCHandles |-> IF h = hc THEN 1 ELSE 0]
MCRecipes == {<<<<ha, hb, hc, hd>>, 1>>, <<<<hd, he>>, 1>>, <<<<ha>>, 4>>}

\* A workspace for which there is not enough memory is asked for, too.
MCLargerWorkspace == MCRecipes \cup {<<<<ha>>, 5>>}
=============================================================================
