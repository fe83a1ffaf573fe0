----------------------------- MODULE MCStorage -----------------------------
(***************************************************************************)
(* Small instances of the persistent volume: a few payload sectors per     *)
(* slot, a cache smaller than a slot, and a few generations.               *)
(***************************************************************************)
EXTENDS Storage

CONSTANT Data   \* one sector content besides Zero

MCPieces == {Zero, Data}
MCSeed == [k \in PayloadIndex |-> IF k = 1 THEN Data ELSE Zero]
=============================================================================
