------------------------------ MODULE ChunkWire ------------------------------
(* One direction of a connection: the tokens written and not yet read.     *)
EXTENDS ChunkFormat

VARIABLE wire
=============================================================================
