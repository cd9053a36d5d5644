----------------------------- MODULE MCChunkPeer -----------------------------
(* Small instances of ChunkPeer.                                           *)
EXTENDS ChunkPeer

(* A word names its message, its place in it and, for SetChunkSize, the    *)
(* size it announces.                                                      *)
MCWords == (1..MaxMessages) \X (1..3) \X (0..3)
MCSizeIn == [w \in MCWords |-> w[3]]

AV == 9     \* the message type of a video
CS == 1     \* the message type of SetChunkSize

M(c, type, sid, ts, len, size) ==
    [cid |-> c, type |-> type, sid |-> sid, ts |-> ts, len |-> len,
     size |-> size]

(* Chunk streams interleave, the chunk size changes in between, an empty    *)
(* message is dropped, and timestamps are on both sides of the extended    *)
(* limit 4 and of 2^31, here 8.                                            *)
MCPool ==
    {M(2, CS, 0, 0, 1, 2), M(3, AV, 1, 1, 3, 0), M(3, AV, 1, 2, 3, 0),
     M(3, AV, 1, 7, 2, 0), M(3, AV, 1, 9, 2, 0),
     M(4, AV, 1, 1, 2, 0), M(4, AV, 1, 1, 0, 0)}

(* A timestamp of exactly 2^31, which is 0 in 31 bits.                     *)
MCZeroPool == {M(3, AV, 1, 8, 2, 0), M(3, AV, 1, 1, 2, 0)}
=============================================================================
