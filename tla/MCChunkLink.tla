----------------------------- MODULE MCChunkLink -----------------------------
(* Small instances of ChunkLink.                                           *)
EXTENDS ChunkLink

MCWords == (1..MaxSends) \X (1..3) \X (0..2)
MCSizeIn == [w \in MCWords |-> w[3]]

AV == 9     \* the message type of a video
CS == 1     \* the message type of SetChunkSize

M(c, type, sid, ts, len, size) ==
    [cid |-> c, type |-> type, sid |-> sid, ts |-> ts, len |-> len,
     size |-> size]

(* Media with timestamps on both sides of the extended limit 4 and of 2^31, *)
(* here 8; an empty message.                                               *)
MCMsgPool ==
    {M(6, AV, 1, 1, 0, 0), M(6, AV, 0, 3, 2, 0), M(6, AV, 1, 5, 2, 0),
     M(6, AV, 1, 11, 3, 0)}

MCPktPool == {M(2, CS, 0, 0, 1, 2), M(3, AV, 0, 0, 2, 0)}
=============================================================================
