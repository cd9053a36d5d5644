----------------------------- MODULE MCReceiving -----------------------------
(* What becomes of received bytes, layer by layer: the receive buffer, the    *)
(* reader of chunks, and the decoders of what was encoded. Each layer is      *)
(* driven on its own, by anything that may come, while the others rest. A     *)
(* small instance of each.                                                    *)
EXTENDS FastStream, ChunkReader, MCRecords

VARIABLE layer       \* the one that is driven

receivingVars == <<bufferVars, readerVars, recordVars, layer>>
ReceivingInit ==
    /\ BufferInit /\ ReaderInit /\ RecordsInit
    /\ \/ layer = "records"
       \/ layer \in {"buffer", "chunks"} /\ item = EofItem

Buffers == layer = "buffer" /\ BufferNext /\ UNCHANGED <<readerVars, recordVars, layer>>
Chunks == layer = "chunks" /\ ReaderNext /\ UNCHANGED <<bufferVars, recordVars, layer>>
Codes == layer = "records" /\ RecordsNext /\ UNCHANGED <<bufferVars, readerVars, layer>>
ReceivingNext == Buffers \/ Chunks \/ Codes

ReceivingSpec == ReceivingInit /\ [][ReceivingNext]_receivingVars

(* A word is the chunk size it would carry in a SetChunkSize message.         *)
MCSizeIn == [w \in Words |-> w]
=============================================================================
