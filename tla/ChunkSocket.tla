----------------------------- MODULE ChunkSocket -----------------------------
(***************************************************************************)
(* The reader of ChunkReader.tla taking its pieces from a connection: each *)
(* step of the reader consumes the tokens it read.                         *)
(***************************************************************************)
EXTENDS ChunkReader, ChunkWire

CONSTANT
    WordAsTime       \* what a payload word reads as, taken for a timestamp

VARIABLE
    delivered        \* the messages recv_message returned

socketVars == <<readerVars, wire, delivered>>

SocketInit == ReaderInit /\ wire = << >> /\ delivered = << >>

NextIs(kind) == wire # << >> /\ Head(wire).kind = kind

TakesBasicHeader ==
    /\ NextIs("basic")
    /\ ReadBasicHeader(Head(wire).fmt, Head(wire).cid)
    /\ wire' = Tail(wire)
    /\ UNCHANGED delivered

TakesMessageHeader ==
    /\ NextIs("header")
    /\ ReadMessageHeader(Head(wire).header)
    /\ wire' = Tail(wire)
    /\ UNCHANGED delivered

TakesExtended ==
    /\ NextIs("ext") \/ NextIs("word")
    /\ LET t == IF NextIs("ext") THEN Head(wire).time ELSE WordAsTime
       IN  /\ ReadExtended(t)
           /\ wire' = IF IsNoTimestamp(t) THEN wire ELSE Tail(wire)
    /\ UNCHANGED delivered

TakesPayload ==
    /\ rpc = "payload"
    /\ LET n == PayloadSize
       IN  /\ n <= Len(wire)
           /\ \A i \in 1..n : wire[i].kind = "word"
           /\ ReadMessagePayload([i \in 1..n |-> wire[i].word])
           /\ wire' = SubSeq(wire, n + 1, Len(wire))
    /\ UNCHANGED delivered

Delivers ==
    /\ RecvMessage
    /\ delivered' = IF IsDelivered(got) THEN Append(delivered, got)
                                        ELSE delivered
    /\ UNCHANGED wire

Receives ==
    \/ TakesBasicHeader
    \/ TakesMessageHeader
    \/ TakesExtended
    \/ TakesPayload
    \/ Delivers

ReadBreaks == ReadFails /\ UNCHANGED <<wire, delivered>>

-----------------------------------------------------------------------------
(* Framing is never lost: as long as no call has failed, the reader takes  *)
(* no piece of a chunk for another piece.                                  *)
InStep ==
    status = "ok" =>
        /\ rpc = "basic" /\ wire # << >> => NextIs("basic")
        /\ rpc = "header" /\ wire # << >> => NextIs("header")
        /\ rpc = "ext" /\ wire # << >> => ~NextIs("basic") /\ ~NextIs("header")
        /\ rpc = "payload" =>
              \A i \in 1..Least(PayloadSize, Len(wire)) : wire[i].kind = "word"
=============================================================================
