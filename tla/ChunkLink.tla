------------------------------ MODULE ChunkLink ------------------------------
(***************************************************************************)
(* The writer of ChunkWriter.tla connected to the reader of                *)
(* ChunkReader.tla: two programs of this repository talk to each other, or *)
(* one direction of their connection.                                      *)
(***************************************************************************)
EXTENDS ChunkWriter, ChunkSocket

CONSTANT
    WireBound        \* bound: writev blocks while so many tokens are in flight

(* What either end sends the other knows: chunk streams, types and message *)
(* streams in use; media are no protocol messages; a packet that announces *)
(* a chunk size announces a permitted one, in its first word.              *)
ASSUME LinkAssumption ==
    /\ StreamId \in StreamIds /\ MaxSends \in Nat /\ WordAsTime \in Nat
    /\ \A x \in MsgPool \cup PktPool :
          x.cid \in Cids /\ x.type \in Types /\ x.sid \in StreamIds
    /\ \A x \in MsgPool : x.type # SetChunkSize
    /\ \A x \in PktPool : x.type = SetChunkSize =>
          /\ x.size >= MinChunkSize
          /\ \A i \in 1..MaxSends : SizeIn[<<i, 1, x.size>>] = x.size

vars == <<writerVars, readerVars, delivered>>

Init == WriterInit /\ SocketInit

readerSide == <<readerVars, delivered>>
writerSide == <<out_chunk_size, batch, off, headers, cache_index, iovs,
                nb_out_iovs, cur_iov, responses, wpc, wstatus, sends,
                handed, sent>>

Caller == (CallsSendMessages \/ CallsSendPacket \/ Queues)
              /\ UNCHANGED readerSide

Writes == Len(wire) < WireBound /\ Sends /\ UNCHANGED readerSide

WriterFails == WriteFails /\ UNCHANGED readerSide

Reads == Receives /\ UNCHANGED writerSide

ReaderFails == ReadBreaks /\ UNCHANGED writerSide

Next == Caller \/ Writes \/ WriterFails \/ Reads \/ ReaderFails

(* Both ends keep running, and the connection delivers.                    *)
Spec == Init /\ [][Next]_vars /\ WF_vars(Writes) /\ WF_vars(Reads)

-----------------------------------------------------------------------------
(* The reader never finds fault with what the writer wrote.                *)
NoFalseError == status \in {"ok", "io"}

(* Whenever the writer is between two calls and everything is read, both   *)
(* ends agree on the chunk size and no message is half received.           *)
AgreeWhenQuiet ==
    (/\ wpc = "idle" /\ wstatus = "ok"
     /\ wire = << >> /\ status = "ok" /\ rpc = "basic") =>
        /\ in_chunk_size = out_chunk_size
        /\ \A c \in Cids : ~chunk[c].msg

(* Two programs of this code understand each other: every token is taken   *)
(* for what it was written as, none is refused, and both ends agree when   *)
(* nothing is under way.                                                   *)
Understood == InStep /\ NoFalseError /\ AgreeWhenQuiet

(* Refinement: whatever is sent in batches, as packets or as responses     *)
(* arrives whole, unchanged, once and in order.                            *)
AllMessages ==
    {[Whole([cid |-> x.cid, type |-> x.type, sid |-> x.sid, ts |-> x.ts,
             len |-> x.len, size |-> x.size, id |-> i]) EXCEPT !.sid = s] :
        x \in MsgPool \cup PktPool, i \in 1..MaxSends, s \in StreamIds}

Channel == INSTANCE MessageChannel WITH
    Message <- AllMessages, sent <- sent, received <- delivered

ChannelSpec == Channel!Spec

(* What is handed to a send call reaches the receiving caller, unless one  *)
(* end gets an error from its socket.                                      *)
EveryMessageArrives ==
    \A n \in 1..MaxSends :
        Len(handed) >= n ~>
            Len(delivered) >= n \/ status # "ok" \/ wstatus # "ok"
=============================================================================
