----------------------------- MODULE ChunkFormat -----------------------------
(***************************************************************************)
(* What both ends of the RTMP chunk layer share (constants of rtmp.hpp)    *)
(* and the tokens a connection carries.  Payload is counted in words of    *)
(* four bytes, the size of an extended timestamp.                          *)
(***************************************************************************)
EXTENDS Naturals, Sequences

CONSTANTS
    SetChunkSize,     \* RTMP_MSG_SetChunkSize
    Ext,              \* RTMP_EXTENDED_TIMESTAMP, 0xFFFFFF
    TMod,             \* 2^31: timestamps are masked with 0x7fffffff
    FirstChunkSize    \* SRS_CONSTS_RTMP_PROTOCOL_CHUNK_SIZE

ASSUME TimeAssumption == Ext \in Nat /\ TMod \in Nat \ {0}
ASSUME ChunkSizeAssumption == FirstChunkSize \in Nat \ {0}

Least(a, b) == IF a < b THEN a ELSE b

(* A chunk is a basic header, a message header unless its fmt is 3, an     *)
(* extended timestamp if one is due, and words of payload.                 *)
Basic(f, c) == [kind |-> "basic", fmt |-> f, cid |-> c]
Header(h)   == [kind |-> "header", header |-> h]
Extended(t) == [kind |-> "ext", time |-> t]
Word(w)     == [kind |-> "word", word |-> w]

(* The i-th word of message m: it names the message, its place in it and   *)
(* the chunk size that m announces if it is a SetChunkSize.                *)
WordAt(m, i) == <<m.id, i, m.size>>

WordTokens(m, from, n) == [i \in 1..n |-> Word(WordAt(m, from + i))]

(* Message m as recv_message should return it.                             *)
Whole(m) ==
    [cid |-> m.cid, type |-> m.type, sid |-> m.sid, ts |-> m.ts % TMod,
     len |-> m.len, body |-> [i \in 1..m.len |-> WordAt(m, i)]]
=============================================================================
