------------------------------ MODULE ChunkPeer ------------------------------
(***************************************************************************)
(* The reader of ChunkReader.tla connected to a peer that follows the RTMP *)
(* chunk format as the comments of read_message_header describe it: it     *)
(* interleaves messages of several chunk streams chunk by chunk, omits     *)
(* header fields that repeat (fmt 1, 2, 3), and changes its chunk size.    *)
(***************************************************************************)
EXTENDS ChunkSocket

CONSTANTS
    Pool,            \* what the peer may send: [cid, type, sid, ts, len, size]
    MaxMessages,     \* bound: how many messages the peer starts
    WireBound,       \* bound: the peer writes when fewer tokens are in flight
    ExtStyles        \* whether the peer repeats the extended timestamp in
                     \* fmt 3: Adobe's peers do, ffmpeg and librtmp do not

ASSUME PoolAssumption ==
    Pool \subseteq [cid : Cids, type : Types, sid : StreamIds, ts : Nat,
                    len : Nat, size : Nat]
ASSUME CountAssumption == MaxMessages \in Nat /\ WordAsTime \in Nat
ASSUME StyleAssumption == ExtStyles \subseteq BOOLEAN

(* A peer that follows the format announces a chunk size in a message that *)
(* has one, and none below the least; its first word tells the size.       *)
ASSUME AnnouncedAssumption ==
    \A x \in Pool : x.type = SetChunkSize =>
        /\ x.len > 0 /\ x.size >= MinChunkSize
        /\ \A i \in 1..MaxMessages : SizeIn[<<i, 1, x.size>>] = x.size

VARIABLES
    repeats_ext,     \* the style of this peer
    peer,            \* per chunk stream: what the peer sent and is sending
    peer_chunk_size, \* the peer's outgoing chunk size
    started,         \* how many messages the peer started
    completed        \* the messages the peer sent whole, by last chunk

vars == <<socketVars, repeats_ext, peer, peer_chunk_size, started, completed>>

Idle == [active |-> FALSE, cid |-> 0, type |-> 0, sid |-> 0, ts |-> 0,
         len |-> 0, size |-> 0, id |-> 0, off |-> 0, stamp |-> 0]

NeverSent == [sent |-> FALSE, ts |-> 0, delta |-> 0,
              len |-> 0, type |-> 0, sid |-> 0]

Init ==
    /\ SocketInit
    /\ repeats_ext \in ExtStyles
    /\ peer = [c \in Cids |-> [prev |-> NeverSent, now |-> Idle]]
    /\ peer_chunk_size = FirstChunkSize
    /\ started = 0
    /\ completed = << >>

-----------------------------------------------------------------------------
(* The peer.                                                               *)
(* The formats that may start message m after the previous one on its      *)
(* chunk stream: fields that repeat may be left out.  A delta that needs   *)
(* an extended timestamp is left out of the model: the reader would store  *)
(* it as the timestamp itself.                                             *)
DeltaOf(prev, m) == IF prev.sent THEN m.ts - prev.ts ELSE m.ts

StartFormats(m) ==
    LET prev == peer[m.cid].prev
        delta == DeltaOf(prev, m)
        fresh == ~prev.sent
        follows == ~fresh /\ m.ts >= prev.ts /\ m.sid = prev.sid
        short == delta < Ext
    IN  {0} \cup
        (IF fresh /\ m.cid = ProtocolControl /\ m.sid = 0 /\ delta < Ext
         THEN {1} ELSE {}) \cup
        (IF follows /\ short THEN {1} ELSE {}) \cup
        (IF follows /\ short /\ m.len = prev.len /\ m.type = prev.type
         THEN {2} ELSE {}) \cup
        (IF follows /\ m.len = prev.len /\ m.type = prev.type
            /\ delta = prev.delta /\ delta < Ext
         THEN {3} ELSE {})

(* One chunk of message m, behind the header tokens head.  The last chunk  *)
(* completes the message; a new chunk size takes effect then.              *)
SendChunk(m, head, prev) ==
    LET n == Least(m.len - m.off, peer_chunk_size)
        last == m.off + n = m.len
    IN  /\ Len(wire) < WireBound
        /\ wire' = wire \o head \o WordTokens(m, m.off, n)
        /\ peer' = [peer EXCEPT ![m.cid] =
                       [prev |-> prev,
                        now |-> IF last THEN Idle ELSE [m EXCEPT !.off = @ + n]]]
        /\ completed' = IF last /\ m.len > 0 THEN Append(completed, Whole(m))
                                             ELSE completed
        /\ peer_chunk_size' = IF last /\ m.type = SetChunkSize
                              THEN m.size ELSE peer_chunk_size
        /\ UNCHANGED <<readerVars, delivered, repeats_ext>>

ExtendedIf(long, stamp) == IF long THEN <<Extended(stamp)>> ELSE << >>

PeerStarts(x, f) ==
    LET stamp == IF f = 0 THEN x.ts ELSE DeltaOf(peer[x.cid].prev, x)
        long == stamp >= Ext
        m == [active |-> TRUE, cid |-> x.cid, type |-> x.type, sid |-> x.sid,
              ts |-> x.ts, len |-> x.len, size |-> x.size,
              id |-> started + 1, off |-> 0, stamp |-> stamp]
        prev == [sent |-> TRUE, ts |-> x.ts, delta |-> stamp,
                 len |-> x.len, type |-> x.type, sid |-> x.sid]
        h == [ts |-> Least(stamp, Ext), len |-> x.len, type |-> x.type,
              sid |-> x.sid]
    IN  /\ started < MaxMessages
        /\ ~peer[x.cid].now.active
        /\ f \in StartFormats(x)
        /\ SendChunk(m, <<Basic(f, x.cid)>>
                          \o (IF f = 3 THEN << >> ELSE <<Header(h)>>)
                          \o ExtendedIf(long, stamp), prev)
        /\ started' = started + 1

PeerContinues(c) ==
    LET m == peer[c].now
    IN  /\ m.active
        /\ SendChunk(m, <<Basic(3, c)>>
                          \o ExtendedIf(m.stamp >= Ext /\ repeats_ext, m.stamp),
                     peer[c].prev)
        /\ UNCHANGED started

-----------------------------------------------------------------------------
senderVars == <<repeats_ext, peer, peer_chunk_size, started, completed>>

Reads == Receives /\ UNCHANGED senderVars

SocketFails == ReadBreaks /\ UNCHANGED senderVars

Next ==
    \/ \E x \in Pool : \E f \in Formats : PeerStarts(x, f)
    \/ \E c \in Cids : PeerContinues(c)
    \/ Reads
    \/ SocketFails

(* The caller of recv_message keeps calling it, and the socket delivers.   *)
Spec == Init /\ [][Next]_vars /\ WF_vars(Reads)

-----------------------------------------------------------------------------
(* A peer that keeps to the format is never accused of breaking it.        *)
NoFalseError == status \in {"ok", "io"}

(* When all that was sent has been handled, both ends agree on the chunk   *)
(* size and on which messages are half received.                           *)
AgreeWhenDrained ==
    (status = "ok" /\ rpc = "basic" /\ wire = << >>) =>
        /\ in_chunk_size = peer_chunk_size
        /\ \A c \in Cids : /\ chunk[c].msg = peer[c].now.active
                           /\ Len(chunk[c].body) = peer[c].now.off

(* The reader takes every token for what the peer meant by it, finds fault *)
(* with none, and ends up with the same chunk size and the same messages.  *)
Understood == InStep /\ NoFalseError /\ AgreeWhenDrained

(* Refinement: whole messages, unchanged, exactly once and in the order in *)
(* which their last chunks were sent, whatever the interleaving.           *)
AllMessages ==
    {Whole([cid |-> x.cid, type |-> x.type, sid |-> x.sid, ts |-> x.ts,
            len |-> x.len, size |-> x.size, id |-> i]) :
        x \in Pool, i \in 1..MaxMessages}

Channel == INSTANCE MessageChannel WITH
    Message <- AllMessages, sent <- completed, received <- delivered

ChannelSpec == Channel!Spec

(* Every message the peer completes reaches the caller, unless the socket  *)
(* fails first.                                                            *)
EveryMessageArrives ==
    \A n \in 1..MaxMessages :
        Len(completed) >= n ~> Len(delivered) >= n \/ status # "ok"
=============================================================================
