----------------------------- MODULE ChunkReader -----------------------------
(***************************************************************************)
(* The receiving half of SrsProtocol: recv_interlaced_message and the      *)
(* header and payload readers it calls (src/libs/protocol/rtmp.cpp), with  *)
(* the part of on_recv_message that changes how chunks are read.           *)
(*                                                                         *)
(* A chunk is read in up to four pieces, each behind one grow() of the     *)
(* receive buffer (FastStream.tla): basic header, message header, extended *)
(* timestamp, payload.  Each piece is a step here, because a read may fail *)
(* between any two of them.  What the bytes say is a parameter of the      *)
(* step: Spec below lets the peer send anything, and ChunkPeer.tla and     *)
(* ChunkLink.tla connect the steps to a sender.                            *)
(*                                                                         *)
(* skip(-4) gives back exactly one word of payload.                        *)
(***************************************************************************)
EXTENDS ChunkFormat

CONSTANTS
    Cids,             \* chunk stream ids in use
    ProtocolControl,  \* RTMP_CID_ProtocolControl, chunk stream 2
    Types,            \* message types in use
    StreamIds,        \* message stream ids, among them 0
    Words,            \* the payload words
    SizeIn,           \* the chunk size that a word carries: [Words -> Nat]
    Lengths,          \* message lengths, in words
    TimeBound,        \* bound: timestamps after which no call is retried
    MinChunkSize      \* SRS_CONSTS_RTMP_MIN_CHUNK_SIZE

ASSUME CidAssumption == ProtocolControl \in Cids
ASSUME TypeAssumption == SetChunkSize \in Types
ASSUME StreamAssumption == 0 \in StreamIds /\ 0 \notin Types
ASSUME WordAssumption == SizeIn \in [Words -> Nat]
ASSUME LengthAssumption == Lengths \subseteq Nat
ASSUME BoundAssumption == TimeBound \in Nat
ASSUME MinSizeAssumption == MinChunkSize \in Nat \ {0}

VARIABLES
    chunk,          \* cs_cache and chunk_streams: the state of each stream
    in_chunk_size,  \* how much payload a chunk of the peer carries at most
    rpc,            \* the piece recv_interlaced_message reads next
    cur,            \* its locals: fmt, cid, is_first_chunk_of_msg
    got,            \* the complete message recv_message is about to handle
    status          \* ok, or the error that recv_message returned

readerVars == <<chunk, in_chunk_size, rpc, cur, got, status>>

Formats == 0..3                                  \* RTMP_FMT_TYPE0 .. 3

(* SrsChunkStream::SrsChunkStream, its header included.                    *)
FreshChunk ==
    [msg |-> FALSE,     \* chunk->msg is not NULL
     body |-> << >>,    \* msg->payload, as far as received
     alloc |-> 0,       \* the size msg->payload was created with
     used |-> FALSE,    \* msg_count > 0
     ts |-> 0, delta |-> 0, ext |-> FALSE,
     len |-> 0, type |-> 0, sid |-> 0]

NoMessage == [cid |-> 0, type |-> 0, sid |-> 0, ts |-> 0, len |-> 0,
              body |-> << >>]

-----------------------------------------------------------------------------
(* SrsProtocol::SrsProtocol.                                               *)
ReaderInit ==
    /\ chunk = [c \in Cids |-> FreshChunk]
    /\ in_chunk_size = FirstChunkSize
    /\ rpc = "basic"
    /\ cur = [fmt |-> 0, cid |-> ProtocolControl, first |-> FALSE]
    /\ got = NoMessage
    /\ status = "ok"

(* What read_message_header refuses before it reads: a fresh stream that   *)
(* does not start with fmt 0, but for the ping of librtmp, and fmt 0 in    *)
(* the middle of a message.                                                *)

BadStart(f, c) ==
    \/ /\ ~chunk[c].used /\ f # 0
       /\ ~(c = ProtocolControl /\ f = 1)
    \/ chunk[c].msg /\ f = 0

(* With fmt 3 nothing is read, but the first chunk of a message repeats    *)
(* the previous timestamp delta.                                           *)
StaleFmt3(ch, first) == ch.ts     \* mutant: fmt 3 keeps the timestamp

TimestampFmt3(ch, first) ==
    IF first /\ ~ch.ext THEN ch.ts + ch.delta ELSE ch.ts

(* The end of read_message_header, when no extended timestamp is due.      *)
UnmaskedHeader(ch) == [ch EXCEPT !.used = TRUE]             \* mutant

HeaderDone(ch) == [ch EXCEPT !.ts = ch.ts % TMod, !.used = TRUE]

(* read_basic_header, then read_message_header up to its own grow(), or to *)
(* the end of the header if it has none to make.                           *)
ReadBasicHeader(f, c) ==
    LET first == ~chunk[c].msg
        opened == [chunk[c] EXCEPT !.msg = TRUE]
        repeated == [opened EXCEPT !.ts = TimestampFmt3(opened, first)]
    IN  /\ status = "ok" /\ rpc = "basic"
        /\ IF BadStart(f, c)
           THEN /\ status' = "chunk_start"        \* ERROR_RTMP_CHUNK_START
                /\ UNCHANGED <<chunk, rpc, cur>>
           ELSE /\ cur' = [fmt |-> f, cid |-> c, first |-> first]
                /\ \/ /\ f # 3
                      /\ rpc' = "header"
                      /\ chunk' = [chunk EXCEPT ![c] = opened]
                   \/ /\ f = 3 /\ opened.ext
                      /\ rpc' = "ext"
                      /\ chunk' = [chunk EXCEPT ![c] = repeated]
                   \/ /\ f = 3 /\ ~opened.ext
                      /\ rpc' = "payload"
                      /\ chunk' = [chunk EXCEPT ![c] = HeaderDone(repeated)]
                /\ UNCHANGED status
        /\ UNCHANGED <<in_chunk_size, got>>

(* The message header of fmt 0, 1 and 2; h.ts is its three byte field.     *)
AlwaysDelta(ch, h) ==             \* mutant: fmt 0 carries a delta as well
    IF h.ts >= Ext THEN ch.ts ELSE ch.ts + h.ts

TimestampOf(ch, h) ==
    CASE h.ts >= Ext -> ch.ts
      [] h.ts < Ext /\ cur.fmt = 0 -> h.ts
      [] OTHER -> ch.ts + h.ts

(* A continued chunk must not change the length of its message.            *)
AnyLength(h) == FALSE             \* mutant: the check is missing

ChangesLength(h) ==
    cur.fmt <= 1 /\ ~cur.first /\ chunk[cur.cid].len # h.len

ReadMessageHeader(h) ==
    LET c == cur.cid
        timed == [chunk[c] EXCEPT !.delta = h.ts, !.ext = h.ts >= Ext,
                                  !.ts = TimestampOf(chunk[c], h)]
        sized == IF cur.fmt <= 1
                 THEN [timed EXCEPT !.len = h.len, !.type = h.type,
                          !.sid = IF cur.fmt = 0 THEN h.sid ELSE timed.sid]
                 ELSE timed
    IN  /\ status = "ok" /\ rpc = "header"
        /\ IF ChangesLength(h)
           THEN /\ chunk' = [chunk EXCEPT ![c] = timed]
                /\ status' = "packet_size"        \* ERROR_RTMP_PACKET_SIZE
                /\ UNCHANGED rpc
           ELSE /\ IF sized.ext
                   THEN rpc' = "ext" /\ chunk' = [chunk EXCEPT ![c] = sized]
                   ELSE rpc' = "payload" /\
                        chunk' = [chunk EXCEPT ![c] = HeaderDone(sized)]
                /\ UNCHANGED status
        /\ UNCHANGED <<in_chunk_size, cur, got>>

(* In a continued chunk the word may be payload: it is one if it differs   *)
(* from the timestamp of the message, and is then given back (skip(-4)).   *)
IsNoTimestamp(t) ==
    /\ ~cur.first
    /\ chunk[cur.cid].ts > 0
    /\ chunk[cur.cid].ts # t % TMod

ReadExtended(t) ==
    LET c == cur.cid
        told == IF IsNoTimestamp(t) THEN chunk[c]
                                    ELSE [chunk[c] EXCEPT !.ts = t % TMod]
    IN  /\ status = "ok" /\ rpc = "ext"
        /\ chunk' = [chunk EXCEPT ![c] = HeaderDone(told)]
        /\ rpc' = "payload"
        /\ UNCHANGED <<in_chunk_size, cur, got, status>>

(* How many words of payload the current chunk carries.                    *)
WholeRest ==                      \* mutant: the chunk size is ignored
    chunk[cur.cid].len - Len(chunk[cur.cid].body)
FullChunk ==                      \* mutant: the last chunk is full as well
    IF chunk[cur.cid].len = 0 THEN 0 ELSE in_chunk_size

PayloadSize ==
    LET ch == chunk[cur.cid]
    IN  Least(ch.len - Len(ch.body), in_chunk_size)

(* A message leaves its chunk stream (chunk->msg = NULL).                  *)
Closed(ch) == [ch EXCEPT !.msg = FALSE, !.body = << >>, !.alloc = 0]

MessageOf(c, ch) ==
    [cid |-> c, type |-> ch.type, sid |-> ch.sid, ts |-> ch.ts,
     len |-> ch.len, body |-> ch.body]

(* The payload buffer is created for the whole message, then filled.       *)
Refilled(ch, w) == [ch EXCEPT !.body = w, !.alloc = ch.len]      \* mutant

Filled(ch, w) == [ch EXCEPT !.body = @ \o w, !.alloc = ch.len]

(* read_message_payload: w are the words read, << >> for an empty message. *)
ReadMessagePayload(w) ==
    LET c == cur.cid
        ch == chunk[c]
        filled == Filled(ch, w)
    IN  /\ status = "ok" /\ rpc = "payload"
        /\ Len(w) = PayloadSize
        /\ IF Len(filled.body) = ch.len
           THEN /\ got' = MessageOf(c, filled)
                /\ chunk' = [chunk EXCEPT ![c] = Closed(ch)]
                /\ rpc' = "dispatch"
           ELSE /\ chunk' = [chunk EXCEPT ![c] = filled]
                /\ rpc' = "basic"
                /\ UNCHANGED got
        /\ UNCHANGED <<in_chunk_size, cur, status>>

(* A grow() fails: timeout, reset, end of stream.  recv_message returns    *)
(* the error; what was consumed and what was created so far stays.  For    *)
(* the payload, the buffer of the message is created before it is read.    *)
ReadFails ==
    LET c == cur.cid
    IN  /\ status = "ok" /\ rpc # "dispatch"
        /\ rpc = "payload" => PayloadSize > 0
        /\ status' = "io"
        /\ chunk' = IF rpc = "payload"
                    THEN [chunk EXCEPT ![c].alloc = chunk[c].len]
                    ELSE chunk
        /\ UNCHANGED <<in_chunk_size, rpc, cur, got>>

(* recv_message drops empty messages; on_recv_message obeys SetChunkSize   *)
(* before the caller sees the message, and refuses too small a size.       *)
IsDropped(m) == m.len = 0

IsRefused(m) ==
    /\ ~IsDropped(m)
    /\ m.type = SetChunkSize /\ SizeIn[m.body[1]] < MinChunkSize
IsDelivered(m) == ~IsDropped(m) /\ ~IsRefused(m)

ChunkSizeAfter(m) ==
    IF IsDelivered(m) /\ m.type = SetChunkSize THEN SizeIn[m.body[1]]
                                               ELSE in_chunk_size

RecvMessage ==
    /\ status = "ok" /\ rpc = "dispatch"
    /\ rpc' = "basic"
    /\ got' = NoMessage
    /\ status' = IF IsRefused(got) THEN "chunk_size" ELSE "ok"
    /\ in_chunk_size' = ChunkSizeAfter(got)
    /\ UNCHANGED <<chunk, cur>>

(* The caller reads on after an error, as it may after a timeout.          *)
Retry ==
    /\ status # "ok"
    /\ status' = "ok"
    /\ rpc' = "basic"
    /\ UNCHANGED <<chunk, in_chunk_size, cur, got>>

-----------------------------------------------------------------------------
(* The reader on its own: the peer may send anything at all.               *)
Headers == [ts : 0..Ext, len : Lengths, type : Types, sid : StreamIds]

WordsOf(n) == [1..n -> Words]

ReaderNext ==
    \/ \E f \in Formats, c \in Cids : ReadBasicHeader(f, c)
    \/ \E h \in Headers : ReadMessageHeader(h)
    \/ \E t \in 0..(2 * TMod - 1) : ReadExtended(t)
    \/ rpc = "payload" /\ \E w \in WordsOf(PayloadSize) : ReadMessagePayload(w)
    \/ ReadFails
    \/ RecvMessage
    \/ chunk[cur.cid].ts <= TimeBound /\ Retry

ReaderSpec == ReaderInit /\ [][ReaderNext]_readerVars

-----------------------------------------------------------------------------
ChunkState ==
    [msg : BOOLEAN, body : Seq(Words), alloc : Nat, used : BOOLEAN,
     ts : Nat, delta : Nat, ext : BOOLEAN,
     len : Nat, type : Types \cup {0}, sid : StreamIds]

Messages ==
    [cid : Cids \cup {0}, type : Types \cup {0}, sid : StreamIds, ts : Nat,
     len : Nat, body : Seq(Words)]

ReaderTypeOK ==
    /\ chunk \in [Cids -> ChunkState]
    /\ in_chunk_size \in Nat \ {0}
    /\ rpc \in {"basic", "header", "ext", "payload", "dispatch"}
    /\ cur \in [fmt : Formats, cid : Cids, first : BOOLEAN]
    /\ got \in Messages
    /\ status \in {"ok", "io", "chunk_start", "packet_size", "chunk_size"}

(* memcpy in read_message_payload stays inside the payload buffer: what a  *)
(* message has received never exceeds its announced length, which is what  *)
(* the buffer was created with, even if a peer changes lengths, mixes      *)
(* chunk streams or chunk sizes, or the caller reads on after an error.    *)
PayloadFits ==
    \A c \in Cids :
        /\ Len(chunk[c].body) <= chunk[c].len
        /\ chunk[c].alloc # 0 => chunk[c].alloc = chunk[c].len
        /\ chunk[c].body # << >> => chunk[c].alloc # 0
        /\ chunk[c].msg \/ chunk[c].alloc = 0

(* A message handed to recv_message is complete and its timestamp is one   *)
(* of 31 bits.                                                             *)
WholeMessages ==
    rpc = "dispatch" => Len(got.body) = got.len /\ got.ts < TMod

(* No chunk is read with zero payload size but that of an empty message:   *)
(* grow(0) and a loop that never ends are excluded.                        *)
ChunksAdvance ==
    rpc = "payload" =>
        \/ chunk[cur.cid].len = 0
        \/ PayloadSize > 0

(* A chunk has neither more payload than its message lacks nor none.       *)
ChunksFit == PayloadFits /\ ChunksAdvance

(* A half received message is only ever extended or completed: no step     *)
(* shortens it, replaces what it holds or changes its length, whatever the *)
(* peer sends between its chunks.  Its type is not protected: a fmt 1      *)
(* chunk inside the message replaces it (read_message_header).             *)
PartialsGrow ==
    [][\A c \in Cids :
          chunk[c].body # << >> =>
            \/ ~chunk'[c].msg /\ got'.cid = c
            \/ /\ chunk'[c].len = chunk[c].len
               /\ SubSeq(chunk'[c].body, 1, Len(chunk[c].body))
                    = chunk[c].body]_readerVars
=============================================================================
