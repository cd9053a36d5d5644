----------------------------- MODULE ChunkWriter -----------------------------
(***************************************************************************)
(* The sending half of SrsProtocol (src/libs/protocol/rtmp.cpp):           *)
(* send_and_free_messages and send_and_free_packet with everything they    *)
(* call.                                                                   *)
(*                                                                         *)
(* do_send_messages writes a batch.  It gathers an iovec for the header    *)
(* and one for the payload of every chunk; the headers live in one buffer, *)
(* out_c0c3_caches, and the iovecs point into it until they are written.   *)
(* do_simple_send writes a packet chunk by chunk from a header on the      *)
(* stack.  A step is one chunk gathered or one call of writev.             *)
(***************************************************************************)
EXTENDS ChunkWire, SequencesExt, Selection

CONSTANTS
    C0Size, C3Size,  \* bytes of a fmt 0 and a fmt 3 header
    ExtSize,         \* bytes of an extended timestamp
    MaxFmt0,         \* SRS_CONSTS_RTMP_MAX_FMT0_HEADER_SIZE
    MaxFmt3,         \* SRS_CONSTS_RTMP_MAX_FMT3_HEADER_SIZE
    CacheMax,        \* SRS_CONSTS_C0C3_HEADERS_MAX
    IovsMax,         \* SRS_CONSTS_IOVS_MAX
    IovLimit,        \* sysconf(_SC_IOV_MAX)
    MsgPool,         \* media messages to send: [cid, type, sid, ts, len, size]
    PktPool,         \* packets to send, the same
    StreamId,        \* the stream id that send_and_free_messages is given
    MaxBatch,        \* bound: messages of a batch
    MaxQueued,       \* bound: responses waiting in the manual queue
    MaxSends,        \* bound: messages and packets handed over
    ShortWrites      \* writev may write a part and return success

ASSUME HeaderAssumption ==
    /\ C0Size \in Nat \ {0} /\ C3Size \in Nat \ {0} /\ ExtSize \in Nat
    /\ MaxFmt0 = C0Size + ExtSize /\ MaxFmt3 = C3Size + ExtSize
    /\ MaxFmt3 <= MaxFmt0
ASSUME CacheAssumption == CacheMax \in Nat /\ CacheMax >= MaxFmt0
ASSUME IovAssumption ==           \* SRS_PERF_MW_MSGS pairs
    /\ IovsMax \in Nat
    /\ \E pairs \in 1..IovsMax : IovsMax = 2 * pairs
    /\ IovLimit \in Nat \ {0}
ASSUME BatchAssumption == MaxBatch \in Nat
ASSUME PoolAssumption ==
    /\ StreamId \in Nat
    /\ MsgPool \cup PktPool \subseteq
           [cid : Nat, type : Nat, sid : Nat, ts : Nat, len : Nat, size : Nat]
    /\ \A x \in PktPool : /\ x.len > 0
                          /\ x.type = SetChunkSize => x.size > 0

VARIABLES
    out_chunk_size,  \* how much payload a chunk carries at most
    batch,           \* what the current call has still to put into chunks
    off,             \* of its first message, the words already in chunks
    headers,         \* out_c0c3_caches: what each byte is part of
    cache_index,     \* c0c3_cache_index
    iovs,            \* out_iovs, up to iov_index
    nb_out_iovs,     \* how many iovecs are allocated
    cur_iov,         \* how many of them have been written
    responses,       \* manual_response_queue
    wpc,             \* what the current call does next
    wstatus,         \* ok, or failed: a call returned an error
    sends,           \* how many messages and packets were handed over
    handed,          \* the messages that are to be written, in order
    sent             \* the messages written completely

writerVars == <<out_chunk_size, batch, off, headers, cache_index, iovs,
                nb_out_iovs, cur_iov, responses, wpc, wstatus, sends,
                handed, sent, wire>>

(* Messages with the id that tells them apart, those that are packets, and *)
(* what an iovec points to: the header or the payload of a chunk.          *)
Sendable == [cid : Nat, type : Nat, sid : Nat, ts : Nat, len : Nat,
             size : Nat, id : Nat]
Packets == {x \in Sendable : x.len > 0 /\ (x.type = SetChunkSize => x.size > 0)}
Iovec == [header : BOOLEAN, base : Nat, len : Nat, msg : Sendable, from : Nat]

Unused == << >>                   \* a byte that was never written

WriterInit ==
    /\ wire = << >>
    /\ out_chunk_size = FirstChunkSize
    /\ batch = << >> /\ off = 0
    /\ headers = [i \in 0..(CacheMax - 1) |-> Unused]
    /\ cache_index = 0
    /\ iovs = << >> /\ nb_out_iovs = IovsMax /\ cur_iov = 0
    /\ responses = << >>
    /\ wpc = "idle" /\ wstatus = "ok"
    /\ sends = 0 /\ handed = << >> /\ sent = << >>

-----------------------------------------------------------------------------
(* srs_chunk_header_c0 and srs_chunk_header_c3: the tokens of the header of *)
(* the next chunk of m, and the bytes they take.                           *)
IsLong(m) == m.ts >= Ext

ChunkHeader(m, first) ==
    (IF first THEN <<Basic(0, m.cid),
                     Header([ts |-> Least(m.ts, Ext), len |-> m.len,
                             type |-> m.type, sid |-> m.sid])>>
              ELSE <<Basic(3, m.cid)>>)
    \o (IF IsLong(m) THEN <<Extended(m.ts)>> ELSE << >>)

HeaderSize(m, first) ==
    (IF first THEN C0Size ELSE C3Size) + (IF IsLong(m) THEN ExtSize ELSE 0)

(* The payload of the next chunk.                                          *)
ChunkPayload(m, o) == Least(out_chunk_size, m.len - o)

(* send_and_free_messages gives the messages the stream id, up to the first *)
(* that has it already.                                                    *)
OnStream(ms) ==
    LET same == {i \in DOMAIN ms : ms[i].sid = StreamId}
    IN  [i \in DOMAIN ms |->
            IF \E j \in same : j <= i THEN ms[i]
                                      ELSE [ms[i] EXCEPT !.sid = StreamId]]

(* do_send_messages skips empty messages, whose turn comes in SkipEmpty.   *)
NotEmpty(m) == m.len > 0
NonEmpty == {m \in Sendable : NotEmpty(m)}

Wholes(ms) == [i \in DOMAIN ms |-> Whole(ms[i])]

SendMessages(ms) ==
    /\ wpc = "idle"
    /\ batch' = OnStream(ms)
    /\ handed' = handed \o Wholes(Among(batch', NonEmpty))
    /\ off' = 0
    /\ iovs' = << >> /\ cur_iov' = 0 /\ cache_index' = 0
    /\ wpc' = "gather"
    /\ UNCHANGED <<out_chunk_size, headers, nb_out_iovs, responses, wstatus,
                   sent, wire>>

(* The cache is dry when it may not hold another header.                   *)

IsDry == CacheMax - cache_index' < MaxFmt0

(* The iovecs grow when the next pair would not fit.                       *)

GrownIovs ==
    IF Len(iovs) >= nb_out_iovs - 2 THEN nb_out_iovs + IovsMax ELSE nb_out_iovs

Fits ==
    CacheMax - cache_index >= IF off = 0 THEN MaxFmt0 ELSE MaxFmt3

(* One chunk: its header into the cache, its header and payload as iovecs. *)
(* Where srs_assert(nbh > 0) fails there is no step (see CacheSuffices).   *)
GatherChunk ==
    LET m == Head(batch)
        nbh == HeaderSize(m, off = 0)
        n == ChunkPayload(m, off)
        last == off + n = m.len
    IN  /\ wpc = "gather" /\ batch # << >> /\ NotEmpty(m) /\ Fits
        /\ headers' = [i \in DOMAIN headers |->
                IF i \in cache_index..(cache_index + nbh - 1)
                THEN <<m, off, i - cache_index>> ELSE headers[i]]
        /\ iovs' = iovs \o
                <<[header |-> TRUE, base |-> cache_index, len |-> nbh,
                   msg |-> m, from |-> off],
                  [header |-> FALSE, base |-> off, len |-> n,
                   msg |-> m, from |-> off]>>
        /\ nb_out_iovs' = GrownIovs
        /\ cache_index' = cache_index + nbh
        /\ batch' = IF last THEN Tail(batch) ELSE batch
        /\ off' = IF last THEN 0 ELSE off + n
        /\ wpc' = IF IsDry THEN "write" ELSE "gather"
        /\ UNCHANGED <<handed, out_chunk_size, cur_iov, responses, wstatus,
                       sends, sent, wire>>

SkipEmpty ==
    /\ wpc = "gather" /\ batch # << >> /\ ~NotEmpty(Head(batch))
    /\ batch' = Tail(batch)
    /\ UNCHANGED <<handed, out_chunk_size, off, headers, cache_index, iovs,
                   nb_out_iovs, cur_iov, responses, wpc, wstatus, sends,
                   sent, wire>>

(* "Maybe the iovs already sendout when c0c3 cache dry."                   *)
Gathered ==
    /\ wpc = "gather" /\ batch = << >>
    /\ wpc' = IF iovs = << >> THEN "flush" ELSE "write"
    /\ UNCHANGED <<handed, out_chunk_size, batch, off, headers, cache_index,
                   iovs, nb_out_iovs, cur_iov, responses, wstatus, sends,
                   sent, wire>>

(* What an iovec points to when it is written: for a header, whatever its  *)
(* bytes in the cache hold by then.                                        *)
HeaderIntact(v) ==
    \A i \in 0..(v.len - 1) : headers[v.base + i] = <<v.msg, v.from, i>>

Garbage == <<[kind |-> "garbage"]>>

Pointed(v) ==
    IF ~v.header THEN WordTokens(v.msg, v.from, v.len)
    ELSE IF HeaderIntact(v) THEN ChunkHeader(v.msg, v.from = 0) ELSE Garbage

Pointeds(vs) == FlattenSeq([i \in DOMAIN vs |-> Pointed(vs[i])])

(* What writev puts on the wire: everything.  With a send timeout a        *)
(* blocking writev may return a short count, and srs_hijack_io_writev then *)
(* reports success: nobody looks at nwrite, and the rest is lost.          *)
Accepted(tokens) ==
    {tokens} \cup
    (IF ShortWrites THEN {SubSeq(tokens, 1, k) : k \in 1..(Len(tokens) - 1)}
                    ELSE {})

(* The messages whose last words are among these iovecs.                   *)
LastOfMessage(v) == ~v.header /\ v.from + v.len = v.msg.len
LastIovs == {v \in Iovec : LastOfMessage(v)}
MessagesEnding(vs) ==
    LET ending == Among(vs, LastIovs)
    IN  Wholes([i \in DOMAIN ending |-> ending[i].msg])

(* srs_write_large_iovs: one writev, or several of at most IovLimit.       *)
WriteCount ==
    IF Len(iovs) < IovLimit THEN Len(iovs)
                            ELSE Least(IovLimit, Len(iovs) - cur_iov)

RestartsWrites ==                 \* mutant: every writev starts at iovs
    SubSeq(iovs, 1, WriteCount)

WrittenIovs == SubSeq(iovs, cur_iov + 1, cur_iov + WriteCount)

(* Afterwards the caches start over, with the iovecs all written.          *)
KeepsIovs ==                      \* mutant: iov_index is not reset
    /\ cur_iov' = 0 /\ cache_index' = 0
    /\ UNCHANGED iovs

ResetCaches ==
    /\ iovs' = << >> /\ cur_iov' = 0
    /\ cache_index' = 0

WriteIovs ==
    /\ wpc = "write"
    /\ \E tokens \in Accepted(Pointeds(WrittenIovs)) : wire' = wire \o tokens
    /\ sent' = sent \o MessagesEnding(WrittenIovs)
    /\ IF cur_iov + WriteCount < Len(iovs)
       THEN /\ cur_iov' = cur_iov + WriteCount
            /\ UNCHANGED <<iovs, cache_index, wpc>>
       ELSE /\ ResetCaches
            /\ wpc' = IF batch = << >> THEN "flush" ELSE "gather"
    /\ UNCHANGED <<handed, out_chunk_size, batch, off, headers, nb_out_iovs,
                   responses, wstatus, sends>>

-----------------------------------------------------------------------------
(* do_simple_send: one packet, from the caller or as a response.           *)
SendPacket(x) ==
    /\ wpc = "idle"
    /\ batch' = <<x>> /\ off' = 0
    /\ handed' = Append(handed, Whole(x))
    /\ wpc' = "packet"
    /\ UNCHANGED <<out_chunk_size, headers, cache_index, iovs, nb_out_iovs,
                   cur_iov, responses, wstatus, sent, wire>>

(* on_send_packet, once the packet is written.                             *)
ForgetsChunkSize(m) == out_chunk_size                       \* mutant

ChunkSizeSent(m) == IF m.type = SetChunkSize THEN m.size ELSE out_chunk_size

WritePacketChunk ==
    LET m == Head(batch)
        n == ChunkPayload(m, off)
        last == off + n = m.len
    IN  /\ wpc = "packet"
        /\ \E tokens \in Accepted(ChunkHeader(m, off = 0)
                                     \o WordTokens(m, off, n)) :
              wire' = wire \o tokens
        /\ sent' = IF last THEN Append(sent, Whole(m)) ELSE sent
        /\ off' = IF last THEN 0 ELSE off + n
        /\ batch' = IF last THEN << >> ELSE batch
        /\ out_chunk_size' = IF last THEN ChunkSizeSent(m) ELSE out_chunk_size
        /\ wpc' = IF last THEN "flush" ELSE "packet"
        /\ UNCHANGED <<handed, headers, cache_index, iovs, nb_out_iovs,
                       cur_iov, responses, wstatus, sends>>

(* writev fails: the call returns the error.  What was gathered stays in   *)
(* the caches, which the next call would reuse; waiting responses stay.    *)
WriteFails ==
    /\ wpc \in {"write", "packet"}
    /\ wstatus' = "failed" /\ wpc' = "idle" /\ batch' = << >> /\ off' = 0
    /\ UNCHANGED <<handed, out_chunk_size, headers, cache_index, iovs,
                   nb_out_iovs, cur_iov, responses, sends, sent, wire>>

(* manual_response_flush, at the end of every successful send.             *)
Erased == Tail(responses)

FlushNext ==
    /\ wpc = "flush" /\ responses # << >>
    /\ batch' = <<Head(responses)>> /\ off' = 0
    /\ handed' = Append(handed, Whole(Head(responses)))
    /\ responses' = Erased
    /\ wpc' = "packet"
    /\ UNCHANGED <<out_chunk_size, headers, cache_index, iovs, nb_out_iovs,
                   cur_iov, wstatus, sends, sent, wire>>

Flushed ==
    /\ wpc = "flush" /\ responses = << >>
    /\ wpc' = "idle"
    /\ UNCHANGED <<handed, out_chunk_size, batch, off, headers, cache_index,
                   iovs, nb_out_iovs, cur_iov, responses, wstatus, sends,
                   sent, wire>>

(* A message was received that is to be answered by the next send.         *)
QueueResponse(x) ==
    /\ wpc = "idle" /\ Len(responses) < MaxQueued
    /\ responses' = Append(responses, x)
    /\ UNCHANGED <<handed, out_chunk_size, batch, off, headers, cache_index,
                   iovs, nb_out_iovs, cur_iov, wpc, wstatus, sent, wire>>

-----------------------------------------------------------------------------
(* The caller, which stops after an error.  n more messages are handed     *)
(* over and get the next ids.                                              *)
Handed(n) == sends + n <= MaxSends /\ sends' = sends + n

Numbered(xs) ==
    [i \in DOMAIN xs |->
        [cid |-> xs[i].cid, type |-> xs[i].type, sid |-> xs[i].sid,
         ts |-> xs[i].ts, len |-> xs[i].len, size |-> xs[i].size,
         id |-> sends + i]]

CallsSendMessages ==
    /\ wstatus = "ok"
    /\ \E n \in 1..MaxBatch : \E xs \in [1..n -> MsgPool] :
          SendMessages(Numbered(xs)) /\ Handed(n)

CallsSendPacket ==
    /\ wstatus = "ok"
    /\ \E x \in PktPool : SendPacket(Numbered(<<x>>)[1]) /\ Handed(1)

Queues == \E x \in PktPool : QueueResponse(Numbered(<<x>>)[1]) /\ Handed(1)

Sends ==
    \/ GatherChunk \/ SkipEmpty \/ Gathered
    \/ WriteIovs \/ WritePacketChunk
    \/ FlushNext \/ Flushed

WriterNext ==
    \/ CallsSendMessages \/ CallsSendPacket \/ Queues
    \/ Sends
    \/ WriteFails

WriterSpec == WriterInit /\ [][WriterNext]_writerVars

-----------------------------------------------------------------------------
WriterTypeOK ==
    /\ out_chunk_size \in Nat \ {0}
    /\ batch \in Seq(Sendable) /\ off \in Nat
    /\ responses \in Seq(Packets)
    /\ DOMAIN headers = 0..(CacheMax - 1)
    /\ cache_index \in Nat
    /\ iovs \in Seq(Iovec) /\ nb_out_iovs \in Nat
    /\ cur_iov \in 0..Len(iovs)
    /\ wpc \in {"idle", "gather", "write", "packet", "flush"}
    /\ wstatus \in {"ok", "failed"}
    /\ sends \in Nat

(* A header is still in the cache when the iovec that points to it is      *)
(* written: the cache is never used again for a later chunk before.        *)
HeadersIntact ==
    wpc \in {"gather", "write"} =>
        \A i \in DOMAIN iovs : iovs[i].header => HeaderIntact(iovs[i])

(* Wherever a chunk is to be gathered there is room for its header, so the *)
(* assertion nbh > 0 never fails and no byte behind the cache is written.  *)
CacheSuffices ==
    /\ cache_index <= CacheMax
    /\ wpc = "gather" => Fits

(* A chunk is gathered only where two iovecs are allocated for it.         *)
IovsFit ==
    /\ Len(iovs) <= nb_out_iovs
    /\ wpc = "gather" => Len(iovs) + 2 <= nb_out_iovs

(* What is gathered for writev fits its arrays and is not overwritten      *)
(* before it is written, however often caches are reused and iovecs grow.  *)
GatheredIntact == HeadersIntact /\ CacheSuffices /\ IovsFit

(* Messages, packets and responses are written in the order of the calls,  *)
(* none twice and, unless a write failed, none left out.                   *)
WrittenInOrder ==
    /\ IsPrefix(sent, handed)
    /\ (wpc = "idle" /\ wstatus = "ok") => sent = handed
=============================================================================
