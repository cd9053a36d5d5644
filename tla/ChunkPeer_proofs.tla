--------------------------- MODULE ChunkPeer_proofs ---------------------------
(***************************************************************************)
(* Proofs about the chunk reader of ChunkReader.tla, for any peer: every   *)
(* header, length, chunk size and interleaving, failures and retries; and  *)
(* about the reader connected to a peer that follows the format,           *)
(* ChunkPeer.tla: whatever it sends, however it interleaves its chunk      *)
(* streams and leaves out header fields, and wherever the reader is        *)
(* between two pieces of a chunk, the reader understands it.               *)
(***************************************************************************)
EXTENDS ChunkPeer, Integers, TLAPS

-----------------------------------------------------------------------------
(* The reader.                                                             *)

(* What holds of each chunk stream on its own.                             *)
ChunkOK(ch) ==
    /\ ch \in ChunkState
    /\ Len(ch.body) <= ch.len
    /\ ch.alloc # 0 => ch.alloc = ch.len
    /\ ch.body # << >> => ch.alloc # 0 /\ Len(ch.body) < ch.len
    /\ ch.msg \/ ch.alloc = 0

(* The stream being read has a message from its header on; until its       *)
(* length is read, a first chunk has no payload buffer; and its timestamp  *)
(* is masked when the header is complete.                                  *)
CurrentOK ==
    /\ rpc \in {"header", "ext", "payload"} => chunk[cur.cid].msg
    /\ rpc = "header" /\ cur.first => chunk[cur.cid].alloc = 0
    /\ rpc = "payload" => chunk[cur.cid].ts < TMod

IInv ==
    /\ ReaderTypeOK
    /\ \A c \in Cids : ChunkOK(chunk[c])
    /\ CurrentOK
    /\ WholeMessages

-----------------------------------------------------------------------------
(* A masked timestamp has 31 bits.                                         *)
LEMMA MaskedIsSmall ==
  ASSUME NEW t \in Nat
  PROVE  t % TMod \in Nat /\ t % TMod < TMod
  BY TimeAssumption

(* Changing one chunk stream properly keeps all of them proper.            *)
LEMMA ChunkUpdate ==
  ASSUME ReaderTypeOK, \A c \in Cids : ChunkOK(chunk[c]),
         NEW d \in Cids, NEW ch, ChunkOK(ch),
         chunk' = [chunk EXCEPT ![d] = ch]
  PROVE  /\ chunk' \in [Cids -> ChunkState]
         /\ \A c \in Cids : ChunkOK(chunk'[c])
         /\ chunk'[d] = ch
  BY DEF ReaderTypeOK, ChunkOK

(* A new connection has no chunk stream in use.                            *)
LEMMA InitInv == ReaderInit => IInv
<1> SUFFICES ASSUME ReaderInit PROVE IInv
  OBVIOUS
<1>1. ChunkOK(FreshChunk)
  BY StreamAssumption DEF ChunkOK, FreshChunk, ChunkState
<1>2. \A c \in Cids : ChunkOK(chunk[c])
  BY <1>1 DEF ReaderInit
<1>3. chunk \in [Cids -> ChunkState]
  BY <1>1 DEF ReaderInit, ChunkOK
<1>4. got \in Messages
  BY StreamAssumption DEF ReaderInit, Messages, NoMessage
<1>5. ReaderTypeOK
  BY <1>3, <1>4, CidAssumption, ChunkSizeAssumption
  DEF ReaderInit, ReaderTypeOK, Formats
<1>6. CurrentOK /\ WholeMessages
  BY DEF ReaderInit, CurrentOK, WholeMessages
<1> QED  BY <1>2, <1>5, <1>6 DEF IInv

(* Masking the timestamp at the end of a header keeps the stream proper.   *)
LEMMA HeaderDoneOK ==
  ASSUME NEW ch, ChunkOK(ch)
  PROVE  /\ ChunkOK(HeaderDone(ch))
         /\ HeaderDone(ch).msg = ch.msg
         /\ HeaderDone(ch).alloc = ch.alloc
         /\ HeaderDone(ch).ts < TMod
<1>1. ch \in ChunkState /\ ch.ts \in Nat
  BY DEF ChunkOK, ChunkState
<1>2. ch.ts % TMod \in Nat /\ ch.ts % TMod < TMod
  BY <1>1, MaskedIsSmall
<1> QED  BY <1>1, <1>2 DEF ChunkOK, ChunkState, HeaderDone

(* A basic header opens a message, or is refused without effect.           *)
LEMMA ReadBasicHeaderInv ==
  ASSUME IInv, NEW f \in Formats, NEW c \in Cids, ReadBasicHeader(f, c)
  PROVE  IInv'
<1> DEFINE first == ~chunk[c].msg
           opened == [chunk[c] EXCEPT !.msg = TRUE]
           repeated == [opened EXCEPT !.ts = TimestampFmt3(opened, first)]
<1>0. ReaderTypeOK /\ ChunkOK(chunk[c])
  BY DEF IInv
<1>1. ChunkOK(opened) /\ opened.msg /\ opened.alloc = chunk[c].alloc
  BY <1>0 DEF ChunkOK, ChunkState
<1>2. ChunkOK(repeated) /\ repeated.msg
  <2>1. TimestampFmt3(opened, first) \in Nat
    BY <1>1 DEF TimestampFmt3, ChunkOK, ChunkState
  <2> HIDE DEF first
  <2> QED  BY <1>1, <2>1 DEF ChunkOK, ChunkState
<1> HIDE DEF opened, repeated
<1>3. /\ ChunkOK(HeaderDone(repeated)) /\ HeaderDone(repeated).msg
      /\ HeaderDone(repeated).ts < TMod
  BY <1>2, HeaderDoneOK
<1>4. CASE BadStart(f, c)
  BY <1>4
  DEF ReadBasicHeader, IInv, ReaderTypeOK, CurrentOK, WholeMessages
<1>5. CASE ~BadStart(f, c)
  <2>1. /\ cur' = [fmt |-> f, cid |-> c, first |-> first]
        /\ status' = status /\ in_chunk_size' = in_chunk_size /\ got' = got
        /\ \/ f # 3 /\ rpc' = "header" /\ chunk' = [chunk EXCEPT ![c] = opened]
           \/ rpc' = "ext" /\ chunk' = [chunk EXCEPT ![c] = repeated]
           \/ rpc' = "payload" /\
              chunk' = [chunk EXCEPT ![c] = HeaderDone(repeated)]
    BY <1>5 DEF ReadBasicHeader, first, opened, repeated
  <2>2. PICK ch : /\ ChunkOK(ch) /\ ch.msg
                  /\ chunk' = [chunk EXCEPT ![c] = ch]
                  /\ rpc' = "header" => ch.alloc = chunk[c].alloc
                  /\ rpc' = "payload" => ch.ts < TMod
    BY <1>1, <1>2, <1>3, <2>1
  <2>3. /\ chunk' \in [Cids -> ChunkState]
        /\ \A d \in Cids : ChunkOK(chunk'[d])
        /\ chunk'[c] = ch
    BY <1>0, <2>2, ChunkUpdate DEF IInv
  <2>4. ReaderTypeOK'
    BY <1>0, <2>1, <2>3 DEF ReaderTypeOK, first
  <2>5. CurrentOK'
    BY <1>0, <2>1, <2>2, <2>3 DEF CurrentOK, ChunkOK, first
  <2>6. WholeMessages'
    BY <2>1 DEF WholeMessages
  <2> QED  BY <2>3, <2>4, <2>5, <2>6 DEF IInv
<1> QED  BY <1>4, <1>5

(* A message header changes the length of a message only before it has a   *)
(* payload buffer.                                                         *)
LEMMA ReadMessageHeaderInv ==
  ASSUME IInv, NEW h \in Headers, ReadMessageHeader(h)
  PROVE  IInv'
<1> DEFINE c == cur.cid
           timed == [chunk[c] EXCEPT !.delta = h.ts, !.ext = h.ts >= Ext,
                                     !.ts = TimestampOf(chunk[c], h)]
           sized == IF cur.fmt <= 1
                    THEN [timed EXCEPT !.len = h.len, !.type = h.type,
                          !.sid = IF cur.fmt = 0 THEN h.sid ELSE timed.sid]
                    ELSE timed
<1>0. /\ ReaderTypeOK /\ CurrentOK /\ WholeMessages /\ rpc = "header"
      /\ c \in Cids /\ ChunkOK(chunk[c]) /\ chunk[c].msg
  BY DEF IInv, ReaderTypeOK, CurrentOK, ReadMessageHeader
<1>1. ChunkOK(timed) /\ timed.msg /\ timed.alloc = chunk[c].alloc
      /\ timed.len = chunk[c].len
  <2>1. h.ts \in Nat
    BY TimeAssumption DEF Headers
  <2>2. TimestampOf(chunk[c], h) \in Nat
    BY <1>0, <2>1, TimeAssumption DEF TimestampOf, ChunkOK, ChunkState
  <2>3. (h.ts >= Ext) \in BOOLEAN
    OBVIOUS
  <2> QED  BY <1>0, <2>1, <2>2, <2>3 DEF ChunkOK, ChunkState
<1> HIDE DEF timed
<1>2. ASSUME ~ChangesLength(h)
      PROVE  ChunkOK(sized) /\ sized.msg
  <2>1. CASE cur.fmt > 1
    BY <1>0, <1>1, <2>1 DEF ReaderTypeOK, Formats
  <2>2. CASE cur.fmt <= 1
    <3>1. h.len \in Nat /\ h.type \in Types /\ h.sid \in StreamIds
      BY LengthAssumption DEF Headers
    <3>2. timed.alloc = 0 \/ timed.len = h.len
      BY <1>0, <1>1, <1>2, <2>2 DEF ChangesLength, CurrentOK, ReaderTypeOK
    <3>3. timed.body # << >> => timed.len = h.len
      BY <1>1, <3>2 DEF ChunkOK
    <3>4. Len(timed.body) <= h.len
      BY <1>1, <3>1, <3>3 DEF ChunkOK, ChunkState
    <3>5. sized = [timed EXCEPT !.len = h.len, !.type = h.type,
                        !.sid = IF cur.fmt = 0 THEN h.sid ELSE timed.sid]
      BY <2>2
    <3> QED  BY <1>1, <3>1, <3>2, <3>3, <3>4, <3>5 DEF ChunkOK, ChunkState
  <2> QED  BY <1>0, <2>1, <2>2 DEF ReaderTypeOK, Formats
<1>3. CASE ChangesLength(h)
  <2>1. /\ chunk' = [chunk EXCEPT ![c] = timed]
        /\ status' = "packet_size" /\ UNCHANGED <<rpc, in_chunk_size, cur, got>>
    BY <1>3 DEF ReadMessageHeader, timed
  <2>2. /\ chunk' \in [Cids -> ChunkState]
        /\ \A d \in Cids : ChunkOK(chunk'[d])
        /\ chunk'[c] = timed
    BY <1>0, <1>1, <2>1, ChunkUpdate DEF IInv
  <2>3. ReaderTypeOK' /\ WholeMessages'
    BY <1>0, <2>1, <2>2 DEF ReaderTypeOK, WholeMessages
  <2>4. CurrentOK'
    BY <1>0, <1>1, <2>1, <2>2 DEF CurrentOK
  <2> QED  BY <2>2, <2>3, <2>4 DEF IInv
<1>4. CASE ~ChangesLength(h)
  <2>0. ChunkOK(sized) /\ sized.msg
    BY <1>2, <1>4
  <2>1. /\ UNCHANGED <<status, in_chunk_size, cur, got>>
        /\ \/ rpc' = "ext" /\ chunk' = [chunk EXCEPT ![c] = sized]
           \/ rpc' = "payload" /\
              chunk' = [chunk EXCEPT ![c] = HeaderDone(sized)]
    BY <1>4 DEF ReadMessageHeader, timed
  <2> HIDE DEF sized
  <2>2. PICK ch : /\ ChunkOK(ch) /\ ch.msg
                  /\ chunk' = [chunk EXCEPT ![c] = ch]
                  /\ rpc' = "payload" => ch.ts < TMod
    BY <2>0, <2>1, HeaderDoneOK
  <2>3. /\ chunk' \in [Cids -> ChunkState]
        /\ \A d \in Cids : ChunkOK(chunk'[d])
        /\ chunk'[c] = ch
    BY <1>0, <2>2, ChunkUpdate DEF IInv
  <2>4. ReaderTypeOK' /\ WholeMessages'
    BY <1>0, <2>1, <2>3 DEF ReaderTypeOK, WholeMessages
  <2>5. CurrentOK'
    BY <1>0, <2>1, <2>2, <2>3 DEF CurrentOK
  <2> QED  BY <2>3, <2>4, <2>5 DEF IInv
<1> QED  BY <1>3, <1>4

(* An extended timestamp, or a word given back, changes nothing else.      *)
LEMMA ReadExtendedInv ==
  ASSUME IInv, NEW t \in Nat, ReadExtended(t)
  PROVE  IInv'
<1> DEFINE c == cur.cid
           told == IF IsNoTimestamp(t) THEN chunk[c]
                                       ELSE [chunk[c] EXCEPT !.ts = t % TMod]
<1>0. /\ ReaderTypeOK /\ CurrentOK /\ WholeMessages /\ rpc = "ext"
      /\ c \in Cids /\ ChunkOK(chunk[c]) /\ chunk[c].msg
  BY DEF IInv, ReaderTypeOK, CurrentOK, ReadExtended
<1>1. ChunkOK(told) /\ told.msg
  <2>1. t % TMod \in Nat
    BY MaskedIsSmall
  <2> QED  BY <1>0, <2>1 DEF ChunkOK, ChunkState
<1>2. /\ chunk' = [chunk EXCEPT ![c] = HeaderDone(told)]
      /\ rpc' = "payload" /\ UNCHANGED <<in_chunk_size, cur, got, status>>
  BY DEF ReadExtended
<1> HIDE DEF told
<1>3. /\ ChunkOK(HeaderDone(told)) /\ HeaderDone(told).msg
      /\ HeaderDone(told).ts < TMod
  BY <1>1, HeaderDoneOK
<1>4. /\ chunk' \in [Cids -> ChunkState]
      /\ \A d \in Cids : ChunkOK(chunk'[d])
      /\ chunk'[c] = HeaderDone(told)
  BY <1>0, <1>2, <1>3, ChunkUpdate DEF IInv
<1>5. ReaderTypeOK' /\ WholeMessages'
  BY <1>0, <1>2, <1>4 DEF ReaderTypeOK, WholeMessages
<1>6. CurrentOK'
  BY <1>2, <1>3, <1>4 DEF CurrentOK
<1> QED  BY <1>4, <1>5, <1>6 DEF IInv

(* The payload of a chunk fits what is left of its message.                *)
LEMMA PayloadSizeFits ==
  ASSUME IInv
  PROVE  /\ PayloadSize \in Nat
         /\ Len(chunk[cur.cid].body) + PayloadSize <= chunk[cur.cid].len
         /\ chunk[cur.cid].len = 0 \/ PayloadSize > 0
<1>1. /\ cur.cid \in Cids /\ ChunkOK(chunk[cur.cid])
      /\ in_chunk_size \in Nat \ {0}
  BY DEF IInv, ReaderTypeOK
<1>2. /\ chunk[cur.cid].body \in Seq(Words) /\ chunk[cur.cid].len \in Nat
      /\ Len(chunk[cur.cid].body) <= chunk[cur.cid].len
      /\ Len(chunk[cur.cid].body) = 0
         \/ Len(chunk[cur.cid].body) < chunk[cur.cid].len
  BY <1>1 DEF ChunkOK, ChunkState
<1> DEFINE b == Len(chunk[cur.cid].body)
           l == chunk[cur.cid].len
           n == Least(l - b, in_chunk_size)
<1>3. b \in Nat /\ l \in Nat /\ b <= l /\ (b = 0 \/ b < l)
  BY <1>2
<1>4. PayloadSize = n
  BY DEF PayloadSize
<1> HIDE DEF b, l
<1>5. n \in Nat /\ b + n <= l /\ (l = 0 \/ n > 0)
  BY <1>1, <1>3 DEF Least
<1> HIDE DEF n
<1>6. PayloadSize \in Nat /\ b + PayloadSize <= l /\ (l = 0 \/ PayloadSize > 0)
  BY <1>4, <1>5
<1> QED  BY <1>6 DEF b, l

(* A stream whose message has left is proper.                              *)
LEMMA ClosedOK ==
  ASSUME NEW ch, ChunkOK(ch)
  PROVE  ChunkOK(Closed(ch))
<1>1. << >> \in Seq(Words) /\ Len(<< >>) = 0
  OBVIOUS
<1>2. Closed(ch) \in ChunkState
  BY <1>1 DEF ChunkOK, ChunkState, Closed
<1>3. ch.len \in Nat
  BY DEF ChunkOK, ChunkState
<1>4. /\ Closed(ch).body = << >> /\ Closed(ch).alloc = 0
      /\ Closed(ch).len = ch.len
  BY DEF ChunkOK, ChunkState, Closed
<1> QED  BY <1>1, <1>2, <1>3, <1>4 DEF ChunkOK

(* Payload extends or completes the message it belongs to.                 *)
LEMMA ReadMessagePayloadInv ==
  ASSUME IInv, NEW w \in Seq(Words), ReadMessagePayload(w)
  PROVE  IInv'
<1> DEFINE c == cur.cid
           ch == chunk[c]
           filled == Filled(ch, w)
<1>0. /\ ReaderTypeOK /\ CurrentOK /\ WholeMessages /\ rpc = "payload"
      /\ c \in Cids /\ ChunkOK(ch) /\ ch.msg /\ ch.ts < TMod
  BY DEF IInv, ReaderTypeOK, CurrentOK, ReadMessagePayload
<1>1. /\ filled \in ChunkState
      /\ Len(filled.body) <= ch.len /\ filled.len = ch.len
      /\ filled.alloc = ch.len /\ filled.msg /\ filled.ts = ch.ts
  <2>1. Len(ch.body) + Len(w) <= ch.len
    BY PayloadSizeFits DEF ReadMessagePayload
  <2>2. ch \in ChunkState /\ ch.body \in Seq(Words)
    BY <1>0 DEF ChunkOK, ChunkState
  <2>3. ch.body \o w \in Seq(Words) /\ Len(ch.body \o w) = Len(ch.body) + Len(w)
    BY <2>2
  <2> QED  BY <1>0, <2>1, <2>2, <2>3 DEF Filled, ChunkState
<1>2. CASE Len(filled.body) = ch.len
  <2>1. /\ got' = MessageOf(c, filled)
        /\ chunk' = [chunk EXCEPT ![c] = Closed(ch)]
        /\ rpc' = "dispatch" /\ UNCHANGED <<in_chunk_size, cur, status>>
    BY <1>2 DEF ReadMessagePayload
  <2>2. ChunkOK(Closed(ch))
    BY <1>0, ClosedOK
  <2>3. /\ chunk' \in [Cids -> ChunkState]
        /\ \A d \in Cids : ChunkOK(chunk'[d])
    BY <1>0, <2>1, <2>2, ChunkUpdate DEF IInv
  <2>4. got' \in Messages
    BY <1>0, <1>1, <2>1 DEF MessageOf, Messages, ChunkState
  <2>5. ReaderTypeOK'
    BY <1>0, <2>1, <2>3, <2>4 DEF ReaderTypeOK
  <2>6. CurrentOK' /\ WholeMessages'
    BY <1>0, <1>1, <1>2, <2>1 DEF CurrentOK, WholeMessages, MessageOf
  <2> QED  BY <2>3, <2>5, <2>6 DEF IInv
<1>3. CASE Len(filled.body) # ch.len
  <2>1. /\ got' = got
        /\ chunk' = [chunk EXCEPT ![c] = filled]
        /\ rpc' = "basic" /\ UNCHANGED <<in_chunk_size, cur, status>>
    BY <1>3 DEF ReadMessagePayload
  <2>2. ChunkOK(filled)
    BY <1>1, <1>3 DEF ChunkOK, ChunkState
  <2> HIDE DEF filled
  <2>3. /\ chunk' \in [Cids -> ChunkState]
        /\ \A d \in Cids : ChunkOK(chunk'[d])
    BY <1>0, <2>1, <2>2, ChunkUpdate DEF IInv
  <2>4. ReaderTypeOK' /\ CurrentOK' /\ WholeMessages'
    BY <1>0, <2>1, <2>3 DEF ReaderTypeOK, CurrentOK, WholeMessages
  <2> QED  BY <2>3, <2>4 DEF IInv
<1> QED  BY <1>2, <1>3

(* A failed read leaves at most a payload buffer of the right size behind. *)
LEMMA ReadFailsInv ==
  ASSUME IInv, ReadFails
  PROVE  IInv'
<1> DEFINE c == cur.cid
           ch == [chunk[c] EXCEPT !.alloc = chunk[c].len]
<1>0. /\ ReaderTypeOK /\ CurrentOK /\ WholeMessages
      /\ c \in Cids /\ ChunkOK(chunk[c])
  BY DEF IInv, ReaderTypeOK
<1>1. CASE rpc = "payload"
  <2>1. chunk' = [chunk EXCEPT ![c] = ch]
    <3>1. chunk' = [chunk EXCEPT ![c].alloc = chunk[c].len]
      BY <1>1 DEF ReadFails
    <3> QED  BY <3>1
  <2>2. chunk[c].msg /\ chunk[c].len > 0 /\ chunk[c].ts < TMod
    BY <1>0, <1>1, PayloadSizeFits DEF CurrentOK, ReadFails, ChunkOK, ChunkState
  <2>3. ChunkOK(ch) /\ ch.msg /\ ch.ts < TMod
    BY <1>0, <2>2 DEF ChunkOK, ChunkState
  <2> HIDE DEF ch
  <2>4. /\ chunk' \in [Cids -> ChunkState]
        /\ \A d \in Cids : ChunkOK(chunk'[d])
        /\ chunk'[c] = ch
    BY <1>0, <2>1, <2>3, ChunkUpdate DEF IInv
  <2>5. ReaderTypeOK' /\ WholeMessages'
    BY <1>0, <2>4 DEF ReaderTypeOK, WholeMessages, ReadFails
  <2>6. CurrentOK'
    BY <1>1, <2>3, <2>4 DEF CurrentOK, ReadFails
  <2> QED  BY <2>4, <2>5, <2>6 DEF IInv
<1>2. CASE rpc # "payload"
  BY <1>2 DEF ReadFails, IInv, ReaderTypeOK, CurrentOK, WholeMessages
<1> QED  BY <1>1, <1>2

(* A message that is handled leaves a positive chunk size.                 *)
LEMMA RecvMessageInv ==
  ASSUME IInv, RecvMessage
  PROVE  IInv'
<1>0. ReaderTypeOK /\ WholeMessages /\ rpc = "dispatch"
  BY DEF IInv, RecvMessage
<1>1. in_chunk_size' \in Nat \ {0}
  <2>1. CASE IsDelivered(got) /\ got.type = SetChunkSize
    <3>1. got.body \in Seq(Words) /\ Len(got.body) = got.len
          /\ got.len \in Nat /\ got.len # 0
      BY <1>0, <2>1
      DEF ReaderTypeOK, Messages, WholeMessages, IsDelivered, IsDropped
    <3>2. SizeIn[got.body[1]] \in Nat
      BY <3>1, WordAssumption
    <3>3. ~(SizeIn[got.body[1]] < MinChunkSize)
      BY <2>1 DEF IsDelivered, IsRefused
    <3> QED
      BY <2>1, <3>2, <3>3, MinSizeAssumption DEF RecvMessage, ChunkSizeAfter
  <2>2. CASE ~(IsDelivered(got) /\ got.type = SetChunkSize)
    BY <1>0, <2>2 DEF ReaderTypeOK, RecvMessage, ChunkSizeAfter
  <2> QED  BY <2>1, <2>2
<1>2. got' \in Messages
  BY StreamAssumption DEF RecvMessage, NoMessage, Messages
<1>3. status' \in {"ok", "chunk_size"} /\ rpc' = "basic"
      /\ UNCHANGED <<chunk, cur>>
  BY DEF RecvMessage
<1>4. ReaderTypeOK' /\ CurrentOK' /\ WholeMessages'
  BY <1>0, <1>1, <1>2, <1>3 DEF ReaderTypeOK, CurrentOK, WholeMessages
<1> QED  BY <1>3, <1>4 DEF IInv

(* Every step of the reader preserves the invariant.                       *)
LEMMA NextInv == IInv /\ [ReaderNext]_readerVars => IInv'
<1> SUFFICES ASSUME IInv, [ReaderNext]_readerVars PROVE IInv'
  OBVIOUS
<1>1. ASSUME NEW t \in 0..(2 * TMod - 1), ReadExtended(t) PROVE IInv'
  <2>1. t \in Nat
    BY TimeAssumption
  <2> QED  BY <1>1, <2>1, ReadExtendedInv
<1>2. ASSUME NEW w \in WordsOf(PayloadSize), ReadMessagePayload(w) PROVE IInv'
  <2>1. w \in Seq(Words)
    BY PayloadSizeFits DEF WordsOf
  <2> QED  BY <1>2, <2>1, ReadMessagePayloadInv
<1>3. CASE Retry
  BY <1>3 DEF Retry, IInv, ReaderTypeOK, CurrentOK, WholeMessages
<1>4. CASE UNCHANGED readerVars
  BY <1>4 DEF readerVars, IInv, ReaderTypeOK, CurrentOK, WholeMessages
<1> QED
  BY <1>1, <1>2, <1>3, <1>4, ReadBasicHeaderInv, ReadMessageHeaderInv,
     ReadFailsInv, RecvMessageInv
  DEF ReaderNext

(* The invariant holds in every state of the reader.                       *)
LEMMA InvHolds == ReaderSpec => []IInv
  BY InitInv, NextInv, PTL DEF ReaderSpec

-----------------------------------------------------------------------------
(* Type correctness; in particular the chunk size in force stays positive. *)
THEOREM ReaderTypeCorrect == ReaderSpec => []ReaderTypeOK
<1>1. IInv => ReaderTypeOK  BY DEF IInv
<1> QED  BY <1>1, InvHolds, PTL

(* Whatever the peer sends, read_message_payload never copies beyond the   *)
(* payload buffer of the message.                                          *)
THEOREM PayloadAlwaysFits == ReaderSpec => []PayloadFits
<1>1. IInv => PayloadFits  BY DEF IInv, PayloadFits, ChunkOK
<1> QED  BY <1>1, InvHolds, PTL

(* Only whole messages with 31 bit timestamps reach recv_message.          *)
THEOREM MessagesAreWhole == ReaderSpec => []WholeMessages
<1>1. IInv => WholeMessages  BY DEF IInv
<1> QED  BY <1>1, InvHolds, PTL

(* Every chunk of a nonempty message brings payload.                       *)
THEOREM ChunksAlwaysAdvance == ReaderSpec => []ChunksAdvance
<1>1. IInv => ChunksAdvance  BY PayloadSizeFits DEF ChunksAdvance
<1> QED  BY <1>1, InvHolds, PTL

(* A chunk of a nonempty message brings payload, and no more than fits.    *)
THEOREM ChunksAlwaysFit == ReaderSpec => []ChunksFit
<1>1. PayloadFits /\ ChunksAdvance => ChunksFit  BY DEF ChunksFit
<1> QED  BY <1>1, PayloadAlwaysFits, ChunksAlwaysAdvance, PTL

-----------------------------------------------------------------------------
(* What PartialsGrow says of a step.                                       *)
Grown ==
    \A c \in Cids :
        chunk[c].body # << >> =>
          \/ ~chunk'[c].msg /\ got'.cid = c
          \/ /\ chunk'[c].len = chunk[c].len
             /\ SubSeq(chunk'[c].body, 1, Len(chunk[c].body)) = chunk[c].body

Keeps(ch, new) == ch.body # << >> => new.len = ch.len /\ new.body = ch.body

(* The whole of a sequence, and its place in front of another.             *)
LEMMA WholeSubSeq ==
  ASSUME NEW S, NEW s \in Seq(S), NEW t \in Seq(S)
  PROVE  /\ SubSeq(s, 1, Len(s)) = s
         /\ SubSeq(s \o t, 1, Len(s)) = s
  OBVIOUS

(* A step that leaves length and payload of the stream it works on alone.  *)
LEMMA KeepingGrows ==
  ASSUME IInv, NEW d \in Cids, NEW new, Keeps(chunk[d], new),
         chunk' = [chunk EXCEPT ![d] = new]
  PROVE  Grown
<1> SUFFICES ASSUME NEW c \in Cids, chunk[c].body # << >>
             PROVE  /\ chunk'[c].len = chunk[c].len
                    /\ SubSeq(chunk'[c].body, 1, Len(chunk[c].body))
                         = chunk[c].body
  BY DEF Grown
<1>1. chunk'[c].len = chunk[c].len /\ chunk'[c].body = chunk[c].body
  BY DEF Keeps, IInv, ReaderTypeOK
<1>2. chunk[c].body \in Seq(Words)
  BY DEF IInv, ChunkOK, ChunkState
<1> QED  BY <1>1, <1>2, WholeSubSeq

(* A step that touches no chunk stream loses nothing of a message.         *)
LEMMA UntouchedGrows ==
  ASSUME IInv, UNCHANGED chunk
  PROVE  Grown
<1>1. \A c \in Cids : chunk[c].body \in Seq(Words)
  BY DEF IInv, ChunkOK, ChunkState
<1> QED  BY <1>1, WholeSubSeq DEF Grown

(* read_basic_header only notes the chunk stream it is to read.            *)
LEMMA ReadBasicHeaderGrows ==
  ASSUME IInv, NEW f \in Formats, NEW c \in Cids, ReadBasicHeader(f, c)
  PROVE  Grown
<1> DEFINE opened == [chunk[c] EXCEPT !.msg = TRUE]
           repeated == [opened EXCEPT !.ts = TimestampFmt3(opened, ~chunk[c].msg)]
<1>1. chunk[c] \in ChunkState
  BY DEF IInv, ChunkOK
<1>2. Keeps(chunk[c], opened)
  BY <1>1 DEF Keeps, ChunkState
<1>3. Keeps(chunk[c], repeated) /\ Keeps(chunk[c], HeaderDone(repeated))
  BY <1>1 DEF Keeps, ChunkState, HeaderDone
<1>4. \/ UNCHANGED chunk
      \/ chunk' = [chunk EXCEPT ![c] = opened]
      \/ chunk' = [chunk EXCEPT ![c] = repeated]
      \/ chunk' = [chunk EXCEPT ![c] = HeaderDone(repeated)]
  BY DEF ReadBasicHeader
<1> HIDE DEF opened, repeated
<1> QED  BY <1>2, <1>3, <1>4, KeepingGrows, UntouchedGrows

(* A header that comes behind some payload tells the length once more.     *)
LEMMA ReadMessageHeaderGrows ==
  ASSUME IInv, NEW h \in Headers, ReadMessageHeader(h)
  PROVE  Grown
<1> DEFINE c == cur.cid
           timed == [chunk[c] EXCEPT !.delta = h.ts, !.ext = h.ts >= Ext,
                                     !.ts = TimestampOf(chunk[c], h)]
           sized == IF cur.fmt <= 1
                    THEN [timed EXCEPT !.len = h.len, !.type = h.type,
                          !.sid = IF cur.fmt = 0 THEN h.sid ELSE timed.sid]
                    ELSE timed
<1>0. /\ c \in Cids /\ ChunkOK(chunk[c]) /\ chunk[c] \in ChunkState
      /\ rpc = "header" /\ (cur.first => chunk[c].alloc = 0)
  BY DEF IInv, ReaderTypeOK, CurrentOK, ReadMessageHeader, ChunkOK
<1>1. Keeps(chunk[c], timed)
  BY <1>0 DEF Keeps, ChunkState
<1>2. ASSUME ~ChangesLength(h)
      PROVE  Keeps(chunk[c], sized) /\ Keeps(chunk[c], HeaderDone(sized))
  <2>1. ASSUME chunk[c].body # << >>, cur.fmt <= 1
        PROVE  h.len = chunk[c].len
    <3>1. chunk[c].alloc # 0
      BY <1>0, <2>1 DEF ChunkOK
    <3> QED  BY <1>0, <1>2, <2>1, <3>1 DEF ChangesLength
  <2>2. /\ timed.body = chunk[c].body /\ timed.len = chunk[c].len
        /\ sized.body = chunk[c].body
        /\ sized.len = IF cur.fmt <= 1 THEN h.len ELSE chunk[c].len
        /\ HeaderDone(sized).body = sized.body
        /\ HeaderDone(sized).len = sized.len
    BY <1>0 DEF ChunkState, HeaderDone
  <2> HIDE DEF sized
  <2> QED  BY <2>1, <2>2 DEF Keeps
<1>3. \/ chunk' = [chunk EXCEPT ![c] = timed]
      \/ /\ ~ChangesLength(h)
         /\ \/ chunk' = [chunk EXCEPT ![c] = sized]
            \/ chunk' = [chunk EXCEPT ![c] = HeaderDone(sized)]
  BY DEF ReadMessageHeader
<1> HIDE DEF timed, sized, c
<1> QED  BY <1>0, <1>1, <1>2, <1>3, KeepingGrows

(* Reading the extended timestamp touches no byte of the message.          *)
LEMMA ReadExtendedGrows ==
  ASSUME IInv, NEW t \in Nat, ReadExtended(t)
  PROVE  Grown
<1> DEFINE c == cur.cid
           told == IF IsNoTimestamp(t) THEN chunk[c]
                                       ELSE [chunk[c] EXCEPT !.ts = t % TMod]
<1>1. c \in Cids /\ chunk[c] \in ChunkState
  BY DEF IInv, ReaderTypeOK, ChunkOK
<1>2. Keeps(chunk[c], HeaderDone(told))
  BY <1>1 DEF Keeps, ChunkState, HeaderDone
<1>3. chunk' = [chunk EXCEPT ![c] = HeaderDone(told)]
  BY DEF ReadExtended
<1> HIDE DEF told
<1> QED  BY <1>1, <1>2, <1>3, KeepingGrows

(* Payload is added behind what is there, or completes the message.        *)
LEMMA ReadMessagePayloadGrows ==
  ASSUME IInv, NEW w \in Seq(Words), ReadMessagePayload(w)
  PROVE  Grown
<1> DEFINE d == cur.cid
<1>1. /\ d \in Cids /\ chunk \in [Cids -> ChunkState]
      /\ \A c \in Cids : chunk[c].body \in Seq(Words)
  BY DEF IInv, ReaderTypeOK, ChunkOK, ChunkState
<1>2. \/ /\ got'.cid = d
         /\ chunk' = [chunk EXCEPT ![d] = Closed(chunk[d])]
      \/ chunk' = [chunk EXCEPT ![d] = Filled(chunk[d], w)]
  BY DEF ReadMessagePayload, MessageOf
<1>3. /\ Closed(chunk[d]).msg = FALSE
      /\ Filled(chunk[d], w).len = chunk[d].len
      /\ Filled(chunk[d], w).body = chunk[d].body \o w
  BY <1>1 DEF ChunkState, Closed, Filled
<1> SUFFICES ASSUME NEW c \in Cids
             PROVE  \/ ~chunk'[c].msg /\ got'.cid = c
                    \/ /\ chunk'[c].len = chunk[c].len
                       /\ SubSeq(chunk'[c].body, 1, Len(chunk[c].body))
                            = chunk[c].body
  BY DEF Grown
<1>4. CASE c = d
  BY <1>1, <1>2, <1>3, <1>4, WholeSubSeq
<1>5. CASE c # d
  <2>1. chunk'[c] = chunk[c]
    BY <1>1, <1>2, <1>5
  <2> QED  BY <1>1, <2>1, WholeSubSeq
<1> QED  BY <1>4, <1>5

(* A read that fails leaves the partial messages as they are.              *)
LEMMA ReadFailsGrows ==
  ASSUME IInv, ReadFails
  PROVE  Grown
<1> DEFINE d == cur.cid
           new == [chunk[d] EXCEPT !.alloc = chunk[d].len]
<1>1. d \in Cids /\ chunk[d] \in ChunkState
  BY DEF IInv, ReaderTypeOK, ChunkOK
<1>2. Keeps(chunk[d], new)
  BY <1>1 DEF Keeps, ChunkState
<1>3. UNCHANGED chunk \/ chunk' = [chunk EXCEPT ![d] = new]
  BY DEF ReadFails
<1> HIDE DEF new
<1> QED  BY <1>1, <1>2, <1>3, KeepingGrows, UntouchedGrows

(* A half received message is only ever extended or completed, whatever    *)
(* other streams, errors and retries come between two of its chunks.       *)
THEOREM PartialsAlwaysGrow == ReaderSpec => PartialsGrow
<1>1. IInv /\ [ReaderNext]_readerVars => [Grown]_readerVars
  <2> SUFFICES ASSUME IInv, ReaderNext PROVE Grown
    OBVIOUS
  <2>1. ASSUME NEW t \in 0..(2 * TMod - 1), ReadExtended(t) PROVE Grown
    <3>1. t \in Nat
      BY TimeAssumption
    <3> QED  BY <2>1, <3>1, ReadExtendedGrows
  <2>2. ASSUME NEW w \in WordsOf(PayloadSize), ReadMessagePayload(w)
        PROVE  Grown
    <3>1. w \in Seq(Words)
      BY PayloadSizeFits DEF WordsOf
    <3> QED  BY <2>2, <3>1, ReadMessagePayloadGrows
  <2>3. CASE RecvMessage \/ Retry
    BY <2>3, UntouchedGrows DEF RecvMessage, Retry
  <2> QED
    BY <2>1, <2>2, <2>3, ReadBasicHeaderGrows, ReadMessageHeaderGrows,
       ReadFailsGrows
    DEF ReaderNext
<1> QED  BY <1>1, InvHolds, PTL DEF ReaderSpec, PartialsGrow, Grown

-----------------------------------------------------------------------------
(* Timestamps are kept modulo TMod.                                        *)
LEMMA SmallProduct ==
  ASSUME NEW M \in Nat \ {0}, NEW k \in Int, NEW r \in Int,
         M * k = r, r < M, -M < r
  PROVE  k = 0
<1>1. ASSUME k >= 1  PROVE FALSE
  <2>1. M * k >= M * 1  BY <1>1
  <2> QED  BY <2>1
<1>2. ASSUME k <= -1  PROVE FALSE
  <2>1. M * k <= M * (-1)  BY <1>2
  <2> QED  BY <2>1
<1> QED  BY <1>1, <1>2

(* A remainder below the modulus is the remainder.                         *)
LEMMA ModUnique ==
  ASSUME NEW M \in Nat \ {0}, NEW a \in Nat, NEW q \in Nat, NEW r \in Nat,
         a = M * q + r, r < M
  PROVE  a % M = r
<1> DEFINE p == a \div M
           s == a % M
<1>1. p \in Int /\ s \in Int /\ a = M * p + s /\ 0 <= s /\ s < M
  OBVIOUS
<1> HIDE DEF p, s
<1>2. M * (q - p) = s - r  BY <1>1
<1>3. q - p = 0  BY <1>1, <1>2, SmallProduct
<1>4. s = r  BY <1>1, <1>2, <1>3
<1> QED  BY <1>4 DEF s

(* Taking the remainder first changes no sum's remainder.                  *)
LEMMA ModAdd ==
  ASSUME NEW M \in Nat \ {0}, NEW a \in Nat, NEW d \in Nat
  PROVE  ((a % M) + d) % M = (a + d) % M
<1> DEFINE q == a \div M
           b == (a % M) + d
           e == b \div M
           r == b % M
<1>1. q \in Nat /\ a % M \in Nat /\ a = M * q + (a % M)  OBVIOUS
<1>2. b \in Nat  BY <1>1
<1>3. a + d = M * q + b  BY <1>1
<1> HIDE DEF q, b
<1>4. e \in Nat /\ r \in Nat /\ r < M /\ b = M * e + r  BY <1>2
<1> HIDE DEF e, r
<1>5. a + d = M * (q + e) + r  BY <1>1, <1>3, <1>4
<1>6. (a + d) % M = r
  <2> DEFINE z == a + d
             y == q + e
  <2>1. z \in Nat /\ y \in Nat /\ z = M * y + r  BY <1>1, <1>4, <1>5
  <2> HIDE DEF z, y
  <2>2. z % M = r  BY <1>4, <2>1, ModUnique
  <2> QED  BY <2>2 DEF z
<1> QED  BY <1>6 DEF r, b

(* A timestamp that is masked stays what it is, and adds up.               *)
LEMMA Masked ==
  ASSUME NEW t \in Nat
  PROVE  /\ t % TMod \in Nat /\ (t % TMod) % TMod = t % TMod
         /\ 0 % TMod = 0
         /\ \A d \in Nat : ((t % TMod) + d) % TMod = (t + d) % TMod
<1>1. TMod \in Nat \ {0}  BY TimeAssumption
<1>2. \A d \in Nat : ((t % TMod) + d) % TMod = (t + d) % TMod
  BY <1>1, ModAdd
<1>3. t % TMod \in Nat  BY <1>1
<1>4. ((t % TMod) + 0) % TMod = (t + 0) % TMod  BY <1>2
<1>5. 0 % TMod = 0
  <2>1. 0 = TMod * 0 + 0  BY <1>1
  <2> QED  BY <1>1, <2>1, ModUnique
<1> QED  BY <1>2, <1>3, <1>4, <1>5

-----------------------------------------------------------------------------
(* A state of the peer, as between two of its chunks: what it has sent and *)
(* is sending over each chunk stream, its chunk size, and what it has sent *)
(* whole.                                                                  *)
SentBefore == [sent : {TRUE}, ts : Nat, delta : Nat, len : Nat, type : Types,
               sid : StreamIds]
Ongoing == [active : {TRUE}, cid : Cids, type : Types, sid : StreamIds,
            ts : Nat, len : Nat, size : Nat, id : 1..MaxMessages, off : Nat,
            stamp : Nat]
Sides == [prev : {NeverSent} \cup SentBefore, now : {Idle} \cup Ongoing]

View == [peer |-> peer, size |-> peer_chunk_size, done |-> completed]

(* m is a message of the peer, sent up to m.off.                           *)
Underway(m) ==
    /\ m \in Ongoing
    /\ m.off = 0 \/ m.off < m.len
    /\ m.stamp >= Ext => m.stamp = m.ts
    /\ \E x \in Pool : /\ x.cid = m.cid /\ x.type = m.type /\ x.sid = m.sid
                       /\ x.ts = m.ts /\ x.len = m.len /\ x.size = m.size

Told(m) == [sent |-> TRUE, ts |-> m.ts, delta |-> m.stamp, len |-> m.len,
            type |-> m.type, sid |-> m.sid]

SideOK(p, c) ==
    \/ p.now = Idle
    \/ /\ Underway(p.now) /\ p.now.off > 0
       /\ p.now.cid = c /\ p.prev = Told(p.now)

States ==
    {s \in [peer : [Cids -> Sides], size : Nat \ {0}, done : Seq(AllMessages)] :
        \A c \in Cids : SideOK(s.peer[c], c)}

(* The chunk of m that the peer may send next, in format f.                *)
Opens(s, m, f) ==
    /\ m.off = 0 /\ s.peer[m.cid].now = Idle
    /\ LET prev == s.peer[m.cid].prev
       IN  \/ f = 0 /\ m.stamp = m.ts
           \/ /\ f = 1 /\ ~prev.sent /\ m.cid = ProtocolControl /\ m.sid = 0
              /\ m.stamp = m.ts /\ m.stamp < Ext
           \/ /\ f \in 1..3 /\ prev.sent /\ m.sid = prev.sid
              /\ m.ts = prev.ts + m.stamp /\ m.stamp < Ext
              /\ f >= 2 => m.len = prev.len /\ m.type = prev.type
              /\ f = 3 => m.stamp = prev.delta

GoesOn(s, m, f) == m.off > 0 /\ f = 3 /\ s.peer[m.cid].now = m

MaySend(s, m, f) == Underway(m) /\ (Opens(s, m, f) \/ GoesOn(s, m, f))

Size(s, m) == Least(m.len - m.off, s.size)
Completes(s, m) == m.off + Size(s, m) = m.len

After(s, m) ==
    [peer |-> [s.peer EXCEPT ![m.cid] =
                 [prev |-> Told(m),
                  now |-> IF Completes(s, m) THEN Idle
                          ELSE [m EXCEPT !.off = @ + Size(s, m)]]],
     size |-> IF Completes(s, m) /\ m.type = SetChunkSize THEN m.size
                                                          ELSE s.size,
     done |-> IF Completes(s, m) /\ m.len > 0 THEN Append(s.done, Whole(m))
                                              ELSE s.done]

(* How much a chunk carries.                                               *)
LEMMA SizeIsSome ==
  ASSUME NEW s \in States, NEW m, Underway(m)
  PROVE  /\ Size(s, m) \in Nat /\ m.off + Size(s, m) <= m.len
         /\ m.len > 0 => Size(s, m) > 0
         /\ m.off > 0 => m.len > 0
         /\ m.off \in Nat /\ m.len \in Nat
BY DEF Size, Least, States, Underway, Ongoing

(* Message m is one of those the channel may carry.                        *)
LEMMA WholeIsMessage ==
  ASSUME NEW m, Underway(m)
  PROVE  Whole(m) \in AllMessages
<1>1. PICK x \in Pool : /\ x.cid = m.cid /\ x.type = m.type /\ x.sid = m.sid
                        /\ x.ts = m.ts /\ x.len = m.len /\ x.size = m.size
  BY DEF Underway
<1>2. m.id \in 1..MaxMessages  BY DEF Underway, Ongoing
<1>3. Whole(m) = Whole([cid |-> x.cid, type |-> x.type, sid |-> x.sid,
                        ts |-> x.ts, len |-> x.len, size |-> x.size,
                        id |-> m.id])
  BY <1>1 DEF Whole, WordAt
<1> QED  BY <1>2, <1>3 DEF AllMessages

(* What a chunk sent leaves behind is a state of the peer again.           *)
LEMMA AfterOK ==
  ASSUME NEW s \in States, NEW m, NEW f, MaySend(s, m, f)
  PROVE  /\ After(s, m) \in States
         /\ m \in Ongoing
         /\ After(s, m).peer[m.cid].prev = Told(m)
         /\ Completes(s, m) => After(s, m).peer[m.cid].now = Idle
         /\ ~Completes(s, m) => After(s, m).peer[m.cid].now =
                                    [m EXCEPT !.off = @ + Size(s, m)]
         /\ \A c \in Cids \ {m.cid} : After(s, m).peer[c] = s.peer[c]
<1> DEFINE rest == [m EXCEPT !.off = @ + Size(s, m)]
           side == [prev |-> Told(m),
                    now |-> IF Completes(s, m) THEN Idle ELSE rest]
           t == After(s, m)
<1>1. Underway(m) /\ m \in Ongoing /\ m.cid \in Cids
  BY DEF MaySend, Underway, Ongoing
<1>s. /\ s.peer \in [Cids -> Sides] /\ \A c \in Cids : SideOK(s.peer[c], c)
      /\ s.size \in Nat \ {0} /\ s.done \in Seq(AllMessages)
  BY DEF States
<1>2. Told(m) \in SentBefore  BY <1>1 DEF Told, SentBefore, Ongoing
<1>3. ~Completes(s, m) =>
         rest \in Ongoing /\ SideOK([prev |-> Told(m), now |-> rest], m.cid)
  <2> SUFFICES ASSUME ~Completes(s, m)
               PROVE  /\ rest \in Ongoing
                      /\ SideOK([prev |-> Told(m), now |-> rest], m.cid)
    OBVIOUS
  <2>1. m.off + Size(s, m) \in Nat /\ m.off + Size(s, m) < m.len
        /\ Size(s, m) > 0
    BY <1>1, SizeIsSome DEF Completes
  <2>2. /\ rest \in Ongoing /\ rest.off = m.off + Size(s, m)
        /\ rest.cid = m.cid /\ rest.type = m.type /\ rest.sid = m.sid
        /\ rest.ts = m.ts /\ rest.len = m.len /\ rest.size = m.size
        /\ rest.stamp = m.stamp
    BY <1>1, <2>1 DEF Ongoing
  <2> HIDE DEF rest
  <2>3. Underway(rest) /\ rest.off > 0
    BY <1>1, <2>1, <2>2, SizeIsSome DEF Underway
  <2>4. Told(m) = Told(rest)  BY <2>2 DEF Told
  <2> QED  BY <2>2, <2>3, <2>4 DEF SideOK
<1>4. /\ side \in Sides /\ SideOK(side, m.cid)
      /\ side.prev = Told(m)
      /\ Completes(s, m) => side.now = Idle
      /\ ~Completes(s, m) => side.now = rest
  <2> HIDE DEF rest
  <2>1. CASE Completes(s, m)
    <3>1. side = [prev |-> Told(m), now |-> Idle]  BY <2>1
    <3> QED  BY <1>2, <2>1, <3>1 DEF Sides, SideOK
  <2>2. CASE ~Completes(s, m)
    <3>1. side = [prev |-> Told(m), now |-> rest]  BY <2>2
    <3> QED  BY <1>2, <1>3, <2>2, <3>1 DEF Sides
  <2> QED  BY <2>1, <2>2
<1>5. t.peer = [s.peer EXCEPT ![m.cid] = side]  BY DEF After
<1> HIDE DEF side, rest
<1>7. /\ t.peer \in [Cids -> Sides] /\ t.peer[m.cid] = side
      /\ \A c \in Cids \ {m.cid} : t.peer[c] = s.peer[c]
  BY <1>1, <1>4, <1>5, <1>s
<1>8. \A c \in Cids : SideOK(t.peer[c], c)
  BY <1>4, <1>7, <1>s
<1>9. t.size \in Nat \ {0}
  <2>1. PICK x \in Pool : x.type = m.type /\ x.size = m.size
    BY <1>1 DEF Underway
  <2>2. m.type = SetChunkSize => m.size >= MinChunkSize
    BY <2>1, AnnouncedAssumption
  <2>3. m.size \in Nat  BY <1>1 DEF Ongoing
  <2> QED  BY <1>s, <2>2, <2>3, MinSizeAssumption DEF After
<1>10. t.done \in Seq(AllMessages)
  <2>1. Whole(m) \in AllMessages  BY <1>1, WholeIsMessage
  <2> QED  BY <1>s, <2>1 DEF After
<1>11. t = [peer |-> t.peer, size |-> t.size, done |-> t.done]  BY DEF After
<1>12. t \in States
  <2> HIDE DEF t
  <2> QED  BY <1>7, <1>8, <1>9, <1>10, <1>11 DEF States
<1> QED  BY <1>1, <1>4, <1>7, <1>12 DEF side, rest

(* A chunk changes nothing of the other chunk streams.                     *)
LEMMA AfterOthers ==
  ASSUME NEW s \in States, NEW m, NEW d \in Cids \ {m.cid}
  PROVE  After(s, m).peer[d] = s.peer[d]
BY DEF After, States

-----------------------------------------------------------------------------
(* The tokens of one chunk: its basic header, then its message header, its *)
(* extended timestamp and its payload.  A peer repeats the extended        *)
(* timestamp of a message in each of its chunks, style TRUE, or in none    *)
(* but the first.                                                          *)
WordSet == Nat \X Nat \X Nat
HeaderSet == [ts : Nat, len : Nat, type : Types, sid : StreamIds]
Token == [kind : {"basic"}, fmt : Formats, cid : Cids]
           \cup [kind : {"header"}, header : HeaderSet]
           \cup [kind : {"ext"}, time : Nat]
           \cup [kind : {"word"}, word : WordSet]

HeaderOf(m, f) ==
    IF f = 3 THEN << >>
    ELSE <<Header([ts |-> Least(m.stamp, Ext), len |-> m.len,
                   type |-> m.type, sid |-> m.sid])>>
ExtOf(m, e) == ExtendedIf(m.stamp >= Ext /\ (m.off = 0 \/ e), m.stamp)
PayloadOf(s, m) == WordTokens(m, m.off, Size(s, m))

AfterHeader(s, m, e) == ExtOf(m, e) \o PayloadOf(s, m)
AfterBasic(s, m, f, e) == HeaderOf(m, f) \o AfterHeader(s, m, e)
Tokens(s, m, f, e) == <<Basic(f, m.cid)>> \o AfterBasic(s, m, f, e)

(* The pieces of a chunk are sequences of tokens, the basic header first.  *)
LEMMA TokensType ==
  ASSUME NEW s \in States, NEW m \in Ongoing, NEW f \in Formats, NEW e,
         Underway(m)
  PROVE  /\ HeaderOf(m, f) \in Seq(Token) /\ ExtOf(m, e) \in Seq(Token)
         /\ PayloadOf(s, m) \in Seq(Token)
         /\ AfterHeader(s, m, e) \in Seq(Token)
         /\ AfterBasic(s, m, f, e) \in Seq(Token)
         /\ Tokens(s, m, f, e) \in Seq(Token)
         /\ Len(PayloadOf(s, m)) = Size(s, m)
         /\ Tokens(s, m, f, e) # << >>
         /\ Head(Tokens(s, m, f, e)) = Basic(f, m.cid)
         /\ Tail(Tokens(s, m, f, e)) = AfterBasic(s, m, f, e)
<1>1. HeaderOf(m, f) \in Seq(Token)
  <2>1. Least(m.stamp, Ext) \in Nat  BY TimeAssumption DEF Least, Ongoing
  <2>2. [ts |-> Least(m.stamp, Ext), len |-> m.len, type |-> m.type,
         sid |-> m.sid] \in HeaderSet
    BY <2>1 DEF HeaderSet, Ongoing
  <2> DEFINE h == [ts |-> Least(m.stamp, Ext), len |-> m.len,
                   type |-> m.type, sid |-> m.sid]
  <2>3. h \in HeaderSet  BY <2>2
  <2>4. HeaderOf(m, f) = IF f = 3 THEN << >> ELSE <<Header(h)>>
    BY DEF HeaderOf
  <2> HIDE DEF h
  <2>5. Header(h) \in Token  BY <2>3 DEF Header, Token
  <2> QED  BY <2>4, <2>5
<1>2. ExtOf(m, e) \in Seq(Token)
  <2>1. Extended(m.stamp) \in Token  BY DEF Extended, Token, Ongoing
  <2> HIDE DEF Token
  <2> QED  BY <2>1 DEF ExtOf, ExtendedIf
<1>3. PayloadOf(s, m) \in Seq(Token) /\ Len(PayloadOf(s, m)) = Size(s, m)
  <2> DEFINE n == Size(s, m)
             w(i) == WordAt(m, m.off + i)
  <2>1. n \in Nat /\ m.off \in Nat  BY SizeIsSome
  <2>2. \A i \in 1..n : Word(w(i)) \in Token
    <3>1. \A i \in 1..n : w(i) \in WordSet
      BY <2>1 DEF WordAt, WordSet, Ongoing
    <3> HIDE DEF w
    <3> QED  BY <3>1 DEF Word, Token
  <2>3. PayloadOf(s, m) = [i \in 1..n |-> Word(w(i))]
    BY DEF PayloadOf, WordTokens
  <2> HIDE DEF w, n
  <2>4. PayloadOf(s, m) \in Seq(Token) /\ Len(PayloadOf(s, m)) = n
    BY <2>1, <2>2, <2>3
  <2> QED  BY <2>4 DEF n
<1>4. Basic(f, m.cid) \in Token  BY DEF Basic, Token, Ongoing
<1>5. AfterHeader(s, m, e) \in Seq(Token)  BY <1>2, <1>3 DEF AfterHeader
<1>6. AfterBasic(s, m, f, e) \in Seq(Token)  BY <1>1, <1>5 DEF AfterBasic
<1>7. \A b \in Token, q \in Seq(Token) :
         /\ <<b>> \o q \in Seq(Token) /\ <<b>> \o q # << >>
         /\ Head(<<b>> \o q) = b /\ Tail(<<b>> \o q) = q
  <2> SUFFICES ASSUME NEW b \in Token, NEW q \in Seq(Token)
               PROVE  /\ <<b>> \o q \in Seq(Token) /\ <<b>> \o q # << >>
                      /\ Head(<<b>> \o q) = b /\ Tail(<<b>> \o q) = q
    OBVIOUS
  <2> HIDE DEF Token
  <2> QED  OBVIOUS
<1> QED  BY <1>1, <1>2, <1>3, <1>4, <1>5, <1>6, <1>7 DEF Tokens

-----------------------------------------------------------------------------
(* The tokens k take the peer from s to t: one chunk of one message.       *)
Sends(e, s, k, t) ==
    \E m \in Ongoing, f \in Formats :
        /\ MaySend(s, m, f)
        /\ k = Tokens(s, m, f, e) /\ t = After(s, m)

(* The tokens w take the peer from s to u, chunk by chunk: w, s and u are  *)
(* in every relation that has the empty step and can be extended by a      *)
(* chunk at its front.                                                     *)
Transits == Seq(Token) \X States \X States

ClosedUnder(e, R) ==
    /\ \A s \in States : <<<< >>, s, s>> \in R
    /\ \A s, t, u \in States : \A k, w \in Seq(Token) :
           Sends(e, s, k, t) /\ <<w, t, u>> \in R => <<k \o w, s, u>> \in R

Carries(e, w, s, u) ==
    /\ w \in Seq(Token) /\ s \in States /\ u \in States
    /\ \A R \in SUBSET Transits : ClosedUnder(e, R) => <<w, s, u>> \in R

(* A chunk has at least one token.                                         *)
LEMMA SendsType ==
  ASSUME NEW e, NEW s \in States, NEW k, NEW t, Sends(e, s, k, t)
  PROVE  k \in Seq(Token) /\ k # << >> /\ t \in States
<1>1. PICK m \in Ongoing, f \in Formats :
        MaySend(s, m, f) /\ k = Tokens(s, m, f, e) /\ t = After(s, m)
  BY DEF Sends
<1>2. Underway(m)  BY <1>1 DEF MaySend
<1> QED  BY <1>1, <1>2, AfterOK, TokensType

(* Nothing on the wire: the peer is where it was.                          *)
LEMMA CarriesNothing ==
  ASSUME NEW e, NEW s \in States
  PROVE  Carries(e, << >>, s, s)
<1>1. << >> \in Seq(Token)  OBVIOUS
<1> QED  BY <1>1 DEF Carries, ClosedUnder

(* A chunk in front of what is carried is carried as well.                 *)
LEMMA CarriesBefore ==
  ASSUME NEW e, NEW s \in States, NEW t, NEW u, NEW k, NEW w,
         Sends(e, s, k, t), Carries(e, w, t, u)
  PROVE  Carries(e, k \o w, s, u)
<1>1. k \in Seq(Token) /\ t \in States  BY SendsType
<1>2. w \in Seq(Token) /\ u \in States  BY DEF Carries
<1>3. k \o w \in Seq(Token)
  <2> HIDE DEF Token
  <2> QED  BY <1>1, <1>2
<1>4. ASSUME NEW R \in SUBSET Transits, ClosedUnder(e, R)
      PROVE  <<k \o w, s, u>> \in R
  <2>1. <<w, t, u>> \in R  BY <1>4 DEF Carries
  <2> QED  BY <1>1, <1>2, <1>4, <2>1 DEF ClosedUnder
<1> QED  BY <1>2, <1>3, <1>4 DEF Carries

(* Joining sequences of tokens is associative.                             *)
LEMMA JoinsTokens ==
  ASSUME NEW a \in Seq(Token), NEW b \in Seq(Token), NEW c \in Seq(Token)
  PROVE  /\ (a \o b) \o c = a \o (b \o c) /\ a \o b \in Seq(Token)
         /\ a \o << >> = a /\ << >> \o a = a
<1> HIDE DEF Token
<1> QED  OBVIOUS

Join(a, b) == a \o b

(* The brackets of a longer sequence of tokens, behind an operator.        *)
LEMMA JoinsFive ==
  ASSUME NEW w \in Seq(Token), NEW b \in Seq(Token), NEW h \in Seq(Token),
         NEW x \in Seq(Token), NEW p \in Seq(Token)
  PROVE  Join(Join(w, Join(Join(b, h), x)), p)
           = Join(w, Join(b, Join(h, Join(x, p))))
<1>1. \A y, z \in Seq(Token) : Join(y, z) \in Seq(Token)
  BY JoinsTokens DEF Join
<1>2. \A u, y, z \in Seq(Token) : Join(Join(u, y), z) = Join(u, Join(y, z))
  <2> SUFFICES ASSUME NEW u \in Seq(Token), NEW y \in Seq(Token),
                      NEW z \in Seq(Token)
               PROVE  Join(Join(u, y), z) = Join(u, Join(y, z))
    OBVIOUS
  <2>1. (u \o y) \o z = u \o (y \o z)  OBVIOUS
  <2> QED  BY <2>1 DEF Join
<1> HIDE DEF Token
<1>3. Join(Join(Join(b, h), x), p) = Join(b, Join(h, Join(x, p)))
  <2>1. Join(Join(Join(b, h), x), p) = Join(Join(b, h), Join(x, p))
    BY <1>1, <1>2
  <2>2. Join(Join(b, h), Join(x, p)) = Join(b, Join(h, Join(x, p)))
    BY <1>1, <1>2
  <2> QED  BY <2>1, <2>2
<1>4. Join(Join(w, Join(Join(b, h), x)), p)
        = Join(w, Join(Join(Join(b, h), x), p))
  BY <1>1, <1>2
<1> QED  BY <1>3, <1>4

(* A chunk sent is carried last.                                           *)
LEMMA CarriesMore ==
  ASSUME NEW e, NEW s, NEW u, NEW v, NEW k, NEW w,
         Carries(e, w, s, u), Sends(e, u, k, v)
  PROVE  Carries(e, w \o k, s, v)
<1>1. w \in Seq(Token) /\ s \in States /\ u \in States  BY DEF Carries
<1>2. k \in Seq(Token) /\ v \in States  BY <1>1, SendsType
<1>3. w \o k \in Seq(Token)  BY <1>1, <1>2, JoinsTokens
<1>4. ASSUME NEW R \in SUBSET Transits, ClosedUnder(e, R)
      PROVE  <<w \o k, s, v>> \in R
  <2> DEFINE Q == {x \in Transits :
                     x[3] = u => <<x[1] \o k, x[2], v>> \in R}
  <2>1. \A x1 \in Seq(Token), x2, x3 \in States :
           <<x1, x2, x3>> \in Q <=> (x3 = u => <<x1 \o k, x2, v>> \in R)
    BY DEF Transits
  <2>2. Q \in SUBSET Transits  OBVIOUS
  <2> HIDE DEF Q
  <2>3. ClosedUnder(e, Q)
    <3>1. ASSUME NEW x \in States PROVE <<<< >>, x, x>> \in Q
      <4>1. ASSUME x = u PROVE <<<< >> \o k, x, v>> \in R
        <5>1. <<<< >>, v, v>> \in R  BY <1>2, <1>4 DEF ClosedUnder
        <5>2. << >> \in Seq(Token)  OBVIOUS
        <5>3. <<k \o << >>, u, v>> \in R
          BY <1>1, <1>2, <1>4, <5>1, <5>2 DEF ClosedUnder
        <5> QED  BY <1>2, <4>1, <5>3, JoinsTokens
      <4>2. << >> \in Seq(Token)  OBVIOUS
      <4> QED  BY <2>1, <4>1, <4>2
    <3>2. ASSUME NEW x \in States, NEW y \in States, NEW z \in States,
                 NEW a \in Seq(Token), NEW b \in Seq(Token),
                 Sends(e, x, a, y), <<b, y, z>> \in Q
          PROVE  <<a \o b, x, z>> \in Q
      <4>1. ASSUME z = u PROVE <<(a \o b) \o k, x, v>> \in R
        <5>1. <<b \o k, y, v>> \in R  BY <2>1, <3>2, <4>1
        <5>2. b \o k \in Seq(Token)  BY <1>2, JoinsTokens
        <5>3. <<a \o (b \o k), x, v>> \in R
          BY <1>2, <1>4, <3>2, <5>1, <5>2 DEF ClosedUnder
        <5>4. (a \o b) \o k = a \o (b \o k)  BY <1>2, JoinsTokens
        <5> HIDE DEF Token
        <5> QED  BY <5>3, <5>4, Zenon
      <4>2. a \o b \in Seq(Token)  BY JoinsTokens
      <4> QED  BY <2>1, <4>1, <4>2
    <3> QED  BY <3>1, <3>2 DEF ClosedUnder
  <2>4. <<w, s, u>> \in Q  BY <2>2, <2>3 DEF Carries
  <2> QED  BY <1>1, <2>1, <2>4
<1> QED  BY <1>1, <1>2, <1>3, <1>4 DEF Carries

(* What is carried is nothing, or a chunk and what is carried behind it.   *)
LEMMA CarriesFirst ==
  ASSUME NEW e, NEW w, NEW s, NEW u, Carries(e, w, s, u)
  PROVE  \/ w = << >> /\ s = u
         \/ \E k, x \in Seq(Token) : \E t \in States :
               w = k \o x /\ Sends(e, s, k, t) /\ Carries(e, x, t, u)
<1> DEFINE Front(y, a, b) ==
             \/ y = << >> /\ a = b
             \/ \E k, x \in Seq(Token) : \E t \in States :
                   y = k \o x /\ Sends(e, a, k, t) /\ Carries(e, x, t, b)
           R == {x \in Transits : Front(x[1], x[2], x[3])}
<1>1. \A y \in Seq(Token), a, b \in States :
         <<y, a, b>> \in R <=> Front(y, a, b)
  BY DEF Transits
<1>2. R \in SUBSET Transits  OBVIOUS
<1> HIDE DEF R
<1>3. ClosedUnder(e, R)
  <2>1. ASSUME NEW a \in States PROVE <<<< >>, a, a>> \in R
    <3>1. << >> \in Seq(Token)  OBVIOUS
    <3> QED  BY <1>1, <3>1
  <2>2. ASSUME NEW a \in States, NEW b \in States, NEW c \in States,
               NEW k \in Seq(Token), NEW x \in Seq(Token),
               Sends(e, a, k, b), <<x, b, c>> \in R
        PROVE  <<k \o x, a, c>> \in R
    <3>1. Front(x, b, c)  BY <1>1, <2>2
    <3>2. Carries(e, x, b, c)
      <4>1. CASE x = << >> /\ b = c  BY <4>1, CarriesNothing
      <4>2. CASE \E h, y \in Seq(Token) : \E t \in States :
                    x = h \o y /\ Sends(e, b, h, t) /\ Carries(e, y, t, c)
        BY <4>2, CarriesBefore
      <4> QED  BY <3>1, <4>1, <4>2
    <3>3. Front(k \o x, a, c)  BY <2>2, <3>2
    <3>4. k \o x \in Seq(Token)  BY JoinsTokens
    <3> QED  BY <1>1, <3>3, <3>4
  <2> QED  BY <2>1, <2>2 DEF ClosedUnder
<1>4. <<w, s, u>> \in R /\ w \in Seq(Token) /\ s \in States /\ u \in States
  BY <1>2, <1>3 DEF Carries
<1> QED  BY <1>1, <1>4

(* What was sent whole stays sent.                                         *)
LEMMA CarriesDone ==
  ASSUME NEW e, NEW w, NEW s, NEW u, Carries(e, w, s, u)
  PROVE  /\ Len(s.done) <= Len(u.done)
         /\ \A i \in 1..Len(s.done) : u.done[i] = s.done[i]
<1> DEFINE Ahead(a, b) == /\ Len(a.done) <= Len(b.done)
                          /\ \A i \in 1..Len(a.done) : b.done[i] = a.done[i]
           R == {x \in Transits : Ahead(x[2], x[3])}
<1>1. \A y \in Seq(Token), a, b \in States : <<y, a, b>> \in R <=> Ahead(a, b)
  BY DEF Transits
<1>2. R \in SUBSET Transits  OBVIOUS
<1> HIDE DEF R
<1>d. \A a \in States : a.done \in Seq(AllMessages)  BY DEF States
<1>3. ClosedUnder(e, R)
  <2>1. ASSUME NEW a \in States PROVE <<<< >>, a, a>> \in R
    <3>1. << >> \in Seq(Token)  OBVIOUS
    <3>2. Ahead(a, a)  BY <1>d
    <3> QED  BY <1>1, <3>1, <3>2
  <2>2. ASSUME NEW a \in States, NEW b \in States, NEW c \in States,
               NEW k \in Seq(Token), NEW x \in Seq(Token),
               Sends(e, a, k, b), <<x, b, c>> \in R
        PROVE  <<k \o x, a, c>> \in R
    <3>1. Ahead(b, c)  BY <1>1, <2>2
    <3>2. PICK m \in Ongoing, f \in Formats :
            MaySend(a, m, f) /\ b = After(a, m)
      BY <2>2 DEF Sends
    <3>3. Whole(m) \in AllMessages  BY <3>2, WholeIsMessage DEF MaySend
    <3>4. b.done = Append(a.done, Whole(m)) \/ b.done = a.done
      BY <3>2 DEF After
    <3>5. Ahead(a, b)
      <4>1. CASE b.done = a.done  BY <1>d, <4>1
      <4>2. CASE b.done = Append(a.done, Whole(m))
        BY <1>d, <3>3, <4>2
      <4> QED  BY <3>4, <4>1, <4>2
    <3>6. Ahead(a, c)  BY <1>d, <3>1, <3>5
    <3>7. k \o x \in Seq(Token)  BY JoinsTokens
    <3> QED  BY <1>1, <3>6, <3>7
  <2> QED  BY <2>1, <2>2 DEF ClosedUnder
<1>4. <<w, s, u>> \in R /\ w \in Seq(Token) /\ s \in States /\ u \in States
  BY <1>2, <1>3 DEF Carries
<1> QED  BY <1>1, <1>4

-----------------------------------------------------------------------------
(* Where the reader is: what it remembers of a chunk stream is what the    *)
(* peer said last over it.                                                 *)
ChunkRecord ==
    [msg : BOOLEAN, body : Seq(WordSet), alloc : Nat, used : BOOLEAN,
     ts : Nat, delta : Nat, ext : BOOLEAN,
     len : Nat, type : Types \cup {0}, sid : StreamIds]

Sofar(m) == [i \in 1..m.off |-> WordAt(m, i)]

Knows(ch, prev) ==
    /\ ch.used = prev.sent /\ ch.ts = prev.ts % TMod
    /\ ch.delta = Least(prev.delta, Ext)
    /\ ch.ext = (prev.sent /\ prev.delta >= Ext)
    /\ ch.len = prev.len /\ ch.type = prev.type /\ ch.sid = prev.sid

Holds(ch, m) == ch.msg = m.active /\ ch.body = Sofar(m)

Agrees(ch, side) == Knows(ch, side.prev) /\ Holds(ch, side.now)

(* The reader is between two chunks, where the peer was in state s.        *)
Between(s) ==
    /\ rpc = "basic" /\ in_chunk_size = s.size /\ delivered = s.done
    /\ \A c \in Cids : Agrees(chunk[c], s.peer[c])

(* The reader is within the chunk of m that the peer sent in state s: it   *)
(* still has left to read of it.                                           *)
Reading(s, m, f, left) ==
    LET ch == chunk[m.cid]
    IN  /\ in_chunk_size = s.size /\ delivered = s.done
        /\ cur = [fmt |-> f, cid |-> m.cid, first |-> m.off = 0]
        /\ \A c \in Cids \ {m.cid} : Agrees(chunk[c], s.peer[c])
        /\ \/ /\ rpc = "header" /\ left = AfterBasic(s, m, f, repeats_ext)
              /\ f # 3 /\ Knows(ch, s.peer[m.cid].prev) /\ Holds(ch, m)
           \/ /\ rpc = "ext" /\ left = AfterHeader(s, m, repeats_ext)
              /\ m.stamp >= Ext
              /\ Knows([ch EXCEPT !.ts = m.ts % TMod, !.used = TRUE], Told(m))
              /\ Holds(ch, m) /\ (m.off > 0 => ch.ts = m.ts % TMod)
           \/ /\ rpc = "payload" /\ left = PayloadOf(s, m)
              /\ Knows(ch, Told(m)) /\ Holds(ch, m)
           \/ /\ rpc = "dispatch" /\ left = << >> /\ Completes(s, m)
              /\ Knows(ch, Told(m)) /\ Holds(ch, Idle) /\ got = Whole(m)

InsideChunk(s, m, f, left, rest) ==
    /\ MaySend(s, m, f) /\ Reading(s, m, f, left)
    /\ wire = left \o rest /\ Carries(repeats_ext, rest, After(s, m), View)

Followed ==
    \/ \E s \in States : Between(s) /\ Carries(repeats_ext, wire, s, View)
    \/ \E s \in States, m \in Ongoing, f \in Formats,
          left, rest \in Seq(Token) : InsideChunk(s, m, f, left, rest)

PeerTypeOK ==
    /\ repeats_ext \in ExtStyles /\ started \in Nat /\ View \in States
    /\ wire \in Seq(Token) /\ chunk \in [Cids -> ChunkRecord]
    /\ status \in {"ok", "io"}

PInv == PeerTypeOK /\ (status = "ok" => Followed)

(* A peer that does not repeat extended timestamps sends none that the     *)
(* reader takes a word of payload for; WordAsTime is what a word reads as. *)
Tellable ==
    \A x \in Pool : x.ts >= Ext /\ FALSE \in ExtStyles =>
                        x.ts % TMod \notin {0, WordAsTime % TMod}

(* Nothing was sent and nothing was read.                                  *)
LEMMA InitPeer ==
  ASSUME Init
  PROVE  PInv
<1> USE DEF Init, SocketInit, ReaderInit
<1>1. View \in States
  <2>1. View = [peer |-> peer, size |-> FirstChunkSize, done |-> << >>]
    BY DEF View
  <2>2. [prev |-> NeverSent, now |-> Idle] \in Sides  BY DEF Sides
  <2>3. peer \in [Cids -> Sides]  BY <2>2
  <2>4. \A c \in Cids : SideOK(peer[c], c)  BY DEF SideOK
  <2>5. << >> \in Seq(AllMessages)  OBVIOUS
  <2> QED  BY <2>1, <2>3, <2>4, <2>5, ChunkSizeAssumption DEF States
<1>2. FreshChunk \in ChunkRecord
  <2>1. << >> \in Seq(WordSet)  OBVIOUS
  <2> QED  BY <2>1, StreamAssumption DEF FreshChunk, ChunkRecord
<1>3. PeerTypeOK
  <2>1. << >> \in Seq(Token)  OBVIOUS
  <2> QED  BY <1>1, <1>2, <2>1 DEF PeerTypeOK
<1>4. Between(View)
  <2>1. Knows(FreshChunk, NeverSent)
    <3>1. 0 % TMod = 0  BY Masked
    <3>2. Least(0, Ext) = 0  BY TimeAssumption DEF Least
    <3> QED  BY <3>1, <3>2 DEF Knows, FreshChunk, NeverSent
  <2>2. Holds(FreshChunk, Idle)
    <3>1. Sofar(Idle) = << >>  BY DEF Sofar, Idle
    <3> QED  BY <3>1 DEF Holds, FreshChunk, Idle
  <2>3. \A c \in Cids : Agrees(chunk[c], peer[c])
    BY <2>1, <2>2 DEF Agrees
  <2> QED  BY <2>3 DEF Between, View
<1>5. Carries(repeats_ext, wire, View, View)  BY <1>1, CarriesNothing
<1> QED  BY <1>1, <1>3, <1>4, <1>5 DEF PInv, Followed

-----------------------------------------------------------------------------
(* The peer sends a chunk: what is on the wire grows at its end.           *)
LEMMA PeerSends ==
  ASSUME PInv, NEW k, Sends(repeats_ext, View, k, View'),
         wire' = wire \o k, UNCHANGED <<readerVars, delivered, repeats_ext>>,
         started' \in Nat
  PROVE  PInv'
<1> USE DEF readerVars
<1>1. View \in States /\ wire \in Seq(Token)  BY DEF PInv, PeerTypeOK
<1>2. k \in Seq(Token) /\ View' \in States  BY <1>1, SendsType
<1>3. PeerTypeOK'
  <2>1. wire' \in Seq(Token)  BY <1>1, <1>2, JoinsTokens
  <2> QED  BY <1>2, <2>1 DEF PInv, PeerTypeOK
<1>4. ASSUME NEW s \in States, Between(s), Carries(repeats_ext, wire, s, View)
      PROVE  Followed'
  <2>1. Between(s)'  BY <1>4 DEF Between
  <2>2. Carries(repeats_ext', wire', s, View')  BY <1>4, CarriesMore
  <2> QED  BY <2>1, <2>2 DEF Followed
<1>5. ASSUME NEW s \in States, NEW m \in Ongoing, NEW f \in Formats,
             NEW left \in Seq(Token), NEW rest \in Seq(Token),
             InsideChunk(s, m, f, left, rest)
      PROVE  Followed'
  <2>1. Carries(repeats_ext', rest \o k, After(s, m), View')
    BY <1>5, CarriesMore DEF InsideChunk
  <2>2. Reading(s, m, f, left)'  BY <1>5 DEF InsideChunk, Reading
  <2>3. (left \o rest) \o k = left \o (rest \o k)  BY <1>2, JoinsTokens
  <2>4. wire' = left \o (rest \o k)  BY <1>5, <2>3 DEF InsideChunk
  <2>5. rest \o k \in Seq(Token)  BY <1>2, JoinsTokens
  <2>6. InsideChunk(s, m, f, left, rest \o k)'
    BY <1>5, <2>1, <2>2, <2>4 DEF InsideChunk
  <2> QED  BY <2>5, <2>6 DEF Followed
<1> QED  BY <1>3, <1>4, <1>5 DEF PInv, Followed

(* A chunk that the peer may send, against what was sent before it.        *)
LEMMA Starting ==
  ASSUME NEW s \in States, NEW m \in Ongoing, NEW f \in Formats,
         MaySend(s, m, f)
  PROVE  \/ m.off = 0 /\ Opens(s, m, f)
         \/ /\ m.off > 0 /\ f = 3 /\ s.peer[m.cid].now = m
            /\ s.peer[m.cid].prev = Told(m)
<1> DEFINE side == s.peer[m.cid]
<1>1. SideOK(side, m.cid)  BY DEF States, Ongoing
<1>2. CASE Opens(s, m, f)  BY <1>2 DEF Opens
<1>3. CASE GoesOn(s, m, f)
  <2>1. side.now = m /\ m.off > 0 /\ f = 3  BY <1>3 DEF GoesOn
  <2>2. m.active = TRUE  BY DEF Ongoing
  <2>3. m # Idle  BY <2>2 DEF Idle
  <2>4. side.prev = Told(m)  BY <1>1, <2>1, <2>3 DEF SideOK
  <2> QED  BY <2>1, <2>4
<1> QED  BY <1>2, <1>3 DEF MaySend

(* What is on the wire between two chunks begins with a chunk.             *)
StartsWith(w, s, m, f, e, rest) ==
    /\ w # << >> /\ Head(w) = Basic(f, m.cid)
    /\ Tail(w) = AfterBasic(s, m, f, e) \o rest

(* Between two chunks, what is on the wire is a chunk and what follows.    *)
LEMMA ChunkAhead ==
  ASSUME NEW e, NEW s \in States, NEW w, w # << >>, NEW u, Carries(e, w, s, u)
  PROVE  \E m \in Ongoing, f \in Formats, rest \in Seq(Token) :
             /\ MaySend(s, m, f) /\ Carries(e, rest, After(s, m), u)
             /\ StartsWith(w, s, m, f, e, rest)
<1>1. PICK k \in Seq(Token), rest \in Seq(Token), t \in States :
        w = k \o rest /\ Sends(e, s, k, t) /\ Carries(e, rest, t, u)
  BY CarriesFirst
<1>2. PICK m \in Ongoing, f \in Formats :
        MaySend(s, m, f) /\ k = Tokens(s, m, f, e) /\ t = After(s, m)
  BY <1>1 DEF Sends
<1>3. Underway(m)  BY <1>2 DEF MaySend
<1>4. Basic(f, m.cid) \in Token  BY DEF Basic, Token, Ongoing
<1>5. AfterBasic(s, m, f, e) \in Seq(Token)  BY <1>3, TokensType
<1>6. \A b \in Token, x, y \in Seq(Token) :
         /\ Head((<<b>> \o x) \o y) = b /\ Tail((<<b>> \o x) \o y) = x \o y
  <2> SUFFICES ASSUME NEW b \in Token, NEW x \in Seq(Token),
                      NEW y \in Seq(Token)
               PROVE  /\ Head((<<b>> \o x) \o y) = b
                      /\ Tail((<<b>> \o x) \o y) = x \o y
    OBVIOUS
  <2> HIDE DEF Token
  <2> DEFINE z == x \o y
  <2>1. (<<b>> \o x) \o y = <<b>> \o z /\ z \in Seq(Token)
    BY JoinsTokens
  <2> HIDE DEF z
  <2>2. Head(<<b>> \o z) = b /\ Tail(<<b>> \o z) = z  BY <2>1
  <2> QED  BY <2>1, <2>2 DEF z
<1>7. w = (<<Basic(f, m.cid)>> \o AfterBasic(s, m, f, e)) \o rest
  BY <1>1, <1>2 DEF Tokens
<1>8. Head(w) = Basic(f, m.cid) /\ Tail(w) = AfterBasic(s, m, f, e) \o rest
  BY <1>4, <1>5, <1>6, <1>7
<1>9. StartsWith(w, s, m, f, e, rest)  BY <1>8 DEF StartsWith
<1> QED  BY <1>1, <1>2, <1>9

(* Where the reader stands after a step is all that is left to show of it. *)
LEMMA GoesBetween ==
  ASSUME PInv, status' = "ok", UNCHANGED senderVars,
         chunk' \in [Cids -> ChunkRecord], wire' \in Seq(Token),
         NEW s \in States, Between(s)', Carries(repeats_ext, wire', s, View)
  PROVE  PInv'
<1>1. View' = View /\ repeats_ext' = repeats_ext /\ started' = started
  BY DEF View, senderVars
<1> QED  BY <1>1 DEF PInv, PeerTypeOK, Followed

(* The same within a chunk.                                                *)
LEMMA GoesInside ==
  ASSUME PInv, status' = "ok", UNCHANGED senderVars,
         chunk' \in [Cids -> ChunkRecord], wire' \in Seq(Token),
         NEW s \in States, NEW m \in Ongoing, NEW f \in Formats,
         NEW left \in Seq(Token), NEW rest \in Seq(Token),
         MaySend(s, m, f), Reading(s, m, f, left)', wire' = left \o rest,
         Carries(repeats_ext, rest, After(s, m), View)
  PROVE  PInv'
<1>1. View' = View /\ repeats_ext' = repeats_ext /\ started' = started
  BY DEF View, senderVars
<1>2. InsideChunk(s, m, f, left, rest)'  BY <1>1 DEF InsideChunk
<1> QED  BY <1>1, <1>2 DEF PInv, PeerTypeOK, Followed

(* What of a stream the reader changes while it reads a chunk over it.     *)
LEMMA OneStream ==
  ASSUME NEW c \in Cids, NEW ch \in ChunkRecord,
         chunk \in [Cids -> ChunkRecord], chunk' = [chunk EXCEPT ![c] = ch]
  PROVE  /\ chunk' \in [Cids -> ChunkRecord] /\ chunk'[c] = ch
         /\ \A d \in Cids \ {c} : chunk'[d] = chunk[d]
OBVIOUS

(* A basic header is taken for the chunk the peer began with it: the       *)
(* reader refuses none, and knows whether a message header follows.        *)
LEMMA BasicUnderstood ==
  ASSUME PInv, status = "ok", TakesBasicHeader, UNCHANGED senderVars
  PROVE  PInv'
<1>1. /\ rpc = "basic" /\ wire # << >> /\ wire' = Tail(wire)
      /\ ReadBasicHeader(Head(wire).fmt, Head(wire).cid)
      /\ delivered' = delivered
  BY DEF TakesBasicHeader, NextIs, ReadBasicHeader
<1>2. PICK s \in States : Between(s) /\ Carries(repeats_ext, wire, s, View)
  BY <1>1 DEF PInv, Followed, InsideChunk, Reading
<1>3. PICK m \in Ongoing, f \in Formats, rest \in Seq(Token) :
        /\ MaySend(s, m, f) /\ Carries(repeats_ext, rest, After(s, m), View)
        /\ StartsWith(wire, s, m, f, repeats_ext, rest)
  BY <1>1, <1>2, ChunkAhead
<1>h. /\ Head(wire) = Basic(f, m.cid)
      /\ Tail(wire) = AfterBasic(s, m, f, repeats_ext) \o rest
  BY <1>3 DEF StartsWith
<1> DEFINE c == m.cid
           ch == chunk[c]
           side == s.peer[c]
           opened == [ch EXCEPT !.msg = TRUE]
           repeated == [opened EXCEPT !.ts = TimestampFmt3(opened, ~ch.msg)]
           done == [repeated EXCEPT !.ts = repeated.ts % TMod, !.used = TRUE]
<1>4. c \in Cids /\ Underway(m) /\ m.off \in Nat /\ m.stamp \in Nat
  BY <1>3 DEF MaySend, Ongoing
<1>5. ch \in ChunkRecord /\ chunk \in [Cids -> ChunkRecord]
  BY <1>4 DEF PInv, PeerTypeOK
<1>s. \/ m.off = 0 /\ Opens(s, m, f)
      \/ m.off > 0 /\ f = 3 /\ side.now = m /\ side.prev = Told(m)
  BY <1>3, Starting
<1>6. /\ Knows(ch, side.prev) /\ ch.body = Sofar(m)
      /\ m.off > 0 => ch.msg = TRUE
      /\ m.off = 0 => ch.msg = FALSE
  <2>1. Knows(ch, side.prev) /\ ch.msg = side.now.active
        /\ ch.body = Sofar(side.now)
    BY <1>2, <1>4 DEF Between, Agrees, Holds
  <2> HIDE DEF side
  <2>2. CASE m.off = 0 /\ Opens(s, m, f)
    <3>1. side.now = Idle  BY <2>2 DEF Opens, side
    <3>2. Sofar(m) = << >>  BY <2>2 DEF Sofar
    <3>3. Sofar(Idle) = << >>  BY DEF Sofar, Idle
    <3>4. Idle.active = FALSE  BY DEF Idle
    <3> QED  BY <2>1, <2>2, <3>1, <3>2, <3>3, <3>4
  <2>3. CASE m.off > 0 /\ side.now = m
    <3>1. m.active = TRUE  BY DEF Ongoing
    <3>2. m.off # 0  BY <1>4, <2>3
    <3> QED  BY <2>1, <2>3, <3>1, <3>2
  <2> QED  BY <1>s, <2>2, <2>3
<1>7. ~BadStart(f, c)
  <2>1. CASE m.off = 0 /\ Opens(s, m, f)
    BY <1>6, <2>1 DEF BadStart, Knows, Opens
  <2>2. CASE m.off > 0 /\ f = 3 /\ side.prev = Told(m)
    BY <1>6, <2>2 DEF BadStart, Knows, Told
  <2> QED  BY <1>s, <2>1, <2>2
<1>8. ReadBasicHeader(f, c)
  BY <1>1, <1>h DEF Basic
<1>9. /\ cur' = [fmt |-> f, cid |-> c, first |-> m.off = 0]
      /\ status' = "ok" /\ in_chunk_size' = s.size /\ delivered' = s.done
      /\ \/ /\ f # 3 /\ rpc' = "header" /\ chunk' = [chunk EXCEPT ![c] = opened]
         \/ /\ f = 3 /\ ch.ext
            /\ rpc' = "ext" /\ chunk' = [chunk EXCEPT ![c] = repeated]
         \/ /\ f = 3 /\ ~ch.ext
            /\ rpc' = "payload" /\ chunk' = [chunk EXCEPT ![c] = done]
  <2>1. opened.ext = ch.ext  BY <1>5 DEF ChunkRecord
  <2>2. in_chunk_size = s.size /\ delivered = s.done  BY <1>2 DEF Between
  <2>3. /\ m.off = 0 => ~ch.msg
        /\ m.off # 0 => ch.msg
    BY <1>4, <1>6
  <2>4. (~ch.msg) = (m.off = 0)  BY <2>3, Zenon
  <2> QED
    BY <1>1, <1>7, <1>8, <2>1, <2>2, <2>4 DEF ReadBasicHeader, HeaderDone
<1>10. opened \in ChunkRecord /\ opened.msg = TRUE /\ opened.body = ch.body
       /\ Knows(opened, side.prev)
       /\ opened.ts = ch.ts /\ opened.ext = ch.ext /\ opened.delta = ch.delta
  BY <1>5, <1>6 DEF ChunkRecord, Knows
<1>11. wire' = AfterBasic(s, m, f, repeats_ext) \o rest
       /\ AfterBasic(s, m, f, repeats_ext) \in Seq(Token)
       /\ wire' \in Seq(Token)
  <2>1. AfterBasic(s, m, f, repeats_ext) \in Seq(Token)
    BY <1>4, TokensType
  <2> QED  BY <1>1, <1>h, <2>1, JoinsTokens
<1>12. \A d \in Cids \ {c} : Agrees(chunk[d], s.peer[d])
  BY <1>2 DEF Between
<1>13. m.active = TRUE  BY DEF Ongoing
<1>e. repeats_ext' = repeats_ext  BY DEF senderVars
<1>14. CASE f # 3
  <2>0. PICK left \in Seq(Token) : left = AfterBasic(s, m, f, repeats_ext)
    BY <1>11
  <2> HIDE DEF opened, repeated, done
  <2>1. /\ chunk' \in [Cids -> ChunkRecord] /\ chunk'[c] = opened
        /\ \A d \in Cids \ {c} : chunk'[d] = chunk[d]
    BY <1>4, <1>5, <1>9, <1>10, <1>14, OneStream
  <2>2. Reading(s, m, f, left)'
    <3>2. Holds(opened, m)  BY <1>6, <1>10, <1>13 DEF Holds
    <3> QED  BY <1>9, <1>10, <1>12, <1>14, <1>e, <2>0, <2>1, <3>2 DEF Reading
  <2> QED  BY <1>3, <1>9, <1>11, <2>0, <2>1, <2>2, GoesInside
<1>15. CASE f = 3
  <2>1. HeaderOf(m, f) = << >>  BY <1>15 DEF HeaderOf
  <2>2. /\ AfterBasic(s, m, f, repeats_ext) = AfterHeader(s, m, repeats_ext)
        /\ AfterHeader(s, m, repeats_ext) \in Seq(Token)
        /\ PayloadOf(s, m) \in Seq(Token)
    BY <1>4, <2>1, TokensType, JoinsTokens DEF AfterBasic
  <2>3. side.prev.sent /\ side.prev.len = m.len /\ side.prev.type = m.type
        /\ side.prev.sid = m.sid /\ side.prev.delta = m.stamp
        /\ side.prev.ts \in Nat
        /\ (m.off > 0 => side.prev = Told(m))
        /\ (m.off = 0 => m.ts = side.prev.ts + m.stamp /\ m.stamp < Ext)
    <3>1. CASE m.off > 0
      <4>1. side.prev = Told(m)  BY <1>4, <1>s, <3>1
      <4> QED  BY <3>1, <4>1 DEF Told, Ongoing
    <3>2. CASE m.off = 0
      <4>1. Opens(s, m, f)  BY <1>s, <3>2
      <4>2. side.prev.sent /\ side.prev \in {NeverSent} \cup SentBefore
        BY <1>4, <1>15, <4>1 DEF Opens, States, Sides
      <4>3. side.prev.ts \in Nat
        <5>1. \A p \in {NeverSent} \cup SentBefore : p.ts \in Nat
          <6>1. NeverSent.ts \in Nat  BY DEF NeverSent
          <6>2. \A p \in SentBefore : p.ts \in Nat  BY DEF SentBefore
          <6> QED  BY <6>1, <6>2
        <5> QED  BY <4>2, <5>1
      <4> QED  BY <1>15, <3>2, <4>1, <4>2, <4>3 DEF Opens
    <3> QED  BY <1>4, <3>1, <3>2
  <2>4. ch.ext = (m.stamp >= Ext)
    BY <1>6, <2>3 DEF Knows
  <2>5. CASE m.stamp >= Ext
    <3>1. m.off > 0  BY <1>4, <2>3, <2>5, TimeAssumption
    <3>2. side.prev = Told(m) /\ ch.msg  BY <1>6, <2>3, <3>1
    <3>3. TimestampFmt3(opened, ~ch.msg) = ch.ts
      BY <1>10, <3>2 DEF TimestampFmt3
    <3>4. repeated = opened  BY <1>5, <1>10, <3>3 DEF ChunkRecord
    <3>5. ch.ts = m.ts % TMod  BY <1>6, <3>2 DEF Knows, Told
    <3>6. Knows([opened EXCEPT !.ts = m.ts % TMod, !.used = TRUE], Told(m))
      BY <1>10, <3>2, <3>5 DEF Knows, ChunkRecord, Told
    <3> HIDE DEF opened, repeated, done
    <3>7. /\ chunk' \in [Cids -> ChunkRecord] /\ chunk'[c] = opened
          /\ \A d \in Cids \ {c} : chunk'[d] = chunk[d]
      BY <1>4, <1>5, <1>9, <1>10, <1>15, <2>4, <2>5, <3>4, OneStream
    <3>0. PICK left \in Seq(Token) : left = AfterHeader(s, m, repeats_ext)
      BY <2>2
    <3>8. Reading(s, m, f, left)'
      <4>2. Holds(opened, m)  BY <1>6, <1>10, <1>13 DEF Holds
      <4> QED  BY <1>9, <1>10, <1>12, <1>15, <1>e, <2>4, <2>5, <3>0, <3>5,
                  <3>6, <3>7, <4>2 DEF Reading
    <3> QED  BY <1>3, <1>9, <1>11, <2>2, <3>0, <3>7, <3>8, GoesInside
  <2>6. CASE ~(m.stamp >= Ext)
    <3>1. ExtOf(m, repeats_ext) = << >>  BY <2>6 DEF ExtOf, ExtendedIf
    <3>2. AfterHeader(s, m, repeats_ext) = PayloadOf(s, m)
      BY <2>2, <3>1, JoinsTokens DEF AfterHeader
    <3>3. repeated.ts % TMod = m.ts % TMod /\ repeated.ts \in Nat
      <4>1. ch.delta = m.stamp
        BY <1>4, <1>6, <2>3, <2>6, TimeAssumption DEF Knows, Least
      <4>2. ch.ts = side.prev.ts % TMod  BY <1>6 DEF Knows
      <4>3. repeated.ts = TimestampFmt3(opened, ~ch.msg)
        BY <1>5 DEF ChunkRecord
      <4>4. CASE m.off = 0
        <5>0. ~ch.msg /\ ~opened.ext  BY <1>6, <1>10, <2>4, <2>6, <4>4
        <5>1. repeated.ts = (side.prev.ts % TMod) + m.stamp
          BY <1>10, <4>1, <4>2, <4>3, <5>0 DEF TimestampFmt3
        <5>2. m.ts = side.prev.ts + m.stamp  BY <2>3, <4>4
        <5>3. ((side.prev.ts % TMod) + m.stamp) % TMod
                 = (side.prev.ts + m.stamp) % TMod
          BY <1>4, <2>3, Masked
        <5>4. side.prev.ts % TMod \in Nat  BY <2>3, Masked
        <5> QED  BY <1>4, <5>1, <5>2, <5>3, <5>4
      <4>5. CASE m.off > 0
        <5>1. repeated.ts = ch.ts
          BY <1>6, <1>10, <4>3, <4>5 DEF TimestampFmt3
        <5>2. ch.ts = m.ts % TMod /\ m.ts \in Nat
          BY <2>3, <4>2, <4>5 DEF Told, Ongoing
        <5> QED  BY <5>1, <5>2, Masked
      <4> QED  BY <1>4, <4>4, <4>5
    <3>4. done \in ChunkRecord /\ Knows(done, Told(m))
          /\ done.msg = TRUE /\ done.body = ch.body
      <4>0. repeated \in ChunkRecord /\ repeated.msg = TRUE
            /\ repeated.body = ch.body /\ repeated.delta = ch.delta
            /\ repeated.ext = ch.ext /\ repeated.len = ch.len
            /\ repeated.type = ch.type /\ repeated.sid = ch.sid
        BY <1>5, <1>10, <3>3 DEF ChunkRecord
      <4> HIDE DEF repeated
      <4>1. repeated.ts % TMod \in Nat  BY <3>3, Masked
      <4>2. /\ done \in ChunkRecord /\ done.ts = m.ts % TMod /\ done.used
            /\ done.msg = TRUE
            /\ done.body = ch.body /\ done.delta = ch.delta
            /\ done.ext = ch.ext /\ done.len = ch.len
            /\ done.type = ch.type /\ done.sid = ch.sid
        BY <3>3, <4>0, <4>1 DEF ChunkRecord
      <4> HIDE DEF done
      <4>3. Knows(done, Told(m))
        BY <1>6, <2>3, <2>4, <4>2 DEF Knows, Told, ChunkRecord
      <4> QED  BY <4>2, <4>3
    <3> HIDE DEF opened, repeated, done
    <3>7. /\ chunk' \in [Cids -> ChunkRecord] /\ chunk'[c] = done
          /\ \A d \in Cids \ {c} : chunk'[d] = chunk[d]
      BY <1>4, <1>5, <1>9, <1>15, <2>4, <2>6, <3>4, OneStream
    <3>8. Reading(s, m, f, PayloadOf(s, m))'
      <4>2. Holds(done, m)  BY <1>6, <1>13, <3>4 DEF Holds
      <4> QED  BY <1>9, <1>12, <1>15, <2>4, <2>6, <3>4, <3>7, <4>2 DEF Reading
    <3> QED  BY <1>3, <1>9, <1>11, <2>2, <3>2, <3>7, <3>8, GoesInside
  <2> QED  BY <2>5, <2>6
<1> QED  BY <1>14, <1>15

(* The token that the reader takes is the first of what is left.           *)
LEMMA FirstLeft ==
  ASSUME NEW b \in Token, NEW q \in Seq(Token), NEW rest \in Seq(Token),
         NEW left, left = <<b>> \o q, wire = left \o rest
  PROVE  Head(wire) = b /\ Tail(wire) = q \o rest
<1> HIDE DEF Token
<1> DEFINE z == q \o rest
<1>1. wire = <<b>> \o z /\ z \in Seq(Token)  BY JoinsTokens
<1> HIDE DEF z
<1>2. Head(wire) = b /\ Tail(wire) = z  BY <1>1, SMTT(30)
<1> QED  BY <1>2 DEF z

(* A message header tells the reader what the peer meant, the fields left  *)
(* out included.                                                           *)
LEMMA HeaderUnderstood ==
  ASSUME PInv, status = "ok", TakesMessageHeader, UNCHANGED senderVars
  PROVE  PInv'
<1>1. /\ rpc = "header" /\ wire # << >> /\ wire' = Tail(wire)
      /\ ReadMessageHeader(Head(wire).header)
      /\ delivered' = delivered
  BY DEF TakesMessageHeader, NextIs, ReadMessageHeader
<1>2. PICK s \in States, m \in Ongoing, f \in Formats,
           left \in Seq(Token), rest \in Seq(Token) :
        InsideChunk(s, m, f, left, rest)
  BY <1>1 DEF PInv, Followed, Between
<1> DEFINE c == m.cid
           ch == chunk[c]
           prev == s.peer[c].prev
           h == [ts |-> Least(m.stamp, Ext), len |-> m.len,
                 type |-> m.type, sid |-> m.sid]
<1>3. /\ MaySend(s, m, f) /\ wire = left \o rest
      /\ Carries(repeats_ext, rest, After(s, m), View)
  BY <1>2 DEF InsideChunk
<1>4. /\ in_chunk_size = s.size /\ delivered = s.done
      /\ cur = [fmt |-> f, cid |-> c, first |-> m.off = 0]
      /\ \A d \in Cids \ {c} : Agrees(chunk[d], s.peer[d])
      /\ left = AfterBasic(s, m, f, repeats_ext)
      /\ f # 3 /\ Knows(ch, prev) /\ Holds(ch, m)
  BY <1>1, <1>2 DEF InsideChunk, Reading
<1>5. c \in Cids /\ Underway(m) /\ m.stamp \in Nat /\ m.ts \in Nat
      /\ m.len \in Nat /\ m.type \in Types /\ m.sid \in StreamIds
  BY <1>3 DEF MaySend, Ongoing
<1>6. ch \in ChunkRecord /\ chunk \in [Cids -> ChunkRecord]
  BY <1>5 DEF PInv, PeerTypeOK
<1>7. m.off = 0 /\ Opens(s, m, f)  BY <1>3, <1>4, Starting
<1>8. f \in 0..2  BY <1>4 DEF Formats
<1>9. prev \in {NeverSent} \cup SentBefore  BY <1>5 DEF States, Sides
<1>10. prev.ts \in Nat /\ (~prev.sent => prev.ts = 0 /\ prev.sid = 0)
  <2>1. NeverSent.ts = 0 /\ NeverSent.sid = 0  BY DEF NeverSent
  <2>2. \A p \in SentBefore : p.ts \in Nat /\ p.sent = TRUE  BY DEF SentBefore
  <2> HIDE DEF prev
  <2> QED  BY <1>9, <2>1, <2>2
<1>11. /\ f = 0 => m.ts = m.stamp
       /\ f # 0 => m.ts = prev.ts + m.stamp /\ m.sid = prev.sid
                   /\ m.stamp < Ext
       /\ f = 2 => m.len = prev.len /\ m.type = prev.type
  BY <1>5, <1>7, <1>8, <1>10 DEF Opens
<1>12. /\ h.ts \in Nat /\ h.ts = Least(m.stamp, Ext)
       /\ (h.ts >= Ext) = (m.stamp >= Ext) /\ (m.stamp < Ext => h.ts = m.stamp)
       /\ h.len = m.len /\ h.type = m.type /\ h.sid = m.sid
  BY <1>5, TimeAssumption DEF Least
<1>13. Head(wire).header = h /\ wire' = AfterHeader(s, m, repeats_ext) \o rest
       /\ AfterHeader(s, m, repeats_ext) \in Seq(Token) /\ wire' \in Seq(Token)
  <2>1. AfterHeader(s, m, repeats_ext) \in Seq(Token)  BY <1>5, TokensType
  <2>2. h \in HeaderSet
    <3>1. Least(m.stamp, Ext) \in Nat  BY <1>12
    <3> QED  BY <1>5, <3>1 DEF HeaderSet
  <2>3. HeaderOf(m, f) = <<Header(h)>>  BY <1>4 DEF HeaderOf
  <2> HIDE DEF h
  <2>4. Header(h) \in Token  BY <2>2 DEF Header, Token
  <2>5. left = <<Header(h)>> \o AfterHeader(s, m, repeats_ext)
    BY <1>4, <2>3 DEF AfterBasic
  <2>6. Head(wire) = Header(h)
        /\ Tail(wire) = AfterHeader(s, m, repeats_ext) \o rest
    BY <1>3, <2>1, <2>4, <2>5, FirstLeft
  <2>7. Head(wire).header = h  BY <2>6 DEF Header
  <2>8. AfterHeader(s, m, repeats_ext) \o rest \in Seq(Token)
    BY <2>1, JoinsTokens
  <2> QED  BY <1>1, <2>1, <2>6, <2>7, <2>8
<1> HIDE DEF h, prev
<1> DEFINE timed == [chunk[cur.cid] EXCEPT !.delta = h.ts, !.ext = h.ts >= Ext,
                               !.ts = TimestampOf(chunk[cur.cid], h)]
           sized == IF cur.fmt <= 1
                    THEN [timed EXCEPT !.len = h.len, !.type = h.type,
                             !.sid = IF cur.fmt = 0 THEN h.sid ELSE timed.sid]
                    ELSE timed
           done == [sized EXCEPT !.ts = sized.ts % TMod, !.used = TRUE]
<1>c. cur.cid = c /\ cur.fmt = f /\ cur.first = (m.off = 0)  BY <1>4
<1>14. /\ status' = "ok" /\ in_chunk_size' = s.size /\ delivered' = s.done
       /\ cur' = cur
       /\ IF sized.ext
          THEN rpc' = "ext" /\ chunk' = [chunk EXCEPT ![c] = sized]
          ELSE rpc' = "payload" /\ chunk' = [chunk EXCEPT ![c] = done]
  <2>1. ReadMessageHeader(h)  BY <1>1, <1>13
  <2>2. ~ChangesLength(h)  BY <1>7, <1>c DEF ChangesLength
  <2>3. /\ UNCHANGED <<in_chunk_size, cur, status>>
        /\ IF sized.ext
           THEN rpc' = "ext" /\ chunk' = [chunk EXCEPT ![cur.cid] = sized]
           ELSE rpc' = "payload" /\
                chunk' = [chunk EXCEPT ![cur.cid] = HeaderDone(sized)]
    BY <2>1, <2>2 DEF ReadMessageHeader
  <2>4. done = HeaderDone(sized)  BY DEF HeaderDone
  <2> HIDE DEF sized, done
  <2> QED  BY <1>1, <1>4, <1>c, <2>3, <2>4
<1>15. /\ timed \in ChunkRecord /\ timed.msg = ch.msg /\ timed.body = ch.body
       /\ timed.delta = h.ts /\ timed.ext = (m.stamp >= Ext)
       /\ timed.len = ch.len /\ timed.type = ch.type /\ timed.sid = ch.sid
       /\ m.stamp < Ext => timed.ts % TMod = m.ts % TMod
  <2>1. cur.fmt = f  BY <1>c
  <2>2. TimestampOf(ch, h) \in Nat
        /\ (m.stamp < Ext => TimestampOf(ch, h) % TMod = m.ts % TMod)
    <3>1. ch.ts = prev.ts % TMod /\ ch.ts \in Nat
      BY <1>4, <1>6 DEF Knows, ChunkRecord
    <3>2. CASE h.ts >= Ext
      <4>1. TimestampOf(ch, h) = ch.ts
        BY <1>12, <3>2, TimeAssumption DEF TimestampOf
      <4> QED  BY <1>5, <1>12, <3>1, <3>2, <4>1, TimeAssumption
    <3>3. CASE ~(h.ts >= Ext) /\ f = 0
      <4>1. h.ts < Ext  BY <1>12, <3>3, TimeAssumption
      <4>2. TimestampOf(ch, h) = h.ts  BY <2>1, <3>3, <4>1 DEF TimestampOf
      <4>3. h.ts = m.ts  BY <1>5, <1>11, <1>12, <3>3, TimeAssumption
      <4> QED  BY <1>5, <4>2, <4>3
    <3>4. CASE ~(h.ts >= Ext) /\ f # 0
      <4>1. TimestampOf(ch, h) = ch.ts + h.ts
        BY <2>1, <3>4, <1>12, TimeAssumption DEF TimestampOf
      <4>2. h.ts = m.stamp /\ m.ts = prev.ts + m.stamp
        BY <1>11, <1>12, <3>4
      <4>3. ((prev.ts % TMod) + m.stamp) % TMod = (prev.ts + m.stamp) % TMod
        BY <1>5, <1>10, Masked
      <4> QED  BY <1>5, <3>1, <4>1, <4>2, <4>3
    <3> QED  BY <3>2, <3>3, <3>4
  <2> DEFINE told == TimestampOf(ch, h)
             long == h.ts >= Ext
  <2>3. timed = [ch EXCEPT !.delta = h.ts, !.ext = long, !.ts = told]
    BY <1>c
  <2>4. long \in BOOLEAN /\ told \in Nat /\ long = (m.stamp >= Ext)
        /\ (m.stamp < Ext => told % TMod = m.ts % TMod)
    BY <1>12, <2>2
  <2> HIDE DEF timed, told, long
  <2> QED  BY <1>6, <1>12, <2>3, <2>4 DEF ChunkRecord
<1> HIDE DEF timed
<1>16. /\ sized \in ChunkRecord /\ sized.msg = ch.msg /\ sized.body = ch.body
       /\ sized.delta = h.ts /\ sized.ext = (m.stamp >= Ext)
       /\ sized.len = m.len /\ sized.type = m.type /\ sized.sid = m.sid
       /\ sized.ts = timed.ts /\ sized.ts \in Nat
  <2>1. ch.len = prev.len /\ ch.type = prev.type /\ ch.sid = prev.sid
    BY <1>4 DEF Knows
  <2>2. CASE f <= 1
    BY <1>c, <1>5, <1>8, <1>11, <1>12, <1>15, <2>1, <2>2 DEF ChunkRecord
  <2>3. CASE ~(f <= 1)
    <3>1. f = 2 /\ sized = timed  BY <1>c, <1>8, <2>3
    <3> QED  BY <1>11, <1>12, <1>15, <2>1, <3>1 DEF ChunkRecord
  <2> QED  BY <2>2, <2>3
<1> HIDE DEF sized
<1>h. m.active = TRUE /\ ch.msg = TRUE /\ ch.body = Sofar(m)
  BY <1>4 DEF Holds, Ongoing
<1>e. repeats_ext' = repeats_ext  BY DEF senderVars
<1>t. Told(m).sent = TRUE /\ Told(m).ts = m.ts /\ Told(m).delta = m.stamp
      /\ Told(m).len = m.len /\ Told(m).type = m.type /\ Told(m).sid = m.sid
  BY DEF Told
<1>17. CASE m.stamp >= Ext
  <2>0. PICK to \in Seq(Token) : to = AfterHeader(s, m, repeats_ext)
    BY <1>13
  <2>1. Knows([sized EXCEPT !.ts = m.ts % TMod, !.used = TRUE], Told(m))
    <3> DEFINE x == [sized EXCEPT !.ts = m.ts % TMod, !.used = TRUE]
    <3>1. /\ x.ts = m.ts % TMod /\ x.used = TRUE /\ x.delta = sized.delta
          /\ x.ext = sized.ext /\ x.len = sized.len /\ x.type = sized.type
          /\ x.sid = sized.sid
      BY <1>16 DEF ChunkRecord
    <3> HIDE DEF x
    <3> QED  BY <1>12, <1>16, <1>17, <1>t, <3>1 DEF Knows, x
  <2>2. /\ chunk' \in [Cids -> ChunkRecord] /\ chunk'[c] = sized
        /\ \A d \in Cids \ {c} : chunk'[d] = chunk[d]
    BY <1>5, <1>6, <1>14, <1>16, <1>17, OneStream
  <2>3. Holds(sized, m)  BY <1>16, <1>h DEF Holds
  <2>4. rpc' = "ext"  BY <1>14, <1>16, <1>17
  <2>5. Reading(s, m, f, to)'
    BY <1>4, <1>7, <1>14, <1>17, <1>e, <2>0, <2>1, <2>2, <2>3, <2>4
       DEF Reading
  <2> QED  BY <1>3, <1>13, <1>14, <2>0, <2>2, <2>5, GoesInside
<1>18. CASE ~(m.stamp >= Ext)
  <2>1. ExtOf(m, repeats_ext) = << >>  BY <1>18 DEF ExtOf, ExtendedIf
  <2>2. AfterHeader(s, m, repeats_ext) = PayloadOf(s, m)
        /\ PayloadOf(s, m) \in Seq(Token)
    BY <1>5, <2>1, TokensType, JoinsTokens DEF AfterHeader
  <2>3. sized.ts % TMod = m.ts % TMod /\ sized.ts % TMod \in Nat
    BY <1>5, <1>15, <1>16, <1>18, TimeAssumption
  <2>4. /\ done \in ChunkRecord /\ done.ts = m.ts % TMod /\ done.used = TRUE
        /\ done.delta = sized.delta /\ done.ext = sized.ext
        /\ done.len = sized.len /\ done.type = sized.type
        /\ done.sid = sized.sid /\ done.msg = sized.msg
        /\ done.body = sized.body
    BY <1>16, <2>3 DEF ChunkRecord
  <2> HIDE DEF done
  <2>5. Knows(done, Told(m))
    <3>1. done.ext = (Told(m).sent /\ Told(m).delta >= Ext)
      BY <1>16, <1>18, <1>t, <2>4
    <3>2. done.delta = Least(Told(m).delta, Ext)
      BY <1>12, <1>16, <1>t, <2>4
    <3>3. done.ts = Told(m).ts % TMod  BY <1>t, <2>4
    <3> QED  BY <1>16, <1>t, <2>4, <3>1, <3>2, <3>3 DEF Knows
  <2>6. /\ chunk' \in [Cids -> ChunkRecord] /\ chunk'[c] = done
        /\ \A d \in Cids \ {c} : chunk'[d] = chunk[d]
    BY <1>5, <1>6, <1>14, <1>16, <1>18, <2>4, OneStream
  <2>7. Holds(done, m)  BY <1>16, <1>h, <2>4 DEF Holds
  <2>8. rpc' = "payload"  BY <1>14, <1>16, <1>18
  <2>9. Reading(s, m, f, PayloadOf(s, m))'
    BY <1>4, <1>14, <2>5, <2>6, <2>7, <2>8 DEF Reading
  <2> QED  BY <1>3, <1>13, <1>14, <2>2, <2>6, <2>9, GoesInside
<1> QED  BY <1>17, <1>18

(* The extended timestamp is told from payload, and the words of payload   *)
(* from a timestamp.                                                       *)
LEMMA ExtendedUnderstood ==
  ASSUME Tellable, PInv, status = "ok", TakesExtended, UNCHANGED senderVars
  PROVE  PInv'
<1> DEFINE time == IF NextIs("ext") THEN Head(wire).time ELSE WordAsTime
<1>1. /\ rpc = "ext" /\ wire # << >> /\ ReadExtended(time)
      /\ wire' = IF IsNoTimestamp(time) THEN wire ELSE Tail(wire)
      /\ delivered' = delivered
  BY DEF TakesExtended, NextIs, ReadExtended
<1>2. PICK s \in States, m \in Ongoing, f \in Formats,
           left \in Seq(Token), rest \in Seq(Token) :
        InsideChunk(s, m, f, left, rest)
  BY <1>1 DEF PInv, Followed, Between
<1> DEFINE c == m.cid
           ch == chunk[c]
<1>3. /\ MaySend(s, m, f) /\ wire = left \o rest
      /\ Carries(repeats_ext, rest, After(s, m), View)
  BY <1>2 DEF InsideChunk
<1>4. /\ in_chunk_size = s.size /\ delivered = s.done
      /\ cur = [fmt |-> f, cid |-> c, first |-> m.off = 0]
      /\ \A d \in Cids \ {c} : Agrees(chunk[d], s.peer[d])
      /\ left = AfterHeader(s, m, repeats_ext) /\ m.stamp >= Ext
      /\ Knows([ch EXCEPT !.ts = m.ts % TMod, !.used = TRUE], Told(m))
      /\ Holds(ch, m) /\ (m.off > 0 => ch.ts = m.ts % TMod)
  BY <1>1, <1>2 DEF InsideChunk, Reading
<1>5. c \in Cids /\ Underway(m) /\ m.stamp \in Nat /\ m.ts \in Nat
      /\ m.stamp = m.ts /\ m.off \in Nat
  <2>1. Underway(m)  BY <1>3 DEF MaySend
  <2> QED  BY <1>4, <2>1 DEF Underway, Ongoing
<1>6. ch \in ChunkRecord /\ chunk \in [Cids -> ChunkRecord]
  BY <1>5 DEF PInv, PeerTypeOK
<1>7. PayloadOf(s, m) \in Seq(Token) /\ Len(PayloadOf(s, m)) = Size(s, m)
      /\ PayloadOf(s, m) \o rest \in Seq(Token)
  <2>1. PayloadOf(s, m) \in Seq(Token) /\ Len(PayloadOf(s, m)) = Size(s, m)
    BY <1>5, TokensType
  <2> QED  BY <2>1, JoinsTokens
<1>8. /\ wire' = PayloadOf(s, m) \o rest
      /\ chunk' = [chunk EXCEPT ![c] = [ch EXCEPT !.ts = m.ts % TMod,
                                                  !.used = TRUE]]
  <2> DEFINE x == [ch EXCEPT !.ts = m.ts % TMod, !.used = TRUE]
             told == IF IsNoTimestamp(time) THEN ch
                                            ELSE [ch EXCEPT !.ts = time % TMod]
  <2>c. cur.cid = c /\ cur.first = (m.off = 0)  BY <1>4
  <2>1. chunk' = [chunk EXCEPT ![c] = HeaderDone(told)]
    <3>1. chunk' = [chunk EXCEPT ![cur.cid] =
                     HeaderDone(IF IsNoTimestamp(time) THEN chunk[cur.cid]
                                ELSE [chunk[cur.cid] EXCEPT !.ts = time % TMod])]
      BY <1>1 DEF ReadExtended
    <3> HIDE DEF time
    <3> QED  BY <2>c, <3>1
  <2>2. \A r \in ChunkRecord : r.ts % TMod = m.ts % TMod =>
          HeaderDone(r) = [r EXCEPT !.ts = m.ts % TMod, !.used = TRUE]
    BY DEF HeaderDone, ChunkRecord
  <2>3. m.ts % TMod \in Nat /\ (m.ts % TMod) % TMod = m.ts % TMod
    BY <1>5, Masked
  <2>4. CASE m.off = 0 \/ repeats_ext
    <3>1. ExtOf(m, repeats_ext) = <<Extended(m.stamp)>>
      BY <1>4, <2>4 DEF ExtOf, ExtendedIf
    <3>2. Extended(m.stamp) \in Token  BY <1>5 DEF Extended, Token
    <3>3. left = <<Extended(m.stamp)>> \o PayloadOf(s, m)
      BY <1>4, <3>1 DEF AfterHeader
    <3>4. Head(wire) = Extended(m.stamp) /\ Tail(wire) = PayloadOf(s, m) \o rest
      BY <1>3, <1>7, <3>2, <3>3, FirstLeft
    <3>5. NextIs("ext") /\ Head(wire).time = m.stamp
      BY <1>1, <3>4 DEF NextIs, Extended
    <3>6. time = m.ts  BY <1>5, <3>5
    <3> HIDE DEF time
    <3>7. ~IsNoTimestamp(time)
      <4>1. ASSUME ~cur.first  PROVE ch.ts = time % TMod
        <5>1. m.off # 0  BY <2>c, <4>1
        <5>2. m.off > 0  BY <1>5, <5>1
        <5> QED  BY <1>4, <3>6, <5>2
      <4> QED  BY <2>c, <4>1 DEF IsNoTimestamp
    <3>8. told = [ch EXCEPT !.ts = m.ts % TMod]  BY <3>6, <3>7
    <3> HIDE DEF told
    <3>9. told \in ChunkRecord /\ told.ts = m.ts % TMod
          /\ [told EXCEPT !.ts = m.ts % TMod, !.used = TRUE] = x
      BY <1>6, <2>3, <3>8 DEF ChunkRecord
    <3>10. HeaderDone(told) = x
      BY <2>2, <2>3, <3>9
    <3> QED  BY <1>1, <2>1, <3>4, <3>7, <3>10
  <2>5. CASE ~(m.off = 0 \/ repeats_ext)
    <3>1. ExtOf(m, repeats_ext) = << >>
      BY <2>5 DEF ExtOf, ExtendedIf
    <3>2. left = PayloadOf(s, m)
      BY <1>4, <1>7, <3>1, JoinsTokens DEF AfterHeader
    <3>3. Size(s, m) \in Nat /\ Size(s, m) > 0
      BY <1>5, <2>5, SizeIsSome
    <3>4. PayloadOf(s, m)[1] = Word(WordAt(m, m.off + 1))
      BY <3>3 DEF PayloadOf, WordTokens
    <3>5. Head(wire) = PayloadOf(s, m)[1]
      <4> DEFINE p == PayloadOf(s, m)
      <4>1. p \in Seq(Token) /\ Len(p) > 0 /\ wire = p \o rest
        BY <1>3, <1>7, <3>2, <3>3
      <4> HIDE DEF p, Token
      <4>2. (p \o rest)[1] = p[1]  BY <4>1
      <4>3. Head(p \o rest) = p[1]  BY <4>1, <4>2
      <4> QED  BY <4>1, <4>3 DEF p
    <3>6. Head(wire).kind = "word"  BY <3>4, <3>5 DEF Word
    <3>7. time = WordAsTime  BY <3>6 DEF NextIs
    <3>8. m.ts % TMod # 0 /\ m.ts % TMod # WordAsTime % TMod
      <4>1. FALSE \in ExtStyles
        BY <2>5, StyleAssumption DEF PInv, PeerTypeOK
      <4>2. PICK x1 \in Pool : x1.ts = m.ts
        BY <1>5 DEF Underway
      <4> QED  BY <1>4, <1>5, <4>1, <4>2 DEF Tellable
    <3> HIDE DEF time
    <3>9. IsNoTimestamp(time)
      <4>0. m.off > 0  BY <1>5, <2>5
      <4>a. ch.ts = m.ts % TMod  BY <1>4, <4>0
      <4>b. ~cur.first  BY <2>c, <2>5
      <4>1. ch.ts = m.ts % TMod /\ ~cur.first  BY <4>a, <4>b
      <4>2. ch.ts > 0  BY <2>3, <3>8, <4>1
      <4> QED  BY <2>c, <3>7, <3>8, <4>1, <4>2 DEF IsNoTimestamp
    <3>10. told = ch /\ ch.ts % TMod = m.ts % TMod
      BY <1>4, <1>5, <2>3, <2>5, <3>9
    <3>11. HeaderDone(told) = x  BY <1>6, <2>2, <3>10
    <3> QED  BY <1>1, <1>3, <2>1, <3>2, <3>9, <3>11
  <2> QED  BY <2>4, <2>5
<1>9. rpc' = "payload" /\ UNCHANGED <<in_chunk_size, cur, status>>
  BY <1>1 DEF ReadExtended
<1> DEFINE x == [ch EXCEPT !.ts = m.ts % TMod, !.used = TRUE]
<1>10. x \in ChunkRecord /\ x.msg = ch.msg /\ x.body = ch.body
  <2>1. m.ts % TMod \in Nat  BY <1>5, Masked
  <2> QED  BY <1>6, <2>1 DEF ChunkRecord
<1>11. Knows(x, Told(m)) /\ chunk' = [chunk EXCEPT ![c] = x]
  BY <1>4, <1>8
<1> HIDE DEF x, time
<1>12. Holds(x, m)  BY <1>4, <1>10 DEF Holds
<1>13. /\ chunk' \in [Cids -> ChunkRecord] /\ chunk'[c] = x
       /\ \A d \in Cids \ {c} : chunk'[d] = chunk[d]
  BY <1>5, <1>6, <1>10, <1>11, OneStream
<1>14. Reading(s, m, f, PayloadOf(s, m))'
  BY <1>1, <1>4, <1>9, <1>11, <1>12, <1>13 DEF Reading
<1> QED  BY <1>3, <1>7, <1>8, <1>9, <1>13, <1>14, GoesInside

(* What has been received of a message, and what the next chunk adds.      *)
LEMMA SofarMore ==
  ASSUME NEW m \in Ongoing, NEW n \in Nat,
         NEW w, w = [i \in 1..n |-> WordAt(m, m.off + i)]
  PROVE  /\ Sofar(m) \in Seq(WordSet) /\ Len(Sofar(m)) = m.off
         /\ Sofar(m) \o w = [i \in 1..(m.off + n) |-> WordAt(m, i)]
         /\ Sofar(m) \o w \in Seq(WordSet)
         /\ Len(Sofar(m) \o w) = m.off + n
<1>1. m.off \in Nat  BY DEF Ongoing
<1>2. \A i \in Nat : WordAt(m, i) \in WordSet
  BY DEF WordAt, WordSet, Ongoing
<1> DEFINE a == Sofar(m)
           k == m.off
           W(i) == WordAt(m, i)
<1>3. a = [i \in 1..k |-> W(i)] /\ w = [i \in 1..n |-> W(k + i)]
  BY DEF Sofar
<1>4. k \in Nat /\ \A i \in Nat : W(i) \in WordSet  BY <1>1, <1>2
<1> HIDE DEF a, k, W, WordSet
<1>5. a \in Seq(WordSet) /\ Len(a) = k  BY <1>3, <1>4
<1>6. \A i \in 1..n : k + i \in Nat  BY <1>4
<1>7. w \in Seq(WordSet) /\ Len(w) = n  BY <1>3, <1>4, <1>6
<1>8. a \o w \in Seq(WordSet) /\ Len(a \o w) = k + n  BY <1>5, <1>7, <1>4
<1>9. a \o w = [i \in 1..(k + n) |-> W(i)]
  <2>1. \A i \in 1..(k + n) : (a \o w)[i] = W(i)
    <3> TAKE i \in 1..(k + n)
    <3>1. CASE i <= k
      <4>1. (a \o w)[i] = a[i]  BY <1>4, <1>5, <1>7, <3>1
      <4> QED  BY <1>3, <1>4, <3>1, <4>1
    <3>2. CASE i > k
      <4>1. (a \o w)[i] = w[i - k]  BY <1>4, <1>5, <1>7, <3>2
      <4>2. i - k \in 1..n /\ k + (i - k) = i  BY <1>4, <3>2
      <4> QED  BY <1>3, <4>1, <4>2
    <3>3. i <= k \/ i > k
      <4>1. k \in Int /\ i \in Int  BY <1>4
      <4> QED  BY <4>1
    <3> QED  BY <3>1, <3>2, <3>3
  <2>2. DOMAIN (a \o w) = 1..(k + n)  BY <1>4, <1>8
  <2> QED  BY <1>8, <2>1, <2>2
<1> QED  BY <1>5, <1>8, <1>9 DEF a, k, W

(* Reading the first of two parts leaves the second.                       *)
LEMMA LeavesRest ==
  ASSUME NEW p \in Seq(Token), NEW q \in Seq(Token), NEW n, n = Len(p)
  PROVE  /\ n <= Len(p \o q) /\ \A i \in 1..n : (p \o q)[i] = p[i]
         /\ SubSeq(p \o q, n + 1, Len(p \o q)) = q
<1> HIDE DEF Token
<1> DEFINE w == p \o q
           x == SubSeq(w, n + 1, Len(w))
<1>1. w \in Seq(Token) /\ Len(w) = n + Len(q) /\ n \in Nat /\ Len(q) \in Nat
  OBVIOUS
<1>2. \A i \in 1..n : w[i] = p[i]  OBVIOUS
<1>3. \A i \in 1..Len(q) : w[n + i] = q[i]  OBVIOUS
<1> HIDE DEF w
<1>4. x \in Seq(Token) /\ Len(x) = Len(q)  BY <1>1
<1>5. \A i \in 1..Len(q) : x[i] = q[i]
  <2> TAKE i \in 1..Len(q)
  <2>1. x[i] = w[n + i]  BY <1>1
  <2> QED  BY <1>3, <2>1
<1> HIDE DEF x
<1>6. x = q  BY <1>4, <1>5
<1> QED  BY <1>1, <1>2, <1>6 DEF w, x

(* The payload is added to the message it belongs to, which is whole with  *)
(* the last of it.                                                         *)
LEMMA PayloadUnderstood ==
  ASSUME PInv, status = "ok", TakesPayload, UNCHANGED senderVars
  PROVE  PInv'
<1> DEFINE words == [i \in 1..PayloadSize |-> wire[i].word]
<1>1. /\ rpc = "payload" /\ ReadMessagePayload(words)
      /\ wire' = SubSeq(wire, PayloadSize + 1, Len(wire))
      /\ delivered' = delivered
  BY DEF TakesPayload
<1>2. PICK s \in States, m \in Ongoing, f \in Formats,
           left \in Seq(Token), rest \in Seq(Token) :
        InsideChunk(s, m, f, left, rest)
  BY <1>1 DEF PInv, Followed, Between
<1> DEFINE c == m.cid
           ch == chunk[c]
           n == Size(s, m)
           w == [i \in 1..n |-> WordAt(m, m.off + i)]
<1>3. /\ MaySend(s, m, f) /\ wire = left \o rest
      /\ Carries(repeats_ext, rest, After(s, m), View)
  BY <1>2 DEF InsideChunk
<1>4. /\ in_chunk_size = s.size /\ delivered = s.done
      /\ cur = [fmt |-> f, cid |-> c, first |-> m.off = 0]
      /\ \A d \in Cids \ {c} : Agrees(chunk[d], s.peer[d])
      /\ left = PayloadOf(s, m) /\ Knows(ch, Told(m)) /\ Holds(ch, m)
  BY <1>1, <1>2 DEF InsideChunk, Reading
<1>5. c \in Cids /\ Underway(m) /\ m.off \in Nat /\ m.len \in Nat
      /\ n \in Nat
  BY <1>3, SizeIsSome DEF MaySend, Ongoing
<1>6. ch \in ChunkRecord /\ chunk \in [Cids -> ChunkRecord]
  BY <1>5 DEF PInv, PeerTypeOK
<1>7. /\ Sofar(m) \in Seq(WordSet) /\ Len(Sofar(m)) = m.off
      /\ Sofar(m) \o w = [i \in 1..(m.off + n) |-> WordAt(m, i)]
      /\ Sofar(m) \o w \in Seq(WordSet)
      /\ Len(Sofar(m) \o w) = m.off + n
  BY <1>5, SofarMore
<1>8. ch.body = Sofar(m) /\ ch.msg = TRUE /\ ch.len = m.len
      /\ ch.type = m.type /\ ch.sid = m.sid /\ ch.ts = m.ts % TMod
  BY <1>4 DEF Holds, Knows, Told, Ongoing
<1>9. cur.cid = c  BY <1>4
<1>10. PayloadSize = n
  BY <1>4, <1>7, <1>8, <1>9 DEF PayloadSize, Size
<1>11. wire' = rest /\ words = w
  <2>1. PayloadOf(s, m) \in Seq(Token) /\ Len(PayloadOf(s, m)) = n
    BY <1>5, TokensType
  <2>2. /\ \A i \in 1..n : wire[i] = PayloadOf(s, m)[i]
        /\ SubSeq(wire, n + 1, Len(wire)) = rest
    BY <1>3, <1>4, <2>1, LeavesRest
  <2>3. \A i \in 1..n : wire[i].word = WordAt(m, m.off + i)
    <3>1. \A i \in 1..n :
             PayloadOf(s, m)[i] = Word(WordAt(m, m.off + i))
      BY DEF PayloadOf, WordTokens
    <3>2. \A v : Word(v).word = v  BY DEF Word
    <3> HIDE DEF n
    <3> QED  BY <2>2, <3>1, <3>2
  <2>4. wire' = rest  BY <1>1, <1>10, <2>2
  <2>5. words = w
    <3>1. words = [i \in 1..n |-> wire[i].word]  BY <1>10
    <3> QED  BY <2>3, <3>1
  <2> QED  BY <2>4, <2>5
<1> HIDE DEF words, n, w
<1>12. ReadMessagePayload(w)  BY <1>1, <1>11
<1> DEFINE body == Sofar(m) \o w
           filled == [ch EXCEPT !.body = body, !.alloc = ch.len]
<1>13. /\ filled \in ChunkRecord /\ filled.body = body /\ filled.msg = TRUE
       /\ filled.len = m.len /\ filled.type = m.type /\ filled.sid = m.sid
       /\ filled.ts = ch.ts /\ filled.used = ch.used
       /\ filled.delta = ch.delta /\ filled.ext = ch.ext
       /\ Filled(ch, w) = filled
  <2>1. Filled(ch, w) = filled  BY <1>8 DEF Filled
  <2> HIDE DEF body
  <2>2. ch.len \in Nat /\ body \in Seq(WordSet)
    BY <1>6, <1>7 DEF ChunkRecord, body
  <2> QED  BY <1>6, <1>8, <2>1, <2>2 DEF ChunkRecord
<1> HIDE DEF filled
<1>14. /\ status' = "ok" /\ in_chunk_size' = s.size /\ delivered' = s.done
       /\ cur' = cur
       /\ IF m.off + n = m.len
          THEN got' = MessageOf(c, filled) /\ rpc' = "dispatch"
               /\ chunk' = [chunk EXCEPT ![c] = Closed(ch)]
          ELSE rpc' = "basic" /\ chunk' = [chunk EXCEPT ![c] = filled]
  <2>1. Len(Filled(ch, w).body) = m.off + n /\ ch.len = m.len
    BY <1>7, <1>8, <1>13
  <2>2. Filled(chunk[cur.cid], w) = filled /\ chunk[cur.cid] = ch
    BY <1>9, <1>13
  <2> HIDE DEF ch
  <2> QED  BY <1>1, <1>4, <1>9, <1>12, <2>1, <2>2 DEF ReadMessagePayload
<1>15. rest \in Seq(Token) /\ wire' = rest  BY <1>11
<1>16. CASE Completes(s, m)
  <2>1. m.off + n = m.len  BY <1>16 DEF Completes, n
  <2>2. MessageOf(c, filled) = Whole(m)
    <3>1. body = [i \in 1..m.len |-> WordAt(m, i)]  BY <1>7, <2>1
    <3> HIDE DEF body
    <3> QED  BY <1>8, <1>13, <3>1 DEF MessageOf, Whole
  <2>3. /\ Closed(ch) \in ChunkRecord /\ Knows(Closed(ch), Told(m))
        /\ Closed(ch).msg = FALSE /\ Closed(ch).body = << >>
    <3>1. << >> \in Seq(WordSet)  OBVIOUS
    <3> QED  BY <1>4, <1>6, <3>1 DEF Closed, ChunkRecord, Knows
  <2>4. Holds(Closed(ch), Idle)
    <3>1. Sofar(Idle) = << >>  BY DEF Sofar, Idle
    <3> QED  BY <2>3, <3>1 DEF Holds, Idle
  <2>5. /\ chunk' \in [Cids -> ChunkRecord] /\ chunk'[c] = Closed(ch)
        /\ \A d \in Cids \ {c} : chunk'[d] = chunk[d]
    BY <1>5, <1>6, <1>14, <2>1, <2>3, OneStream
  <2>6. << >> \in Seq(Token)  OBVIOUS
  <2>7. Reading(s, m, f, << >>)'
    BY <1>4, <1>14, <1>16, <2>1, <2>2, <2>3, <2>4, <2>5 DEF Reading
  <2>8. wire' = << >> \o rest  BY <1>15, JoinsTokens
  <2> QED  BY <1>3, <1>14, <1>15, <2>5, <2>6, <2>7, <2>8, GoesInside
<1>17. CASE ~Completes(s, m)
  <2> DEFINE t == After(s, m)
             now == [m EXCEPT !.off = @ + Size(s, m)]
  <2>1. m.off + n # m.len  BY <1>17 DEF Completes, n
  <2>2. /\ t \in States /\ t.peer[c].prev = Told(m) /\ t.peer[c].now = now
        /\ \A d \in Cids \ {c} : t.peer[d] = s.peer[d]
    <3>1. t \in States  BY <1>3, AfterOK
    <3>2. t.peer[m.cid].prev = Told(m)  BY <1>3, AfterOK
    <3>3. t.peer[m.cid].now = now  BY <1>3, <1>17, AfterOK
    <3>4. \A d \in Cids \ {m.cid} : t.peer[d] = s.peer[d]
      BY AfterOthers
    <3> QED  BY <3>1, <3>2, <3>3, <3>4
  <2>3. t.size = s.size /\ t.done = s.done  BY <1>17 DEF After
  <2>4. Sofar(now) = body /\ now.active = TRUE
    <3>1. now.off = m.off + n /\ now.id = m.id /\ now.size = m.size
          /\ now.active = TRUE
      BY DEF Ongoing, n
    <3> HIDE DEF now
    <3>2. Sofar(now) = [i \in 1..(m.off + n) |-> WordAt(m, i)]
      BY <3>1 DEF Sofar, WordAt
    <3> QED  BY <1>7, <3>1, <3>2
  <2>5. /\ chunk' \in [Cids -> ChunkRecord] /\ chunk'[c] = filled
        /\ \A d \in Cids \ {c} : chunk'[d] = chunk[d]
    BY <1>5, <1>6, <1>13, <1>14, <2>1, OneStream
  <2>6. Agrees(filled, t.peer[c])
    <3>1. Knows(filled, Told(m))
      BY <1>4, <1>8, <1>13 DEF Knows, Told
    <3> HIDE DEF now, t, body
    <3> QED  BY <1>13, <2>2, <2>4, <3>1 DEF Agrees, Holds
  <2> HIDE DEF t, now
  <2>7. \A d \in Cids : Agrees(chunk'[d], t.peer[d])
    BY <1>4, <2>2, <2>5, <2>6
  <2>8. Between(t)'
    BY <1>14, <2>1, <2>3, <2>7 DEF Between
  <2>9. Carries(repeats_ext, wire', t, View)  BY <1>3, <1>15 DEF t
  <2> QED  BY <1>14, <1>15, <2>2, <2>5, <2>8, <2>9, GoesBetween
<1> QED  BY <1>16, <1>17

(* A whole message is handed on: none is refused, and what it says of the  *)
(* chunk size is obeyed.                                                   *)
LEMMA MessageUnderstood ==
  ASSUME PInv, status = "ok", Delivers, UNCHANGED senderVars
  PROVE  /\ PInv'
         /\ \E s \in States, m \in Ongoing :
               /\ Underway(m) /\ got = Whole(m) /\ delivered = s.done
               /\ m.len > 0 => delivered' = Append(s.done, Whole(m))
                               /\ \E w : Carries(repeats_ext, w, After(s, m), View)
                               /\ After(s, m).done = Append(s.done, Whole(m))
               /\ ~(m.len > 0) => delivered' = s.done
<1>1. /\ rpc = "dispatch" /\ rpc' = "basic" /\ wire' = wire
      /\ status' = (IF IsRefused(got) THEN "chunk_size" ELSE "ok")
      /\ in_chunk_size' = ChunkSizeAfter(got)
      /\ chunk' = chunk
      /\ delivered' = IF IsDelivered(got) THEN Append(delivered, got)
                                          ELSE delivered
  BY DEF Delivers, RecvMessage
<1>2. PICK s \in States, m \in Ongoing, f \in Formats,
           left \in Seq(Token), rest \in Seq(Token) :
        InsideChunk(s, m, f, left, rest)
  BY <1>1 DEF PInv, Followed, Between
<1> DEFINE c == m.cid
           ch == chunk[c]
           t == After(s, m)
<1>3. /\ MaySend(s, m, f) /\ wire = left \o rest
      /\ Carries(repeats_ext, rest, t, View)
  BY <1>2 DEF InsideChunk
<1>4. /\ in_chunk_size = s.size /\ delivered = s.done
      /\ \A d \in Cids \ {c} : Agrees(chunk[d], s.peer[d])
      /\ left = << >> /\ Completes(s, m) /\ got = Whole(m)
      /\ Knows(ch, Told(m)) /\ Holds(ch, Idle)
  BY <1>1, <1>2 DEF InsideChunk, Reading
<1>5. Underway(m) /\ m.len \in Nat /\ m.id \in 1..MaxMessages
  BY <1>3 DEF MaySend, Ongoing
<1>6. got.len = m.len /\ got.type = m.type
      /\ (m.len > 0 => got.body[1] = <<m.id, 1, m.size>>)
  <2>1. \A k \in Nat : k > 0 => 1 \in 1..k  OBVIOUS
  <2> QED  BY <1>4, <1>5, <2>1 DEF Whole, WordAt
<1>7. m.type = SetChunkSize => /\ m.len > 0 /\ m.size >= MinChunkSize
                               /\ SizeIn[<<m.id, 1, m.size>>] = m.size
                               /\ m.size \in Nat
  <2>1. PICK x \in Pool : x.type = m.type /\ x.len = m.len /\ x.size = m.size
    BY <1>5 DEF Underway
  <2>2. m.size \in Nat  BY DEF Ongoing
  <2> QED  BY <1>5, <2>1, <2>2, AnnouncedAssumption
<1>8. ~IsRefused(got)
  <2>1. ASSUME IsRefused(got)  PROVE FALSE
    <3>1. m.type = SetChunkSize /\ m.len > 0
          /\ SizeIn[got.body[1]] < MinChunkSize
      BY <1>5, <1>6, <2>1 DEF IsRefused, IsDropped
    <3>2. SizeIn[got.body[1]] = m.size /\ m.size >= MinChunkSize
          /\ m.size \in Nat
      BY <1>6, <1>7, <3>1
    <3> QED  BY <3>1, <3>2, MinSizeAssumption
  <2> QED  BY <2>1
<1>9. IsDelivered(got) <=> m.len > 0
  BY <1>5, <1>6, <1>8 DEF IsDelivered, IsDropped
<1>10. in_chunk_size' = t.size
  <2>1. CASE m.type = SetChunkSize
    <3>1. t.size = m.size  BY <1>4, <2>1 DEF After
    <3>2. ChunkSizeAfter(got) = SizeIn[got.body[1]]
      BY <1>6, <1>7, <1>9, <2>1 DEF ChunkSizeAfter
    <3> QED  BY <1>1, <1>6, <1>7, <2>1, <3>1, <3>2
  <2>2. CASE m.type # SetChunkSize
    <3>1. t.size = s.size  BY <2>2 DEF After
    <3>2. ChunkSizeAfter(got) = in_chunk_size
      BY <1>6, <2>2 DEF ChunkSizeAfter
    <3> QED  BY <1>1, <1>4, <3>1, <3>2
  <2> QED  BY <2>1, <2>2
<1>11. /\ m.len > 0 => t.done = Append(s.done, Whole(m))
       /\ ~(m.len > 0) => t.done = s.done
  BY <1>4 DEF After
<1>12. delivered' = t.done  BY <1>1, <1>4, <1>9, <1>11
<1>13. /\ t \in States /\ t.peer[c].prev = Told(m) /\ t.peer[c].now = Idle
       /\ \A d \in Cids \ {c} : t.peer[d] = s.peer[d]
  <2>1. t \in States  BY <1>3, AfterOK
  <2>2. t.peer[m.cid].prev = Told(m)  BY <1>3, AfterOK
  <2>3. t.peer[m.cid].now = Idle  BY <1>3, <1>4, AfterOK
  <2>4. \A d \in Cids \ {m.cid} : t.peer[d] = s.peer[d]  BY AfterOthers
  <2> QED  BY <2>1, <2>2, <2>3, <2>4
<1> HIDE DEF t
<1>14. \A d \in Cids : Agrees(chunk[d], t.peer[d])
  BY <1>4, <1>13 DEF Agrees
<1>15. Between(t)'  BY <1>1, <1>10, <1>12, <1>14 DEF Between
<1>16. wire' = rest  BY <1>1, <1>3, <1>4, JoinsTokens
<1>17. PInv'
  <2>1. status' = "ok"  BY <1>1, <1>8
  <2>2. chunk' \in [Cids -> ChunkRecord] /\ wire' \in Seq(Token)
    BY <1>1, <1>16 DEF PInv, PeerTypeOK
  <2>3. Carries(repeats_ext, wire', t, View)  BY <1>3, <1>16
  <2> QED  BY <1>13, <1>15, <2>1, <2>2, <2>3, GoesBetween
<1>18. /\ Underway(m) /\ got = Whole(m) /\ delivered = s.done
       /\ m.len > 0 => delivered' = Append(s.done, Whole(m))
                       /\ (\E w : Carries(repeats_ext, w, t, View))
                       /\ t.done = Append(s.done, Whole(m))
       /\ ~(m.len > 0) => delivered' = s.done
  BY <1>3, <1>4, <1>5, <1>11, <1>12
<1> QED  BY <1>17, <1>18 DEF t

(* A call that fails: the reader goes no further.                          *)
LEMMA BreakUnderstood ==
  ASSUME PInv, SocketFails
  PROVE  PInv'
<1>1. View' = View  BY DEF SocketFails, senderVars, View
<1>2. chunk' \in [Cids -> ChunkRecord]
  <2>1. chunk \in [Cids -> ChunkRecord]  BY DEF PInv, PeerTypeOK
  <2>2. chunk' = chunk \/ chunk' = [chunk EXCEPT ![cur.cid].alloc = chunk[cur.cid].len]
    BY DEF SocketFails, ReadBreaks, ReadFails
  <2>3. \A c \in Cids : [chunk[c] EXCEPT !.alloc = chunk[c].len] \in ChunkRecord
    BY <2>1 DEF ChunkRecord
  <2>4. CASE cur.cid \in Cids
    BY <2>1, <2>2, <2>3, <2>4
  <2>5. CASE cur.cid \notin Cids
    BY <2>1, <2>2, <2>5
  <2> QED  BY <2>4, <2>5
<1>3. status' = "io" /\ wire' = wire
  BY DEF SocketFails, ReadBreaks, ReadFails
<1> QED
  BY <1>1, <1>2, <1>3 DEF PInv, PeerTypeOK, SocketFails, senderVars

-----------------------------------------------------------------------------
(* What the peer sends is a chunk as Sends describes it.                   *)
LEMMA ChunkSent ==
  ASSUME PInv, NEW m \in Ongoing, NEW f \in Formats, NEW head, NEW prev,
         MaySend(View, m, f), SendChunk(m, head, prev), prev = Told(m),
         head = (<<Basic(f, m.cid)>> \o HeaderOf(m, f)) \o ExtOf(m, repeats_ext),
         started' \in Nat
  PROVE  /\ PInv' /\ delivered' = delivered /\ Whole(m) \in AllMessages
         /\ completed' = completed \/ completed' = Append(completed, Whole(m))
<1>1. View \in States /\ wire \in Seq(Token)  BY DEF PInv, PeerTypeOK
<1>2. Underway(m)  BY DEF MaySend
<1> DEFINE e == repeats_ext
           n == Least(m.len - m.off, peer_chunk_size)
           b == <<Basic(f, m.cid)>>
           h == HeaderOf(m, f)
           x == ExtOf(m, e)
           p == PayloadOf(View, m)
           k == Tokens(View, m, f, e)
<1>3. n = Size(View, m) /\ WordTokens(m, m.off, n) = p
  BY DEF Size, View, PayloadOf
<1>4. /\ wire' = (wire \o head) \o p
      /\ UNCHANGED <<readerVars, delivered, repeats_ext>>
  BY <1>3 DEF SendChunk
<1>5. View' = After(View, m)
  <2>1. (m.off + n = m.len) = Completes(View, m)  BY <1>3 DEF Completes
  <2>2. peer' = After(View, m).peer
    BY <1>3, <2>1 DEF SendChunk, After, View
  <2>3. peer_chunk_size' = After(View, m).size
    BY <1>3, <2>1 DEF SendChunk, After, View
  <2>4. completed' = After(View, m).done
    BY <1>3, <2>1 DEF SendChunk, After, View
  <2>5. View' = [peer |-> peer', size |-> peer_chunk_size', done |-> completed']
    BY DEF View
  <2> QED  BY <2>2, <2>3, <2>4, <2>5 DEF After
<1>6. wire' = wire \o k
  <2>1. /\ b \in Seq(Token) /\ h \in Seq(Token) /\ x \in Seq(Token)
        /\ p \in Seq(Token)
    <3>1. Basic(f, m.cid) \in Token  BY DEF Basic, Token, Ongoing
    <3>2. b \in Seq(Token)
      <4> HIDE DEF Token
      <4> QED  BY <3>1
    <3> QED  BY <1>1, <1>2, <3>2, TokensType
  <2>2. k = Join(b, Join(h, Join(x, p)))
    BY DEF Tokens, AfterBasic, AfterHeader, Join
  <2>3. head = Join(Join(b, h), x)  BY DEF Join
  <2> HIDE DEF b, h, x, p, k
  <2>4. Join(Join(wire, head), p) = Join(wire, k)
    <3>1. Join(Join(wire, Join(Join(b, h), x)), p)
            = Join(wire, Join(b, Join(h, Join(x, p))))
      BY <1>1, <2>1, JoinsFive
    <3> QED  BY <2>2, <2>3, <3>1, Zenon
  <2> QED  BY <1>4, <2>4 DEF Join
<1>7. Sends(e, View, k, View')  BY <1>5 DEF Sends
<1>8. PInv'  BY <1>4, <1>6, <1>7, PeerSends
<1>9. completed' = completed \/ completed' = Append(completed, Whole(m))
  BY DEF SendChunk
<1>10. Whole(m) \in AllMessages  BY <1>2, WholeIsMessage
<1> QED  BY <1>4, <1>8, <1>9, <1>10

(* A message is started, in any format the peer may use.                   *)
LEMMA StartUnderstood ==
  ASSUME PInv, NEW x \in Pool, NEW f \in Formats, PeerStarts(x, f)
  PROVE  /\ PInv' /\ delivered' = delivered
         /\ \E w \in AllMessages :
               completed' = completed \/ completed' = Append(completed, w)
<1> DEFINE stamp == IF f = 0 THEN x.ts ELSE DeltaOf(peer[x.cid].prev, x)
           m == [active |-> TRUE, cid |-> x.cid, type |-> x.type, sid |-> x.sid,
                 ts |-> x.ts, len |-> x.len, size |-> x.size,
                 id |-> started + 1, off |-> 0, stamp |-> stamp]
           prev == [sent |-> TRUE, ts |-> x.ts, delta |-> stamp,
                    len |-> x.len, type |-> x.type, sid |-> x.sid]
           h == [ts |-> Least(stamp, Ext), len |-> x.len, type |-> x.type,
                 sid |-> x.sid]
           head == <<Basic(f, x.cid)>>
                     \o (IF f = 3 THEN << >> ELSE <<Header(h)>>)
                     \o ExtendedIf(stamp >= Ext, stamp)
           was == peer[x.cid].prev
<1>1. /\ started < MaxMessages /\ ~peer[x.cid].now.active
      /\ f \in StartFormats(x)
      /\ SendChunk(m, head, prev) /\ started' = started + 1
  BY DEF PeerStarts
<1>2. /\ x.cid \in Cids /\ x.type \in Types /\ x.sid \in StreamIds
      /\ x.ts \in Nat /\ x.len \in Nat /\ x.size \in Nat
  BY PoolAssumption
<1>3. /\ View \in States /\ started \in Nat /\ peer \in [Cids -> Sides]
      /\ View.peer = peer
  BY DEF PInv, PeerTypeOK, View, States
<1>4. peer[x.cid].now = Idle
  <2>1. peer[x.cid].now \in {Idle} \cup Ongoing  BY <1>2, <1>3 DEF Sides
  <2>2. \A y \in Ongoing : y.active = TRUE  BY DEF Ongoing
  <2> QED  BY <1>1, <2>1, <2>2
<1>5. was \in {NeverSent} \cup SentBefore  BY <1>2, <1>3 DEF Sides
<1>6. /\ was.ts \in Nat /\ was.delta \in Nat
      /\ ~was.sent => was.ts = 0
  <2>1. NeverSent.ts = 0 /\ NeverSent.delta = 0  BY DEF NeverSent
  <2>2. \A y \in SentBefore : y.ts \in Nat /\ y.delta \in Nat /\ y.sent = TRUE
    BY DEF SentBefore
  <2> HIDE DEF was
  <2> QED  BY <1>5, <2>1, <2>2
<1>7. \/ f = 0 /\ stamp = x.ts
      \/ /\ f = 1 /\ ~was.sent /\ x.cid = ProtocolControl /\ x.sid = 0
         /\ stamp = x.ts /\ stamp < Ext
      \/ /\ f \in 1..3 /\ was.sent /\ x.sid = was.sid
         /\ x.ts >= was.ts /\ stamp = x.ts - was.ts /\ stamp < Ext
         /\ f >= 2 => x.len = was.len /\ x.type = was.type
         /\ f = 3 => stamp = was.delta
  BY <1>1 DEF StartFormats, DeltaOf
<1>8. /\ stamp \in Nat
      /\ stamp >= Ext => stamp = x.ts
      /\ f \in 1..3 /\ was.sent => x.ts = was.ts + stamp
  <2> HIDE DEF stamp, was
  <2> QED  BY <1>2, <1>6, <1>7, TimeAssumption
<1> HIDE DEF stamp
<1>9. started + 1 \in 1..MaxMessages  BY <1>1, <1>3, CountAssumption
<1>10. m \in Ongoing
  <2>1. stamp \in Nat  BY <1>8
  <2> QED  BY <1>2, <1>9, <2>1 DEF Ongoing
<1>11. Underway(m)
  <2>1. /\ m.off = 0 /\ m.stamp = stamp /\ m.ts = x.ts /\ m.cid = x.cid
        /\ m.type = x.type /\ m.sid = x.sid /\ m.len = x.len
        /\ m.size = x.size
    OBVIOUS
  <2>2. m.stamp >= Ext => m.stamp = m.ts  BY <1>8, <2>1
  <2> HIDE DEF m
  <2> QED  BY <1>10, <2>1, <2>2 DEF Underway
<1>12. Opens(View, m, f)
  <2>1. m.cid = x.cid /\ m.off = 0 /\ m.stamp = stamp /\ m.ts = x.ts
        /\ m.sid = x.sid /\ m.len = x.len /\ m.type = x.type
    OBVIOUS
  <2> HIDE DEF m
  <2>2. View.peer[m.cid].now = Idle /\ View.peer[m.cid].prev = was
    BY <1>3, <1>4, <2>1
  <2> HIDE DEF was
  <2> QED  BY <1>7, <1>8, <2>1, <2>2 DEF Opens
<1>13. MaySend(View, m, f)  BY <1>11, <1>12 DEF MaySend
<1>14. prev = Told(m)  BY DEF Told
<1>15. head = (<<Basic(f, m.cid)>> \o HeaderOf(m, f)) \o ExtOf(m, repeats_ext)
  <2>1. HeaderOf(m, f) = IF f = 3 THEN << >> ELSE <<Header(h)>>
    BY DEF HeaderOf
  <2>2. ExtOf(m, repeats_ext) = ExtendedIf(stamp >= Ext, stamp)
    BY DEF ExtOf, ExtendedIf
  <2> QED  BY <2>1, <2>2
<1>16. started' \in Nat  BY <1>1, <1>3
<1> HIDE DEF m, prev, head
<1> QED  BY <1>1, <1>10, <1>13, <1>14, <1>15, <1>16, ChunkSent

(* A message is continued, behind chunks of others.                        *)
LEMMA ContinueUnderstood ==
  ASSUME PInv, NEW c \in Cids, PeerContinues(c)
  PROVE  /\ PInv' /\ delivered' = delivered
         /\ \E w \in AllMessages :
               completed' = completed \/ completed' = Append(completed, w)
<1> DEFINE m == peer[c].now
           head == <<Basic(3, c)>>
                     \o ExtendedIf(m.stamp >= Ext /\ repeats_ext, m.stamp)
<1>1. /\ m.active /\ SendChunk(m, head, peer[c].prev) /\ started' = started
  BY DEF PeerContinues
<1>2. /\ View \in States /\ started \in Nat /\ peer \in [Cids -> Sides]
      /\ View.peer = peer /\ SideOK(peer[c], c)
      /\ repeats_ext \in BOOLEAN
  BY StyleAssumption DEF PInv, PeerTypeOK, View, States
<1>3. m # Idle  BY <1>1 DEF Idle
<1>4. Underway(m) /\ m.off > 0 /\ m.cid = c /\ peer[c].prev = Told(m)
  BY <1>2, <1>3 DEF SideOK
<1>5. m \in Ongoing  BY <1>4 DEF Underway
<1>6. MaySend(View, m, 3)
  BY <1>2, <1>4 DEF MaySend, GoesOn
<1>7. head = (<<Basic(3, m.cid)>> \o HeaderOf(m, 3)) \o ExtOf(m, repeats_ext)
  <2> DEFINE b == <<Basic(3, c)>>
  <2>1. HeaderOf(m, 3) = << >>  BY DEF HeaderOf
  <2>2. b \in Seq(Token)
    <3>1. Basic(3, c) \in Token  BY DEF Basic, Token, Formats
    <3> HIDE DEF Token
    <3> QED  BY <3>1
  <2>3. ExtOf(m, repeats_ext)
          = ExtendedIf(m.stamp >= Ext /\ repeats_ext, m.stamp)
    <3>1. m.off # 0  BY <1>4, <1>5 DEF Ongoing
    <3> HIDE DEF m
    <3> QED  BY <1>2, <3>1 DEF ExtOf, ExtendedIf
  <2> HIDE DEF b
  <2>4. b \o << >> = b  BY <2>2, JoinsTokens
  <2> HIDE DEF m
  <2> QED  BY <1>4, <2>1, <2>3, <2>4 DEF b
<1>8. started' \in Nat /\ 3 \in Formats  BY <1>1, <1>2 DEF Formats
<1> HIDE DEF m, head
<1> QED  BY <1>1, <1>4, <1>5, <1>6, <1>7, <1>8, ChunkSent

-----------------------------------------------------------------------------
(* Every step of the peer and of the reader keeps the invariant.           *)
LEMMA NextPeer ==
  ASSUME Tellable, PInv, [Next]_vars
  PROVE  PInv'
<1>1. ASSUME NEW x \in Pool, NEW f \in Formats, PeerStarts(x, f)
      PROVE  PInv'
  BY <1>1, StartUnderstood
<1>2. ASSUME NEW c \in Cids, PeerContinues(c)
      PROVE  PInv'
  BY <1>2, ContinueUnderstood
<1>3. ASSUME Reads
      PROVE  PInv'
  <2>1. status = "ok"
    BY <1>3 DEF Reads, Receives, TakesBasicHeader, ReadBasicHeader,
       TakesMessageHeader, ReadMessageHeader, TakesExtended, ReadExtended,
       TakesPayload, ReadMessagePayload, Delivers, RecvMessage
  <2>2. UNCHANGED senderVars  BY <1>3 DEF Reads
  <2>3. CASE TakesBasicHeader  BY <2>1, <2>2, <2>3, BasicUnderstood
  <2>4. CASE TakesMessageHeader  BY <2>1, <2>2, <2>4, HeaderUnderstood
  <2>5. CASE TakesExtended  BY <2>1, <2>2, <2>5, ExtendedUnderstood
  <2>6. CASE TakesPayload  BY <2>1, <2>2, <2>6, PayloadUnderstood
  <2>7. CASE Delivers  BY <2>1, <2>2, <2>7, MessageUnderstood
  <2> QED  BY <1>3, <2>3, <2>4, <2>5, <2>6, <2>7 DEF Reads, Receives
<1>4. CASE SocketFails  BY <1>4, BreakUnderstood
<1>5. CASE UNCHANGED vars
  <2>1. PeerTypeOK'
    BY <1>5 DEF vars, socketVars, readerVars, PInv, PeerTypeOK, View
  <2>2. ASSUME status' = "ok"  PROVE Followed'
    <3>1. Followed /\ View' = View
      BY <1>5, <2>2 DEF vars, socketVars, readerVars, PInv, View
    <3>2. ASSUME NEW s \in States, Between(s),
                 Carries(repeats_ext, wire, s, View)
          PROVE  Followed'
      <4>1. Between(s)' /\ Carries(repeats_ext', wire', s, View')
        BY <1>5, <3>1, <3>2 DEF vars, socketVars, readerVars, Between
      <4> QED  BY <4>1 DEF Followed
    <3>3. ASSUME NEW s \in States, NEW m \in Ongoing, NEW f \in Formats,
                 NEW left \in Seq(Token), NEW rest \in Seq(Token),
                 InsideChunk(s, m, f, left, rest)
          PROVE  Followed'
      <4>1. Reading(s, m, f, left)'
        BY <1>5, <3>3 DEF vars, socketVars, readerVars, InsideChunk, Reading
      <4>2. InsideChunk(s, m, f, left, rest)'
        BY <1>5, <3>1, <3>3, <4>1
        DEF vars, socketVars, readerVars, InsideChunk
      <4> QED  BY <4>2 DEF Followed
    <3> QED  BY <3>1, <3>2, <3>3 DEF Followed
  <2> QED  BY <2>1, <2>2 DEF PInv
<1> QED  BY <1>1, <1>2, <1>3, <1>4, <1>5 DEF Next

-----------------------------------------------------------------------------
(* What a chunk carries behind its headers is words.                       *)
LEMMA PayloadIsWords ==
  ASSUME NEW s, NEW m, NEW i \in 1..Size(s, m)
  PROVE  PayloadOf(s, m)[i].kind = "word"
<1>1. PayloadOf(s, m)[i] = Word(WordAt(m, m.off + i))
  BY DEF PayloadOf, WordTokens
<1> QED  BY <1>1 DEF Word

(* The reader is within a chunk unless it reads a basic header.            *)
LEMMA WithinChunk ==
  ASSUME PInv, status = "ok", rpc # "basic"
  PROVE  \E s \in States, m \in Ongoing, f \in Formats,
            left, rest \in Seq(Token) :
               /\ MaySend(s, m, f) /\ wire = left \o rest
               /\ Reading(s, m, f, left)
BY DEF PInv, Followed, Between, InsideChunk

(* What is next on the wire is what the reader takes it for.               *)
LEMMA InvInStep ==
  ASSUME PInv
  PROVE  InStep
<1> SUFFICES ASSUME status = "ok"
             PROVE  /\ rpc = "basic" /\ wire # << >> => NextIs("basic")
                    /\ rpc = "header" /\ wire # << >> => NextIs("header")
                    /\ rpc = "ext" /\ wire # << >> =>
                          ~NextIs("basic") /\ ~NextIs("header")
                    /\ rpc = "payload" =>
                          \A i \in 1..Least(PayloadSize, Len(wire)) :
                              wire[i].kind = "word"
  BY DEF InStep
<1>1. ASSUME rpc = "basic", wire # << >>  PROVE NextIs("basic")
  <2>1. PICK s \in States : Carries(repeats_ext, wire, s, View)
    BY <1>1 DEF PInv, Followed, InsideChunk, Reading
  <2>2. PICK m \in Ongoing, f \in Formats, rest \in Seq(Token) :
          StartsWith(wire, s, m, f, repeats_ext, rest)
    BY <1>1, <2>1, ChunkAhead
  <2>3. Head(wire) = Basic(f, m.cid)  BY <2>2 DEF StartsWith
  <2> QED  BY <1>1, <2>3 DEF NextIs, Basic
<1>2. ASSUME rpc = "header", wire # << >>  PROVE NextIs("header")
  <2>1. PICK s \in States, m \in Ongoing, f \in Formats,
             left, rest \in Seq(Token) :
               /\ MaySend(s, m, f) /\ wire = left \o rest
               /\ Reading(s, m, f, left)
    BY <1>2, WithinChunk
  <2> DEFINE h == [ts |-> Least(m.stamp, Ext), len |-> m.len,
                   type |-> m.type, sid |-> m.sid]
             q == AfterHeader(s, m, repeats_ext)
  <2>2. f # 3 /\ left = AfterBasic(s, m, f, repeats_ext)
    BY <1>2, <2>1 DEF Reading
  <2>3. left = <<Header(h)>> \o q  BY <2>2 DEF AfterBasic, HeaderOf
  <2>4. q \in Seq(Token)
    BY <2>1, TokensType DEF MaySend
  <2>5. Header(h) \in Token
    <3>1. Least(m.stamp, Ext) \in Nat
      BY TimeAssumption DEF Least, Ongoing
    <3>2. h \in HeaderSet  BY <3>1 DEF HeaderSet, Ongoing
    <3> HIDE DEF h
    <3> QED  BY <3>2 DEF Header, Token
  <2> HIDE DEF h, q
  <2>6. Head(wire) = Header(h)  BY <2>1, <2>3, <2>4, <2>5, FirstLeft
  <2> QED  BY <1>2, <2>6 DEF NextIs, Header
<1>3. ASSUME rpc = "ext", wire # << >>
      PROVE  ~NextIs("basic") /\ ~NextIs("header")
  <2>1. PICK s \in States, m \in Ongoing, f \in Formats,
             left, rest \in Seq(Token) :
               /\ MaySend(s, m, f) /\ wire = left \o rest
               /\ Reading(s, m, f, left)
    BY <1>3, WithinChunk
  <2> DEFINE p == PayloadOf(s, m)
  <2>2. m.stamp >= Ext /\ left = ExtOf(m, repeats_ext) \o p
    BY <1>3, <2>1 DEF Reading, AfterHeader
  <2>3. Underway(m) /\ m.off \in Nat /\ m.stamp \in Nat
    BY <2>1 DEF MaySend, Ongoing
  <2>4. p \in Seq(Token) /\ Len(p) = Size(s, m)  BY <2>3, TokensType
  <2>5. Head(wire).kind \in {"ext", "word"}
    <3>1. CASE m.off = 0 \/ repeats_ext
      <4>1. ExtOf(m, repeats_ext) = <<Extended(m.stamp)>>
        BY <2>2, <3>1 DEF ExtOf, ExtendedIf
      <4>2. Extended(m.stamp) \in Token  BY <2>3 DEF Extended, Token
      <4> HIDE DEF p
      <4>3. left = <<Extended(m.stamp)>> \o p  BY <2>2, <4>1
      <4>4. Head(wire) = Extended(m.stamp)
        BY <2>1, <2>4, <4>2, <4>3, FirstLeft
      <4> QED  BY <4>4 DEF Extended
    <3>2. CASE ~(m.off = 0 \/ repeats_ext)
      <4>1. ExtOf(m, repeats_ext) = << >>
        BY <3>2 DEF ExtOf, ExtendedIf
      <4>2. Size(s, m) > 0 /\ Size(s, m) \in Nat
        BY <2>3, <3>2, SizeIsSome
      <4>3. 1 \in 1..Size(s, m)  BY <4>2
      <4>4. p[1].kind = "word"  BY <4>3, PayloadIsWords
      <4> HIDE DEF p
      <4>5. left = p  BY <2>2, <2>4, <4>1, JoinsTokens
      <4>6. wire = p \o rest  BY <2>1, <4>5
      <4>7. (p \o rest)[1] = p[1]  BY <2>1, <2>4, <4>3, LeavesRest
      <4>8. Head(wire) = wire[1]  BY <1>3 DEF PInv, PeerTypeOK
      <4> QED  BY <4>4, <4>6, <4>7, <4>8
    <3> QED  BY <3>1, <3>2
  <2> QED  BY <2>5 DEF NextIs
<1>4. ASSUME rpc = "payload"
      PROVE  \A i \in 1..Least(PayloadSize, Len(wire)) : wire[i].kind = "word"
  <2>1. PICK s \in States, m \in Ongoing, f \in Formats,
             left, rest \in Seq(Token) :
               /\ MaySend(s, m, f) /\ wire = left \o rest
               /\ Reading(s, m, f, left)
    BY <1>4, WithinChunk
  <2> DEFINE n == Size(s, m)
             p == PayloadOf(s, m)
             ch == chunk[m.cid]
  <2>2. /\ in_chunk_size = s.size /\ cur.cid = m.cid
        /\ left = p /\ Knows(ch, Told(m)) /\ Holds(ch, m)
    BY <1>4, <2>1 DEF Reading
  <2>3. Underway(m) /\ n \in Nat /\ m.off \in Nat
    BY <2>1, SizeIsSome DEF MaySend
  <2>4. p \in Seq(Token) /\ Len(p) = n  BY <2>3, TokensType
  <2>5. ch.len = m.len /\ ch.body = Sofar(m)
    BY <2>2 DEF Knows, Told, Holds
  <2>6. Len(Sofar(m)) = m.off
    <3>1. Len([i \in 1..m.off |-> WordAt(m, i)]) = m.off  BY <2>3
    <3> QED  BY <3>1 DEF Sofar
  <2>7. PayloadSize = n
    BY <2>2, <2>5, <2>6 DEF PayloadSize, Size
  <2>8. \A i \in 1..n : p[i].kind = "word"  BY PayloadIsWords
  <2>9. wire = p \o rest  BY <2>1, <2>2
  <2> HIDE DEF n, p
  <2>10. n <= Len(wire) /\ \A i \in 1..n : wire[i] = p[i]
    BY <2>1, <2>4, <2>9, LeavesRest
  <2>11. Len(wire) \in Nat  BY DEF PInv, PeerTypeOK
  <2>12. Least(PayloadSize, Len(wire)) = n
    BY <2>3, <2>7, <2>10, <2>11 DEF Least
  <2> QED  BY <2>8, <2>10, <2>12
<1> QED  BY <1>1, <1>2, <1>3, <1>4

(* With nothing on the wire, the reader is where the peer is.              *)
LEMMA InvAgree ==
  ASSUME PInv
  PROVE  AgreeWhenDrained
<1> SUFFICES ASSUME status = "ok", rpc = "basic", wire = << >>
             PROVE  /\ in_chunk_size = peer_chunk_size
                    /\ \A c \in Cids :
                          /\ chunk[c].msg = peer[c].now.active
                          /\ Len(chunk[c].body) = peer[c].now.off
  BY DEF AgreeWhenDrained
<1>1. PICK s \in States : Between(s) /\ Carries(repeats_ext, wire, s, View)
  BY DEF PInv, Followed, InsideChunk, Reading
<1>2. s = View
  <2>1. ASSUME NEW k \in Seq(Token), NEW x \in Seq(Token), NEW t \in States,
               wire = k \o x, Sends(repeats_ext, s, k, t)
        PROVE  FALSE
    <3>1. k # << >>  BY <2>1, SendsType
    <3>2. Len(k) > 0  BY <3>1
    <3>3. Len(k) <= Len(wire)  BY <2>1, LeavesRest
    <3> QED  BY <3>2, <3>3
  <2> QED  BY <1>1, <2>1, CarriesFirst
<1>3. View \in States /\ View.peer = peer /\ View.size = peer_chunk_size
  BY DEF PInv, PeerTypeOK, View
<1>4. peer \in [Cids -> Sides]  BY <1>3 DEF States
<1>5. ASSUME NEW c \in Cids
      PROVE  /\ chunk[c].msg = peer[c].now.active
             /\ Len(chunk[c].body) = peer[c].now.off
  <2> DEFINE m == peer[c].now
  <2>1. chunk[c].msg = m.active /\ chunk[c].body = Sofar(m)
    BY <1>1, <1>2, <1>3, <1>5 DEF Between, Agrees, Holds
  <2>2. m \in {Idle} \cup Ongoing  BY <1>4, <1>5 DEF Sides
  <2> HIDE DEF m
  <2>3. m.off \in Nat
    <3>1. Idle.off = 0  BY DEF Idle
    <3>2. \A y \in Ongoing : y.off \in Nat  BY DEF Ongoing
    <3> QED  BY <2>2, <3>1, <3>2
  <2>4. Len([i \in 1..m.off |-> WordAt(m, i)]) = m.off  BY <2>3
  <2>5. Len(Sofar(m)) = m.off  BY <2>4 DEF Sofar
  <2> QED  BY <2>1, <2>5 DEF m
<1> QED  BY <1>1, <1>2, <1>3, <1>5 DEF Between

(* A peer that keeps to the format is understood, whatever it sends and    *)
(* however it sends it: the framing is never lost, no fault is found, and  *)
(* both ends agree once all is read.                                       *)
THEOREM PeerIsUnderstood == Tellable => (Spec => []Understood)
<1> SUFFICES ASSUME Tellable  PROVE Spec => []Understood
  OBVIOUS
<1>1. Init => PInv  BY InitPeer
<1>2. PInv /\ [Next]_vars => PInv'  BY NextPeer
<1>3. PInv => Understood
  BY InvInStep, InvAgree DEF PInv, PeerTypeOK, Understood, NoFalseError
<1> QED  BY <1>1, <1>2, <1>3, PTL DEF Spec

-----------------------------------------------------------------------------
(* A message completed by the peer is a message sent over the channel.     *)
LEMMA SentOverChannel ==
  ASSUME NEW w \in AllMessages, completed \in Seq(AllMessages),
         completed' = Append(completed, w), delivered' = delivered
  PROVE  Channel!Send
<1> DEFINE n == Len(completed)
<1>1. n \in Nat /\ Len(completed') = n + 1 /\ completed'[n + 1] = w
  OBVIOUS
<1>2. SubSeq(completed', 1, n) = completed  OBVIOUS
<1>3. \A i \in (n + 1)..Len(completed') : completed'[i] \in AllMessages
  <2> TAKE i \in (n + 1)..Len(completed')
  <2>1. i = n + 1  BY <1>1
  <2> QED  BY <1>1, <2>1
<1> QED  BY <1>1, <1>2, <1>3 DEF Channel!Send

(* What the reader hands on is the oldest message that it has not handed   *)
(* on yet, as the peer sent it.                                            *)
LEMMA ReceivedFromChannel ==
  ASSUME PInv, status = "ok", Delivers, UNCHANGED senderVars
  PROVE  Channel!Receive \/ UNCHANGED <<completed, delivered>>
<1>1. PICK s \in States, m \in Ongoing :
        /\ delivered = s.done
        /\ m.len > 0 => delivered' = Append(s.done, Whole(m))
                        /\ (\E w : Carries(repeats_ext, w, After(s, m), View))
                        /\ After(s, m).done = Append(s.done, Whole(m))
        /\ ~(m.len > 0) => delivered' = s.done
  BY MessageUnderstood
<1>2. completed' = completed /\ View.done = completed
  BY DEF senderVars, View
<1>3. CASE ~(m.len > 0)  BY <1>1, <1>2, <1>3
<1>4. CASE m.len > 0
  <2> DEFINE n == Len(delivered)
             t == Append(delivered, Whole(m))
  <2>1. PICK w : Carries(repeats_ext, w, After(s, m), View)
    BY <1>1, <1>4
  <2>2. After(s, m).done = t /\ delivered' = t  BY <1>1, <1>4
  <2>3. delivered \in Seq(AllMessages)  BY <1>1 DEF States
  <2>4. n \in Nat /\ Len(t) = n + 1 /\ t[n + 1] = Whole(m)
    BY <2>3
  <2> HIDE DEF t
  <2>5. /\ Len(t) <= Len(completed)
        /\ \A i \in 1..Len(t) : completed[i] = t[i]
    BY <1>2, <2>1, <2>2, CarriesDone
  <2>6. completed[n + 1] = Whole(m)  BY <2>4, <2>5
  <2>7. Len(completed) \in Nat
    BY <1>2 DEF PInv, PeerTypeOK, States
  <2>8. n < Len(completed)  BY <2>4, <2>5, <2>7
  <2> QED  BY <1>2, <2>2, <2>6, <2>8 DEF Channel!Receive, t
<1> QED  BY <1>3, <1>4

(* Every step is one of the channel, or changes nothing it knows of.       *)
LEMMA ChannelStep ==
  ASSUME PInv, [Next]_vars
  PROVE  [Channel!Next]_Channel!channelVars
<1> DEFINE Quiet == UNCHANGED <<completed, delivered>>
<1> SUFFICES Channel!Send \/ Channel!Receive \/ Quiet
  BY DEF Channel!Next, Channel!channelVars
<1>d. completed \in Seq(AllMessages)
  BY DEF PInv, PeerTypeOK, View, States
<1>1. ASSUME NEW w \in AllMessages, delivered' = delivered,
             completed' = completed \/ completed' = Append(completed, w)
      PROVE  Channel!Send \/ Quiet
  BY <1>1, <1>d, SentOverChannel
<1>2. ASSUME NEW x \in Pool, NEW f \in Formats, PeerStarts(x, f)
      PROVE  Channel!Send \/ Quiet
  BY <1>1, <1>2, StartUnderstood
<1>3. ASSUME NEW c \in Cids, PeerContinues(c)
      PROVE  Channel!Send \/ Quiet
  BY <1>1, <1>3, ContinueUnderstood
<1>4. CASE Reads
  <2>1. CASE Delivers
    <3>1. status = "ok"  BY <2>1 DEF Delivers, RecvMessage
    <3> QED  BY <1>4, <2>1, <3>1, ReceivedFromChannel DEF Reads
  <2>2. CASE ~Delivers
    <3>1. Quiet
      BY <1>4, <2>2 DEF Reads, Receives, TakesBasicHeader,
         TakesMessageHeader, TakesExtended, TakesPayload, senderVars
    <3> QED  BY <3>1
  <2> QED  BY <2>1, <2>2
<1>5. CASE SocketFails
  BY <1>5 DEF SocketFails, ReadBreaks, senderVars
<1>6. CASE UNCHANGED vars
  BY <1>6 DEF vars, socketVars
<1> QED  BY <1>2, <1>3, <1>4, <1>5, <1>6 DEF Next

(* Between the two ends lies a channel of whole messages: each message the *)
(* peer completes reaches the caller unchanged, once, and in the order of  *)
(* last chunks, however chunks of several messages are interleaved.        *)
THEOREM PeerThroughChannel == Tellable => (Spec => ChannelSpec)
<1> SUFFICES ASSUME Tellable  PROVE Spec => ChannelSpec
  OBVIOUS
<1>1. Init => PInv  BY InitPeer
<1>2. PInv /\ [Next]_vars => PInv'  BY NextPeer
<1>3. Init => Channel!Init  BY DEF Init, SocketInit, Channel!Init
<1>4. PInv /\ [Next]_vars => [Channel!Next]_Channel!channelVars
  BY ChannelStep
<1> QED  BY <1>1, <1>2, <1>3, <1>4, PTL DEF Spec, ChannelSpec, Channel!Spec
=============================================================================
