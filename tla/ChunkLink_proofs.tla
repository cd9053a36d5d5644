--------------------------- MODULE ChunkLink_proofs ---------------------------
(***************************************************************************)
(* Proofs about a writer and a reader of this code, for batches, messages, *)
(* chunk sizes and caches of any size.  The writer of ChunkWriter.tla: its *)
(* header cache and iovecs suffice, headers stay intact until they are     *)
(* written, and what is written is what was handed over, in order.  Both   *)
(* ends connected, ChunkLink.tla: the reader understands all the writer    *)
(* writes, and messages arrive whole, unchanged, once and in order.        *)
(***************************************************************************)
EXTENDS ChunkLink, Selection_proofs, TLAPS

(* What makes the properties inductive: iovecs come in pairs, those of     *)
(* headers point below cache_index, and while chunks are gathered there is *)
(* room for one more header and one more pair.                             *)
InPairs ==
    /\ \E k \in Nat : Len(iovs) = 2 * k
    /\ \E k \in Nat : nb_out_iovs = 2 * k
    /\ nb_out_iovs >= 2

BelowIndex ==
    wpc \in {"gather", "write"} =>
        \A i \in DOMAIN iovs :
            iovs[i].header => iovs[i].base + iovs[i].len <= cache_index

HasRoom ==
    /\ cache_index <= CacheMax
    /\ wpc = "gather" => CacheMax - cache_index >= MaxFmt0

Progress ==
    /\ (wpc \in {"gather", "write", "packet"} /\ batch # << >>) =>
           off <= Head(batch).len
    /\ wpc = "packet" => batch \in Seq(Packets) /\ batch # << >>

WInv ==
    /\ WriterTypeOK /\ InPairs /\ BelowIndex /\ HasRoom /\ IovsFit
    /\ HeadersIntact /\ Progress

-----------------------------------------------------------------------------
(* The caller hands over well formed messages.                             *)
LEMMA NumberedType ==
    ASSUME NEW n \in Nat, NEW xs \in [1..n -> MsgPool \cup PktPool],
           sends \in Nat
    PROVE  /\ Numbered(xs) \in Seq(Sendable)
           /\ Len(Numbered(xs)) = n
           /\ \A i \in 1..n : /\ Numbered(xs)[i].len = xs[i].len
                              /\ Numbered(xs)[i].size = xs[i].size
                              /\ Numbered(xs)[i].type = xs[i].type
<1>1. DOMAIN xs = 1..n
  OBVIOUS
<1>2. ASSUME NEW i \in 1..n
      PROVE  /\ Numbered(xs)[i] \in Sendable
             /\ Numbered(xs)[i].len = xs[i].len
             /\ Numbered(xs)[i].size = xs[i].size
             /\ Numbered(xs)[i].type = xs[i].type
  <2>1. xs[i] \in [cid : Nat, type : Nat, sid : Nat, ts : Nat, len : Nat,
                   size : Nat]
    BY PoolAssumption
  <2>2. Numbered(xs)[i] =
            [cid |-> xs[i].cid, type |-> xs[i].type, sid |-> xs[i].sid,
             ts |-> xs[i].ts, len |-> xs[i].len, size |-> xs[i].size,
             id |-> sends + i]
    BY <1>1 DEF Numbered
  <2> QED BY <2>1, <2>2 DEF Sendable
<1>3. Numbered(xs) \in [1..n -> Sendable]
  BY <1>1, <1>2 DEF Numbered
<1> QED BY <1>2, <1>3

(* A packet that is sent becomes a numbered message with its bytes.        *)
LEMMA PacketType ==
    ASSUME NEW x \in PktPool, sends \in Nat
    PROVE  Numbered(<<x>>)[1] \in Packets
<1> DEFINE xs == <<x>>
<1>1. xs \in [1..1 -> MsgPool \cup PktPool] /\ xs[1] = x
  OBVIOUS
<1>2. /\ Numbered(xs) \in Seq(Sendable) /\ Len(Numbered(xs)) = 1
      /\ Numbered(xs)[1].len = x.len /\ Numbered(xs)[1].size = x.size
      /\ Numbered(xs)[1].type = x.type
  <2> HIDE DEF xs
  <2>1. /\ Numbered(xs) \in Seq(Sendable) /\ Len(Numbered(xs)) = 1
        /\ \A i \in 1..1 : /\ Numbered(xs)[i].len = xs[i].len
                          /\ Numbered(xs)[i].size = xs[i].size
                          /\ Numbered(xs)[i].type = xs[i].type
    <3>1. 1 \in Nat
      OBVIOUS
    <3> QED BY <1>1, <3>1, NumberedType, Zenon
  <2> QED BY <1>1, <2>1
<1>3. Numbered(xs)[1] \in Sendable
  BY <1>2
<1>4. x.len > 0 /\ (x.type = SetChunkSize => x.size > 0)
  BY PoolAssumption
<1> QED BY <1>2, <1>3, <1>4 DEF Packets

(* Giving messages the stream id leaves them messages.                     *)
LEMMA OnStreamType ==
    ASSUME NEW ms \in Seq(Sendable)
    PROVE  OnStream(ms) \in Seq(Sendable)
<1>1. StreamId \in Nat
  BY PoolAssumption
<1>2. \A i \in DOMAIN ms : ms[i] \in Sendable
  OBVIOUS
<1>3. \A m \in Sendable : [m EXCEPT !.sid = StreamId] \in Sendable
  BY <1>1 DEF Sendable
<1>4. DOMAIN ms = 1..Len(ms) /\ Len(ms) \in Nat
  OBVIOUS
<1>5. \A i \in 1..Len(ms) : OnStream(ms)[i] \in Sendable
  BY <1>2, <1>3, <1>4 DEF OnStream
<1>6. OnStream(ms) \in [1..Len(ms) -> Sendable]
  BY <1>4, <1>5 DEF OnStream
<1> QED BY <1>4, <1>6

(* The sizes of one chunk.                                                 *)
LEMMA HeaderFits ==
    ASSUME NEW m, NEW first \in BOOLEAN
    PROVE  /\ HeaderSize(m, first) \in Nat
           /\ HeaderSize(m, first) <= MaxFmt0
BY HeaderAssumption DEF HeaderSize

(* The payload of a chunk never reaches beyond its message.                *)
LEMMA PayloadFitsMessage ==
    ASSUME NEW m \in Sendable, NEW o \in Nat, o <= m.len,
           out_chunk_size \in Nat \ {0}
    PROVE  ChunkPayload(m, o) \in Nat /\ o + ChunkPayload(m, o) <= m.len
BY DEF ChunkPayload, Least, Sendable

-----------------------------------------------------------------------------
(* The invariant holds before anything is written.                         *)
LEMMA WriterInitInv == WriterInit => WInv
<1> SUFFICES ASSUME WriterInit PROVE WInv
  OBVIOUS
<1>1. WriterTypeOK
  BY HeaderAssumption, CacheAssumption, IovAssumption, ChunkSizeAssumption
  DEF WriterInit, WriterTypeOK
<1>2. InPairs
  <2>1. Len(iovs) = 2 * 0
    BY DEF WriterInit
  <2>2. PICK k \in 1..IovsMax : IovsMax = 2 * k
    BY IovAssumption
  <2>3. k \in Nat /\ nb_out_iovs = 2 * k /\ nb_out_iovs >= 2
    BY <2>2, IovAssumption DEF WriterInit
  <2> QED BY <2>1, <2>3 DEF InPairs
<1>3. BelowIndex /\ HasRoom /\ IovsFit /\ HeadersIntact /\ Progress
  BY <1>2, CacheAssumption, HeaderAssumption
  DEF WriterInit, BelowIndex, HasRoom, IovsFit, HeadersIntact, Progress, InPairs
<1> QED BY <1>1, <1>2, <1>3 DEF WInv

(* A batch is handed over: nothing is gathered yet.                        *)
LEMMA SendMessagesInv == WInv /\ CallsSendMessages => WInv'
<1> SUFFICES ASSUME WInv, CallsSendMessages PROVE WInv'
  OBVIOUS
<1>0. PICK n \in 1..MaxBatch : \E xs \in [1..n -> MsgPool] :
          SendMessages(Numbered(xs)) /\ Handed(n)
  BY DEF CallsSendMessages
<1>1. PICK xs \in [1..n -> MsgPool] :
          SendMessages(Numbered(xs)) /\ Handed(n)
  BY <1>0
<1>a. n \in Nat
  BY BatchAssumption
<1> DEFINE ms == Numbered(xs)
<1>2. xs \in [1..n -> MsgPool \cup PktPool]
  OBVIOUS
<1>3. ms \in Seq(Sendable)
  BY <1>a, <1>2, NumberedType DEF WInv, WriterTypeOK
<1> HIDE DEF ms
<1>4. OnStream(ms) \in Seq(Sendable)
  BY <1>3, OnStreamType
<1>5. /\ batch' = OnStream(ms) /\ off' = 0 /\ iovs' = << >> /\ cur_iov' = 0
      /\ cache_index' = 0 /\ wpc' = "gather" /\ sends' = sends + n
      /\ UNCHANGED <<out_chunk_size, headers, nb_out_iovs, responses, wstatus>>
  BY <1>1 DEF SendMessages, Handed, ms
<1>6. WriterTypeOK'
  BY <1>a, <1>4, <1>5 DEF WInv, WriterTypeOK
<1>7. InPairs' /\ IovsFit'
  <2>1. Len(iovs') = 2 * 0
    BY <1>5
  <2> QED BY <1>5, <2>1 DEF WInv, InPairs, IovsFit, WriterTypeOK
<1>8. BelowIndex' /\ HasRoom' /\ HeadersIntact'
  BY <1>5, CacheAssumption, HeaderAssumption
  DEF BelowIndex, HasRoom, HeadersIntact
<1>9. Progress'
  <2>1. batch' # << >> => Head(batch') \in Sendable
    BY <1>4, <1>5
  <2> QED BY <1>5, <2>1 DEF Progress, Sendable
<1> QED BY <1>6, <1>7, <1>8, <1>9 DEF WInv

(* One chunk is gathered: its header goes behind all the others, and the   *)
(* cache and the iovecs are left with room for another, or it is dry.      *)
LEMMA GatherChunkInv == WInv /\ GatherChunk => WInv'
<1> SUFFICES ASSUME WInv, GatherChunk PROVE WInv'
  OBVIOUS
<1> DEFINE m == Head(batch)
           nbh == HeaderSize(m, off = 0)
           n == ChunkPayload(m, off)
           last == off + n = m.len
           hv == [header |-> TRUE, base |-> cache_index, len |-> nbh,
                  msg |-> m, from |-> off]
           pv == [header |-> FALSE, base |-> off, len |-> n,
                  msg |-> m, from |-> off]
<1>1. /\ wpc = "gather" /\ batch # << >>
      /\ headers' = [i \in DOMAIN headers |->
                IF i \in cache_index..(cache_index + nbh - 1)
                THEN <<m, off, i - cache_index>> ELSE headers[i]]
      /\ iovs' = iovs \o <<hv, pv>>
      /\ nb_out_iovs' = GrownIovs
      /\ cache_index' = cache_index + nbh
      /\ batch' = (IF last THEN Tail(batch) ELSE batch)
      /\ off' = (IF last THEN 0 ELSE off + n)
      /\ wpc' = (IF IsDry THEN "write" ELSE "gather")
      /\ UNCHANGED <<out_chunk_size, cur_iov, responses, wstatus, sends>>
  BY DEF GatherChunk
<1>2. WriterTypeOK /\ InPairs /\ BelowIndex /\ HasRoom /\ IovsFit
      /\ HeadersIntact /\ Progress
  BY DEF WInv
<1>3. m \in Sendable /\ off \in Nat /\ off <= m.len
  BY <1>1, <1>2 DEF WriterTypeOK, Progress
<1>4. nbh \in Nat /\ nbh <= MaxFmt0
  BY HeaderFits
<1>5. n \in Nat /\ off + n <= m.len
  BY <1>2, <1>3, PayloadFitsMessage DEF WriterTypeOK
<1> HIDE DEF m, nbh, n
<1>6. hv \in Iovec /\ pv \in Iovec
  BY <1>2, <1>3, <1>4, <1>5 DEF Iovec, WriterTypeOK
<1>7. /\ iovs' \in Seq(Iovec) /\ Len(iovs') = Len(iovs) + 2
      /\ \A i \in 1..Len(iovs) : iovs'[i] = iovs[i]
      /\ iovs'[Len(iovs) + 1] = hv /\ iovs'[Len(iovs) + 2] = pv
  <2> HIDE DEF hv, pv
  <2>1. iovs \in Seq(Iovec) /\ iovs' = iovs \o <<hv, pv>>
    BY <1>1, <1>2 DEF WriterTypeOK
  <2> QED BY <1>6, <2>1
<1>8. nb_out_iovs' \in Nat /\ nb_out_iovs <= nb_out_iovs'
  BY <1>1, <1>2, IovAssumption DEF GrownIovs, WriterTypeOK
<1>9. MaxFmt0 \in Nat /\ CacheMax \in Nat
  BY HeaderAssumption, CacheAssumption
<1>10. /\ cache_index \in Nat /\ cache_index + nbh <= CacheMax
       /\ CacheMax - cache_index >= MaxFmt0
  BY <1>1, <1>2, <1>4, <1>9 DEF HasRoom, WriterTypeOK
<1>11. WriterTypeOK'
  <2>1. batch' \in Seq(Sendable) /\ off' \in Nat
    BY <1>1, <1>2, <1>3, <1>5 DEF WriterTypeOK
  <2>2. cur_iov' \in 0..Len(iovs')
    BY <1>1, <1>2, <1>7 DEF WriterTypeOK
  <2>3. cache_index' \in Nat /\ DOMAIN headers' = 0..(CacheMax - 1)
    BY <1>1, <1>2, <1>4, <1>10 DEF WriterTypeOK
  <2>4. wpc' \in {"idle", "gather", "write", "packet", "flush"}
    BY <1>1
  <2> QED BY <1>1, <1>2, <1>7, <1>8, <2>1, <2>2, <2>3, <2>4 DEF WriterTypeOK
<1>12. InPairs'
  <2>1. PICK k \in Nat : Len(iovs) = 2 * k
    BY <1>2 DEF InPairs
  <2>2. k + 1 \in Nat /\ Len(iovs') = 2 * (k + 1)
    BY <1>7, <2>1
  <2>3. PICK j \in Nat : nb_out_iovs = 2 * j
    BY <1>2 DEF InPairs
  <2>4. PICK q \in 1..IovsMax : IovsMax = 2 * q
    BY IovAssumption
  <2>5. \E k1 \in Nat : nb_out_iovs' = 2 * k1
    <3>1. CASE nb_out_iovs' = nb_out_iovs
      BY <2>3, <3>1
    <3>2. CASE nb_out_iovs' = nb_out_iovs + IovsMax
      <4>1. j + q \in Nat /\ nb_out_iovs' = 2 * (j + q)
        BY <2>3, <2>4, <3>2, IovAssumption
      <4> QED BY <4>1
    <3> QED BY <1>1, <3>1, <3>2 DEF GrownIovs
  <2>6. nb_out_iovs' >= 2
    BY <1>2, <1>8 DEF InPairs, WriterTypeOK
  <2>7. \E k1 \in Nat : Len(iovs') = 2 * k1
    BY <2>2
  <2> QED BY <2>5, <2>6, <2>7 DEF InPairs
<1>13. IovsFit'
  <2>1. Len(iovs) \in Nat /\ Len(iovs) + 2 <= nb_out_iovs
    BY <1>1, <1>2 DEF IovsFit, WriterTypeOK
  <2>2. PICK k \in Nat : Len(iovs) = 2 * k
    BY <1>2 DEF InPairs
  <2>3. PICK j \in Nat : nb_out_iovs = 2 * j
    BY <1>2 DEF InPairs
  <2>4. IovsMax \in Nat /\ IovsMax >= 2
    BY IovAssumption
  <2>5. Len(iovs) + 4 <= nb_out_iovs'
    <3>1. CASE Len(iovs) >= nb_out_iovs - 2
      BY <1>1, <2>1, <2>3, <2>4, <3>1 DEF GrownIovs
    <3>2. CASE ~(Len(iovs) >= nb_out_iovs - 2)
      <4>1. nb_out_iovs' = nb_out_iovs
        BY <1>1, <3>2 DEF GrownIovs
      <4>2. k + 2 <= j
        BY <2>1, <2>2, <2>3, <3>2
      <4> QED BY <2>2, <2>3, <4>1, <4>2
    <3> QED BY <3>1, <3>2
  <2> QED BY <1>7, <1>8, <2>1, <2>5 DEF IovsFit
<1>14. HasRoom'
  BY <1>1, <1>4, <1>9, <1>10 DEF HasRoom, IsDry
<1>15. \A i \in DOMAIN iovs' :
          \/ i \in DOMAIN iovs /\ iovs'[i] = iovs[i]
          \/ iovs'[i] = hv
          \/ iovs'[i] = pv
  <2> HIDE DEF hv, pv
  <2> SUFFICES ASSUME NEW i \in DOMAIN iovs'
               PROVE  \/ i \in DOMAIN iovs /\ iovs'[i] = iovs[i]
                      \/ iovs'[i] = hv
                      \/ iovs'[i] = pv
    OBVIOUS
  <2>1. Len(iovs) \in Nat /\ DOMAIN iovs = 1..Len(iovs)
    BY <1>2 DEF WriterTypeOK
  <2>2. i \in 1..(Len(iovs) + 2)
    BY <1>7
  <2>3. i \in 1..Len(iovs) \/ i = Len(iovs) + 1 \/ i = Len(iovs) + 2
    BY <2>1, <2>2
  <2> QED BY <1>7, <2>1, <2>3
<1>16. BelowIndex'
  <2> SUFFICES ASSUME NEW i \in DOMAIN iovs', iovs'[i].header
               PROVE  iovs'[i].base + iovs'[i].len <= cache_index'
    BY DEF BelowIndex
  <2>1. CASE i \in DOMAIN iovs /\ iovs'[i] = iovs[i]
    <3>1. iovs[i] \in Iovec /\ iovs[i].base + iovs[i].len <= cache_index
      BY <1>1, <1>2, <2>1 DEF BelowIndex, WriterTypeOK
    <3> QED BY <1>1, <1>4, <1>10, <2>1, <3>1 DEF Iovec
  <2>2. CASE iovs'[i] = hv
    BY <1>1, <1>4, <1>10, <2>2
  <2> QED BY <1>15, <2>1, <2>2
<1>17. HeadersIntact'
  <2> SUFFICES ASSUME NEW i \in DOMAIN iovs', iovs'[i].header
               PROVE  \A b \in 0..(iovs'[i].len - 1) :
                         headers'[iovs'[i].base + b]
                             = <<iovs'[i].msg, iovs'[i].from, b>>
    BY DEF HeadersIntact, HeaderIntact
  <2>1. CASE i \in DOMAIN iovs /\ iovs'[i] = iovs[i]
    <3>1. /\ iovs[i] \in Iovec /\ iovs[i].base + iovs[i].len <= cache_index
          /\ HeaderIntact(iovs[i])
      BY <1>1, <1>2, <2>1 DEF BelowIndex, HeadersIntact, WriterTypeOK
    <3>2. ASSUME NEW b \in 0..(iovs[i].len - 1)
          PROVE  headers'[iovs[i].base + b] = headers[iovs[i].base + b]
      <4>1. iovs[i].base + b \in 0..(cache_index - 1)
        BY <1>10, <3>1 DEF Iovec
      <4>2. iovs[i].base + b \in DOMAIN headers
        BY <1>2, <1>4, <1>9, <1>10, <4>1 DEF WriterTypeOK
      <4>3. iovs[i].base + b \notin cache_index..(cache_index + nbh - 1)
        BY <1>10, <4>1
      <4> QED BY <1>1, <4>2, <4>3
    <3> QED BY <2>1, <3>1, <3>2 DEF HeaderIntact
  <2>2. CASE iovs'[i] = hv
    <3>1. ASSUME NEW b \in 0..(nbh - 1)
          PROVE  headers'[cache_index + b] = <<m, off, b>>
      <4>1. cache_index + b \in cache_index..(cache_index + nbh - 1)
        BY <1>4, <1>10
      <4>2. cache_index + b \in DOMAIN headers
        BY <1>2, <1>4, <1>9, <1>10 DEF WriterTypeOK
      <4>3. (cache_index + b) - cache_index = b
        BY <1>10
      <4> QED BY <1>1, <4>1, <4>2, <4>3
    <3> QED BY <2>2, <3>1 DEF HeaderIntact
  <2> QED BY <1>15, <2>1, <2>2
<1>18. Progress'
  <2>1. CASE last
    <3>1. batch' \in Seq(Sendable) /\ off' = 0
      BY <1>1, <1>11, <2>1 DEF WriterTypeOK
    <3>2. batch' # << >> => Head(batch') \in Sendable
      BY <3>1
    <3>3. \A x \in Sendable : 0 <= x.len
      BY DEF Sendable
    <3>5. batch' # << >> => off' <= Head(batch').len
      BY <3>1, <3>2, <3>3
    <3>4. wpc' # "packet"
      BY <1>1
    <3> QED BY <3>4, <3>5 DEF Progress
  <2>2. CASE ~last
    <3>1. batch' = batch /\ off' = off + n
      BY <1>1, <2>2
    <3>2. Head(batch') = m
      BY <3>1 DEF m
    <3>3. wpc' # "packet"
      BY <1>1
    <3> QED BY <1>5, <3>1, <3>2, <3>3 DEF Progress
  <2> QED BY <2>1, <2>2
<1> QED BY <1>11, <1>12, <1>13, <1>14, <1>16, <1>17, <1>18 DEF WInv

(* Skipping an empty message keeps the invariant.                          *)
LEMMA SkipEmptyInv == WInv /\ SkipEmpty => WInv'
<1> SUFFICES ASSUME WInv, SkipEmpty PROVE WInv'
  OBVIOUS
<1>1. /\ wpc = "gather" /\ batch # << >> /\ batch' = Tail(batch)
      /\ Head(batch).len <= 0 \/ ~(Head(batch).len > 0)
      /\ UNCHANGED <<out_chunk_size, off, headers, cache_index, iovs,
                     nb_out_iovs, cur_iov, responses, wpc, wstatus, sends>>
  BY DEF SkipEmpty, NotEmpty
<1>2. batch \in Seq(Sendable) /\ off \in Nat /\ off <= Head(batch).len
  BY <1>1 DEF WInv, WriterTypeOK, Progress
<1>3. batch' \in Seq(Sendable) /\ Head(batch) \in Sendable
  BY <1>1, <1>2
<1>4. off = 0
  <2>1. \A x \in Sendable : x.len \in Nat
    BY DEF Sendable
  <2>2. Head(batch).len \in Nat
    BY <1>3, <2>1
  <2> QED BY <1>1, <1>2, <2>2
<1>5. WriterTypeOK'
  BY <1>1, <1>3 DEF WInv, WriterTypeOK
<1>6. Progress'
  <2>1. \A x \in Sendable : 0 <= x.len
    BY DEF Sendable
  <2>2. batch' # << >> => Head(batch') \in Sendable
    BY <1>3
  <2> QED BY <1>1, <1>4, <2>1, <2>2 DEF Progress
<1> QED BY <1>1, <1>5, <1>6
    DEF WInv, InPairs, BelowIndex, HasRoom, IovsFit, HeadersIntact,
        HeaderIntact

(* The end of the gathering keeps the invariant.                           *)
LEMMA GatheredInv == WInv /\ Gathered => WInv'
<1> SUFFICES ASSUME WInv, Gathered PROVE WInv'
  OBVIOUS
<1>1. /\ wpc = "gather" /\ wpc' \in {"flush", "write"}
      /\ UNCHANGED <<out_chunk_size, batch, off, headers, cache_index, iovs,
                     nb_out_iovs, cur_iov, responses, wstatus, sends>>
  BY DEF Gathered
<1>2. WriterTypeOK'
  BY <1>1 DEF WInv, WriterTypeOK
<1> QED BY <1>1, <1>2
    DEF WInv, InPairs, BelowIndex, HasRoom, IovsFit, HeadersIntact,
        HeaderIntact, Progress

(* The iovecs are written, all or the next IovLimit of them.               *)
LEMMA WriteIovsInv == WInv /\ WriteIovs => WInv'
<1> SUFFICES ASSUME WInv, WriteIovs PROVE WInv'
  OBVIOUS
<1>1. /\ wpc = "write"
      /\ UNCHANGED <<out_chunk_size, batch, off, headers, nb_out_iovs,
                     responses, wstatus, sends>>
  BY DEF WriteIovs
<1>2. WriterTypeOK /\ InPairs /\ IovsFit
  BY DEF WInv
<1>3. CASE cur_iov + WriteCount < Len(iovs)
  <2>1. cur_iov' = cur_iov + WriteCount /\ UNCHANGED <<iovs, cache_index, wpc>>
    BY <1>3 DEF WriteIovs
  <2>2. WriteCount \in Nat
    BY <1>2, IovAssumption DEF WriteCount, Least, WriterTypeOK
  <2>3. cur_iov' \in 0..Len(iovs')
    BY <1>2, <1>3, <2>1, <2>2 DEF WriterTypeOK
  <2>4. WriterTypeOK'
    BY <1>1, <1>2, <2>1, <2>3 DEF WriterTypeOK
  <2> QED BY <1>1, <2>1, <2>4
      DEF WInv, InPairs, BelowIndex, HasRoom, IovsFit, HeadersIntact,
          HeaderIntact, Progress
<1>4. CASE ~(cur_iov + WriteCount < Len(iovs))
  <2>1. /\ iovs' = << >> /\ cur_iov' = 0 /\ cache_index' = 0
        /\ wpc' = (IF batch = << >> THEN "flush" ELSE "gather")
    BY <1>4 DEF WriteIovs, ResetCaches
  <2>2. WriterTypeOK'
    BY <1>1, <1>2, <2>1 DEF WriterTypeOK
  <2>3. InPairs' /\ IovsFit'
    <3>1. Len(iovs') = 2 * 0
      BY <2>1
    <3> QED BY <1>1, <1>2, <2>1, <3>1 DEF InPairs, IovsFit, WriterTypeOK
  <2>4. BelowIndex' /\ HasRoom' /\ HeadersIntact'
    BY <2>1, CacheAssumption, HeaderAssumption
    DEF BelowIndex, HasRoom, HeadersIntact
  <2>5. Progress'
    BY <1>1, <2>1 DEF WInv, Progress
  <2> QED BY <2>2, <2>3, <2>4, <2>5 DEF WInv
<1> QED BY <1>3, <1>4

-----------------------------------------------------------------------------
(* Packets and responses leave the caches alone.                           *)
LEMMA StartPacketInv ==
    ASSUME WInv, wpc \in {"idle", "flush"},
           NEW x \in Packets, batch' = <<x>>, off' = 0, wpc' = "packet",
           responses' \in Seq(Packets), sends' \in Nat,
           UNCHANGED <<out_chunk_size, headers, cache_index, iovs,
                       nb_out_iovs, cur_iov, wstatus>>
    PROVE  WInv'
<1>1. x \in Sendable /\ 0 <= x.len
  BY DEF Packets, Sendable
<1>2. batch' \in Seq(Sendable) /\ batch' \in Seq(Packets)
      /\ batch' # << >> /\ Head(batch') = x
  BY <1>1
<1>3. WriterTypeOK'
  BY <1>2 DEF WInv, WriterTypeOK
<1> QED BY <1>1, <1>2, <1>3
    DEF WInv, InPairs, BelowIndex, HasRoom, IovsFit, HeadersIntact,
        HeaderIntact, Progress

(* do_send_packet, up to its first chunk, keeps the invariant.             *)
LEMMA SendPacketInv == WInv /\ CallsSendPacket => WInv'
<1> SUFFICES ASSUME WInv, CallsSendPacket PROVE WInv'
  OBVIOUS
<1>1. PICK x \in PktPool : SendPacket(Numbered(<<x>>)[1]) /\ Handed(1)
  BY DEF CallsSendPacket
<1>2. sends \in Nat /\ responses \in Seq(Packets)
  BY DEF WInv, WriterTypeOK
<1>3. Numbered(<<x>>)[1] \in Packets
  BY <1>2, PacketType
<1>4. sends' \in Nat
  BY <1>1, <1>2 DEF Handed
<1> QED BY <1>1, <1>2, <1>3, <1>4, StartPacketInv DEF SendPacket

(* Taking the next response to flush keeps the invariant.                  *)
LEMMA FlushNextInv == WInv /\ FlushNext => WInv'
<1> SUFFICES ASSUME WInv, FlushNext PROVE WInv'
  OBVIOUS
<1>1. sends \in Nat /\ responses \in Seq(Packets) /\ responses # << >>
  BY DEF WInv, WriterTypeOK, FlushNext
<1>2. Head(responses) \in Packets /\ Tail(responses) \in Seq(Packets)
  BY <1>1
<1> QED BY <1>1, <1>2, StartPacketInv DEF FlushNext, Erased

(* Writing one chunk of a packet keeps the invariant.                      *)
LEMMA WritePacketChunkInv == WInv /\ WritePacketChunk => WInv'
<1> SUFFICES ASSUME WInv, WritePacketChunk PROVE WInv'
  OBVIOUS
<1> DEFINE m == Head(batch)
           n == ChunkPayload(m, off)
           last == off + n = m.len
<1>1. /\ wpc = "packet"
      /\ off' = (IF last THEN 0 ELSE off + n)
      /\ batch' = (IF last THEN << >> ELSE batch)
      /\ out_chunk_size' = (IF last THEN ChunkSizeSent(m) ELSE out_chunk_size)
      /\ wpc' = (IF last THEN "flush" ELSE "packet")
      /\ UNCHANGED <<headers, cache_index, iovs, nb_out_iovs, cur_iov,
                     responses, wstatus, sends>>
  BY DEF WritePacketChunk
<1>2. WriterTypeOK /\ batch \in Seq(Packets) /\ batch # << >>
      /\ off \in Nat /\ off <= m.len
  BY <1>1 DEF WInv, WriterTypeOK, Progress
<1>3. m \in Packets
  BY <1>2
<1>4. m \in Sendable /\ (m.type = SetChunkSize => m.size > 0)
  BY <1>3 DEF Packets
<1>5. n \in Nat /\ off + n <= m.len
  BY <1>2, <1>4, PayloadFitsMessage DEF WriterTypeOK
<1>6. ChunkSizeSent(m) \in Nat \ {0}
  <2>1. m.size \in Nat
    BY <1>4 DEF Sendable
  <2> QED BY <1>2, <1>4, <2>1 DEF ChunkSizeSent, WriterTypeOK
<1> HIDE DEF n
<1>7. WriterTypeOK'
  <2>1. batch' \in Seq(Sendable) /\ off' \in Nat
    BY <1>1, <1>2, <1>5 DEF WriterTypeOK
  <2>2. out_chunk_size' \in Nat \ {0}
    BY <1>1, <1>2, <1>6 DEF WriterTypeOK
  <2>3. wpc' \in {"idle", "gather", "write", "packet", "flush"}
    BY <1>1
  <2> QED BY <1>1, <1>2, <2>1, <2>2, <2>3 DEF WriterTypeOK
<1>8. Progress'
  <2>1. CASE last
    BY <1>1, <2>1 DEF Progress
  <2>2. CASE ~last
    <3>1. batch' = batch /\ off' = off + n
      BY <1>1, <2>2
    <3> QED BY <1>2, <1>5, <3>1 DEF Progress
  <2> QED BY <2>1, <2>2
<1>9. wpc' \notin {"gather", "write"}
  BY <1>1
<1> QED BY <1>1, <1>7, <1>8, <1>9
    DEF WInv, InPairs, BelowIndex, HasRoom, IovsFit, HeadersIntact

(* Queueing a response keeps the invariant.                                *)
LEMMA QueueInv == WInv /\ Queues => WInv'
<1> SUFFICES ASSUME WInv, Queues PROVE WInv'
  OBVIOUS
<1>1. PICK x \in PktPool : QueueResponse(Numbered(<<x>>)[1]) /\ Handed(1)
  BY DEF Queues
<1>2. sends \in Nat /\ responses \in Seq(Packets)
  BY DEF WInv, WriterTypeOK
<1>3. Numbered(<<x>>)[1] \in Packets
  BY <1>2, PacketType
<1>4. responses' \in Seq(Packets) /\ sends' \in Nat
  BY <1>1, <1>2, <1>3 DEF QueueResponse, Handed
<1>5. WriterTypeOK'
  BY <1>1, <1>4 DEF WInv, WriterTypeOK, QueueResponse
<1> QED BY <1>1, <1>5
    DEF WInv, InPairs, BelowIndex, HasRoom, IovsFit, HeadersIntact,
        HeaderIntact, Progress, QueueResponse

(* The end of a flush keeps the invariant.                                 *)
LEMMA FlushedInv == WInv /\ Flushed => WInv'
<1> SUFFICES ASSUME WInv, Flushed PROVE WInv'
  OBVIOUS
<1>1. WriterTypeOK'
  BY DEF WInv, WriterTypeOK, Flushed
<1> QED BY <1>1
    DEF WInv, InPairs, BelowIndex, HasRoom, IovsFit, HeadersIntact,
        HeaderIntact, Progress, Flushed

(* A failed write keeps the invariant.                                     *)
LEMMA WriteFailsInv == WInv /\ WriteFails => WInv'
<1> SUFFICES ASSUME WInv, WriteFails PROVE WInv'
  OBVIOUS
<1>1. WriterTypeOK'
  BY DEF WInv, WriterTypeOK, WriteFails
<1> QED BY <1>1
    DEF WInv, InPairs, BelowIndex, HasRoom, IovsFit, HeadersIntact,
        HeaderIntact, Progress, WriteFails

(* Every step of the writer keeps the invariant.                           *)
LEMMA WriterNextInv == WInv /\ [WriterNext]_writerVars => WInv'
<1> SUFFICES ASSUME WInv, [WriterNext]_writerVars PROVE WInv'
  OBVIOUS
<1>1. CASE CallsSendMessages
  BY <1>1, SendMessagesInv
<1>2. CASE CallsSendPacket
  BY <1>2, SendPacketInv
<1>3. CASE Queues
  BY <1>3, QueueInv
<1>4. CASE Sends
  BY <1>4, GatherChunkInv, SkipEmptyInv, GatheredInv, WriteIovsInv,
     WritePacketChunkInv, FlushNextInv, FlushedInv DEF Sends
<1>5. CASE WriteFails
  BY <1>5, WriteFailsInv
<1>6. CASE UNCHANGED writerVars
  <2>1. WriterTypeOK'
    BY <1>6 DEF writerVars, WInv, WriterTypeOK
  <2> QED BY <1>6, <2>1
      DEF writerVars, WInv, InPairs, BelowIndex, HasRoom, IovsFit,
          HeadersIntact, HeaderIntact, Progress
<1> QED BY <1>1, <1>2, <1>3, <1>4, <1>5, <1>6 DEF WriterNext

-----------------------------------------------------------------------------
(* The invariant holds in every reachable state.                           *)
LEMMA WriterInvariant == WriterSpec => []WInv
BY WriterInitInv, WriterNextInv, PTL DEF WriterSpec

(* Type correctness.                                                       *)
THEOREM WriterTypeCorrect == WriterSpec => []WriterTypeOK
<1>1. WInv => WriterTypeOK
  BY DEF WInv
<1> QED BY <1>1, WriterInvariant, PTL

(* What an iovec points to is what it was made for, however many chunks    *)
(* and messages one batch has: out_c0c3_caches is never reused too early.  *)
THEOREM HeadersStayIntact == WriterSpec => []HeadersIntact
<1>1. WInv => HeadersIntact
  BY DEF WInv
<1> QED BY <1>1, WriterInvariant, PTL

(* Where a header is to be stored there is room for it.                    *)
LEMMA RoomSuffices == WInv => CacheSuffices
BY HeaderAssumption, CacheAssumption
   DEF WInv, HasRoom, CacheSuffices, Fits, WriterTypeOK

(* The assertion nbh > 0 of do_send_messages cannot fail, and no header is *)
(* written outside the cache.                                              *)
THEOREM CacheAlwaysSuffices == WriterSpec => []CacheSuffices
<1>1. WInv => CacheSuffices  BY RoomSuffices
<1> QED BY <1>1, WriterInvariant, PTL

(* Every pair of iovecs is written inside the allocated array.             *)
THEOREM IovsAlwaysFit == WriterSpec => []IovsFit
<1>1. WInv => IovsFit
  BY DEF WInv
<1> QED BY <1>1, WriterInvariant, PTL

(* What is gathered fits its arrays and is intact when it is written, for  *)
(* all sizes of the caches.                                                *)
THEOREM GatheredStaysIntact == WriterSpec => []GatheredIntact
<1>1. HeadersIntact /\ CacheSuffices /\ IovsFit => GatheredIntact
  BY DEF GatheredIntact
<1> QED
  BY <1>1, HeadersStayIntact, CacheAlwaysSuffices, IovsAlwaysFit, PTL

-----------------------------------------------------------------------------
(* What is handed over and not written yet: the messages that end among    *)
(* the gathered iovecs, then those still to be gathered, or the packet.    *)
Owed ==
    CASE wpc \in {"gather", "write"} ->
            MessagesEnding(SubSeq(iovs, cur_iov + 1, Len(iovs)))
                \o Wholes(Among(batch, NonEmpty))
      [] wpc = "packet" -> Wholes(batch)
      [] OTHER -> << >>

WholeOnes == {Whole(m) : m \in Sendable}

OrderInv ==
    /\ sent \in Seq(WholeOnes) /\ handed \in Seq(WholeOnes)
    /\ wstatus = "ok" => handed = sent \o Owed
    /\ wstatus = "failed" => wpc = "idle" /\ IsPrefix(sent, handed)
    /\ wpc = "packet" => Len(batch) = 1
    /\ wpc = "gather" => cur_iov = 0
    /\ (wpc = "write" /\ cur_iov # 0) => Len(iovs) >= IovLimit

(* Whole and the messages of iovecs, element by element.                   *)
LEMMA WholesConcat ==
    ASSUME NEW s \in Seq(Sendable), NEW t \in Seq(Sendable)
    PROVE  /\ Wholes(s) \in Seq(WholeOnes)
           /\ Wholes(s \o t) = Wholes(s) \o Wholes(t)
<1>1. ASSUME NEW r \in Seq(Sendable)
      PROVE  /\ Wholes(r) \in Seq(WholeOnes) /\ Len(Wholes(r)) = Len(r)
             /\ \A i \in 1..Len(r) : Wholes(r)[i] = Whole(r[i])
  <2>1. DOMAIN r = 1..Len(r) /\ Len(r) \in Nat /\ \A i \in 1..Len(r) : r[i] \in Sendable
    OBVIOUS
  <2>2. Wholes(r) \in [1..Len(r) -> WholeOnes]
    BY <2>1 DEF Wholes, WholeOnes
  <2> QED BY <2>1, <2>2 DEF Wholes
<1> DEFINE st == s \o t
           x == Wholes(st)
           y == Wholes(s)
           z == Wholes(t)
<1>2. st \in Seq(Sendable) /\ Len(st) = Len(s) + Len(t)
      /\ \A i \in 1..Len(s) : st[i] = s[i]
  OBVIOUS
<1>2a. \A i \in 1..Len(t) : st[Len(s) + i] = t[i]
  OBVIOUS
<1>3. Len(s) \in Nat /\ Len(t) \in Nat
  OBVIOUS
<1> HIDE DEF st
<1>4. /\ x \in Seq(WholeOnes) /\ Len(x) = Len(s) + Len(t)
      /\ \A i \in 1..Len(s) + Len(t) : x[i] = Whole(st[i])
  BY <1>1, <1>2
<1>5. /\ y \in Seq(WholeOnes) /\ Len(y) = Len(s)
      /\ \A i \in 1..Len(s) : y[i] = Whole(s[i])
  BY <1>1
<1>6. /\ z \in Seq(WholeOnes) /\ Len(z) = Len(t)
      /\ \A i \in 1..Len(t) : z[i] = Whole(t[i])
  BY <1>1
<1> HIDE DEF x, y, z
<1>7. \A i \in 1..Len(y) : x[i] = y[i]
  BY <1>2, <1>3, <1>4, <1>5
<1>8. ASSUME NEW i \in 1..Len(z) PROVE x[Len(y) + i] = z[i]
  <2>1. i \in 1..Len(t) /\ Len(s) + i \in 1..Len(s) + Len(t)
    BY <1>3, <1>6
  <2>2. st[Len(s) + i] = t[i]
    BY <1>2a, <2>1
  <2>3. x[Len(s) + i] = Whole(st[Len(s) + i])
    BY <1>4, <2>1
  <2>4. z[i] = Whole(t[i]) /\ Len(y) = Len(s)
    BY <1>5, <1>6, <2>1
  <2> QED BY <2>2, <2>3, <2>4
<1>9. x = y \o z
  <2>1. x \in Seq(WholeOnes) /\ y \in Seq(WholeOnes)
        /\ z \in Seq(WholeOnes) /\ Len(x) = Len(y) + Len(z)
    BY <1>4, <1>5, <1>6
  <2> QED BY <1>7, <1>8, <2>1, Joined
<1> QED BY <1>5, <1>9 DEF x, y, z, st

(* The messages that end among the iovecs, the same way.                   *)
LEMMA EndingConcat ==
    ASSUME NEW vs \in Seq(Iovec), NEW ws \in Seq(Iovec)
    PROVE  /\ MessagesEnding(vs) \in Seq(WholeOnes)
           /\ MessagesEnding(vs \o ws) = MessagesEnding(vs) \o MessagesEnding(ws)
<1> DEFINE Msgs(r) == [i \in DOMAIN r |-> r[i].msg]
<1>1. ASSUME NEW r \in Seq(Iovec)
      PROVE  /\ Msgs(r) \in Seq(Sendable) /\ Len(Msgs(r)) = Len(r)
             /\ \A i \in 1..Len(r) : Msgs(r)[i] = r[i].msg
  <2>1. DOMAIN r = 1..Len(r) /\ Len(r) \in Nat /\ \A i \in 1..Len(r) : r[i] \in Iovec
    OBVIOUS
  <2>2. Msgs(r) \in [1..Len(r) -> Sendable]
    BY <2>1 DEF Iovec
  <2> QED BY <2>1, <2>2
<1> DEFINE a == Among(vs, LastIovs)
           b == Among(ws, LastIovs)
           c == a \o b
           x == Msgs(c)
           y == Msgs(a)
           z == Msgs(b)
<1>2. a \in Seq(Iovec) /\ b \in Seq(Iovec)
  <2>1. a \in Seq(Iovec \cap LastIovs) /\ b \in Seq(Iovec \cap LastIovs)
    BY AmongType
  <2> HIDE DEF a, b
  <2> QED BY <2>1
<1>3. Among(vs \o ws, LastIovs) = c
  BY AmongConcat
<1>4. /\ MessagesEnding(vs) = Wholes(y) /\ MessagesEnding(ws) = Wholes(z)
      /\ MessagesEnding(vs \o ws) = Wholes(x)
  BY <1>3 DEF MessagesEnding
<1> HIDE DEF a, b
<1>5. c \in Seq(Iovec) /\ Len(c) = Len(a) + Len(b)
      /\ \A i \in 1..Len(a) : c[i] = a[i]
  BY <1>2
<1>6. \A i \in 1..Len(b) : c[Len(a) + i] = b[i]
  BY <1>2
<1>7. Len(a) \in Nat /\ Len(b) \in Nat
  BY <1>2
<1> HIDE DEF c
<1>8. /\ x \in Seq(Sendable) /\ Len(x) = Len(a) + Len(b)
      /\ \A i \in 1..Len(a) + Len(b) : x[i] = c[i].msg
  BY <1>1, <1>5
<1>9. y \in Seq(Sendable) /\ Len(y) = Len(a) /\ \A i \in 1..Len(a) : y[i] = a[i].msg
  BY <1>1, <1>2
<1>10. z \in Seq(Sendable) /\ Len(z) = Len(b) /\ \A i \in 1..Len(b) : z[i] = b[i].msg
  BY <1>1, <1>2
<1> HIDE DEF x, y, z
<1>11. \A i \in 1..Len(y) : x[i] = y[i]
  BY <1>5, <1>7, <1>8, <1>9
<1>12. ASSUME NEW i \in 1..Len(z) PROVE x[Len(y) + i] = z[i]
  <2>1. i \in 1..Len(b) /\ Len(a) + i \in 1..Len(a) + Len(b)
    BY <1>7, <1>10
  <2>2. c[Len(a) + i] = b[i]
    BY <1>6, <2>1
  <2>3. x[Len(a) + i] = c[Len(a) + i].msg
    BY <1>8, <2>1
  <2>4. z[i] = b[i].msg /\ Len(y) = Len(a)
    BY <1>9, <1>10, <2>1
  <2> QED BY <2>2, <2>3, <2>4
<1>13. x = y \o z
  <2>1. Len(x) = Len(y) + Len(z)
    BY <1>8, <1>9, <1>10
  <2> QED BY <1>8, <1>9, <1>10, <1>11, <1>12, <2>1, Joined
<1>14. Wholes(y \o z) = Wholes(y) \o Wholes(z) /\ Wholes(y) \in Seq(WholeOnes)
  BY <1>9, <1>10, WholesConcat
<1> QED BY <1>4, <1>13, <1>14

(* Nothing gathered owes nothing.                                          *)
LEMMA EmptyOwed ==
    Wholes(<< >>) = << >> /\ MessagesEnding(<< >>) = << >>
<1>1. Wholes(<< >>) = << >>
  BY DEF Wholes
<1>2. Among(<< >>, LastIovs) = << >>
  BY AmongEmpty
<1> QED BY <1>1, <1>2 DEF MessagesEnding

(* A single message owes itself.                                           *)
LEMMA SingleOwed ==
    ASSUME NEW x \in Sendable
    PROVE  Wholes(<<x>>) = <<Whole(x)>>
BY DEF Wholes

(* A sequence is a prefix of what continues it.                            *)
LEMMA PrefixOfConcat ==
    ASSUME NEW R, NEW s \in Seq(R), NEW t \in Seq(R)
    PROVE  IsPrefix(s, s \o t)
<1>1. Len(s) <= Len(s \o t)
  OBVIOUS
<1>2. SubSeq(s \o t, 1, Len(s)) = SubSeq(s, 1, Len(s))
  OBVIOUS
<1> QED BY <1>1, <1>2 DEF IsPrefix

(* What is owed are whole messages.                                        *)
LEMMA OwedType ==
    WInv => Owed \in Seq(WholeOnes)
<1> SUFFICES ASSUME WInv PROVE Owed \in Seq(WholeOnes)
  OBVIOUS
<1>1. batch \in Seq(Sendable) /\ iovs \in Seq(Iovec) /\ cur_iov \in 0..Len(iovs)
  BY DEF WInv, WriterTypeOK
<1>2. SubSeq(iovs, cur_iov + 1, Len(iovs)) \in Seq(Iovec)
  BY <1>1
<1>3. MessagesEnding(SubSeq(iovs, cur_iov + 1, Len(iovs))) \in Seq(WholeOnes)
  <2>1. << >> \in Seq(Iovec)
    OBVIOUS
  <2> QED BY <1>2, <2>1, EndingConcat
<1>4. Among(batch, NonEmpty) \in Seq(Sendable)
  <2>1. Among(batch, NonEmpty) \in Seq(Sendable \cap NonEmpty)
    BY <1>1, AmongType
  <2> QED BY <2>1
<1>5. Wholes(Among(batch, NonEmpty)) \in Seq(WholeOnes)
  <2>1. << >> \in Seq(Sendable)
    OBVIOUS
  <2> QED BY <1>4, <2>1, WholesConcat
<1>6. Wholes(batch) \in Seq(WholeOnes)
  <2>1. << >> \in Seq(Sendable)
    OBVIOUS
  <2> QED BY <1>1, <2>1, WholesConcat
<1> QED BY <1>3, <1>5, <1>6 DEF Owed

-----------------------------------------------------------------------------
(* Nothing is handed over, written or owed at the start.                   *)
LEMMA OrderInit == WriterInit => OrderInv
<1> SUFFICES ASSUME WriterInit PROVE OrderInv
  OBVIOUS
<1>1. Owed = << >>
  BY DEF WriterInit, Owed
<1> QED BY <1>1 DEF WriterInit, OrderInv

(* A call that fails leaves what was written of what was handed over.      *)
LEMMA FailsInOrder == WInv /\ OrderInv /\ WriteFails => OrderInv'
<1> SUFFICES ASSUME WInv, OrderInv, WriteFails PROVE OrderInv'
  OBVIOUS
<1>1. /\ wpc \in {"write", "packet"} /\ wstatus' = "failed" /\ wpc' = "idle"
      /\ UNCHANGED <<handed, sent>>
  BY DEF WriteFails
<1>2. wstatus = "ok" /\ handed = sent \o Owed /\ sent \in Seq(WholeOnes)
  BY <1>1 DEF OrderInv, WInv, WriterTypeOK
<1>3. Owed \in Seq(WholeOnes)
  BY OwedType
<1>4. IsPrefix(sent, handed)
  BY <1>2, <1>3, PrefixOfConcat
<1>5. IsPrefix(sent', handed')
  BY <1>1, <1>4 DEF IsPrefix
<1> QED BY <1>1, <1>5 DEF OrderInv

(* What send_messages is given is owed last.                               *)
LEMMA SendMessagesInOrder == WInv /\ OrderInv /\ CallsSendMessages => OrderInv'
<1> SUFFICES ASSUME WInv, OrderInv, CallsSendMessages PROVE OrderInv'
  OBVIOUS
<1>0. PICK n \in 1..MaxBatch : \E xs \in [1..n -> MsgPool] :
          SendMessages(Numbered(xs)) /\ Handed(n)
  BY DEF CallsSendMessages
<1>1. PICK xs \in [1..n -> MsgPool] :
          SendMessages(Numbered(xs)) /\ Handed(n)
  BY <1>0
<1>2. /\ wpc = "idle" /\ wstatus = "ok"
      /\ handed' = handed \o Wholes(Among(batch', NonEmpty))
      /\ iovs' = << >> /\ cur_iov' = 0 /\ wpc' = "gather"
      /\ UNCHANGED <<sent, wstatus>>
  BY <1>1 DEF SendMessages, CallsSendMessages
<1>3. batch' \in Seq(Sendable)
  BY SendMessagesInv DEF WInv, WriterTypeOK
<1> DEFINE w == Wholes(Among(batch', NonEmpty))
<1>4. w \in Seq(WholeOnes)
  <2>1. Among(batch', NonEmpty) \in Seq(Sendable \cap NonEmpty)
    BY <1>3, AmongType
  <2>2. Among(batch', NonEmpty) \in Seq(Sendable) /\ << >> \in Seq(Sendable)
    BY <2>1
  <2> QED BY <2>2, WholesConcat
<1>5. SubSeq(iovs', cur_iov' + 1, Len(iovs')) = << >>
  BY <1>2
<1>6. Owed' = << >> \o w
  BY <1>2, <1>5, EmptyOwed DEF Owed
<1> HIDE DEF w
<1>7. Owed' = w
  BY <1>4, <1>6
<1>8. handed = sent /\ sent \in Seq(WholeOnes)
  <2>1. Owed = << >> /\ handed = sent \o Owed /\ sent \in Seq(WholeOnes)
    BY <1>2 DEF Owed, OrderInv
  <2> QED BY <2>1
<1>9. handed' = sent' \o Owed' /\ handed' \in Seq(WholeOnes)
  BY <1>2, <1>4, <1>7, <1>8 DEF w
<1> QED BY <1>2, <1>8, <1>9 DEF OrderInv

(* A packet or a response is handed over.                                  *)
LEMMA StartPacketInOrder ==
    ASSUME OrderInv, wpc \in {"idle", "flush"}, wstatus = "ok",
           NEW x \in Sendable, batch' = <<x>>, wpc' = "packet",
           handed' = Append(handed, Whole(x)), UNCHANGED <<sent, wstatus>>
    PROVE  OrderInv'
<1>1. handed = sent /\ sent \in Seq(WholeOnes)
  <2>1. Owed = << >> /\ handed = sent \o Owed /\ sent \in Seq(WholeOnes)
    BY DEF Owed, OrderInv
  <2> QED BY <2>1
<1>2. Whole(x) \in WholeOnes
  BY DEF WholeOnes
<1>3. Owed' = <<Whole(x)>>
  BY SingleOwed DEF Owed
<1>4. handed' = sent' \o Owed' /\ handed' \in Seq(WholeOnes)
  BY <1>1, <1>2, <1>3
<1>5. Len(batch') = 1
  OBVIOUS
<1> QED BY <1>1, <1>4, <1>5 DEF OrderInv

(* A packet that is sent is owed last.                                     *)
LEMMA SendPacketInOrder == WInv /\ OrderInv /\ CallsSendPacket => OrderInv'
<1> SUFFICES ASSUME WInv, OrderInv, CallsSendPacket PROVE OrderInv'
  OBVIOUS
<1>1. PICK x \in PktPool : SendPacket(Numbered(<<x>>)[1]) /\ Handed(1)
  BY DEF CallsSendPacket
<1>2. Numbered(<<x>>)[1] \in Sendable
  BY PacketType DEF WInv, WriterTypeOK, Packets
<1> QED BY <1>1, <1>2, StartPacketInOrder DEF SendPacket, CallsSendPacket

(* A response that is flushed is handed over and owed last.                *)
LEMMA FlushNextInOrder == WInv /\ OrderInv /\ FlushNext => OrderInv'
<1> SUFFICES ASSUME WInv, OrderInv, FlushNext PROVE OrderInv'
  OBVIOUS
<1>1. responses \in Seq(Packets) /\ responses # << >>
  BY DEF WInv, WriterTypeOK, FlushNext
<1>2. Head(responses) \in Sendable
  BY <1>1 DEF Packets
<1>3. wpc = "flush" /\ wstatus = "ok"
  BY DEF FlushNext, OrderInv, WInv, WriterTypeOK
<1> QED BY <1>2, <1>3, StartPacketInOrder DEF FlushNext

(* The only message of a packet is written with its last chunk.            *)
LEMMA WritePacketInOrder == WInv /\ OrderInv /\ WritePacketChunk => OrderInv'
<1> SUFFICES ASSUME WInv, OrderInv, WritePacketChunk PROVE OrderInv'
  OBVIOUS
<1> DEFINE m == Head(batch)
           last == off + ChunkPayload(m, off) = m.len
<1>1. /\ wpc = "packet"
      /\ sent' = (IF last THEN Append(sent, Whole(m)) ELSE sent)
      /\ batch' = (IF last THEN << >> ELSE batch)
      /\ wpc' = (IF last THEN "flush" ELSE "packet")
      /\ UNCHANGED <<handed, wstatus>>
  BY DEF WritePacketChunk
<1>2. batch \in Seq(Sendable) /\ Len(batch) = 1 /\ sent \in Seq(WholeOnes)
      /\ wstatus = "ok" /\ handed = sent \o Owed /\ handed \in Seq(WholeOnes)
  BY <1>1 DEF OrderInv, WInv, WriterTypeOK
<1>3. batch = <<m>> /\ m \in Sendable
  <2>1. batch \in Seq(Sendable) /\ Len(batch) = 1
    BY <1>2
  <2>2. Head(batch) = batch[1] /\ batch[1] \in Sendable /\ batch = <<batch[1]>>
    BY <2>1, Single
  <2> QED BY <2>2
<1>4. Owed = <<Whole(m)>>
  BY <1>1, <1>3, SingleOwed DEF Owed
<1>5. Whole(m) \in WholeOnes
  BY <1>3 DEF WholeOnes
<1> HIDE DEF m
<1>6. CASE last
  <2>1. Owed' = << >> /\ sent' = Append(sent, Whole(m))
    BY <1>1, <1>6 DEF Owed
  <2>2. sent' = handed /\ sent' \in Seq(WholeOnes)
    BY <1>2, <1>4, <1>5, <2>1
  <2>3. handed' = sent' \o Owed'
    BY <1>1, <1>2, <2>1, <2>2
  <2> QED BY <1>1, <1>2, <1>6, <2>2, <2>3 DEF OrderInv
<1>7. CASE ~last
  <2>1. wpc' = wpc /\ batch' = batch /\ sent' = sent
    BY <1>1, <1>7
  <2>2. Owed' = Owed
    BY <1>1, <2>1 DEF Owed
  <2> QED BY <1>1, <1>2, <2>1, <2>2 DEF OrderInv
<1> QED BY <1>6, <1>7

(* An empty message is owed nothing.                                       *)
LEMMA FirstOfBatch ==
    ASSUME NEW bs \in Seq(Sendable), bs # << >>
    PROVE  Wholes(Among(bs, NonEmpty))
               = (IF NotEmpty(Head(bs)) THEN <<Whole(Head(bs))>> ELSE << >>)
                     \o Wholes(Among(Tail(bs), NonEmpty))
<1> DEFINE m == Head(bs)
           t == Tail(bs)
           one == Among(<<m>>, NonEmpty)
           more == Among(t, NonEmpty)
<1>1. m \in Sendable /\ t \in Seq(Sendable) /\ <<m>> \in Seq(Sendable)
  OBVIOUS
<1>2. bs = <<m>> \o t
  <2> DEFINE w == <<m>> \o t
  <2>1. w \in Seq(Sendable) /\ Len(w) = Len(bs) /\ \A i \in 1..Len(bs) : bs[i] = w[i]
    OBVIOUS
  <2> HIDE DEF w
  <2>2. bs = w
    BY <2>1, SeqEqual
  <2> QED BY <2>2 DEF w
<1> HIDE DEF m, t
<1>3. Among(<<m>> \o t, NonEmpty) = one \o more
  BY <1>1, AmongConcat
<1>4. one \in Seq(Sendable) /\ more \in Seq(Sendable)
  <2>1. one \in Seq(Sendable \cap NonEmpty) /\ more \in Seq(Sendable \cap NonEmpty)
    BY <1>1, AmongType
  <2> HIDE DEF one, more
  <2> QED BY <2>1
<1>5. one = IF NotEmpty(m) THEN <<m>> ELSE << >>
  <2>1. Among(<<m>>, NonEmpty) = IF m \in NonEmpty THEN <<m>> ELSE << >>
    BY AmongOne
  <2>4. m \in NonEmpty <=> NotEmpty(m)
    BY <1>1 DEF NonEmpty
  <2> QED BY <2>1, <2>4
<1> HIDE DEF one, more
<1>6. Wholes(one \o more) = Wholes(one) \o Wholes(more)
  BY <1>4, WholesConcat
<1>7. Wholes(one) = IF NotEmpty(m) THEN <<Whole(m)>> ELSE << >>
  BY <1>1, <1>5, SingleOwed, EmptyOwed
<1> QED BY <1>2, <1>3, <1>6, <1>7 DEF m, t, more

(* An empty message was never owed.                                        *)
LEMMA SkipEmptyInOrder == WInv /\ OrderInv /\ SkipEmpty => OrderInv'
<1> SUFFICES ASSUME WInv, OrderInv, SkipEmpty PROVE OrderInv'
  OBVIOUS
<1>1. /\ wpc = "gather" /\ batch # << >> /\ ~NotEmpty(Head(batch))
      /\ batch' = Tail(batch)
      /\ UNCHANGED <<handed, sent, wstatus, wpc, iovs, cur_iov>>
  BY DEF SkipEmpty
<1>2. batch \in Seq(Sendable) /\ Tail(batch) \in Seq(Sendable)
  BY <1>1 DEF WInv, WriterTypeOK
<1> DEFINE w == Wholes(Among(Tail(batch), NonEmpty))
<1>3. Wholes(Among(batch, NonEmpty)) = << >> \o w
  BY <1>1, <1>2, FirstOfBatch
<1>4. w \in Seq(WholeOnes)
  <2>1. Among(Tail(batch), NonEmpty) \in Seq(Sendable \cap NonEmpty)
    BY <1>2, AmongType
  <2>2. Among(Tail(batch), NonEmpty) \in Seq(Sendable) /\ << >> \in Seq(Sendable)
    BY <2>1
  <2> QED BY <2>2, WholesConcat
<1> HIDE DEF w
<1>5. Wholes(Among(batch, NonEmpty)) = w
  BY <1>3, <1>4
<1>6. Owed' = Owed
  BY <1>1, <1>5 DEF Owed, w
<1> QED BY <1>1, <1>6 DEF OrderInv

(* When all is gathered, all that is owed is among the iovecs.             *)
LEMMA GatheredInOrder == WInv /\ OrderInv /\ Gathered => OrderInv'
<1> SUFFICES ASSUME WInv, OrderInv, Gathered PROVE OrderInv'
  OBVIOUS
<1>1. /\ wpc = "gather" /\ batch = << >>
      /\ wpc' = IF iovs = << >> THEN "flush" ELSE "write"
      /\ UNCHANGED <<handed, sent, wstatus, batch, iovs, cur_iov>>
  BY DEF Gathered
<1>2. cur_iov = 0
  BY <1>1 DEF OrderInv
<1>3. CASE iovs = << >>
  <2>1. SubSeq(iovs, cur_iov + 1, Len(iovs)) = << >>
    BY <1>2, <1>3
  <2>2. Among(batch, NonEmpty) = << >>
    BY <1>1, AmongEmpty
  <2>3. Owed = << >> \o << >>
    BY <1>1, <2>1, <2>2, EmptyOwed DEF Owed
  <2>4. Owed' = << >>
    BY <1>1, <1>3 DEF Owed
  <2>5. << >> \o << >> = << >>
    OBVIOUS
  <2> QED BY <1>1, <1>3, <2>3, <2>4, <2>5 DEF OrderInv
<1>4. CASE iovs # << >>
  <2>1. Owed' = Owed
    BY <1>1, <1>4 DEF Owed
  <2> QED BY <1>1, <1>2, <1>4, <2>1 DEF OrderInv
<1> QED BY <1>3, <1>4

(* A message whose last chunk is gathered ends among the iovecs.           *)
LEMMA GatherChunkInOrder == WInv /\ OrderInv /\ GatherChunk => OrderInv'
<1> SUFFICES ASSUME WInv, OrderInv, GatherChunk PROVE OrderInv'
  OBVIOUS
<1> DEFINE m == Head(batch)
           nbh == HeaderSize(m, off = 0)
           n == ChunkPayload(m, off)
           last == off + n = m.len
           hv == [header |-> TRUE, base |-> cache_index, len |-> nbh,
                  msg |-> m, from |-> off]
           pv == [header |-> FALSE, base |-> off, len |-> n,
                  msg |-> m, from |-> off]
<1>1. /\ wpc = "gather" /\ batch # << >> /\ NotEmpty(m)
      /\ iovs' = iovs \o <<hv, pv>>
      /\ batch' = (IF last THEN Tail(batch) ELSE batch)
      /\ wpc' = (IF IsDry THEN "write" ELSE "gather")
      /\ UNCHANGED <<handed, sent, wstatus, cur_iov>>
  BY DEF GatherChunk
<1>2. batch \in Seq(Sendable) /\ iovs \in Seq(Iovec) /\ off \in Nat
      /\ off <= m.len /\ cache_index \in Nat
  BY <1>1 DEF WInv, WriterTypeOK, Progress
<1>3. m \in Sendable /\ Tail(batch) \in Seq(Sendable)
  BY <1>1, <1>2
<1>4. nbh \in Nat /\ n \in Nat
  BY <1>2, <1>3, HeaderFits, PayloadFitsMessage DEF WInv, WriterTypeOK
<1>5. cur_iov = 0
  BY <1>1 DEF OrderInv
<1> HIDE DEF nbh, n
<1>6. hv \in Iovec /\ pv \in Iovec
  BY <1>2, <1>3, <1>4 DEF Iovec
<1> DEFINE lasts == IF last THEN <<Whole(m)>> ELSE << >>
<1>7. MessagesEnding(<<hv, pv>>) = lasts
  <2>1. hv \notin LastIovs /\ (pv \in LastIovs <=> last)
    BY <1>6 DEF LastIovs, LastOfMessage
  <2>2. pv.msg = m
    OBVIOUS
  <2> HIDE DEF hv, pv, last, m
  <2>3. Among(<<hv, pv>>, LastIovs) =
            IF hv \in LastIovs
            THEN (IF pv \in LastIovs THEN <<hv, pv>> ELSE <<hv>>)
            ELSE (IF pv \in LastIovs THEN <<pv>> ELSE << >>)
    BY AmongTwo
  <2>7. Among(<<hv, pv>>, LastIovs) = IF last THEN <<pv>> ELSE << >>
    BY <2>1, <2>3
  <2> DEFINE ending == Among(<<hv, pv>>, LastIovs)
  <2>8. MessagesEnding(<<hv, pv>>) = Wholes([i \in DOMAIN ending |-> ending[i].msg])
    BY DEF MessagesEnding
  <2>9. [i \in DOMAIN ending |-> ending[i].msg] = IF last THEN <<m>> ELSE << >>
    BY <2>2, <2>7
  <2> QED BY <1>3, <2>8, <2>9, SingleOwed, EmptyOwed DEF m, last
<1> DEFINE w == Wholes(Among(Tail(batch), NonEmpty))
           g == MessagesEnding(iovs)
           b == Wholes(Among(batch, NonEmpty))
           bb == Wholes(Among(batch', NonEmpty))
<1>8. b = <<Whole(m)>> \o w
  BY <1>1, <1>2, FirstOfBatch
<1>9. w \in Seq(WholeOnes) /\ b \in Seq(WholeOnes)
      /\ g \in Seq(WholeOnes) /\ Whole(m) \in WholeOnes
  <2>1. Among(Tail(batch), NonEmpty) \in Seq(Sendable \cap NonEmpty)
        /\ Among(batch, NonEmpty) \in Seq(Sendable \cap NonEmpty)
    BY <1>2, <1>3, AmongType
  <2>2. Among(Tail(batch), NonEmpty) \in Seq(Sendable)
        /\ Among(batch, NonEmpty) \in Seq(Sendable) /\ << >> \in Seq(Sendable)
    BY <2>1
  <2>3. w \in Seq(WholeOnes) /\ b \in Seq(WholeOnes)
    BY <2>2, WholesConcat
  <2>4. << >> \in Seq(Iovec)
    OBVIOUS
  <2>5. g \in Seq(WholeOnes)
    BY <1>2, <2>4, EndingConcat
  <2> QED BY <1>3, <2>3, <2>5 DEF WholeOnes
<1>10. SubSeq(iovs, cur_iov + 1, Len(iovs)) = iovs
  BY <1>2, <1>5
<1> DEFINE pair == <<hv, pv>>
<1>11. iovs' \in Seq(Iovec) /\ pair \in Seq(Iovec)
  <2> HIDE DEF hv, pv
  <2> QED BY <1>1, <1>2, <1>6
<1>12. SubSeq(iovs', cur_iov' + 1, Len(iovs')) = iovs'
  BY <1>1, <1>5, <1>11
<1>13. MessagesEnding(iovs') = g \o lasts
  <2> HIDE DEF pair
  <2>1. MessagesEnding(iovs \o pair) = MessagesEnding(iovs) \o MessagesEnding(pair)
    BY <1>2, <1>11, EndingConcat
  <2> QED BY <1>1, <1>7, <2>1 DEF pair
<1>14. Owed = g \o b
  BY <1>1, <1>10 DEF Owed
<1>15. Owed' = (g \o lasts) \o bb
  BY <1>1, <1>12, <1>13 DEF Owed
<1> HIDE DEF g, b, bb, w, m, last
<1>16. b = lasts \o bb
  <2>1. CASE last
    BY <1>1, <1>8, <2>1 DEF bb, w, m
  <2>2. CASE ~last
    <3>1. bb = b /\ lasts = << >>
      BY <1>1, <2>2 DEF bb, b
    <3> QED BY <1>9, <3>1
  <2> QED BY <2>1, <2>2
<1>17. bb \in Seq(WholeOnes) /\ lasts \in Seq(WholeOnes)
  <2>1. CASE last
    BY <1>1, <1>9, <2>1 DEF bb, w, m
  <2>2. CASE ~last
    BY <1>1, <1>9, <2>2 DEF bb, b
  <2> QED BY <2>1, <2>2
<1> HIDE DEF lasts
<1>18. Owed' = Owed
  BY <1>9, <1>14, <1>15, <1>16, <1>17, ConcatAssociative
<1>19. wpc' \in {"write", "gather"} /\ cur_iov' = 0
  BY <1>1, <1>5
<1> QED BY <1>1, <1>18, <1>19 DEF OrderInv

(* What is written of the iovecs is no longer owed.                        *)
LEMMA WriteIovsInOrder == WInv /\ OrderInv /\ WriteIovs => OrderInv'
<1> SUFFICES ASSUME WInv, OrderInv, WriteIovs PROVE OrderInv'
  OBVIOUS
<1> DEFINE k == cur_iov + WriteCount
           left == SubSeq(iovs, cur_iov + 1, Len(iovs))
           rest == SubSeq(iovs, k + 1, Len(iovs))
           b == Wholes(Among(batch, NonEmpty))
<1>1. /\ wpc = "write"
      /\ sent' = sent \o MessagesEnding(WrittenIovs)
      /\ UNCHANGED <<handed, wstatus, batch>>
  BY DEF WriteIovs
<1>2. batch \in Seq(Sendable) /\ iovs \in Seq(Iovec) /\ cur_iov \in 0..Len(iovs)
      /\ wstatus \in {"ok", "failed"}
  BY DEF WInv, WriterTypeOK
<1>3. wstatus = "ok" /\ sent \in Seq(WholeOnes) /\ handed \in Seq(WholeOnes)
      /\ handed = sent \o Owed
  BY <1>1, <1>2 DEF OrderInv
<1>4. WriteCount \in Nat /\ k <= Len(iovs)
  <2>1. CASE Len(iovs) < IovLimit
    <3>1. WriteCount = Len(iovs) /\ cur_iov = 0
      BY <1>1, <1>2, <2>1, IovAssumption DEF WriteCount, OrderInv
    <3> QED BY <1>2, <3>1
  <2>2. CASE ~(Len(iovs) < IovLimit)
    BY <1>2, <2>2, IovAssumption DEF WriteCount, Least
  <2> QED BY <2>1, <2>2
<1>5. WrittenIovs \in Seq(Iovec) /\ rest \in Seq(Iovec) /\ left = WrittenIovs \o rest
  <2>1. SubSeq(iovs, cur_iov + 1, k) \o SubSeq(iovs, k + 1, Len(iovs))
            = SubSeq(iovs, cur_iov + 1, Len(iovs))
    <3>1. cur_iov + 1 \in 1..Len(iovs) + 1 /\ k \in (cur_iov + 1) - 1..Len(iovs)
          /\ Len(iovs) \in k..Len(iovs)
      BY <1>2, <1>4
    <3> QED BY <1>2, <3>1, ConcatAdjacentSubSeq
  <2>2. SubSeq(iovs, cur_iov + 1, k) \in Seq(Iovec)
        /\ SubSeq(iovs, k + 1, Len(iovs)) \in Seq(Iovec)
    BY <1>2, <1>4
  <2> QED BY <2>1, <2>2 DEF WrittenIovs
<1> DEFINE x == MessagesEnding(WrittenIovs)
           y == MessagesEnding(rest)
<1>6. MessagesEnding(left) = x \o y
      /\ x \in Seq(WholeOnes) /\ y \in Seq(WholeOnes)
  <2> HIDE DEF left, rest
  <2>1. << >> \in Seq(Iovec)
    OBVIOUS
  <2> QED BY <1>5, <2>1, EndingConcat
<1>7. b \in Seq(WholeOnes)
  <2>1. Among(batch, NonEmpty) \in Seq(Sendable \cap NonEmpty)
    BY <1>2, AmongType
  <2>2. Among(batch, NonEmpty) \in Seq(Sendable) /\ << >> \in Seq(Sendable)
    BY <2>1
  <2> QED BY <2>2, WholesConcat
<1>8. Owed = (x \o y) \o b
  BY <1>1, <1>6 DEF Owed
<1>9. CASE k < Len(iovs)
  <2>1. cur_iov' = k /\ UNCHANGED <<iovs, wpc>>
    BY <1>9 DEF WriteIovs
  <2>2. Owed' = y \o b
    BY <1>1, <2>1 DEF Owed
  <2>3. sent' \o Owed' = handed'
    <3> HIDE DEF x, y, b
    <3>1. (x \o y) \o b = x \o (y \o b)
      BY <1>6, <1>7, ConcatAssociative
    <3> DEFINE yb == y \o b
    <3>2. yb \in Seq(WholeOnes)
      BY <1>6, <1>7
    <3> HIDE DEF yb
    <3>3. (sent \o x) \o yb = sent \o (x \o yb)
      BY <1>3, <1>6, <3>2, ConcatAssociative, SMTT(40)
    <3> QED BY <1>1, <1>3, <1>8, <2>2, <3>1, <3>3 DEF yb, x
  <2>4. sent' \in Seq(WholeOnes)
    BY <1>1, <1>3, <1>6
  <2>5. Len(iovs') >= IovLimit
    <3>1. ~(Len(iovs) < IovLimit)
      BY <1>2, <1>9 DEF WriteCount
    <3> QED BY <1>2, <2>1, <3>1, IovAssumption
  <2> QED BY <1>1, <1>3, <2>1, <2>3, <2>4, <2>5 DEF OrderInv
<1>10. CASE ~(k < Len(iovs))
  <2>1. /\ iovs' = << >> /\ cur_iov' = 0
        /\ wpc' = (IF batch = << >> THEN "flush" ELSE "gather")
    BY <1>10 DEF WriteIovs, ResetCaches
  <2>2. y = << >>
    <3>1. rest = << >>
      BY <1>2, <1>4, <1>10
    <3> QED BY <3>1, EmptyOwed
  <2>3. Owed = x \o b
    <3> HIDE DEF x, b
    <3>1. x \o << >> = x
      BY <1>6
    <3> QED BY <1>8, <2>2, <3>1
  <2>4. Owed' = b
    <3>1. SubSeq(iovs', cur_iov' + 1, Len(iovs')) = << >>
      BY <2>1
    <3>2. CASE batch = << >>
      <4>1. b = << >>
        BY <3>2, AmongEmpty, EmptyOwed
      <4> QED BY <2>1, <3>2, <4>1 DEF Owed
    <3>3. CASE batch # << >>
      <4>1. Owed' = << >> \o b
        BY <1>1, <2>1, <3>1, <3>3, EmptyOwed DEF Owed
      <4> HIDE DEF b
      <4> QED BY <1>7, <4>1
    <3> QED BY <3>2, <3>3
  <2>5. sent' \o Owed' = handed'
    <3> HIDE DEF x, b
    <3>1. (sent \o x) \o b = sent \o (x \o b)
      BY <1>3, <1>6, <1>7, ConcatAssociative, SMTT(40)
    <3> QED BY <1>1, <1>3, <2>3, <2>4, <3>1 DEF x
  <2>6. sent' \in Seq(WholeOnes)
    BY <1>1, <1>3, <1>6
  <2> QED BY <1>1, <1>3, <2>1, <2>5, <2>6 DEF OrderInv
<1> QED BY <1>9, <1>10

(* Every step keeps: handed over = written, then owed.                     *)
LEMMA OrderNext == WInv /\ OrderInv /\ [WriterNext]_writerVars => OrderInv'
<1> SUFFICES ASSUME WInv, OrderInv, [WriterNext]_writerVars PROVE OrderInv'
  OBVIOUS
<1>1. CASE CallsSendMessages
  BY <1>1, SendMessagesInOrder
<1>2. CASE CallsSendPacket
  BY <1>2, SendPacketInOrder
<1>3. CASE Queues
  <2>1. UNCHANGED <<sent, handed, wstatus, wpc, batch, iovs, cur_iov>>
    BY <1>3 DEF Queues, QueueResponse
  <2>2. Owed' = Owed
    BY <2>1 DEF Owed
  <2> QED BY <2>1, <2>2 DEF OrderInv, IsPrefix
<1>4. CASE Flushed
  <2>1. wpc = "flush" /\ wpc' = "idle" /\ UNCHANGED <<sent, handed, wstatus>>
    BY <1>4 DEF Flushed
  <2>2. Owed' = Owed
    BY <2>1 DEF Owed
  <2> QED BY <2>1, <2>2 DEF OrderInv, WInv, WriterTypeOK
<1>5. CASE Sends
  BY <1>4, <1>5, GatherChunkInOrder, SkipEmptyInOrder, GatheredInOrder,
     WriteIovsInOrder, WritePacketInOrder, FlushNextInOrder DEF Sends
<1>6. CASE WriteFails
  BY <1>6, FailsInOrder
<1>7. CASE UNCHANGED writerVars
  <2>1. UNCHANGED <<sent, handed, wstatus, wpc, batch, iovs, cur_iov>>
    BY <1>7 DEF writerVars
  <2>2. Owed' = Owed
    BY <2>1 DEF Owed
  <2> QED BY <2>1, <2>2 DEF OrderInv, IsPrefix
<1> QED BY <1>1, <1>2, <1>3, <1>5, <1>6, <1>7 DEF WriterNext

(* What is owed and what is sent are what was handed over.                 *)
LEMMA InvInOrder == WInv /\ OrderInv => WrittenInOrder
<1> SUFFICES ASSUME WInv, OrderInv PROVE WrittenInOrder
  OBVIOUS
<1>1. wstatus = "ok" => IsPrefix(sent, handed)
  BY OwedType, PrefixOfConcat DEF OrderInv
<1>2. wpc = "idle" /\ wstatus = "ok" => sent = handed
  BY DEF OrderInv, Owed
<1> QED BY <1>1, <1>2 DEF WrittenInOrder, OrderInv, WInv, WriterTypeOK

(* Messages, packets and responses are written in the order of the calls,  *)
(* none twice and, unless a write failed, none left out, however many      *)
(* writes a batch takes and wherever the caches run dry between them.      *)
THEOREM AllWrittenInOrder == WriterSpec => []WrittenInOrder
<1>1. WInv /\ OrderInv => WrittenInOrder  BY InvInOrder
<1> QED
  BY <1>1, OrderInit, OrderNext, WriterInvariant, PTL DEF WriterSpec

-----------------------------------------------------------------------------
(* The line from the writer to the reader.  A message that may be written: *)
(* one of the pools with its number and a message stream.                  *)
Said ==
    {m \in Sendable :
        /\ m.id \in 1..MaxSends /\ m.sid \in StreamIds
        /\ \E x \in MsgPool \cup PktPool :
              /\ x.cid = m.cid /\ x.type = m.type /\ x.ts = m.ts
              /\ x.len = m.len /\ x.size = m.size
        /\ m.cid \in Cids /\ m.type \in Types
        /\ m.type = SetChunkSize =>
              /\ m.size >= MinChunkSize
              /\ SizeIn[<<m.id, 1, m.size>>] = m.size}

Arriving == {Whole(m) : m \in Said}

(* A place between two chunks: the message that is written in part, how    *)
(* much of it, and the chunk size; nobody if none is.                      *)
Nobody == [cid |-> 0, type |-> 0, sid |-> 0, ts |-> 0, len |-> 0, size |-> 0,
           id |-> 0]

Place(m, o, n) == [msg |-> IF o = 0 THEN Nobody ELSE m, off |-> o, size |-> n]

Places ==
    {s \in [msg : Said \cup {Nobody}, off : Nat, size : Nat \ {0}] :
        \/ s.off = 0 /\ s.msg = Nobody
        \/ s.off > 0 /\ s.msg \in Said /\ s.off < s.msg.len}

(* The chunk of m that is written there, and the place behind it.          *)
MaySend(s, m) == m \in Said /\ m.len > 0 /\ (s.off > 0 => m = s.msg)

Size(s, m) == Least(s.size, m.len - s.off)
Completes(s, m) == s.off + Size(s, m) = m.len

After(s, m) ==
    IF Completes(s, m)
    THEN Place(Nobody, 0, IF m.type = SetChunkSize THEN m.size ELSE s.size)
    ELSE Place(m, s.off + Size(s, m), s.size)

Done(s, m) == IF Completes(s, m) THEN <<Whole(m)>> ELSE << >>

HeaderOf(s, m) == ChunkHeader(m, s.off = 0)
PayloadOf(s, m) == WordTokens(m, s.off, Size(s, m))
Tokens(s, m) == HeaderOf(s, m) \o PayloadOf(s, m)

(* The tokens of messages like these.                                      *)
WordSet == Nat \X Nat \X Nat
HeaderSet == [ts : Nat, len : Nat, type : Types, sid : StreamIds]
Token == [kind : {"basic"}, fmt : Formats, cid : Cids]
           \cup [kind : {"header"}, header : HeaderSet]
           \cup [kind : {"ext"}, time : Nat]
           \cup [kind : {"word"}, word : WordSet]

(* How much a chunk carries.                                               *)
LEMMA SizeIsSome ==
  ASSUME NEW s \in Places, NEW m, MaySend(s, m)
  PROVE  /\ Size(s, m) \in Nat /\ Size(s, m) > 0
         /\ s.off + Size(s, m) <= m.len
         /\ s.off \in Nat /\ s.off < m.len /\ m.len \in Nat /\ m \in Said
         /\ s.size \in Nat \ {0}
<1>1. m \in Sendable /\ m.len \in Nat /\ m.len > 0 /\ m \in Said
  BY DEF MaySend, Said, Sendable
<1>2. s.off \in Nat /\ s.off < m.len /\ s.size \in Nat \ {0}
  BY <1>1 DEF Places, MaySend
<1> QED BY <1>1, <1>2 DEF Size, Least

(* A chunk written leads to a place again.                                 *)
LEMMA AfterOK ==
  ASSUME NEW s \in Places, NEW m, MaySend(s, m)
  PROVE  /\ After(s, m) \in Places
         /\ Done(s, m) \in Seq(Arriving)
         /\ Completes(s, m) => After(s, m).off = 0
         /\ ~Completes(s, m) => /\ After(s, m).off = s.off + Size(s, m)
                                /\ After(s, m).msg = m
                                /\ After(s, m).size = s.size
         /\ m.type # SetChunkSize => After(s, m).size = s.size
<1>1. /\ Size(s, m) \in Nat /\ Size(s, m) > 0
      /\ s.off + Size(s, m) <= m.len
      /\ s.off \in Nat /\ m.len \in Nat /\ m \in Said /\ s.size \in Nat \ {0}
  BY SizeIsSome
<1>2. Whole(m) \in Arriving  BY <1>1 DEF Arriving, Said
<1>3. Done(s, m) \in Seq(Arriving)  BY <1>2 DEF Done
<1>4. m.type = SetChunkSize => m.size \in Nat \ {0}
  BY <1>1, MinSizeAssumption DEF Said, Sendable
<1>5. CASE Completes(s, m)
  <2> DEFINE n == IF m.type = SetChunkSize THEN m.size ELSE s.size
  <2>1. n \in Nat \ {0}  BY <1>1, <1>4
  <2>2. After(s, m) = [msg |-> Nobody, off |-> 0, size |-> n]
    BY <1>5 DEF After, Place
  <2> HIDE DEF n
  <2>3. After(s, m) \in Places  BY <2>1, <2>2 DEF Places
  <2>4. m.type # SetChunkSize => n = s.size  BY DEF n
  <2> QED BY <1>3, <1>5, <2>2, <2>3, <2>4
<1>6. CASE ~Completes(s, m)
  <2> DEFINE o == s.off + Size(s, m)
  <2>1. o \in Nat /\ o > 0 /\ o < m.len  BY <1>1, <1>6 DEF Completes
  <2>2. After(s, m) = [msg |-> m, off |-> o, size |-> s.size]
    BY <1>6, <2>1 DEF After, Place
  <2> HIDE DEF o
  <2>3. After(s, m) \in Places  BY <1>1, <2>1, <2>2 DEF Places
  <2> QED BY <1>3, <1>6, <2>2, <2>3 DEF o
<1> QED BY <1>5, <1>6

(* The header and the payload of a chunk are tokens.                       *)
LEMMA TokensType ==
  ASSUME NEW m \in Said, NEW first \in BOOLEAN, NEW o \in Nat, NEW n \in Nat
  PROVE  /\ ChunkHeader(m, first) \in Seq(Token)
         /\ ChunkHeader(m, first) # << >>
         /\ WordTokens(m, o, n) \in Seq(Token) /\ Len(WordTokens(m, o, n)) = n
<1>0. m \in Sendable /\ m.sid \in StreamIds /\ m.cid \in Cids /\ m.type \in Types
  BY DEF Said
<1>1. m.ts \in Nat /\ m.len \in Nat /\ m.id \in Nat /\ m.size \in Nat
  BY <1>0 DEF Sendable
<1> DEFINE h == [ts |-> Least(m.ts, Ext), len |-> m.len, type |-> m.type,
                 sid |-> m.sid]
<1>2. h \in HeaderSet
  <2>1. Least(m.ts, Ext) \in Nat  BY <1>1, TimeAssumption DEF Least
  <2> QED BY <1>0, <1>1, <2>1 DEF HeaderSet
<1> HIDE DEF h
<1>3. /\ Basic(0, m.cid) \in Token /\ Basic(3, m.cid) \in Token
      /\ Header(h) \in Token /\ Extended(m.ts) \in Token
  BY <1>0, <1>1, <1>2 DEF Basic, Header, Extended, Token, Formats
<1>4. ChunkHeader(m, first) =
         (IF first THEN <<Basic(0, m.cid), Header(h)>> ELSE <<Basic(3, m.cid)>>)
            \o (IF IsLong(m) THEN <<Extended(m.ts)>> ELSE << >>)
  BY DEF ChunkHeader, h
<1>5. ChunkHeader(m, first) \in Seq(Token) /\ ChunkHeader(m, first) # << >>
  <2> HIDE DEF Token
  <2> DEFINE a == IF first THEN <<Basic(0, m.cid), Header(h)>>
                           ELSE <<Basic(3, m.cid)>>
             b == IF IsLong(m) THEN <<Extended(m.ts)>> ELSE << >>
  <2>1. a \in Seq(Token) /\ b \in Seq(Token) /\ Len(a) > 0  BY <1>3
  <2> HIDE DEF a, b
  <2>2. a \o b \in Seq(Token) /\ Len(a \o b) = Len(a) + Len(b)
        /\ Len(a) \in Nat /\ Len(b) \in Nat
    BY <2>1
  <2>3. ChunkHeader(m, first) = a \o b  BY <1>4 DEF a, b
  <2> QED BY <2>1, <2>2, <2>3
<1>6. \A i \in 1..n : WordAt(m, o + i) \in WordSet
  BY <1>1 DEF WordAt, WordSet
<1>7. \A i \in 1..n : Word(WordAt(m, o + i)) \in Token
  BY <1>6 DEF Word, Token
<1>8. WordTokens(m, o, n) \in Seq(Token) /\ Len(WordTokens(m, o, n)) = n
  <2> HIDE DEF Token
  <2> DEFINE w(i) == Word(WordAt(m, o + i))
  <2>1. \A i \in 1..n : w(i) \in Token  BY <1>7
  <2>2. WordTokens(m, o, n) = [i \in 1..n |-> w(i)]  BY DEF WordTokens
  <2> HIDE DEF w
  <2> QED BY <2>1, <2>2
<1> QED BY <1>5, <1>8

(* So is a chunk, and it is not empty.                                     *)
LEMMA ChunkType ==
  ASSUME NEW s \in Places, NEW m, MaySend(s, m)
  PROVE  /\ HeaderOf(s, m) \in Seq(Token) /\ HeaderOf(s, m) # << >>
         /\ PayloadOf(s, m) \in Seq(Token)
         /\ Len(PayloadOf(s, m)) = Size(s, m)
         /\ Tokens(s, m) \in Seq(Token)
<1>1. Size(s, m) \in Nat /\ m \in Said /\ s.off \in Nat  BY SizeIsSome
<1>2. (s.off = 0) \in BOOLEAN  OBVIOUS
<1>3. /\ HeaderOf(s, m) \in Seq(Token) /\ HeaderOf(s, m) # << >>
      /\ PayloadOf(s, m) \in Seq(Token)
      /\ Len(PayloadOf(s, m)) = Size(s, m)
  BY <1>1, <1>2, TokensType DEF HeaderOf, PayloadOf
<1>4. Tokens(s, m) \in Seq(Token)
  <2> HIDE DEF Token
  <2> QED BY <1>3 DEF Tokens
<1> QED BY <1>3, <1>4

-----------------------------------------------------------------------------
(* The tokens w take the line from place s to place u, chunk by chunk, and *)
(* complete the messages d: <<w, s, u, d>> is in every relation that has   *)
(* the empty step and can be extended by a chunk at its front.             *)
Transits == Seq(Token) \X Places \X Places \X Seq(Arriving)

Extends(R, s, m) ==
    \A w \in Seq(Token), u \in Places, d \in Seq(Arriving) :
        <<w, After(s, m), u, d>> \in R =>
            <<Tokens(s, m) \o w, s, u, Done(s, m) \o d>> \in R

ClosedUnder(R) ==
    /\ \A s \in Places : <<<< >>, s, s, << >>>> \in R
    /\ \A s \in Places, m \in Said : MaySend(s, m) => Extends(R, s, m)

Carries(w, s, u, d) ==
    /\ w \in Seq(Token) /\ s \in Places /\ u \in Places
    /\ d \in Seq(Arriving)
    /\ \A R \in SUBSET Transits : ClosedUnder(R) => <<w, s, u, d>> \in R

(* Joining sequences of tokens, or of messages.                            *)
LEMMA JoinsTokens ==
  ASSUME NEW a \in Seq(Token), NEW b \in Seq(Token), NEW c \in Seq(Token)
  PROVE  /\ (a \o b) \o c = a \o (b \o c) /\ a \o b \in Seq(Token)
         /\ a \o << >> = a /\ << >> \o a = a
<1> HIDE DEF Token
<1> QED OBVIOUS

(* The same for messages.                                                  *)
LEMMA JoinsDone ==
  ASSUME NEW a \in Seq(Arriving), NEW b \in Seq(Arriving),
         NEW c \in Seq(Arriving)
  PROVE  /\ (a \o b) \o c = a \o (b \o c) /\ a \o b \in Seq(Arriving)
         /\ a \o << >> = a /\ << >> \o a = a
<1> HIDE DEF Arriving
<1> QED OBVIOUS

(* Nothing is carried where nothing is written.                            *)
LEMMA CarriesNothing ==
  ASSUME NEW s \in Places
  PROVE  Carries(<< >>, s, s, << >>)
<1>1. << >> \in Seq(Token) /\ << >> \in Seq(Arriving)  OBVIOUS
<1> QED BY <1>1 DEF Carries, ClosedUnder

(* A chunk in front of what is carried is carried as well.                 *)
LEMMA CarriesBefore ==
  ASSUME NEW s \in Places, NEW m, MaySend(s, m), NEW u, NEW w, NEW d,
         Carries(w, After(s, m), u, d)
  PROVE  Carries(Tokens(s, m) \o w, s, u, Done(s, m) \o d)
<1> DEFINE k == Tokens(s, m)
           e == Done(s, m)
<1>1. k \in Seq(Token) /\ e \in Seq(Arriving) /\ m \in Said
  BY ChunkType, AfterOK, SizeIsSome
<1>2. w \in Seq(Token) /\ u \in Places /\ d \in Seq(Arriving)
  BY DEF Carries
<1>3. k \o w \in Seq(Token) /\ e \o d \in Seq(Arriving)
  <2> HIDE DEF k, e
  <2> QED BY <1>1, <1>2, JoinsTokens, JoinsDone
<1>4. ASSUME NEW R \in SUBSET Transits, ClosedUnder(R)
      PROVE  <<k \o w, s, u, e \o d>> \in R
  <2>1. <<w, After(s, m), u, d>> \in R  BY <1>4 DEF Carries
  <2>2. Extends(R, s, m)  BY <1>1, <1>4 DEF ClosedUnder
  <2> QED BY <1>2, <2>1, <2>2 DEF Extends
<1> QED BY <1>2, <1>3, <1>4 DEF Carries

(* One chunk.                                                              *)
LEMMA CarriesOne ==
  ASSUME NEW s \in Places, NEW m, MaySend(s, m)
  PROVE  Carries(Tokens(s, m), s, After(s, m), Done(s, m))
<1>1. After(s, m) \in Places /\ Done(s, m) \in Seq(Arriving)  BY AfterOK
<1>2. Carries(<< >>, After(s, m), After(s, m), << >>)  BY <1>1, CarriesNothing
<1>3. Carries(Tokens(s, m) \o << >>, s, After(s, m), Done(s, m) \o << >>)
  BY <1>2, CarriesBefore
<1>4. Tokens(s, m) \in Seq(Token)  BY ChunkType
<1>5. Tokens(s, m) \o << >> = Tokens(s, m)  BY <1>4, JoinsTokens
<1>6. Done(s, m) \o << >> = Done(s, m)  BY <1>1, JoinsDone
<1> QED BY <1>3, <1>5, <1>6

(* A chunk, and behind it what is carried on.                              *)
ChunkFirst(w, s, u, d) ==
    \E m \in Said : \E x \in Seq(Token) : \E e \in Seq(Arriving) :
        /\ MaySend(s, m) /\ Carries(x, After(s, m), u, e)
        /\ w = Tokens(s, m) \o x /\ d = Done(s, m) \o e

(* What is carried is nothing, or a chunk and what is carried behind it.   *)
LEMMA CarriesFirst ==
  ASSUME NEW w, NEW s, NEW u, NEW d, Carries(w, s, u, d)
  PROVE  (w = << >> /\ s = u /\ d = << >>) \/ ChunkFirst(w, s, u, d)
<1> DEFINE Begins(y, a, b, c) ==
             (y = << >> /\ a = b /\ c = << >>) \/ ChunkFirst(y, a, b, c)
           R == {x \in Transits : Begins(x[1], x[2], x[3], x[4])}
<1>1. \A y \in Seq(Token), a, b \in Places, c \in Seq(Arriving) :
         <<y, a, b, c>> \in R <=> Begins(y, a, b, c)
  <2> HIDE DEF Begins
  <2> QED BY DEF Transits
<1>2. R \in SUBSET Transits  OBVIOUS
<1> HIDE DEF R
<1>3. ClosedUnder(R)
  <2>1. ASSUME NEW a \in Places PROVE <<<< >>, a, a, << >>>> \in R
    <3>1. << >> \in Seq(Token) /\ << >> \in Seq(Arriving)  OBVIOUS
    <3> QED BY <1>1, <3>1
  <2>2. ASSUME NEW a \in Places, NEW m \in Said, MaySend(a, m),
               NEW x \in Seq(Token), NEW b \in Places,
               NEW e \in Seq(Arriving), <<x, After(a, m), b, e>> \in R
        PROVE  <<Tokens(a, m) \o x, a, b, Done(a, m) \o e>> \in R
    <3>0. /\ After(a, m) \in Places /\ Done(a, m) \in Seq(Arriving)
          /\ Tokens(a, m) \in Seq(Token)
      BY <2>2, AfterOK, ChunkType
    <3>1. Begins(x, After(a, m), b, e)
      <4> HIDE DEF Begins
      <4> QED BY <1>1, <2>2, <3>0
    <3>2. Carries(x, After(a, m), b, e)
      <4>1. CASE x = << >> /\ After(a, m) = b /\ e = << >>
        BY <3>0, <4>1, CarriesNothing
      <4>2. CASE ChunkFirst(x, After(a, m), b, e)
        BY <3>0, <4>2, CarriesBefore DEF ChunkFirst
      <4> QED BY <3>1, <4>1, <4>2
    <3>3. Begins(Tokens(a, m) \o x, a, b, Done(a, m) \o e)  BY <2>2, <3>2 DEF ChunkFirst
    <3>4. Tokens(a, m) \o x \in Seq(Token)  BY <3>0, JoinsTokens
    <3>5. Done(a, m) \o e \in Seq(Arriving)  BY <3>0, JoinsDone
    <3> HIDE DEF Begins
    <3> QED BY <1>1, <3>3, <3>4, <3>5
  <2>3. \A a \in Places, m \in Said : MaySend(a, m) => Extends(R, a, m)
    BY <2>2 DEF Extends
  <2> HIDE DEF Begins
  <2> QED BY <2>1, <2>3 DEF ClosedUnder
<1>4. <<w, s, u, d>> \in R /\ w \in Seq(Token) /\ s \in Places /\ u \in Places
      /\ d \in Seq(Arriving)
  BY <1>2, <1>3 DEF Carries
<1>5. Begins(w, s, u, d)
  <2> HIDE DEF Begins
  <2> QED BY <1>1, <1>4
<1> QED BY <1>5

(* What is carried from s to t and then from t to u is carried from s to u.*)
LEMMA CarriesJoin ==
  ASSUME NEW v, NEW s, NEW t, NEW d, Carries(v, s, t, d),
         NEW w, NEW u, NEW e, Carries(w, t, u, e)
  PROVE  Carries(v \o w, s, u, d \o e)
<1>0. /\ v \in Seq(Token) /\ s \in Places /\ t \in Places
      /\ d \in Seq(Arriving)
      /\ w \in Seq(Token) /\ u \in Places /\ e \in Seq(Arriving)
  BY DEF Carries
<1> DEFINE Goes(y, a, b, c) == b = t => Carries(y \o w, a, u, c \o e)
           R == {x \in Transits : Goes(x[1], x[2], x[3], x[4])}
<1>1. \A y \in Seq(Token), a, b \in Places, c \in Seq(Arriving) :
         <<y, a, b, c>> \in R <=> Goes(y, a, b, c)
  BY DEF Transits
<1>2. R \in SUBSET Transits  OBVIOUS
<1> HIDE DEF R
<1>3. ClosedUnder(R)
  <2>1. ASSUME NEW a \in Places PROVE <<<< >>, a, a, << >>>> \in R
    <3>1. << >> \in Seq(Token) /\ << >> \in Seq(Arriving)  OBVIOUS
    <3>2. << >> \o w = w /\ << >> \o e = e
      BY <1>0, JoinsTokens, JoinsDone
    <3>3. Goes(<< >>, a, a, << >>)  BY <3>2
    <3> HIDE DEF Goes
    <3> QED BY <1>1, <3>1, <3>3
  <2>2. ASSUME NEW a \in Places, NEW m \in Said, MaySend(a, m),
               NEW x \in Seq(Token), NEW b \in Places,
               NEW f \in Seq(Arriving), <<x, After(a, m), b, f>> \in R
        PROVE  <<Tokens(a, m) \o x, a, b, Done(a, m) \o f>> \in R
    <3>0. /\ After(a, m) \in Places /\ Done(a, m) \in Seq(Arriving)
          /\ Tokens(a, m) \in Seq(Token)
      BY <2>2, AfterOK, ChunkType
    <3>1. Goes(x, After(a, m), b, f)
      <4> HIDE DEF Goes
      <4> QED BY <1>1, <2>2, <3>0
    <3>2. ASSUME b = t
          PROVE  Carries((Tokens(a, m) \o x) \o w, a, u, (Done(a, m) \o f) \o e)
      <4>1. Carries(x \o w, After(a, m), u, f \o e)  BY <3>1, <3>2
      <4>2. Carries(Tokens(a, m) \o (x \o w), a, u, Done(a, m) \o (f \o e))
        BY <2>2, <4>1, CarriesBefore
      <4>3. (Tokens(a, m) \o x) \o w = Tokens(a, m) \o (x \o w)
        BY <1>0, <3>0, JoinsTokens
      <4>4. (Done(a, m) \o f) \o e = Done(a, m) \o (f \o e)
        BY <1>0, <3>0, JoinsDone, SMTT(40)
      <4> QED BY <4>2, <4>3, <4>4
    <3>3. Goes(Tokens(a, m) \o x, a, b, Done(a, m) \o f)  BY <3>2
    <3>4. Tokens(a, m) \o x \in Seq(Token)  BY <3>0, JoinsTokens
    <3>5. Done(a, m) \o f \in Seq(Arriving)  BY <3>0, JoinsDone
    <3> HIDE DEF Goes
    <3> QED BY <1>1, <3>3, <3>4, <3>5
  <2>3. \A a \in Places, m \in Said : MaySend(a, m) => Extends(R, a, m)
    BY <2>2 DEF Extends
  <2> QED BY <2>1, <2>3 DEF ClosedUnder
<1>4. <<v, s, t, d>> \in R
  BY <1>2, <1>3 DEF Carries
<1>5. Goes(v, s, t, d)
  <2> HIDE DEF Goes
  <2> QED BY <1>0, <1>1, <1>4
<1> QED BY <1>5

-----------------------------------------------------------------------------
(* What gathered iovecs point to while the headers are intact.             *)
Media == {m \in Said : m.type # SetChunkSize}
Pieces == {v \in Iovec : v.msg \in Media}

Meant(v) == IF v.header THEN ChunkHeader(v.msg, v.from = 0)
                        ELSE WordTokens(v.msg, v.from, v.len)
Meants(vs) == FlattenSeq([i \in DOMAIN vs |-> Meant(vs[i])])

(* What iovecs point to are tokens.                                        *)
LEMMA MeantType ==
  ASSUME NEW v \in Pieces
  PROVE  Meant(v) \in Seq(Token)
<1>1. v.msg \in Said /\ v.from \in Nat /\ v.len \in Nat
  BY DEF Pieces, Media, Iovec
<1>2. (v.from = 0) \in BOOLEAN  OBVIOUS
<1>3. /\ ChunkHeader(v.msg, v.from = 0) \in Seq(Token)
      /\ WordTokens(v.msg, v.from, v.len) \in Seq(Token)
  BY <1>1, <1>2, TokensType
<1> QED BY <1>3 DEF Meant

(* What joined iovecs point to is joined.                                  *)
LEMMA MeantsConcat ==
  ASSUME NEW vs \in Seq(Pieces), NEW ws \in Seq(Pieces)
  PROVE  /\ Meants(vs) \in Seq(Token)
         /\ Meants(vs \o ws) = Meants(vs) \o Meants(ws)
<1> DEFINE B == Seq(Token)
           Each(r) == [i \in DOMAIN r |-> Meant(r[i])]
<1>1. ASSUME NEW r \in Seq(Pieces)
      PROVE  /\ Each(r) \in Seq(B) /\ Len(Each(r)) = Len(r)
             /\ \A i \in 1..Len(r) : Each(r)[i] = Meant(r[i])
  <2>1. DOMAIN r = 1..Len(r) /\ Len(r) \in Nat
        /\ \A i \in 1..Len(r) : r[i] \in Pieces
    <3> HIDE DEF Pieces
    <3> QED OBVIOUS
  <2>2. \A i \in 1..Len(r) : Meant(r[i]) \in B
    BY <2>1, MeantType
  <2> HIDE DEF B
  <2>3. Each(r) \in [1..Len(r) -> B]
    BY <2>1, <2>2
  <2> QED BY <2>1, <2>3
<1> DEFINE c == vs \o ws
           x == Each(c)
           y == Each(vs)
           z == Each(ws)
<1>2. /\ c \in Seq(Pieces) /\ Len(c) = Len(vs) + Len(ws)
      /\ Len(vs) \in Nat /\ Len(ws) \in Nat
      /\ \A i \in 1..Len(vs) : c[i] = vs[i]
      /\ \A i \in 1..Len(ws) : c[Len(vs) + i] = ws[i]
  OBVIOUS
<1> HIDE DEF c
<1>3. /\ x \in Seq(B) /\ Len(x) = Len(c)
      /\ \A i \in 1..Len(c) : x[i] = Meant(c[i])
  BY <1>1, <1>2
<1>4. /\ y \in Seq(B) /\ Len(y) = Len(vs)
      /\ \A i \in 1..Len(vs) : y[i] = Meant(vs[i])
  BY <1>1
<1>5. /\ z \in Seq(B) /\ Len(z) = Len(ws)
      /\ \A i \in 1..Len(ws) : z[i] = Meant(ws[i])
  BY <1>1
<1>6. Meants(c) = FlattenSeq(x) /\ Meants(vs) = FlattenSeq(y)
      /\ Meants(ws) = FlattenSeq(z)
  BY DEF Meants
<1> HIDE DEF x, y, z, B
<1>7. \A i \in 1..Len(y) : x[i] = y[i]
  BY <1>2, <1>3, <1>4
<1>8. ASSUME NEW i \in 1..Len(z) PROVE x[Len(y) + i] = z[i]
  <2>1. i \in 1..Len(ws) /\ Len(vs) + i \in 1..Len(c)
    BY <1>2, <1>5
  <2>2. x[Len(vs) + i] = Meant(c[Len(vs) + i]) /\ c[Len(vs) + i] = ws[i]
    BY <1>2, <1>3, <2>1
  <2>3. z[i] = Meant(ws[i]) /\ Len(y) = Len(vs)
    BY <1>4, <1>5, <2>1
  <2> QED BY <2>2, <2>3
<1>9. x = y \o z
  <2>1. Len(x) = Len(y) + Len(z)
    BY <1>2, <1>3, <1>4, <1>5
  <2> QED BY <1>3, <1>4, <1>5, <1>7, <1>8, <2>1, Joined
<1>10. FlattenSeq(y \o z) = FlattenSeq(y) \o FlattenSeq(z)
       /\ FlattenSeq(y) \in Seq(Token)
  BY <1>4, <1>5, FlattenConcat, FlattenType DEF B
<1> QED BY <1>6, <1>9, <1>10 DEF c

(* What a single iovec points to.                                          *)
LEMMA MeantsOne ==
  ASSUME NEW v \in Pieces
  PROVE  Meants(<<v>>) = Meant(v) /\ Meants(<< >>) = << >>
<1>1. Meant(v) \in Seq(Token)  BY MeantType
<1>2. [i \in DOMAIN <<v>> |-> Meant(<<v>>[i])] = <<Meant(v)>>
  OBVIOUS
<1>3. [i \in DOMAIN << >> |-> Meant(<< >>[i])] = << >>
  OBVIOUS
<1> QED BY <1>1, <1>2, <1>3, FlattenOne, FlattenEmpty DEF Meants

(* What writev puts on the wire is what the iovecs mean.                   *)
LEMMA PointedsMeants ==
  ASSUME WInv, wpc = "write", iovs \in Seq(Pieces), NEW a \in Nat, NEW b \in Nat,
         b <= Len(iovs)
  PROVE  Pointeds(SubSeq(iovs, a + 1, b)) = Meants(SubSeq(iovs, a + 1, b))
<1> DEFINE vs == SubSeq(iovs, a + 1, b)
<1>1. ASSUME NEW i \in DOMAIN vs
      PROVE  Pointed(vs[i]) = Meant(vs[i])
  <2>1. a + i \in DOMAIN iovs /\ vs[i] = iovs[a + i]
    BY <1>1
  <2>2. HeadersIntact
    BY DEF WInv
  <2>3. iovs[a + i].header => HeaderIntact(iovs[a + i])
    BY <2>1, <2>2 DEF HeadersIntact
  <2>4. Pointed(iovs[a + i]) = Meant(iovs[a + i])
    BY <2>3 DEF Pointed, Meant
  <2> QED BY <2>1, <2>4
<1> HIDE DEF vs
<1>2. [i \in DOMAIN vs |-> Pointed(vs[i])] = [i \in DOMAIN vs |-> Meant(vs[i])]
  BY <1>1
<1>3. Pointeds(vs) = Meants(vs)
  BY <1>2 DEF Pointeds, Meants
<1> QED BY <1>3 DEF vs

(* Where the writer is on the line: the place behind what it has written,  *)
(* and, in the middle of a chunk, the message whose header is written and  *)
(* whose payload is not.  A failed writer is nowhere and writes no more.   *)
Spots == [ok : BOOLEAN, mid : BOOLEAN, at : Places, msg : Said \cup {Nobody}]

IsAt(p, u) == p.ok => ~p.mid /\ p.at = u
IsWithin(p, u, m) == p.ok => p.mid /\ p.at = u /\ p.msg = m

(* The tokens y lead from place s to where the writer is and complete the  *)
(* messages e.                                                             *)
ReachesEven(y, e, s, p) == \E u \in Places : Carries(y, s, u, e) /\ IsAt(p, u)

ReachesMid(y, e, s, p) ==
    \E u \in Places, m \in Said, w \in Seq(Token) :
        /\ MaySend(u, m) /\ y = w \o HeaderOf(u, m)
        /\ Carries(w, s, u, e) /\ IsWithin(p, u, m)

Reaches(y, e, s, p) == ReachesEven(y, e, s, p) \/ ReachesMid(y, e, s, p)

(* The writer goes from p to q, writes the tokens w and completes f.       *)
Rests(p, q, w, f) == w = << >> /\ f = << >> /\ (p.ok /\ q.ok => q = p)
                        /\ (q.ok => p.ok)

GoesOn(p, q, w, f) == p.ok /\ q.ok /\ ~p.mid /\ Reaches(w, f, p.at, q)

Finishes(p, q, w, f) ==
    /\ p.ok /\ q.ok /\ p.mid /\ MaySend(p.at, p.msg)
    /\ \E y \in Seq(Token), g \in Seq(Arriving) :
          /\ w = PayloadOf(p.at, p.msg) \o y /\ f = Done(p.at, p.msg) \o g
          /\ Reaches(y, g, After(p.at, p.msg), q)

Moves(p, q, w, f) ==
    Rests(p, q, w, f) \/ GoesOn(p, q, w, f) \/ Finishes(p, q, w, f)

(* What leads to the writer are tokens, and completes messages.            *)
LEMMA ReachesType ==
  ASSUME NEW y, NEW e, NEW s, NEW p, Reaches(y, e, s, p)
  PROVE  y \in Seq(Token) /\ e \in Seq(Arriving) /\ s \in Places
<1>1. CASE ReachesEven(y, e, s, p)
  BY <1>1 DEF ReachesEven, Carries
<1>2. CASE ReachesMid(y, e, s, p)
  <2>1. PICK u \in Places, m \in Said, w \in Seq(Token) :
          /\ MaySend(u, m) /\ y = w \o HeaderOf(u, m)
          /\ Carries(w, s, u, e)
    BY <1>2 DEF ReachesMid
  <2>2. HeaderOf(u, m) \in Seq(Token)  BY <2>1, ChunkType
  <2>3. y \in Seq(Token)  BY <2>1, <2>2, JoinsTokens
  <2> QED BY <2>1, <2>3 DEF Carries
<1> QED BY <1>1, <1>2 DEF Reaches

(* So are what a move writes and completes.                                *)
LEMMA MovesType ==
  ASSUME NEW p \in Spots, NEW q, NEW w, NEW f, Moves(p, q, w, f)
  PROVE  w \in Seq(Token) /\ f \in Seq(Arriving)
<1>1. CASE Rests(p, q, w, f)
  <2>1. << >> \in Seq(Token) /\ << >> \in Seq(Arriving)  OBVIOUS
  <2> QED BY <1>1, <2>1 DEF Rests
<1>2. CASE GoesOn(p, q, w, f)
  BY <1>2, ReachesType DEF GoesOn
<1>3. CASE Finishes(p, q, w, f)
  <2>0. p.at \in Places  BY DEF Spots
  <2>1. PICK y \in Seq(Token), g \in Seq(Arriving) :
          w = PayloadOf(p.at, p.msg) \o y /\ f = Done(p.at, p.msg) \o g
    BY <1>3 DEF Finishes
  <2>2. PayloadOf(p.at, p.msg) \in Seq(Token) /\ Done(p.at, p.msg) \in Seq(Arriving)
    BY <1>3, <2>0, ChunkType, AfterOK DEF Finishes
  <2> QED BY <2>1, <2>2, JoinsTokens, JoinsDone
<1> QED BY <1>1, <1>2, <1>3 DEF Moves

(* What leads on from where other tokens lead leads on behind them.        *)
LEMMA CarriesReaches ==
  ASSUME NEW v, NEW d, NEW s, NEW u, Carries(v, s, u, d),
         NEW w, NEW f, NEW q, Reaches(w, f, u, q)
  PROVE  Reaches(v \o w, d \o f, s, q)
<1>0. v \in Seq(Token) /\ d \in Seq(Arriving) /\ s \in Places
  BY DEF Carries
<1>1. CASE ReachesEven(w, f, u, q)
  <2>1. PICK t \in Places : Carries(w, u, t, f) /\ IsAt(q, t)
    BY <1>1 DEF ReachesEven
  <2>2. Carries(v \o w, s, t, d \o f)  BY <2>1, CarriesJoin
  <2> QED BY <2>1, <2>2 DEF Reaches, ReachesEven
<1>2. CASE ReachesMid(w, f, u, q)
  <2>1. PICK t \in Places, m \in Said, x \in Seq(Token) :
          /\ MaySend(t, m) /\ w = x \o HeaderOf(t, m)
          /\ Carries(x, u, t, f) /\ IsWithin(q, t, m)
    BY <1>2 DEF ReachesMid
  <2>2. Carries(v \o x, s, t, d \o f)  BY <2>1, CarriesJoin
  <2>3. HeaderOf(t, m) \in Seq(Token)  BY <2>1, ChunkType
  <2>4. v \o w = (v \o x) \o HeaderOf(t, m) /\ v \o x \in Seq(Token)
    BY <1>0, <2>1, <2>3, JoinsTokens, SMTT(40)
  <2> QED BY <2>1, <2>2, <2>4 DEF Reaches, ReachesMid
<1> QED BY <1>1, <1>2 DEF Reaches

(* As the writer goes on, what leads to it grows by what it writes.        *)
LEMMA ReachesMore ==
  ASSUME NEW y, NEW e, NEW s, NEW p \in Spots, Reaches(y, e, s, p),
         NEW q, NEW w, NEW f, Moves(p, q, w, f)
  PROVE  Reaches(y \o w, e \o f, s, q)
<1>0. y \in Seq(Token) /\ e \in Seq(Arriving) /\ s \in Places
  BY ReachesType
<1>1. CASE Rests(p, q, w, f)
  <2>1. y \o w = y /\ e \o f = e
    BY <1>0, <1>1, JoinsTokens, JoinsDone DEF Rests
  <2>2. Reaches(y, e, s, q)
    BY <1>1 DEF Rests, Reaches, ReachesEven, ReachesMid, IsAt, IsWithin
  <2> QED BY <2>1, <2>2
<1>2. CASE GoesOn(p, q, w, f)
  <2>1. p.ok /\ ~p.mid /\ Reaches(w, f, p.at, q)
    BY <1>2 DEF GoesOn
  <2>2. Carries(y, s, p.at, e)
    BY <2>1 DEF Reaches, ReachesEven, ReachesMid, IsAt, IsWithin
  <2> QED BY <2>1, <2>2, CarriesReaches
<1>3. CASE Finishes(p, q, w, f)
  <2>1. p.ok /\ p.mid  BY <1>3 DEF Finishes
  <2>2. PICK x \in Seq(Token) :
          y = x \o HeaderOf(p.at, p.msg) /\ Carries(x, s, p.at, e)
    BY <2>1 DEF Reaches, ReachesEven, ReachesMid, IsAt, IsWithin
  <2> DEFINE u == p.at
             m == p.msg
  <2>3. u \in Places /\ MaySend(u, m)  BY <1>3 DEF Finishes, Spots
  <2>4. PICK z \in Seq(Token), g \in Seq(Arriving) :
          /\ w = PayloadOf(u, m) \o z /\ f = Done(u, m) \o g
          /\ Reaches(z, g, After(u, m), q)
    BY <1>3 DEF Finishes
  <2>y. y = x \o HeaderOf(u, m) /\ Carries(x, s, u, e)  BY <2>2
  <2> HIDE DEF u, m
  <2>5. /\ HeaderOf(u, m) \in Seq(Token) /\ PayloadOf(u, m) \in Seq(Token)
        /\ Tokens(u, m) \in Seq(Token) /\ Done(u, m) \in Seq(Arriving)
        /\ Tokens(u, m) = HeaderOf(u, m) \o PayloadOf(u, m)
    BY <2>3, ChunkType, AfterOK DEF Tokens
  <2>6. Carries(Tokens(u, m), u, After(u, m), Done(u, m))
    BY <2>3, CarriesOne
  <2>7. Carries(x \o Tokens(u, m), s, After(u, m), e \o Done(u, m))
    BY <2>6, <2>y, CarriesJoin
  <2>8. Reaches((x \o Tokens(u, m)) \o z, (e \o Done(u, m)) \o g, s, q)
    BY <2>4, <2>7, CarriesReaches
  <2>9. (x \o Tokens(u, m)) \o z = y \o w
    <3> DEFINE h == HeaderOf(u, m)
               l == PayloadOf(u, m)
    <3>1. h \in Seq(Token) /\ l \in Seq(Token)  BY <2>5
    <3> HIDE DEF h, l
    <3>2. (x \o (h \o l)) \o z = ((x \o h) \o l) \o z  BY <3>1, JoinsTokens
    <3>3. ((x \o h) \o l) \o z = (x \o h) \o (l \o z)
      <4>1. x \o h \in Seq(Token)  BY <3>1, JoinsTokens
      <4> QED BY <3>1, <4>1, JoinsTokens
    <3> QED BY <2>4, <2>5, <2>y, <3>2, <3>3 DEF h, l
  <2>10. (e \o Done(u, m)) \o g = e \o f
    BY <1>0, <2>4, <2>5, JoinsDone, SMTT(40)
  <2> QED BY <2>8, <2>9, <2>10
<1> QED BY <1>1, <1>2, <1>3 DEF Moves

-----------------------------------------------------------------------------
(* The wire x of a reader at place s that was handed d, while sent are     *)
(* what the writer counts as sent and p is where it is: between chunks,    *)
(* and behind the header of a chunk of m.                                  *)
Behind(x, s, d, sv, p) ==
    d \in Seq(Arriving) /\ \E e \in Seq(Arriving) : sv = d \o e /\ Reaches(x, e, s, p)

Waits(x, s, m, d, sv, p) == x = << >> /\ sv = d /\ IsWithin(p, s, m)

Follows(x, s, m, d, sv, p) ==
    \E y \in Seq(Token) :
        /\ x = PayloadOf(s, m) \o y
        /\ Behind(y, After(s, m), d \o Done(s, m), sv, p)

Ahead(x, s, m, d, sv, p) ==
    /\ s \in Places /\ MaySend(s, m) /\ d \in Seq(Arriving)
    /\ Waits(x, s, m, d, sv, p) \/ Follows(x, s, m, d, sv, p)

(* Both are kept as the writer goes on.                                    *)
LEMMA BehindMore ==
  ASSUME NEW x, NEW s, NEW d, NEW sv, NEW p \in Spots, Behind(x, s, d, sv, p),
         NEW q, NEW w, NEW f, Moves(p, q, w, f)
  PROVE  Behind(x \o w, s, d, sv \o f, q)
<1>1. PICK e \in Seq(Arriving) : sv = d \o e /\ Reaches(x, e, s, p)
  BY DEF Behind
<1>2. Reaches(x \o w, e \o f, s, q)  BY <1>1, ReachesMore
<1>3. f \in Seq(Arriving) /\ d \in Seq(Arriving)  BY MovesType DEF Behind
<1>4. sv \o f = d \o (e \o f) /\ e \o f \in Seq(Arriving)
  BY <1>1, <1>3, JoinsDone
<1> QED BY <1>2, <1>3, <1>4 DEF Behind

(* So is being within a chunk.                                             *)
LEMMA AheadMore ==
  ASSUME NEW x, NEW s, NEW m, NEW d, NEW sv, NEW p \in Spots,
         Ahead(x, s, m, d, sv, p), NEW q, NEW w, NEW f, Moves(p, q, w, f)
  PROVE  Ahead(x \o w, s, m, d, sv \o f, q)
<1>0. /\ s \in Places /\ MaySend(s, m) /\ d \in Seq(Arriving)
      /\ w \in Seq(Token) /\ f \in Seq(Arriving)
      /\ PayloadOf(s, m) \in Seq(Token) /\ Done(s, m) \in Seq(Arriving)
  BY MovesType, ChunkType, AfterOK DEF Ahead
<1>1. CASE Follows(x, s, m, d, sv, p)
  <2>1. PICK y \in Seq(Token) :
          /\ x = PayloadOf(s, m) \o y
          /\ Behind(y, After(s, m), d \o Done(s, m), sv, p)
    BY <1>1 DEF Follows
  <2>2. Behind(y \o w, After(s, m), d \o Done(s, m), sv \o f, q)
    BY <2>1, BehindMore
  <2>3. x \o w = PayloadOf(s, m) \o (y \o w) /\ y \o w \in Seq(Token)
    BY <1>0, <2>1, JoinsTokens
  <2>4. Follows(x \o w, s, m, d, sv \o f, q)  BY <2>2, <2>3 DEF Follows
  <2> QED BY <1>0, <2>4 DEF Ahead
<1>2. CASE Waits(x, s, m, d, sv, p)
  <2>0. x = << >> /\ sv = d /\ IsWithin(p, s, m)  BY <1>2 DEF Waits
  <2>1. x \o w = w /\ sv \o f = d \o f
    BY <1>0, <2>0, JoinsTokens
  <2>2. CASE Rests(p, q, w, f)
    <3>1. w = << >> /\ d \o f = d /\ IsWithin(q, s, m)
      BY <1>0, <2>0, <2>2, JoinsDone DEF Rests, IsWithin
    <3> QED BY <1>0, <2>1, <3>1 DEF Ahead, Waits
  <2>3. CASE GoesOn(p, q, w, f)
    BY <2>0, <2>3 DEF GoesOn, IsWithin
  <2>4. CASE Finishes(p, q, w, f)
    <3>1. p.at = s /\ p.msg = m  BY <2>0, <2>4 DEF Finishes, IsWithin
    <3>2. PICK y \in Seq(Token), g \in Seq(Arriving) :
            /\ w = PayloadOf(s, m) \o y /\ f = Done(s, m) \o g
            /\ Reaches(y, g, After(s, m), q)
      BY <2>4, <3>1 DEF Finishes
    <3>3. d \o f = (d \o Done(s, m)) \o g /\ d \o Done(s, m) \in Seq(Arriving)
      BY <1>0, <3>2, JoinsDone, SMTT(40)
    <3>4. Behind(y, After(s, m), d \o Done(s, m), d \o f, q)
      BY <3>2, <3>3 DEF Behind
    <3>5. Follows(w, s, m, d, d \o f, q)  BY <3>2, <3>4 DEF Follows
    <3> QED BY <1>0, <2>1, <3>5 DEF Ahead
  <2> QED BY <2>2, <2>3, <2>4 DEF Moves
<1> QED BY <1>1, <1>2 DEF Ahead

(* What a reader between chunks finds is the header of a chunk, and what   *)
(* follows it.                                                             *)
LEMMA BehindFirst ==
  ASSUME NEW x, NEW s, NEW d, NEW sv, NEW p, Behind(x, s, d, sv, p), x # << >>
  PROVE  \E m \in Said, y \in Seq(Token) :
            x = HeaderOf(s, m) \o y /\ Ahead(y, s, m, d, sv, p)
<1>1. PICK e \in Seq(Arriving) : sv = d \o e /\ Reaches(x, e, s, p)
  BY DEF Behind
<1>0. /\ x \in Seq(Token) /\ s \in Places /\ d \in Seq(Arriving)
  BY <1>1, ReachesType DEF Behind
<1>j. \A a, b, c \in Seq(Token) :
         (a \o b) \o c = a \o (b \o c) /\ a \o b \in Seq(Token)
  BY JoinsTokens
<1>2. ASSUME NEW m \in Said, NEW y \in Seq(Token), NEW g \in Seq(Arriving),
             MaySend(s, m), x = Tokens(s, m) \o y, e = Done(s, m) \o g,
             Reaches(y, g, After(s, m), p)
      PROVE  \E n \in Said, z \in Seq(Token) :
                x = HeaderOf(s, n) \o z /\ Ahead(z, s, n, d, sv, p)
  <2>1. /\ HeaderOf(s, m) \in Seq(Token) /\ PayloadOf(s, m) \in Seq(Token)
        /\ Done(s, m) \in Seq(Arriving)
    BY <1>0, <1>2, ChunkType, AfterOK
  <2>2. x = HeaderOf(s, m) \o (PayloadOf(s, m) \o y)
    BY <1>2, <2>1, JoinsTokens DEF Tokens
  <2>3. sv = (d \o Done(s, m)) \o g /\ d \o Done(s, m) \in Seq(Arriving)
    <3> DEFINE k == Done(s, m)
    <3>1. k \in Seq(Arriving)  BY <2>1
    <3> HIDE DEF k
    <3>2. (d \o k) \o g = d \o (k \o g) /\ d \o k \in Seq(Arriving)
      BY <1>0, <3>1, JoinsDone, SMTT(40)
    <3> QED BY <1>1, <1>2, <3>2 DEF k
  <2>4. Behind(y, After(s, m), d \o Done(s, m), sv, p)
    BY <1>2, <2>3 DEF Behind
  <2>5. Ahead(PayloadOf(s, m) \o y, s, m, d, sv, p)
    BY <1>0, <1>2, <2>4 DEF Ahead, Follows
  <2>6. PayloadOf(s, m) \o y \in Seq(Token)  BY <2>1, JoinsTokens
  <2> QED BY <2>2, <2>5, <2>6
<1>3. CASE ReachesEven(x, e, s, p)
  <2>1. PICK u \in Places : Carries(x, s, u, e) /\ IsAt(p, u)
    BY <1>3 DEF ReachesEven
  <2>c. ChunkFirst(x, s, u, e)  BY <2>1, CarriesFirst
  <2>2. PICK m \in Said, y \in Seq(Token), g \in Seq(Arriving) :
          /\ MaySend(s, m) /\ Carries(y, After(s, m), u, g)
          /\ x = Tokens(s, m) \o y /\ e = Done(s, m) \o g
    BY <2>c DEF ChunkFirst
  <2>3. Reaches(y, g, After(s, m), p)
    BY <2>1, <2>2 DEF Reaches, ReachesEven
  <2> QED BY <1>2, <2>2, <2>3
<1>4. CASE ReachesMid(x, e, s, p)
  <2>1. PICK u \in Places, n \in Said, w \in Seq(Token) :
          /\ MaySend(u, n) /\ x = w \o HeaderOf(u, n)
          /\ Carries(w, s, u, e) /\ IsWithin(p, u, n)
    BY <1>4 DEF ReachesMid
  <2>h. HeaderOf(u, n) \in Seq(Token)  BY <2>1, ChunkType
  <2>2. CASE w = << >> /\ s = u /\ e = << >>
    <3>1. x = HeaderOf(s, n) /\ x = HeaderOf(s, n) \o << >>
      BY <2>1, <2>2, <2>h, JoinsTokens
    <3>2. sv = d  BY <1>0, <1>1, <2>2, JoinsDone
    <3>3. Ahead(<< >>, s, n, d, sv, p)
      BY <1>0, <2>1, <2>2, <3>2 DEF Ahead, Waits
    <3>4. << >> \in Seq(Token)  OBVIOUS
    <3> QED BY <3>1, <3>3, <3>4
  <2>3. CASE ChunkFirst(w, s, u, e)
    <3>1. PICK m \in Said, y \in Seq(Token), g \in Seq(Arriving) :
            /\ MaySend(s, m) /\ Carries(y, After(s, m), u, g)
            /\ w = Tokens(s, m) \o y /\ e = Done(s, m) \o g
      BY <2>3 DEF ChunkFirst
    <3>2. Tokens(s, m) \in Seq(Token)  BY <1>0, <3>1, ChunkType
    <3>3. x = Tokens(s, m) \o (y \o HeaderOf(u, n))
          /\ y \o HeaderOf(u, n) \in Seq(Token)
      <4> DEFINE k == Tokens(s, m)
                 h == HeaderOf(u, n)
      <4>1. k \in Seq(Token) /\ h \in Seq(Token) /\ y \in Seq(Token)
        BY <2>h, <3>1, <3>2
      <4> HIDE DEF k, h
      <4>2. /\ (k \o y) \o h = k \o (y \o h)
            /\ y \o h \in Seq(Token)
        BY <1>j, <4>1, SMTT(40)
      <4> QED BY <2>1, <3>1, <4>2 DEF k, h
    <3>4. Reaches(y \o HeaderOf(u, n), g, After(s, m), p)
      BY <2>1, <3>1 DEF Reaches, ReachesMid
    <3> QED BY <1>2, <3>1, <3>3, <3>4
  <2>4. (w = << >> /\ s = u /\ e = << >>) \/ ChunkFirst(w, s, u, e)
    BY <2>1, CarriesFirst
  <2> QED BY <2>2, <2>3, <2>4
<1> QED BY <1>1, <1>3, <1>4 DEF Reaches

(* A reader between chunks that has read everything is where the writer is *)
(* between chunks, and was handed what was sent.                           *)
LEMMA BehindQuiet ==
  ASSUME NEW s, NEW d, NEW sv, NEW p, Behind(<< >>, s, d, sv, p), p.ok, ~p.mid
  PROVE  p.at = s /\ sv = d
<1>1. PICK e \in Seq(Arriving) : sv = d \o e /\ Reaches(<< >>, e, s, p)
  BY DEF Behind
<1>2. PICK u \in Places : Carries(<< >>, s, u, e) /\ p.at = u
  BY <1>1 DEF Reaches, ReachesEven, ReachesMid, IsAt, IsWithin
<1>3. s \in Places /\ d \in Seq(Arriving)  BY <1>2 DEF Carries, Behind
<1>4. ASSUME NEW m \in Said, NEW y \in Seq(Token), MaySend(s, m)
      PROVE  Tokens(s, m) \o y # << >>
  <2>1. /\ HeaderOf(s, m) \in Seq(Token) /\ HeaderOf(s, m) # << >>
        /\ PayloadOf(s, m) \in Seq(Token)
    BY <1>3, <1>4, ChunkType
  <2> HIDE DEF Token
  <2> DEFINE h == HeaderOf(s, m)
             l == PayloadOf(s, m)
             t == h \o l
  <2>2. h \in Seq(Token) /\ Len(h) > 0 /\ l \in Seq(Token)  BY <2>1
  <2> HIDE DEF h, l
  <2>3. t \in Seq(Token) /\ Len(t) > 0  BY <2>2
  <2> HIDE DEF t
  <2>4. t \o y # << >>  BY <2>3
  <2> QED BY <2>4 DEF t, h, l, Tokens
<1>5. s = u /\ e = << >>  BY <1>2, <1>4, CarriesFirst DEF ChunkFirst
<1> QED BY <1>1, <1>2, <1>3, <1>5, JoinsDone

(* Iovecs come in pairs.                                                   *)
Even(i) == \E q \in Nat : i = 2 * q

(* Every other number is even.                                             *)
LEMMA Parity ==
  ASSUME NEW i \in Nat
  PROVE  /\ Even(0) /\ (Even(i) <=> ~Even(i + 1)) /\ (Even(i) <=> Even(i + 2))
         /\ ~Even(i) => i > 0 /\ i - 1 \in Nat /\ Even(i - 1)
<1>1. Even(0)
  <2>1. 0 = 2 * 0  OBVIOUS
  <2> QED BY <2>1 DEF Even
<1> DEFINE n == i \div 2
<1>2. n \in Nat /\ (i = 2 * n \/ i = 2 * n + 1)
  OBVIOUS
<1> HIDE DEF n
<1>3. CASE i = 2 * n
  <2>1. Even(i) /\ Even(i + 2)
    <3>1. n + 1 \in Nat /\ i + 2 = 2 * (n + 1)  BY <1>2, <1>3
    <3> QED BY <1>2, <1>3, <3>1 DEF Even
  <2>2. ~Even(i + 1)
    BY <1>2, <1>3 DEF Even
  <2> QED BY <1>1, <2>1, <2>2
<1>4. CASE i = 2 * n + 1
  <2>1. ~Even(i) /\ ~Even(i + 2)
    BY <1>2, <1>4 DEF Even
  <2>2. Even(i + 1) /\ Even(i - 1) /\ i > 0 /\ i - 1 \in Nat
    <3>1. n + 1 \in Nat /\ i + 1 = 2 * (n + 1) /\ i - 1 = 2 * n
      BY <1>2, <1>4
    <3> QED BY <1>2, <1>4, <3>1 DEF Even
  <2> QED BY <1>1, <2>1, <2>2
<1> QED BY <1>2, <1>3, <1>4

-----------------------------------------------------------------------------
(* Where the chunk of the iovecs behind the first i starts, the place h    *)
(* being behind them all.                                                  *)
StartOf(vs, h, i) ==
    IF i < Len(vs) THEN Place(vs[i + 1].msg, vs[i + 1].from, h.size) ELSE h

IsPair(vs, h, i) ==
    LET s == StartOf(vs, h, i)
        m == vs[i + 1].msg
    IN  /\ i + 2 <= Len(vs) /\ s \in Places /\ MaySend(s, m)
        /\ vs[i + 1].header /\ vs[i + 1].from = s.off
        /\ ~vs[i + 2].header /\ vs[i + 2].msg = m
        /\ vs[i + 2].from = s.off /\ vs[i + 2].len = Size(s, m)
        /\ After(s, m) = StartOf(vs, h, i + 2)

(* Iovecs that are, pair by pair, chunks up to the place h.                *)
Chain(vs, h) ==
    /\ h \in Places /\ vs \in Seq(Pieces) /\ Even(Len(vs))
    /\ \A i \in Nat : Even(i) /\ i < Len(vs) => IsPair(vs, h, i)

Some(vs, i, k) == SubSeq(vs, i + 1, k)

(* Parts of a sequence of iovecs.                                          *)
LEMMA SomeSplit ==
  ASSUME NEW vs \in Seq(Pieces), NEW i \in Nat, NEW j \in Nat, NEW k \in Nat,
         i <= j, j <= k, k <= Len(vs)
  PROVE  /\ Some(vs, i, j) \in Seq(Pieces) /\ Some(vs, j, k) \in Seq(Pieces)
         /\ Some(vs, i, k) = Some(vs, i, j) \o Some(vs, j, k)
         /\ Some(vs, i, i) = << >>
         /\ i < k => vs[i + 1] \in Pieces /\ Some(vs, i, i + 1) = <<vs[i + 1]>>
<1> HIDE DEF Pieces
<1>1. Some(vs, i, j) \in Seq(Pieces) /\ Some(vs, j, k) \in Seq(Pieces)
      /\ Some(vs, i, k) \in Seq(Pieces)
  BY DEF Some
<1>2. /\ Len(Some(vs, i, j)) = j - i /\ Len(Some(vs, j, k)) = k - j
      /\ Len(Some(vs, i, k)) = k - i /\ Len(vs) \in Nat
  BY DEF Some
<1>3. /\ \A n \in 1..(j - i) : Some(vs, i, j)[n] = vs[i + n]
      /\ \A n \in 1..(k - j) : Some(vs, j, k)[n] = vs[j + n]
      /\ \A n \in 1..(k - i) : Some(vs, i, k)[n] = vs[i + n]
  BY DEF Some
<1>4. Some(vs, i, k) = Some(vs, i, j) \o Some(vs, j, k)
  <2> DEFINE x == Some(vs, i, k)
             y == Some(vs, i, j)
             z == Some(vs, j, k)
  <2>1. x \in Seq(Pieces) /\ y \in Seq(Pieces) /\ z \in Seq(Pieces)
        /\ Len(x) = Len(y) + Len(z) /\ Len(y) = j - i /\ Len(z) = k - j
    BY <1>1, <1>2
  <2>2. \A n \in 1..Len(y) : x[n] = y[n]
    BY <1>2, <1>3
  <2>3. ASSUME NEW n \in 1..Len(z) PROVE x[Len(y) + n] = z[n]
    <3>1. n \in 1..(k - j) /\ (j - i) + n \in 1..(k - i)
      BY <2>1
    <3>2. x[(j - i) + n] = vs[i + ((j - i) + n)] /\ z[n] = vs[j + n]
      BY <1>3, <3>1
    <3>3. i + ((j - i) + n) = j + n
      BY <3>1
    <3> QED BY <2>1, <3>2, <3>3
  <2> HIDE DEF x, y, z
  <2>4. x = y \o z
    BY <2>1, <2>2, <2>3, Joined
  <2> QED BY <2>4 DEF x, y, z
<1>5. Some(vs, i, i) = << >>
  BY DEF Some
<1>6. ASSUME i < k
      PROVE  vs[i + 1] \in Pieces /\ Some(vs, i, i + 1) = <<vs[i + 1]>>
  <2>1. Len(vs) \in Nat /\ i + 1 \in 1..Len(vs)  BY <1>6
  <2>2. vs[i + 1] \in Pieces  BY <2>1
  <2> DEFINE b == Some(vs, i, i + 1)
  <2>3. b \in Seq(Pieces) /\ Len(b) = 1 /\ b[1] = vs[i + 1]
    BY <2>1 DEF Some
  <2> HIDE DEF b
  <2>4. b = <<b[1]>>  BY <2>3, Single
  <2> QED BY <2>2, <2>3, <2>4 DEF b
<1> QED BY <1>1, <1>4, <1>5, <1>6

(* What ends among them.                                                   *)
LEMMA EndsConcat ==
  ASSUME NEW vs \in Seq(Pieces), NEW ws \in Seq(Pieces)
  PROVE  MessagesEnding(vs \o ws) = MessagesEnding(vs) \o MessagesEnding(ws)
<1>1. Pieces \subseteq Iovec  BY DEF Pieces
<1>2. vs \in Seq(Iovec) /\ ws \in Seq(Iovec)
  <2> HIDE DEF Pieces, Iovec
  <2> QED BY <1>1
<1> QED BY <1>2, EndingConcat

(* A header ends none, a payload the message it completes.                 *)
LEMMA EndsOne ==
  ASSUME NEW v \in Pieces
  PROVE  MessagesEnding(<<v>>)
             = IF LastOfMessage(v) THEN <<Whole(v.msg)>> ELSE << >>
<1>1. v \in Iovec  BY DEF Pieces
<1>2. Among(<<v>>, LastIovs) = IF v \in LastIovs THEN <<v>> ELSE << >>
  BY AmongOne
<1>3. v \in LastIovs <=> LastOfMessage(v)
  BY <1>1 DEF LastIovs
<1>4. CASE LastOfMessage(v)
  <2>1. Among(<<v>>, LastIovs) = <<v>>  BY <1>2, <1>3, <1>4
  <2>2. [i \in DOMAIN <<v>> |-> <<v>>[i].msg] = <<v.msg>>  OBVIOUS
  <2>3. MessagesEnding(<<v>>) = Wholes(<<v.msg>>)
    BY <2>1, <2>2 DEF MessagesEnding
  <2>4. v.msg \in Sendable  BY <1>1 DEF Iovec
  <2> QED BY <1>4, <2>3, <2>4, SingleOwed
<1>5. CASE ~LastOfMessage(v)
  <2>1. Among(<<v>>, LastIovs) = << >>  BY <1>2, <1>3, <1>5
  <2>2. [i \in DOMAIN << >> |-> << >>[i].msg] = << >>  OBVIOUS
  <2>3. MessagesEnding(<<v>>) = Wholes(<< >>)
    BY <2>1, <2>2 DEF MessagesEnding
  <2> QED BY <1>5, <2>3, EmptyOwed
<1> QED BY <1>4, <1>5

(* The two iovecs of a chunk.                                              *)
LEMMA PairMeans ==
  ASSUME NEW vs \in Seq(Pieces), NEW h, NEW i \in Nat, IsPair(vs, h, i)
  PROVE  LET s == StartOf(vs, h, i)
             m == vs[i + 1].msg
         IN  /\ Meants(Some(vs, i, i + 1)) = HeaderOf(s, m)
             /\ Meants(Some(vs, i + 1, i + 2)) = PayloadOf(s, m)
             /\ MessagesEnding(Some(vs, i, i + 1)) = << >>
             /\ MessagesEnding(Some(vs, i + 1, i + 2)) = Done(s, m)
             /\ Meants(Some(vs, i, i + 2)) = Tokens(s, m)
             /\ MessagesEnding(Some(vs, i, i + 2)) = Done(s, m)
             /\ m \in Said
<1> DEFINE s == StartOf(vs, h, i)
           m == vs[i + 1].msg
           a == vs[i + 1]
           b == vs[i + 2]
<1>1. /\ i + 2 <= Len(vs) /\ s \in Places /\ MaySend(s, m)
      /\ a.header /\ a.from = s.off /\ a.msg = m
      /\ ~b.header /\ b.msg = m /\ b.from = s.off /\ b.len = Size(s, m)
  BY DEF IsPair
<1> HIDE DEF s, m
<1>2. /\ a \in Pieces /\ Some(vs, i, i + 1) = <<a>>
      /\ Some(vs, i, i + 1) \in Seq(Pieces)
  <2>1. Len(vs) \in Nat  OBVIOUS
  <2>2. i + 1 \in Nat /\ i <= i + 1 /\ i + 1 <= Len(vs) /\ i < i + 1
    BY <1>1, <2>1
  <2> QED BY <2>2, SomeSplit
<1>3. /\ b \in Pieces /\ Some(vs, i + 1, i + 2) = <<b>>
      /\ Some(vs, i + 1, i + 2) \in Seq(Pieces)
  <2>1. Len(vs) \in Nat  OBVIOUS
  <2> DEFINE j == i + 1
  <2>2. j \in Nat /\ j + 1 = i + 2 /\ j + 1 \in Nat /\ j <= j + 1
        /\ j + 1 <= Len(vs) /\ j < j + 1
    BY <1>1, <2>1
  <2> HIDE DEF j
  <2>3. vs[j + 1] \in Pieces /\ Some(vs, j, j + 1) = <<vs[j + 1]>>
        /\ Some(vs, j, j + 1) \in Seq(Pieces)
    BY <2>2, SomeSplit
  <2> QED BY <2>2, <2>3 DEF j
<1>4. Some(vs, i, i + 2) = Some(vs, i, i + 1) \o Some(vs, i + 1, i + 2)
  <2>1. Len(vs) \in Nat  OBVIOUS
  <2>2. /\ i + 1 \in Nat /\ i + 2 \in Nat /\ i <= i + 1 /\ i + 1 <= i + 2
        /\ i + 2 <= Len(vs)
    BY <1>1, <2>1
  <2> QED BY <2>2, SomeSplit
<1>5. Meants(Some(vs, i, i + 1)) = HeaderOf(s, m)
  BY <1>1, <1>2, MeantsOne DEF Meant, HeaderOf
<1>6. Meants(Some(vs, i + 1, i + 2)) = PayloadOf(s, m)
  BY <1>1, <1>3, MeantsOne DEF Meant, PayloadOf
<1>7. MessagesEnding(Some(vs, i, i + 1)) = << >>
  BY <1>1, <1>2, EndsOne DEF LastOfMessage
<1>8. MessagesEnding(Some(vs, i + 1, i + 2)) = Done(s, m)
  BY <1>1, <1>3, EndsOne DEF LastOfMessage, Done, Completes
<1>9. Meants(Some(vs, i, i + 2)) = Tokens(s, m)
  BY <1>2, <1>3, <1>4, <1>5, <1>6, MeantsConcat DEF Tokens
<1>10. MessagesEnding(Some(vs, i, i + 2)) = Done(s, m)
  <2>1. Done(s, m) \in Seq(Arriving)  BY <1>1, AfterOK
  <2>2. MessagesEnding(Some(vs, i, i + 2)) = << >> \o Done(s, m)
    BY <1>2, <1>3, <1>4, <1>7, <1>8, EndsConcat
  <2> QED BY <2>1, <2>2, JoinsDone
<1>11. m \in Said  BY <1>1 DEF MaySend
<1> QED BY <1>5, <1>6, <1>7, <1>8, <1>9, <1>10, <1>11 DEF s, m

(* What the chunks from the i-th iovec to the j-th carry.                  *)
Carried(vs, h, i, j) ==
    Carries(Meants(Some(vs, i, j)), StartOf(vs, h, i), StartOf(vs, h, j),
            MessagesEnding(Some(vs, i, j)))

(* A chain goes from place to place.                                       *)
LEMMA ChainStart ==
  ASSUME NEW vs, NEW h, Chain(vs, h), NEW i \in Nat, Even(i), i <= Len(vs)
  PROVE  StartOf(vs, h, i) \in Places
<1>1. vs \in Seq(Pieces) /\ h \in Places  BY DEF Chain
<1>2. Len(vs) \in Nat  BY <1>1
<1>3. CASE i < Len(vs)
  BY <1>3 DEF Chain, IsPair
<1>4. CASE i = Len(vs)
  BY <1>1, <1>2, <1>4 DEF StartOf
<1> QED BY <1>2, <1>3, <1>4

(* Chunk by chunk, by induction.                                           *)
LEMMA ChainCarries ==
  ASSUME NEW vs, NEW h, Chain(vs, h), NEW i \in Nat, Even(i),
         NEW j \in Nat, Even(j), i <= j, j <= Len(vs)
  PROVE  Carried(vs, h, i, j)
<1>1. vs \in Seq(Pieces) /\ h \in Places
      /\ \A n \in Nat : Even(n) /\ n < Len(vs) => IsPair(vs, h, n)
  BY DEF Chain
<1>2. Len(vs) \in Nat  BY <1>1
<1> DEFINE P == {q \in Nat : i <= 2 * q /\ 2 * q <= Len(vs) => Carried(vs, h, i, 2 * q)}
<1>3. PICK p \in Nat : i = 2 * p  BY DEF Even
<1>4. Carried(vs, h, i, i)
  <2>1. i <= Len(vs)  BY <1>2
  <2>2. Some(vs, i, i) = << >>  BY <1>1, <2>1, SomeSplit
  <2>3. Meants(<< >>) = << >>  BY FlattenEmpty DEF Meants
  <2>4. StartOf(vs, h, i) \in Places  BY <2>1, ChainStart
  <2> QED BY <2>2, <2>3, <2>4, CarriesNothing, EmptyOwed DEF Carried
<1>5. 0 \in P
  <2>1. ASSUME i <= 2 * 0 PROVE Carried(vs, h, i, 2 * 0)
    <3>1. i = 2 * 0  BY <2>1
    <3> QED BY <1>4, <3>1
  <2> QED BY <2>1
<1>6. ASSUME NEW q \in P PROVE q + 1 \in P
  <2>1. SUFFICES ASSUME i <= 2 * (q + 1), 2 * (q + 1) <= Len(vs)
                 PROVE  Carried(vs, h, i, 2 * (q + 1))
    OBVIOUS
  <2> DEFINE k == 2 * q
  <2>2. k \in Nat /\ k + 1 \in Nat /\ k + 2 \in Nat /\ 2 * (q + 1) = k + 2
        /\ k < Len(vs) /\ k + 2 <= Len(vs) /\ q \in Nat
    BY <1>2, <2>1
  <2>e. Even(k)  BY <2>2 DEF Even
  <2>i. i <= k => Carried(vs, h, i, k)  BY <1>2, <2>2
  <2> HIDE DEF k, P
  <2>3. CASE i = k + 2
    BY <1>4, <2>2, <2>3
  <2>4. CASE i <= k
    <3>1. Carried(vs, h, i, k)  BY <2>i, <2>4
    <3>2. IsPair(vs, h, k)  BY <1>1, <2>2, <2>e
    <3> DEFINE s == StartOf(vs, h, k)
               m == vs[k + 1].msg
    <3>3. /\ s \in Places /\ MaySend(s, m) /\ After(s, m) = StartOf(vs, h, k + 2)
      BY <3>2 DEF IsPair
    <3>4. /\ Meants(Some(vs, k, k + 2)) = Tokens(s, m)
          /\ MessagesEnding(Some(vs, k, k + 2)) = Done(s, m)
      BY <1>1, <2>2, <3>2, PairMeans
    <3>5. Some(vs, i, k + 2) = Some(vs, i, k) \o Some(vs, k, k + 2)
          /\ Some(vs, i, k) \in Seq(Pieces) /\ Some(vs, k, k + 2) \in Seq(Pieces)
      <4> DEFINE l == k + 2
      <4>1. l \in Nat /\ k <= l /\ l <= Len(vs)  BY <2>2
      <4> HIDE DEF l
      <4>2. Some(vs, i, l) = Some(vs, i, k) \o Some(vs, k, l)
            /\ Some(vs, i, k) \in Seq(Pieces) /\ Some(vs, k, l) \in Seq(Pieces)
        BY <1>1, <2>2, <2>4, <4>1, SomeSplit, SMTT(40)
      <4> QED BY <4>2 DEF l
    <3> HIDE DEF s, m
    <3>6. Carries(Tokens(s, m), s, After(s, m), Done(s, m))
      BY <3>3, CarriesOne
    <3>7. Carries(Meants(Some(vs, i, k)), StartOf(vs, h, i), s,
                  MessagesEnding(Some(vs, i, k)))
      BY <3>1 DEF Carried, s
    <3>8. Carries(Meants(Some(vs, i, k)) \o Tokens(s, m), StartOf(vs, h, i),
                  After(s, m), MessagesEnding(Some(vs, i, k)) \o Done(s, m))
      BY <3>6, <3>7, CarriesJoin
    <3>9. Meants(Some(vs, i, k + 2)) = Meants(Some(vs, i, k)) \o Tokens(s, m)
      BY <3>4, <3>5, MeantsConcat
    <3>10. MessagesEnding(Some(vs, i, k + 2))
             = MessagesEnding(Some(vs, i, k)) \o Done(s, m)
      BY <3>4, <3>5, EndsConcat
    <3> QED BY <2>2, <3>3, <3>8, <3>9, <3>10 DEF Carried
  <2>5. i = k + 2 \/ i <= k
    <3>1. i # k + 1  BY <2>2, <2>e, Parity
    <3> QED BY <2>1, <2>2, <3>1
  <2> QED BY <2>3, <2>4, <2>5
<1>7. P = Nat
  <2>1. P \in SUBSET Nat  OBVIOUS
  <2> HIDE DEF P
  <2> QED BY <1>5, <1>6, <2>1, Induction
<1>8. PICK q \in Nat : j = 2 * q  BY DEF Even
<1>9. q \in P  BY <1>7
<1> QED BY <1>8, <1>9

-----------------------------------------------------------------------------
(* The writer has written the first k of the iovecs.                       *)
SpotIn(vs, h, k) ==
    [ok |-> TRUE, mid |-> ~Even(k),
     at |-> StartOf(vs, h, IF Even(k) THEN k ELSE k - 1),
     msg |-> IF Even(k) THEN Nobody ELSE vs[k].msg]

(* Between two chunks, the next iovecs lead to where the writer then is.   *)
LEMMA EvenReaches ==
  ASSUME NEW vs, NEW h, Chain(vs, h), NEW i \in Nat, Even(i),
         NEW k \in Nat, i <= k, k <= Len(vs)
  PROVE  Reaches(Meants(Some(vs, i, k)), MessagesEnding(Some(vs, i, k)),
                 StartOf(vs, h, i), SpotIn(vs, h, k))
<1>1. vs \in Seq(Pieces) /\ h \in Places
      /\ \A n \in Nat : Even(n) /\ n < Len(vs) => IsPair(vs, h, n)
  BY DEF Chain
<1>2. Len(vs) \in Nat  BY <1>1
<1>3. CASE Even(k)
  <2>1. Carries(Meants(Some(vs, i, k)), StartOf(vs, h, i), StartOf(vs, h, k),
                MessagesEnding(Some(vs, i, k)))
    BY <1>3, ChainCarries DEF Carried
  <2>2. StartOf(vs, h, k) \in Places  BY <2>1 DEF Carries
  <2>3. IsAt(SpotIn(vs, h, k), StartOf(vs, h, k))
    BY <1>3 DEF IsAt, SpotIn
  <2> QED BY <2>1, <2>2, <2>3 DEF Reaches, ReachesEven
<1>4. CASE ~Even(k)
  <2> DEFINE l == k - 1
  <2>1. l \in Nat /\ Even(l) /\ i <= l /\ l < Len(vs) /\ l + 1 = k /\ l <= k
    <3>1. k > 0 /\ l \in Nat /\ Even(l)  BY <1>4, Parity
    <3>2. i # k  BY <1>4
    <3> QED BY <1>2, <3>1, <3>2
  <2> HIDE DEF l
  <2>2. IsPair(vs, h, l)  BY <1>1, <2>1
  <2> DEFINE s == StartOf(vs, h, l)
             m == vs[l + 1].msg
  <2>3. s \in Places /\ MaySend(s, m)  BY <2>2 DEF IsPair
  <2>4. /\ Meants(Some(vs, l, l + 1)) = HeaderOf(s, m)
        /\ MessagesEnding(Some(vs, l, l + 1)) = << >> /\ m \in Said
    BY <1>1, <2>1, <2>2, PairMeans
  <2>5. /\ Some(vs, i, k) = Some(vs, i, l) \o Some(vs, l, k)
        /\ Some(vs, i, l) \in Seq(Pieces) /\ Some(vs, l, k) \in Seq(Pieces)
    BY <1>1, <2>1, SomeSplit
  <2>6. Carries(Meants(Some(vs, i, l)), StartOf(vs, h, i), s,
                MessagesEnding(Some(vs, i, l)))
    <3>1. l <= Len(vs)  BY <1>2, <2>1
    <3> QED BY <2>1, <3>1, ChainCarries DEF Carried
  <2>7. IsWithin(SpotIn(vs, h, k), s, m)
    <3>1. SpotIn(vs, h, k).at = StartOf(vs, h, k - 1)
          /\ SpotIn(vs, h, k).mid = TRUE
          /\ SpotIn(vs, h, k).msg = vs[k].msg
      BY <1>4 DEF SpotIn
    <3>2. k - 1 = l  BY <2>1
    <3> QED BY <2>1, <3>1, <3>2 DEF IsWithin
  <2> HIDE DEF s, m
  <2>8. Meants(Some(vs, i, k)) = Meants(Some(vs, i, l)) \o HeaderOf(s, m)
    BY <2>1, <2>4, <2>5, MeantsConcat
  <2>9. MessagesEnding(Some(vs, i, k)) = MessagesEnding(Some(vs, i, l))
    <3>1. MessagesEnding(Some(vs, i, k))
             = MessagesEnding(Some(vs, i, l)) \o << >>
      BY <2>1, <2>4, <2>5, EndsConcat
    <3>2. MessagesEnding(Some(vs, i, l)) \in Seq(Arriving)
      BY <2>6 DEF Carries
    <3> QED BY <3>1, <3>2, JoinsDone
  <2>10. Meants(Some(vs, i, l)) \in Seq(Token)  BY <2>6 DEF Carries
  <2> QED BY <2>3, <2>4, <2>6, <2>7, <2>8, <2>9, <2>10
          DEF Reaches, ReachesMid
<1> QED BY <1>3, <1>4

(* Writing some of the iovecs moves the writer along their chunks.         *)
LEMMA ChainMoves ==
  ASSUME NEW vs, NEW h, Chain(vs, h), NEW i \in Nat, NEW k \in Nat,
         i < k, k <= Len(vs)
  PROVE  Moves(SpotIn(vs, h, i), SpotIn(vs, h, k), Meants(Some(vs, i, k)),
               MessagesEnding(Some(vs, i, k)))
<1>1. vs \in Seq(Pieces) /\ h \in Places
      /\ \A n \in Nat : Even(n) /\ n < Len(vs) => IsPair(vs, h, n)
  BY DEF Chain
<1>2. Len(vs) \in Nat  BY <1>1
<1> DEFINE p == SpotIn(vs, h, i)
           q == SpotIn(vs, h, k)
<1>3. p.ok = TRUE /\ q.ok = TRUE /\ p.mid = ~Even(i)
  BY DEF SpotIn
<1>4. CASE Even(i)
  <2>1. p.at = StartOf(vs, h, i)  BY <1>4 DEF SpotIn
  <2>2. Reaches(Meants(Some(vs, i, k)), MessagesEnding(Some(vs, i, k)),
                StartOf(vs, h, i), q)
    BY <1>2, <1>4, EvenReaches
  <2> HIDE DEF p, q
  <2> QED BY <1>3, <1>4, <2>1, <2>2 DEF Moves, GoesOn, p, q
<1>5. CASE ~Even(i)
  <2> DEFINE l == i - 1
  <2>1. l \in Nat /\ Even(l) /\ l < Len(vs) /\ l + 1 = i /\ l + 2 = i + 1
        /\ Even(i + 1) /\ i + 1 <= k /\ i <= i + 1
    <3>1. i > 0 /\ l \in Nat /\ Even(l) /\ Even(i + 1)  BY <1>5, Parity
    <3> QED BY <1>2, <3>1
  <2>2. p.at = StartOf(vs, h, l) /\ p.msg = vs[i].msg
    BY <1>5 DEF SpotIn
  <2> HIDE DEF l
  <2>3. IsPair(vs, h, l)  BY <1>1, <2>1
  <2> DEFINE s == StartOf(vs, h, l)
             m == vs[l + 1].msg
  <2>4. s \in Places /\ MaySend(s, m) /\ After(s, m) = StartOf(vs, h, l + 2)
    BY <2>3 DEF IsPair
  <2>5. /\ Meants(Some(vs, l + 1, l + 2)) = PayloadOf(s, m)
        /\ MessagesEnding(Some(vs, l + 1, l + 2)) = Done(s, m)
    BY <1>1, <2>1, <2>3, PairMeans
  <2> DEFINE y == Meants(Some(vs, i + 1, k))
             g == MessagesEnding(Some(vs, i + 1, k))
  <2>6. Reaches(y, g, StartOf(vs, h, i + 1), q)
    BY <1>2, <2>1, EvenReaches
  <2>7. y \in Seq(Token) /\ g \in Seq(Arriving)
    BY <2>6, ReachesType
  <2>8. /\ Some(vs, i, k) = Some(vs, i, i + 1) \o Some(vs, i + 1, k)
        /\ Some(vs, i, i + 1) \in Seq(Pieces) /\ Some(vs, i + 1, k) \in Seq(Pieces)
    <3> DEFINE j == i + 1
    <3>1. j \in Nat /\ i <= j /\ j <= k  BY <2>1
    <3>2. vs \in Seq(Pieces)  BY <1>1
    <3> HIDE DEF j, s, m, y, g, p, q
    <3>3. Some(vs, i, k) = Some(vs, i, j) \o Some(vs, j, k)
          /\ Some(vs, i, j) \in Seq(Pieces) /\ Some(vs, j, k) \in Seq(Pieces)
      BY <3>1, <3>2, SomeSplit, SMTT(40)
    <3> QED BY <3>3 DEF j
  <2>9. Meants(Some(vs, i, k)) = PayloadOf(s, m) \o y
    <3>1. Meants(Some(vs, i, k)) = Meants(Some(vs, i, i + 1)) \o y
      BY <2>8, MeantsConcat
    <3>2. Meants(Some(vs, i, i + 1)) = PayloadOf(s, m)
      BY <2>1, <2>5
    <3> HIDE DEF s, m, y
    <3> QED BY <3>1, <3>2
  <2>10. MessagesEnding(Some(vs, i, k)) = Done(s, m) \o g
    BY <2>1, <2>5, <2>8, EndsConcat, SMTT(40)
  <2>11. p.at = s /\ p.msg = m  BY <2>1, <2>2
  <2>12. Reaches(y, g, After(s, m), q)  BY <2>1, <2>4, <2>6
  <2> HIDE DEF p, q, s, m, y, g
  <2> QED BY <1>3, <1>5, <2>4, <2>7, <2>9, <2>10, <2>11, <2>12
          DEF Moves, Finishes, p, q
<1> QED BY <1>4, <1>5

(* No iovecs are a chain.                                                  *)
LEMMA ChainEmpty ==
  ASSUME NEW h \in Places
  PROVE  Chain(<< >>, h) /\ StartOf(<< >>, h, 0) = h
<1>1. << >> \in Seq(Pieces) /\ Len(<< >>) = 0  OBVIOUS
<1>2. Even(0)  BY Parity
<1>3. \A i \in Nat : ~(i < 0)  OBVIOUS
<1> QED BY <1>1, <1>2, <1>3 DEF Chain, StartOf

(* A chain grows by the two iovecs of a chunk.                             *)
LEMMA ChainGrows ==
  ASSUME NEW vs, NEW h, Chain(vs, h), NEW m \in Media, MaySend(h, m),
         NEW a \in Pieces, NEW b \in Pieces,
         a.header, a.msg = m, a.from = h.off,
         ~b.header, b.msg = m, b.from = h.off, b.len = Size(h, m)
  PROVE  /\ Chain(vs \o <<a, b>>, After(h, m))
         /\ StartOf(vs \o <<a, b>>, After(h, m), 0) = StartOf(vs, h, 0)
<1> DEFINE ws == vs \o <<a, b>>
           n == Len(vs)
           u == After(h, m)
<1>1. vs \in Seq(Pieces) /\ h \in Places /\ Even(n)
      /\ \A i \in Nat : Even(i) /\ i < n => IsPair(vs, h, i)
  BY DEF Chain
<1>2. u \in Places /\ u.size = h.size
  BY <1>1, AfterOK DEF Media
<1>3. n \in Nat  BY <1>1
<1>4. /\ ws \in Seq(Pieces) /\ Len(ws) = n + 2
      /\ \A i \in 1..n : ws[i] = vs[i]
      /\ ws[n + 1] = a /\ ws[n + 2] = b
  BY <1>1, JoinTwo
<1>5. Place(m, h.off, h.size) = h
  <2>1. h.off \in Nat /\ (h.off > 0 => m = h.msg) /\ (h.off = 0 => h.msg = Nobody)
        /\ h = [msg |-> h.msg, off |-> h.off, size |-> h.size]
    BY <1>1 DEF Places, MaySend
  <2> QED BY <2>1 DEF Place
<1> HIDE DEF ws, n, u
<1>6. ASSUME NEW i \in Nat, i <= n PROVE StartOf(ws, u, i) = StartOf(vs, h, i)
  <2>1. CASE i < n
    <3>1. ws[i + 1] = vs[i + 1] /\ i < Len(ws)  BY <1>3, <1>4, <2>1
    <3> QED BY <1>2, <2>1, <3>1 DEF StartOf, n
  <2>2. CASE i = n
    <3>1. StartOf(vs, h, i) = h  BY <1>3, <2>2 DEF StartOf, n
    <3>2. StartOf(ws, u, i) = Place(a.msg, a.from, u.size)
      BY <1>3, <1>4, <2>2 DEF StartOf
    <3> QED BY <1>2, <1>5, <3>1, <3>2
  <2> QED BY <1>3, <1>6, <2>1, <2>2
<1>7. StartOf(ws, u, n + 2) = u
  BY <1>3, <1>4 DEF StartOf
<1>8. ASSUME NEW i \in Nat, Even(i), i < Len(ws) PROVE IsPair(ws, u, i)
  <2>1. CASE i < n
    <3>1. IsPair(vs, h, i)  BY <1>1, <1>8, <2>1
    <3>2. i + 2 <= n  BY <3>1 DEF IsPair, n
    <3>3. ws[i + 1] = vs[i + 1] /\ ws[i + 2] = vs[i + 2] /\ i + 2 <= Len(ws)
      BY <1>3, <1>4, <3>2
    <3>4. StartOf(ws, u, i) = StartOf(vs, h, i)
          /\ StartOf(ws, u, i + 2) = StartOf(vs, h, i + 2)
      BY <1>3, <1>6, <3>2
    <3> QED BY <3>1, <3>3, <3>4 DEF IsPair
  <2>2. CASE i = n
    <3>1. StartOf(ws, u, i) = h
      BY <1>3, <1>6, <2>2 DEF StartOf, n
    <3>2. StartOf(ws, u, i + 2) = u  BY <1>7, <2>2
    <3>3. ws[i + 1] = a /\ ws[i + 2] = b /\ i + 2 <= Len(ws)
      BY <1>3, <1>4, <2>2
    <3> QED BY <1>1, <3>1, <3>2, <3>3 DEF IsPair, u
  <2>3. i # n + 1  BY <1>1, <1>3, <1>8, Parity
  <2> QED BY <1>3, <1>4, <1>8, <2>1, <2>2, <2>3
<1>9. Even(Len(ws))  BY <1>1, <1>3, <1>4, Parity
<1>10. Chain(ws, u)  BY <1>2, <1>4, <1>8, <1>9 DEF Chain
<1>11. StartOf(ws, u, 0) = StartOf(vs, h, 0)  BY <1>3, <1>6
<1> QED BY <1>10, <1>11 DEF ws, u

-----------------------------------------------------------------------------
(* The place behind all chunks that are gathered or written.               *)
Here == Place(Head(batch), off, out_chunk_size)

Batched == wpc \in {"gather", "write"}

(* What the writer has to say, and the chunks it has gathered.             *)
LInv ==
    /\ batch \in Seq(Said) /\ responses \in Seq(Said)
    /\ Batched => batch \in Seq(Media) /\ Chain(iovs, Here)
    /\ off > 0 => /\ wpc \in {"gather", "write", "packet"}
                  /\ batch # << >> /\ off < Head(batch).len
    /\ wpc = "write" => cur_iov < Len(iovs)

(* Where the writer is.                                                    *)
SpotAt(ok, h) == [ok |-> ok, mid |-> FALSE, at |-> h, msg |-> Nobody]

Spot == IF Batched THEN SpotIn(iovs, Here, cur_iov)
                   ELSE SpotAt(wstatus = "ok", Here)

(* Where the writer gathers or writes next is a place between two chunks.  *)
LEMMA HereIsPlace ==
  ASSUME WInv, LInv
  PROVE  Here \in Places
<1>1. off \in Nat /\ out_chunk_size \in Nat \ {0} /\ batch \in Seq(Said)
  BY DEF WInv, WriterTypeOK, LInv
<1>2. off > 0 => Head(batch) \in Said /\ off < Head(batch).len
  <2>1. off > 0 => batch # << >> /\ off < Head(batch).len
    BY DEF LInv
  <2> QED BY <1>1, <2>1
<1> QED BY <1>1, <1>2 DEF Here, Place, Places

(* Where the writer is on the line is one.                                 *)
LEMMA SpotOK ==
  ASSUME WInv, LInv
  PROVE  Spot \in Spots
<1>1. Here \in Places  BY HereIsPlace
<1>2. CASE ~Batched
  BY <1>1, <1>2 DEF Spot, SpotAt, Spots
<1>3. CASE Batched
  <2>1. Chain(iovs, Here) /\ cur_iov \in 0..Len(iovs) /\ cur_iov \in Nat
    BY <1>3 DEF LInv, WInv, WriterTypeOK
  <2>2. CASE Even(cur_iov)
    <3>1. StartOf(iovs, Here, cur_iov) \in Places
      BY <2>1, <2>2, ChainStart
    <3> QED BY <1>3, <2>2, <3>1 DEF Spot, SpotIn, Spots
  <2>3. CASE ~Even(cur_iov)
    <3> DEFINE i == cur_iov - 1
    <3>1. i \in Nat /\ Even(i) /\ i + 1 = cur_iov /\ i < Len(iovs) /\ i <= Len(iovs)
      <4>1. cur_iov > 0 /\ i \in Nat /\ Even(i)  BY <2>1, <2>3, Parity
      <4> QED BY <2>1, <4>1
    <3>2. StartOf(iovs, Here, i) \in Places
      BY <2>1, <3>1, ChainStart
    <3>3. iovs \in Seq(Pieces) /\ cur_iov \in 1..Len(iovs)
      BY <2>1, <3>1 DEF Chain
    <3>4. iovs[cur_iov] \in Pieces
      <4> HIDE DEF Pieces
      <4> QED BY <3>3
    <3>5. iovs[cur_iov].msg \in Said  BY <3>4 DEF Pieces, Media
    <3> QED BY <1>3, <2>3, <3>2, <3>5 DEF Spot, SpotIn, Spots
  <2> QED BY <2>2, <2>3
<1> QED BY <1>2, <1>3

(* What the steps of the writer are on the line.                           *)
OnTheLine ==
    \E w \in Seq(Token), f \in Seq(Arriving) :
        wire' = wire \o w /\ sent' = sent \o f /\ Moves(Spot, Spot', w, f)

(* A step that writes nothing, and moves the writer only by its failure.   *)
LEMMA PutOnTheLine ==
  ASSUME wire \in Seq(Token), sent \in Seq(Arriving), wire' = wire, sent' = sent,
         Spot'.ok => Spot.ok /\ Spot' = Spot
  PROVE  OnTheLine
<1>1. << >> \in Seq(Token) /\ << >> \in Seq(Arriving)  OBVIOUS
<1>2. wire \o << >> = wire /\ sent \o << >> = sent
  BY JoinsTokens, JoinsDone
<1>3. Rests(Spot, Spot', << >>, << >>)  BY DEF Rests
<1> QED BY <1>1, <1>2, <1>3 DEF OnTheLine, Moves

LineInv == /\ WInv /\ OrderInv /\ LInv
           /\ wire \in Seq(Token) /\ sent \in Seq(Arriving)

(* What the caller hands over may be said, media as media.                 *)
LEMMA NumberedSaid ==
  ASSUME NEW n \in Nat, NEW xs \in [1..n -> MsgPool \cup PktPool],
         sends \in Nat, sends + n <= MaxSends, NEW i \in 1..n
  PROVE  /\ Numbered(xs)[i] \in Said
         /\ xs[i] \in MsgPool => Numbered(xs)[i] \in Media
<1> DEFINE m == Numbered(xs)[i]
           x == xs[i]
<1>1. x \in MsgPool \cup PktPool  OBVIOUS
<1>2. x \in [cid : Nat, type : Nat, sid : Nat, ts : Nat, len : Nat, size : Nat]
  BY <1>1, PoolAssumption
<1>3. m = [cid |-> x.cid, type |-> x.type, sid |-> x.sid, ts |-> x.ts,
           len |-> x.len, size |-> x.size, id |-> sends + i]
  BY DEF Numbered
<1> HIDE DEF m, x
<1>4. /\ m.cid = x.cid /\ m.type = x.type /\ m.sid = x.sid /\ m.ts = x.ts
      /\ m.len = x.len /\ m.size = x.size /\ m.id = sends + i
  BY <1>3
<1>5. m \in Sendable
  BY <1>2, <1>3 DEF Sendable
<1>6. sends + i \in 1..MaxSends
  BY LinkAssumption
<1>7. x.cid \in Cids /\ x.type \in Types /\ x.sid \in StreamIds
  BY <1>1, LinkAssumption
<1>8. x.type = SetChunkSize =>
         x.size >= MinChunkSize /\ SizeIn[<<sends + i, 1, x.size>>] = x.size
  BY <1>1, <1>6, LinkAssumption
<1>9. m \in Said
  BY <1>1, <1>4, <1>5, <1>6, <1>7, <1>8 DEF Said
<1>10. x \in MsgPool => m \in Media
  BY <1>4, <1>9, LinkAssumption DEF Media
<1> QED BY <1>9, <1>10 DEF m, x

(* The stream id that the caller names is one that both ends use.          *)
LEMMA OnStreamMedia ==
  ASSUME NEW ms \in Seq(Media)
  PROVE  OnStream(ms) \in Seq(Media)
<1>1. \A m \in Media : [m EXCEPT !.sid = StreamId] \in Media
  <2> SUFFICES ASSUME NEW m \in Media
               PROVE  [m EXCEPT !.sid = StreamId] \in Media
    OBVIOUS
  <2> DEFINE k == [m EXCEPT !.sid = StreamId]
  <2>1. m \in Said /\ m \in Sendable /\ m.type # SetChunkSize
    BY DEF Media, Said
  <2>2. k \in Sendable /\ k.sid = StreamId /\ k.cid = m.cid /\ k.type = m.type
        /\ k.ts = m.ts /\ k.len = m.len /\ k.size = m.size /\ k.id = m.id
    BY <2>1, PoolAssumption DEF Sendable
  <2> HIDE DEF k
  <2>3. k \in Said
    BY <2>1, <2>2, LinkAssumption DEF Said
  <2> QED BY <2>1, <2>2, <2>3 DEF Media, k
<1>2. \A i \in DOMAIN ms : ms[i] \in Media
  <2> HIDE DEF Media
  <2> QED OBVIOUS
<1>3. DOMAIN ms = 1..Len(ms) /\ Len(ms) \in Nat
  OBVIOUS
<1>4. \A i \in 1..Len(ms) : OnStream(ms)[i] \in Media
  BY <1>1, <1>2, <1>3 DEF OnStream
<1>5. OnStream(ms) \in [1..Len(ms) -> Media]
  BY <1>3, <1>4 DEF OnStream
<1> HIDE DEF Media
<1> QED BY <1>3, <1>5

(* A packet that is handed over may be said, and is not empty.             *)
LEMMA PacketSaid ==
  ASSUME NEW x \in PktPool, sends \in Nat, sends + 1 <= MaxSends
  PROVE  Numbered(<<x>>)[1] \in Said /\ Numbered(<<x>>)[1].len > 0
<1> DEFINE xs == <<x>>
<1>1. xs \in [1..1 -> MsgPool \cup PktPool] /\ 1 \in 1..1 /\ 1 \in Nat
  OBVIOUS
<1> HIDE DEF xs
<1>2. Numbered(xs)[1] \in Said  BY <1>1, NumberedSaid
<1>3. Numbered(<<x>>)[1] \in Packets  BY PacketType
<1> QED BY <1>2, <1>3 DEF xs, Packets

(* The messages of a batch may be said, as media.                          *)
LEMMA NumberedMedia ==
  ASSUME NEW n \in Nat, NEW xs \in [1..n -> MsgPool],
         sends \in Nat, sends + n <= MaxSends
  PROVE  Numbered(xs) \in Seq(Media)
<1>1. xs \in [1..n -> MsgPool \cup PktPool] /\ DOMAIN xs = 1..n
  OBVIOUS
<1>2. \A i \in 1..n : Numbered(xs)[i] \in Media
  BY <1>1, NumberedSaid
<1>3. DOMAIN Numbered(xs) = 1..n
  BY <1>1 DEF Numbered
<1>4. Numbered(xs) \in [1..n -> Media]
  BY <1>2, <1>3 DEF Numbered
<1> HIDE DEF Media
<1> QED BY <1>4

(* Media may be said.                                                      *)
LEMMA MediaSaid ==
  ASSUME NEW ms \in Seq(Media)
  PROVE  ms \in Seq(Said)
<1>1. Media \subseteq Said  BY DEF Media
<1> HIDE DEF Media, Said
<1> QED BY <1>1

-----------------------------------------------------------------------------
(* What the steps of the writer do on the line.                            *)
LEMMA SendMessagesOnLine ==
  ASSUME LineInv, CallsSendMessages
  PROVE  LInv' /\ OnTheLine
<1>0. PICK n \in 1..MaxBatch : \E xs \in [1..n -> MsgPool] :
          SendMessages(Numbered(xs)) /\ Handed(n)
  BY DEF CallsSendMessages
<1>1. PICK xs \in [1..n -> MsgPool] :
          SendMessages(Numbered(xs)) /\ Handed(n)
  BY <1>0
<1>2. /\ wpc = "idle" /\ wstatus = "ok" /\ wstatus' = "ok"
      /\ batch' = OnStream(Numbered(xs)) /\ off' = 0
      /\ iovs' = << >> /\ cur_iov' = 0 /\ wpc' = "gather"
      /\ UNCHANGED <<out_chunk_size, responses, sent, wire>>
  BY <1>1 DEF SendMessages, CallsSendMessages
<1>3. batch' \in Seq(Media) /\ batch' \in Seq(Said)
  <2>1. n \in Nat /\ sends \in Nat /\ sends + n <= MaxSends
    BY <1>1, BatchAssumption DEF Handed, LineInv, WInv, WriterTypeOK
  <2>2. Numbered(xs) \in Seq(Media)  BY <2>1, NumberedMedia
  <2>3. OnStream(Numbered(xs)) \in Seq(Media)  BY <2>2, OnStreamMedia
  <2> QED BY <1>2, <2>3, MediaSaid
<1>4. off = 0
  BY <1>2 DEF LineInv, LInv, WInv, WriterTypeOK
<1>5. Here \in Places  BY HereIsPlace DEF LineInv
<1>6. Here' = Here
  BY <1>2, <1>4 DEF Here, Place
<1>7. Chain(<< >>, Here) /\ StartOf(<< >>, Here, 0) = Here
  BY <1>5, ChainEmpty
<1>8. Chain(iovs', Here')  BY <1>2, <1>6, <1>7
<1>9. LInv'
  <2>1. responses' \in Seq(Said)  BY <1>2 DEF LineInv, LInv
  <2> QED BY <1>2, <1>3, <1>8, <2>1 DEF LInv, Batched
<1>10. Spot' = Spot
  <2>1. Spot' = SpotIn(<< >>, Here, 0)
    BY <1>2, <1>6 DEF Spot, Batched
  <2>2. Spot = SpotAt(TRUE, Here)
    BY <1>2 DEF Spot, Batched
  <2>3. SpotIn(<< >>, Here, 0) = SpotAt(TRUE, Here)
    BY <1>7, Parity DEF SpotIn, SpotAt
  <2> QED BY <2>1, <2>2, <2>3
<1>11. Spot.ok
  BY <1>2 DEF Spot, Batched, SpotAt
<1>12. OnTheLine
  BY <1>2, <1>10, <1>11, PutOnTheLine DEF LineInv
<1> QED BY <1>9, <1>12

(* A packet or a response is next.                                         *)
LEMMA StartPacketOnLine ==
  ASSUME LineInv, wpc \in {"idle", "flush"}, wstatus = "ok",
         NEW x \in Said, x.len > 0, batch' = <<x>>, off' = 0, wpc' = "packet",
         responses' \in Seq(Said),
         UNCHANGED <<out_chunk_size, wstatus, sent, wire>>
  PROVE  LInv' /\ OnTheLine
<1>1. off = 0
  BY DEF LineInv, LInv, WInv, WriterTypeOK
<1>2. Here' = Here
  BY <1>1 DEF Here, Place
<1>3. batch' \in Seq(Said)
  <2> HIDE DEF Said
  <2> QED OBVIOUS
<1>4. LInv'
  BY <1>3 DEF LInv, Batched
<1>5. Spot' = Spot /\ Spot.ok
  BY <1>2 DEF Spot, Batched, SpotAt
<1>6. OnTheLine
  BY <1>5, PutOnTheLine DEF LineInv
<1> QED BY <1>4, <1>6

(* The caller sends a packet.                                              *)
LEMMA SendPacketOnLine ==
  ASSUME LineInv, CallsSendPacket
  PROVE  LInv' /\ OnTheLine
<1>1. PICK x \in PktPool : SendPacket(Numbered(<<x>>)[1]) /\ Handed(1)
  BY DEF CallsSendPacket
<1>2. sends \in Nat /\ sends + 1 <= MaxSends
  BY <1>1 DEF Handed, LineInv, WInv, WriterTypeOK
<1>3. Numbered(<<x>>)[1] \in Said /\ Numbered(<<x>>)[1].len > 0
  BY <1>2, PacketSaid
<1>4. responses \in Seq(Said)  BY DEF LineInv, LInv
<1> QED BY <1>1, <1>3, <1>4, StartPacketOnLine DEF SendPacket, CallsSendPacket

(* A response is queued: nothing changes on the line.                      *)
LEMMA QueuesOnLine ==
  ASSUME LineInv, Queues
  PROVE  LInv' /\ OnTheLine
<1>1. PICK x \in PktPool : QueueResponse(Numbered(<<x>>)[1]) /\ Handed(1)
  BY DEF Queues
<1>2. sends \in Nat /\ sends + 1 <= MaxSends
  BY <1>1 DEF Handed, LineInv, WInv, WriterTypeOK
<1>3. Numbered(<<x>>)[1] \in Said  BY <1>2, PacketSaid
<1>4. /\ wpc = "idle" /\ responses' = Append(responses, Numbered(<<x>>)[1])
      /\ UNCHANGED <<out_chunk_size, batch, off, iovs, cur_iov, wpc, wstatus,
                     sent, wire>>
  BY <1>1 DEF QueueResponse
<1>5. responses' \in Seq(Said)
  <2>1. responses \in Seq(Said)  BY DEF LineInv, LInv
  <2> HIDE DEF Said
  <2> QED BY <1>3, <1>4, <2>1
<1>6. Here' = Here  BY <1>4 DEF Here
<1>7. LInv'  BY <1>4, <1>5, <1>6 DEF LineInv, LInv, Batched
<1>8. Spot' = Spot  BY <1>4, <1>6 DEF Spot, Batched, SpotAt
<1>9. OnTheLine  BY <1>4, <1>8, PutOnTheLine DEF LineInv
<1> QED BY <1>7, <1>9

(* The next response is sent.                                              *)
LEMMA FlushNextOnLine ==
  ASSUME LineInv, FlushNext
  PROVE  LInv' /\ OnTheLine
<1>1. /\ wpc = "flush" /\ responses # << >>
      /\ batch' = <<Head(responses)>> /\ off' = 0
      /\ responses' = Tail(responses) /\ wpc' = "packet"
      /\ UNCHANGED <<out_chunk_size, wstatus, sent, wire>>
  BY DEF FlushNext, Erased
<1>2. responses \in Seq(Said) /\ responses \in Seq(Packets)
  BY DEF LineInv, LInv, WInv, WriterTypeOK
<1>3. Head(responses) \in Said /\ Tail(responses) \in Seq(Said)
  <2> HIDE DEF Said
  <2> QED BY <1>1, <1>2
<1>4. Head(responses).len > 0
  <2>1. Head(responses) \in Packets
    <3> HIDE DEF Packets
    <3> QED BY <1>1, <1>2
  <2> QED BY <2>1 DEF Packets
<1>5. wstatus = "ok"
  BY <1>1 DEF LineInv, OrderInv, WInv, WriterTypeOK
<1> QED BY <1>1, <1>3, <1>4, <1>5, StartPacketOnLine

(* No response is left to be sent.                                         *)
LEMMA FlushedOnLine ==
  ASSUME LineInv, Flushed
  PROVE  LInv' /\ OnTheLine
<1>1. /\ wpc = "flush" /\ wpc' = "idle"
      /\ UNCHANGED <<out_chunk_size, batch, off, iovs, cur_iov, responses,
                     wstatus, sent, wire>>
  BY DEF Flushed
<1>2. Here' = Here  BY <1>1 DEF Here
<1>3. LInv'  BY <1>1, <1>2 DEF LineInv, LInv, Batched
<1>4. Spot' = Spot  BY <1>1, <1>2 DEF Spot, Batched
<1>5. Spot.ok
  BY <1>1 DEF Spot, Batched, SpotAt, LineInv, OrderInv, WInv, WriterTypeOK
<1> QED BY <1>1, <1>3, <1>4, <1>5, PutOnTheLine DEF LineInv

(* A writer that failed is nowhere on the line.                            *)
LEMMA WriteFailsOnLine ==
  ASSUME LineInv, WriteFails
  PROVE  LInv' /\ OnTheLine
<1>1. /\ wpc' = "idle" /\ wstatus' = "failed" /\ batch' = << >> /\ off' = 0
      /\ UNCHANGED <<responses, sent, wire>>
  BY DEF WriteFails
<1>2. batch' \in Seq(Said)  BY <1>1
<1>3. LInv'  BY <1>1, <1>2 DEF LineInv, LInv, Batched
<1>4. ~Spot'.ok  BY <1>1 DEF Spot, Batched, SpotAt
<1> QED BY <1>1, <1>3, <1>4, PutOnTheLine DEF LineInv

(* A chunk gathered extends the chain.                                     *)
LEMMA GatherChunkOnLine ==
  ASSUME LineInv, GatherChunk
  PROVE  LInv' /\ OnTheLine
<1> DEFINE m == Head(batch)
           nbh == HeaderSize(m, off = 0)
           n == ChunkPayload(m, off)
           last == off + n = m.len
           a == [header |-> TRUE, base |-> cache_index, len |-> nbh,
                 msg |-> m, from |-> off]
           b == [header |-> FALSE, base |-> off, len |-> n,
                 msg |-> m, from |-> off]
           h == Here
<1>1. /\ wpc = "gather" /\ batch # << >> /\ NotEmpty(m)
      /\ iovs' = iovs \o <<a, b>>
      /\ batch' = (IF last THEN Tail(batch) ELSE batch)
      /\ off' = (IF last THEN 0 ELSE off + n)
      /\ wpc' \in {"write", "gather"}
      /\ UNCHANGED <<out_chunk_size, cur_iov, responses, wstatus, sent, wire>>
  BY DEF GatherChunk
<1>2. /\ batch \in Seq(Media) /\ batch \in Seq(Said) /\ Chain(iovs, h)
      /\ off \in Nat /\ cache_index \in Nat /\ out_chunk_size \in Nat \ {0}
      /\ cur_iov = 0 /\ responses \in Seq(Said)
      /\ (off > 0 => off < m.len)
  BY <1>1 DEF LineInv, LInv, OrderInv, WInv, WriterTypeOK, Batched
<1>3. m \in Media /\ m \in Said /\ m \in Sendable /\ m.len \in Nat /\ m.len > 0
  <2>1. m \in Media
    <3> HIDE DEF Media
    <3> QED BY <1>1, <1>2
  <2> QED BY <1>1, <2>1 DEF Media, Said, Sendable, NotEmpty
<1>4. /\ h \in Places /\ h.off = off /\ h.size = out_chunk_size
      /\ h = Place(m, off, out_chunk_size)
      /\ (off > 0 => h.msg = m)
  <2>1. h \in Places  BY HereIsPlace DEF LineInv
  <2> QED BY <2>1, <1>2 DEF Here, Place
<1>5. MaySend(h, m)
  BY <1>2, <1>3, <1>4 DEF MaySend
<1> HIDE DEF h
<1>6. n = Size(h, m) /\ n \in Nat /\ n > 0 /\ off + n <= m.len
  <2>1. n = Size(h, m)
    BY <1>4 DEF ChunkPayload, Size
  <2> HIDE DEF n
  <2> QED BY <1>4, <1>5, <2>1, SizeIsSome
<1>7. last <=> Completes(h, m)
  BY <1>4, <1>6 DEF Completes
<1>8. nbh \in Nat
  BY HeaderFits
<1>9. a \in Pieces /\ b \in Pieces
  <2> HIDE DEF m, n, nbh
  <2> QED BY <1>2, <1>3, <1>6, <1>8 DEF Pieces, Iovec
<1>10. /\ a.header /\ a.msg = m /\ a.from = h.off
       /\ ~b.header /\ b.msg = m /\ b.from = h.off /\ b.len = Size(h, m)
  <2> HIDE DEF m, n, nbh
  <2> QED BY <1>4, <1>6
<1> HIDE DEF a, b
<1>11. /\ Chain(iovs', After(h, m))
       /\ StartOf(iovs', After(h, m), 0) = StartOf(iovs, h, 0)
  BY <1>1, <1>2, <1>3, <1>5, <1>9, <1>10, ChainGrows
<1>12. Here' = After(h, m)
  <2>1. m.type # SetChunkSize  BY <1>3 DEF Media
  <2>2. CASE last
    <3>1. After(h, m) = Place(Nobody, 0, out_chunk_size)
      BY <1>4, <1>7, <2>1, <2>2 DEF After
    <3>2. off' = 0 /\ out_chunk_size' = out_chunk_size
      BY <1>1, <2>2
    <3> QED BY <3>1, <3>2 DEF Here, Place
  <2>3. CASE ~last
    <3>1. After(h, m) = Place(m, off + n, out_chunk_size)
      BY <1>4, <1>6, <1>7, <2>3 DEF After
    <3>2. off' = off + n /\ batch' = batch /\ out_chunk_size' = out_chunk_size
      BY <1>1, <2>3
    <3> QED BY <3>1, <3>2 DEF Here
  <2> QED BY <2>2, <2>3
<1>13. batch' \in Seq(Media) /\ batch' \in Seq(Said)
  <2>1. batch' \in Seq(Media)
    <3> HIDE DEF Media, last
    <3> QED BY <1>1, <1>2
  <2> QED BY <2>1, MediaSaid
<1>14. off' > 0 => batch' # << >> /\ off' < Head(batch').len
  BY <1>1, <1>3, <1>6
<1>15. Len(iovs') > 0 /\ cur_iov' = 0
  <2>1. iovs \in Seq(Pieces)  BY <1>2 DEF Chain
  <2>2. Len(iovs') = Len(iovs) + 2  BY <1>1, <1>9, <2>1, JoinTwo
  <2>3. Len(iovs) \in Nat  BY <2>1
  <2> QED BY <1>1, <1>2, <2>2, <2>3
<1>16. LInv'
  BY <1>1, <1>2, <1>11, <1>12, <1>13, <1>14, <1>15 DEF LInv, Batched
<1>17. Spot' = Spot /\ Spot.ok
  <2>1. Spot' = SpotIn(iovs', After(h, m), 0)
    BY <1>1, <1>12, <1>15 DEF Spot, Batched
  <2>2. Spot = SpotIn(iovs, h, 0)
    BY <1>1, <1>2 DEF Spot, Batched, h
  <2>3. Even(0)  BY Parity
  <2> QED BY <1>11, <2>1, <2>2, <2>3 DEF SpotIn
<1>18. OnTheLine
  BY <1>1, <1>17, PutOnTheLine DEF LineInv
<1> QED BY <1>16, <1>18

(* An empty message is never begun.                                        *)
LEMMA SkipEmptyOnLine ==
  ASSUME LineInv, SkipEmpty
  PROVE  LInv' /\ OnTheLine
<1>1. /\ wpc = "gather" /\ wpc' = "gather" /\ batch # << >>
      /\ ~NotEmpty(Head(batch)) /\ batch' = Tail(batch)
      /\ UNCHANGED <<out_chunk_size, off, iovs, cur_iov, responses, wstatus,
                     sent, wire>>
  BY DEF SkipEmpty
<1>2. /\ batch \in Seq(Media) /\ off \in Nat /\ responses \in Seq(Said)
      /\ Chain(iovs, Here) /\ (off > 0 => off < Head(batch).len)
  BY <1>1 DEF LineInv, LInv, WInv, WriterTypeOK, Batched
<1>3. Head(batch).len \in Nat
  <2>1. Head(batch) \in Media
    <3> HIDE DEF Media
    <3> QED BY <1>1, <1>2
  <2> QED BY <2>1 DEF Media, Said, Sendable
<1>4. off = 0
  BY <1>1, <1>2, <1>3 DEF NotEmpty
<1>5. Here' = Here
  BY <1>1, <1>4 DEF Here, Place
<1>6. batch' \in Seq(Media) /\ batch' \in Seq(Said)
  <2>1. batch' \in Seq(Media)
    <3> HIDE DEF Media
    <3> QED BY <1>1, <1>2
  <2> QED BY <2>1, MediaSaid
<1>7. LInv'
  BY <1>1, <1>2, <1>4, <1>5, <1>6 DEF LInv, Batched
<1>8. Spot' = Spot /\ Spot.ok
  BY <1>1, <1>5 DEF Spot, Batched, SpotIn
<1> QED BY <1>1, <1>7, <1>8, PutOnTheLine DEF LineInv

(* The last message of a batch is gathered.                                *)
LEMMA GatheredOnLine ==
  ASSUME LineInv, Gathered
  PROVE  LInv' /\ OnTheLine
<1>1. /\ wpc = "gather" /\ batch = << >>
      /\ wpc' = (IF iovs = << >> THEN "flush" ELSE "write")
      /\ UNCHANGED <<out_chunk_size, batch, off, iovs, cur_iov, responses,
                     wstatus, sent, wire>>
  BY DEF Gathered
<1>2. /\ off = 0 /\ cur_iov = 0 /\ Chain(iovs, Here) /\ batch \in Seq(Media)
      /\ batch \in Seq(Said) /\ responses \in Seq(Said) /\ wstatus = "ok"
  BY <1>1 DEF LineInv, LInv, OrderInv, WInv, WriterTypeOK, Batched
<1>3. Here' = Here
  BY <1>1 DEF Here
<1>4. iovs # << >> => cur_iov < Len(iovs)
  <2>1. iovs \in Seq(Pieces)  BY <1>2 DEF Chain
  <2> QED BY <1>2, <2>1
<1>5. LInv'
  BY <1>1, <1>2, <1>3, <1>4 DEF LInv, Batched
<1>6. Spot' = Spot /\ Spot.ok
  <2>1. Spot = SpotIn(iovs, Here, 0)
    BY <1>1, <1>2 DEF Spot, Batched
  <2>2. CASE iovs = << >>
    <3>1. Here \in Places  BY HereIsPlace DEF LineInv
    <3>2. StartOf(iovs, Here, 0) = Here  BY <2>2, <3>1, ChainEmpty
    <3>3. SpotIn(iovs, Here, 0) = SpotAt(TRUE, Here)
      BY <3>2, Parity DEF SpotIn, SpotAt
    <3>4. Spot' = SpotAt(TRUE, Here)
      BY <1>1, <1>2, <1>3, <2>2 DEF Spot, Batched
    <3> QED BY <2>1, <3>3, <3>4 DEF SpotAt
  <2>3. CASE iovs # << >>
    <3>1. Spot' = SpotIn(iovs, Here, 0)
      BY <1>1, <1>2, <1>3, <2>3 DEF Spot, Batched
    <3> QED BY <2>1, <3>1 DEF SpotIn
  <2> QED BY <2>2, <2>3
<1> QED BY <1>1, <1>5, <1>6, PutOnTheLine DEF LineInv

(* Some of the iovecs are written.                                         *)
LEMMA WriteIovsOnLine ==
  ASSUME LineInv, WriteIovs, ~ShortWrites
  PROVE  LInv' /\ OnTheLine
<1> DEFINE i == cur_iov
           k == cur_iov + WriteCount
           n == Len(iovs)
           w == Meants(Some(iovs, i, k))
           f == MessagesEnding(Some(iovs, i, k))
<1>1. /\ wpc = "write"
      /\ UNCHANGED <<out_chunk_size, batch, off, responses, wstatus>>
  BY DEF WriteIovs
<1>2. /\ Chain(iovs, Here) /\ iovs \in Seq(Pieces) /\ i < n /\ i \in Nat
      /\ n \in Nat /\ Even(n) /\ batch \in Seq(Media) /\ batch \in Seq(Said)
      /\ responses \in Seq(Said)
      /\ (off > 0 => batch # << >> /\ off < Head(batch).len) /\ off \in Nat
  <2>1. Chain(iovs, Here) /\ i < n /\ i \in Nat
    BY <1>1 DEF LineInv, LInv, WInv, WriterTypeOK, Batched
  <2>2. iovs \in Seq(Pieces) /\ Even(n)  BY <2>1 DEF Chain
  <2> QED BY <1>1, <2>1, <2>2 DEF LineInv, LInv, WInv, WriterTypeOK, Batched
<1>3. k \in Nat /\ i < k /\ k <= n
  <2>1. WriteCount \in Nat /\ WriteCount > 0 /\ i + WriteCount <= n
    <3>1. CASE Len(iovs) < IovLimit
      <4>1. WriteCount = n  BY <3>1 DEF WriteCount
      <4>2. i = 0
        BY <1>1, <3>1, IovAssumption, <1>2 DEF LineInv, OrderInv
      <4> QED BY <1>2, <4>1, <4>2
    <3>2. CASE ~(Len(iovs) < IovLimit)
      <4>1. WriteCount = Least(IovLimit, n - i)  BY <3>2 DEF WriteCount
      <4> QED BY <1>2, <4>1, IovAssumption DEF Least
    <3> QED BY <3>1, <3>2
  <2> QED BY <1>2, <2>1
<1>4. Pointeds(WrittenIovs) = w
  BY <1>1, <1>2, <1>3, PointedsMeants DEF LineInv, Some, WrittenIovs
<1>5. wire' = wire \o w /\ sent' = sent \o f
  <2>1. /\ \E tokens \in Accepted(Pointeds(WrittenIovs)) : wire' = wire \o tokens
        /\ sent' = sent \o MessagesEnding(WrittenIovs)
    BY DEF WriteIovs
  <2>2. Accepted(Pointeds(WrittenIovs)) = {Pointeds(WrittenIovs)}
    BY DEF Accepted
  <2>3. WrittenIovs = Some(iovs, i, k)  BY DEF WrittenIovs, Some
  <2> QED BY <1>4, <2>1, <2>2, <2>3
<1>6. Moves(SpotIn(iovs, Here, i), SpotIn(iovs, Here, k), w, f)
  BY <1>2, <1>3, ChainMoves
<1>7. Spot = SpotIn(iovs, Here, i)
  BY <1>1 DEF Spot, Batched
<1>8. Here' = Here
  BY <1>1 DEF Here
<1>9. w \in Seq(Token) /\ f \in Seq(Arriving)
  <2>1. Spot \in Spots  BY SpotOK DEF LineInv
  <2> HIDE DEF w, f, i, k
  <2> QED BY <1>6, <1>7, <2>1, MovesType
<1>10. CASE k < n
  <2>1. cur_iov' = k /\ iovs' = iovs /\ wpc' = "write"
    BY <1>1, <1>10 DEF WriteIovs
  <2>2. LInv'
    BY <1>1, <1>2, <1>8, <1>10, <2>1 DEF LInv, Batched
  <2>3. Spot' = SpotIn(iovs, Here, k)
    BY <1>8, <2>1 DEF Spot, Batched
  <2> HIDE DEF w, f, i, k
  <2>4. Moves(Spot, Spot', w, f)  BY <1>6, <1>7, <2>3
  <2> QED BY <1>5, <1>9, <2>2, <2>4 DEF OnTheLine
<1>11. CASE ~(k < n)
  <2>1. iovs' = << >> /\ cur_iov' = 0
        /\ wpc' = (IF batch = << >> THEN "flush" ELSE "gather")
    BY <1>11 DEF WriteIovs, ResetCaches
  <2>2. k = n  BY <1>2, <1>3, <1>11
  <2>3. Here \in Places  BY HereIsPlace DEF LineInv
  <2>4. Chain(<< >>, Here) /\ StartOf(<< >>, Here, 0) = Here
    BY <2>3, ChainEmpty
  <2>5. LInv'
    <3>1. Chain(iovs', Here')  BY <1>8, <2>1, <2>4
    <3>2. off' > 0 => batch' # << >> /\ off' < Head(batch').len
                      /\ wpc' = "gather"
      BY <1>1, <1>2, <2>1
    <3>3. wpc' \in {"flush", "gather"}  BY <2>1
    <3> QED BY <1>1, <1>2, <3>1, <3>2, <3>3 DEF LInv, Batched
  <2>6. SpotIn(iovs, Here, k) = SpotAt(TRUE, Here)
    <3>1. StartOf(iovs, Here, n) = Here  BY <1>2 DEF StartOf
    <3> HIDE DEF k
    <3> QED BY <1>2, <2>2, <3>1 DEF SpotIn, SpotAt
  <2>7. Spot' = SpotAt(TRUE, Here)
    <3>1. CASE batch = << >>
      <4>1. wpc' = "flush"  BY <2>1, <3>1
      <4>2. wstatus = "ok"
        BY <1>1 DEF LineInv, OrderInv, WInv, WriterTypeOK
      <4> QED BY <1>1, <1>8, <4>1, <4>2 DEF Spot, Batched
    <3>2. CASE batch # << >>
      <4>1. wpc' = "gather"  BY <2>1, <3>2
      <4>2. Spot' = SpotIn(<< >>, Here, 0)
        BY <1>8, <2>1, <4>1 DEF Spot, Batched
      <4> QED BY <2>4, <4>2, Parity DEF SpotIn, SpotAt
    <3> QED BY <3>1, <3>2
  <2> HIDE DEF w, f, i, k
  <2>8. Moves(Spot, Spot', w, f)  BY <1>6, <1>7, <2>6, <2>7
  <2> QED BY <1>5, <1>9, <2>5, <2>8 DEF OnTheLine
<1> QED BY <1>10, <1>11

(* A chunk of a packet is written.                                         *)
LEMMA WritePacketOnLine ==
  ASSUME LineInv, WritePacketChunk, ~ShortWrites
  PROVE  LInv' /\ OnTheLine
<1> DEFINE m == Head(batch)
           n == ChunkPayload(m, off)
           last == off + n = m.len
           h == Here
           w == ChunkHeader(m, off = 0) \o WordTokens(m, off, n)
<1>1. /\ wpc = "packet"
      /\ sent' = (IF last THEN Append(sent, Whole(m)) ELSE sent)
      /\ off' = (IF last THEN 0 ELSE off + n)
      /\ batch' = (IF last THEN << >> ELSE batch)
      /\ out_chunk_size' = (IF last THEN ChunkSizeSent(m) ELSE out_chunk_size)
      /\ wpc' = (IF last THEN "flush" ELSE "packet")
      /\ UNCHANGED <<responses, wstatus>>
  BY DEF WritePacketChunk
<1>2. wire' = wire \o w
  <2>1. \E tokens \in Accepted(w) : wire' = wire \o tokens
    BY DEF WritePacketChunk
  <2>2. Accepted(w) = {w}  BY DEF Accepted
  <2> QED BY <2>1, <2>2
<1>3. /\ batch \in Seq(Said) /\ batch # << >> /\ batch \in Seq(Packets)
      /\ off \in Nat /\ out_chunk_size \in Nat \ {0}
      /\ responses \in Seq(Said) /\ wstatus = "ok" /\ (off > 0 => off < m.len)
  BY <1>1 DEF LineInv, LInv, OrderInv, WInv, WriterTypeOK, Progress
<1>4. m \in Said /\ m \in Sendable /\ m.len \in Nat /\ m.len > 0
  <2>1. m \in Said /\ m \in Packets
    <3> HIDE DEF Said, Packets
    <3> QED BY <1>3
  <2> QED BY <2>1 DEF Said, Packets, Sendable
<1>5. /\ h \in Places /\ h.off = off /\ h.size = out_chunk_size
      /\ (off > 0 => h.msg = m)
  <2>1. h \in Places  BY HereIsPlace DEF LineInv
  <2> QED BY <2>1, <1>3 DEF Here, Place
<1>6. MaySend(h, m)
  BY <1>3, <1>4, <1>5 DEF MaySend
<1> HIDE DEF h
<1>7. n = Size(h, m) /\ n \in Nat /\ n > 0 /\ off + n <= m.len
  <2>1. n = Size(h, m)
    BY <1>5 DEF ChunkPayload, Size
  <2> HIDE DEF n
  <2> QED BY <1>5, <1>6, <2>1, SizeIsSome
<1>8. last <=> Completes(h, m)
  BY <1>5, <1>7 DEF Completes
<1>9. w = Tokens(h, m)
  BY <1>5, <1>7 DEF Tokens, HeaderOf, PayloadOf
<1>10. sent' = sent \o Done(h, m)
  <2>1. sent \in Seq(Arriving) /\ Whole(m) \in Arriving
    BY <1>4 DEF LineInv, Arriving
  <2>2. CASE last
    <3>1. Append(sent, Whole(m)) = sent \o <<Whole(m)>>
      <4> HIDE DEF Arriving, m
      <4> QED BY <2>1, AppendIsConcat
    <3> QED BY <1>1, <1>8, <2>2, <3>1 DEF Done
  <2>3. CASE ~last
    <3>1. sent \o << >> = sent  BY <2>1, JoinsDone
    <3> QED BY <1>1, <1>8, <2>3, <3>1 DEF Done
  <2> QED BY <2>2, <2>3
<1>11. Here' = After(h, m)
  <2>2. CASE last
    <3>1. After(h, m) = Place(Nobody, 0, ChunkSizeSent(m))
      BY <1>5, <1>8, <2>2 DEF After, ChunkSizeSent
    <3>2. off' = 0 /\ out_chunk_size' = ChunkSizeSent(m)
      BY <1>1, <2>2
    <3> QED BY <3>1, <3>2 DEF Here, Place
  <2>3. CASE ~last
    <3>1. After(h, m) = Place(m, off + n, out_chunk_size)
      BY <1>5, <1>7, <1>8, <2>3 DEF After
    <3>2. off' = off + n /\ batch' = batch /\ out_chunk_size' = out_chunk_size
      BY <1>1, <2>3
    <3> QED BY <3>1, <3>2 DEF Here
  <2> QED BY <2>2, <2>3
<1>12. LInv'
  <2>1. batch' \in Seq(Said)
    <3> HIDE DEF Said, last
    <3> QED BY <1>1, <1>3
  <2>2. off' > 0 => batch' # << >> /\ off' < Head(batch').len /\ wpc' = "packet"
    BY <1>1, <1>3, <1>4, <1>7
  <2>3. wpc' \in {"flush", "packet"}  BY <1>1
  <2> QED BY <1>1, <1>3, <2>1, <2>2, <2>3 DEF LInv, Batched
<1>13. Spot = SpotAt(TRUE, h)
  BY <1>1, <1>3 DEF Spot, Batched, h
<1>14. Spot' = SpotAt(TRUE, After(h, m))
  <2>1. wpc' \in {"flush", "packet"}  BY <1>1
  <2> QED BY <1>1, <1>3, <1>11, <2>1 DEF Spot, Batched
<1>15. Carries(Tokens(h, m), h, After(h, m), Done(h, m))
  BY <1>5, <1>6, CarriesOne
<1> DEFINE q == SpotAt(TRUE, After(h, m))
           p == SpotAt(TRUE, h)
<1>16. Reaches(Tokens(h, m), Done(h, m), h, q)
  <2>1. After(h, m) \in Places  BY <1>5, <1>6, AfterOK
  <2>2. IsAt(q, After(h, m))  BY DEF IsAt, SpotAt
  <2> HIDE DEF q
  <2> QED BY <1>15, <2>1, <2>2 DEF Reaches, ReachesEven
<1>17. Moves(p, q, Tokens(h, m), Done(h, m))
  <2>1. p.ok /\ q.ok /\ ~p.mid /\ p.at = h  BY DEF SpotAt
  <2> HIDE DEF p, q
  <2> QED BY <1>16, <2>1 DEF Moves, GoesOn
<1>18. Tokens(h, m) \in Seq(Token) /\ Done(h, m) \in Seq(Arriving)
  BY <1>5, <1>6, ChunkType, AfterOK
<1> HIDE DEF w, m
<1>19. Moves(Spot, Spot', w, Done(h, m))
  BY <1>9, <1>13, <1>14, <1>17
<1> QED BY <1>2, <1>9, <1>10, <1>12, <1>18, <1>19 DEF OnTheLine

(* A timestamp that is masked stays what it is.                            *)
LEMMA MaskedOnce ==
  ASSUME NEW t \in Nat
  PROVE  t % TMod \in Nat /\ (t % TMod) % TMod = t % TMod
<1>1. TMod \in Nat \ {0}  BY TimeAssumption
<1> DEFINE b == t % TMod
<1>2. b \in Nat /\ b < TMod  BY <1>1
<1> HIDE DEF b
<1> DEFINE q == b \div TMod
           r == b % TMod
<1>3. q \in Nat /\ r \in Nat /\ r < TMod /\ b = TMod * q + r  BY <1>1, <1>2
<1> HIDE DEF q, r
<1>4. q = 0
  <2>1. ASSUME q >= 1 PROVE FALSE
    <3>1. TMod * q >= TMod * 1  BY <1>1, <1>3, <2>1
    <3> QED BY <1>1, <1>2, <1>3, <3>1
  <2> QED BY <1>3, <2>1
<1>5. r = b  BY <1>1, <1>2, <1>3, <1>4
<1> QED BY <1>2, <1>5 DEF b, r

-----------------------------------------------------------------------------
(* Where the reader is: what it holds of a chunk stream is what was        *)
(* written over it.                                                        *)
ChunkRecord ==
    [msg : BOOLEAN, body : Seq(WordSet), alloc : Nat, used : BOOLEAN,
     ts : Nat, delta : Nat, ext : BOOLEAN,
     len : Nat, type : Types \cup {0}, sid : StreamIds]

Sofar(m, o) == [i \in 1..o |-> WordAt(m, i)]

Free(ch) == ch.msg = FALSE /\ ch.body = << >>
Begun(ch, m, o) == ch.msg = TRUE /\ ch.body = Sofar(m, o)
Told(ch, m) ==
    ch.ext = IsLong(m) /\ ch.len = m.len /\ ch.type = m.type /\ ch.sid = m.sid
Holding(ch, m, o) ==
    Begun(ch, m, o) /\ Told(ch, m) /\ ch.used = TRUE /\ ch.ts = m.ts % TMod

(* No stream but c is in use.                                              *)
Alone(c) == \A d \in Cids \ {c} : Free(chunk[d])

StreamsAt(s) ==
    /\ s.off > 0 => /\ Holding(chunk[s.msg.cid], s.msg, s.off)
                    /\ Alone(s.msg.cid)
    /\ s.off = 0 => \A d \in Cids : Free(chunk[d])

(* Between two chunks.                                                     *)
Between(s) == rpc = "basic" /\ in_chunk_size = s.size /\ StreamsAt(s)

(* Within a chunk of m: what is left of its headers.                       *)
HeadOf(m) == [ts |-> Least(m.ts, Ext), len |-> m.len, type |-> m.type,
              sid |-> m.sid]
ExtOf(m) == IF IsLong(m) THEN <<Extended(m.ts)>> ELSE << >>
FmtOf(s) == IF s.off = 0 THEN 0 ELSE 3
BehindBasic(s, m) ==
    IF s.off = 0 THEN <<Header(HeadOf(m))>> \o ExtOf(m) ELSE ExtOf(m)

Reading(s, m, left) ==
    /\ in_chunk_size = s.size /\ Alone(m.cid)
    /\ cur = [fmt |-> FmtOf(s), cid |-> m.cid, first |-> s.off = 0]
    /\ Begun(chunk[m.cid], m, s.off)
    /\ \/ /\ rpc = "header" /\ s.off = 0
          /\ left = <<Header(HeadOf(m))>> \o ExtOf(m)
       \/ /\ rpc = "ext" /\ IsLong(m) /\ left = <<Extended(m.ts)>>
          /\ Told(chunk[m.cid], m)
          /\ s.off > 0 => chunk[m.cid].ts = m.ts % TMod
       \/ /\ rpc = "payload" /\ left = << >>
          /\ Holding(chunk[m.cid], m, s.off)

InsideChunk(s, m, left, x) ==
    /\ Reading(s, m, left) /\ left \in Seq(Token) /\ x \in Seq(Token)
    /\ wire = left \o x /\ Ahead(x, s, m, delivered, sent, Spot)

(* At the end of a message that it is about to hand on.                    *)
AtEnd(s, m) ==
    /\ rpc = "dispatch" /\ MaySend(s, m) /\ Completes(s, m) /\ got = Whole(m)
    /\ in_chunk_size = s.size /\ (\A d \in Cids : Free(chunk[d]))
    /\ delivered \in Seq(Arriving)
    /\ Behind(wire, After(s, m), delivered \o Done(s, m), sent, Spot)

IsBetween == \E s \in Places : Between(s) /\ Behind(wire, s, delivered, sent, Spot)
IsInside ==
    \E s \in Places, m \in Said, left, x \in Seq(Token) :
        InsideChunk(s, m, left, x)
IsAtEnd == \E s \in Places, m \in Said : AtEnd(s, m)

Followed == IsBetween \/ IsInside \/ IsAtEnd

RInv ==
    /\ LineInv /\ chunk \in [Cids -> ChunkRecord]
    /\ status \in {"ok", "io"}
    /\ status = "ok" => Followed

-----------------------------------------------------------------------------
(* As the writer writes, the reader stays where it is.                     *)
LEMMA WritingFollowed ==
  ASSUME RInv, LineInv', OnTheLine, UNCHANGED readerSide
  PROVE  RInv'
<1>1. PICK w \in Seq(Token), f \in Seq(Arriving) :
        wire' = wire \o w /\ sent' = sent \o f /\ Moves(Spot, Spot', w, f)
  BY DEF OnTheLine
<1>2. Spot \in Spots /\ wire \in Seq(Token)  BY SpotOK DEF RInv, LineInv
<1>3. /\ chunk' = chunk /\ in_chunk_size' = in_chunk_size /\ rpc' = rpc
      /\ cur' = cur /\ got' = got /\ status' = status /\ delivered' = delivered
  BY DEF readerSide, readerVars
<1> HIDE DEF Token, Arriving
<1>4. ASSUME NEW s \in Places, Between(s),
             Behind(wire, s, delivered, sent, Spot)
      PROVE  IsBetween'
  <2>1. Behind(wire', s, delivered', sent', Spot')
    BY <1>1, <1>2, <1>3, <1>4, BehindMore
  <2>2. Between(s)'  BY <1>3, <1>4 DEF Between, StreamsAt, Alone
  <2> QED BY <2>1, <2>2 DEF IsBetween
<1>5. ASSUME NEW s \in Places, NEW m \in Said, NEW left \in Seq(Token),
             NEW x \in Seq(Token), InsideChunk(s, m, left, x)
      PROVE  IsInside'
  <2>1. wire = left \o x /\ Ahead(x, s, m, delivered, sent, Spot)
        /\ Reading(s, m, left)
    BY <1>5 DEF InsideChunk
  <2>2. Ahead(x \o w, s, m, delivered', sent', Spot')
    BY <1>1, <1>2, <1>3, <2>1, AheadMore
  <2>3. wire' = left \o (x \o w) /\ x \o w \in Seq(Token)
    BY <1>1, <2>1, JoinsTokens
  <2>4. Reading(s, m, left)'  BY <1>3, <2>1 DEF Reading, Alone
  <2>5. InsideChunk(s, m, left, x \o w)'  BY <2>2, <2>3, <2>4 DEF InsideChunk
  <2> QED BY <2>3, <2>5 DEF IsInside
<1>6. ASSUME NEW s \in Places, NEW m \in Said, AtEnd(s, m) PROVE IsAtEnd'
  <2>1. Behind(wire', After(s, m), delivered' \o Done(s, m), sent', Spot')
    BY <1>1, <1>2, <1>3, <1>6, BehindMore DEF AtEnd
  <2>2. AtEnd(s, m)'  BY <1>3, <1>6, <2>1 DEF AtEnd
  <2> QED BY <2>2 DEF IsAtEnd
<1>7. status = "ok" => Followed'
  BY <1>4, <1>5, <1>6 DEF RInv, Followed, IsBetween, IsInside, IsAtEnd
<1> QED BY <1>3, <1>7 DEF RInv

(* The steps of the reader leave the writer alone.                         *)
LEMMA WriterUntouched ==
  ASSUME WInv, OrderInv, UNCHANGED writerSide
  PROVE  WInv' /\ OrderInv'
<1>1. /\ out_chunk_size' = out_chunk_size /\ batch' = batch /\ off' = off
      /\ headers' = headers /\ cache_index' = cache_index /\ iovs' = iovs
      /\ nb_out_iovs' = nb_out_iovs /\ cur_iov' = cur_iov
      /\ responses' = responses /\ wpc' = wpc /\ wstatus' = wstatus
      /\ sends' = sends /\ handed' = handed /\ sent' = sent
  BY DEF writerSide
<1>2. WInv'
  <2>1. WriterTypeOK'  BY <1>1 DEF WInv, WriterTypeOK
  <2> QED BY <1>1, <2>1 DEF WInv, InPairs, BelowIndex, HasRoom, IovsFit,
             HeadersIntact, HeaderIntact, Progress
<1>3. OrderInv'
  <2>1. Owed' = Owed  BY <1>1 DEF Owed
  <2> QED BY <1>1, <2>1 DEF OrderInv, IsPrefix
<1> QED BY <1>2, <1>3

(* What the steps of the reader leave alone.                               *)
LEMMA WriterRests ==
  ASSUME RInv, UNCHANGED writerSide, wire' \in Seq(Token)
  PROVE  LineInv' /\ Spot' = Spot /\ sent' = sent
<1>1. /\ out_chunk_size' = out_chunk_size /\ batch' = batch /\ off' = off
      /\ headers' = headers /\ cache_index' = cache_index /\ iovs' = iovs
      /\ nb_out_iovs' = nb_out_iovs /\ cur_iov' = cur_iov
      /\ responses' = responses /\ wpc' = wpc /\ wstatus' = wstatus
      /\ sends' = sends /\ handed' = handed /\ sent' = sent
  BY DEF writerSide
<1>2. Here' = Here /\ Batched' = Batched  BY <1>1 DEF Here, Batched
<1>3. Spot' = Spot  BY <1>1, <1>2 DEF Spot
<1>4. LInv'  BY <1>1, <1>2 DEF RInv, LineInv, LInv
<1>5. WInv' /\ OrderInv'  BY WriterUntouched DEF RInv, LineInv
<1> QED BY <1>1, <1>3, <1>4, <1>5 DEF RInv, LineInv

(* What of a stream the reader changes while it reads a chunk over it.     *)
LEMMA OneStream ==
  ASSUME NEW c \in Cids, NEW ch \in ChunkRecord,
         chunk \in [Cids -> ChunkRecord], chunk' = [chunk EXCEPT ![c] = ch]
  PROVE  /\ chunk' \in [Cids -> ChunkRecord] /\ chunk'[c] = ch
         /\ \A d \in Cids \ {c} : chunk'[d] = chunk[d]
         /\ Alone(c) => Alone(c)'
<1>1. chunk' \in [Cids -> ChunkRecord] /\ chunk'[c] = ch
      /\ \A d \in Cids \ {c} : chunk'[d] = chunk[d]
  OBVIOUS
<1> QED BY <1>1 DEF Alone

(* The headers of a chunk begin with the basic one.                        *)
LEMMA HeaderParts ==
  ASSUME NEW s \in Places, NEW m, MaySend(s, m)
  PROVE  /\ Basic(FmtOf(s), m.cid) \in Token /\ m.cid \in Cids
         /\ FmtOf(s) \in {0, 3}
         /\ Header(HeadOf(m)) \in Token
         /\ Extended(m.ts) \in Token /\ ExtOf(m) \in Seq(Token)
         /\ BehindBasic(s, m) \in Seq(Token)
         /\ HeaderOf(s, m) = <<Basic(FmtOf(s), m.cid)>> \o BehindBasic(s, m)
<1>1. /\ m \in Said /\ m.cid \in Cids /\ m.type \in Types /\ m.sid \in StreamIds
      /\ m.ts \in Nat /\ m.len \in Nat /\ s.off \in Nat
  BY SizeIsSome DEF Said, Sendable
<1>2. HeadOf(m) \in HeaderSet
  <2>1. Least(m.ts, Ext) \in Nat  BY <1>1, TimeAssumption DEF Least
  <2> QED BY <1>1, <2>1 DEF HeadOf, HeaderSet
<1>3. FmtOf(s) \in {0, 3}  BY DEF FmtOf
<1>4. /\ Basic(FmtOf(s), m.cid) \in Token /\ Header(HeadOf(m)) \in Token
      /\ Extended(m.ts) \in Token
  BY <1>1, <1>2, <1>3 DEF Basic, Header, Extended, Token, Formats
<1> DEFINE b == Basic(FmtOf(s), m.cid)
           h == Header(HeadOf(m))
           x == ExtOf(m)
<1> HIDE DEF Token
<1>5. x \in Seq(Token)  BY <1>4 DEF ExtOf
<1>6. HeaderOf(s, m) = (IF s.off = 0 THEN <<b, h>> ELSE <<b>>) \o x
  BY DEF HeaderOf, ChunkHeader, HeadOf, ExtOf, FmtOf
<1>7. BehindBasic(s, m) = IF s.off = 0 THEN <<h>> \o x ELSE x
  BY DEF BehindBasic
<1>8. b \in Token /\ h \in Token  BY <1>4
<1> HIDE DEF b, h, x
<1>9. <<b, h>> = <<b>> \o <<h>>  BY <1>8, TwoJoined
<1>10. <<h>> \o x \in Seq(Token) /\ <<b>> \in Seq(Token) /\ <<h>> \in Seq(Token)
  BY <1>5, <1>8
<1>11. (<<b>> \o <<h>>) \o x = <<b>> \o (<<h>> \o x)
  BY <1>5, <1>10, JoinsTokens
<1>12. HeaderOf(s, m) = <<b>> \o BehindBasic(s, m)
       /\ BehindBasic(s, m) \in Seq(Token)
  <2>1. CASE s.off = 0  BY <1>6, <1>7, <1>9, <1>10, <1>11, <2>1
  <2>2. CASE s.off # 0  BY <1>5, <1>6, <1>7, <2>2
  <2> QED BY <2>1, <2>2
<1> QED BY <1>1, <1>3, <1>4, <1>5, <1>12 DEF b, x

(* The token that the reader takes is the first of what is left.           *)
LEMMA FirstLeft ==
  ASSUME NEW b \in Token, NEW q \in Seq(Token), NEW rest \in Seq(Token),
         NEW w, w = (<<b>> \o q) \o rest
  PROVE  w # << >> /\ Head(w) = b /\ Tail(w) = q \o rest
<1> HIDE DEF Token
<1> DEFINE z == q \o rest
<1>1. w = <<b>> \o z /\ z \in Seq(Token)  BY JoinsTokens
<1> HIDE DEF z
<1>2. Head(w) = b /\ Tail(w) = z /\ w # << >>  BY <1>1
<1> QED BY <1>2 DEF z

(* The invariant from its parts.                                           *)
LEMMA ReaderKeeps ==
  ASSUME LineInv', chunk' \in [Cids -> ChunkRecord], status' = "ok", Followed'
  PROVE  RInv'
BY DEF RInv

(* The reader is within a chunk.                                           *)
LEMMA WithinChunk ==
  ASSUME RInv, status = "ok", rpc \in {"header", "ext", "payload"}
  PROVE  \E s \in Places, m \in Said, left, x \in Seq(Token) :
            InsideChunk(s, m, left, x)
BY DEF RInv, Followed, IsBetween, IsInside, IsAtEnd, Between, AtEnd

(* A basic header is taken for the chunk that the writer began with it:    *)
(* none is refused, and the reader knows whether a message header follows. *)
LEMMA BasicUnderstood ==
  ASSUME RInv, status = "ok", TakesBasicHeader, UNCHANGED writerSide
  PROVE  RInv'
<1>1. /\ rpc = "basic" /\ wire # << >> /\ wire' = Tail(wire)
      /\ ReadBasicHeader(Head(wire).fmt, Head(wire).cid)
      /\ delivered' = delivered
  BY DEF TakesBasicHeader, NextIs, ReadBasicHeader
<1>2. PICK s \in Places : Between(s) /\ Behind(wire, s, delivered, sent, Spot)
  BY <1>1 DEF RInv, Followed, IsBetween, IsInside, IsAtEnd, InsideChunk,
     Reading, AtEnd
<1>3. PICK m \in Said, x \in Seq(Token) :
        wire = HeaderOf(s, m) \o x /\ Ahead(x, s, m, delivered, sent, Spot)
  BY <1>1, <1>2, BehindFirst
<1>4. MaySend(s, m)  BY <1>3 DEF Ahead
<1> DEFINE c == m.cid
           f == FmtOf(s)
           left == BehindBasic(s, m)
           ch == chunk[c]
           opened == [ch EXCEPT !.msg = TRUE]
           repeated == [opened EXCEPT !.ts = TimestampFmt3(opened, ~ch.msg)]
           done == [repeated EXCEPT !.ts = repeated.ts % TMod, !.used = TRUE]
<1>5. /\ Basic(f, c) \in Token /\ c \in Cids /\ f \in {0, 3}
      /\ left \in Seq(Token) /\ HeaderOf(s, m) = <<Basic(f, c)>> \o left
  BY <1>4, HeaderParts
<1>6. Head(wire) = Basic(f, c) /\ wire' = left \o x
  <2> DEFINE b == Basic(f, c)
  <2>1. b \in Token /\ left \in Seq(Token) /\ wire = (<<b>> \o left) \o x
    BY <1>3, <1>5
  <2> HIDE DEF b, left
  <2>2. Head(wire) = b /\ Tail(wire) = left \o x  BY <2>1, FirstLeft
  <2> QED BY <1>1, <2>2 DEF b
<1>7. left \o x \in Seq(Token)  BY <1>5, JoinsTokens
<1>8. LineInv' /\ Spot' = Spot /\ sent' = sent  BY <1>6, <1>7, WriterRests
<1>9. ReadBasicHeader(f, c)  BY <1>1, <1>6 DEF Basic
<1>10. ch \in ChunkRecord /\ chunk \in [Cids -> ChunkRecord]
  BY <1>5 DEF RInv
<1>11. /\ m \in Sendable /\ m.ts \in Nat /\ s.off \in Nat
       /\ in_chunk_size = s.size /\ StreamsAt(s)
  BY <1>2, <1>4, SizeIsSome DEF Between, Said, Sendable
<1>12. /\ s.off = 0 => Free(ch) /\ f = 0
       /\ s.off > 0 => Holding(ch, m, s.off) /\ f = 3
       /\ Alone(c)
  BY <1>4, <1>5, <1>11 DEF StreamsAt, Alone, MaySend, FmtOf
<1> HIDE DEF f, left
<1>13. opened \in ChunkRecord /\ opened.msg = TRUE /\ opened.body = ch.body
       /\ opened.ext = ch.ext /\ opened.ts = ch.ts
  BY <1>10 DEF ChunkRecord
<1>14. CASE s.off = 0
  <2>1. ~BadStart(f, c) /\ ch.msg = FALSE /\ ch.body = << >> /\ f = 0
    BY <1>12, <1>14 DEF BadStart, Free
  <2>2. /\ cur' = [fmt |-> f, cid |-> c, first |-> s.off = 0]
        /\ status' = "ok" /\ rpc' = "header"
        /\ chunk' = [chunk EXCEPT ![c] = opened]
        /\ in_chunk_size' = s.size
    BY <1>9, <1>11, <1>14, <2>1 DEF ReadBasicHeader
  <2>3. /\ chunk' \in [Cids -> ChunkRecord] /\ chunk'[c] = opened /\ Alone(c)'
    BY <1>5, <1>10, <1>12, <1>13, <2>2, OneStream
  <2>4. Sofar(m, s.off) = << >>  BY <1>14 DEF Sofar
  <2>5. left = <<Header(HeadOf(m))>> \o ExtOf(m)
    BY <1>14 DEF left, BehindBasic
  <2>6. Begun(chunk'[c], m, s.off)  BY <1>13, <2>1, <2>3, <2>4 DEF Begun
  <2>7. Reading(s, m, left)'
    BY <1>14, <2>2, <2>3, <2>5, <2>6 DEF Reading, f
  <2>8. InsideChunk(s, m, left, x)'
    BY <1>1, <1>3, <1>5, <1>6, <1>8, <2>7 DEF InsideChunk
  <2>9. IsInside'  BY <1>5, <2>8 DEF IsInside
  <2> QED BY <1>8, <2>2, <2>3, <2>9, ReaderKeeps DEF Followed
<1>15. CASE s.off > 0
  <2>1. /\ ~BadStart(f, c) /\ ch.msg = TRUE /\ f = 3 /\ ch.used = TRUE
        /\ ch.ext = IsLong(m) /\ Told(ch, m) /\ Begun(ch, m, s.off)
        /\ ch.ts = m.ts % TMod
    BY <1>12, <1>15 DEF BadStart, Holding, Begun, Told
  <2>2. /\ ch.ts \in Nat /\ ch.ts % TMod = ch.ts
    BY <1>11, <2>1, MaskedOnce
  <2>3. opened = ch /\ repeated = ch /\ done = ch
    <3>1. opened = ch  BY <1>10, <2>1 DEF ChunkRecord
    <3>2. TimestampFmt3(ch, ~ch.msg) = ch.ts  BY <2>1 DEF TimestampFmt3
    <3>3. repeated = ch  BY <1>10, <3>1, <3>2 DEF ChunkRecord
    <3>4. done = ch  BY <1>10, <2>1, <2>2, <3>3 DEF ChunkRecord
    <3> QED BY <3>1, <3>3, <3>4
  <2>4. /\ cur' = [fmt |-> f, cid |-> c, first |-> s.off = 0]
        /\ status' = "ok" /\ in_chunk_size' = s.size
        /\ chunk' = [chunk EXCEPT ![c] = ch]
        /\ rpc' = IF IsLong(m) THEN "ext" ELSE "payload"
    <3>1. (~ch.msg) = (s.off = 0)  BY <1>15, <2>1
    <3>2. HeaderDone(repeated) = done  BY DEF HeaderDone
    <3> QED BY <1>9, <1>11, <2>1, <2>3, <3>1, <3>2 DEF ReadBasicHeader
  <2>5. /\ chunk' \in [Cids -> ChunkRecord] /\ chunk'[c] = ch /\ Alone(c)'
    BY <1>5, <1>10, <1>12, <2>4, OneStream
  <2>6. left = ExtOf(m)  BY <1>15 DEF left, BehindBasic
  <2>7. Reading(s, m, left)'
    <3>1. cur' = [fmt |-> FmtOf(s), cid |-> m.cid, first |-> s.off = 0]
      BY <2>4 DEF f
    <3>2. Holding(chunk'[m.cid], m, s.off) /\ Begun(chunk'[m.cid], m, s.off)
          /\ Told(chunk'[m.cid], m) /\ chunk'[m.cid].ts = m.ts % TMod
      BY <1>12, <1>15, <2>1, <2>5
    <3>3. CASE IsLong(m)
      BY <2>4, <2>5, <2>6, <3>1, <3>2, <3>3 DEF Reading, ExtOf
    <3>4. CASE ~IsLong(m)
      BY <2>4, <2>5, <2>6, <3>1, <3>2, <3>4 DEF Reading, ExtOf
    <3> QED BY <3>3, <3>4
  <2>8. InsideChunk(s, m, left, x)'
    BY <1>1, <1>3, <1>5, <1>6, <1>8, <2>7 DEF InsideChunk
  <2>9. IsInside'  BY <1>5, <2>8 DEF IsInside
  <2> QED BY <1>8, <2>4, <2>5, <2>9, ReaderKeeps DEF Followed
<1> QED BY <1>11, <1>14, <1>15

(* A message header tells the reader what was written.                     *)
LEMMA HeaderUnderstood ==
  ASSUME RInv, status = "ok", TakesMessageHeader, UNCHANGED writerSide
  PROVE  RInv'
<1>1. /\ rpc = "header" /\ wire # << >> /\ wire' = Tail(wire)
      /\ ReadMessageHeader(Head(wire).header)
      /\ delivered' = delivered
  BY DEF TakesMessageHeader, NextIs, ReadMessageHeader
<1>2. PICK s \in Places, m \in Said, old, x \in Seq(Token) :
        InsideChunk(s, m, old, x)
  BY <1>1, WithinChunk
<1> DEFINE c == m.cid
           ch == chunk[c]
           h == HeadOf(m)
           left == ExtOf(m)
<1>3. /\ wire = old \o x /\ Ahead(x, s, m, delivered, sent, Spot)
      /\ Reading(s, m, old)
  BY <1>2 DEF InsideChunk
<1>4. MaySend(s, m)  BY <1>3 DEF Ahead
<1>5. /\ in_chunk_size = s.size /\ s.off = 0 /\ Alone(c)
      /\ cur = [fmt |-> 0, cid |-> c, first |-> TRUE]
      /\ Begun(ch, m, s.off) /\ old = <<Header(h)>> \o left
  BY <1>1, <1>3 DEF Reading, FmtOf
<1>6. /\ Header(h) \in Token /\ left \in Seq(Token) /\ c \in Cids
  BY <1>4, HeaderParts
<1>7. /\ m.ts \in Nat /\ m.len \in Nat /\ m.type \in Types /\ m.sid \in StreamIds
  BY DEF Said, Sendable
<1>8. Head(wire) = Header(h) /\ wire' = left \o x
  <2> DEFINE b == Header(h)
  <2>1. b \in Token /\ left \in Seq(Token) /\ wire = (<<b>> \o left) \o x
    BY <1>3, <1>5, <1>6
  <2> HIDE DEF b, left
  <2>2. Head(wire) = b /\ Tail(wire) = left \o x  BY <2>1, FirstLeft
  <2> QED BY <1>1, <2>2 DEF b
<1>9. left \o x \in Seq(Token)  BY <1>6, JoinsTokens
<1>10. LineInv' /\ Spot' = Spot /\ sent' = sent  BY <1>8, <1>9, WriterRests
<1>11. ch \in ChunkRecord /\ chunk \in [Cids -> ChunkRecord]
  BY <1>6 DEF RInv
<1>12. /\ h.ts \in Nat /\ (h.ts >= Ext) = IsLong(m) /\ (IsLong(m) <=> h.ts >= Ext)
       /\ (~IsLong(m) <=> h.ts < Ext)
       /\ (~IsLong(m) => h.ts = m.ts)
       /\ h.len = m.len /\ h.type = m.type /\ h.sid = m.sid
  BY <1>7, TimeAssumption DEF HeadOf, Least, IsLong
<1>13. ReadMessageHeader(h)  BY <1>1, <1>8 DEF Header
<1> HIDE DEF h, left
<1> DEFINE sized == [ch EXCEPT !.delta = h.ts, !.ext = h.ts >= Ext,
                               !.ts = TimestampOf(ch, h),
                               !.len = h.len, !.type = h.type, !.sid = h.sid]
           done == [sized EXCEPT !.ts = sized.ts % TMod, !.used = TRUE]
<1>14. /\ status' = "ok" /\ in_chunk_size' = s.size /\ cur' = cur
       /\ IF sized.ext
          THEN rpc' = "ext" /\ chunk' = [chunk EXCEPT ![c] = sized]
          ELSE rpc' = "payload" /\ chunk' = [chunk EXCEPT ![c] = done]
  <2>1. cur.cid = c /\ cur.fmt = 0 /\ cur.first = TRUE  BY <1>5
  <2>2. ~ChangesLength(h)  BY <2>1 DEF ChangesLength
  <2> DEFINE timed == [chunk[cur.cid] EXCEPT !.delta = h.ts, !.ext = h.ts >= Ext,
                               !.ts = TimestampOf(chunk[cur.cid], h)]
             told == IF cur.fmt <= 1
                     THEN [timed EXCEPT !.len = h.len, !.type = h.type,
                              !.sid = IF cur.fmt = 0 THEN h.sid ELSE timed.sid]
                     ELSE timed
  <2>3. /\ UNCHANGED <<in_chunk_size, cur, status>>
        /\ IF told.ext
           THEN rpc' = "ext" /\ chunk' = [chunk EXCEPT ![cur.cid] = told]
           ELSE rpc' = "payload" /\
                chunk' = [chunk EXCEPT ![cur.cid] = HeaderDone(told)]
    BY <1>13, <2>2 DEF ReadMessageHeader
  <2>4. told = sized
    <3>1. chunk[cur.cid] = ch  BY <2>1
    <3>2. TimestampOf(chunk[cur.cid], h) = TimestampOf(ch, h)  BY <3>1
    <3> HIDE DEF ch
    <3> QED BY <1>11, <2>1, <3>1, <3>2 DEF ChunkRecord
  <2> HIDE DEF told, sized
  <2> QED BY <1>5, <2>1, <2>3, <2>4 DEF HeaderDone
<1>15. /\ TimestampOf(ch, h) \in Nat
       /\ ~IsLong(m) => TimestampOf(ch, h) = m.ts
  <2>1. cur.fmt = 0  BY <1>5
  <2>2. ch.ts \in Nat  BY <1>11 DEF ChunkRecord
  <2>3. CASE IsLong(m)
    <3>1. h.ts >= Ext /\ ~(h.ts < Ext)  BY <1>12, <2>3, TimeAssumption
    <3>2. TimestampOf(ch, h) = ch.ts  BY <3>1 DEF TimestampOf
    <3> QED BY <2>2, <2>3, <3>2
  <2>4. CASE ~IsLong(m)
    <3>1. h.ts < Ext /\ ~(h.ts >= Ext) /\ h.ts = m.ts
      BY <1>12, <2>4, TimeAssumption
    <3>2. TimestampOf(ch, h) = h.ts  BY <2>1, <3>1 DEF TimestampOf
    <3> QED BY <1>7, <2>4, <3>1, <3>2
  <2> QED BY <2>3, <2>4
<1>16. /\ sized \in ChunkRecord /\ sized.msg = ch.msg /\ sized.body = ch.body
       /\ sized.ext = IsLong(m) /\ sized.len = m.len /\ sized.type = m.type
       /\ sized.sid = m.sid /\ sized.ts = TimestampOf(ch, h)
  <2> DEFINE y == TimestampOf(ch, h)
             l == IsLong(m)
  <2>1. y \in Nat /\ l \in BOOLEAN  BY <1>15 DEF IsLong
  <2>2. sized = [ch EXCEPT !.delta = h.ts, !.ext = l, !.ts = y,
                           !.len = m.len, !.type = m.type, !.sid = m.sid]
    BY <1>12
  <2> HIDE DEF y, l, sized
  <2>3. /\ sized \in ChunkRecord /\ sized.msg = ch.msg /\ sized.body = ch.body
        /\ sized.ext = l /\ sized.len = m.len /\ sized.type = m.type
        /\ sized.sid = m.sid /\ sized.ts = y
    BY <1>7, <1>11, <1>12, <2>1, <2>2 DEF ChunkRecord
  <2> QED BY <2>3 DEF y, l
<1> HIDE DEF sized
<1>17. sized.ts % TMod \in Nat  BY <1>15, <1>16, MaskedOnce
<1>18. /\ done \in ChunkRecord /\ done.msg = ch.msg /\ done.body = ch.body
       /\ done.ext = IsLong(m) /\ done.len = m.len /\ done.type = m.type
       /\ done.sid = m.sid /\ done.ts = sized.ts % TMod /\ done.used = TRUE
  BY <1>16, <1>17 DEF ChunkRecord
<1> HIDE DEF done
<1>19. CASE IsLong(m)
  <2>1. /\ rpc' = "ext" /\ chunk' = [chunk EXCEPT ![c] = sized]
    BY <1>14, <1>16, <1>19
  <2>2. /\ chunk' \in [Cids -> ChunkRecord] /\ chunk'[c] = sized /\ Alone(c)'
    BY <1>5, <1>6, <1>11, <1>16, <2>1, OneStream
  <2>3. Begun(chunk'[c], m, s.off) /\ Told(chunk'[c], m)
    BY <1>5, <1>16, <2>2 DEF Begun, Told
  <2>4. left = <<Extended(m.ts)>>  BY <1>19 DEF left, ExtOf
  <2>5. Reading(s, m, left)'
    <3>1. cur' = [fmt |-> FmtOf(s), cid |-> m.cid, first |-> s.off = 0]
      BY <1>5, <1>14 DEF FmtOf
    <3>2. ~(s.off > 0)  BY <1>5
    <3> QED BY <1>14, <1>19, <2>1, <2>2, <2>3, <2>4, <3>1, <3>2 DEF Reading
  <2>6. InsideChunk(s, m, left, x)'
    BY <1>1, <1>3, <1>6, <1>8, <1>10, <2>5 DEF InsideChunk
  <2>7. IsInside'  BY <1>6, <2>6 DEF IsInside
  <2> QED BY <1>10, <1>14, <2>2, <2>7, ReaderKeeps DEF Followed
<1>20. CASE ~IsLong(m)
  <2>1. /\ rpc' = "payload" /\ chunk' = [chunk EXCEPT ![c] = done]
    BY <1>14, <1>16, <1>20
  <2>2. /\ chunk' \in [Cids -> ChunkRecord] /\ chunk'[c] = done /\ Alone(c)'
    BY <1>5, <1>6, <1>11, <1>18, <2>1, OneStream
  <2>3. Holding(chunk'[c], m, s.off) /\ Begun(chunk'[c], m, s.off)
    BY <1>5, <1>15, <1>16, <1>18, <1>20, <2>2 DEF Begun, Told, Holding
  <2>4. left = << >>  BY <1>20 DEF left, ExtOf
  <2>5. Reading(s, m, left)'
    <3>1. cur' = [fmt |-> FmtOf(s), cid |-> m.cid, first |-> s.off = 0]
      BY <1>5, <1>14 DEF FmtOf
    <3> QED BY <1>14, <2>1, <2>2, <2>3, <2>4, <3>1 DEF Reading
  <2>6. InsideChunk(s, m, left, x)'
    BY <1>1, <1>3, <1>6, <1>8, <1>10, <2>5 DEF InsideChunk
  <2>7. IsInside'  BY <1>6, <2>6 DEF IsInside
  <2> QED BY <1>10, <1>14, <2>2, <2>7, ReaderKeeps DEF Followed
<1> QED BY <1>19, <1>20

(* The extended timestamp is never taken for payload.                      *)
LEMMA ExtendedUnderstood ==
  ASSUME RInv, status = "ok", TakesExtended, UNCHANGED writerSide
  PROVE  RInv'
<1>1. rpc = "ext" /\ delivered' = delivered
  BY DEF TakesExtended, ReadExtended
<1>2. PICK s \in Places, m \in Said, old, x \in Seq(Token) :
        InsideChunk(s, m, old, x)
  BY <1>1, WithinChunk
<1> DEFINE c == m.cid
           ch == chunk[c]
           t == m.ts
           told == [ch EXCEPT !.ts = t % TMod]
           done == [told EXCEPT !.ts = told.ts % TMod, !.used = TRUE]
<1>3. /\ wire = old \o x /\ Ahead(x, s, m, delivered, sent, Spot)
      /\ Reading(s, m, old)
  BY <1>2 DEF InsideChunk
<1>4. MaySend(s, m)  BY <1>3 DEF Ahead
<1>5. /\ in_chunk_size = s.size /\ Alone(c)
      /\ cur = [fmt |-> FmtOf(s), cid |-> c, first |-> s.off = 0]
      /\ Begun(ch, m, s.off) /\ IsLong(m) /\ old = <<Extended(t)>>
      /\ Told(ch, m) /\ (s.off > 0 => ch.ts = t % TMod)
  BY <1>1, <1>3 DEF Reading
<1>6. Extended(t) \in Token /\ c \in Cids /\ t \in Nat /\ s.off \in Nat
  BY <1>4, HeaderParts, SizeIsSome DEF Said, Sendable
<1>7. Head(wire) = Extended(t) /\ Tail(wire) = x /\ wire # << >>
  <2> DEFINE b == Extended(t)
  <2>1. b \in Token /\ old = <<b>>  BY <1>5, <1>6
  <2> HIDE DEF b, Token
  <2>2. << >> \in Seq(Token) /\ old = <<b>> \o << >>  BY <2>1
  <2>3. wire = (<<b>> \o << >>) \o x  BY <1>3, <2>2
  <2>4. Head(wire) = b /\ Tail(wire) = << >> \o x /\ wire # << >>
    BY <2>1, <2>2, <2>3, FirstLeft
  <2> QED BY <2>4, JoinsTokens DEF b
<1>8. ReadExtended(t) /\ wire' = (IF IsNoTimestamp(t) THEN wire ELSE Tail(wire))
  <2>1. NextIs("ext")  BY <1>7 DEF NextIs, Extended
  <2>2. Head(wire).time = t  BY <1>7 DEF Extended
  <2> QED BY <2>1, <2>2 DEF TakesExtended
<1>9. cur.first = (s.off = 0) /\ cur.cid = c  BY <1>5
<1>10. ~IsNoTimestamp(t)
  <2>1. CASE s.off = 0
    <3>1. cur.first = TRUE  BY <1>9, <2>1
    <3> QED BY <3>1 DEF IsNoTimestamp
  <2>2. CASE s.off > 0
    BY <1>5, <1>9, <2>2 DEF IsNoTimestamp
  <2> QED BY <1>6, <2>1, <2>2
<1>11. wire' = x  BY <1>7, <1>8, <1>10
<1>12. LineInv' /\ Spot' = Spot /\ sent' = sent  BY <1>11, WriterRests
<1>13. ch \in ChunkRecord /\ chunk \in [Cids -> ChunkRecord]
  BY <1>6 DEF RInv
<1>14. /\ status' = "ok" /\ in_chunk_size' = s.size /\ cur' = cur
       /\ rpc' = "payload" /\ chunk' = [chunk EXCEPT ![c] = done]
  <2>1. chunk' = [chunk EXCEPT ![cur.cid] =
                     HeaderDone([chunk[cur.cid] EXCEPT !.ts = t % TMod])]
    BY <1>8, <1>10 DEF ReadExtended
  <2> QED BY <1>5, <1>8, <1>9, <2>1 DEF ReadExtended, HeaderDone
<1>15. t % TMod \in Nat /\ (t % TMod) % TMod = t % TMod  BY <1>6, MaskedOnce
<1>16. /\ done \in ChunkRecord /\ done.msg = ch.msg /\ done.body = ch.body
       /\ done.ext = ch.ext /\ done.len = ch.len /\ done.type = ch.type
       /\ done.sid = ch.sid /\ done.ts = t % TMod /\ done.used = TRUE
  <2> DEFINE y == t % TMod
  <2>1. y \in Nat /\ y % TMod = y  BY <1>15
  <2> HIDE DEF y
  <2>2. told = [ch EXCEPT !.ts = y]  BY DEF y
  <2> HIDE DEF told
  <2>3. told.ts = y  BY <1>13, <2>2 DEF ChunkRecord
  <2>4. done = [told EXCEPT !.ts = y, !.used = TRUE]  BY <2>1, <2>3
  <2> HIDE DEF done
  <2>5. /\ done \in ChunkRecord /\ done.msg = ch.msg /\ done.body = ch.body
        /\ done.ext = ch.ext /\ done.len = ch.len /\ done.type = ch.type
        /\ done.sid = ch.sid /\ done.ts = y /\ done.used = TRUE
    BY <1>13, <2>1, <2>2, <2>4 DEF ChunkRecord
  <2> QED BY <2>5 DEF y
<1> HIDE DEF done
<1>17. /\ chunk' \in [Cids -> ChunkRecord] /\ chunk'[c] = done /\ Alone(c)'
  BY <1>5, <1>6, <1>13, <1>14, <1>16, OneStream
<1>18. Holding(chunk'[c], m, s.off) /\ Begun(chunk'[c], m, s.off)
  BY <1>5, <1>16, <1>17 DEF Begun, Told, Holding
<1>19. Reading(s, m, << >>)'
  BY <1>5, <1>14, <1>17, <1>18 DEF Reading
<1>20. << >> \in Seq(Token) /\ wire' = << >> \o x
  <2>1. << >> \in Seq(Token)  OBVIOUS
  <2> QED BY <1>11, <2>1, JoinsTokens
<1>21. InsideChunk(s, m, << >>, x)'
  BY <1>1, <1>3, <1>12, <1>19, <1>20 DEF InsideChunk
<1>22. IsInside'  BY <1>20, <1>21 DEF IsInside
<1> QED BY <1>12, <1>14, <1>17, <1>22, ReaderKeeps DEF Followed

(* The words that a chunk of m carries.                                    *)
Portion(m, o, n) == [i \in 1..n |-> WordAt(m, o + i)]

(* What has been received of a message, and what the next chunk adds.      *)
LEMMA SofarMore ==
  ASSUME NEW m \in Said, NEW o \in Nat, NEW n \in Nat
  PROVE  /\ Sofar(m, o) \in Seq(WordSet) /\ Len(Sofar(m, o)) = o
         /\ Sofar(m, o) \o Portion(m, o, n) = Sofar(m, o + n)
         /\ Sofar(m, o + n) \in Seq(WordSet)
         /\ Len(Sofar(m, o + n)) = o + n
<1>1. \A i \in Nat : WordAt(m, i) \in WordSet
  BY DEF WordAt, WordSet, Said, Sendable
<1> DEFINE a == Sofar(m, o)
           b == Sofar(m, o + n)
           w == Portion(m, o, n)
           W(i) == WordAt(m, i)
<1>2. /\ a = [i \in 1..o |-> W(i)] /\ w = [i \in 1..n |-> W(o + i)]
      /\ b = [i \in 1..(o + n) |-> W(i)] /\ \A i \in Nat : W(i) \in WordSet
  BY <1>1 DEF Sofar, Portion
<1> HIDE DEF a, b, w, W, WordSet
<1>3. a \in Seq(WordSet) /\ Len(a) = o  BY <1>2
<1>4. b \in Seq(WordSet) /\ Len(b) = o + n  BY <1>2
<1>5. w \in Seq(WordSet) /\ Len(w) = n
  <2>1. \A i \in 1..n : o + i \in Nat  OBVIOUS
  <2>2. \A i \in 1..n : W(o + i) \in WordSet  BY <1>2, <2>1
  <2>3. w \in [1..n -> WordSet]  BY <1>2, <2>2
  <2> QED BY <2>3
<1>6. \A i \in 1..Len(a) : b[i] = a[i]  BY <1>2, <1>3
<1>7. \A i \in 1..Len(w) : b[Len(a) + i] = w[i]
  <2>1. \A i \in 1..n : o + i \in 1..(o + n)  OBVIOUS
  <2> QED BY <1>2, <1>3, <1>5, <2>1
<1>8. b = a \o w
  <2>1. Len(b) = Len(a) + Len(w)  BY <1>3, <1>4, <1>5
  <2> QED BY <1>3, <1>4, <1>5, <1>6, <1>7, <2>1, Joined
<1> QED BY <1>3, <1>4, <1>8 DEF a, b, w

(* Reading the first of two parts leaves the second.                       *)
LEMMA LeavesRest ==
  ASSUME NEW p \in Seq(Token), NEW q \in Seq(Token), NEW n, n = Len(p)
  PROVE  /\ n <= Len(p \o q) /\ \A i \in 1..n : (p \o q)[i] = p[i]
         /\ SubSeq(p \o q, n + 1, Len(p \o q)) = q
<1> HIDE DEF Token
<1> DEFINE w == p \o q
           x == SubSeq(w, n + 1, Len(w))
<1>1. w \in Seq(Token) /\ Len(w) = n + Len(q) /\ n \in Nat /\ Len(q) \in Nat
  OBVIOUS
<1>2. \A i \in 1..n : w[i] = p[i]  OBVIOUS
<1>3. \A i \in 1..Len(q) : w[n + i] = q[i]  OBVIOUS
<1> HIDE DEF w
<1>4. x \in Seq(Token) /\ Len(x) = Len(q)  BY <1>1
<1>5. \A i \in 1..Len(q) : x[i] = q[i]
  <2> TAKE i \in 1..Len(q)
  <2>1. x[i] = w[n + i]  BY <1>1
  <2> QED BY <1>3, <2>1
<1> HIDE DEF x
<1>6. x = q  BY <1>4, <1>5
<1> QED BY <1>1, <1>2, <1>6 DEF w, x

(* What the reader takes for payload is what a chunk carries.              *)
LEMMA SizeUnderstood ==
  ASSUME NEW s \in Places, NEW m, MaySend(s, m), in_chunk_size = s.size,
         cur.cid = m.cid, Holding(chunk[m.cid], m, s.off)
  PROVE  PayloadSize = Size(s, m)
<1>1. s.off \in Nat  BY SizeIsSome
<1>2. Len([i \in 1..s.off |-> WordAt(m, i)]) = s.off  BY <1>1
<1>3. Len(chunk[cur.cid].body) = s.off  BY <1>2 DEF Holding, Begun, Sofar
<1>4. chunk[cur.cid].len = m.len  BY DEF Holding, Told
<1>5. PayloadSize = Least(m.len - s.off, s.size)
  BY <1>3, <1>4 DEF PayloadSize
<1>6. m.len - s.off \in Int /\ s.size \in Int  BY SizeIsSome
<1> QED BY <1>5, <1>6 DEF Size, Least

(* The payload is added to the message it belongs to, which is whole with  *)
(* the last of it.                                                         *)
LEMMA PayloadUnderstood ==
  ASSUME RInv, status = "ok", TakesPayload, UNCHANGED writerSide
  PROVE  RInv'
<1> DEFINE words == [i \in 1..PayloadSize |-> wire[i].word]
<1>1. /\ rpc = "payload" /\ ReadMessagePayload(words)
      /\ wire' = SubSeq(wire, PayloadSize + 1, Len(wire))
      /\ PayloadSize <= Len(wire) /\ delivered' = delivered
  BY DEF TakesPayload
<1>2. PICK s \in Places, m \in Said, old, z \in Seq(Token) :
        InsideChunk(s, m, old, z)
  BY <1>1, WithinChunk
<1> DEFINE c == m.cid
           ch == chunk[c]
           n == Size(s, m)
           o == s.off
           w == Portion(m, o, n)
           d == Done(s, m)
<1>3. /\ wire = old \o z /\ Ahead(z, s, m, delivered, sent, Spot)
      /\ Reading(s, m, old)
  BY <1>2 DEF InsideChunk
<1>4. MaySend(s, m) /\ delivered \in Seq(Arriving)  BY <1>3 DEF Ahead
<1>5. /\ in_chunk_size = s.size /\ Alone(c) /\ cur.cid = c
      /\ old = << >> /\ Holding(ch, m, o)
  BY <1>1, <1>3 DEF Reading
<1>6. /\ c \in Cids /\ o \in Nat /\ n \in Nat /\ n > 0 /\ m.len \in Nat
  BY <1>4, SizeIsSome, HeaderParts
<1>7. ch \in ChunkRecord /\ chunk \in [Cids -> ChunkRecord]
  BY <1>6 DEF RInv
<1>8. wire = z  BY <1>3, <1>5, JoinsTokens
<1>9. PayloadSize = n  BY <1>4, <1>5, SizeUnderstood
<1>10. PICK x \in Seq(Token) :
         /\ wire = PayloadOf(s, m) \o x
         /\ Behind(x, After(s, m), delivered \o d, sent, Spot)
  <2>1. z # << >>
    <3>1. n <= Len(z)  BY <1>1, <1>8, <1>9
    <3> HIDE DEF n
    <3>2. Len(<< >>) = 0  OBVIOUS
    <3> QED BY <1>6, <3>1, <3>2
  <2>2. Follows(z, s, m, delivered, sent, Spot)
    BY <1>3, <2>1 DEF Ahead, Waits
  <2> QED BY <1>8, <2>2 DEF Follows
<1>11. wire' = x /\ words = w
  <2>1. PayloadOf(s, m) \in Seq(Token) /\ Len(PayloadOf(s, m)) = n
    BY <1>4, ChunkType
  <2>2. /\ \A i \in 1..n : wire[i] = PayloadOf(s, m)[i]
        /\ SubSeq(wire, n + 1, Len(wire)) = x
    BY <1>10, <2>1, LeavesRest
  <2>3. \A i \in 1..n : wire[i].word = WordAt(m, o + i)
    <3>1. \A i \in 1..n : PayloadOf(s, m)[i] = Word(WordAt(m, o + i))
      BY DEF PayloadOf, WordTokens
    <3>2. \A v : Word(v).word = v  BY DEF Word
    <3> HIDE DEF n
    <3> QED BY <2>2, <3>1, <3>2
  <2>4. wire' = x  BY <1>1, <1>9, <2>2
  <2>5. words = w
    <3>1. words = [i \in 1..n |-> wire[i].word]  BY <1>9
    <3> QED BY <2>3, <3>1 DEF Portion
  <2> QED BY <2>4, <2>5
<1>12. LineInv' /\ Spot' = Spot /\ sent' = sent  BY <1>11, WriterRests
<1> HIDE DEF words
<1>13. ReadMessagePayload(w)  BY <1>1, <1>11
<1>14. /\ Sofar(m, o) \o w = Sofar(m, o + n) /\ Sofar(m, o + n) \in Seq(WordSet)
       /\ Len(Sofar(m, o + n)) = o + n
  <2> HIDE DEF n
  <2> QED BY <1>6, SofarMore
<1>15. ch.body = Sofar(m, o) /\ ch.msg = TRUE /\ ch.len = m.len
       /\ ch.type = m.type /\ ch.sid = m.sid /\ ch.ts = m.ts % TMod
       /\ Told(ch, m) /\ ch.used = TRUE
  BY <1>5 DEF Holding, Begun, Told
<1> HIDE DEF n, w
<1> DEFINE body == Sofar(m, o + n)
           filled == [ch EXCEPT !.body = body, !.alloc = ch.len]
<1>16. /\ filled \in ChunkRecord /\ filled.body = body /\ filled.msg = TRUE
       /\ filled.len = m.len /\ filled.type = m.type /\ filled.sid = m.sid
       /\ filled.ts = ch.ts /\ filled.used = TRUE /\ filled.ext = ch.ext
       /\ Filled(ch, w) = filled
  <2>1. Filled(ch, w) = filled  BY <1>14, <1>15 DEF Filled
  <2>2. ch.len \in Nat /\ body \in Seq(WordSet)
    BY <1>7, <1>14 DEF ChunkRecord
  <2> HIDE DEF body
  <2> QED BY <1>7, <1>15, <2>1, <2>2 DEF ChunkRecord
<1> HIDE DEF filled
<1>17. /\ status' = "ok" /\ in_chunk_size' = s.size
       /\ IF o + n = m.len
          THEN got' = MessageOf(c, filled) /\ rpc' = "dispatch"
               /\ chunk' = [chunk EXCEPT ![c] = Closed(ch)]
          ELSE rpc' = "basic" /\ chunk' = [chunk EXCEPT ![c] = filled]
  <2>1. Len(filled.body) = o + n  BY <1>14, <1>16
  <2>2. Filled(chunk[cur.cid], w) = filled /\ chunk[cur.cid] = ch
    BY <1>5, <1>16
  <2>3. ch.len = m.len  BY <1>15
  <2> HIDE DEF ch
  <2> QED BY <1>1, <1>5, <1>13, <2>1, <2>2, <2>3 DEF ReadMessagePayload
<1>18. CASE Completes(s, m)
  <2>1. o + n = m.len  BY <1>18 DEF Completes, n
  <2>2. MessageOf(c, filled) = Whole(m)
    <3>1. body = [i \in 1..m.len |-> WordAt(m, i)]  BY <2>1 DEF Sofar
    <3> HIDE DEF body
    <3> QED BY <1>15, <1>16, <3>1 DEF MessageOf, Whole
  <2>3. Closed(ch) \in ChunkRecord /\ Free(Closed(ch))
    <3>1. << >> \in Seq(WordSet)  OBVIOUS
    <3> QED BY <1>7, <3>1 DEF Closed, ChunkRecord, Free
  <2>4. /\ chunk' \in [Cids -> ChunkRecord] /\ chunk'[c] = Closed(ch)
        /\ Alone(c)'
    BY <1>5, <1>6, <1>7, <1>17, <2>1, <2>3, OneStream
  <2>5. \A k \in Cids : Free(chunk'[k])  BY <2>3, <2>4 DEF Alone
  <2>6. AtEnd(s, m)'
    BY <1>1, <1>4, <1>10, <1>11, <1>12, <1>17, <1>18, <2>1, <2>2, <2>5
       DEF AtEnd
  <2>7. IsAtEnd'  BY <2>6 DEF IsAtEnd
  <2> QED BY <1>12, <1>17, <2>4, <2>7, ReaderKeeps DEF Followed
<1>19. CASE ~Completes(s, m)
  <2> DEFINE t == After(s, m)
  <2>1. o + n # m.len  BY <1>19 DEF Completes, n
  <2>2. /\ t \in Places /\ t.off = o + n /\ t.msg = m /\ t.size = s.size
        /\ t.off > 0
    <3>1. t \in Places /\ t.off = o + Size(s, m) /\ t.msg = m /\ t.size = s.size
      BY <1>4, <1>19, AfterOK
    <3> QED BY <1>6, <3>1 DEF n
  <2>3. d = << >>  BY <1>19 DEF Done
  <2>4. delivered \o d = delivered  BY <1>4, <2>3, JoinsDone
  <2>5. /\ chunk' \in [Cids -> ChunkRecord] /\ chunk'[c] = filled /\ Alone(c)'
    BY <1>5, <1>6, <1>7, <1>16, <1>17, <2>1, OneStream
  <2>6. Holding(chunk'[c], m, t.off)
    <3>1. Told(filled, m)  BY <1>15, <1>16 DEF Told
    <3>2. Begun(filled, m, t.off)  BY <1>16, <2>2 DEF Begun
    <3> QED BY <1>15, <1>16, <2>5, <3>1, <3>2 DEF Holding
  <2>7. rpc' = "basic"  BY <1>17, <2>1
  <2> HIDE DEF t
  <2>8. Between(t)'
    <3>1. ~(t.off = 0)  BY <2>2
    <3> QED BY <1>17, <2>2, <2>5, <2>6, <2>7, <3>1 DEF Between, StreamsAt
  <2>9. Behind(wire', t, delivered', sent', Spot')
    BY <1>1, <1>10, <1>11, <1>12, <2>4 DEF t
  <2>10. IsBetween'  BY <2>2, <2>8, <2>9 DEF IsBetween
  <2> QED BY <1>12, <1>17, <2>5, <2>10, ReaderKeeps DEF Followed
<1> QED BY <1>18, <1>19

(* A whole message is handed on: none is refused, and what it says of the  *)
(* chunk size is obeyed.                                                   *)
LEMMA MessageUnderstood ==
  ASSUME RInv, status = "ok", Delivers, UNCHANGED writerSide
  PROVE  /\ RInv'
         /\ \E m \in Said, g \in Seq(Arriving) :
               /\ delivered \in Seq(Arriving)
               /\ delivered' = delivered \o <<Whole(m)>>
               /\ sent = delivered' \o g /\ sent' = sent
<1>1. /\ rpc = "dispatch" /\ rpc' = "basic" /\ wire' = wire
      /\ status' = (IF IsRefused(got) THEN "chunk_size" ELSE "ok")
      /\ in_chunk_size' = ChunkSizeAfter(got) /\ chunk' = chunk
      /\ delivered' = IF IsDelivered(got) THEN Append(delivered, got)
                                          ELSE delivered
  BY DEF Delivers, RecvMessage
<1>2. PICK s \in Places, m \in Said : AtEnd(s, m)
  BY <1>1 DEF RInv, Followed, IsBetween, IsInside, IsAtEnd, Between,
     InsideChunk, Reading
<1> DEFINE t == After(s, m)
<1>3. /\ MaySend(s, m) /\ Completes(s, m) /\ got = Whole(m)
      /\ in_chunk_size = s.size /\ (\A d \in Cids : Free(chunk[d]))
      /\ delivered \in Seq(Arriving)
      /\ Behind(wire, t, delivered \o Done(s, m), sent, Spot)
  BY <1>2 DEF AtEnd
<1>4. m.len \in Nat /\ m.len > 0 /\ m.size \in Nat
  BY <1>3, SizeIsSome DEF Said, Sendable, MaySend
<1>5. got.len = m.len /\ got.type = m.type
      /\ got.body[1] = <<m.id, 1, m.size>>
  <2>1. 1 \in 1..m.len  BY <1>4
  <2> QED BY <1>3, <2>1 DEF Whole, WordAt
<1>6. m.type = SetChunkSize => /\ m.size >= MinChunkSize
                               /\ SizeIn[<<m.id, 1, m.size>>] = m.size
  BY DEF Said
<1>7. ~IsRefused(got)
  <2>1. ASSUME IsRefused(got) PROVE FALSE
    <3>1. m.type = SetChunkSize /\ SizeIn[got.body[1]] < MinChunkSize
      BY <1>5, <2>1 DEF IsRefused
    <3>2. SizeIn[got.body[1]] = m.size /\ m.size >= MinChunkSize
      BY <1>5, <1>6, <3>1
    <3> QED BY <1>4, <3>1, <3>2, MinSizeAssumption
  <2> QED BY <2>1
<1>8. IsDelivered(got)
  <2>1. ~IsDropped(got)  BY <1>4, <1>5 DEF IsDropped
  <2> QED BY <1>7, <2>1 DEF IsDelivered
<1>9. Done(s, m) = <<Whole(m)>> /\ t.off = 0 /\ t \in Places
  BY <1>3, AfterOK DEF Done
<1>10. in_chunk_size' = t.size
  <2>1. CASE m.type = SetChunkSize
    <3>1. t.size = m.size  BY <1>3, <2>1 DEF After, Place
    <3>2. ChunkSizeAfter(got) = SizeIn[got.body[1]]
      BY <1>5, <1>8, <2>1 DEF ChunkSizeAfter
    <3> QED BY <1>1, <1>5, <1>6, <2>1, <3>1, <3>2
  <2>2. CASE m.type # SetChunkSize
    <3>1. t.size = s.size  BY <1>3, <2>2, AfterOK
    <3>2. ChunkSizeAfter(got) = in_chunk_size
      BY <1>5, <2>2 DEF ChunkSizeAfter
    <3> QED BY <1>1, <1>3, <3>1, <3>2
  <2> QED BY <2>1, <2>2
<1>11. Whole(m) \in Arriving  BY DEF Arriving
<1>12. delivered' = delivered \o <<Whole(m)>>
  <2>1. delivered' = Append(delivered, Whole(m))  BY <1>1, <1>3, <1>8
  <2> DEFINE v == Whole(m)
  <2>2. v \in Arriving  BY <1>11
  <2> HIDE DEF v, Arriving
  <2>3. Append(delivered, v) = delivered \o <<v>>  BY <1>3, <2>2
  <2> QED BY <2>1, <2>3 DEF v
<1> HIDE DEF t
<1>13. wire \in Seq(Token)  BY DEF RInv, LineInv
<1>14. LineInv' /\ Spot' = Spot /\ sent' = sent  BY <1>1, <1>13, WriterRests
<1>15. Behind(wire', t, delivered', sent', Spot')
  BY <1>1, <1>3, <1>9, <1>12, <1>14
<1>16. Between(t)'
  BY <1>1, <1>3, <1>9, <1>10 DEF Between, StreamsAt
<1>17. IsBetween'  BY <1>9, <1>15, <1>16 DEF IsBetween
<1>18. status' = "ok" /\ chunk' \in [Cids -> ChunkRecord]
  BY <1>1, <1>7 DEF RInv
<1>19. RInv'  BY <1>14, <1>17, <1>18, ReaderKeeps DEF Followed
<1>20. PICK g \in Seq(Arriving) : sent' = delivered' \o g  BY <1>15 DEF Behind
<1> QED BY <1>3, <1>12, <1>14, <1>19, <1>20

(* A call that fails: the reader goes no further.                          *)
LEMMA BreakUnderstood ==
  ASSUME RInv, ReadBreaks, UNCHANGED writerSide
  PROVE  RInv'
<1>1. chunk' \in [Cids -> ChunkRecord]
  <2>1. chunk \in [Cids -> ChunkRecord]  BY DEF RInv
  <2>2. chunk' = chunk \/ chunk' = [chunk EXCEPT ![cur.cid].alloc = chunk[cur.cid].len]
    BY DEF ReadBreaks, ReadFails
  <2>3. \A c \in Cids : [chunk[c] EXCEPT !.alloc = chunk[c].len] \in ChunkRecord
    BY <2>1 DEF ChunkRecord
  <2>4. CASE cur.cid \in Cids
    BY <2>1, <2>2, <2>3, <2>4
  <2>5. CASE cur.cid \notin Cids
    BY <2>1, <2>2, <2>5
  <2> QED BY <2>4, <2>5
<1>2. status' = "io" /\ wire' = wire  BY DEF ReadBreaks, ReadFails
<1>3. LineInv'
  <2>1. wire \in Seq(Token)  BY DEF RInv, LineInv
  <2> QED BY <1>2, <2>1, WriterRests
<1> QED BY <1>1, <1>2, <1>3 DEF RInv

(* Nothing is written, and the reader waits for the first chunk.           *)
LEMMA InitFollowed == Init => RInv
<1> SUFFICES ASSUME Init PROVE RInv
  OBVIOUS
<1>1. WInv /\ OrderInv  BY WriterInitInv, OrderInit DEF Init
<1>2. /\ wire = << >> /\ sent = << >> /\ delivered = << >> /\ batch = << >>
      /\ responses = << >> /\ off = 0 /\ wpc = "idle" /\ wstatus = "ok"
      /\ out_chunk_size = FirstChunkSize /\ in_chunk_size = FirstChunkSize
      /\ rpc = "basic" /\ status = "ok"
      /\ chunk = [c \in Cids |-> FreshChunk]
  BY DEF Init, WriterInit, SocketInit, ReaderInit
<1> DEFINE s == Place(Nobody, 0, FirstChunkSize)
<1>3. << >> \in Seq(Token) /\ << >> \in Seq(Arriving) /\ << >> \in Seq(Said)
      /\ << >> \in Seq(WordSet)
  OBVIOUS
<1>4. LInv  BY <1>2, <1>3 DEF LInv, Batched
<1>5. LineInv  BY <1>1, <1>2, <1>3, <1>4 DEF LineInv
<1>6. s \in Places /\ s.off = 0 /\ s.size = FirstChunkSize
  BY ChunkSizeAssumption DEF Place, Places
<1>7. Here = s  BY <1>2 DEF Here, Place
<1> HIDE DEF s
<1>8. Spot = SpotAt(TRUE, s)  BY <1>2, <1>7 DEF Spot, Batched
<1>9. Reaches(<< >>, << >>, s, Spot)
  <2>1. IsAt(Spot, s)  BY <1>8 DEF IsAt, SpotAt
  <2> QED BY <1>6, <2>1, CarriesNothing DEF Reaches, ReachesEven
<1>10. Behind(wire, s, delivered, sent, Spot)
  <2>1. << >> = << >> \o << >>  BY <1>3, JoinsDone
  <2> QED BY <1>2, <1>3, <1>9, <2>1 DEF Behind
<1>11. FreshChunk \in ChunkRecord /\ Free(FreshChunk)
  BY <1>3, StreamAssumption DEF FreshChunk, ChunkRecord, Free
<1>12. Between(s)  BY <1>2, <1>6, <1>11 DEF Between, StreamsAt
<1>13. IsBetween  BY <1>6, <1>10, <1>12 DEF IsBetween
<1> QED BY <1>2, <1>5, <1>11, <1>13 DEF RInv, Followed

(* Each step of the writer.                                                *)
LEMMA WriterOnLine ==
  ASSUME ~ShortWrites, LineInv, Caller \/ Writes \/ WriterFails
  PROVE  LineInv' /\ OnTheLine
<1>1. LInv' /\ OnTheLine
  <2>1. CASE Caller
    BY <2>1, SendMessagesOnLine, SendPacketOnLine, QueuesOnLine DEF Caller
  <2>2. CASE Writes
    BY <2>2, GatherChunkOnLine, SkipEmptyOnLine, GatheredOnLine,
       WriteIovsOnLine, WritePacketOnLine, FlushNextOnLine, FlushedOnLine
       DEF Writes, Sends
  <2>3. CASE WriterFails
    BY <2>3, WriteFailsOnLine DEF WriterFails
  <2> QED BY <2>1, <2>2, <2>3
<1>2. [WriterNext]_writerVars
  BY DEF Caller, Writes, WriterFails, WriterNext
<1>3. WInv' /\ OrderInv'
  BY <1>2, WriterNextInv, OrderNext DEF LineInv
<1>4. wire' \in Seq(Token) /\ sent' \in Seq(Arriving)
  <2>1. PICK w \in Seq(Token), f \in Seq(Arriving) :
          wire' = wire \o w /\ sent' = sent \o f
    BY <1>1 DEF OnTheLine
  <2>2. wire \in Seq(Token) /\ sent \in Seq(Arriving)  BY DEF LineInv
  <2> QED BY <2>1, <2>2, JoinsTokens, JoinsDone
<1> QED BY <1>1, <1>3, <1>4 DEF LineInv

(* Every step of the two ends keeps the reader in step.                    *)
LEMMA NextFollowed ==
  ASSUME ~ShortWrites, RInv, [Next]_vars
  PROVE  RInv'
<1>1. CASE Caller \/ Writes \/ WriterFails
  <2>1. UNCHANGED readerSide  BY <1>1 DEF Caller, Writes, WriterFails
  <2>2. LineInv' /\ OnTheLine  BY <1>1, WriterOnLine DEF RInv
  <2> QED BY <2>1, <2>2, WritingFollowed
<1>2. CASE Reads
  <2>1. status = "ok"
    BY <1>2 DEF Reads, Receives, TakesBasicHeader, ReadBasicHeader,
       TakesMessageHeader, ReadMessageHeader, TakesExtended, ReadExtended,
       TakesPayload, ReadMessagePayload, Delivers, RecvMessage
  <2> QED BY <1>2, <2>1, BasicUnderstood, HeaderUnderstood,
       ExtendedUnderstood, PayloadUnderstood, MessageUnderstood
       DEF Reads, Receives
<1>3. CASE ReaderFails
  BY <1>3, BreakUnderstood DEF ReaderFails
<1>4. CASE UNCHANGED vars
  <2>1. UNCHANGED readerSide /\ UNCHANGED writerSide /\ wire' = wire
    BY <1>4 DEF vars, writerVars, readerSide, writerSide
  <2>2. wire' \in Seq(Token)  BY <2>1 DEF RInv, LineInv
  <2>3. LineInv' /\ Spot' = Spot /\ sent' = sent
    BY <2>1, <2>2, WriterRests
  <2>4. OnTheLine
    BY <2>1, <2>3, PutOnTheLine DEF RInv, LineInv
  <2> QED BY <2>1, <2>3, <2>4, WritingFollowed
<1> QED BY <1>1, <1>2, <1>3, <1>4 DEF Next

-----------------------------------------------------------------------------
(* What is next on the wire is what the reader takes it for.               *)
LEMMA FollowedInStep ==
  ASSUME RInv
  PROVE  InStep
<1> SUFFICES ASSUME status = "ok"
             PROVE  /\ rpc = "basic" /\ wire # << >> => NextIs("basic")
                    /\ rpc = "header" /\ wire # << >> => NextIs("header")
                    /\ rpc = "ext" /\ wire # << >> =>
                          ~NextIs("basic") /\ ~NextIs("header")
                    /\ rpc = "payload" =>
                          \A i \in 1..Least(PayloadSize, Len(wire)) :
                              wire[i].kind = "word"
  BY DEF InStep
<1>1. ASSUME rpc = "basic", wire # << >> PROVE NextIs("basic")
  <2>1. PICK s \in Places : Between(s) /\ Behind(wire, s, delivered, sent, Spot)
    BY <1>1 DEF RInv, Followed, IsBetween, IsInside, IsAtEnd, InsideChunk,
       Reading, AtEnd
  <2>2. PICK m \in Said, x \in Seq(Token) :
          wire = HeaderOf(s, m) \o x /\ Ahead(x, s, m, delivered, sent, Spot)
    BY <1>1, <2>1, BehindFirst
  <2>3. MaySend(s, m)  BY <2>2 DEF Ahead
  <2> DEFINE b == Basic(FmtOf(s), m.cid)
             q == BehindBasic(s, m)
  <2>4. b \in Token /\ q \in Seq(Token) /\ wire = (<<b>> \o q) \o x
    BY <2>2, <2>3, HeaderParts
  <2> HIDE DEF b, q
  <2>5. Head(wire) = b  BY <2>4, FirstLeft
  <2> QED BY <1>1, <2>5 DEF NextIs, Basic, b
<1>2. ASSUME rpc = "header", wire # << >> PROVE NextIs("header")
  <2>1. PICK s \in Places, m \in Said, left, x \in Seq(Token) :
          InsideChunk(s, m, left, x)
    BY <1>2, WithinChunk
  <2>2. MaySend(s, m)  BY <2>1 DEF InsideChunk, Ahead
  <2> DEFINE b == Header(HeadOf(m))
             q == ExtOf(m)
  <2>3. b \in Token /\ q \in Seq(Token) /\ wire = (<<b>> \o q) \o x
    BY <1>2, <2>1, <2>2, HeaderParts DEF InsideChunk, Reading
  <2> HIDE DEF b, q
  <2>4. Head(wire) = b  BY <2>3, FirstLeft
  <2> QED BY <1>2, <2>4 DEF NextIs, Header, b
<1>3. ASSUME rpc = "ext", wire # << >>
      PROVE  ~NextIs("basic") /\ ~NextIs("header")
  <2>1. PICK s \in Places, m \in Said, left, x \in Seq(Token) :
          InsideChunk(s, m, left, x)
    BY <1>3, WithinChunk
  <2>2. MaySend(s, m)  BY <2>1 DEF InsideChunk, Ahead
  <2> DEFINE b == Extended(m.ts)
  <2>3. b \in Token /\ wire = <<b>> \o x
    BY <1>3, <2>1, <2>2, HeaderParts DEF InsideChunk, Reading
  <2> HIDE DEF b, Token
  <2>4. << >> \in Seq(Token) /\ <<b>> \o << >> = <<b>>  BY <2>3
  <2>5. wire = (<<b>> \o << >>) \o x  BY <2>3, <2>4
  <2>6. Head(wire) = b  BY <2>3, <2>4, <2>5, FirstLeft
  <2> QED BY <2>6 DEF NextIs, Extended, b
<1>4. ASSUME rpc = "payload"
      PROVE  \A i \in 1..Least(PayloadSize, Len(wire)) : wire[i].kind = "word"
  <2>1. PICK s \in Places, m \in Said, left, x \in Seq(Token) :
          InsideChunk(s, m, left, x)
    BY <1>4, WithinChunk
  <2>2. /\ wire = left \o x /\ Ahead(x, s, m, delivered, sent, Spot)
        /\ in_chunk_size = s.size /\ cur.cid = m.cid /\ left = << >>
        /\ Holding(chunk[m.cid], m, s.off)
    BY <1>4, <2>1 DEF InsideChunk, Reading
  <2>3. MaySend(s, m) /\ wire = x  BY <2>2, JoinsTokens DEF Ahead
  <2> DEFINE n == Size(s, m)
             p == PayloadOf(s, m)
  <2>4. n \in Nat /\ PayloadSize = n
    BY <2>2, <2>3, SizeIsSome, SizeUnderstood
  <2>5. p \in Seq(Token) /\ Len(p) = n  BY <2>3, ChunkType
  <2>6. \A i \in 1..n : p[i].kind = "word"
    <3>1. \A i \in 1..n : p[i] = Word(WordAt(m, s.off + i))
      BY DEF PayloadOf, WordTokens
    <3>2. \A w : Word(w).kind = "word"  BY DEF Word
    <3> HIDE DEF n, p
    <3> QED BY <3>1, <3>2
  <2> HIDE DEF n, p
  <2>7. CASE x = << >>
    <3>1. Least(PayloadSize, Len(wire)) = 0
      <4>1. Len(wire) = 0  BY <2>3, <2>7
      <4> QED BY <2>4, <4>1 DEF Least
    <3> QED BY <3>1
  <2>8. CASE x # << >>
    <3>1. PICK y \in Seq(Token) : x = p \o y
      BY <2>2, <2>8 DEF Ahead, Waits, Follows, p
    <3>2. n <= Len(wire) /\ \A i \in 1..n : wire[i] = p[i]
      BY <2>3, <2>5, <3>1, LeavesRest
    <3>3. Len(wire) \in Nat  BY <2>3
    <3>4. Least(PayloadSize, Len(wire)) = n  BY <2>4, <3>2, <3>3 DEF Least
    <3> QED BY <2>6, <3>2, <3>4
  <2> QED BY <2>7, <2>8
<1> QED BY <1>1, <1>2, <1>3, <1>4

(* With nothing under way, both ends are at the same place.                *)
LEMMA FollowedAgree ==
  ASSUME RInv
  PROVE  AgreeWhenQuiet
<1> SUFFICES ASSUME wpc = "idle", wstatus = "ok", wire = << >>, status = "ok",
                    rpc = "basic"
             PROVE  /\ in_chunk_size = out_chunk_size
                    /\ \A c \in Cids : ~chunk[c].msg
  BY DEF AgreeWhenQuiet
<1>1. PICK s \in Places : Between(s) /\ Behind(wire, s, delivered, sent, Spot)
  BY DEF RInv, Followed, IsBetween, IsInside, IsAtEnd, InsideChunk,
     Reading, AtEnd
<1>2. Spot = SpotAt(TRUE, Here)  BY DEF Spot, Batched
<1>3. Spot.ok /\ ~Spot.mid /\ Spot.at = Here  BY <1>2 DEF SpotAt
<1>4. Here = s  BY <1>1, <1>3, BehindQuiet
<1>5. off = 0
  <2>1. off \in Nat /\ ~(off > 0)
    BY DEF RInv, LineInv, LInv, WInv, WriterTypeOK
  <2> QED BY <2>1
<1>6. s.off = 0 /\ s.size = out_chunk_size  BY <1>4, <1>5 DEF Here, Place
<1> QED BY <1>1, <1>6 DEF Between, StreamsAt, Free

(* Two programs of this code understand each other, as long as writev      *)
(* writes everything or fails: whatever batches, packets and responses one *)
(* sends, the other takes every token for what it is, refuses none, and    *)
(* both agree on the chunk size when nothing is under way.                 *)
THEOREM LinkIsUnderstood == ~ShortWrites => (Spec => []Understood)
<1> SUFFICES ASSUME ~ShortWrites PROVE Spec => []Understood
  OBVIOUS
<1>1. Init => RInv  BY InitFollowed
<1>2. RInv /\ [Next]_vars => RInv'  BY NextFollowed
<1>3. RInv => Understood
  BY FollowedInStep, FollowedAgree DEF RInv, Understood, NoFalseError
<1> QED BY <1>1, <1>2, <1>3, PTL DEF Spec

-----------------------------------------------------------------------------
(* What may arrive are messages of the channel.                            *)
LEMMA ArrivingInChannel == Arriving \subseteq AllMessages
<1> SUFFICES ASSUME NEW m \in Said PROVE Whole(m) \in AllMessages
  BY DEF Arriving
<1>1. PICK x \in MsgPool \cup PktPool :
        /\ x.cid = m.cid /\ x.type = m.type /\ x.ts = m.ts
        /\ x.len = m.len /\ x.size = m.size
  BY DEF Said
<1>2. m.id \in 1..MaxSends /\ m.sid \in StreamIds  BY DEF Said
<1> DEFINE y == [cid |-> x.cid, type |-> x.type, sid |-> x.sid, ts |-> x.ts,
                 len |-> x.len, size |-> x.size, id |-> m.id]
<1>3. [Whole(y) EXCEPT !.sid = m.sid] \in AllMessages
  <2> DEFINE E(k, i, z) ==
               [Whole([cid |-> k.cid, type |-> k.type, sid |-> k.sid,
                       ts |-> k.ts, len |-> k.len, size |-> k.size,
                       id |-> i]) EXCEPT !.sid = z]
  <2>1. AllMessages = {E(k, i, z) :
           k \in MsgPool \cup PktPool, i \in 1..MaxSends, z \in StreamIds}
    BY DEF AllMessages
  <2>2. E(x, m.id, m.sid) = [Whole(y) EXCEPT !.sid = m.sid]  OBVIOUS
  <2> HIDE DEF E, y
  <2>3. E(x, m.id, m.sid) \in AllMessages  BY <1>2, <2>1
  <2> QED BY <2>2, <2>3
<1>4. /\ y.cid = m.cid /\ y.type = m.type /\ y.ts = m.ts /\ y.len = m.len
      /\ y.size = m.size /\ y.id = m.id
  BY <1>1
<1> HIDE DEF y
<1> DEFINE b == [i \in 1..m.len |-> WordAt(m, i)]
<1>5. [i \in 1..y.len |-> WordAt(y, i)] = b  BY <1>4 DEF WordAt
<1> HIDE DEF b
<1>6. Whole(y) = [cid |-> m.cid, type |-> m.type, sid |-> y.sid,
                  ts |-> m.ts % TMod, len |-> m.len, body |-> b]
  BY <1>4, <1>5 DEF Whole
<1>7. Whole(m) = [cid |-> m.cid, type |-> m.type, sid |-> m.sid,
                  ts |-> m.ts % TMod, len |-> m.len, body |-> b]
  BY DEF Whole, b
<1>8. [Whole(y) EXCEPT !.sid = m.sid] = Whole(m)  BY <1>6, <1>7
<1> QED BY <1>3, <1>8

(* Messages written completely are messages sent over the channel.         *)
LEMMA SentOverChannel ==
  ASSUME sent \in Seq(Arriving), NEW f \in Seq(Arriving), sent' = sent \o f,
         delivered' = delivered
  PROVE  Channel!Send \/ UNCHANGED <<sent, delivered>>
<1>1. CASE f = << >>
  <2>1. sent' = sent  BY <1>1, JoinsDone
  <2> QED BY <2>1
<1>2. CASE f # << >>
  <2> HIDE DEF Arriving
  <2> DEFINE n == Len(sent)
             v == sent \o f
  <2>1. /\ v \in Seq(Arriving) /\ Len(v) = n + Len(f) /\ n \in Nat
        /\ Len(f) \in Nat /\ Len(f) > 0
        /\ \A i \in 1..n : v[i] = sent[i]
    BY <1>2
  <2> HIDE DEF v
  <2>2. SubSeq(v, 1, n) = sent
    <3> DEFINE u == SubSeq(v, 1, n)
    <3>1. u \in Seq(Arriving) /\ Len(u) = n /\ \A i \in 1..n : u[i] = v[i]
      BY <2>1
    <3> HIDE DEF u
    <3> QED BY <2>1, <3>1 DEF u
  <2>3. \A i \in (n + 1)..Len(v) : v[i] \in AllMessages
    <3>1. \A i \in 1..Len(v) : v[i] \in Arriving  BY <2>1
    <3>2. \A i \in (n + 1)..Len(v) : i \in 1..Len(v)  BY <2>1
    <3> QED BY <3>1, <3>2, ArrivingInChannel
  <2>4. sent' = v  BY DEF v
  <2>5. Len(v) > n  BY <2>1
  <2> QED BY <2>2, <2>3, <2>4, <2>5 DEF Channel!Send
<1> QED BY <1>1, <1>2

(* What the reader hands on is the oldest message that it has not handed   *)
(* on yet, as it was sent.                                                 *)
LEMMA ReceivedFromChannel ==
  ASSUME RInv, status = "ok", Delivers, UNCHANGED writerSide
  PROVE  Channel!Receive
<1>1. PICK m \in Said, g \in Seq(Arriving) :
        /\ delivered \in Seq(Arriving)
        /\ delivered' = delivered \o <<Whole(m)>>
        /\ sent = delivered' \o g /\ sent' = sent
  BY MessageUnderstood
<1> DEFINE v == Whole(m)
           n == Len(delivered)
<1>2. v \in Arriving  BY DEF Arriving
<1> HIDE DEF v, Arriving
<1>3. /\ delivered' = delivered \o <<v>> /\ delivered' \in Seq(Arriving)
      /\ Len(delivered') = n + 1 /\ delivered'[n + 1] = v /\ n \in Nat
      /\ delivered' = Append(delivered, v)
  BY <1>1, <1>2 DEF v
<1> DEFINE u == delivered'
<1>4. u \in Seq(Arriving) /\ sent = u \o g /\ Len(u) = n + 1 /\ u[n + 1] = v
  BY <1>1, <1>3
<1> HIDE DEF u
<1>5. Len(sent) = n + 1 + Len(g) /\ Len(g) \in Nat /\ sent[n + 1] = v
  <2>1. Len(u \o g) = Len(u) + Len(g)
        /\ \A i \in 1..Len(u) : (u \o g)[i] = u[i]
    BY <1>4, JoinParts
  <2>2. Len(g) \in Nat /\ n + 1 \in 1..Len(u)  BY <1>3, <1>4
  <2> QED BY <1>4, <2>1, <2>2
<1>6. n < Len(sent)  BY <1>3, <1>5
<1> QED BY <1>1, <1>3, <1>5, <1>6 DEF Channel!Receive

(* Every step is one of the channel, or changes nothing it knows of.       *)
LEMMA ChannelStep ==
  ASSUME ~ShortWrites, RInv, [Next]_vars
  PROVE  [Channel!Next]_Channel!channelVars
<1> SUFFICES Channel!Send \/ Channel!Receive \/ UNCHANGED <<sent, delivered>>
  BY DEF Channel!Next, Channel!channelVars
<1>1. CASE Caller \/ Writes \/ WriterFails
  <2>1. delivered' = delivered
    BY <1>1 DEF Caller, Writes, WriterFails, readerSide
  <2>2. OnTheLine /\ sent \in Seq(Arriving)
    BY <1>1, WriterOnLine DEF RInv, LineInv
  <2>3. PICK f \in Seq(Arriving) : sent' = sent \o f
    BY <2>2 DEF OnTheLine
  <2> QED BY <2>1, <2>2, <2>3, SentOverChannel
<1>2. CASE Reads
  <2>1. CASE Delivers
    <3>1. status = "ok"  BY <2>1 DEF Delivers, RecvMessage
    <3> QED BY <1>2, <2>1, <3>1, ReceivedFromChannel DEF Reads
  <2>2. CASE ~Delivers
    BY <1>2, <2>2 DEF Reads, Receives, TakesBasicHeader,
       TakesMessageHeader, TakesExtended, TakesPayload, writerSide
  <2> QED BY <2>1, <2>2
<1>3. CASE ReaderFails
  BY <1>3 DEF ReaderFails, ReadBreaks, writerSide
<1>4. CASE UNCHANGED vars
  BY <1>4 DEF vars, writerVars
<1> QED BY <1>1, <1>2, <1>3, <1>4 DEF Next

(* Refinement: between a writer and a reader of this code lies a reliable  *)
(* FIFO channel of whole messages.  What is sent in batches, as packets or *)
(* as responses arrives whole, unchanged, once and in order, however       *)
(* chunks are cut and gathered and whatever the chunk sizes.               *)
THEOREM LinkThroughChannel == ~ShortWrites => (Spec => ChannelSpec)
<1> SUFFICES ASSUME ~ShortWrites PROVE Spec => ChannelSpec
  OBVIOUS
<1>1. Init => RInv  BY InitFollowed
<1>2. RInv /\ [Next]_vars => RInv'  BY NextFollowed
<1>3. Init => Channel!Init
  BY DEF Init, SocketInit, WriterInit, Channel!Init
<1>4. RInv /\ [Next]_vars => [Channel!Next]_Channel!channelVars
  BY ChannelStep
<1> QED BY <1>1, <1>2, <1>3, <1>4, PTL DEF Spec, ChannelSpec, Channel!Spec

-----------------------------------------------------------------------------
(* The writer keeps its invariants while it is read from, even if writev   *)
(* may write a part and report success.                                    *)
LEMMA WriterInLink ==
  ASSUME WInv, OrderInv, [Next]_vars
  PROVE  WInv' /\ OrderInv'
<1>1. CASE Caller \/ Writes \/ WriterFails
  <2>1. [WriterNext]_writerVars
    BY <1>1 DEF Caller, Writes, WriterFails, WriterNext
  <2> QED BY <2>1, WriterNextInv, OrderNext
<1>2. CASE UNCHANGED writerSide
  BY <1>2, WriterUntouched
<1> QED BY <1>1, <1>2 DEF Next, Reads, ReaderFails, vars, writerVars, writerSide

(* What a connected writer has gathered is written as it was gathered.     *)
THEOREM LinkGathersIntact == Spec => []GatheredIntact
<1>1. Init => WInv /\ OrderInv  BY WriterInitInv, OrderInit DEF Init
<1>2. WInv /\ OrderInv /\ [Next]_vars => (WInv /\ OrderInv)'
  BY WriterInLink
<1>3. WInv => GatheredIntact  BY RoomSuffices DEF WInv, GatheredIntact
<1> QED BY <1>1, <1>2, <1>3, PTL DEF Spec

(* And it writes in the order of the calls, all unless a write failed.     *)
THEOREM LinkWritesInOrder == Spec => []WrittenInOrder
<1>1. Init => WInv /\ OrderInv  BY WriterInitInv, OrderInit DEF Init
<1>2. WInv /\ OrderInv /\ [Next]_vars => (WInv /\ OrderInv)'
  BY WriterInLink
<1>3. WInv /\ OrderInv => WrittenInOrder  BY InvInOrder
<1> QED BY <1>1, <1>2, <1>3, PTL DEF Spec
=============================================================================
