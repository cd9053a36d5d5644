------------------------------- MODULE Records -------------------------------
(***************************************************************************)
(* What a codec of the program writes, another copy of it reads: a record  *)
(* is encoded into a block of the size its class asks for, the block       *)
(* reaches a decoder whole or cut, and the decoder gets the fields back.   *)
(* The records are RTMP packets with their AMF0 values (RtmpPackets), the  *)
(* boxes of MP4 files (Mp4Boxes) and the packets of MPEG transport streams *)
(* (TsPackets).                                                            *)
(***************************************************************************)
EXTENDS RtmpPackets

CONSTANT Items     \* the records, a sequence: see the three items below

Boxes == INSTANCE Mp4Boxes
Ts == INSTANCE TsPackets

\* A packet: the codec of its class for its fields, the fields, and what the
\* constructor of the class gives to those a decoder may not find.
PacketItem(codec, fields, initial) ==
    [kind |-> "packet", size |-> codec.size, write |-> codec.write, read |-> codec.read,
     fields |-> fields, initial |-> initial, ends |-> "ok"]
BoxItem(box) ==
    [kind |-> "box", size |-> <<Boxes!NbBytes(box)>>, write |-> Boxes!Encode(box), read |-> <<>>,
     fields |-> [x \in {"box"} |-> box], initial |-> <<>>, ends |-> "ok"]
\* A packet of 188 bytes with the n bytes of a frame that go behind it, and
\* what its decoder knows: the use of each pid, and of the message of the pid
\* how long it is, how much of it is there and the counter of its last packet.
TsItem(write, knows, fields) ==
    [kind |-> "ts", size |-> <<Ts!SRS_TS_PACKET_SIZE>>, write |-> write, read |-> knows,
     fields |-> fields, initial |-> <<>>, ends |-> "ok"]
\* A record that its decoder refuses
RefusedItem(record) == [record EXCEPT !.ends = "refused"]

VARIABLES
    item,     \* the record
    stage,    \* "new", "encoded", "delivered", "decoded" or "stopped"
    block,    \* the bytes
    result    \* the reader of the decoder

recordVars == <<item, stage, block, result>>

\* SrsPacket::get_size; a record that is only decoded is as long as it is.
GetSize == IF item.size = <<>> THEN Len(item.write) ELSE SumOf(item.size)

RecordsInit ==
    /\ item \in Range(Items)
    /\ stage = "new"
    /\ block = <<>>
    /\ result = Reader(<<>>)

\* SrsPacket::encode: a block of the size, and the fields into it. What is not
\* written stays what it was; what does not fit is refused.
Fits == Len(item.write) <= GetSize
Encode ==
    /\ stage = "new"
    /\ IF Fits
       THEN /\ stage' = IF item.read = <<>> /\ item.kind = "packet" THEN "stopped" ELSE "encoded"
            /\ block' = item.write \o [i \in 1..(GetSize - Len(item.write)) |-> Junk]
       ELSE stage' = "stopped" /\ UNCHANGED block
    /\ UNCHANGED <<item, result>>

\* The payload that arrives: a peer may have sent less.
Deliver ==
    /\ stage = "encoded"
    /\ \E n \in 0..Len(block) :
         block' = SubSeq(block, 1, n)
    /\ stage' = "delivered"
    /\ UNCHANGED <<item, result>>

\* do_decode_message: an empty payload makes no stream. A box is decoded when
\* the whole of it is there.
ReadPacket == FoldLeft(ReadStep, Reader(block), item.read)
ReadWholeBox == Into("box", Boxes!ReadBox(Reader(block)))
ReadTs == Ts!ReadTsPacket(Ts!TsReader(block, item.read))
Decoder == CASE item.kind = "packet" -> ReadPacket
             [] item.kind = "box" -> ReadWholeBox
             [] item.kind = "ts" -> ReadTs
Decode ==
    /\ stage = "delivered"
    /\ result' = IF block = <<>> \/ (item.kind = "box" /\ Len(block) < GetSize)
                 THEN Fail(Reader(block)) ELSE Decoder
    /\ stage' = "decoded"
    /\ UNCHANGED <<item, block>>

RecordsNext == Encode \/ Deliver \/ Decode

RecordsSpec == RecordsInit /\ [][RecordsNext]_recordVars

-----------------------------------------------------------------------------
(* Properties *)
Decoded == stage = "decoded"
Uncut == Len(block) = GetSize
Found(f) == f \in DOMAIN result.r
FieldValue(f) == IF Found(f) THEN result.r[f] ELSE item.initial[f]

\* What an encoder writes is exactly as long as its get_size says: one byte
\* more is an error of encode_packet, one less sends a byte nobody wrote.
SizeExact == stage # "new" => Len(item.write) = GetSize

\* A block that arrives whole is decoded to its end, and every field is the one
\* that was encoded, with the constructor's value for those left out; a record
\* that the format does not allow is refused.
RoundTrip ==
    (Decoded /\ Uncut) =>
        /\ result.e = item.ends
        /\ item.ends = "ok" =>
              Empty(result) /\ \A f \in DOMAIN item.fields : FieldValue(f) = item.fields[f]

\* The three loops over the fields of a record, get_size, encode and decode,
\* agree with each other.
EncodesExactly == SizeExact /\ RoundTrip

\* No block, wherever it is cut, makes a decoder read what it did not ask for:
\* that is a failed assertion and the end of the program.
NoUncheckedRead == result.e # "abort"

\* A container read from a cut block: fewer elements, and the last is cut.
Containers == {ObjectMark, EcmaArrayMark, StrictArrayMark}
Pairs(v) == [i \in DOMAIN v[2] |-> IF v[1] = StrictArrayMark THEN <<<<>>, v[2][i]>> ELSE v[2][i]]
RECURSIVE CutOf(_, _)
CutOf(v, w) ==
    \/ v = w
    \/ /\ v[1] \in Containers /\ w[1] \in Containers
       /\ LET p == Pairs(v) q == Pairs(w) n == Len(p) IN
          /\ n <= Len(q)
          /\ \A i \in 1..(n - 1) : p[i] = q[i]
          /\ n = 0 \/ (p[n][1] = q[n][1] /\ CutOf(p[n][2], q[n][2]))

\* A decoder that accepts a cut block has invented nothing: every field it read
\* is the one that was encoded, or an object, an array or the bytes of a frame
\* that end early.
PartOf(f, v, w) ==
    CASE item.kind = "packet" -> CutOf(v, w)
      [] item.kind = "box" -> v = w
      [] item.kind = "ts" -> IF f \in {"payload", "given"} THEN IsPrefix(v, w) ELSE v = w
NothingInvented ==
    (Decoded /\ result.e = "ok") =>
        \A f \in DOMAIN item.fields : Found(f) => PartOf(f, result.r[f], item.fields[f])
=============================================================================
