----------------------------- MODULE RtmpPackets -----------------------------
(* The packets of RTMP as their classes define them: the size they ask for,  *)
(* what they write into a block of that size, and the steps of their decoder. *)
(* A step names what is read and the field it goes to.                       *)
EXTENDS Amf0

\* The names the decoders compare with, as opaque strings.
Name(k) == Opaque(k, 2)
Connect == Name(1)
Result == Name(2)
CreateStream == Name(3)
CloseStream == Name(4)
ReleaseStream == Name(5)
FCPublish == Name(6)
Publish == Name(7)
Pause == Name(8)
Play == Name(9)
OnBWDone == Name(10)
OnStatus == Name(11)
SampleAccess == Name(12)
OnMetaData == Name(13)
SetDataFrame == Name(14)
JDProfiling == Name(15)
StopPlay == Name(16)
Playing == Name(17)
Live == Name(18)
FastHs == Name(19)

None == <<-1, <<>>>>
Minus1 == Opaque(31, 8)
Minus2 == Opaque(32, 8)
NumberZero == Opaque(33, 8)

If(c, x) == IF c THEN <<x>> ELSE <<>>
\* An optional part is written when its pointer is not null.
WriteOpt(v) == IF v = None THEN <<>> ELSE WriteAny(v)
SizeOpt(v) == IF v = None THEN 0 ELSE TotalSize(v)

-----------------------------------------------------------------------------
(* Decoding *)
Into(f, s) == Then(s, LAMBDA t : Set(t, f, ValueOf(t)))

\* An object or an ecma array becomes the object; any other value is read and
\* forgotten.
AsObject(f, s) ==
    Then(s, LAMBDA t :
        IF ValueOf(t)[1] \in {ObjectMark, EcmaArrayMark} THEN Set(t, f, Object(ValueOf(t)[2])) ELSE t)

\* The length of an SEI part: bytes of 255 and one that is less.
RECURSIVE ReadFf(_, _, _)
ReadFf(s, f, n) ==
    Then(Checked(s, "v", 1), LAMBDA t :
        IF ValueOf(t) = <<255>> THEN ReadFf(t, f, n + 255) ELSE Set(t, f, n + AsByte(ValueOf(t))))

\* The reset of play: a boolean or a number.
AsFlag(f, s) ==
    Then(s, LAMBDA t :
        LET v == ValueOf(t) IN
        IF v[1] = BooleanMark THEN Set(t, f, v[2])
        ELSE IF v[1] = NumberMark THEN Set(t, f, IF v[2] = NumberZero THEN <<0>> ELSE <<1>>)
        ELSE Fail(t))

\* An event: the width of its data is that of its type.
ReadEvent(s) ==
    Then(Checked(s, "event_type", 2), LAMBDA t :
        LET e == AsInt(t.r["event_type"])
            u == Checked(t, "event_data", IF e = 26 THEN 1 ELSE 4)
        IN IF e = 3 THEN Checked(u, "extra_data", 4) ELSE u)

Optional == {"opt_str", "opt_num", "opt_any", "opt_object", "opt_flag"}
Strings == {"str", "opt_str", "name", "frame"}
Values == {"any", "opt_any", "opt_object", "opt_flag", "to_object"}
\* @setDataFrame is followed by the real name.
ReadString(op, s, step) ==
    Then(Into(step[2], ReadStr(s, step[3])), LAMBDA t :
        CASE op = "name" -> Check(t, t.r[step[2]] \in step[4])
          [] op = "frame" -> IF t.r[step[2]] = SetDataFrame
                             THEN Into(step[2], ReadStr(t, SetDataFrame)) ELSE t
          [] OTHER -> t)
TakeValue(op, f, t) ==
    CASE op \in {"any", "opt_any"} -> Into(f, t)
      [] op = "opt_object" -> IF Going(t) /\ IsObject(ValueOf(t)) THEN Into(f, t) ELSE t
      [] op = "opt_flag" -> AsFlag(f, t)
      [] op = "to_object" -> AsObject(f, t)
ReadStep(s, step) ==
    LET op == step[1] f == step[2] IN
    IF op \in Optional /\ Empty(s) THEN s
    ELSE CASE op \in Strings -> ReadString(op, s, step)
           [] op \in Values -> TakeValue(op, f, ReadAny(s))
           [] op \in {"num", "opt_num"} -> Into(f, ReadNumber(s))
           [] op = "bool" -> Into(f, ReadBoolean(s))
           [] op = "null" -> ReadNull(s)
           [] op = "undefined" -> ReadUndefined(s)
           [] op = "object" -> Into(f, ReadObject(s, <<>>))
           [] op = "int" -> Checked(s, f, step[3])
           [] op = "ff" -> ReadFf(s, f, 0)
           [] op = "event" -> ReadEvent(s)

-----------------------------------------------------------------------------
(* Commands *)
SrsConnectAppPacket(p) ==
    [size |-> <<SizeStr(p.command_name), SizeNumber, TotalSize(p.command_object),
                SizeOpt(p.args)>>,
     write |-> WriteStr(p.command_name) \o WriteNumber(p.transaction_id)
               \o WriteAny(p.command_object) \o WriteOpt(p.args),
     read |-> << <<"name", "command_name", Connect, {Connect}>>, <<"num", "transaction_id">>,
                 <<"object", "command_object">>, <<"opt_object", "args">> >>]

SrsConnectAppResPacket(p) ==
    [size |-> <<SizeStr(p.command_name), SizeNumber, TotalSize(p.props), TotalSize(p.info)>>,
     write |-> WriteStr(p.command_name) \o WriteNumber(p.transaction_id)
               \o WriteAny(p.props) \o WriteAny(p.info),
     read |-> << <<"name", "command_name", Result, {Result}>>, <<"num", "transaction_id">>,
                 <<"opt_object", "props">>, <<"object", "info">> >>]

\* The name of a call only has to be something; the constructor sets none.
SrsCallPacket(p) ==
    [size |-> <<SizeStr(p.command_name), SizeNumber, SizeOpt(p.command_object),
                SizeOpt(p.arguments)>>,
     write |-> WriteStr(p.command_name) \o WriteNumber(p.transaction_id)
               \o WriteOpt(p.command_object) \o WriteOpt(p.arguments),
     read |-> << <<"name", "command_name", <<>>, {p.command_name} \ {<<>>}>>,
                 <<"num", "transaction_id">>, <<"any", "command_object">>,
                 <<"opt_any", "arguments">> >>]

SrsCallResPacket(p) ==
    [size |-> <<SizeStr(p.command_name), SizeNumber, SizeOpt(p.command_object),
                SizeOpt(p.response)>>,
     write |-> WriteStr(p.command_name) \o WriteNumber(p.transaction_id)
               \o WriteOpt(p.command_object) \o WriteOpt(p.response),
     read |-> <<>>]

SrsCreateStreamPacket(p) ==
    [size |-> <<SizeStr(p.command_name), SizeNumber, SizeNull>>,
     write |-> WriteStr(p.command_name) \o WriteNumber(p.transaction_id) \o WriteNull,
     read |-> << <<"name", "command_name", CreateStream, {CreateStream}>>,
                 <<"num", "transaction_id">>, <<"null", "">> >>]

SrsCreateStreamResPacket(p) ==
    [size |-> <<SizeStr(p.command_name), SizeNumber, SizeNull, SizeNumber>>,
     write |-> WriteStr(p.command_name) \o WriteNumber(p.transaction_id) \o WriteNull
               \o WriteNumber(p.stream_id),
     read |-> << <<"name", "command_name", Result, {Result}>>, <<"num", "transaction_id">>,
                 <<"null", "">>, <<"num", "stream_id">> >>]

SrsFMLEStartPacket(p) ==
    [size |-> <<SizeStr(p.command_name), SizeNumber, SizeNull, SizeStr(p.stream_name)>>,
     write |-> WriteStr(p.command_name) \o WriteNumber(p.transaction_id) \o WriteNull
               \o WriteStr(p.stream_name),
     read |-> << <<"name", "command_name", ReleaseStream, {ReleaseStream, FCPublish}>>,
                 <<"num", "transaction_id">>, <<"null", "">>, <<"str", "stream_name", <<>>>> >>]

SrsFMLEStartResPacket(p) ==
    [size |-> <<SizeStr(p.command_name), SizeNumber, SizeNull, SizeNull>>,
     write |-> WriteStr(p.command_name) \o WriteNumber(p.transaction_id) \o WriteNull
               \o WriteUndefined,
     read |-> << <<"name", "command_name", Result, {Result}>>, <<"num", "transaction_id">>,
                 <<"null", "">>, <<"undefined", "">> >>]

SrsPublishPacket(p) ==
    [size |-> <<SizeStr(p.command_name), SizeNumber, SizeNull, SizeStr(p.stream_name),
                SizeStr(p.type)>>,
     write |-> WriteStr(p.command_name) \o WriteNumber(p.transaction_id) \o WriteNull
               \o WriteStr(p.stream_name) \o WriteStr(p.type),
     read |-> << <<"name", "command_name", Publish, {Publish}>>, <<"num", "transaction_id">>,
                 <<"null", "">>, <<"str", "stream_name", <<>>>>, <<"opt_str", "type", Live>> >>]

\* Only decoded: the peer's encoding is the one its decoder expects.
SrsPausePacket(p) ==
    [size |-> <<>>,
     write |-> WriteStr(p.command_name) \o WriteNumber(p.transaction_id) \o WriteNull
               \o WriteBoolean(Boolean(p.is_pause = <<1>>)) \o WriteNumber(p.time_ms),
     read |-> << <<"name", "command_name", Pause, {Pause}>>, <<"num", "transaction_id">>,
                 <<"null", "">>, <<"bool", "is_pause">>, <<"num", "time_ms">> >>]
SrsCloseStreamPacket(p) ==
    [size |-> <<>>,
     write |-> WriteStr(p.command_name) \o WriteNumber(p.transaction_id) \o WriteNull,
     read |-> << <<"str", "command_name", CloseStream>>, <<"num", "transaction_id">>,
                 <<"null", "">> >>]

\* start, duration and reset are left out from the end as long as they have
\* the value of the constructor.
SrsPlayPacket(p) ==
    LET Start == p.start # Minus2 \/ p.duration # Minus1 \/ p.reset = <<0>>
        Duration == p.duration # Minus1 \/ p.reset = <<0>>
        Reset == p.reset = <<0>>
    IN [size |-> <<SizeStr(p.command_name), SizeNumber, SizeNull, SizeStr(p.stream_name)>>
                 \o If(Start, SizeNumber) \o If(Duration, SizeNumber) \o If(Reset, SizeBoolean),
        write |-> WriteStr(p.command_name) \o WriteNumber(p.transaction_id) \o WriteNull
                  \o WriteStr(p.stream_name)
                  \o (IF Start THEN WriteNumber(p.start) ELSE <<>>)
                  \o (IF Duration THEN WriteNumber(p.duration) ELSE <<>>)
                  \o (IF Reset THEN WriteBoolean(Boolean(p.reset = <<1>>)) ELSE <<>>),
        read |-> << <<"name", "command_name", Play, {Play}>>, <<"num", "transaction_id">>,
                    <<"null", "">>, <<"str", "stream_name", <<>>>>, <<"opt_num", "start">>,
                    <<"opt_num", "duration">>, <<"opt_flag", "reset">> >>]

SrsPlayResPacket(p) ==
    [size |-> <<SizeStr(p.command_name), SizeNumber, SizeNull, TotalSize(p.desc)>>,
     write |-> WriteStr(p.command_name) \o WriteNumber(p.transaction_id) \o WriteNull
               \o WriteAny(p.desc),
     read |-> <<>>]

SrsOnBWDonePacket(p) ==
    [size |-> <<SizeStr(p.command_name), SizeNumber, SizeNull>>,
     write |-> WriteStr(p.command_name) \o WriteNumber(p.transaction_id) \o WriteNull,
     read |-> <<>>]

SrsOnStatusCallPacket(p) ==
    [size |-> <<SizeStr(p.command_name), SizeNumber, SizeNull, TotalSize(p.data)>>,
     write |-> WriteStr(p.command_name) \o WriteNumber(p.transaction_id) \o WriteNull
               \o WriteAny(p.data),
     read |-> << <<"str", "command_name", OnStatus>>, <<"num", "transaction_id">>,
                 <<"null", "">>, <<"object", "data">> >>]

\* Only the packets that end a phase of the test are read to their end.
SrsBandwidthPacket(p) ==
    [size |-> <<SizeStr(p.command_name), SizeNumber, SizeNull, TotalSize(p.data)>>,
     write |-> WriteStr(p.command_name) \o WriteNumber(p.transaction_id) \o WriteNull
               \o WriteAny(p.data),
     read |-> << <<"str", "command_name", OnStatus>>, <<"num", "transaction_id">>,
                 <<"null", "">> >>
              \o If(p.command_name = StopPlay, <<"object", "data">>)]

-----------------------------------------------------------------------------
(* Data *)
SrsOnStatusDataPacket(p) ==
    [size |-> <<SizeStr(p.command_name), TotalSize(p.data)>>,
     write |-> WriteStr(p.command_name) \o WriteAny(p.data),
     read |-> << <<"str", "command_name", OnStatus>>, <<"to_object", "data">> >>]

SrsSampleAccessPacket(p) ==
    [size |-> <<SizeStr(p.command_name), SizeBoolean, SizeBoolean>>,
     write |-> WriteStr(p.command_name) \o WriteBoolean(p.video_sample_access)
               \o WriteBoolean(p.audio_sample_access),
     read |-> <<>>]

SrsOnMetaDataPacket(p) ==
    [size |-> <<SizeStr(p.name), TotalSize(p.metadata)>>,
     write |-> WriteStr(p.name) \o WriteAny(p.metadata),
     read |-> << <<"frame", "name", OnMetaData>>, <<"to_object", "metadata">> >>]
\* What encoders send: @setDataFrame first, and an ecma array.
MetaDataOfPeer(p) ==
    [SrsOnMetaDataPacket(p) EXCEPT
       !.size = <<>>,
       !.write = WriteStr(SetDataFrame) \o WriteStr(p.name) \o WriteAny(EcmaArray(p.metadata[2]))]

SrsJDProfilingPacket(p) ==
    [size |-> <<SizeStr(p.name), TotalSize(p.data)>>,
     write |-> WriteStr(p.name) \o WriteAny(p.data),
     read |-> << <<"frame", "name", JDProfiling>>, <<"to_object", "data">> >>]

\* SrsH264SeiProfiling: the loop writes no byte below 255 when the size is a
\* multiple of 255, although get_size counts one.
WriteFf(n) == [i \in 1..((n + 254) \div 255) |-> IF 255 * i <= n THEN 255 ELSE n % 255]
SeiSize(data) == 1 + (200 \div 255 + 1) + (TotalSize(data) \div 255 + 1) + TotalSize(data)
SrsJDProfilingSeiPacket(p) ==
    [size |-> <<9, SeiSize(p.data)>>,
     write |-> Write1(87) \o Write1(1) \o Write3(0) \o Write4(SeiSize(p.data))
               \o Write1(6) \o Write1(200) \o WriteFf(TotalSize(p.data)) \o WriteAny(p.data),
     read |-> << <<"int", "frame_type", 1>>, <<"int", "packet_type", 1>>, <<"int", "cts", 3>>,
                 <<"int", "nalu_length", 4>>, <<"int", "header", 1>>, <<"ff", "payload_type">>,
                 <<"ff", "payload_size">>, <<"to_object", "data">> >>]

SrsH264StreamEOFPacket(p) ==
    [size |-> <<9, 1>>,
     write |-> Write1(39) \o Write1(1) \o Write3(0) \o Write4(1) \o p.nalu_type,
     read |-> << <<"int", "frame_type", 1>>, <<"int", "packet_type", 1>>, <<"int", "cts", 3>>,
                 <<"int", "nalu_length", 4>>, <<"int", "nalu_type", 1>> >>]

-----------------------------------------------------------------------------
(* The fast handshake: one packet each way in place of the handshake,       *)
(* connect, createStream and play. It goes out without a chunk header.      *)
Numbers(p, fields) == FoldLeft(LAMBDA bytes, f : bytes \o WriteNumber(p[f]), <<>>, fields)
ReadNumbers(fields) == [i \in DOMAIN fields |-> <<"num", fields[i]>>]
Settings == <<"chunk_size", "ack_size", "buffer_length">>

SrsFastHandshakePacket(p) ==
    [size |-> <<SizeStr(p.command_name), 4 * SizeNumber, SizeStr(p.stream_name), SizeNumber,
                TotalSize(p.command_object), SizeOpt(p.args)>>,
     write |-> WriteStr(p.command_name) \o Numbers(p, Settings \o <<"req_type">>) \o WriteStr(p.stream_name)
               \o WriteNumber(p.duration) \o WriteAny(p.command_object) \o WriteOpt(p.args),
     read |-> << <<"name", "command_name", FastHs, {FastHs}>> >> \o ReadNumbers(Settings \o <<"req_type">>)
              \o << <<"str", "stream_name", <<>>>>, <<"num", "duration">>, <<"object", "command_object">>,
                    <<"opt_object", "args">> >>]

\* The answer of a peer: what this program would write cannot be read by it.
FastHandshakeResOfPeer(p) ==
    [size |-> <<>>,
     write |-> WriteStr(p.command_name) \o Numbers(p, <<"transaction_id", "stream_id">> \o Settings)
               \o WriteAny(p.props) \o WriteAny(p.info),
     read |-> << <<"name", "command_name", Result, {Result}>> >>
              \o ReadNumbers(<<"transaction_id", "stream_id">> \o Settings)
              \o << <<"object", "props">>, <<"object", "info">> >>]

-----------------------------------------------------------------------------
(* Protocol control *)
SrsSetWindowAckSizePacket(p) ==
    [size |-> <<4>>, write |-> p.ackowledgement_window_size,
     read |-> << <<"int", "ackowledgement_window_size", 4>> >>]
SrsAcknowledgementPacket(p) ==
    [size |-> <<4>>, write |-> p.sequence_number, read |-> << <<"int", "sequence_number", 4>> >>]
SrsSetChunkSizePacket(p) ==
    [size |-> <<4>>, write |-> p.chunk_size, read |-> << <<"int", "chunk_size", 4>> >>]
SrsSetPeerBandwidthPacket(p) ==
    [size |-> <<5>>, write |-> p.bandwidth \o p.type, read |-> <<>>]

\* FmsEvent0 (26) has one byte of data, SetBufferLength (3) an extra one.
SrsUserControlPacket(p) ==
    LET e == AsInt(p.event_type) IN
    [size |-> <<2>> \o (IF e = 26 THEN <<1>> ELSE <<4>>) \o If(e = 3, 4),
     write |-> p.event_type \o p.event_data \o (IF e = 3 THEN p.extra_data ELSE <<>>),
     read |-> << <<"event", "">> >>]
=============================================================================
