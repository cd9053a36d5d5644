------------------------------ MODULE MCRecords ------------------------------
(* The records of the instance: every class of packet with its optional parts *)
(* there and not there, every AMF0 type at every depth the classes allow, and *)
(* the boxes SrsMp4Encoder writes, in both versions, with tables of 0 to 2,   *)
(* and the packets of a transport stream, with every option of the headers.   *)
EXTENDS Records

S(id, n) == Opaque(50 + id, n)         \* strings
N(id) == Opaque(70 + id, 8)            \* numbers
Prop(id, v) == <<S(id, 2), v>>
Flat == Object(<<Prop(1, Str(S(2, 3))), Prop(3, Number(N(1)))>>)
Deep == Object(<<Prop(1, StrictArray(<<Number(N(2)), Flat, Boolean(TRUE)>>)), Prop(2, Null),
                 Prop(3, EcmaArray(<<Prop(4, Undefined), Prop(5, Date(N(3)))>>)), Prop(6, Object(<<>>))>>)
Meta == Object(<<Prop(1, Number(N(4))), Prop(2, Boolean(FALSE)), Prop(3, Str(<<>>))>>)

Call(name, f) == [command_name |-> name, transaction_id |-> N(9)] @@ f
P(codec, fields) == PacketItem(codec, fields, <<>>)
Option(field, value) == [f \in {field} |-> value]

Connects ==
    [i \in 1..3 |->
       LET f == Call(Connect, [command_object |-> IF i = 1 THEN Deep ELSE Flat,
                               args |-> IF i = 3 THEN None ELSE Flat])
       IN PacketItem(SrsConnectAppPacket(f), f, Option("args", None))]
Calls ==
    [i \in 1..3 |->
       LET f == Call(S(9, 3), [command_object |-> IF i = 1 THEN Null ELSE Flat,
                               arguments |-> IF i = 3 THEN None ELSE StrictArray(<<Str(S(3, 2)), Null>>)])
       IN PacketItem(SrsCallPacket(f), f, Option("arguments", None))]
PlayItem(start, duration, reset) ==
    LET f == Call(Play, [stream_name |-> S(8, 4), start |-> start, duration |-> duration, reset |-> reset])
    IN PacketItem(SrsPlayPacket(f), f, [start |-> Minus2, duration |-> Minus1, reset |-> <<1>>])
Plays == << PlayItem(Minus2, Minus1, <<1>>), PlayItem(N(1), Minus1, <<1>>),
            PlayItem(Minus2, N(2), <<1>>), PlayItem(Minus2, Minus1, <<0>>) >>

Replies ==
    LET res == Call(Result, [props |-> Flat, info |-> Deep])
        create == Call(Result, [stream_id |-> N(5)])
        status == Call(OnStatus, [data |-> Flat])
        bw == Call(StopPlay, [data |-> Flat])
        playing == Call(Playing, [data |-> Flat])
    IN << P(SrsConnectAppResPacket(res), res), P(SrsCreateStreamPacket(Call(CreateStream, <<>>)), Call(CreateStream, <<>>)),
          P(SrsCreateStreamResPacket(create), create),
          P(SrsFMLEStartResPacket(Call(Result, <<>>)), Call(Result, <<>>)),
          P(SrsOnStatusCallPacket(status), status),
          P(SrsBandwidthPacket(bw), bw),
          P(SrsCallResPacket(Call(Result, [command_object |-> Null, response |-> None])), <<>>),
          P(SrsPlayResPacket(Call(Result, [desc |-> Flat])), <<>>),
          P(SrsOnBWDonePacket(Call(OnBWDone, <<>>)), <<>>) >>

Publishing ==
    LET fmle == Call(FCPublish, [stream_name |-> S(7, 3)])
        publish == Call(Publish, [stream_name |-> S(7, 3), type |-> S(6, 6)])
        live == Call(Publish, [stream_name |-> S(7, 3), type |-> Live])
        pause == Call(Pause, [is_pause |-> <<1>>, time_ms |-> N(6)])
    IN << P(SrsFMLEStartPacket(fmle), fmle), PacketItem(SrsPublishPacket(publish), publish, Option("type", Live)),
          PacketItem(SrsPublishPacket(live), live, Option("type", Live)), P(SrsPausePacket(pause), pause),
          P(SrsCloseStreamPacket(Call(CloseStream, <<>>)), Call(CloseStream, <<>>)) >>

Eof == [nalu_type |-> <<11>>]
EofItem == P(SrsH264StreamEOFPacket(Eof), Eof)
Data ==
    LET meta == [name |-> OnMetaData, metadata |-> Meta]
        status == [command_name |-> OnStatus, data |-> Flat]
        profile == [name |-> JDProfiling, data |-> Flat]
        \* 255 bytes of length 0 and 1: an object of 254 and of 256 bytes
        sei(n) == [data |-> Object(<<Prop(1, Str(S(5, n)))>>)]
    IN << P(SrsOnMetaDataPacket(meta), meta), P(MetaDataOfPeer(meta), meta),
          P(SrsOnStatusDataPacket(status), status), P(SrsJDProfilingPacket(profile), profile),
          P(SrsJDProfilingSeiPacket(sei(20)), sei(20)), P(SrsJDProfilingSeiPacket(sei(243)), sei(243)),
          P(SrsJDProfilingSeiPacket(sei(245)), sei(245)), EofItem,
          P(SrsSampleAccessPacket([command_name |-> SampleAccess, video_sample_access |-> Boolean(TRUE),
                                   audio_sample_access |-> Boolean(TRUE)]), <<>>) >>

Event(type, data, extra) ==
    LET f == [event_type |-> <<0, type>>, event_data |-> data, extra_data |-> extra]
    IN PacketItem(SrsUserControlPacket(f), f, Option("extra_data", <<>>))
Control ==
    LET w == Opaque(90, 4)
        window == [ackowledgement_window_size |-> w]
        ack == [sequence_number |-> w]
        size == [chunk_size |-> w]
    IN << P(SrsSetWindowAckSizePacket(window), window), P(SrsAcknowledgementPacket(ack), ack),
          P(SrsSetChunkSizePacket(size), size), P(SrsSetPeerBandwidthPacket([bandwidth |-> w, type |-> <<2>>]), <<>>),
          Event(6, w, <<>>), Event(3, w, w), Event(26, <<0>>, <<>>) >>

-----------------------------------------------------------------------------
(* Boxes. The fields of a class are opaque.                                 *)
B == INSTANCE Mp4Boxes
FieldsOf(t, v) ==
    LET fixed == B!Class(t, v).fixed
        named == {i \in DOMAIN fixed : fixed[i][1] # ""}
    IN [n \in {fixed[i][1] : i \in named} |->
          LET i == CHOOSE j \in named : fixed[j][1] = n IN Opaque(200 + i, fixed[i][2])]
Leaf(t, v, entries) == [B!Box(t, FieldsOf(t, v), entries, <<>>) EXCEPT !.version = v]
Parent(t, boxes) == B!Box(t, FieldsOf(t, 0), <<>>, boxes)
Entries(w, n) == [i \in 1..n |-> Opaque(300 + i, w)]
Es(n) == [ES_ID |-> <<0, 2>>, dependsOn |-> <<>>, URLstring |-> <<>>, OCR |-> <<>>,
          config |-> Opaque(320, 13), asc |-> Opaque(321, n)]
EsAll == [Es(2) EXCEPT !.dependsOn = Opaque(322, 2), !.URLstring = Opaque(323, 3), !.OCR = Opaque(324, 2)]
Sizes(n) == B!Box("stsz", [sample_size |-> <<0, 0, 0, 0>>], Entries(4, n), <<>>)
SizesAll(n) == B!Box("stsz", [sample_size |-> <<0, 0, 0, 7>>], [i \in 1..n |-> <<>>], <<>>)

Stbl(entry, v) ==
    Parent("stbl", << Leaf("stsd", 0, <<entry>>), Leaf("stts", 0, Entries(8, 2)), Leaf("stss", 0, Entries(4, 1)),
                      Leaf("ctts", v, Entries(8, 2)), Leaf("stsc", 0, Entries(12, 1)), Sizes(2),
                      Leaf("stco", 0, Entries(4, 2)) >>)
Dinf == Parent("dinf", << Leaf("dref", 0, << Leaf("url ", 0, << <<>> >>) >>) >>)
Trak(name, media, entry, v) ==
    Parent("trak", << Leaf("tkhd", v, <<>>),
                      Parent("mdia", << Leaf("mdhd", v, <<>>), Leaf("hdlr", 0, <<name>>),
                                        Parent("minf", << media, Dinf, Stbl(entry, v) >>) >>) >>)
Avc1 == Parent("avc1", << Leaf("avcC", 0, Entries(1, 5)) >>)
Mp4a == Parent("mp4a", << Leaf("esds", 0, <<Es(2)>>) >>)
Moov(v) == Parent("moov", << Leaf("mvhd", v, <<>>), Trak(S(20, 12), Leaf("vmhd", 0, <<>>), Avc1, v),
                             Trak(S(21, 12), Leaf("smhd", 0, <<>>), Mp4a, v) >>)
\* The length of a descriptor has one byte up to 127 and two above.
BoxItems ==
    << BoxItem(Leaf("ftyp", 0, Entries(4, 4))), BoxItem(Leaf("mdat", 0, <<>>)), BoxItem(Leaf("free", 0, Entries(1, 3))),
       BoxItem(Moov(0)), BoxItem(Moov(1)),
       BoxItem(Parent("edts", << Leaf("elst", 0, Entries(12, 2)), Leaf("elst", 1, Entries(20, 1)) >>)),
       BoxItem(Leaf("esds", 0, <<Es(110)>>)), BoxItem(Leaf("esds", 0, <<Es(113)>>)), BoxItem(Leaf("esds", 0, <<EsAll>>)),
       BoxItem(Leaf("co64", 0, Entries(8, 2))), BoxItem(Leaf("stts", 0, <<>>)), BoxItem(SizesAll(3)),
       BoxItem(Leaf("urn ", 0, <<S(22, 2), S(23, 1)>>)), BoxItem(Leaf("url ", 0, <<S(22, 2)>>)),
       BoxItem(Parent("udta", <<>>)), BoxItem(Leaf("skip", 0, <<>>)) >>

-----------------------------------------------------------------------------
(* Packets of a transport stream: those SrsTsContext::encode makes, and those  *)
(* of other programs, with every option of the headers. A time is opaque.      *)
T == INSTANCE TsPackets
PmtPid == 4097
VideoPid == 256
AudioPid == 257
Uses(pids, uses) == [p \in Range(pids) |-> uses[CHOOSE i \in DOMAIN pids : pids[i] = p]]
Known == Uses(<<0, PmtPid, VideoPid, AudioPid>>, <<"pat", "pmt", "video", "audio">>)
Within(length, got, last) == [apply |-> Known, length |-> length, got |-> got, last |-> last]
Knows(apply) == [Within(0, 0, 0) EXCEPT !.apply = apply]
Frame(n) == Opaque(400, n)

\* With 255 up to the 188 bytes: a table, or the header of a peer that is whole
ToTheEnd(bytes) == bytes \o T!Stuffing(T!SRS_TS_PACKET_SIZE - Len(bytes))
TableItem(packet, before, after, f) ==
    TsItem(ToTheEnd(T!WritePacket(packet)), Knows(before), [apply |-> after] @@ f)
InfosOf(packet) == [infos |-> packet.payload[1].infos, desc |-> packet.payload[1].desc,
                    PCR_PID |-> packet.payload[1].PCR_PID]
Tables ==
    LET pat == T!CreatePat(1, PmtPid)
        pmt == T!CreatePmt(1, PmtPid, VideoPid, T!StreamH264, AudioPid, T!StreamAAC)
        mp3 == T!CreatePmt(1, PmtPid, 0, T!NoStream, AudioPid, T!StreamMp3)
        two == << T!SrsTsPayloadPATProgram(1, PmtPid), T!SrsTsPayloadPATProgram(2, 300) >>
        others == << T!SrsTsPayloadPMTESInfo(16, 301, Opaque(401, 3)), T!SrsTsPayloadPMTESInfo(6, 302, <<>>),
                     T!SrsTsPayloadPMTESInfo(4, 303, <<>>) >>
        ac3 == T!SrsTsPacket(300, TRUE, 5, << T!SrsTsPayloadPMT(2, 304, <<>>, << T!SrsTsPayloadPMTESInfo(129, 304, <<>>) >>) >>)
        programs == T!SrsTsPacket(0, FALSE, 3, << T!SrsTsPayloadPAT(two) >>)
        streams == T!SrsTsPacket(300, TRUE, 4, << T!SrsTsPayloadPMT(2, 301, Opaque(402, 2), others) >>)
        pmts == Uses(<<0, PmtPid>>, <<"pat", "pmt">>)
    IN << TableItem(pat, <<>>, pmts, [programs |-> <<two[1]>>, pure_audio |-> TRUE]),
          TableItem(pmt, pmts, Known, InfosOf(pmt)),
          TableItem(mp3, pmts, Uses(<<0, PmtPid, AudioPid>>, <<"pat", "pmt", "audio">>), InfosOf(mp3)),
          TableItem(programs, Known, Uses(<<0, PmtPid, VideoPid, AudioPid, 300>>, <<"pat", "pmt", "video", "audio", "pmt">>),
                    [programs |-> two, pure_audio |-> FALSE]),
          TableItem(streams, Uses(<<300>>, <<"pmt">>), Uses(<<300, 301, 303>>, <<"pmt", "video", "audio">>), InfosOf(streams)),
          TableItem(ac3, Uses(<<300>>, <<"pmt">>), Uses(<<300>>, <<"pmt">>), [PCR_PID |-> 304]) >>

\* The first packet of a frame of n bytes, and one that goes on with it
AllOf(n, got) == IF n = got THEN <<n>> ELSE <<>>
FirstItem(pcr, dts, pts, n) ==
    LET f == T!Fill(T!CreatePesFirst(VideoPid, T!VideoCommon, 5, FALSE, pcr, dts, pts, n), n) IN
    TsItem(T!WritePacket(f.packet) \o Frame(f.n), Knows(Known),
           [payload |-> Frame(f.n), length |-> n, pts |-> T!Stamp(pts), dts |-> T!Stamp(dts), given |-> AllOf(n, f.n)]
           @@ (IF pcr = T!NoTime THEN <<>> ELSE [pcr |-> T!Clock(pcr)]))
ContinueItem(length, left, last) ==
    LET f == T!Fill(T!CreatePesContinue(AudioPid, 15), left) IN
    TsItem(T!WritePacket(f.packet) \o Frame(f.n), Within(length, length - left, last),
           [payload |-> Frame(f.n), given |-> AllOf(length, length - left + f.n)])
\* The first packet of a frame behind another, of which 330 bytes came
FrameBehind(length, last) == [FirstItem(1, 1, 2, 60) EXCEPT !.read = Within(length, 330, last)]
BehindItem(length, last, given) == [FrameBehind(length, last) EXCEPT !.fields = [@ EXCEPT !.given = given]]
DuplicateItem(length) ==
    [FrameBehind(length, 5) EXCEPT !.fields = [payload |-> <<>>, given |-> <<>>]]
\* An adaptation field alone, that says it is n bytes long
AloneItem(n) ==
    TsItem(ToTheEnd(<<71>> \o T!Write2(AudioPid) \o <<33, n>>), Knows(Known), <<>>)
Frames ==
    << FirstItem(1, 1, 2, 60), FirstItem(T!NoTime, 2, 2, 500), FirstItem(T!NoTime, 2, 2, 169), FirstItem(3, 3, 3, 170),
       ContinueItem(500, 330, 14), ContinueItem(500, 183, 14), ContinueItem(500, 10, 14),
       BehindItem(0, 4, <<330, 60>>), BehindItem(500, 4, <<60>>), BehindItem(0, 3, <<60>>), DuplicateItem(0),
       RefusedItem(ContinueItem(500, 330, 12)), RefusedItem(ContinueItem(500, 500, 14)),
       RefusedItem(AloneItem(0)), RefusedItem(AloneItem(182)) >>

\* A peer's header: its length counts the stuffings.
PeerPes(p) ==
    [T!WritePes(p) EXCEPT ![6] = @ + p.stuffings, ![9] = @ + p.stuffings]
Options(x) ==
    [T!SrsTsPayloadPES(T!AudioCommon, 0, 1, 2) EXCEPT
        !.escr = Opaque(410, 6), !.es_rate = Opaque(411, 3), !.trick_mode = Opaque(412, 1),
        !.copy_info = Opaque(413, 1), !.crc = Opaque(414, 2), !.extension = <<x>>, !.stuffings = 2]
ExtAll == T!PesExtension(Opaque(420, 16), Opaque(421, 5), Opaque(422, 2), Opaque(423, 2), Opaque(424, 3))
ExtSome == T!PesExtension(<<>>, <<>>, Opaque(422, 2), <<>>, Opaque(424, 1))
OptionFields(p) == [f \in {"escr", "es_rate", "trick_mode", "copy_info", "crc"} |-> p[f]]
Begin == T!WritePacket(T!SrsTsPacket(AudioPid, TRUE, 1, <<>>))
PeerItem(p, f) ==
    LET n == T!SRS_TS_PACKET_SIZE - Len(Begin) - T!SizePes(p) IN
    TsItem(Begin \o PeerPes([p EXCEPT !.length = n]) \o Frame(n), Knows(Known),
           [payload |-> Frame(n), length |-> n, pts |-> T!Stamp(p.pts), dts |-> T!Stamp(p.dts), given |-> <<n>>] @@ f)
Field == [T!SrsTsAdaptationField EXCEPT !.pcr = T!Clock(1), !.opcr = T!Clock(2), !.splice_countdown = <<3>>,
             !.private_data = <<Opaque(430, 4)>>, !.nb_af_reserved = 2,
             !.extension = << T!Extension(Opaque(431, 2), Opaque(432, 3), Opaque(433, 5), 1) >>]
FieldFields == [pcr |-> T!Clock(1), opcr |-> T!Clock(2), splice_countdown |-> <<3>>, private_data |-> Opaque(430, 4),
                ltw |-> Opaque(431, 2), rate |-> Opaque(432, 3), splice |-> Opaque(433, 5)]
WithField(packet, f) == [packet EXCEPT !.adaptation_field = <<f>>, !.control = T!Both]
Peers ==
    LET all == Options(ExtAll)
        some == [Options(ExtSome) EXCEPT !.escr = <<>>, !.crc = <<>>]
        field == WithField(T!SrsTsPacket(AudioPid, FALSE, 1, <<>>), Field)
        only == [WithField(field, [T!SrsTsAdaptationField EXCEPT !.nb_af_reserved = 182]) EXCEPT !.control = T!AdaptionOnly]
        unknown == T!SrsTsPacket(700, TRUE, 1, <<>>)
        plain(id) == <<0, 0, 1, id, 0, 9>>
    IN << PeerItem(all, OptionFields(all) @@ [private |-> Opaque(420, 16), pack |-> Opaque(421, 5), counter |-> Opaque(422, 2),
                                              std |-> Opaque(423, 2), field |-> Opaque(424, 3)]),
          PeerItem(some, [counter |-> Opaque(422, 2), field |-> Opaque(424, 1), es_rate |-> Opaque(411, 3)]),
          TsItem(T!WritePacket(field) \o Frame(188 - T!SizePacket(field)), Within(0, 5, 0),
                 FieldFields @@ [payload |-> Frame(188 - T!SizePacket(field))]),
          TsItem(T!WritePacket(only), Knows(Known), [apply |-> Known]),
          TsItem(T!WritePacket(unknown) \o Frame(184), Knows(Known), [apply |-> Known, payload |-> <<>>]),
          TsItem(Begin \o plain(191) \o Frame(178), Knows(Known), [payload |-> Frame(178), length |-> 0]),
          TsItem(Begin \o plain(190) \o Frame(178), Knows(Known), [payload |-> <<>>, length |-> 0]) >>

FastHandshakes ==
    LET f == [command_name |-> FastHs, chunk_size |-> N(1), ack_size |-> N(2), buffer_length |-> N(3), req_type |-> N(4),
              stream_name |-> S(7, 3), duration |-> N(5), command_object |-> Flat, args |-> Flat]
        g == [f EXCEPT !.args = None]
        res == [command_name |-> Result, transaction_id |-> N(9), stream_id |-> N(5), chunk_size |-> N(1), ack_size |-> N(2),
                buffer_length |-> N(3), props |-> Flat, info |-> Deep]
    IN << P(SrsFastHandshakePacket(f), f), PacketItem(SrsFastHandshakePacket(g), g, Option("args", None)),
          P(FastHandshakeResOfPeer(res), res) >>

MCItems == FastHandshakes \o Connects \o Calls \o Plays \o Replies \o Publishing \o Data \o Control \o BoxItems \o Tables \o Frames \o Peers
=============================================================================
