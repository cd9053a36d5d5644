------------------------------- MODULE TsPackets -------------------------------
(* The packets of an MPEG transport stream: a header of four bytes, an        *)
(* adaptation field, and a payload: a table (PAT or PMT), or the begin or the *)
(* continuation of a PES packet, the frame of a stream.                       *)
EXTENDS SrsBuffer

SRS_TS_PACKET_SIZE == 188
Flags(pairs) == FoldLeft(LAMBDA n, x : n + (IF x[1] THEN x[2] ELSE 0), 0, pairs)
Bit(byte, weight) == (byte \div weight) % 2 = 1
Given(bytes) == bytes # <<>>

\* Times are opaque: five bytes in a PES header, six in an adaptation field.
NoTime == -1
Stamp(t) == Opaque(5000 + t, 5)
Clock(t) == IF t = NoTime THEN <<>> ELSE Opaque(6000 + t, 6)

-----------------------------------------------------------------------------
(* The adaptation field. An option that is not there is empty; private data   *)
(* and the extension are sequences of at most one. The program itself only    *)
(* sets the clock and the stuffing; the rest is how other programs write it.  *)
SrsTsAdaptationField ==
    [discontinuity |-> FALSE, pcr |-> <<>>, opcr |-> <<>>, splice_countdown |-> <<>>,
     private_data |-> <<>>, extension |-> <<>>, nb_af_reserved |-> 0]
Extension(ltw, rate, splice, reserved) ==
    [ltw |-> ltw, rate |-> rate, splice |-> splice, nb_af_ext_reserved |-> reserved]

\* adaptation_field_extension_length, which counts what follows it
ExtLength(x) == 1 + Len(x.ltw) + Len(x.rate) + Len(x.splice) + x.nb_af_ext_reserved
SizeAf(f) ==
    2 + Len(f.pcr) + Len(f.opcr) + Len(f.splice_countdown)
    + (IF f.private_data = <<>> THEN 0 ELSE 1 + Len(f.private_data[1]))
    + (IF f.extension = <<>> THEN 0 ELSE 1 + ExtLength(f.extension[1]))
    + f.nb_af_reserved

Stuffing(n) == [i \in 1..n |-> 255]
WriteExt(x) ==
    Write1(ExtLength(x)) \o Write1(31 + Flags(<< <<Given(x.ltw), 128>>, <<Given(x.rate), 64>>, <<Given(x.splice), 32>> >>))
    \o x.ltw \o x.rate \o x.splice \o Stuffing(x.nb_af_ext_reserved)
WriteAf(f) ==
    Write1(SizeAf(f) - 1)
    \o Write1(Flags(<< <<f.discontinuity, 128>>, <<Given(f.pcr), 16>>, <<Given(f.opcr), 8>>,
                       <<Given(f.splice_countdown), 4>>, <<Given(f.private_data), 2>>, <<Given(f.extension), 1>> >>))
    \o f.pcr \o f.opcr \o f.splice_countdown
    \o (IF f.private_data = <<>> THEN <<>> ELSE Write1(Len(f.private_data[1])) \o f.private_data[1])
    \o (IF f.extension = <<>> THEN <<>> ELSE WriteExt(f.extension[1]))
    \o Stuffing(f.nb_af_reserved)

\* A field that is there when its flag is set
Optional(s, there, f, n) == IF there THEN Checked(s, f, n) ELSE s
\* skip() by what is left of a length that was counted from position from: it
\* may go back, and may leave the block.
SkipRest(s, length, from) == Skip(s, length - (s.p - from))

ReadPrivate(s) ==
    Then(Checked(s, "private_length", 1), LAMBDA t : Checked(t, "private_data", AsByte(t.r["private_length"])))
\* The position is taken before the length, so one byte less is skipped than
\* the length says; the end of the whole field makes up for it.
ReadExtOptions(s, from) ==
    LET flags == AsByte(s.r["ext_flags"]) IN
    Then(Optional(Optional(Optional(s, Bit(flags, 128), "ltw", 2), Bit(flags, 64), "rate", 3), Bit(flags, 32), "splice", 5),
         LAMBDA t : SkipRest(t, AsByte(t.r["ext_length"]), from))
ReadExt(s) ==
    Then(Read(Read(Require(s, 2), "ext_length", 1), "ext_flags", 1), LAMBDA t : ReadExtOptions(t, s.p))
ReadAfOptions(s, from) ==
    LET flags == AsByte(s.r["af_flags"])
        clocks == Optional(Optional(s, Bit(flags, 16), "pcr", 6), Bit(flags, 8), "opcr", 6)
        data == Then(Optional(clocks, Bit(flags, 4), "splice_countdown", 1),
                     LAMBDA t : IF Bit(flags, 2) THEN ReadPrivate(t) ELSE t)
    IN Then(Then(data, LAMBDA t : IF Bit(flags, 1) THEN ReadExt(t) ELSE t),
            LAMBDA t : SkipRest(t, AsByte(t.r["af_length"]), from))
AfLengthOk(control, n) == IF control = 3 THEN n <= 182 ELSE n = 183
ReadAf(s, control) ==
    Then(Read(Require(s, 2), "af_length", 1), LAMBDA t :
        Then(Check(t, AfLengthOk(control, AsByte(t.r["af_length"]))), LAMBDA u :
            IF u.r["af_length"] = <<0>> THEN u
            ELSE Then(Read(u, "af_flags", 1), LAMBDA v : ReadAfOptions(v, u.p))))

-----------------------------------------------------------------------------
(* PES: the header of a frame. pts and dts are times, the options bytes. The  *)
(* program sets no option and no stuffings of its own: peers do, and encode() *)
(* would leave the place of an option as it was.                              *)
SrsTsPayloadPES(stream_id, length, pts, dts) ==
    [kind |-> "pes", stream_id |-> stream_id, length |-> length, pts |-> pts, dts |-> dts,
     escr |-> <<>>, es_rate |-> <<>>, trick_mode |-> <<>>, copy_info |-> <<>>, crc |-> <<>>,
     extension |-> <<>>, stuffings |-> 0]
PesExtension(private, pack, counter, std, field) ==
    [private |-> private, pack |-> pack, counter |-> counter, std |-> std, field |-> field]

\* stream_id of a program map, padding, private stream 2, ECM, EMM, DSMCC,
\* H.222.1 type E and directory: no header, only bytes
Headless == {188, 190, 191, 240, 241, 242, 248, 255}
AudioCommon == 192
VideoCommon == 224

\* A part with its length in front, when there is one
Prefixed(bytes) == IF Given(bytes) THEN Write1(Len(bytes)) \o bytes ELSE <<>>
WriteStamps(p) == Stamp(p.pts) \o (IF p.pts = p.dts THEN <<>> ELSE Stamp(p.dts))
PesOptions(p) == p.escr \o p.es_rate \o p.trick_mode \o p.copy_info \o p.crc
ExtOptions(x) == x.private \o Prefixed(x.pack) \o x.counter \o x.std \o Prefixed(x.field)

\* PES_header_data_length does not count the stuffings
HeaderDataLength(p) ==
    (IF p.pts = p.dts THEN 5 ELSE 10) + Len(PesOptions(p))
    + (IF p.extension = <<>> THEN 0 ELSE 1 + Len(ExtOptions(p.extension[1])))
SizePes(p) == IF p.stream_id \in Headless THEN 0 ELSE 6 + 3 + HeaderDataLength(p) + p.stuffings

\* The length on the wire counts the header; what does not fit in 16 bits is 0.
WireLength(p) ==
    LET n == p.length + 3 + HeaderDataLength(p) IN
    IF p.length > 0 /\ n <= 65535 THEN n ELSE 0

WritePesExt(x) ==
    Write1(14 + Flags(<< <<Given(x.private), 128>>, <<Given(x.pack), 64>>, <<Given(x.counter), 32>>,
                         <<Given(x.std), 16>>, <<Given(x.field), 1>> >>))
    \o ExtOptions(x)
WritePes(p) ==
    Write3(1) \o Write1(p.stream_id) \o Write2(WireLength(p)) \o Write1(128)
    \o Write1(Flags(<< <<TRUE, 128>>, <<p.pts # p.dts, 64>>, <<Given(p.escr), 32>>, <<Given(p.es_rate), 16>>,
                       <<Given(p.trick_mode), 8>>, <<Given(p.copy_info), 4>>, <<Given(p.crc), 2>>,
                       <<Given(p.extension), 1>> >>))
    \o Write1(HeaderDataLength(p)) \o WriteStamps(p) \o PesOptions(p)
    \o (IF p.extension = <<>> THEN <<>> ELSE WritePesExt(p.extension[1])) \o Stuffing(p.stuffings)

\* The bits that every time has set tell it from other bytes.
ReadStamp(s, f) == Then(Checked(s, f, 5), LAMBDA t : Check(t, \A i \in 1..5 : t.r[f][i] > 255))
ReadTimes(s, flags) ==
    IF ~Bit(flags, 128) THEN s
    ELSE Then(ReadStamp(s, "pts"), LAMBDA t :
             IF Bit(flags, 64) THEN ReadStamp(t, "dts") ELSE Set(t, "dts", t.r["pts"]))

\* The lengths of what the flags say is there are required together.
Needed(flags, widths) == FoldLeft(LAMBDA n, x : n + (IF Bit(flags, x[1]) THEN x[2] ELSE 0), 0, widths)
Wanted(s, flags, list) ==
    FoldLeft(LAMBDA t, x : IF Bit(flags, x[1]) THEN Read(t, x[3], x[2]) ELSE t, s, list)
PesFlags == << <<32, 6, "escr">>, <<16, 3, "es_rate">>, <<8, 1, "trick_mode">>, <<4, 1, "copy_info">>,
               <<2, 2, "crc">>, <<1, 1, "ext_flags">> >>

\* The requirement for a pack field takes off the private data, there or not.
ReadPack(s, flags, needed) ==
    Then(Read(s, "pack_length", 1), LAMBDA t :
        LET n == AsByte(t.r["pack_length"]) IN Read(Require(t, needed - 16 - 1 + n), "pack", n))
ReadPesExt(s) ==
    LET flags == AsByte(s.r["ext_flags"])
        needed == Needed(flags, << <<128, 16>>, <<64, 1>>, <<32, 2>>, <<16, 2>>, <<1, 1>> >>)
        private == Then(Require(s, needed), LAMBDA t : IF Bit(flags, 128) THEN Read(t, "private", 16) ELSE t)
        pack == Then(private, LAMBDA t : IF Bit(flags, 64) THEN ReadPack(t, flags, needed) ELSE t)
        fixed == Wanted(pack, flags, << <<32, 2, "counter">>, <<16, 2, "std">>, <<1, 1, "field_length">> >>)
    IN Then(fixed, LAMBDA t :
          IF Bit(flags, 1) THEN Checked(t, "field", AsByte(t.r["field_length"]) % 8) ELSE t)

\* How long the header says that the payload is; it may not say.
SetPayloadLength(s, from) ==
    LET wire == AsInt(<<0>> \o s.r["PES_packet_length"])
        n == wire - (s.p - from)
    IN IF wire = 0 THEN s ELSE Set(s, "length", Max({0, n}))
ReadPesOptions(s, from) ==
    LET flags == AsByte(s.r["pes_flags"])
        needed == (IF Bit(flags, 128) THEN IF Bit(flags, 64) THEN 10 ELSE 5 ELSE 0) + Needed(flags, PesFlags)
        times == Then(Require(s, needed), LAMBDA t : ReadTimes(t, flags))
        options == Then(times, LAMBDA t : Wanted(t, flags, PesFlags))
        extended == Then(options, LAMBDA t : IF Bit(flags, 1) THEN ReadPesExt(t) ELSE t)
    IN Then(extended, LAMBDA t :
          LET stuffings == AsByte(t.r["header_length"]) - (t.p - s.p) IN
          IF stuffings > 0 THEN SetPayloadLength(Skip(Require(t, stuffings), stuffings), from)
          ELSE SetPayloadLength(t, from))
ReadPesHeader(s, from) ==
    IF AsByte(s.r["stream_id"]) \in Headless THEN s
    ELSE Then(Read(Read(Read(Require(s, 3), "marks", 1), "pes_flags", 1), "header_length", 1),
              LAMBDA t : ReadPesOptions(t, from))
\* SrsTsMessage::dump: the rest of the packet, but no more than the message
\* still wants when it knows how much.
Dump(s) ==
    IF ~Going(s) \/ Empty(s) THEN s
    ELSE LET wanted == s.r["length"] - s.r["got"]
             n == IF s.r["length"] > 0 THEN Min({Left(s), wanted}) ELSE Left(s)
         IN IF n > 0 THEN Checked(s, "payload", n) ELSE s
\* A frame begins with six bytes and its header; the rest is payload. Padding
\* is skipped.
PaddingStream == 190
ReadPesBegin(s) ==
    Then(Read(Read(Read(Require(s, 6), "prefix", 3), "stream_id", 1), "PES_packet_length", 2), LAMBDA t :
        Then(ReadPesHeader(Check(t, t.r["prefix"] = <<0, 0, 1>>), t.p), LAMBDA u :
            IF u.r["stream_id"] = <<PaddingStream>> THEN Skip(u, Left(u)) ELSE Dump(u)))

\* The message that the pid has, fresh as long as it has no byte. One without
\* a length is complete when the next begins.
PayloadLength(s) == s.r["got"] + Len(s.r["payload"])
Fresh(s) == PayloadLength(s) = 0
Completed(s, unit_start) ==
    IF s.r["length"] = 0 THEN unit_start ELSE PayloadLength(s) >= s.r["length"]
Reap(s) == Set(s, "given", Append(s.r["given"], PayloadLength(s)))
ReapCompleted(s, unit_start) == IF Going(s) /\ Completed(s, unit_start) THEN Reap(s) ELSE s

\* The first packet of a message, which is not complete with it when it has no
\* length.
ReadFresh(s, unit_start) ==
    Then(Check(s, unit_start), LAMBDA t : Then(ReadPesBegin(t), LAMBDA u :
        IF u.r["length"] = 0 THEN u ELSE ReapCompleted(u, unit_start)))
Interrupted(s, unit_start) == s.r["length"] > 0 /\ ~Completed(s, unit_start) /\ unit_start
NextCounter(cc) == (cc + 1) % 16
Duplicate(last, cc) == last >= cc /\ NextCounter(last) > cc
\* A packet that continues the message tells by its counter; any other begins a
\* new one, and the message is given if it was complete, else dropped.
Lost(s, cc) == cc # NextCounter(s.r["last"])
Renews(s, unit_start, cc) ==
    \/ Fresh(s) \/ Interrupted(s, unit_start)
    \/ ~Duplicate(s.r["last"], cc) /\ (Lost(s, cc) \/ Completed(s, unit_start))
Renewed(s, unit_start, cc) ==
    LET ended == IF Interrupted(s, unit_start) \/ Lost(s, cc) THEN s ELSE Reap(s)
    IN IF Fresh(s) THEN s ELSE Set(Set(ended, "got", 0), "length", 0)
ReadPes(s, unit_start, cc) ==
    IF Renews(s, unit_start, cc) THEN ReadFresh(Renewed(s, unit_start, cc), unit_start)
    ELSE IF Duplicate(s.r["last"], cc) THEN Skip(s, Left(s))
    ELSE ReapCompleted(Dump(s), unit_start)

-----------------------------------------------------------------------------
(* PSI: the tables. A section has its length and its checksum around it; the  *)
(* checksum tells any two sections of the instance apart.                     *)
PidPAT == 0
SrsTsPayloadPAT(programs) == [kind |-> "pat", table_id |-> 0, programs |-> programs]
SrsTsPayloadPATProgram(number, pid) == [number |-> number, pid |-> pid]
SrsTsPayloadPMT(number, pcr_pid, desc, infos) ==
    [kind |-> "pmt", table_id |-> 2, number |-> number, PCR_PID |-> pcr_pid, desc |-> desc, infos |-> infos]
SrsTsPayloadPMTESInfo(stream, pid, info) == [stream_type |-> stream, pid |-> pid, ES_info |-> info]

VideoStreams == {27, 16}                  \* H264, Mpeg4
AudioStreams == {15, 129, 138, 4}         \* AAC, AC3, DTS, Mp3

Concat(parts) == FoldLeft(LAMBDA all, x : all \o x, <<>>, parts)
PatSize(t) == 5 + 4 * Len(t.programs)
PmtSize(t) == 9 + Len(t.desc) + FoldLeft(LAMBDA n, x : n + 5 + Len(x.ES_info), 0, t.infos)
PsiSize(t) == IF t.kind = "pat" THEN PatSize(t) ELSE PmtSize(t)
SizePsi(t, unit_start) == (IF unit_start THEN 1 ELSE 0) + 3 + PsiSize(t) + 4

\* 13 bits of pid after three set bits, 12 bits of length after four
WritePid(pid) == Write2(57344 + (pid % 8192))
WriteLength(n) == Write2(61440 + (n % 4096))
WritePrograms(programs) ==
    Concat([i \in DOMAIN programs |-> Write2(programs[i].number) \o WritePid(programs[i].pid)])
WriteInfos(infos) ==
    Concat([i \in DOMAIN infos |-> Write1(infos[i].stream_type) \o WritePid(infos[i].pid)
                                   \o WriteLength(Len(infos[i].ES_info)) \o infos[i].ES_info])
\* version 0 that applies now, section 0 of 0
WritePat(t) == Write2(1) \o <<193, 0, 0>> \o WritePrograms(t.programs)
WritePmt(t) ==
    Write2(t.number) \o <<193, 0, 0>> \o WritePid(t.PCR_PID) \o WriteLength(Len(t.desc)) \o t.desc
    \o WriteInfos(t.infos)
WriteTable(t) == IF t.kind = "pat" THEN WritePat(t) ELSE WritePmt(t)
srs_crc32_mpegts(bytes) == Opaque(8000 + FoldLeft(LAMBDA n, x : (31 * n + x) % 99991, 7, bytes), 4)
WithChecksum(section) == section \o srs_crc32_mpegts(section)
WritePsi(t, unit_start) ==
    (IF unit_start THEN <<0>> ELSE <<>>)
    \o WithChecksum(Write1(t.table_id) \o Write2(45056 + PsiSize(t) + 4) \o WriteTable(t))

\* The context learns what the pids of a table are for, one by one.
Apply(s, pid, use) == Set(s, "apply", [p \in {pid} |-> use] @@ s.r["apply"])
Unsigned(bytes) == AsInt(<<0>> \o bytes)
ReadInt(s, f, n, modulus) == Then(Read(s, f, n), LAMBDA t : Set(t, f, Unsigned(t.r[f]) % modulus))

\* The programs fill the section, the last one not always whole.
ReadProgram(s) ==
    Then(ReadInt(ReadInt(Require(s, 4), "number", 2, 65536), "program_pid", 2, 8192), LAMBDA t :
        Apply(Set(t, "programs", Append(t.r["programs"], SrsTsPayloadPATProgram(t.r["number"], t.r["program_pid"]))),
              t.r["program_pid"], "pmt"))
OnPmtParsed(s) == Set(s, "pure_audio", \A pid \in DOMAIN s.r["apply"] : s.r["apply"][pid] # "video")
ReadPat(s, section_length) ==
    LET fixed == Read(Read(Require(s, 5), "transport_stream_id", 2), "version", 3)
        count == (section_length - 4 - 5 + 3) \div 4
        programs == FoldLeft(LAMBDA t, i : Then(t, ReadProgram), Set(fixed, "programs", <<>>), [i \in 1..count |-> i])
    IN Then(programs, LAMBDA t : OnPmtParsed(Apply(t, PidPAT, "pat")))

UseOf(stream) == IF stream \in VideoStreams THEN "video" ELSE "audio"
\* The type is a signed byte: AC3 and DTS, above 127, are no case of the switch.
ReadEsType(s) == Then(Read(s, "stream_type", 1), LAMBDA t : Set(t, "stream_type", AsInt(t.r["stream_type"])))
ReadEsHead(s) == ReadInt(ReadInt(ReadEsType(Require(s, 5)), "es_pid", 2, 8192), "es_length", 2, 4096)
KeepInfo(s) ==
    Set(s, "infos", Append(s.r["infos"], SrsTsPayloadPMTESInfo(s.r["stream_type"], s.r["es_pid"], s.r["ES_info"])))
ReadInfo(s) ==
    Then(ReadEsHead(s), LAMBDA t : Then(Checked(t, "ES_info", t.r["es_length"]), LAMBDA u :
        IF u.r["stream_type"] \in VideoStreams \cup AudioStreams
        THEN Apply(KeepInfo(u), u.r["es_pid"], UseOf(u.r["stream_type"]))
        ELSE KeepInfo(u)))
RECURSIVE ReadInfos(_, _)
ReadInfos(s, end) == IF Going(s) /\ s.p < end THEN ReadInfos(ReadInfo(s), end) ELSE s
ReadPmtHead(s) ==
    Then(ReadInt(ReadInt(Read(Read(Require(s, 9), "program_number", 2), "version", 3), "PCR_PID", 2, 8192),
                 "desc_length", 2, 4096),
         LAMBDA t : Checked(t, "desc", t.r["desc_length"]))
ReadPmt(s, section_length, pid) ==
    Then(ReadPmtHead(s), LAMBDA t :
        Then(ReadInfos(Set(t, "infos", <<>>), t.p + section_length - 4 - 9 - t.r["desc_length"]), LAMBDA u :
            Apply(u, pid, "pmt")))

\* What follows the checksum is stuffing.
EndOfSection(s, from) ==
    Then(Checked(s, "CRC_32", 4), LAMBDA t :
        Then(Check(t, t.r["CRC_32"] = srs_crc32_mpegts(SubSeq(t.b, from + 1, t.p - 4))), LAMBDA u :
            Skip(u, Left(u))))
ReadSection(s, pid) ==
    Then(ReadInt(Read(Require(s, 3), "table_id", 1), "section_length", 2, 4096), LAMBDA t :
        LET n == t.r["section_length"] IN
        IF n = 0 THEN t
        ELSE Then(Require(t, n), LAMBDA u :
                 EndOfSection(IF pid = PidPAT THEN ReadPat(u, n) ELSE ReadPmt(u, n, pid), s.p)))
ReadPsi(s, unit_start, pid) ==
    Then(IF unit_start THEN Checked(s, "pointer_field", 1) ELSE s, LAMBDA t : ReadSection(t, pid))

-----------------------------------------------------------------------------
(* The packet                                                                 *)
AdaptionOnly == 2
PayloadOnly == 1
Both == 3
SrsTsPacket(pid, unit_start, cc, payload) ==
    [pid |-> pid, unit_start |-> unit_start, cc |-> cc, control |-> PayloadOnly,
     adaptation_field |-> <<>>, payload |-> payload]
CreatePat(pmt_number, pmt_pid) ==
    SrsTsPacket(PidPAT, TRUE, 0, << SrsTsPayloadPAT(<< SrsTsPayloadPATProgram(pmt_number, pmt_pid) >>) >>)

\* The clock goes with the audio, and with the video when there is any. A
\* stream the program does not write has no entry.
StreamH264 == 27
StreamAAC == 15
StreamMp3 == 4
NoStream == 0
CreatePmt(pmt_number, pmt_pid, vpid, vs, apid, as) ==
    LET audio == IF as \in {StreamAAC, StreamMp3} THEN << SrsTsPayloadPMTESInfo(as, apid, <<>>) >> ELSE <<>>
        video == IF vs = StreamH264 THEN << SrsTsPayloadPMTESInfo(vs, vpid, <<>>) >> ELSE <<>>
    IN SrsTsPacket(pmt_pid, TRUE, 0,
                   << SrsTsPayloadPMT(pmt_number, IF video # <<>> THEN vpid ELSE apid, <<>>, audio \o video) >>)
CreatePesFirst(pid, sid, cc, discontinuity, pcr, dts, pts, size) ==
    LET first == SrsTsPacket(pid, TRUE, cc, << SrsTsPayloadPES(sid, IF size > 65535 THEN 0 ELSE size, pts, dts) >>)
    IN IF pcr = NoTime THEN first
       ELSE [first EXCEPT !.control = Both,
                          !.adaptation_field = << [SrsTsAdaptationField EXCEPT !.discontinuity = discontinuity,
                                                                               !.pcr = Clock(pcr)] >>]
CreatePesContinue(pid, cc) == SrsTsPacket(pid, FALSE, cc, <<>>)

SizePayload(p, unit_start) == IF p.kind = "pes" THEN SizePes(p) ELSE SizePsi(p, unit_start)
SizePacket(p) ==
    4 + (IF p.adaptation_field = <<>> THEN 0 ELSE SizeAf(p.adaptation_field[1]))
    + (IF p.payload = <<>> THEN 0 ELSE SizePayload(p.payload[1], p.unit_start))

\* An adaptation field made for the stuffing takes at least two bytes, one more
\* than a single byte of stuffing asks for.
Padding(p, nb_stuffings) ==
    LET created == p.adaptation_field = <<>>
        field == IF created THEN SrsTsAdaptationField ELSE p.adaptation_field[1]
        n == IF created THEN Max({0, nb_stuffings - SizeAf(field)}) ELSE nb_stuffings
    IN [p EXCEPT !.adaptation_field = << [field EXCEPT !.nb_af_reserved = n] >>,
                 !.control = IF @ = PayloadOnly THEN Both ELSE @]

WritePayload(p, unit_start) == IF p.kind = "pes" THEN WritePes(p) ELSE WritePsi(p, unit_start)
WritePacket(p) ==
    <<71>> \o Write2(p.pid + Flags(<< <<p.unit_start, 16384>> >>)) \o Write1(p.cc + 16 * p.control)
    \o (IF p.adaptation_field = <<>> THEN <<>> ELSE WriteAf(p.adaptation_field[1]))
    \o (IF p.payload = <<>> THEN <<>> ELSE WritePayload(p.payload[1], p.unit_start))

\* encode_pes: how many bytes of a frame go behind the packet, and the packet
\* that fills 188 bytes with them.
Fill(p, left) ==
    LET n == Min({left, SRS_TS_PACKET_SIZE - SizePacket(p)})
        nb_stuffings == SRS_TS_PACKET_SIZE - SizePacket(p) - n
        padded == Padding(p, nb_stuffings)
    IN IF nb_stuffings = 0 THEN [packet |-> p, n |-> n]
       ELSE [packet |-> padded, n |-> Min({left, SRS_TS_PACKET_SIZE - SizePacket(padded)})]

\* A decoder that has learned the uses of some pids, with a message of which it
\* has got some bytes (length 0: it does not know how many there are), the last
\* of them with a counter; given is how long the messages are that it gives.
TsReader(bytes, knows) == [Reader(bytes) EXCEPT !.r = [payload |-> <<>>, given |-> <<>>] @@ knows]
UseOfPid(s, pid) == IF pid = PidPAT THEN "pat" ELSE IF pid \in DOMAIN s.r["apply"] THEN s.r["apply"][pid] ELSE "unknown"

\* The payload of a pid that is not known is skipped.
ReadPayload(s, use, unit_start, pid, cc, from) ==
    IF use \in {"pat", "pmt"} THEN ReadPsi(s, unit_start, pid)
    ELSE IF use \in {"video", "audio"} THEN ReadPes(s, unit_start, cc)
    ELSE Skip(s, SRS_TS_PACKET_SIZE - (s.p - from))
ReadBody(s, from) ==
    LET pidv == Unsigned(s.r["pidv"])
        control == (AsByte(s.r["ccv"]) \div 16) % 4
        field == IF control \in {AdaptionOnly, Both} THEN ReadAf(s, control) ELSE s
    IN IF control \in {PayloadOnly, Both}
       THEN Then(field, LAMBDA t :
                ReadPayload(t, UseOfPid(t, pidv % 8192), Bit(pidv, 16384), pidv % 8192, AsByte(s.r["ccv"]) % 16, from))
       ELSE field
ReadTsPacket(s) ==
    Then(Read(Require(s, 4), "sync_byte", 1), LAMBDA t :
        Then(Read(Read(Check(t, t.r["sync_byte"] = <<71>>), "pidv", 2), "ccv", 1), LAMBDA u : ReadBody(u, s.p)))
=============================================================================
