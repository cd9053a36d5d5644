------------------------------- MODULE Mp4Boxes -------------------------------
(* The boxes of an MP4 file: every class as the layout of its header, and the *)
(* size, the encoding and the decoding that all of them share.                *)
EXTENDS SrsBuffer

\* A box: its type, version and flags, the fields of its header, the entries
\* of its table (or the bytes, strings or boxes that end its header), and the
\* boxes it contains.
Box(t, fields, entries, boxes) ==
    [type |-> t, version |-> 0, flags |-> <<0, 0, 0>>, fields |-> fields,
     entries |-> entries, boxes |-> boxes]

BoxTypes == << "ftyp", "mdat", "free", "skip", "moov", "mvhd", "trak", "tkhd", "edts", "elst",
               "mdia", "mdhd", "hdlr", "minf", "vmhd", "smhd", "dinf", "url ", "urn ", "dref",
               "stbl", "stsd", "stts", "ctts", "stss", "stsc", "stco", "co64", "stsz", "avc1",
               "avcC", "mp4a", "esds", "udta" >>
Code(t) == Opaque(CHOOSE i \in DOMAIN BoxTypes : BoxTypes[i] = t, 4)

-----------------------------------------------------------------------------
(* The classes. "fixed" lists the fields in order with their width; one that *)
(* has no name is written as zero and skipped. "tail" says what ends the      *)
(* header and "width" how wide an entry of its table is.                      *)
Layout(full, fixed, tail, width) ==
    [full |-> full, fixed |-> fixed, tail |-> tail, width |-> width]
Container == Layout(FALSE, <<>>, "none", 0)
Table(width) == Layout(TRUE, <<>>, "table", width)
Times(v) ==
    LET w == IF v = 1 THEN 8 ELSE 4
    IN << <<"creation_time", w>>, <<"modification_time", w>>, <<"timescale", 4>>, <<"duration", w>> >>

SrsMp4FileTypeBox ==
    Layout(FALSE, << <<"major_brand", 4>>, <<"minor_version", 4>> >>, "rest", 4)
SrsMp4FreeSpaceBox == Layout(FALSE, <<>>, "rest", 1)
SrsMp4UserDataBox == Layout(FALSE, <<>>, "rest", 1)
SrsMp4AvccBox == Layout(FALSE, <<>>, "rest", 1)
SrsMp4MovieHeaderBox(v) ==
    Layout(TRUE, Times(v) \o << <<"rate", 4>>, <<"volume", 2>>, <<"", 2>>, <<"", 8>>, <<"matrix", 36>>,
                                <<"", 24>>, <<"next_track_ID", 4>> >>, "none", 0)
SrsMp4TrackHeaderBox(v) ==
    LET w == IF v = 1 THEN 8 ELSE 4
    IN Layout(TRUE, << <<"creation_time", w>>, <<"modification_time", w>>, <<"track_ID", 4>>, <<"", 4>>,
                       <<"duration", w>>, <<"", 8>>, <<"layer", 2>>, <<"alternate_group", 2>>,
                       <<"volume", 2>>, <<"", 2>>, <<"matrix", 36>>, <<"width", 4>>, <<"height", 4>> >>,
              "none", 0)
SrsMp4EditListBox(v) == Table(IF v = 1 THEN 8 + 8 + 2 + 2 ELSE 4 + 4 + 2 + 2)
SrsMp4MediaHeaderBox(v) ==
    Layout(TRUE, Times(v) \o << <<"language", 2>>, <<"", 2>> >>, "none", 0)
SrsMp4HandlerReferenceBox ==
    Layout(TRUE, << <<"", 4>>, <<"handler_type", 4>>, <<"", 12>> >>, "strings", 1)
SrsMp4VideoMeidaHeaderBox == Layout(TRUE, << <<"graphicsmode", 2>>, <<"opcolor", 6>> >>, "none", 0)
SrsMp4SoundMeidaHeaderBox == Layout(TRUE, << <<"balance", 2>>, <<"", 2>> >>, "none", 0)
SrsMp4DataEntryUrlBox == Layout(TRUE, <<>>, "location", 0)
SrsMp4DataEntryUrnBox == Layout(TRUE, <<>>, "strings", 2)
SrsMp4DataReferenceBox == Layout(TRUE, <<>>, "boxes", 0)
SrsMp4SampleDescriptionBox == Layout(TRUE, <<>>, "boxes", 0)
SrsMp4VisualSampleEntry ==
    Layout(FALSE, << <<"", 6>>, <<"data_reference_index", 2>>, <<"", 16>>, <<"width", 2>>, <<"height", 2>>,
                     <<"horizresolution", 4>>, <<"vertresolution", 4>>, <<"", 4>>, <<"frame_count", 2>>,
                     <<"compressorname", 32>>, <<"depth", 2>>, <<"", 2>> >>, "none", 0)
SrsMp4AudioSampleEntry ==
    Layout(FALSE, << <<"", 6>>, <<"data_reference_index", 2>>, <<"", 8>>, <<"channelcount", 2>>,
                     <<"samplesize", 2>>, <<"", 4>>, <<"samplerate", 4>> >>, "none", 0)
SrsMp4EsdsBox == Layout(TRUE, <<>>, "es", 0)
SrsMp4DecodingTime2SampleBox == Table(8)
SrsMp4CompositionTime2SampleBox(v) == Table(IF v \in {0, 1} THEN 8 ELSE 4)
SrsMp4SyncSampleBox == Table(4)
SrsMp4Sample2ChunkBox == Table(12)
SrsMp4ChunkOffsetBox == Table(4)
SrsMp4ChunkLargeOffsetBox == Table(8)
SrsMp4SampleSizeBox == Layout(TRUE, << <<"sample_size", 4>> >>, "sizes", 4)

Class(t, v) ==
    CASE t = "ftyp" -> SrsMp4FileTypeBox
      [] t \in {"free", "skip"} -> SrsMp4FreeSpaceBox
      [] t = "mvhd" -> SrsMp4MovieHeaderBox(v)
      [] t = "tkhd" -> SrsMp4TrackHeaderBox(v)
      [] t = "elst" -> SrsMp4EditListBox(v)
      [] t = "mdhd" -> SrsMp4MediaHeaderBox(v)
      [] t = "hdlr" -> SrsMp4HandlerReferenceBox
      [] t = "vmhd" -> SrsMp4VideoMeidaHeaderBox
      [] t = "smhd" -> SrsMp4SoundMeidaHeaderBox
      [] t = "url " -> SrsMp4DataEntryUrlBox
      [] t = "urn " -> SrsMp4DataEntryUrnBox
      [] t = "dref" -> SrsMp4DataReferenceBox
      [] t = "stsd" -> SrsMp4SampleDescriptionBox
      [] t = "avc1" -> SrsMp4VisualSampleEntry
      [] t = "avcC" -> SrsMp4AvccBox
      [] t = "mp4a" -> SrsMp4AudioSampleEntry
      [] t = "esds" -> SrsMp4EsdsBox
      [] t = "stts" -> SrsMp4DecodingTime2SampleBox
      [] t = "ctts" -> SrsMp4CompositionTime2SampleBox(v)
      [] t = "stss" -> SrsMp4SyncSampleBox
      [] t = "stsc" -> SrsMp4Sample2ChunkBox
      [] t = "stco" -> SrsMp4ChunkOffsetBox
      [] t = "co64" -> SrsMp4ChunkLargeOffsetBox
      [] t = "stsz" -> SrsMp4SampleSizeBox
      [] t = "udta" -> SrsMp4UserDataBox
      [] OTHER -> Container      \* moov, trak, edts, mdia, minf, dinf, stbl, mdat

-----------------------------------------------------------------------------
(* The descriptors of esds: a tag, a length of one to four bytes of 7 bits,   *)
(* and the payload.                                                           *)
LengthBytes(n) == IF n > 2097151 THEN 4 ELSE IF n > 16383 THEN 3 ELSE IF n > 127 THEN 2 ELSE 1
SizeDescriptor(n) == 1 + LengthBytes(n) + n
WriteDescriptor(tag, payload) ==
    LET n == Len(payload) IN
    Write1(tag)
    \o (IF n > 2097151 THEN <<((n \div 2097152) % 128) + 128>> ELSE <<>>)
    \o (IF n > 16383 THEN <<((n \div 16384) % 128) + 128>> ELSE <<>>)
    \o (IF n > 127 THEN <<((n \div 128) % 128) + 128>> ELSE <<>>)
    \o <<n % 128>> \o payload

\* Descriptors have these tags; a decoder reads the tag and takes any.
ESDescr == 3
DecoderConfigDescr == 4
DecSpecificInfo == 5
SLConfigDescr == 6

\* es: ES_ID, dependsOn, URLstring and OCR (empty when their flag is not set),
\* the 13 bytes of the decoder configuration and the codec's own bytes.
NbConfig(asc) == 13 + SizeDescriptor(Len(asc))
NbEs(es) ==
    2 + 1 + Len(es.dependsOn) + (IF es.URLstring = <<>> THEN 0 ELSE 1 + Len(es.URLstring)) + Len(es.OCR)
    + SizeDescriptor(NbConfig(es.asc)) + SizeDescriptor(1)
Flag(field, weight) == IF field = <<>> THEN 0 ELSE weight
WriteEs(es) ==
    WriteDescriptor(ESDescr,
        es.ES_ID \o Write1(Flag(es.dependsOn, 128) + Flag(es.URLstring, 64) + Flag(es.OCR, 32))
        \o es.dependsOn
        \o (IF es.URLstring = <<>> THEN <<>> ELSE Write1(Len(es.URLstring)) \o es.URLstring)
        \o es.OCR
        \o WriteDescriptor(DecoderConfigDescr, es.config \o WriteDescriptor(DecSpecificInfo, es.asc))
        \o WriteDescriptor(SLConfigDescr, <<2>>))

\* decode() first asks for the size the descriptor has before it is read.
RECURSIVE ReadLength(_, _)
ReadLength(s, n) ==
    Then(Checked(s, "b", 1), LAMBDA t :
        LET b == AsByte(t.r["b"]) IN
        IF b > 127 THEN ReadLength(t, 128 * n + b - 128) ELSE Set(t, "vlen", 128 * n + b))
ReadDescriptor(s, initial) ==
    Then(ReadLength(Read(Require(s, SizeDescriptor(initial)), "tag", 1), 0),
         LAMBDA t : Require(t, t.r["vlen"]))
ReadConfig(s) ==
    Then(ReadDescriptor(s, 13), LAMBDA t :
        LET c == Read(t, "config", 13) IN
        IF t.r["vlen"] <= 13 THEN c
        ELSE Then(ReadDescriptor(c, 0), LAMBDA d : Read(d, "asc", d.r["vlen"])))
\* A part of es that is there when its flag is set.
Flagged(s, weight, f, n, absent) ==
    Then(s, LAMBDA t : IF (AsByte(t.r["bits"]) \div weight) % 2 = 1 THEN Checked(t, f, n)
                       ELSE Set(t, f, absent))
ReadUrl(s) ==
    Then(Flagged(s, 64, "n", 1, <<0>>), LAMBDA t : Checked(t, "URLstring", AsByte(t.r["n"])))
ReadEs(s) ==
    LET head == ReadDescriptor(s, 3 + SizeDescriptor(13) + SizeDescriptor(1))
        bits == Read(Read(head, "ES_ID", 2), "bits", 1)
        parts == Flagged(ReadUrl(Flagged(bits, 128, "dependsOn", 2, <<>>)), 32, "OCR", 2, <<>>)
    IN Then(Read(ReadDescriptor(ReadConfig(parts), 1), "predefined", 1),
            LAMBDA t : Check(t, t.r["predefined"] = <<2>>))
EsOf(r) == [ES_ID |-> r["ES_ID"], dependsOn |-> r["dependsOn"], URLstring |-> r["URLstring"],
            OCR |-> r["OCR"], config |-> r["config"], asc |-> r["asc"]]

-----------------------------------------------------------------------------
(* Size and encoding *)
Total(numbers) == FoldLeft(LAMBDA x, y : x + y, 0, numbers)
Widths(fixed) == Total([i \in DOMAIN fixed |-> fixed[i][2]])
StringLength(v) == Len(v) + 1
\* srs_mp4_string_write: an empty string has not even its end.
StringWrite(v) == IF v = <<>> THEN <<>> ELSE v \o <<0>>
SizesListed(x) == x.fields["sample_size"] = <<0, 0, 0, 0>>

RECURSIVE NbBytes(_)
NbTail(x) ==
    LET c == Class(x.type, x.version) IN
    CASE c.tail = "none" -> 0
      [] c.tail = "rest" -> c.width * Len(x.entries)
      [] c.tail = "table" -> 4 + c.width * Len(x.entries)
      [] c.tail = "sizes" -> 4 + (IF SizesListed(x) THEN c.width * Len(x.entries) ELSE 0)
      [] c.tail = "strings" -> Total([i \in DOMAIN x.entries |-> StringLength(x.entries[i])])
      [] c.tail = "location" -> IF x.entries = << <<>> >> THEN 0 ELSE StringLength(x.entries[1])
      [] c.tail = "boxes" -> 4 + Total([i \in DOMAIN x.entries |-> NbBytes(x.entries[i])])
      [] c.tail = "es" -> SizeDescriptor(NbEs(x.entries[1]))
NbHeader(x) ==
    LET c == Class(x.type, x.version)
    IN 8 + (IF c.full THEN 1 + 3 ELSE 0) + Widths(c.fixed) + NbTail(x)
NbBytes(x) == NbHeader(x) + Total([i \in DOMAIN x.boxes |-> NbBytes(x.boxes[i])])
\* The block of mdat is its header alone, its size counts the samples too.
ActualSize(x) == IF x.type = "mdat" THEN 8 + Len(x.entries) ELSE NbBytes(x)

RECURSIVE Encode(_)
EncodeAll(boxes) == FlattenSeq([i \in DOMAIN boxes |-> Encode(boxes[i])])
EncodeTail(x) ==
    LET c == Class(x.type, x.version) IN
    CASE c.tail = "none" -> <<>>
      [] c.tail = "rest" -> FlattenSeq(x.entries)
      [] c.tail = "table" -> Write4(Len(x.entries)) \o FlattenSeq(x.entries)
      [] c.tail = "sizes" -> Write4(Len(x.entries))
                             \o (IF SizesListed(x) THEN FlattenSeq(x.entries) ELSE <<>>)
      [] c.tail \in {"strings", "location"} ->
           FlattenSeq([i \in DOMAIN x.entries |-> StringWrite(x.entries[i])])
      [] c.tail = "boxes" -> Write4(Len(x.entries)) \o EncodeAll(x.entries)
      [] c.tail = "es" -> WriteEs(x.entries[1])
FieldBytes(x, field) ==
    IF field[1] = "" THEN [i \in 1..field[2] |-> 0] ELSE x.fields[field[1]]
Encode(x) ==
    LET c == Class(x.type, x.version)
        flags == IF c.tail = "location" /\ x.entries = << <<>> >> THEN <<0, 0, 1>> ELSE x.flags
    IN Write4(ActualSize(x)) \o Code(x.type)
       \o (IF c.full THEN Write1(x.version) \o flags ELSE <<>>)
       \o FlattenSeq([i \in DOMAIN c.fixed |-> FieldBytes(x, c.fixed[i])])
       \o EncodeTail(x) \o EncodeAll(x.boxes)

-----------------------------------------------------------------------------
(* Decoding *)
\* The size a box asks for before its fields are known.
InitialTail(c) ==
    CASE c.tail \in {"none", "rest", "location"} -> 0
      [] c.tail = "es" -> SizeDescriptor(3 + SizeDescriptor(13) + SizeDescriptor(1))
      [] c.tail = "strings" -> c.width
      [] OTHER -> 4

ReadFixed(s, fixed) ==
    FoldLeft(LAMBDA t, field : IF field[1] = "" THEN Skip(t, field[2]) ELSE Read(t, field[1], field[2]),
             s, fixed)

RECURSIVE ReadEntries(_, _, _, _)
ReadEntries(s, n, w, read) ==
    IF ~Going(s) \/ n <= 0 THEN Set(s, "v", read)
    ELSE Then(Read(s, "v", w), LAMBDA t : ReadEntries(t, n - 1, w, Append(read, t.r["v"])))
\* srs_mp4_string_read: to the first zero of what is left of the box.
ReadString(s, left) ==
    LET ends == {i \in 1..left : s.p + i <= Len(s.b) /\ s.b[s.p + i] = 0} IN
    IF ~Going(s) \/ left = 0 THEN Set(s, "v", <<>>)
    ELSE IF ends = {} THEN Fail(s)
    ELSE LET n == CHOOSE i \in ends : \A j \in ends : i <= j
         IN Skip(Set(s, "v", Peek(s, n - 1)), n)

RECURSIVE ReadBox(_), ReadBoxes(_, _, _), ReadStrings(_, _, _, _)
ReadStrings(s, end, n, read) ==
    IF ~Going(s) \/ n = 0 THEN Set(s, "v", read)
    ELSE Then(ReadString(s, end - s.p), LAMBDA t :
             ReadStrings(t, end, n - 1, Append(read, t.r["v"])))
\* The boxes up to the end of the one that contains them.
ReadBoxes(s, left, read) ==
    IF ~Going(s) \/ left <= 0 THEN Set(s, "v", read)
    ELSE Then(ReadBox(s), LAMBDA t :
             ReadBoxes(t, left - t.r["sz"], Append(read, t.r["v"])))
\* The boxes a table of boxes counts; each gets the version and flags of the
\* table.
RECURSIVE ReadCounted(_, _, _, _)
AsTable(x, full) ==
    IF Class(x.type, x.version).full THEN [x EXCEPT !.version = full.version, !.flags = full.flags]
    ELSE x
ReadCounted(s, n, full, read) ==
    IF ~Going(s) \/ n <= 0 THEN Set(s, "v", read)
    ELSE Then(ReadBox(s), LAMBDA t :
             ReadCounted(t, n - 1, full, Append(read, AsTable(t.r["v"], full))))

\* The table of a box: its count, and its entries when they are listed.
ReadTable(s, c, full) ==
    Then(Read(s, "count", 4), LAMBDA t :
        LET n == AsInt(t.r["count"]) IN
        CASE c.tail = "boxes" -> ReadCounted(t, n, full, <<>>)
          [] c.tail = "sizes" /\ s.r["sample_size"] # <<0, 0, 0, 0>> ->
               Set(t, "v", [i \in 1..n |-> <<>>])
          [] OTHER -> ReadEntries(t, n, c.width, <<>>))
ReadTail(s, c, end, full) ==
    CASE c.tail = "none" \/ (c.tail = "location" /\ full.flags = <<0, 0, 1>>) ->
           Set(s, "v", IF c.tail = "none" THEN <<>> ELSE << <<>> >>)
      [] c.tail = "rest" -> ReadEntries(s, (end - s.p) \div c.width, c.width, <<>>)
      [] c.tail \in {"table", "sizes", "boxes"} -> ReadTable(s, c, full)
      [] c.tail = "strings" -> ReadStrings(s, end, c.width, <<>>)
      [] c.tail = "location" -> ReadStrings(s, end, 1, <<>>)
      [] c.tail = "es" -> Then(ReadEs(s), LAMBDA t : Set(t, "v", <<EsOf(t.r)>>))

\* discovery(): the small or large size, and a type that is known.
TypeOf(code) == CHOOSE t \in Range(BoxTypes) : Code(t) = code
Discovery(s) ==
    Then(Read(Read(Require(s, 8), "size", 4), "type", 4), LAMBDA h :
        LET l == IF h.r["size"] = <<0, 0, 0, 1>> THEN Checked(h, "size", 8) ELSE h
        IN Check(l, \E t \in Range(BoxTypes) : Code(t) = h.r["type"]))

\* decode(): the version of a full box says how wide the fields are.
Asked(c) == Widths(c.fixed) + InitialTail(c)
ReadFull(s, c) ==
    IF c.full THEN Checked(Checked(Require(s, 4 + Asked(c)), "version", 1), "flags", 3)
    ELSE Set(Set(Require(s, Asked(c)), "version", <<0>>), "flags", <<0, 0, 0>>)
\* The header after its version, and the boxes behind it.
ReadBody(s, start, type, full) ==
    LET c == Class(type, full.version) end == start + AsInt(s.r["size"]) IN
    Then(ReadFixed(IF c.full THEN Require(s, Asked(c)) ELSE s, c.fixed), LAMBDA x :
        Then(ReadTail(x, c, end, full), LAMBDA e :
            Then(ReadBoxes(e, end - e.p, <<>>), LAMBDA b :
                Set(Set(b, "sz", end - start), "v",
                    [type |-> type, version |-> full.version, flags |-> full.flags,
                     fields |-> [n \in {c.fixed[i][1] : i \in DOMAIN c.fixed} \ {""} |-> x.r[n]],
                     entries |-> e.r["v"], boxes |-> b.r["v"]]))))
ReadBox(s) ==
    Then(Discovery(s), LAMBDA h :
        LET type == TypeOf(h.r["type"]) IN
        Then(ReadFull(h, Class(type, 0)), LAMBDA v :
            ReadBody(v, s.p, type, [version |-> v.r["version"][1], flags |-> v.r["flags"]])))
=============================================================================
