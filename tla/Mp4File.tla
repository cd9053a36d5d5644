------------------------------- MODULE Mp4File -------------------------------
(* An MP4 file from SrsMp4Encoder, or from another muxer, to SrsMp4Decoder.   *)
(* The file is a sequence of units of 4 bytes: a box begins with its size and *)
(* its type. The recorder may die and the copy may be cut at any unit.        *)
EXTENDS Mp4Samples

CONSTANTS
    Kinds,       \* what a sample may be: [type, size, cts, key], size in units
    Steps,       \* by how much a sample may be later than the one before
    MaxSamples,  \* bound: samples of a recording
    Layouts,     \* how another muxer lays out its file: sequences of boxes
    Sizes,       \* of the boxes, in units: [ftyp |-> , free |-> , moov |-> ]
    BufSize,     \* SRS_MP4_BUF_SIZE, in units
    CutSamples   \* bound: samples of a file that is cut

ASSUME BufSizeAssumption == BufSize \in Nat \ {0}
\* A box is no less than its header, and a moov box comes after a ftyp box. The
\* encoder is given no empty sample: with no byte in its mdat box a recording
\* opens before its flush has ended.
Header == 2
Boxes == {"ftyp", "free", "mdat", "moov"}
ASSUME SizesAssumption == \A name \in Boxes \ {"mdat"} : Sizes[name] \in Nat /\ Sizes[name] >= Header
ASSUME KindsAssumption ==
    /\ \A k \in Kinds : k.type \in {Video, Audio} /\ k.size \in Nat \ {0} /\ k.cts \in Int
    /\ Steps \subseteq Int
ASSUME LayoutsAssumption ==
    \A boxes \in Layouts :
       /\ boxes \in Seq(Boxes) /\ boxes # <<"ftyp", "mdat", "moov">>
       /\ \A name \in {"mdat", "moov"} : \E i \in DOMAIN boxes : boxes[i] = name
       /\ \A i \in DOMAIN boxes : boxes[i] = "moov" => \E j \in 1..(i - 1) : boxes[j] = "ftyp"

VARIABLES enc, file, headers, written, layout
VARIABLES dec, pos, stream, box, ftyp, mdatAt, samples, index, current, out
encoder == <<enc, file, headers, written, layout>>
decoder == <<dec, pos, stream, box, ftyp, mdatAt, samples, index, current, out>>
vars == <<enc, file, headers, written, layout, dec, pos, stream, box, ftyp, mdatAt, samples, index, current, out>>

NoBox == [box |-> "none", sz |-> 0]
NoTables == [types |-> {}]
Units(name, sz, n, tables) ==
    [i \in 1..n |-> IF i = 1 THEN [box |-> name, sz |-> sz, tables |-> tables] ELSE [of |-> name, part |-> i]]
Whole(name, tables) == Units(name, Sizes[name], Sizes[name], tables)
Mdat(bytes) == Units("mdat", Header + bytes, Header, NoTables)
Data(k, size) == [i \in 1..size |-> [sample |-> k, part |-> i]]
Bytes == Sum([k \in DOMAIN written |-> written[k].size])
Own == <<"ftyp", "mdat", "moov">>
Sample == [type : {Video, Audio}, size : Nat \ {0}, key : {k.key : k \in Kinds}, offset : Nat, dts : Int, pts : Int]

-----------------------------------------------------------------------------
(* SrsMp4Encoder *)

Init ==
    /\ enc = "closed" /\ file = <<>> /\ headers = {} /\ written = <<>> /\ layout = Own
    /\ dec = "closed" /\ pos = 0 /\ stream = <<>> /\ box = NoBox /\ ftyp = FALSE /\ mdatAt = -1
    /\ samples = <<>> /\ index = 0 /\ current = 0 /\ out = <<>>

Initialize ==
    /\ enc = "closed"
    /\ enc' = "recording"
    /\ file' = Whole("ftyp", NoTables) \o Mdat(0)
    /\ UNCHANGED <<headers, written, layout, decoder>>

\* write_sample of a sequence header. One that differs from the first is
\* refused and the same one is ignored.
CopySequenceHeader(type) ==
    /\ enc = "recording" /\ type \notin headers
    /\ headers' = headers \cup {type}
    /\ UNCHANGED <<enc, file, written, layout, decoder>>

LastDts == IF written = <<>> THEN 0 ELSE written[Len(written)].dts
WriteSample(kind, step) ==
    /\ enc = "recording" /\ kind.type \in headers /\ Len(written) < MaxSamples
    /\ file' = file \o Data(Len(written) + 1, kind.size)
    /\ written' = Append(written, [type |-> kind.type, size |-> kind.size, key |-> kind.key, offset |-> Len(file),
                                   dts |-> LastDts + step, pts |-> LastDts + step + kind.cts])
    /\ UNCHANGED <<enc, headers, layout, decoder>>

\* The moov box holds what the tables are loaded as, so that a run computes it
\* once.
Moov(tracks) ==
    LET legal == Loadable(tracks)
    IN Whole("moov", [types |-> DOMAIN tracks, headers |-> headers, legal |-> legal,
                      samples |-> IF legal THEN Load(tracks) ELSE <<>>])
FlushMoov ==
    /\ enc = "recording" /\ written # <<>>
    /\ enc' = "flushing"
    /\ file' = file \o Moov(Write(written))
    /\ UNCHANGED <<headers, written, layout, decoder>>
FlushMdat ==
    /\ enc = "flushing"
    /\ enc' = "done"
    /\ file' = [file EXCEPT ![Sizes["ftyp"] + 1] = Mdat(Bytes)[1]]
    /\ UNCHANGED <<headers, written, layout, decoder>>

\* The recorder dies, the disk is full, or the file is copied in part.
Cut(n) ==
    /\ enc \in {"recording", "flushing", "done"} /\ dec = "closed" /\ Len(written) <= CutSamples
    /\ enc = "done" => n < Len(file)
    /\ enc' = "cut"
    /\ file' = SubSeq(file, 1, n)
    /\ UNCHANGED <<headers, written, layout, decoder>>

-----------------------------------------------------------------------------
(* Another muxer writes the same samples: several of a track that follow each *)
(* other are one chunk, and a sample's entry of stts is the time to the next. *)
RunOn(runs, v) ==
    LET n == Len(runs) IN
    IF n # 0 /\ runs[n].value = v THEN [runs EXCEPT ![n] = [count |-> runs[n].count + 1, value |-> v]]
    ELSE Append(runs, [count |-> 1, value |-> v])
Runs(values) == Accumulated([p \in Seq(Run) \X Int |-> RunOn(p[1], p[2])], <<>>, values)
Chunk == [type : {Video, Audio}, n : Nat, offset : Nat]
ChunkOn(chunks, s) ==
    LET c == Len(chunks) IN
    IF c # 0 /\ chunks[c].type = s.type THEN [chunks EXCEPT ![c] = [type |-> s.type, n |-> chunks[c].n + 1, offset |-> chunks[c].offset]]
    ELSE Append(chunks, [type |-> s.type, n |-> 1, offset |-> s.offset])
Chunks(list) == Accumulated([p \in Seq(Chunk) \X Sample |-> ChunkOn(p[1], p[2])], <<>>, list)
\* A chunk has an entry in stsc when it has more or less samples than the one before.
EntryOn(entries, counts, c) ==
    IF c > 1 /\ counts[c] = counts[c - 1] THEN entries ELSE Append(entries, [first |-> c, samples |-> counts[c]])
Stsc(counts) ==
    Accumulated([p \in Seq([first : Nat, samples : Nat]) \X Nat |-> EntryOn(p[1], counts, p[2])], <<>>,
                [c \in DOMAIN counts |-> c])
MuxTrack(list, type) ==
    LET track == OfType(list, type)
        chunks == OfType(Chunks(list), type)
        w == WriteTrack(list, type, FALSE)
        Delta(k) == IF k < Len(track) THEN track[k + 1].dts - track[k].dts ELSE 1
    IN [stts |-> Runs([k \in DOMAIN track |-> Delta(k)]),
        ctts |-> IF type = Video THEN Runs([k \in DOMAIN track |-> track[k].pts - track[k].dts]) ELSE NoTable,
        stss |-> w.stss, stsz |-> w.stsz,
        stsc |-> Stsc([c \in DOMAIN chunks |-> chunks[c].n]),
        stco |-> [c \in DOMAIN chunks |-> chunks[c].offset]]

Mux(boxes) ==
    LET SizeOf(name) == IF name = "mdat" THEN Header + Bytes ELSE Sizes[name]
        at == CHOOSE i \in DOMAIN boxes : boxes[i] = "mdat"
        base == Header + Sum([i \in 1..(at - 1) |-> SizeOf(boxes[i])])
        moved == [k \in DOMAIN written |-> [written[k] EXCEPT !.offset = base + Sum([i \in 1..(k - 1) |-> written[i].size])]]
        tracks == [type \in headers |-> MuxTrack(moved, type)]
        Content(name) ==
            CASE name = "mdat" -> Mdat(Bytes) \o FlattenSeq([k \in DOMAIN written |-> Data(k, written[k].size)])
              [] name = "moov" -> Moov(tracks)
              [] OTHER -> Whole(name, NoTables)
    IN /\ enc = "recording" /\ headers = {written[k].type : k \in DOMAIN written} /\ written # <<>>
       /\ enc' = "done"
       /\ written' = moved
       /\ layout' = boxes
       /\ file' = FlattenSeq([i \in DOMAIN boxes |-> Content(boxes[i])])
       /\ UNCHANGED <<headers, decoder>>

-----------------------------------------------------------------------------
(* SrsMp4Decoder::initialize *)

Open ==
    /\ dec = "closed" /\ enc \in {"done", "cut"}
    /\ dec' = "loading"
    /\ UNCHANGED <<encoder, pos, stream, box, ftyp, mdatAt, samples, index, current, out>>

Refuse == dec' = "refused" /\ UNCHANGED <<pos, stream, box, ftyp, mdatAt, samples, index, current, out>>

\* Only the first half of a header is asked for before the box is known.
Required == IF box = NoBox THEN 1 ELSE box.sz
Upto(n) == IF pos + n < Len(file) THEN n ELSE IF pos < Len(file) THEN Len(file) - pos ELSE 0
\* Mutant: the end of the file is not an error.
ReadAgain ==
    /\ dec = "loading" /\ box.box # "mdat" /\ Len(stream) < Required
    /\ stream' = stream \o SubSeq(file, pos + 1, pos + Upto(BufSize))
    /\ pos' = pos + Upto(BufSize)
    /\ UNCHANGED <<encoder, dec, box, ftyp, mdatAt, samples, index, current, out>>
ReadMore ==
    /\ dec = "loading" /\ box.box # "mdat" /\ Len(stream) < Required
    /\ IF pos >= Len(file) THEN Refuse
       ELSE /\ stream' = stream \o SubSeq(file, pos + 1, pos + Upto(BufSize))
            /\ pos' = pos + Upto(BufSize)
            /\ UNCHANGED <<dec, box, ftyp, mdatAt, samples, index, current, out>>
    /\ UNCHANGED encoder

\* SrsMp4Box::discovery: with less than a header the loop goes round forever.
IsBox(unit) == "box" \in DOMAIN unit
\* Mutant: what is no box is skipped.
DiscoverAnything ==
    /\ dec = "loading" /\ box = NoBox /\ Len(stream) >= Header
    /\ IF IsBox(stream[1]) THEN box' = stream[1] /\ UNCHANGED stream ELSE stream' = Tail(stream) /\ UNCHANGED box
    /\ UNCHANGED <<encoder, dec, pos, ftyp, mdatAt, samples, index, current, out>>
Discover ==
    /\ dec = "loading" /\ box = NoBox /\ Len(stream) >= Header
    /\ IF IsBox(stream[1])
       THEN box' = stream[1] /\ UNCHANGED <<dec, pos, stream, ftyp, mdatAt, samples, index, current, out>>
       ELSE Refuse
    /\ UNCHANGED encoder

\* The content of a mdat that is all in the buffer is decoded as boxes; when
\* it is not, the seek makes up for the error.
SkipMdat ==
    LET over == box.sz - Len(stream)
        next == IF over > 0 THEN pos + over ELSE pos
    IN /\ dec = "loading" /\ box.box = "mdat"
       /\ IF over <= 0 /\ box.sz > Header THEN Refuse
          ELSE /\ stream' = IF over > 0 THEN <<>> ELSE SubSeq(stream, box.sz + 1, Len(stream))
               /\ pos' = next
               /\ mdatAt' = next - box.sz
               /\ box' = NoBox
               /\ UNCHANGED <<dec, ftyp, samples, index, current, out>>
       /\ UNCHANGED encoder

TakeBox ==
    /\ dec = "loading" /\ box.box \in {"ftyp", "free"} /\ Len(stream) >= box.sz
    /\ stream' = SubSeq(stream, box.sz + 1, Len(stream))
    /\ ftyp' = (ftyp \/ box.box = "ftyp")
    /\ box' = NoBox
    /\ UNCHANGED <<encoder, dec, pos, mdatAt, samples, index, current, out>>

\* parse_moov and the end of initialize.
ParseMoov ==
    /\ dec = "loading" /\ box.box = "moov" /\ Len(stream) >= box.sz
    /\ IF box.tables.types = {} \/ ~(box.tables.types \subseteq box.tables.headers) \/ ~box.tables.legal \/ ~ftyp
       THEN Refuse
       ELSE /\ dec' = "loaded"
            /\ samples' = box.tables.samples
            /\ stream' = SubSeq(stream, box.sz + 1, Len(stream))
            /\ pos' = IF mdatAt >= 0 THEN mdatAt ELSE pos
            /\ current' = IF mdatAt >= 0 THEN mdatAt ELSE 0
            /\ UNCHANGED <<box, ftyp, mdatAt, index, out>>
    /\ UNCHANGED encoder

-----------------------------------------------------------------------------
(* SrsMp4Decoder::read_sample. A file without a sequence header of a track is *)
(* refused, so those of its tracks are the ones that the moov box has.        *)

Given(type) == \E i \in DOMAIN out : out[i] = [header |-> type]
Missing == SelectSeq(<<Video, Audio>>, LAMBDA type : type \in box.tables.types /\ ~Given(type))
GiveHeader ==
    /\ dec = "loaded" /\ Missing # <<>>
    /\ out' = Append(out, [header |-> Missing[1]])
    /\ UNCHANGED <<encoder, dec, pos, stream, box, ftyp, mdatAt, samples, index, current>>

\* SrsMp4SampleManager::at never gives the last sample.
At(i) == i < Len(samples) - 1
End == dec' = "eof" /\ UNCHANGED <<pos, current, out>>
\* Mutant: the file is read on from where it is.
ReadOn(s) ==
    /\ out' = Append(out, [sample |-> s, data |-> SubSeq(file, pos + 1, pos + Upto(s.size))])
    /\ pos' = pos + Upto(s.size)
    /\ UNCHANGED <<dec, current>>
\* A short read is taken for the sample: the rest of it is not initialized.
ReadData(s) ==
    LET from == IF s.offset # current THEN s.offset ELSE pos
        n == IF from + s.size < Len(file) THEN s.size ELSE Len(file) - from
    IN IF n <= 0 THEN End
       ELSE /\ out' = Append(out, [sample |-> s, data |-> SubSeq(file, from + 1, from + n)])
            /\ pos' = from + n
            /\ current' = s.offset + s.size
            /\ UNCHANGED dec
ReadSample ==
    /\ dec = "loaded" /\ Missing = <<>>
    /\ IF At(index) THEN ReadData(samples[index + 1]) ELSE End
    /\ index' = index + 1
    /\ UNCHANGED <<encoder, stream, box, ftyp, mdatAt, samples>>

Decode == ReadMore \/ Discover \/ SkipMdat \/ TakeBox \/ ParseMoov \/ GiveHeader \/ ReadSample
Next ==
    \/ Initialize \/ (\E type \in {Video, Audio} : CopySequenceHeader(type))
    \/ (\E kind \in Kinds, step \in Steps : WriteSample(kind, step))
    \/ FlushMoov \/ FlushMdat \/ (\E n \in 0..Len(file) : Cut(n)) \/ (\E boxes \in Layouts : Mux(boxes))
    \/ Open \/ ReadMore \/ Discover \/ SkipMdat \/ TakeBox \/ ParseMoov \/ GiveHeader \/ ReadSample
\* The caller reads until it gets an error.
Spec == Init /\ [][Next]_vars /\ WF_vars(Decode)

-----------------------------------------------------------------------------
Media == SelectSeq(out, LAMBDA o : "sample" \in DOMAIN o)
Complete == enc = "done"

\* Every sample given to the caller is the next one of the recording, of its
\* type, size and kind, after the sequence header of its track, whoever muxed
\* it; its bytes are its own, all of them unless the file was cut
\* (SrsMp4Decoder::read_sample, SrsMp4SampleManager::load_trak).
SamplesInOrder ==
    \A k \in DOMAIN Media :
       LET s == Media[k].sample w == written[k] d == Data(k, w.size) IN
       /\ <<s.type, s.size, s.key>> = <<w.type, w.size, w.key>>
       /\ IsPrefix(Media[k].data, d) /\ (Complete => Media[k].data = d)
       /\ \E i \in DOMAIN out : out[i] = [header |-> s.type]

\* Of a recording of the encoder itself all samples are loaded, and what lies
\* between two samples of a track, and between the dts and the pts of every
\* frame of video but the first, is what it was, unless two samples of the
\* track that follow each other have the same dts (write_track's open entries,
\* STTS(n) read as the time since sample n - 1).
Distinct(track) == \A i \in 2..Len(track) : (track[i].dts - track[i - 1].dts) % Modulus # 0
Cts(s) == IF s.type = Video THEN s.pts - s.dts ELSE 0
KeptTimes(g, w) ==
    \A i \in 2..Len(w) : /\ (g[i].dts - g[i - 1].dts - (w[i].dts - w[i - 1].dts)) % Modulus = 0
                         /\ (g[i].pts - g[i].dts - Cts(w[i])) % Modulus = 0
TimesKept ==
    (layout = Own /\ dec \in {"loaded", "eof"}) =>
       \A type \in {Video, Audio} :
          LET g == OfType(samples, type) w == OfType(written, type)
          IN Len(g) = Len(w) /\ (Distinct(w) => KeptTimes(g, w))

\* A recording whose flush did not end is never taken for a file: the mdat box
\* keeps the size of its header until the moov box is written
\* (SrsMp4Encoder::flush, initialize).
NoPartialRecording == (dec \in {"loaded", "eof"} /\ layout = Own) => Complete

\* A complete file is refused only for a mdat box that the buffer holds whole
\* (SrsMp4Decoder::do_load_next_box).
RefusedForSmallMdat == (dec = "refused" /\ Complete) => box.box = "mdat" /\ Len(stream) >= box.sz

\* A file opens if and only if it is complete, but for the small mdat box.
OpensWhatIsComplete == NoPartialRecording /\ RefusedForSmallMdat

\* The end is not told before every sample that begins in the file was given,
\* the last of the recording excepted (read_sample).
InFile == Cardinality({k \in DOMAIN written : written[k].offset < Len(file)})
EndsLate == dec = "eof" => Len(Media) >= InFile \/ Len(Media) + 1 >= Len(written)

\* What the caller gets of a file is its samples, each unchanged and in order,
\* and at the end no more than the last is missing.
SamplesGiven == SamplesInOrder /\ EndsLate

\* At the end of a complete file every sample was given: no sample is found
\* only for an index beyond the last one (SrsMp4SampleManager::at). The code
\* breaks it: at takes the last sample for the end.
GivesEverySample == (dec = "eof" /\ Complete) => Len(Media) = Len(written)

\* A caller that reads on gets an error or the end, unless less than the
\* header of a box is left, which initialize asks for over and over.
Spinning == box = NoBox /\ Len(stream) \in 1..(Header - 1)
EveryReadEnds == (dec = "loading") ~> (dec \in {"refused", "eof"} \/ Spinning)
=============================================================================
