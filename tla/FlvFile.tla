------------------------------- MODULE FlvFile -------------------------------
(* An FLV file from SrsFlvTransmuxer to SrsFlvDecoder, behind srs_flv_*.      *)
(* The file is a sequence of units: a field of a tag's header, a part of its  *)
(* data, or a half of a previous tag size. The recorder may die and the copy  *)
(* may be cut at any unit.                                                    *)
EXTENDS Integers, Sequences, SequencesExt, FiniteSetsExt

CONSTANTS
    TagKinds,    \* what a tag may be: [type, size], the size in units
    Starts,      \* the time of the first tag
    TagSteps,    \* by how much a tag may be later than the one before
    MaxTags,     \* bound: tags of a recording
    AnyType,     \* what an uninitialized type may read as
    AnySize,     \* what an uninitialized size may read as
    AnyTime,     \* what an uninitialized time may read as
    TimeMod      \* the time of a tag is an unsigned integer below it

\* Sizes and times are integers. The times of a recording do not run backwards,
\* and TimeMod \div 2 stands for the top bit.
ASSUME FileAssumption ==
    /\ TimeMod \in Nat \ {0} /\ TimeMod % 2 = 0
    /\ \A kind \in TagKinds : kind.size \in Nat
    /\ Starts \subseteq Nat /\ TagSteps \subseteq Nat
    /\ AnySize \subseteq Int /\ AnyTime \subseteq Nat

VARIABLES recorder, flv, recorded
fileVars == <<recorder, flv, recorded>>

IsAv(type) == type \in {"audio", "video"}
Fields == <<"type", "size", "time", "stream">>
PtsUnits == 2
SignatureUnits == 2

Signature == [i \in 1..SignatureUnits |-> [part |-> "signature"]]
PreviousTagSize == [i \in 1..PtsUnits |-> [part |-> "pts"]]
DataUnits(k, size) == [i \in 1..size |-> [tag |-> k, part |-> i]]
HeaderUnits(tag) == [i \in DOMAIN Fields |-> [field |-> Fields[i], value |-> tag[Fields[i]]]]

\* write_metadata_to_cache has no time to write, the others keep 31 bits.
TagHeader(tag) ==
    [tag EXCEPT !.time = IF IsAv(tag.type) THEN @ % (TimeMod \div 2) ELSE 0]
WriteTagUnits(k, tag) == HeaderUnits(TagHeader(tag)) \o DataUnits(k, tag.size) \o PreviousTagSize

-----------------------------------------------------------------------------
(* srs_flv_open_write, srs_flv_write_header and srs_flv_write_tag *)

FileInit == recorder = "recording" /\ flv = Signature \o PreviousTagSize /\ recorded = <<>>

LastTime == IF recorded = <<>> THEN 0 ELSE Last(recorded).time
WriteTag(kind, step) ==
    /\ recorder = "recording" /\ Len(recorded) < MaxTags
    /\ recorded' = Append(recorded, [type |-> kind.type, size |-> kind.size, time |-> LastTime + step, stream |-> 0])
    /\ flv' = flv \o WriteTagUnits(Len(recorded'), Last(recorded'))
    /\ UNCHANGED recorder

\* The writes of the file come one by one (9 bytes, 4 bytes, then three for
\* each tag), and nothing is done about one that fails: what is left is a
\* part of the file from its begin.
RecordingEnds ==
    /\ recorder = "recording"
    /\ recorder' = "done"
    /\ \E cut \in 0..Len(flv) : flv' = SubSeq(flv, 1, cut)
    /\ UNCHANGED recorded

Record ==
    \/ \E kind \in TagKinds, step \in IF recorded = <<>> THEN Starts ELSE TagSteps : WriteTag(kind, step)
    \/ RecordingEnds

-----------------------------------------------------------------------------
(* SrsFileReader and SrsFlvDecoder *)

\* SrsFileReader::read is content with less than it was asked for, and only
\* nothing at all is the end of the file, also when nothing was asked for.
FileRead(pos, n) == SubSeq(flv, pos + 1, Min({pos + n, Len(flv)}))
AtEof(units) == units = <<>>

\* read_tag_header reads into a buffer on the stack: what a short read leaves
\* out of it is whatever was there.
TagHeaders(units) ==
    LET Read(i, any) == IF i \in DOMAIN units THEN {units[i].value} ELSE any
    IN [type : Read(1, AnyType), size : Read(2, AnySize), time : Read(3, AnyTime)]

\* What srs_flv_read_header and srs_flv_read_tag_data return for the units they
\* get: the previous tag size behind them is read and not looked at.
ReadsHeader(pos) == LET head == FileRead(pos, SignatureUnits) IN
    IF AtEof(head) \/ AtEof(FileRead(pos + Len(head), PtsUnits)) THEN "eof" ELSE "ok"
\* Mutant: a tag is taken without the previous tag size behind it.
ReadsAlone(pos, size) == IF AtEof(FileRead(pos, size)) THEN "eof" ELSE "ok"
ReadsData(pos, size) == LET data == FileRead(pos, size) IN
    IF AtEof(data) \/ AtEof(FileRead(pos + Len(data), PtsUnits)) THEN "eof" ELSE "ok"
BehindHeader(pos) == LET head == FileRead(pos, SignatureUnits) IN
    pos + Len(head) + Len(FileRead(pos + Len(head), PtsUnits))
BehindData(pos, size) == LET data == FileRead(pos, size) IN
    pos + Len(data) + Len(FileRead(pos + Len(data), PtsUnits))
=============================================================================
