------------------------------- MODULE RawFrames -------------------------------
(* The raw writers of the C API: a caller gives H.264 NALUs behind start codes *)
(* or audio frames behind ADTS headers; the Context of the connection finds    *)
(* out what they are and makes FLV tags of them, with sequence headers.        *)
EXTENDS Integers, Sequences, SequencesExt, FiniteSetsExt

CONSTANTS
    RawBuffers,  \* what a caller may write: [media, pieces, rate]
    MaxWrites    \* bound: how often it writes

(* A NALU is [nut, id, size]: its type, which of its type, and its size. A     *)
(* piece without a start code is "bare", an empty one is "none". An audio      *)
(* frame is [sound, object, index, channels, length]: "adts" with the fields   *)
(* of its header, its frame_length against what there is; or the bytes of      *)
(* another codec, or bytes that begin with no ADTS header.                     *)
Nalus == [nut : {"none", "bare", "aud", "sps", "pps", "sei", "idr", "nonidr"}, id : Nat, size : Nat]
Sounds == [sound : {"adts", "other", "bare"}, object : {"main", "lc", "ssr", "reserved"},
           index : Nat, channels : Nat, length : {"exact", "beyond", "below"}]

ASSUME RawAssumption ==
    \A b \in RawBuffers :
        /\ b.rate \in Nat /\ b.pieces # <<>>
        /\ \/ b.media = "video" /\ b.pieces \in Seq(Nalus)
           \/ b.media = "audio" /\ b.pieces \in Seq(Sounds)

VARIABLES
    writer,      \* "idle", "video", "audio", or how it ended: "stopped", "aborted"
    raw_stream,  \* what is left of the buffer
    h264_sps, h264_pps, h264_sps_changed, h264_pps_changed, h264_sps_pps_sent,
    aac_specific_config,
    fed,         \* history: the pieces that were looked at
    made         \* history: the tags that were made for them, written or not
avcVars == <<h264_sps, h264_pps, h264_sps_changed, h264_pps_changed, h264_sps_pps_sent>>
rawVars == <<writer, raw_stream, avcVars, aac_specific_config, fed, made>>

\* What the strings of the Context hold before anything is kept in them.
EmptySet == [nut |-> "none", id |-> 0, size |-> 0]
\* The configuration that is told by a header: the empty one is no object.
EmptyConfig == [object |-> "none", index |-> 0, channels |-> 0]

RawInit ==
    /\ writer = "idle" /\ raw_stream = <<>>
    /\ h264_sps = EmptySet /\ h264_pps = EmptySet
    /\ h264_sps_changed = FALSE /\ h264_pps_changed = FALSE /\ h264_sps_pps_sent = FALSE
    /\ aac_specific_config = EmptyConfig
    /\ fed = <<>> /\ made = <<>>

\* What is looked at next, and the rate that its buffer came with.
Piece == Head(raw_stream).piece
Rate == Head(raw_stream).rate
Written == Len(SelectSeq(fed, LAMBDA p : p.first))
\* srs_h264_write_raw_frames and srs_audio_write_raw_frame
WriteRaw(b) ==
    /\ writer = "idle" /\ Written < MaxWrites
    /\ writer' = b.media
    /\ raw_stream' = [i \in DOMAIN b.pieces |-> [first |-> i = 1, rate |-> b.rate, piece |-> b.pieces[i]]]
    /\ UNCHANGED <<avcVars, aac_specific_config, fed, made>>

\* The piece is done with, and the loop goes on or ends with the buffer.
Done ==
    /\ raw_stream' = Tail(raw_stream)
    /\ fed' = Append(fed, Head(raw_stream))
    /\ writer' = IF Tail(raw_stream) = <<>> THEN "idle" ELSE writer
\* An error leaves the rest of the buffer. A caller stops then, or goes on with
\* its next buffer.
Leaves(ends) == raw_stream' = <<>> /\ fed' = Append(fed, Head(raw_stream)) /\ writer' \in ends

\* srs_rtmp_write_packet of a tag, and what follows it: the connection takes it
\* or not.
Make(tag, Follows) ==
    \E ok \in BOOLEAN :
        /\ made' = Append(made, [tag |-> tag, at |-> Len(fed) + 1, ok |-> ok])
        /\ IF ok THEN Follows ELSE Leaves({"stopped", "idle"})

-----------------------------------------------------------------------------
(* H.264 *)

Shown == {"idr", "nonidr"}

\* annexb_demux: the buffer does not begin with a start code.
NotPrefixed ==
    /\ writer = "video" /\ Piece.nut = "bare"
    /\ Leaves({"stopped", "idle"})
    /\ UNCHANGED <<avcVars, aac_specific_config, made>>

\* sps_demux leaves an SPS below four bytes out and returns success. One that
\* is the same as before is a known error: the next piece is processed.
SpsDemux(f) == IF f.size < 4 THEN EmptySet ELSE [nut |-> f.nut, id |-> f.id, size |-> f.size]
PpsDemux(f) == [nut |-> f.nut, id |-> f.id, size |-> f.size]
TakeSps ==
    /\ writer = "video" /\ Piece.nut = "sps"
    /\ LET sps == SpsDemux(Piece) IN
       /\ h264_sps' = sps
       /\ h264_sps_changed' = (h264_sps_changed \/ sps # h264_sps)
    /\ Done
    /\ UNCHANGED <<h264_pps, h264_pps_changed, h264_sps_pps_sent, aac_specific_config, made>>
TakePps ==
    /\ writer = "video" /\ Piece.nut = "pps"
    /\ LET pps == PpsDemux(Piece) IN
       /\ h264_pps' = pps
       /\ h264_pps_changed' = (h264_pps_changed \/ pps # h264_pps)
    /\ Done
    /\ UNCHANGED <<h264_sps, h264_sps_changed, h264_sps_pps_sent, aac_specific_config, made>>
\* An empty piece, and a NALU of another type
Ignore ==
    /\ writer = "video" /\ Piece.nut \in {"none", "sei"}
    /\ Done
    /\ UNCHANGED <<avcVars, aac_specific_config, made>>

\* Mutant: as the comment of the members says it.
BothChanged == h264_sps_changed /\ h264_pps_changed
Changed == h264_sps_changed \/ h264_pps_changed
\* srs_write_h264_sps_pps: a delimiter asks for it as a frame does. It is sent
\* before it is written; mux_sequence_header asserts that there is an SPS.
AsksForHeader == writer = "video" /\ Piece.nut \in Shown \cup {"aud"} /\ Changed
AvcHeader == [kind |-> "avc_header", sps |-> h264_sps, pps |-> h264_pps]
WriteSpsPps ==
    /\ AsksForHeader /\ h264_sps # EmptySet
    /\ h264_sps_changed' = FALSE /\ h264_pps_changed' = FALSE /\ h264_sps_pps_sent' = TRUE
    /\ Make(AvcHeader, UNCHANGED <<writer, raw_stream, fed>>)
    /\ UNCHANGED <<h264_sps, h264_pps, aac_specific_config>>
MuxWithoutSps ==
    /\ AsksForHeader /\ h264_sps = EmptySet
    /\ writer' = "aborted"
    /\ UNCHANGED <<raw_stream, avcVars, aac_specific_config, fed, made>>

\* srs_write_h264_ipb_frame: dropping before the header is a known error.
DropFrame ==
    /\ writer = "video" /\ Piece.nut \in Shown \cup {"aud"} /\ ~Changed
    /\ ~h264_sps_pps_sent \/ Piece.nut = "aud"
    /\ Done
    /\ UNCHANGED <<avcVars, aac_specific_config, made>>
AvcFrame(f) == [kind |-> "avc", key |-> f.nut = "idr"]
WriteIpbFrame ==
    /\ writer = "video" /\ Piece.nut \in Shown /\ ~Changed /\ h264_sps_pps_sent
    /\ Make(AvcFrame(Piece), Done)
    /\ UNCHANGED <<avcVars, aac_specific_config>>

-----------------------------------------------------------------------------
(* Audio *)

\* The rate that the caller says takes the place of the header's.
Index(index, rate) == CASE rate = 1 -> 10 [] rate = 2 -> 7 [] rate = 3 -> 4 [] OTHER -> index
Config(f, rate) == [object |-> f.object, index |-> Index(f.index, rate), channels |-> f.channels]
Muxable(config) == config.object # "reserved" /\ config.index # 15

\* require() asserts that it is not asked for less than nothing: a frame_length
\* below the size of the header.
AdtsAsserts ==
    /\ writer = "audio" /\ Piece.sound = "adts" /\ Piece.length = "below"
    /\ writer' = "aborted"
    /\ UNCHANGED <<raw_stream, avcVars, aac_specific_config, fed, made>>
IsFrame == Piece.sound = "adts" /\ Piece.length = "exact"
AdtsRefuses ==
    /\ writer = "audio"
    /\ \/ Piece.sound = "bare"
       \/ Piece.sound = "adts" /\ Piece.length = "beyond"
       \/ IsFrame /\ aac_specific_config = EmptyConfig /\ ~Muxable(Config(Piece, Rate))
    /\ Leaves({"stopped", "idle"})
    /\ UNCHANGED <<avcVars, aac_specific_config, made>>

NeedsHeader == aac_specific_config = EmptyConfig
\* srs_write_aac_adts_frame: the first configuration is kept, before it is
\* written, and none is looked at again.
AacHeader(f, rate) == [kind |-> "aac_header", config |-> Config(f, rate)]
AudioFrame(f, rate) == [kind |-> f.sound, config |-> IF f.sound = "adts" THEN Config(f, rate) ELSE EmptyConfig]
WriteAacHeader ==
    /\ writer = "audio" /\ IsFrame /\ NeedsHeader /\ Muxable(Config(Piece, Rate))
    /\ aac_specific_config' = Config(Piece, Rate)
    /\ Make(AacHeader(Piece, Rate), UNCHANGED <<writer, raw_stream, fed>>)
    /\ UNCHANGED avcVars
WriteAudioFrame ==
    /\ writer = "audio" /\ \/ IsFrame /\ ~NeedsHeader
                           \/ Piece.sound = "other"
    /\ Make(AudioFrame(Piece, Rate), Done)
    /\ UNCHANGED <<avcVars, aac_specific_config>>

RawNext ==
    \/ \E b \in RawBuffers : WriteRaw(b)
    \/ NotPrefixed \/ TakeSps \/ TakePps \/ Ignore
    \/ WriteSpsPps \/ MuxWithoutSps \/ DropFrame \/ WriteIpbFrame
    \/ AdtsAsserts \/ AdtsRefuses \/ WriteAacHeader \/ WriteAudioFrame
RawSpec == RawInit /\ [][RawNext]_rawVars

-----------------------------------------------------------------------------
(* Properties *)

Of(kind) == {i \in DOMAIN made : made[i].tag.kind = kind}
HeaderOf(kind, i) == Max({0} \cup {j \in Of(kind) : j < i})
Fed(nut) == {k \in DOMAIN fed : "nut" \in DOMAIN fed[k].piece /\ fed[k].piece.nut \in nut}
\* The parameter set of a type that was given last before the k-th piece
LastGiven(nut, k) ==
    LET before == {j \in Fed({nut}) : j < k} IN IF before = {} THEN EmptySet ELSE PpsDemux(fed[Max(before)].piece)
HasSps(k) == LastGiven("sps", k).size >= 4

\* However parameter sets come, together or one by one, again or changed, in
\* one buffer or in many, the header made last before a frame has those that
\* were given last before the frame.
FramesFollowTheirSets ==
    \A i \in Of("avc") : LET h == HeaderOf("avc_header", i) IN
        /\ h > 0
        /\ made[h].tag.sps = LastGiven("sps", made[i].at)
        /\ made[h].tag.pps = LastGiven("pps", made[i].at)

\* Frames are made once each and in order, and one is left out only if there
\* is no SPS for it or if the header before it could not be written.
Failed(k) == \E i \in DOMAIN made : made[i].at = k /\ ~made[i].ok
EachFrameOnce ==
    /\ \A i, j \in Of("avc") : i < j => made[i].at < made[j].at
    /\ \A k \in Fed(Shown) : HasSps(k) => Failed(k) \/ \E i \in Of("avc") : made[i].at = k

IsAdts(k) == "sound" \in DOMAIN fed[k].piece /\ fed[k].piece.sound = "adts"
ConfigOf(k) == Config(fed[k].piece, fed[k].rate)
NewFormat(k) ==
    /\ IsAdts(k)
    /\ \E j \in 1..(k - 1) : IsAdts(j) /\ ConfigOf(j) # ConfigOf(k)
\* AAC frames have one header, and it is theirs until their format changes: a
\* change is told to nobody.
AacFollowsItsConfig ==
    /\ Cardinality(Of("aac_header")) <= 1
    /\ \A i \in Of("adts") : LET h == HeaderOf("aac_header", i) IN
        /\ h > 0
        /\ made[h].tag.config = made[i].tag.config \/ \E k \in 1..made[i].at : NewFormat(k)

\* The process ends at an assertion for two reasons: a frame or a delimiter
\* behind a PPS or a short SPS and without an SPS, or a frame_length that
\* does not cover its own header.
AbortsForBadInput ==
    writer = "aborted" =>
        IF "nut" \in DOMAIN Piece THEN ~HasSps(Len(fed) + 1) /\ Fed({"sps", "pps"}) # {} ELSE Piece.length = "below"

\* What a raw writer makes can be decoded by who reads it in order.
RawFramesDecodable == FramesFollowTheirSets /\ EachFrameOnce /\ AacFollowsItsConfig /\ AbortsForBadInput
=============================================================================
