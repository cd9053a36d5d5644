-------------------------- MODULE MediaFiles_proofs --------------------------
(***************************************************************************)
(* Proofs about MP4 files, about the raw writers of the C API and about    *)
(* the tools that play or publish an FLV file: a file opens when it is     *)
(* complete and gives its samples at their times, what a raw writer makes  *)
(* can be decoded by who reads it in order, and a tool frees its packet    *)
(* once, sends the whole tags of its file and nothing else, and sleeps no  *)
(* longer than that file.                                                  *)
(***************************************************************************)
EXTENDS Mp4File, PublishTool, RawFrames, Selection_proofs, FiniteSetTheorems

-----------------------------------------------------------------------------
(* A set of naturals that is not empty and has a bound has a maximum.      *)
LEMMA MaxOfBounded ==
  ASSUME NEW S \in SUBSET Nat, S # {}, NEW n \in Nat, \A x \in S : x <= n
  PROVE  Max(S) \in S /\ \A y \in S : y <= Max(S)
<1> DEFINE U == {u \in Nat : \A x \in S : x <= u}
<1>1. n \in U  OBVIOUS
<1>2. PICK u \in U : \A v \in U : u <= v
  BY <1>1, LeastNat
<1>3. u \in S
  <2>1. SUFFICES ASSUME u \notin S PROVE FALSE
    OBVIOUS
  <2>2. PICK x \in S : TRUE
    OBVIOUS
  <2>3. u - 1 \in U
    BY <2>1, <2>2
  <2> QED BY <1>2, <2>3
<1> QED BY <1>3 DEF Max

-----------------------------------------------------------------------------
(* The raw writers: what their variables hold.                             *)
Looked == [first : BOOLEAN, rate : Nat, piece : Nalus \cup Sounds]
Configs == [object : {"none", "main", "lc", "ssr", "reserved"}, index : Nat, channels : Nat]
Tags ==
    [kind : {"avc_header"}, sps : Nalus, pps : Nalus] \cup [kind : {"avc"}, key : BOOLEAN]
        \cup [kind : {"aac_header", "adts", "other"}, config : Configs]
Made == [tag : Tags, at : Nat, ok : BOOLEAN]

StreamType ==
    /\ writer \in {"idle", "video", "audio", "stopped", "aborted"}
    /\ raw_stream \in Seq(Looked) /\ fed \in Seq(Looked)
    /\ writer \in {"video", "audio"} => raw_stream # <<>>
    /\ writer = "video" => \A i \in DOMAIN raw_stream : raw_stream[i].piece \in Nalus
    /\ writer = "audio" => \A i \in DOMAIN raw_stream : raw_stream[i].piece \in Sounds

ContextType ==
    /\ h264_sps \in Nalus /\ h264_pps \in Nalus
    /\ h264_sps_changed \in BOOLEAN /\ h264_pps_changed \in BOOLEAN
    /\ h264_sps_pps_sent \in BOOLEAN /\ aac_specific_config \in Configs

RawTypes == StreamType /\ ContextType /\ made \in Seq(Made)

(* What is made comes from what was looked at, in that order.              *)
Frame == {"avc", "adts", "other"}
InOrder ==
    /\ \A i \in DOMAIN made : 1 <= made[i].at /\ made[i].at <= Len(fed) + 1
    /\ \A i \in DOMAIN made : made[i].tag.kind \in Frame => made[i].at <= Len(fed)
    /\ \A i, j \in DOMAIN made : i < j => made[i].at <= made[j].at

(* The pieces of a type in a sequence, and the last of them before a place.*)
Typed(s, nut) == {k \in DOMAIN s : "nut" \in DOMAIN s[k].piece /\ s[k].piece.nut = nut}
Earlier(s, nut, k) == {j \in Typed(s, nut) : j < k}
LastOf(s, nut, k) ==
    IF Earlier(s, nut, k) = {} THEN EmptySet ELSE s[Max(Earlier(s, nut, k))].piece

(* The Context keeps the sets that were given last, but for a short SPS.   *)
SpsOf(sps) == IF sps.size >= 4 THEN sps ELSE EmptySet
SetsKept ==
    /\ h264_sps = SpsOf(LastOf(fed, "sps", Len(fed) + 1))
    /\ h264_pps = LastOf(fed, "pps", Len(fed) + 1)
    /\ h264_sps_changed \/ h264_pps_changed => Fed({"sps", "pps"}) # {}

(* The last header has the sets of the Context, but for those that changed *)
(* since; without one nothing is kept that did not change.                 *)
HeaderKnown ==
    /\ ~h264_sps_pps_sent /\ ~h264_sps_changed => h264_sps = EmptySet
    /\ h264_sps_pps_sent => \E h \in Of("avc_header") :
          /\ \A j \in Of("avc_header") : j <= h
          /\ ~h264_sps_changed => h264_sps # EmptySet /\ made[h].tag.sps = h264_sps
          /\ ~h264_pps_changed => made[h].tag.pps = h264_pps

(* There is one AAC header, of the configuration that the Context keeps:   *)
(* that of the ADTS frame it was made for, which may be still looked at.   *)
ConfigKept ==
    /\ \A i \in Of("adts") :
          /\ IsAdts(made[i].at) /\ made[i].tag.config = ConfigOf(made[i].at)
          /\ \E h \in Of("aac_header") : h < i
    /\ aac_specific_config = EmptyConfig => Of("aac_header") = {}
    /\ aac_specific_config # EmptyConfig => \E h \in Of("aac_header") :
          /\ Of("aac_header") = {h}
          /\ made[h].tag.config = aac_specific_config
          /\ IF made[h].at <= Len(fed)
             THEN IsAdts(made[h].at) /\ ConfigOf(made[h].at) = aac_specific_config
             ELSE writer = "audio" /\ IsFrame /\ Config(Piece, Rate) = aac_specific_config

RawParts ==
    /\ InOrder /\ SetsKept /\ HeaderKnown /\ ConfigKept
    /\ FramesFollowTheirSets /\ EachFrameOnce
RawInv == RawTypes /\ RawParts /\ AbortsForBadInput

-----------------------------------------------------------------------------
(* What was looked at and what was made only grow.                         *)
Grows ==
    /\ fed' = fed \/ \E x \in Looked : fed' = Append(fed, x)
    /\ made' = made \/ \E y \in Made : made' = Append(made, y)

MakesNo(kind) == \A y \in Made : made' = Append(made, y) => y.tag.kind # kind

(* A sequence that is the same or has one more element.                    *)
LEMMA GrowsOne ==
  ASSUME NEW S, NEW s \in Seq(S), NEW t, t = s \/ \E x \in S : t = Append(s, x)
  PROVE  /\ t \in Seq(S) /\ Len(s) <= Len(t) /\ Len(t) <= Len(s) + 1
         /\ \A k \in 1..Len(s) : t[k] = s[k]
OBVIOUS

(* Both histories grow by one at most.                                     *)
LEMMA GrowsOn ==
  ASSUME RawTypes, Grows
  PROVE  /\ fed' \in Seq(Looked) /\ made' \in Seq(Made)
         /\ Len(fed) <= Len(fed') /\ \A k \in 1..Len(fed) : fed'[k] = fed[k]
         /\ Len(made) <= Len(made') /\ \A i \in 1..Len(made) : made'[i] = made[i]
<1>1. fed \in Seq(Looked) /\ made \in Seq(Made)  BY DEF RawTypes, StreamType
<1>2. fed' = fed \/ \E x \in Looked : fed' = Append(fed, x)  BY DEF Grows
<1>3. made' = made \/ \E y \in Made : made' = Append(made, y)  BY DEF Grows
<1>4. /\ fed' \in Seq(Looked) /\ Len(fed) <= Len(fed')
      /\ \A k \in 1..Len(fed) : fed'[k] = fed[k]
  BY <1>1, <1>2, GrowsOne
<1>5. /\ made' \in Seq(Made) /\ Len(made) <= Len(made')
      /\ \A i \in 1..Len(made) : made'[i] = made[i]
  BY <1>1, <1>3, GrowsOne
<1> QED BY <1>4, <1>5

(* A piece is a NALU or audio, and its fields tell which.                  *)
LEMMA PieceKinds ==
  /\ \A p \in Nalus : "nut" \in DOMAIN p /\ "sound" \notin DOMAIN p
  /\ \A p \in Sounds : "sound" \in DOMAIN p /\ "nut" \notin DOMAIN p
BY DEF Nalus, Sounds

(* The last piece of a type is a NALU, and none of the type is behind it.  *)
LEMMA LastOfOne ==
  ASSUME NEW s \in Seq(Looked), NEW nut, NEW k \in Nat
  PROVE  /\ Earlier(s, nut, k) \in SUBSET (1..Len(s))
         /\ Earlier(s, nut, k) # {} =>
               /\ Max(Earlier(s, nut, k)) \in Earlier(s, nut, k)
               /\ \A j \in Earlier(s, nut, k) : j <= Max(Earlier(s, nut, k))
               /\ s[Max(Earlier(s, nut, k))].piece \in Nalus
         /\ LastOf(s, nut, k) \in Nalus
<1> DEFINE B == Earlier(s, nut, k)
<1>1. B \in SUBSET (1..Len(s)) /\ B \in SUBSET Nat /\ \A j \in B : j <= Len(s)
  BY DEF Earlier, Typed
<1>2. ASSUME NEW j \in B PROVE s[j].piece \in Nalus
  <2>1. j \in DOMAIN s /\ "nut" \in DOMAIN s[j].piece
    BY <1>2 DEF Earlier, Typed
  <2>2. s[j] \in Looked
    BY <2>1
  <2>3. s[j].piece \in Nalus \cup Sounds
    BY <2>2 DEF Looked
  <2> QED BY <2>1, <2>3, PieceKinds
<1>3. CASE B = {}
  BY <1>1, <1>3 DEF LastOf, EmptySet, Nalus
<1>4. CASE B # {}
  <2>1. Len(s) \in Nat
    OBVIOUS
  <2>2. Max(B) \in B /\ \A j \in B : j <= Max(B)
    BY <1>1, <1>4, <2>1, MaxOfBounded
  <2> QED BY <1>1, <1>2, <1>4, <2>2 DEF LastOf
<1> QED BY <1>3, <1>4

(* What follows changes nothing of what was given before.                  *)
LEMMA LastOfKept ==
  ASSUME NEW s \in Seq(Looked), NEW t \in Seq(Looked), Len(s) <= Len(t),
         \A j \in 1..Len(s) : t[j] = s[j],
         NEW nut, NEW k \in Nat, k <= Len(s) + 1
  PROVE  LastOf(t, nut, k) = LastOf(s, nut, k)
<1>1. \A j \in 1..Len(s) : j \in Typed(s, nut) <=> j \in Typed(t, nut)
  BY DEF Typed
<1>2. Typed(s, nut) \subseteq 1..Len(s) /\ Typed(t, nut) \subseteq 1..Len(t)
  BY DEF Typed
<1>3. Earlier(t, nut, k) = Earlier(s, nut, k)
  <2>1. \A j \in 1..Len(t) : j < k => j \in 1..Len(s)
    OBVIOUS
  <2> QED BY <1>1, <1>2, <2>1 DEF Earlier
<1>4. Earlier(s, nut, k) # {} => Max(Earlier(s, nut, k)) \in 1..Len(s)
  BY LastOfOne
<1> QED BY <1>3, <1>4 DEF LastOf

(* A piece of the type is the last one; another leaves the one before it.  *)
LEMMA LastOfNext ==
  ASSUME NEW s \in Seq(Looked), NEW x \in Looked, NEW nut
  PROVE  LastOf(Append(s, x), nut, Len(s) + 2) =
            IF "nut" \in DOMAIN x.piece /\ x.piece.nut = nut THEN x.piece
            ELSE LastOf(s, nut, Len(s) + 1)
<1> DEFINE n == Len(s) + 1
           t == Append(s, x)
           new == "nut" \in DOMAIN x.piece /\ x.piece.nut = nut
<1>1. /\ n \in Nat /\ t \in Seq(Looked) /\ Len(t) = n /\ Len(s) = n - 1
      /\ t[n] = x /\ \A j \in 1..Len(s) : t[j] = s[j]
  OBVIOUS
<1> HIDE DEF t
<1>2. Typed(s, nut) \subseteq 1..Len(s) /\ Typed(t, nut) \subseteq 1..n
  BY <1>1 DEF Typed
<1>3. \A j \in 1..Len(s) : j \in Typed(s, nut) <=> j \in Typed(t, nut)
  BY <1>1 DEF Typed
<1>4. n \in Typed(t, nut) <=> new
  BY <1>1 DEF Typed
<1>5. \A j \in 1..n : j < n + 1 /\ (j < n <=> j # n) /\ (j # n => j \in 1..Len(s))
  BY <1>1
<1>6. \A j \in 1..Len(s) : j \in 1..n /\ j < n
  BY <1>1
<1>7. Earlier(s, nut, n) = Typed(s, nut) /\ Earlier(t, nut, n + 1) = Typed(t, nut)
  BY <1>2, <1>5, <1>6 DEF Earlier
<1>8. n + 1 = Len(s) + 2  OBVIOUS
<1> HIDE DEF new, n
<1>9. CASE new
  <2>1. n \in Earlier(t, nut, n + 1) /\ \A j \in Earlier(t, nut, n + 1) : j \in Nat /\ j <= n
    BY <1>1, <1>2, <1>4, <1>7, <1>9
  <2>2. Max(Earlier(t, nut, n + 1)) = n
    BY <1>1, <2>1, LastOfOne
  <2>3. LastOf(t, nut, n + 1) = x.piece
    BY <1>1, <2>1, <2>2 DEF LastOf
  <2> QED BY <1>8, <1>9, <2>3 DEF new, t
<1>10. CASE ~new
  <2>1. Earlier(t, nut, n + 1) = Earlier(s, nut, n)
    BY <1>2, <1>3, <1>4, <1>5, <1>6, <1>7, <1>10
  <2>2. Earlier(s, nut, n) # {} => Max(Earlier(s, nut, n)) \in 1..Len(s)
    BY <1>1, LastOfOne
  <2>3. LastOf(t, nut, n + 1) = LastOf(s, nut, n)
    BY <1>1, <2>1, <2>2 DEF LastOf
  <2> QED BY <1>8, <1>10, <2>3 DEF new, n, t
<1> QED BY <1>9, <1>10

(* The set that was given last, in these terms.                            *)
LEMMA LastGivenIs ==
  ASSUME fed \in Seq(Looked), fed' \in Seq(Looked), NEW nut, NEW k \in Nat
  PROVE  /\ LastGiven(nut, k) = LastOf(fed, nut, k)
         /\ LastGiven(nut, k)' = LastOf(fed', nut, k)
<1>1. \A p \in Nalus : PpsDemux(p) = p
  BY DEF PpsDemux, Nalus
<1>2. Fed({nut}) = Typed(fed, nut) /\ Fed({nut})' = Typed(fed', nut)
  BY DEF Fed, Typed
<1>3. LastGiven(nut, k) = IF Earlier(fed, nut, k) = {} THEN EmptySet
                          ELSE PpsDemux(fed[Max(Earlier(fed, nut, k))].piece)
  BY <1>2 DEF LastGiven, Earlier
<1>4. LastGiven(nut, k)' = IF Earlier(fed', nut, k) = {} THEN EmptySet
                           ELSE PpsDemux(fed'[Max(Earlier(fed', nut, k))].piece)
  BY <1>2 DEF LastGiven, Earlier, PpsDemux
<1> QED BY <1>1, <1>3, <1>4, LastOfOne DEF LastOf

(* What is looked at later changes nothing of what was given before.       *)
LEMMA GivenKept ==
  ASSUME RawTypes, Grows, NEW k \in Nat, k <= Len(fed) + 1
  PROVE  /\ \A nut : LastGiven(nut, k)' = LastGiven(nut, k)
         /\ HasSps(k)' <=> HasSps(k)
<1>1. /\ fed \in Seq(Looked) /\ fed' \in Seq(Looked) /\ Len(fed) <= Len(fed')
      /\ \A j \in 1..Len(fed) : fed'[j] = fed[j]
  BY GrowsOn DEF RawTypes, StreamType
<1>2. ASSUME NEW nut PROVE LastGiven(nut, k)' = LastGiven(nut, k)
  BY <1>1, LastOfKept, LastGivenIs
<1> QED BY <1>2 DEF HasSps

(* A piece that is looked at is the one of its type that was given last.   *)
LEMMA GivenNext ==
  ASSUME RawTypes, NEW x \in Looked, fed' = Append(fed, x), NEW nut,
         NEW n \in Nat, n = Len(fed) + 1
  PROVE  LastGiven(nut, n + 1)' =
            IF "nut" \in DOMAIN x.piece /\ x.piece.nut = nut THEN x.piece
            ELSE LastGiven(nut, n)
<1>1. fed \in Seq(Looked) /\ fed' \in Seq(Looked) /\ n + 1 \in Nat /\ n + 1 = Len(fed) + 2
  BY DEF RawTypes, StreamType
<1>2. LastGiven(nut, n + 1)' = LastOf(fed', nut, n + 1)
  BY <1>1, LastGivenIs
<1>3. LastGiven(nut, n) = LastOf(fed, nut, n)
  BY <1>1, LastGivenIs
<1> QED BY <1>1, <1>2, <1>3, LastOfNext

(* What was looked at and what was made stays so.                          *)
LEMMA FedKept ==
  ASSUME RawTypes, Grows, NEW nuts
  PROVE  /\ \A j \in 1..Len(fed) : j \in Fed(nuts)' <=> j \in Fed(nuts)
         /\ Fed(nuts) \subseteq 1..Len(fed) /\ Fed(nuts)' \subseteq 1..Len(fed')
<1>1. /\ fed \in Seq(Looked) /\ fed' \in Seq(Looked) /\ Len(fed) <= Len(fed')
      /\ \A j \in 1..Len(fed) : fed'[j] = fed[j]
  BY GrowsOn DEF RawTypes, StreamType
<1> QED BY <1>1 DEF Fed

(* A tag that was made keeps its kind.                                     *)
LEMMA OfKept ==
  ASSUME RawTypes, Grows, NEW kind
  PROVE  /\ \A i \in 1..Len(made) : i \in Of(kind)' <=> i \in Of(kind)
         /\ Of(kind) \subseteq 1..Len(made) /\ Of(kind)' \subseteq 1..Len(made')
<1>1. /\ made \in Seq(Made) /\ made' \in Seq(Made) /\ Len(made) <= Len(made')
      /\ \A i \in 1..Len(made) : made'[i] = made[i]
  BY GrowsOn DEF RawTypes, StreamType
<1> QED BY <1>1 DEF Of

(* The tags of a kind in a sequence, and the last of them before a place.  *)
KindOf(m, kind) == {i \in DOMAIN m : m[i].tag.kind = kind}
LastBefore(m, kind, i) == Max({0} \cup {j \in KindOf(m, kind) : j < i})

(* A place of a tag is one of the sequence.                                *)
LEMMA KindOfIn ==
  ASSUME NEW m \in Seq(Made), NEW kind
  PROVE  KindOf(m, kind) \subseteq 1..Len(m)
BY DEF KindOf

(* The last tag of a kind before a place, or 0 if there is none.           *)
LEMMA BeforeIs ==
  ASSUME NEW m \in Seq(Made), NEW kind, NEW i \in Nat
  PROVE  /\ LastBefore(m, kind, i) \in {0} \cup {j \in KindOf(m, kind) : j < i}
         /\ \A j \in KindOf(m, kind) : j < i => j <= LastBefore(m, kind, i)
<1> DEFINE S == {0} \cup {j \in KindOf(m, kind) : j < i}
<1>1. S \in SUBSET Nat /\ S # {} /\ \A j \in S : j <= i
  BY DEF KindOf
<1> HIDE DEF S
<1>2. Max(S) \in S /\ \A j \in S : j <= Max(S)
  BY <1>1, MaxOfBounded
<1> QED BY <1>2 DEF LastBefore, S

(* The last tag of a kind, when it is known.                               *)
LEMMA BeforeLast ==
  ASSUME NEW m \in Seq(Made), NEW kind, NEW i \in Nat,
         NEW h \in KindOf(m, kind), h < i, \A j \in KindOf(m, kind) : j < i => j <= h
  PROVE  LastBefore(m, kind, i) = h
<1>1. KindOf(m, kind) \subseteq Nat /\ h \in Nat /\ h > 0
  BY DEF KindOf
<1>2. LastBefore(m, kind, i) \in {0} \cup {j \in KindOf(m, kind) : j < i}
  BY BeforeIs
<1>3. h <= LastBefore(m, kind, i)
  BY BeforeIs
<1> QED BY <1>1, <1>2, <1>3

(* Tags that come behind a place do not change what is before it.          *)
LEMMA BeforeKept ==
  ASSUME NEW m \in Seq(Made), NEW n \in Seq(Made), Len(m) <= Len(n),
         \A j \in 1..Len(m) : n[j] = m[j],
         NEW kind, NEW i \in Nat, i <= Len(m) + 1
  PROVE  LastBefore(n, kind, i) = LastBefore(m, kind, i)
<1>1. \A j \in 1..Len(m) : j \in KindOf(m, kind) <=> j \in KindOf(n, kind)
  BY DEF KindOf
<1>2. KindOf(m, kind) \subseteq 1..Len(m) /\ KindOf(n, kind) \subseteq 1..Len(n)
  BY DEF KindOf
<1>3. \A j \in 1..Len(n) : j < i => j \in 1..Len(m)
  OBVIOUS
<1>4. {j \in KindOf(n, kind) : j < i} = {j \in KindOf(m, kind) : j < i}
  BY <1>1, <1>2, <1>3
<1> QED BY <1>4 DEF LastBefore

(* What FramesFollowTheirSets says, of the histories.                      *)
Follows(f, m) ==
    \A i \in KindOf(m, "avc") : LET h == LastBefore(m, "avc_header", i) IN
        /\ h > 0
        /\ m[h].tag.sps = LastOf(f, "sps", m[i].at)
        /\ m[h].tag.pps = LastOf(f, "pps", m[i].at)

(* That is what FramesFollowTheirSets says, now and behind a step.         *)
LEMMA FollowsIs ==
  ASSUME RawTypes, Grows
  PROVE  /\ FramesFollowTheirSets <=> Follows(fed, made)
         /\ FramesFollowTheirSets' <=> Follows(fed', made')
<1>1. /\ fed \in Seq(Looked) /\ made \in Seq(Made)
      /\ fed' \in Seq(Looked) /\ made' \in Seq(Made)
  BY GrowsOn DEF RawTypes, StreamType
<1>2. \A p \in Nalus : PpsDemux(p) = p
  BY DEF PpsDemux, Nalus
<1>3. \A i : /\ HeaderOf("avc_header", i) = LastBefore(made, "avc_header", i)
              /\ HeaderOf("avc_header", i)' = LastBefore(made', "avc_header", i)
  BY DEF HeaderOf, LastBefore, Of, KindOf
<1>4. ASSUME NEW nut, NEW i \in Of("avc")
      PROVE  LastGiven(nut, made[i].at) = LastOf(fed, nut, made[i].at)
  <2>1. made[i] \in Made
    BY <1>1 DEF Of
  <2> QED BY <1>1, <2>1, LastGivenIs DEF Made
<1>5. ASSUME NEW nut, NEW i \in Of("avc")'
      PROVE  LastGiven(nut, made[i].at)' = LastOf(fed', nut, made'[i].at)
  <2>1. made'[i] \in Made
    BY <1>1 DEF Of
  <2>2. PICK k \in Nat : k = made'[i].at
    BY <2>1 DEF Made
  <2>3. LastGiven(nut, k)' = LastOf(fed', nut, k)
    BY <1>1, LastGivenIs
  <2>4. LastGiven(nut, made[i].at)' = LastGiven(nut, k)'
    BY <2>2 DEF LastGiven, Fed, PpsDemux
  <2> QED BY <2>2, <2>3, <2>4
<1>6. Of("avc") = KindOf(made, "avc") /\ Of("avc")' = KindOf(made', "avc")
  BY DEF Of, KindOf
<1>7. FramesFollowTheirSets <=> Follows(fed, made)
  BY <1>3, <1>4, <1>6 DEF FramesFollowTheirSets, Follows
<1>8. FramesFollowTheirSets' <=> Follows(fed', made')
  BY <1>3, <1>5, <1>6 DEF FramesFollowTheirSets, Follows
<1> QED BY <1>7, <1>8

-----------------------------------------------------------------------------
(* What a piece and a tag are, one by one.                                 *)
LEMMA Lengths ==
  ASSUME RawTypes
  PROVE  /\ Len(fed) \in Nat /\ Len(fed) + 1 \in Nat /\ fed \in Seq(Looked)
         /\ Len(made) \in Nat /\ Len(made) + 1 \in Nat /\ made \in Seq(Made)
         /\ DOMAIN made = 1..Len(made)
<1>1. fed \in Seq(Looked) /\ made \in Seq(Made)
  BY DEF RawTypes, StreamType
<1> QED BY <1>1

(* A tag was made for a piece in hand or before it, a frame before it.     *)
LEMMA AtIn ==
  ASSUME RawTypes, InOrder, NEW i \in DOMAIN made
  PROVE  /\ made[i] \in Made /\ made[i].at \in Nat
         /\ 1 <= made[i].at /\ made[i].at <= Len(fed) + 1
         /\ made[i].tag.kind \in Frame => made[i].at \in 1..Len(fed)
<1>1. made[i] \in Made
  BY Lengths
<1>2. made[i].at \in Nat
  BY <1>1 DEF Made
<1> QED BY <1>1, <1>2, Lengths DEF InOrder

(* The piece in hand is of the medium that is written.                     *)
LEMMA InHand ==
  ASSUME StreamType, writer \in {"video", "audio"}
  PROVE  /\ Head(raw_stream) \in Looked /\ Tail(raw_stream) \in Seq(Looked)
         /\ writer = "video" => Piece \in Nalus
         /\ writer = "audio" => Piece \in Sounds
         /\ Rate \in Nat
<1>1. raw_stream \in Seq(Looked) /\ raw_stream # <<>>
  BY DEF StreamType
<1>2. Head(raw_stream) \in Looked /\ Tail(raw_stream) \in Seq(Looked) /\ 1 \in DOMAIN raw_stream
      /\ Head(raw_stream) = raw_stream[1]
  BY <1>1
<1> QED BY <1>2 DEF StreamType, Piece, Rate, Looked

(* Done and Leaves look at the piece in hand.                              *)
LEMMA DoneType ==
  ASSUME StreamType, writer \in {"video", "audio"}, Done
  PROVE  StreamType'
<1>1. Head(raw_stream) \in Looked /\ Tail(raw_stream) \in Seq(Looked)
  BY InHand
<1>2. raw_stream \in Seq(Looked) /\ raw_stream # <<>> /\ fed \in Seq(Looked)
  BY DEF StreamType
<1>3. \A i \in DOMAIN Tail(raw_stream) :
         i + 1 \in DOMAIN raw_stream /\ Tail(raw_stream)[i] = raw_stream[i + 1]
  BY <1>2
<1>4. fed' \in Seq(Looked) /\ raw_stream' = Tail(raw_stream)
  BY <1>1, <1>2 DEF Done
<1>5. writer' = IF Tail(raw_stream) = <<>> THEN "idle" ELSE writer
  BY DEF Done
<1> QED BY <1>1, <1>3, <1>4, <1>5 DEF StreamType

(* An error leaves the rest of the buffer.                                 *)
LEMMA LeavesType ==
  ASSUME StreamType, writer \in {"video", "audio"}, Leaves({"stopped", "idle"})
  PROVE  StreamType'
<1>1. Head(raw_stream) \in Looked
  BY InHand
<1>2. fed' \in Seq(Looked) /\ raw_stream' = <<>> /\ writer' \in {"stopped", "idle"}
  BY <1>1 DEF Leaves, StreamType
<1> QED BY <1>2 DEF StreamType

(* A header that the connection took leaves the piece in hand.             *)
LEMMA SameType ==
  ASSUME StreamType, UNCHANGED <<writer, raw_stream, fed>>
  PROVE  StreamType'
BY DEF StreamType

(* The piece at which the process ends stays in hand.                      *)
LEMMA AbortType ==
  ASSUME StreamType, writer' = "aborted", UNCHANGED <<raw_stream, fed>>
  PROVE  StreamType'
BY DEF StreamType

(* A buffer that is given is of pieces of its medium.                      *)
LEMMA WriteRawType ==
  ASSUME StreamType, NEW b \in RawBuffers, WriteRaw(b)
  PROVE  StreamType'
<1> DEFINE p == b.pieces
<1>1. /\ b.rate \in Nat /\ p # <<>>
      /\ \/ b.media = "video" /\ p \in Seq(Nalus)
         \/ b.media = "audio" /\ p \in Seq(Sounds)
  BY RawAssumption
<1>2. /\ writer' = b.media /\ UNCHANGED fed
      /\ raw_stream' = [i \in DOMAIN p |-> [first |-> i = 1, rate |-> b.rate, piece |-> p[i]]]
  BY DEF WriteRaw
<1>3. ASSUME NEW S \in SUBSET (Nalus \cup Sounds), p \in Seq(S)
      PROVE  /\ raw_stream' \in Seq(Looked) /\ raw_stream' # <<>>
             /\ \A i \in DOMAIN raw_stream' : raw_stream'[i].piece \in S
  <2>1. Len(p) \in Nat /\ DOMAIN p = 1..Len(p) /\ 1 \in DOMAIN p
    BY <1>1, <1>3
  <2>2. ASSUME NEW i \in DOMAIN p
        PROVE  raw_stream'[i] \in Looked /\ raw_stream'[i].piece \in S
    <3>1. p[i] \in S
      BY <1>3
    <3>2. raw_stream'[i] = [first |-> i = 1, rate |-> b.rate, piece |-> p[i]]
      BY <1>2
    <3> QED BY <1>1, <3>1, <3>2 DEF Looked
  <2>3. DOMAIN raw_stream' = 1..Len(p)
    BY <1>2, <2>1
  <2>4. raw_stream' \in [1..Len(p) -> Looked]
    BY <1>2, <2>1, <2>2
  <2> QED BY <2>1, <2>2, <2>3, <2>4
<1>4. Nalus \subseteq Nalus \cup Sounds /\ Sounds \subseteq Nalus \cup Sounds
  OBVIOUS
<1> HIDE DEF p
<1>5. CASE b.media = "video" /\ p \in Seq(Nalus)
  BY <1>2, <1>3, <1>4, <1>5 DEF StreamType
<1>6. CASE b.media = "audio" /\ p \in Seq(Sounds)
  BY <1>2, <1>3, <1>4, <1>6 DEF StreamType
<1> QED BY <1>1, <1>5, <1>6

-----------------------------------------------------------------------------
(* What keeps each part of the invariant, whatever the step.               *)

(* A tag that is made is the only one that is new.                         *)
LEMMA OfNext ==
  ASSUME RawTypes, NEW y \in Made, made' = Append(made, y), NEW kind,
         NEW m \in Nat, m = Len(made) + 1
  PROVE  /\ Of(kind)' = IF y.tag.kind = kind THEN Of(kind) \cup {m} ELSE Of(kind)
         /\ made'[m] = y /\ m \notin Of(kind)
<1>1. /\ made \in Seq(Made) /\ DOMAIN made = 1..Len(made) /\ DOMAIN made' = 1..m
      /\ made'[m] = y /\ \A i \in 1..Len(made) : made'[i] = made[i]
  BY DEF RawTypes
<1>2. 1..m = (1..Len(made)) \cup {m} /\ m \notin 1..Len(made)
  BY <1>1
<1> QED BY <1>1, <1>2 DEF Of

(* A tag is made for the piece in hand, and a frame when that is done.     *)
LEMMA OrderKept ==
  ASSUME RawTypes, InOrder, Grows,
         \A y \in Made : made' = Append(made, y) =>
            /\ y.at = Len(fed) + 1
            /\ y.tag.kind \in Frame => Len(fed') = Len(fed) + 1
  PROVE  InOrder'
<1>1. /\ fed \in Seq(Looked) /\ fed' \in Seq(Looked) /\ Len(fed) <= Len(fed')
      /\ made \in Seq(Made) /\ made' \in Seq(Made)
      /\ Len(fed) \in Nat /\ Len(fed') \in Nat
  BY GrowsOn DEF RawTypes, StreamType
<1>2. \A i \in DOMAIN made : made[i].at \in Nat
  <2>1. \A i \in DOMAIN made : made[i] \in Made
    BY <1>1
  <2> QED BY <2>1 DEF Made
<1>3. CASE made' = made
  BY <1>1, <1>2, <1>3 DEF InOrder
<1>4. ASSUME NEW y \in Made, made' = Append(made, y) PROVE InOrder'
  <2>1. /\ y.at = Len(fed) + 1 /\ y.at \in Nat
        /\ y.tag.kind \in Frame => Len(fed') = Len(fed) + 1
    BY <1>4 DEF Made
  <2> DEFINE m == Len(made) + 1
  <2>2. /\ DOMAIN made' = 1..m /\ DOMAIN made = 1..Len(made) /\ made'[m] = y
        /\ \A i \in 1..Len(made) : made'[i] = made[i]
    BY <1>1, <1>4
  <2>3. /\ \A i \in 1..m : i = m \/ i \in 1..Len(made)
        /\ \A i, j \in 1..m : i < j => i \in 1..Len(made)
    BY <1>1
  <2> HIDE DEF m
  <2>4. \A i \in DOMAIN made' : 1 <= made'[i].at /\ made'[i].at <= Len(fed') + 1
    BY <1>1, <1>2, <2>1, <2>2, <2>3 DEF InOrder
  <2>5. \A i \in DOMAIN made' : made'[i].tag.kind \in Frame => made'[i].at <= Len(fed')
    BY <1>1, <1>2, <2>1, <2>2, <2>3 DEF InOrder
  <2>6. \A i, j \in DOMAIN made' : i < j => made'[i].at <= made'[j].at
    BY <1>1, <1>2, <2>1, <2>2, <2>3 DEF InOrder
  <2> QED BY <2>4, <2>5, <2>6 DEF InOrder, Frame
<1> QED BY <1>3, <1>4 DEF Grows

(* Every frame that was made stays behind its sets.                        *)
LEMMA FollowKept ==
  ASSUME RawTypes, InOrder, Grows, FramesFollowTheirSets,
         NEW i \in Of("avc")
  PROVE  LET h == LastBefore(made', "avc_header", i) IN
         /\ h > 0
         /\ made'[h].tag.sps = LastOf(fed', "sps", made'[i].at)
         /\ made'[h].tag.pps = LastOf(fed', "pps", made'[i].at)
<1> DEFINE h == LastBefore(made, "avc_header", i)
<1>1. /\ made \in Seq(Made) /\ made' \in Seq(Made) /\ Len(made) <= Len(made')
      /\ \A j \in 1..Len(made) : made'[j] = made[j]
      /\ fed \in Seq(Looked) /\ fed' \in Seq(Looked) /\ Len(fed) <= Len(fed')
      /\ \A k \in 1..Len(fed) : fed'[k] = fed[k]
  BY GrowsOn DEF RawTypes, StreamType
<1>2. i \in 1..Len(made) /\ made[i].tag.kind = "avc" /\ made[i] \in Made /\ i \in Nat /\ i <= Len(made) + 1
  BY <1>1 DEF Of
<1>3. made[i].at \in Nat /\ made[i].at <= Len(fed) + 1 /\ made'[i] = made[i]
  BY <1>1, <1>2 DEF InOrder, Made
<1>4. LastBefore(made', "avc_header", i) = h
  BY <1>1, <1>2, BeforeKept
<1>5. \A nut : LastOf(fed', nut, made'[i].at) = LastOf(fed, nut, made[i].at)
  BY <1>1, <1>3, LastOfKept
<1>6. /\ h > 0
      /\ made[h].tag.sps = LastOf(fed, "sps", made[i].at)
      /\ made[h].tag.pps = LastOf(fed, "pps", made[i].at)
  <2>1. i \in KindOf(made, "avc")
    BY <1>1, <1>2 DEF KindOf
  <2>2. Follows(fed, made)
    BY FollowsIs
  <2> QED BY <2>1, <2>2 DEF Follows
<1>7. h \in 1..Len(made)
  <2>1. h \in {0} \cup {j \in KindOf(made, "avc_header") : j < i}
    BY <1>1, <1>2, BeforeIs
  <2>2. KindOf(made, "avc_header") \subseteq 1..Len(made)
    BY <1>1, KindOfIn
  <2> HIDE DEF h
  <2>3. h # 0
    BY <1>6
  <2> QED BY <2>1, <2>2, <2>3
<1> HIDE DEF h
<1> QED BY <1>1, <1>4, <1>5, <1>6, <1>7

(* So do all when the step makes no frame.                                 *)
LEMMA NoFrameFollows ==
  ASSUME RawTypes, InOrder, Grows, FramesFollowTheirSets,
         MakesNo("avc")
  PROVE  FramesFollowTheirSets'
<1>1. Of("avc")' = Of("avc")
  <2>1. CASE made' = made
    BY <2>1 DEF Of
  <2>2. ASSUME NEW y \in Made, made' = Append(made, y) PROVE Of("avc")' = Of("avc")
    <3>1. Len(made) + 1 \in Nat
      BY Lengths
    <3> QED BY <2>2, <3>1, OfNext DEF MakesNo
  <2> QED BY <2>1, <2>2 DEF Grows
<1>2. KindOf(made', "avc") = Of("avc")
  BY <1>1 DEF Of, KindOf
<1> QED BY <1>2, FollowKept, FollowsIs DEF Follows

(* A piece that is to be shown and has an SPS is made a frame of, or a     *)
(* write failed at it.                                                     *)
Shows(k) == k \in Fed(Shown) /\ HasSps(k) => Failed(k) \/ \E i \in Of("avc") : made[i].at = k

(* A write that failed, and a frame that was made, stay so.                *)
LEMMA FailedKept ==
  ASSUME RawTypes, Grows, NEW k
  PROVE  /\ Failed(k) => Failed(k)'
         /\ (\E i \in Of("avc") : made[i].at = k) => \E i \in Of("avc")' : made'[i].at = k
<1>1. /\ made \in Seq(Made) /\ made' \in Seq(Made) /\ Len(made) <= Len(made')
      /\ \A j \in 1..Len(made) : made'[j] = made[j]
  BY GrowsOn DEF RawTypes
<1>2. \A i \in DOMAIN made : i \in 1..Len(made) /\ i \in DOMAIN made'
  BY <1>1
<1>3. Failed(k) => Failed(k)'
  BY <1>1, <1>2 DEF Failed
<1> QED BY <1>1, <1>2, <1>3, OfKept DEF Of

(* Frames are made once and in order if one is made for the piece in hand. *)
LEMMA OnceKept ==
  ASSUME RawTypes, InOrder, Grows, EachFrameOnce,
         \A y \in Made : made' = Append(made, y) /\ y.tag.kind = "avc" => y.at = Len(fed) + 1,
         Len(fed') = Len(fed) \/ \E n \in Nat : n = Len(fed) + 1 /\ Shows(n)'
  PROVE  EachFrameOnce'
<1>1. /\ made \in Seq(Made) /\ made' \in Seq(Made) /\ Len(made) <= Len(made')
      /\ \A j \in 1..Len(made) : made'[j] = made[j]
      /\ fed \in Seq(Looked) /\ fed' \in Seq(Looked) /\ Len(fed) <= Len(fed')
      /\ Len(fed') <= Len(fed) + 1 /\ Len(fed) \in Nat /\ Len(fed') \in Nat
  <2>1. Len(fed') <= Len(fed) + 1
    BY DEF RawTypes, StreamType, Grows
  <2> QED BY <2>1, GrowsOn DEF RawTypes, StreamType
<1>2. ASSUME NEW i \in Of("avc")', NEW j \in Of("avc")', i < j
      PROVE  made'[i].at < made'[j].at
  <2>1. i \in 1..Len(made') /\ j \in 1..Len(made')
    BY <1>1 DEF Of
  <2>2. CASE j \in 1..Len(made)
    <3>1. i \in 1..Len(made)
      BY <1>1, <1>2, <2>1, <2>2
    <3>2. i \in Of("avc") /\ j \in Of("avc") /\ made'[i] = made[i] /\ made'[j] = made[j]
      BY <1>1, <2>2, <3>1, OfKept
    <3> QED BY <1>2, <3>2 DEF EachFrameOnce
  <2>3. CASE j \notin 1..Len(made)
    <3>1. PICK y \in Made : made' = Append(made, y)
      BY <1>1, <2>1, <2>3 DEF Grows
    <3>2. j = Len(made) + 1 /\ made'[j] = y /\ i \in 1..Len(made)
      <4>1. Len(made') = Len(made) + 1 /\ made'[Len(made) + 1] = y /\ Len(made) \in Nat
        BY <1>1, <3>1
      <4>2. j = Len(made) + 1
        BY <2>1, <2>3, <4>1
      <4> QED BY <1>2, <2>1, <4>1, <4>2
    <3>3. y.at = Len(fed) + 1
      BY <1>2, <3>1, <3>2 DEF Of
    <3>4. i \in Of("avc") /\ made'[i] = made[i] /\ i \in DOMAIN made
      BY <1>1, <3>2, OfKept
    <3>5. made[i].at <= Len(fed) /\ made[i].at \in Nat
      <4>1. made[i] \in Made /\ made[i].tag.kind \in Frame
        BY <1>1, <3>4 DEF Of, Frame
      <4> QED BY <3>4, <4>1 DEF InOrder, Made
    <3> QED BY <1>1, <3>2, <3>3, <3>4, <3>5
  <2> QED BY <2>2, <2>3
<1>3. ASSUME NEW k \in Fed(Shown)', HasSps(k)'
      PROVE  Failed(k)' \/ \E i \in Of("avc")' : made'[i].at = k
  <2>1. k \in 1..Len(fed')
    BY FedKept
  <2>2. CASE k \in 1..Len(fed)
    <3>1. k \in Fed(Shown)
      BY <2>2, FedKept
    <3>2. HasSps(k)
      BY <1>1, <1>3, <2>2, GivenKept
    <3>3. Failed(k) \/ \E i \in Of("avc") : made[i].at = k
      BY <3>1, <3>2 DEF EachFrameOnce
    <3> QED BY <3>3, FailedKept
  <2>3. CASE k \notin 1..Len(fed)
    <3>1. k = Len(fed) + 1 /\ Shows(k)'
      BY <1>1, <2>1, <2>3
    <3> QED BY <1>3, <3>1 DEF Shows
  <2> QED BY <2>2, <2>3
<1> QED BY <1>2, <1>3 DEF EachFrameOnce

(* What is looked at is no parameter set.                                  *)
NoSet(x) == "nut" \in DOMAIN x.piece => x.piece.nut \notin {"sps", "pps"}

(* A set that was given stays given.                                       *)
LEMMA ChangedKept ==
  ASSUME RawTypes, Grows, Fed({"sps", "pps"}) # {}
  PROVE  Fed({"sps", "pps"})' # {}
<1>1. PICK k \in Fed({"sps", "pps"}) : TRUE
  OBVIOUS
<1>2. k \in Fed({"sps", "pps"})'
  BY <1>1, FedKept
<1> QED BY <1>2

(* Who looks at no set keeps those of the Context.                         *)
LEMMA SetsUntouched ==
  ASSUME RawTypes, Grows, SetsKept, UNCHANGED <<h264_sps, h264_pps>>,
         h264_sps_changed' \/ h264_pps_changed' => h264_sps_changed \/ h264_pps_changed,
         fed' = fed \/ \E x \in Looked : fed' = Append(fed, x) /\ NoSet(x)
  PROVE  SetsKept'
<1>1. \A nut \in {"sps", "pps"} : LastOf(fed', nut, Len(fed') + 1) = LastOf(fed, nut, Len(fed) + 1)
  <2>1. CASE fed' = fed
    BY <2>1
  <2>2. ASSUME NEW x \in Looked, fed' = Append(fed, x), NoSet(x),
               NEW nut \in {"sps", "pps"}
        PROVE  LastOf(fed', nut, Len(fed') + 1) = LastOf(fed, nut, Len(fed) + 1)
    <3>1. fed \in Seq(Looked) /\ Len(fed') + 1 = Len(fed) + 2
      BY <2>2 DEF RawTypes, StreamType
    <3> QED BY <2>2, <3>1, LastOfNext DEF NoSet
  <2> QED BY <2>1, <2>2
<1>2. SpsOf(LastOf(fed, "sps", Len(fed) + 1))' = SpsOf(LastOf(fed', "sps", Len(fed') + 1))
  BY DEF SpsOf, LastOf, Earlier, Typed, EmptySet
<1>3. LastOf(fed, "pps", Len(fed) + 1)' = LastOf(fed', "pps", Len(fed') + 1)
  OBVIOUS
<1>4. h264_sps' = SpsOf(LastOf(fed', "sps", Len(fed') + 1)) /\ h264_pps' = LastOf(fed', "pps", Len(fed') + 1)
  BY <1>1 DEF SetsKept
<1>5. h264_sps_changed' \/ h264_pps_changed' => Fed({"sps", "pps"})' # {}
  BY ChangedKept DEF SetsKept
<1> QED BY <1>2, <1>3, <1>4, <1>5 DEF SetsKept

(* A step that makes no header and leaves the sets keeps the last header.  *)
LEMMA HeaderUntouched ==
  ASSUME RawTypes, Grows, HeaderKnown, UNCHANGED avcVars,
         MakesNo("avc_header")
  PROVE  HeaderKnown'
<1>1. Of("avc_header")' = Of("avc_header")
  <2>1. CASE made' = made
    BY <2>1 DEF Of
  <2>2. ASSUME NEW y \in Made, made' = Append(made, y)
        PROVE  Of("avc_header")' = Of("avc_header")
    <3>1. Len(made) + 1 \in Nat
      BY Lengths
    <3> QED BY <2>2, <3>1, OfNext DEF MakesNo
  <2> QED BY <2>1, <2>2 DEF Grows
<1>2. \A h \in Of("avc_header") : made'[h] = made[h]
  BY OfKept, GrowsOn
<1> QED BY <1>1, <1>2 DEF HeaderKnown, avcVars

(* A step that makes nothing, and one that makes a tag.                    *)
LEMMA NothingMade ==
  ASSUME RawTypes, made' = made
  PROVE  \A y \in Made : made' # Append(made, y)
<1>1. SUFFICES ASSUME NEW y \in Made PROVE made # Append(made, y)
  OBVIOUS
<1>2. made \in Seq(Made) /\ Len(made) \in Nat
  BY Lengths
<1>3. Len(Append(made, y)) = Len(made) + 1
  BY <1>2
<1> QED BY <1>2, <1>3

(* The tag that is made is one.                                            *)
LEMMA OneMade ==
  ASSUME RawTypes, NEW z \in Made, made' = Append(made, z)
  PROVE  \A y \in Made : made' = Append(made, y) => y = z
<1>1. SUFFICES ASSUME NEW y \in Made, made' = Append(made, y) PROVE y = z
  OBVIOUS
<1>2. made \in Seq(Made) /\ Len(made) \in Nat
  BY Lengths
<1>3. ASSUME NEW w \in Made PROVE Append(made, w)[Len(made) + 1] = w
  BY <1>2
<1>4. Append(made, z)[Len(made) + 1] = z /\ Append(made, y)[Len(made) + 1] = y
  BY <1>3
<1> QED BY <1>1, <1>4

(* What was looked at keeps its configuration.                             *)
LEMMA ConfigAt ==
  ASSUME RawTypes, Grows, NEW k \in 1..Len(fed)
  PROVE  (IsAdts(k)' <=> IsAdts(k)) /\ ConfigOf(k)' = ConfigOf(k)
<1>1. fed'[k] = fed[k]
  BY GrowsOn
<1> QED BY <1>1 DEF IsAdts, ConfigOf, Config, Index

(* What a tag was made for, by its place.                                  *)
LEMMA ConfigSame ==
  ASSUME NEW i, NEW k, made'[i].at = k
  PROVE  (IsAdts(made[i].at)' <=> IsAdts(k)') /\ ConfigOf(made[i].at)' = ConfigOf(k)'
BY DEF IsAdts, ConfigOf, Config, Index

(* An ADTS frame that was made keeps its header and its configuration.     *)
LEMMA AdtsKept ==
  ASSUME RawTypes, InOrder, Grows, ConfigKept, NEW i \in Of("adts")
  PROVE  /\ IsAdts(made[i].at)' /\ made'[i].tag.config = ConfigOf(made[i].at)'
         /\ \E h \in Of("aac_header")' : h < i
<1>1. i \in DOMAIN made /\ made[i].tag.kind = "adts" /\ made'[i] = made[i]
  BY GrowsOn, Lengths DEF Of
<1>2. PICK k \in 1..Len(fed) : k = made[i].at
  BY <1>1, AtIn DEF Frame
<1>3. IsAdts(k) /\ made[i].tag.config = ConfigOf(k)
  BY <1>1, <1>2 DEF ConfigKept
<1>4. IsAdts(k)' /\ made'[i].tag.config = ConfigOf(k)'
  BY <1>1, <1>3, ConfigAt
<1>5. (IsAdts(made[i].at)' <=> IsAdts(k)') /\ ConfigOf(made[i].at)' = ConfigOf(k)'
  BY <1>1, <1>2, ConfigSame
<1>6. PICK h \in Of("aac_header") : h < i
  BY DEF ConfigKept
<1>7. h \in Of("aac_header")'
  BY OfKept
<1> QED BY <1>4, <1>5, <1>6, <1>7

(* A header that was made for a frame that is done keeps it.               *)
LEMMA AacHeaderKept ==
  ASSUME RawTypes, InOrder, Grows, NEW h \in Of("aac_header"), made[h].at <= Len(fed),
         IsAdts(made[h].at), ConfigOf(made[h].at) = aac_specific_config
  PROVE  /\ made'[h] = made[h] /\ made'[h].at <= Len(fed')
         /\ IsAdts(made[h].at)' /\ ConfigOf(made[h].at)' = aac_specific_config
<1>1. h \in DOMAIN made /\ made'[h] = made[h]
  BY GrowsOn, Lengths DEF Of
<1>2. PICK k \in 1..Len(fed) : k = made[h].at
  <2>1. made[h].at \in 1..Len(fed)
    BY <1>1, AtIn, Lengths
  <2> QED BY <2>1
<1>3. IsAdts(k)' /\ ConfigOf(k)' = aac_specific_config
  BY <1>2, ConfigAt
<1>4. (IsAdts(made[h].at)' <=> IsAdts(k)') /\ ConfigOf(made[h].at)' = ConfigOf(k)'
  BY <1>1, <1>2, ConfigSame
<1>5. k <= Len(fed')
  <2>1. fed' \in Seq(Looked) /\ Len(fed) <= Len(fed')
    BY GrowsOn
  <2> QED BY <2>1, Lengths
<1> QED BY <1>1, <1>2, <1>3, <1>4, <1>5

(* No header waits for the frame in hand: so it is but between an AAC      *)
(* header and its frame.                                                   *)
NotPending == \A h \in Of("aac_header") : made[h].at <= Len(fed)

(* A header that waits has its ADTS frame in hand.                         *)
LEMMA NothingPending ==
  ASSUME ConfigKept, writer # "audio" \/ ~IsFrame \/ aac_specific_config = EmptyConfig
  PROVE  NotPending
BY DEF ConfigKept, NotPending

(* Who makes no ADTS frame and no header leaves the configuration.         *)
LEMMA ConfigUntouched ==
  ASSUME RawTypes, InOrder, Grows, ConfigKept, UNCHANGED aac_specific_config,
         NotPending, MakesNo("aac_header"), MakesNo("adts")
  PROVE  ConfigKept'
<1>1. ASSUME NEW kind \in {"aac_header", "adts"} PROVE Of(kind)' = Of(kind)
  <2>1. CASE made' = made
    BY <2>1 DEF Of
  <2>2. ASSUME NEW y \in Made, made' = Append(made, y)
        PROVE  Of(kind)' = Of(kind)
    BY <2>2, Lengths, OfNext DEF MakesNo
  <2> QED BY <2>1, <2>2 DEF Grows
<1>2. \A i \in Of("adts")' :
         /\ IsAdts(made[i].at)' /\ made'[i].tag.config = ConfigOf(made[i].at)'
         /\ \E h \in Of("aac_header")' : h < i
  BY <1>1, AdtsKept
<1>3. aac_specific_config' = EmptyConfig => Of("aac_header")' = {}
  BY <1>1 DEF ConfigKept
<1>4. ASSUME aac_specific_config' # EmptyConfig
      PROVE  \E h \in Of("aac_header")' :
               /\ Of("aac_header")' = {h}
               /\ made'[h].tag.config = aac_specific_config'
               /\ made'[h].at <= Len(fed')
               /\ IsAdts(made[h].at)' /\ ConfigOf(made[h].at)' = aac_specific_config'
  <2>1. PICK h \in Of("aac_header") :
           /\ Of("aac_header") = {h}
           /\ made[h].tag.config = aac_specific_config
           /\ made[h].at <= Len(fed)
           /\ IsAdts(made[h].at) /\ ConfigOf(made[h].at) = aac_specific_config
    BY <1>4 DEF ConfigKept, NotPending
  <2>2. h \in Of("aac_header")' /\ Of("aac_header")' = {h}
    BY <1>1, <2>1
  <2>3. /\ made'[h] = made[h] /\ made'[h].at <= Len(fed')
        /\ IsAdts(made[h].at)' /\ ConfigOf(made[h].at)' = aac_specific_config
    BY <2>1, AacHeaderKept
  <2> QED BY <2>1, <2>2, <2>3
<1> QED BY <1>2, <1>3, <1>4 DEF ConfigKept

-----------------------------------------------------------------------------
(* The steps, one by one.                                                  *)
(* A step that makes nothing and touches neither sets nor configuration.   *)
LEMMA QuietStep ==
  ASSUME RawTypes, RawParts, UNCHANGED <<avcVars, aac_specific_config, made>>,
         NotPending,
         \/ fed' = fed
         \/ \E x \in Looked :
               /\ fed' = Append(fed, x) /\ NoSet(x)
               /\ \E n \in Nat : n = Len(fed) + 1 /\ Shows(n)'
  PROVE  RawParts'
<1>1. Grows
  BY DEF Grows
<1>2. \A y \in Made : made' # Append(made, y)
  BY NothingMade
<1>3. InOrder'  BY <1>1, <1>2, OrderKept DEF RawParts
<1>a. \A kind : MakesNo(kind)  BY <1>2 DEF MakesNo
<1>4. SetsKept'
  BY <1>1, SetsUntouched DEF RawParts, avcVars
<1>5. HeaderKnown'  BY <1>1, <1>a, HeaderUntouched DEF RawParts
<1>6. ConfigKept'  BY <1>1, <1>a, ConfigUntouched DEF RawParts
<1>7. FramesFollowTheirSets'  BY <1>1, <1>a, NoFrameFollows DEF RawParts
<1>8. EachFrameOnce'
  BY <1>1, <1>2, OnceKept DEF RawParts
<1> QED BY <1>3, <1>4, <1>5, <1>6, <1>7, <1>8 DEF RawParts

(* A piece without a start code, an empty one, and a NALU of another type. *)
LEMMA NotPrefixedKeeps ==
  ASSUME RawTypes, RawParts, NotPrefixed \/ Ignore
  PROVE  RawTypes' /\ RawParts'
<1>1. /\ writer = "video" /\ Piece.nut \in {"bare", "none", "sei"}
      /\ Leaves({"stopped", "idle"}) \/ Done
      /\ UNCHANGED <<avcVars, aac_specific_config, made>>
  BY DEF NotPrefixed, Ignore
<1>2. StreamType'
  BY <1>1, DoneType, LeavesType DEF RawTypes
<1>3. RawTypes'
  BY <1>1, <1>2 DEF RawTypes, ContextType, avcVars
<1> DEFINE x == Head(raw_stream)
<1>4. x \in Looked /\ fed' = Append(fed, x) /\ x.piece.nut \in {"bare", "none", "sei"}
  BY <1>1, InHand DEF RawTypes, Done, Leaves, Piece
<1>5. NoSet(x)
  BY <1>4 DEF NoSet
<1>6. PICK n \in Nat : n = Len(fed) + 1
  BY Lengths
<1>7. Shows(n)'
  <2>1. n \notin Fed(Shown)'
    <3>1. fed'[n] = x
      BY <1>4, <1>6, Lengths
    <3> QED BY <1>4, <3>1 DEF Fed, Shown
  <2> QED BY <2>1 DEF Shows
<1> HIDE DEF x
<1>8. RawParts'
  BY <1>1, <1>4, <1>5, <1>6, <1>7, QuietStep, NothingPending DEF RawParts
<1> QED BY <1>3, <1>8

(* A buffer is given: nothing is looked at yet.                            *)
LEMMA WriteRawKeeps ==
  ASSUME RawTypes, RawParts, NEW b \in RawBuffers, WriteRaw(b)
  PROVE  RawTypes' /\ RawParts'
<1>1. writer = "idle" /\ UNCHANGED <<avcVars, aac_specific_config, fed, made>>
  BY DEF WriteRaw
<1>2. StreamType'
  BY WriteRawType DEF RawTypes
<1>3. RawParts'
  BY <1>1, QuietStep, NothingPending DEF RawParts
<1> QED BY <1>1, <1>2, <1>3 DEF RawTypes, ContextType, avcVars

(* The process ends: MuxWithoutSps.                                        *)
LEMMA MuxWithoutSpsKeeps ==
  ASSUME RawTypes, RawParts, MuxWithoutSps
  PROVE  RawTypes' /\ RawParts'
<1>1. /\ writer = "video" /\ writer' = "aborted"
      /\ UNCHANGED <<raw_stream, avcVars, aac_specific_config, fed, made>>
  BY DEF MuxWithoutSps, AsksForHeader
<1>2. StreamType'
  BY <1>1, AbortType DEF RawTypes
<1>3. RawParts'
  BY <1>1, QuietStep, NothingPending DEF RawParts
<1> QED BY <1>1, <1>2, <1>3 DEF RawTypes, ContextType, avcVars

(* The Context has no SPS while none that is long enough was given last.   *)
LEMMA NoSpsGiven ==
  ASSUME RawTypes, SetsKept, h264_sps = EmptySet, NEW n \in Nat, n = Len(fed) + 1
  PROVE  ~HasSps(n)
<1>1. LastGiven("sps", n) = LastOf(fed, "sps", n) /\ LastOf(fed, "sps", n) \in Nalus
  <2>1. fed \in Seq(Looked)
    BY Lengths
  <2>2. \A p \in Nalus : PpsDemux(p) = p
    BY DEF PpsDemux, Nalus
  <2>3. Fed({"sps"}) = Typed(fed, "sps")
    BY DEF Fed, Typed
  <2>4. LastGiven("sps", n) = IF Earlier(fed, "sps", n) = {} THEN EmptySet
                              ELSE PpsDemux(fed[Max(Earlier(fed, "sps", n))].piece)
    BY <2>3 DEF LastGiven, Earlier
  <2> QED BY <2>1, <2>2, <2>4, LastOfOne DEF LastOf
<1>2. SpsOf(LastOf(fed, "sps", n)) = EmptySet
  BY DEF SetsKept
<1>3. LastOf(fed, "sps", n).size < 4
  BY <1>1, <1>2 DEF SpsOf, EmptySet, Nalus
<1> QED BY <1>1, <1>3 DEF HasSps, Nalus

(* A frame is dropped while no header was sent, hence while there is no    *)
(* SPS; a delimiter is no frame.                                           *)
LEMMA DropFrameKeeps ==
  ASSUME RawTypes, RawParts, DropFrame
  PROVE  RawTypes' /\ RawParts'
<1>1. /\ writer = "video" /\ Piece.nut \in Shown \cup {"aud"} /\ ~Changed /\ Done
      /\ ~h264_sps_pps_sent \/ Piece.nut = "aud"
      /\ UNCHANGED <<avcVars, aac_specific_config, made>>
  BY DEF DropFrame
<1>2. StreamType'
  BY <1>1, DoneType DEF RawTypes
<1>3. RawTypes'
  BY <1>1, <1>2 DEF RawTypes, ContextType, avcVars
<1> DEFINE x == Head(raw_stream)
<1>4. x \in Looked /\ fed' = Append(fed, x) /\ x.piece.nut \in Shown \cup {"aud"}
  BY <1>1, InHand DEF RawTypes, Done, Piece
<1>5. NoSet(x)
  BY <1>4 DEF NoSet, Shown
<1>6. PICK n \in Nat : n = Len(fed) + 1
  BY Lengths
<1>7. Shows(n)'
  <2>1. fed'[n] = x
    BY <1>4, <1>6, Lengths
  <2>2. CASE Piece.nut = "aud"
    BY <2>1, <2>2 DEF Shows, Fed, Shown, Piece
  <2>3. CASE ~h264_sps_pps_sent
    <3>1. h264_sps = EmptySet
      BY <1>1, <2>3 DEF RawParts, HeaderKnown, Changed
    <3>2. ~HasSps(n)
      BY <1>6, <3>1, NoSpsGiven DEF RawParts
    <3>3. Grows
      BY <1>1, <1>4 DEF Grows
    <3>4. ~HasSps(n)'
      BY <1>6, <3>2, <3>3, GivenKept
    <3> QED BY <3>4 DEF Shows
  <2> QED BY <1>1, <2>2, <2>3
<1> HIDE DEF x
<1>8. RawParts'
  BY <1>1, <1>4, <1>5, <1>6, <1>7, QuietStep, NothingPending DEF RawParts
<1> QED BY <1>3, <1>8

(* A step that looks at a set and makes nothing.                           *)
LEMMA SetStep ==
  ASSUME RawTypes, RawParts, UNCHANGED <<aac_specific_config, made>>, NotPending,
         NEW x \in Looked, fed' = Append(fed, x), x.piece \in Nalus, x.piece.nut \in {"sps", "pps"},
         SetsKept', HeaderKnown'
  PROVE  RawParts'
<1>1. Grows
  BY DEF Grows
<1>2. \A y \in Made : made' # Append(made, y)
  BY NothingMade
<1>3. \A kind : MakesNo(kind)  BY <1>2 DEF MakesNo
<1>4. InOrder'  BY <1>1, <1>2, OrderKept DEF RawParts
<1>5. ConfigKept'  BY <1>1, <1>3, ConfigUntouched DEF RawParts
<1>6. FramesFollowTheirSets'  BY <1>1, <1>3, NoFrameFollows DEF RawParts
<1>7. EachFrameOnce'
  <2>1. PICK n \in Nat : n = Len(fed) + 1
    BY Lengths
  <2>2. fed'[n] = x
    BY <2>1, Lengths
  <2>3. Shows(n)'
    BY <2>2 DEF Shows, Fed, Shown
  <2> QED BY <1>1, <1>2, <2>1, <2>3, OnceKept DEF RawParts
<1> QED BY <1>4, <1>5, <1>6, <1>7 DEF RawParts

(* The last piece of its type is the one that was just looked at.          *)
LEMMA SetLooked ==
  ASSUME RawTypes, NEW x \in Looked, fed' = Append(fed, x), x.piece \in Nalus,
         NEW nut
  PROVE  LastOf(fed', nut, Len(fed') + 1) =
            IF x.piece.nut = nut THEN x.piece ELSE LastOf(fed, nut, Len(fed) + 1)
<1>1. fed \in Seq(Looked) /\ Len(fed') + 1 = Len(fed) + 2
  BY Lengths
<1>2. "nut" \in DOMAIN x.piece
  BY PieceKinds
<1> QED BY <1>1, <1>2, LastOfNext

(* An SPS is kept, unless it is short.                                     *)
LEMMA TakeSpsKeeps ==
  ASSUME RawTypes, RawParts, TakeSps
  PROVE  RawTypes' /\ RawParts'
<1> DEFINE x == Head(raw_stream)
<1>1. /\ writer = "video" /\ Piece.nut = "sps" /\ Done
      /\ h264_sps' = SpsDemux(Piece)
      /\ h264_sps_changed' = (h264_sps_changed \/ h264_sps' # h264_sps)
      /\ UNCHANGED <<h264_pps, h264_pps_changed, h264_sps_pps_sent, aac_specific_config, made>>
  BY DEF TakeSps
<1>2. x \in Looked /\ fed' = Append(fed, x) /\ x.piece \in Nalus /\ x.piece.nut = "sps"
  BY <1>1, InHand DEF RawTypes, Done, Piece
<1>3. SpsDemux(Piece) = SpsOf(x.piece) /\ SpsOf(x.piece) \in Nalus
  BY <1>2 DEF SpsDemux, SpsOf, Piece, EmptySet, Nalus
<1>4. StreamType'
  BY <1>1, DoneType DEF RawTypes
<1>5. RawTypes'
  <2>1. h264_sps_changed' \in BOOLEAN
    BY <1>1 DEF RawTypes, ContextType
  <2> QED BY <1>1, <1>3, <1>4, <2>1 DEF RawTypes, ContextType
<1> HIDE DEF x
<1>6. /\ LastOf(fed', "sps", Len(fed') + 1) = x.piece
      /\ LastOf(fed', "pps", Len(fed') + 1) = LastOf(fed, "pps", Len(fed) + 1)
  BY <1>2, SetLooked
<1>7. Fed({"sps", "pps"})' # {}
  <2>1. PICK n \in Nat : n = Len(fed) + 1
    BY Lengths
  <2>2. n \in DOMAIN fed' /\ fed'[n] = x
    BY <1>2, <2>1, Lengths
  <2>3. n \in Fed({"sps", "pps"})'
    BY <1>2, <2>2, PieceKinds DEF Fed
  <2> QED BY <2>3
<1>8. SetsKept'
  <2>1. /\ SpsOf(LastOf(fed, "sps", Len(fed) + 1))' = SpsOf(LastOf(fed', "sps", Len(fed') + 1))
        /\ LastOf(fed, "pps", Len(fed) + 1)' = LastOf(fed', "pps", Len(fed') + 1)
    BY DEF SpsOf, LastOf, Earlier, Typed, EmptySet
  <2> QED BY <1>1, <1>3, <1>6, <1>7, <2>1 DEF SetsKept, RawParts
<1>9. HeaderKnown'
  <2>1. Of("avc_header")' = Of("avc_header")
    BY <1>1 DEF Of
  <2>2. ~h264_sps_changed' => h264_sps' = h264_sps /\ ~h264_sps_changed
    BY <1>1
  <2> QED BY <1>1, <2>1, <2>2 DEF HeaderKnown, RawParts
<1>10. NotPending
  BY <1>1, NothingPending DEF RawParts
<1> QED BY <1>1, <1>2, <1>5, <1>8, <1>9, <1>10, SetStep

(* A PPS is kept.                                                          *)
LEMMA TakePpsKeeps ==
  ASSUME RawTypes, RawParts, TakePps
  PROVE  RawTypes' /\ RawParts'
<1> DEFINE x == Head(raw_stream)
<1>1. /\ writer = "video" /\ Piece.nut = "pps" /\ Done
      /\ h264_pps' = PpsDemux(Piece)
      /\ h264_pps_changed' = (h264_pps_changed \/ h264_pps' # h264_pps)
      /\ UNCHANGED <<h264_sps, h264_sps_changed, h264_sps_pps_sent, aac_specific_config, made>>
  BY DEF TakePps
<1>2. x \in Looked /\ fed' = Append(fed, x) /\ x.piece \in Nalus /\ x.piece.nut = "pps"
  BY <1>1, InHand DEF RawTypes, Done, Piece
<1>3. PpsDemux(Piece) = x.piece
  BY <1>2 DEF PpsDemux, Piece, Nalus
<1>4. StreamType'
  BY <1>1, DoneType DEF RawTypes
<1>5. RawTypes'
  <2>1. h264_pps_changed' \in BOOLEAN
    BY <1>1 DEF RawTypes, ContextType
  <2> QED BY <1>1, <1>2, <1>3, <1>4, <2>1 DEF RawTypes, ContextType
<1> HIDE DEF x
<1>6. /\ LastOf(fed', "pps", Len(fed') + 1) = x.piece
      /\ LastOf(fed', "sps", Len(fed') + 1) = LastOf(fed, "sps", Len(fed) + 1)
  BY <1>2, SetLooked
<1>7. Fed({"sps", "pps"})' # {}
  <2>1. PICK n \in Nat : n = Len(fed) + 1
    BY Lengths
  <2>2. n \in DOMAIN fed' /\ fed'[n] = x
    BY <1>2, <2>1, Lengths
  <2>3. n \in Fed({"sps", "pps"})'
    BY <1>2, <2>2, PieceKinds DEF Fed
  <2> QED BY <2>3
<1>8. SetsKept'
  <2>1. /\ SpsOf(LastOf(fed, "sps", Len(fed) + 1))' = SpsOf(LastOf(fed', "sps", Len(fed') + 1))
        /\ LastOf(fed, "pps", Len(fed) + 1)' = LastOf(fed', "pps", Len(fed') + 1)
    BY DEF SpsOf, LastOf, Earlier, Typed, EmptySet
  <2> QED BY <1>1, <1>3, <1>6, <1>7, <2>1 DEF SetsKept, RawParts
<1>9. HeaderKnown'
  <2>1. Of("avc_header")' = Of("avc_header")
    BY <1>1 DEF Of
  <2>2. ~h264_pps_changed' => h264_pps' = h264_pps /\ ~h264_pps_changed
    BY <1>1
  <2> QED BY <1>1, <2>1, <2>2 DEF HeaderKnown, RawParts
<1>10. NotPending
  BY <1>1, NothingPending DEF RawParts
<1> QED BY <1>1, <1>2, <1>5, <1>8, <1>9, <1>10, SetStep

(* What is made is made for the piece in hand.                             *)
LEMMA MakeIs ==
  ASSUME RawTypes, NEW tag \in Tags, NEW ok \in BOOLEAN,
         made' = Append(made, [tag |-> tag, at |-> Len(fed) + 1, ok |-> ok])
  PROVE  \E z \in Made : z.tag = tag /\ z.at = Len(fed) + 1 /\ z.ok = ok /\ made' = Append(made, z)
<1> DEFINE z == [tag |-> tag, at |-> Len(fed) + 1, ok |-> ok]
<1>1. z \in Made
  BY Lengths DEF Made
<1> QED BY <1>1

(* The header is sent before it is written, or before its write fails.     *)
LEMMA WriteSpsPpsKeeps ==
  ASSUME RawTypes, RawParts, WriteSpsPps
  PROVE  RawTypes' /\ RawParts'
<1> DEFINE x == Head(raw_stream)
<1>1. /\ writer = "video" /\ Piece.nut \in Shown \cup {"aud"} /\ Changed
      /\ h264_sps # EmptySet
      /\ ~h264_sps_changed' /\ ~h264_pps_changed' /\ h264_sps_pps_sent'
      /\ UNCHANGED <<h264_sps, h264_pps, aac_specific_config>>
      /\ Make(AvcHeader, UNCHANGED <<writer, raw_stream, fed>>)
  BY DEF WriteSpsPps, AsksForHeader
<1>2. x \in Looked /\ x.piece \in Nalus /\ x.piece.nut \in Shown \cup {"aud"}
  BY <1>1, InHand DEF RawTypes, Piece
<1>3. NoSet(x)
  BY <1>2 DEF NoSet, Shown
<1>4. AvcHeader \in Tags /\ AvcHeader.kind = "avc_header" /\ AvcHeader.sps = h264_sps
      /\ AvcHeader.pps = h264_pps
  BY DEF AvcHeader, Tags, RawTypes, ContextType
<1>5. PICK ok \in BOOLEAN :
        /\ made' = Append(made, [tag |-> AvcHeader, at |-> Len(fed) + 1, ok |-> ok])
        /\ IF ok THEN UNCHANGED <<writer, raw_stream, fed>> ELSE Leaves({"stopped", "idle"})
  BY <1>1 DEF Make
<1>6. PICK z \in Made : z.tag = AvcHeader /\ z.at = Len(fed) + 1 /\ z.ok = ok /\ made' = Append(made, z)
  BY <1>4, <1>5, MakeIs
<1>7. StreamType'
  BY <1>1, <1>5, LeavesType, SameType DEF RawTypes
<1>8. made' \in Seq(Made)
  BY <1>6, Lengths
<1>9. RawTypes'
  <2>1. h264_sps_changed' \in BOOLEAN /\ h264_pps_changed' \in BOOLEAN /\ h264_sps_pps_sent' \in BOOLEAN
    BY DEF WriteSpsPps
  <2> QED BY <1>1, <1>7, <1>8, <2>1 DEF RawTypes, ContextType
<1>10. \/ fed' = fed /\ ok
       \/ fed' = Append(fed, x) /\ ~ok
  BY <1>5 DEF Leaves
<1> HIDE DEF x
<1>11. Grows
  BY <1>2, <1>6, <1>10 DEF Grows
<1>12. \A y \in Made : made' = Append(made, y) => y = z
  BY <1>6, OneMade
<1>13. \A kind : kind # "avc_header" => MakesNo(kind)
  BY <1>4, <1>6, <1>12 DEF MakesNo
<1>14. InOrder'
  BY <1>4, <1>6, <1>11, <1>12, OrderKept DEF RawParts, Frame
<1>15. SetsKept'
  BY <1>1, <1>2, <1>3, <1>10, <1>11, SetsUntouched DEF RawParts
<1>16. PICK m \in Nat : m = Len(made) + 1
  BY Lengths
<1>17. HeaderKnown'
  <2>1. Of("avc_header")' = Of("avc_header") \cup {m} /\ made'[m] = z
    <3>1. z.tag.kind = "avc_header"
      BY <1>4, <1>6
    <3>2. /\ Of("avc_header")' = IF z.tag.kind = "avc_header" THEN Of("avc_header") \cup {m}
                                 ELSE Of("avc_header")
          /\ made'[m] = z
      BY <1>6, <1>16, OfNext
    <3> QED BY <3>1, <3>2
  <2>2. \A j \in Of("avc_header")' : j <= m
    BY <1>11, <1>16, <2>1, OfKept, Lengths
  <2> QED BY <1>1, <1>4, <1>6, <2>1, <2>2 DEF HeaderKnown
<1>18. ConfigKept'
  <2>1. NotPending
    BY <1>1, NothingPending DEF RawParts
  <2> QED BY <1>1, <1>11, <1>13, <2>1, ConfigUntouched DEF RawParts
<1>19. FramesFollowTheirSets'
  BY <1>11, <1>13, NoFrameFollows DEF RawParts
<1>20. EachFrameOnce'
  <2>1. \A y \in Made : made' = Append(made, y) /\ y.tag.kind = "avc" => y.at = Len(fed) + 1
    BY <1>6, <1>12
  <2>2. ASSUME ~ok PROVE \E n \in Nat : n = Len(fed) + 1 /\ Shows(n)'
    <3>1. PICK n \in Nat : n = Len(fed) + 1
      BY Lengths
    <3>2. made'[m] = z /\ m \in DOMAIN made'
      BY <1>6, <1>16, Lengths
    <3>3. Failed(n)'
      BY <1>6, <2>2, <3>1, <3>2 DEF Failed
    <3> QED BY <3>1, <3>3 DEF Shows
  <2> QED BY <1>10, <1>11, <2>1, <2>2, OnceKept DEF RawParts
<1> QED BY <1>9, <1>14, <1>15, <1>17, <1>18, <1>19, <1>20 DEF RawParts

(* A frame is made behind the last header, which has the sets of the       *)
(* Context: those that were given last.                                    *)
LEMMA WriteIpbFrameKeeps ==
  ASSUME RawTypes, RawParts, WriteIpbFrame
  PROVE  RawTypes' /\ RawParts'
<1> DEFINE x == Head(raw_stream)
<1>1. /\ writer = "video" /\ Piece.nut \in Shown /\ ~Changed /\ h264_sps_pps_sent
      /\ UNCHANGED <<avcVars, aac_specific_config>>
      /\ Make(AvcFrame(Piece), Done)
  BY DEF WriteIpbFrame
<1>2. x \in Looked /\ x.piece \in Nalus /\ x.piece.nut \in Shown
  BY <1>1, InHand DEF RawTypes, Piece
<1>3. NoSet(x)
  BY <1>2 DEF NoSet, Shown
<1>4. AvcFrame(Piece) \in Tags /\ AvcFrame(Piece).kind = "avc"
  BY DEF AvcFrame, Tags
<1>5. PICK ok \in BOOLEAN :
        /\ made' = Append(made, [tag |-> AvcFrame(Piece), at |-> Len(fed) + 1, ok |-> ok])
        /\ IF ok THEN Done ELSE Leaves({"stopped", "idle"})
  BY <1>1 DEF Make
<1>6. PICK z \in Made : z.tag = AvcFrame(Piece) /\ z.at = Len(fed) + 1 /\ z.ok = ok
                        /\ made' = Append(made, z)
  BY <1>4, <1>5, MakeIs
<1>7. StreamType'
  BY <1>1, <1>5, DoneType, LeavesType DEF RawTypes
<1>8. made' \in Seq(Made)
  BY <1>6, Lengths
<1>9. RawTypes'
  BY <1>1, <1>7, <1>8 DEF RawTypes, ContextType, avcVars
<1>10. fed' = Append(fed, x)
  BY <1>5 DEF Done, Leaves
<1> HIDE DEF x
<1>11. Grows
  BY <1>2, <1>6, <1>10 DEF Grows
<1>12. \A y \in Made : made' = Append(made, y) => y = z
  BY <1>6, OneMade
<1>13. \A kind : kind # "avc" => MakesNo(kind)
  BY <1>4, <1>6, <1>12 DEF MakesNo
<1>14. PICK n \in Nat : n = Len(fed) + 1
  BY Lengths
<1>15. PICK m \in Nat : m = Len(made) + 1
  BY Lengths
<1>16. fed' \in Seq(Looked) /\ Len(fed') = n /\ fed'[n] = x
  BY <1>2, <1>10, <1>14, Lengths
<1>17. Len(made') = m /\ DOMAIN made' = 1..m /\ made'[m] = z
  BY <1>6, <1>15, Lengths
<1>18. InOrder'
  BY <1>6, <1>11, <1>12, <1>14, <1>16, OrderKept DEF RawParts
<1>19. SetsKept'
  BY <1>1, <1>2, <1>3, <1>10, <1>11, SetsUntouched DEF RawParts, avcVars
<1>20. HeaderKnown'
  BY <1>1, <1>11, <1>13, HeaderUntouched DEF RawParts
<1>21. ConfigKept'
  <2>1. NotPending
    BY <1>1, NothingPending DEF RawParts
  <2> QED BY <1>1, <1>11, <1>13, <2>1, ConfigUntouched DEF RawParts
<1>22. EachFrameOnce'
  <2>1. \A y \in Made : made' = Append(made, y) /\ y.tag.kind = "avc" => y.at = Len(fed) + 1
    BY <1>6, <1>12
  <2>2. m \in Of("avc")'
    BY <1>4, <1>6, <1>15, <1>17 DEF Of
  <2>3. Shows(n)'
    BY <1>6, <1>14, <1>17, <2>2 DEF Shows
  <2> QED BY <1>11, <1>14, <2>1, <2>3, OnceKept DEF RawParts
<1>23. FramesFollowTheirSets'
  <2>1. PICK h \in Of("avc_header") :
          /\ \A j \in Of("avc_header") : j <= h
          /\ h264_sps # EmptySet /\ made[h].tag.sps = h264_sps
          /\ made[h].tag.pps = h264_pps
    BY <1>1 DEF RawParts, HeaderKnown, Changed
  <2>2. Of("avc_header")' = Of("avc_header")
    <3>1. z.tag.kind # "avc_header"
      BY <1>4, <1>6
    <3>2. Of("avc_header")' = IF z.tag.kind = "avc_header" THEN Of("avc_header") \cup {m}
                              ELSE Of("avc_header")
      BY <1>6, <1>15, OfNext
    <3> QED BY <3>1, <3>2
  <2>3. KindOf(made', "avc_header") = Of("avc_header") /\ Of("avc_header") \subseteq 1..Len(made)
    BY <1>11, <2>2, OfKept DEF Of, KindOf
  <2>4. h \in 1..Len(made) /\ h \in Nat /\ h > 0 /\ h < m
    BY <1>15, <2>3, Lengths
  <2>5. LastBefore(made', "avc_header", m) = h
    BY <1>8, <2>1, <2>3, <2>4, BeforeLast
  <2>6. made'[h] = made[h]
    BY <1>11, <2>4, GrowsOn
  <2>7. LastOf(fed, "sps", n) \in Nalus
    BY <1>14, Lengths, LastOfOne
  <2>8. h264_sps = SpsOf(LastOf(fed, "sps", n)) /\ h264_pps = LastOf(fed, "pps", n)
    BY <1>14 DEF RawParts, SetsKept
  <2>9. h264_sps = LastOf(fed, "sps", n)
    BY <2>1, <2>8 DEF SpsOf
  <2>10. \A nut : LastOf(fed', nut, n) = LastOf(fed, nut, n)
    <3>1. /\ fed \in Seq(Looked) /\ Len(fed) <= Len(fed') /\ n <= Len(fed) + 1
          /\ \A j \in 1..Len(fed) : fed'[j] = fed[j]
      BY <1>11, <1>14, GrowsOn, Lengths
    <3> QED BY <1>16, <3>1, LastOfKept
  <2>11. /\ LastBefore(made', "avc_header", m) > 0
         /\ made'[LastBefore(made', "avc_header", m)].tag.sps = LastOf(fed', "sps", made'[m].at)
         /\ made'[LastBefore(made', "avc_header", m)].tag.pps = LastOf(fed', "pps", made'[m].at)
    BY <1>6, <1>14, <1>17, <2>1, <2>4, <2>5, <2>6, <2>8, <2>9, <2>10
  <2>12. KindOf(made', "avc") = Of("avc") \cup {m}
    <3>1. Of("avc")' = Of("avc") \cup {m}
      <4>1. z.tag.kind = "avc"
        BY <1>4, <1>6
      <4>2. Of("avc")' = IF z.tag.kind = "avc" THEN Of("avc") \cup {m} ELSE Of("avc")
        BY <1>6, <1>15, OfNext
      <4> QED BY <4>1, <4>2
    <3> QED BY <3>1 DEF Of, KindOf
  <2>13. \A i \in Of("avc") :
           LET b == LastBefore(made', "avc_header", i) IN
           /\ b > 0
           /\ made'[b].tag.sps = LastOf(fed', "sps", made'[i].at)
           /\ made'[b].tag.pps = LastOf(fed', "pps", made'[i].at)
    BY <1>11, FollowKept DEF RawParts
  <2>14. Follows(fed', made')
    BY <2>11, <2>12, <2>13 DEF Follows
  <2> QED BY <1>11, <2>14, FollowsIs
<1> QED BY <1>9, <1>18, <1>19, <1>20, <1>21, <1>22, <1>23 DEF RawParts

-----------------------------------------------------------------------------
(* Audio: its pieces are no sets and no frames that are shown.             *)
LEMMA AudioInHand ==
  ASSUME RawTypes, writer = "audio"
  PROVE  LET x == Head(raw_stream) IN
         /\ x \in Looked /\ x.piece \in Sounds /\ x.piece = Piece /\ x.rate = Rate /\ x.rate \in Nat
         /\ NoSet(x)
         /\ fed' = Append(fed, x) => \E n \in Nat : n = Len(fed) + 1 /\ fed'[n] = x /\ Shows(n)'
<1> DEFINE x == Head(raw_stream)
<1>1. x \in Looked /\ x.piece \in Sounds /\ x.piece = Piece /\ x.rate = Rate /\ x.rate \in Nat
  BY InHand DEF RawTypes, Piece, Rate
<1>2. "nut" \notin DOMAIN x.piece
  BY <1>1, PieceKinds
<1>3. NoSet(x)
  BY <1>2 DEF NoSet
<1>4. ASSUME fed' = Append(fed, x)
      PROVE  \E n \in Nat : n = Len(fed) + 1 /\ fed'[n] = x /\ Shows(n)'
  <2>1. PICK n \in Nat : n = Len(fed) + 1
    BY Lengths
  <2>2. fed'[n] = x
    <3>1. fed \in Seq(Looked)
      BY Lengths
    <3> HIDE DEF x
    <3> QED BY <1>1, <1>4, <2>1, <3>1
  <2>3. n \notin Fed(Shown)'
    BY <1>2, <2>2 DEF Fed
  <2> QED BY <2>1, <2>2, <2>3 DEF Shows
<1> QED BY <1>1, <1>3, <1>4

(* The process ends: AdtsAsserts.                                          *)
LEMMA AdtsAssertsKeeps ==
  ASSUME RawTypes, RawParts, AdtsAsserts
  PROVE  RawTypes' /\ RawParts'
<1>1. /\ writer = "audio" /\ writer' = "aborted" /\ ~IsFrame
      /\ UNCHANGED <<raw_stream, avcVars, aac_specific_config, fed, made>>
  BY DEF AdtsAsserts, IsFrame
<1>2. StreamType'
  BY <1>1, AbortType DEF RawTypes
<1>3. RawParts'
  BY <1>1, QuietStep, NothingPending DEF RawParts
<1> QED BY <1>1, <1>2, <1>3 DEF RawTypes, ContextType, avcVars

(* A frame that is refused makes nothing.                                  *)
LEMMA AdtsRefusesKeeps ==
  ASSUME RawTypes, RawParts, AdtsRefuses
  PROVE  RawTypes' /\ RawParts'
<1> DEFINE x == Head(raw_stream)
<1>1. /\ writer = "audio" /\ (~IsFrame \/ aac_specific_config = EmptyConfig)
      /\ Leaves({"stopped", "idle"})
      /\ UNCHANGED <<avcVars, aac_specific_config, made>>
  BY DEF AdtsRefuses, IsFrame
<1>2. StreamType'
  BY <1>1, LeavesType DEF RawTypes
<1>3. RawTypes'
  BY <1>1, <1>2 DEF RawTypes, ContextType, avcVars
<1>4. fed' = Append(fed, x)
  BY <1>1 DEF Leaves
<1>5. /\ x \in Looked /\ NoSet(x)
      /\ \E n \in Nat : n = Len(fed) + 1 /\ Shows(n)'
  BY <1>1, <1>4, AudioInHand
<1> HIDE DEF x
<1>6. RawParts'
  BY <1>1, <1>4, <1>5, QuietStep, NothingPending DEF RawParts
<1> QED BY <1>3, <1>6

(* A step that makes a tag of audio.                                       *)
LEMMA AudioStep ==
  ASSUME RawTypes, RawParts, writer = "audio", UNCHANGED avcVars,
         NEW z \in Made, z.at = Len(fed) + 1, z.tag.kind \in {"aac_header", "adts", "other"},
         made' = Append(made, z),
         \/ fed' = fed /\ z.tag.kind = "aac_header"
         \/ fed' = Append(fed, Head(raw_stream)),
         ConfigKept'
  PROVE  RawParts'
<1> DEFINE x == Head(raw_stream)
<1>1. /\ x \in Looked /\ NoSet(x)
      /\ fed' = Append(fed, x) => \E n \in Nat : n = Len(fed) + 1 /\ Shows(n)'
  BY AudioInHand
<1>2. fed' = fed \/ fed' = Append(fed, x)
  OBVIOUS
<1>3. z.tag.kind \in Frame => fed' = Append(fed, x)
  BY DEF Frame
<1> HIDE DEF x
<1>4. Grows
  BY <1>1, <1>2 DEF Grows
<1>5. \A y \in Made : made' = Append(made, y) => y = z
  BY OneMade
<1>6. MakesNo("avc") /\ MakesNo("avc_header")
  BY <1>5 DEF MakesNo
<1>7. fed' = Append(fed, x) => Len(fed') = Len(fed) + 1
  BY <1>1, Lengths
<1>8. InOrder'
  BY <1>3, <1>4, <1>5, <1>7, OrderKept DEF RawParts
<1>9. SetsKept'
  BY <1>1, <1>2, <1>4, SetsUntouched DEF RawParts, avcVars
<1>10. HeaderKnown'
  BY <1>4, <1>6, HeaderUntouched DEF RawParts
<1>11. FramesFollowTheirSets'
  BY <1>4, <1>6, NoFrameFollows DEF RawParts
<1>12. EachFrameOnce'
  BY <1>1, <1>2, <1>4, <1>5, OnceKept DEF RawParts
<1> QED BY <1>8, <1>9, <1>10, <1>11, <1>12 DEF RawParts

(* The configuration of an ADTS frame is an object.                        *)
LEMMA ConfigIn ==
  ASSUME NEW f \in Sounds, NEW rate \in Nat
  PROVE  Config(f, rate) \in Configs /\ Config(f, rate) # EmptyConfig
<1>1. Index(f.index, rate) \in Nat
  BY DEF Index, Sounds
<1>2. /\ f.object \in {"main", "lc", "ssr", "reserved"} /\ f.channels \in Nat
  BY DEF Sounds
<1> QED BY <1>1, <1>2 DEF Config, Configs, EmptyConfig

(* What the Context holds at first has its type.                           *)
LEMMA EmptyIn == EmptyConfig \in Configs /\ EmptySet \in Nalus
BY DEF EmptyConfig, Configs, EmptySet, Nalus

(* The one header is made for the first configuration.                     *)
LEMMA WriteAacHeaderKeeps ==
  ASSUME RawTypes, RawParts, WriteAacHeader
  PROVE  RawTypes' /\ RawParts'
<1> DEFINE x == Head(raw_stream)
           config == Config(Piece, Rate)
<1>1. /\ writer = "audio" /\ IsFrame /\ aac_specific_config = EmptyConfig
      /\ aac_specific_config' = config /\ UNCHANGED avcVars
      /\ Make(AacHeader(Piece, Rate), UNCHANGED <<writer, raw_stream, fed>>)
  BY DEF WriteAacHeader, NeedsHeader
<1>2. x \in Looked /\ x.piece \in Sounds /\ x.piece = Piece /\ x.rate = Rate /\ x.rate \in Nat
  BY <1>1, AudioInHand
<1>3. config \in Configs /\ config # EmptyConfig
  BY <1>2, ConfigIn
<1>4. /\ AacHeader(Piece, Rate) \in Tags /\ AacHeader(Piece, Rate).kind = "aac_header"
      /\ AacHeader(Piece, Rate).config = config
  BY <1>3 DEF AacHeader, Tags
<1>5. PICK ok \in BOOLEAN :
        /\ made' = Append(made, [tag |-> AacHeader(Piece, Rate), at |-> Len(fed) + 1, ok |-> ok])
        /\ IF ok THEN UNCHANGED <<writer, raw_stream, fed>> ELSE Leaves({"stopped", "idle"})
  BY <1>1 DEF Make
<1>6. PICK z \in Made : /\ z.tag = AacHeader(Piece, Rate) /\ z.at = Len(fed) + 1
                        /\ made' = Append(made, z)
  BY <1>4, <1>5, MakeIs
<1>7. StreamType'
  BY <1>1, <1>5, LeavesType, SameType DEF RawTypes
<1>8. made' \in Seq(Made)
  BY <1>6, Lengths
<1>9. RawTypes'
  BY <1>1, <1>3, <1>7, <1>8 DEF RawTypes, ContextType, avcVars
<1>10. \/ UNCHANGED <<writer, raw_stream, fed>>
       \/ fed' = Append(fed, x)
  BY <1>5 DEF Leaves
<1>11. z.tag.kind = "aac_header" /\ z.tag.config = config
  BY <1>4, <1>6
<1>12. Piece.sound = "adts"
  BY <1>1 DEF IsFrame
<1>13. PICK n \in Nat : n = Len(fed) + 1
  BY Lengths
<1>14. fed' = Append(fed, x) => fed'[n] = x /\ Len(fed') = n
  BY <1>2, <1>13, Lengths
<1>15. PICK m \in Nat : m = Len(made) + 1
  BY Lengths
<1>16. Of("adts")' = Of("adts") /\ Of("aac_header") = {}
  <2>1. Of("adts")' = IF z.tag.kind = "adts" THEN Of("adts") \cup {m} ELSE Of("adts")
    BY <1>6, <1>15, OfNext
  <2> QED BY <1>1, <1>11, <2>1 DEF RawParts, ConfigKept
<1>17. Of("aac_header")' = {m} /\ made'[m] = z
  <2>1. /\ Of("aac_header")' = IF z.tag.kind = "aac_header" THEN Of("aac_header") \cup {m}
                               ELSE Of("aac_header")
        /\ made'[m] = z
    BY <1>6, <1>15, OfNext
  <2> QED BY <1>11, <1>16, <2>1
<1>18. Of("adts") = {}
  BY <1>16 DEF RawParts, ConfigKept
<1>19. IF made'[m].at <= Len(fed')
       THEN IsAdts(made[m].at)' /\ ConfigOf(made[m].at)' = aac_specific_config'
       ELSE writer' = "audio" /\ IsFrame' /\ Config(Piece, Rate)' = aac_specific_config'
  <2>1. CASE UNCHANGED <<writer, raw_stream, fed>>
    <3>1. Piece' = Piece /\ Rate' = Rate
      BY <2>1 DEF Piece, Rate
    <3>2. Config(Piece, Rate)' = config /\ IsFrame'
      BY <1>1, <3>1 DEF Config, Index, IsFrame
    <3> QED BY <1>1, <1>6, <1>13, <1>17, <2>1, <3>2, Lengths
  <2>2. CASE fed' = Append(fed, x)
    <3>1. IsAdts(n)' /\ ConfigOf(n)' = config
      <4>1. "sound" \in DOMAIN x.piece
        BY <1>2, PieceKinds
      <4> QED BY <1>2, <1>12, <1>14, <2>2, <4>1 DEF IsAdts, ConfigOf, Config, Index
    <3>2. made'[m].at = n
      BY <1>6, <1>13, <1>17
    <3>3. (IsAdts(made[m].at)' <=> IsAdts(n)') /\ ConfigOf(made[m].at)' = ConfigOf(n)'
      BY <3>2, ConfigSame
    <3> QED BY <1>1, <1>13, <1>14, <2>2, <3>1, <3>2, <3>3
  <2> QED BY <1>10, <2>1, <2>2
<1> HIDE DEF x, config
<1>20. ConfigKept'
  BY <1>1, <1>3, <1>11, <1>16, <1>17, <1>18, <1>19 DEF ConfigKept
<1>21. RawParts'
  BY <1>1, <1>6, <1>10, <1>11, <1>20, AudioStep DEF x
<1> QED BY <1>9, <1>21

(* A frame of audio is made: of ADTS behind the header, which was kept of  *)
(* this frame or of an earlier one; of another codec without.              *)
LEMMA AdtsFrameKeepsConfig ==
  ASSUME RawTypes, InOrder, ConfigKept, Grows, writer = "audio", Piece \in Sounds,
         IsFrame, aac_specific_config # EmptyConfig, UNCHANGED aac_specific_config,
         NEW z \in Made, made' = Append(made, z), z.at = Len(fed) + 1,
         z.tag.kind = "adts", z.tag.config = Config(Piece, Rate),
         fed' = Append(fed, Head(raw_stream)), Head(raw_stream) \in Looked
  PROVE  ConfigKept'
<1> DEFINE x == Head(raw_stream)
<1>1. PICK n \in Nat : n = Len(fed) + 1
  BY Lengths
<1>2. PICK m \in Nat : m = Len(made) + 1
  BY Lengths
<1>3. x.piece = Piece /\ x.rate = Rate
  BY DEF Piece, Rate
<1>4. fed'[n] = x /\ Len(fed') = n
  <2>1. fed \in Seq(Looked) /\ x \in Looked /\ fed' = Append(fed, x)
    BY Lengths
  <2> HIDE DEF x
  <2> QED BY <1>1, <2>1
<1>5. IsAdts(n)' /\ ConfigOf(n)' = Config(Piece, Rate)
  <2>1. "sound" \in DOMAIN x.piece /\ x.piece.sound = "adts"
    BY <1>3, PieceKinds DEF IsFrame
  <2> QED BY <1>3, <1>4, <2>1 DEF IsAdts, ConfigOf, Config, Index
<1>6. Of("adts")' = Of("adts") \cup {m} /\ made'[m] = z
  <2>1. /\ Of("adts")' = IF z.tag.kind = "adts" THEN Of("adts") \cup {m} ELSE Of("adts")
        /\ made'[m] = z
    BY <1>2, OfNext
  <2> QED BY <2>1
<1>7. Of("aac_header")' = Of("aac_header")
  <2>1. Of("aac_header")' = IF z.tag.kind = "aac_header" THEN Of("aac_header") \cup {m}
                            ELSE Of("aac_header")
    BY <1>2, OfNext
  <2> QED BY <2>1
<1>8. PICK h \in Of("aac_header") :
         /\ Of("aac_header") = {h}
         /\ made[h].tag.config = aac_specific_config
         /\ IF made[h].at <= Len(fed)
            THEN IsAdts(made[h].at) /\ ConfigOf(made[h].at) = aac_specific_config
            ELSE Config(Piece, Rate) = aac_specific_config
  BY DEF ConfigKept
<1>9. h \in DOMAIN made /\ h \in Nat /\ h < m /\ made'[h] = made[h]
  <2>1. h \in 1..Len(made)
    BY Lengths DEF Of
  <2> QED BY <1>2, <2>1, Lengths, GrowsOn
<1>10. made'[h].at <= Len(fed') /\ IsAdts(made[h].at)' /\ ConfigOf(made[h].at)' = aac_specific_config'
  <2>1. CASE made[h].at <= Len(fed)
    BY <1>8, <2>1, AacHeaderKept
  <2>2. CASE ~(made[h].at <= Len(fed))
    <3>1. made[h].at = n
      <4>1. made[h].at \in Nat /\ made[h].at <= Len(fed) + 1
        BY <1>9, AtIn
      <4> QED BY <1>1, <2>2, <4>1, Lengths
    <3>2. made'[h].at = n
      BY <1>9, <3>1
    <3>3. (IsAdts(made[h].at)' <=> IsAdts(n)') /\ ConfigOf(made[h].at)' = ConfigOf(n)'
      BY <3>2, ConfigSame
    <3> QED BY <1>4, <1>5, <1>8, <2>2, <3>2, <3>3
  <2> QED BY <2>1, <2>2
<1>11. /\ IsAdts(made[m].at)' /\ made'[m].tag.config = ConfigOf(made[m].at)'
       /\ \E g \in Of("aac_header")' : g < m
  <2>1. made'[m].at = n
    BY <1>1, <1>6
  <2>2. (IsAdts(made[m].at)' <=> IsAdts(n)') /\ ConfigOf(made[m].at)' = ConfigOf(n)'
    BY <2>1, ConfigSame
  <2> QED BY <1>5, <1>6, <1>7, <1>9, <2>2
<1>12. \A i \in Of("adts") :
         /\ IsAdts(made[i].at)' /\ made'[i].tag.config = ConfigOf(made[i].at)'
         /\ \E g \in Of("aac_header")' : g < i
  BY AdtsKept
<1>13. \A i \in Of("adts")' :
         /\ IsAdts(made[i].at)' /\ made'[i].tag.config = ConfigOf(made[i].at)'
         /\ \E g \in Of("aac_header")' : g < i
  BY <1>6, <1>11, <1>12
<1>14. Of("aac_header")' = {h} /\ made'[h].tag.config = aac_specific_config'
  BY <1>7, <1>8, <1>9
<1> HIDE DEF x
<1> QED BY <1>10, <1>13, <1>14 DEF ConfigKept

(* A frame of either kind is made of the piece in hand.                    *)
LEMMA WriteAudioFrameKeeps ==
  ASSUME RawTypes, RawParts, WriteAudioFrame
  PROVE  RawTypes' /\ RawParts'
<1> DEFINE x == Head(raw_stream)
<1>1. /\ writer = "audio" /\ UNCHANGED <<avcVars, aac_specific_config>>
      /\ \/ IsFrame /\ aac_specific_config # EmptyConfig
         \/ Piece.sound = "other"
      /\ Make(AudioFrame(Piece, Rate), Done)
  BY DEF WriteAudioFrame, NeedsHeader
<1>2. x \in Looked /\ Piece \in Sounds /\ Rate \in Nat
  BY <1>1, AudioInHand
<1>3. /\ AudioFrame(Piece, Rate) \in Tags /\ AudioFrame(Piece, Rate).kind = Piece.sound
      /\ Piece.sound = "adts" => AudioFrame(Piece, Rate).config = Config(Piece, Rate)
      /\ Piece.sound \in {"adts", "other"}
  <2>1. Config(Piece, Rate) \in Configs
    BY <1>2, ConfigIn
  <2>2. Piece.sound \in {"adts", "other"}
    BY <1>1 DEF IsFrame
  <2> QED BY <2>1, <2>2, EmptyIn DEF AudioFrame, Tags
<1>4. PICK ok \in BOOLEAN :
        /\ made' = Append(made, [tag |-> AudioFrame(Piece, Rate), at |-> Len(fed) + 1, ok |-> ok])
        /\ IF ok THEN Done ELSE Leaves({"stopped", "idle"})
  BY <1>1 DEF Make
<1>5. PICK z \in Made : /\ z.tag = AudioFrame(Piece, Rate) /\ z.at = Len(fed) + 1
                        /\ made' = Append(made, z)
  BY <1>3, <1>4, MakeIs
<1>6. StreamType'
  BY <1>1, <1>4, DoneType, LeavesType DEF RawTypes
<1>7. made' \in Seq(Made)
  BY <1>5, Lengths
<1>8. RawTypes'
  BY <1>1, <1>6, <1>7 DEF RawTypes, ContextType, avcVars
<1>9. fed' = Append(fed, x)
  BY <1>4 DEF Done, Leaves
<1>10. z.tag.kind = Piece.sound /\ (Piece.sound = "adts" => z.tag.config = Config(Piece, Rate))
  BY <1>3, <1>5
<1> HIDE DEF x
<1>11. Grows
  BY <1>2, <1>5, <1>9 DEF Grows
<1>12. ConfigKept'
  <2>1. CASE IsFrame /\ aac_specific_config # EmptyConfig
    <3>1. z.tag.kind = "adts" /\ z.tag.config = Config(Piece, Rate)
      BY <1>10, <2>1 DEF IsFrame
    <3> QED BY <1>1, <1>2, <1>5, <1>9, <1>11, <2>1, <3>1, AdtsFrameKeepsConfig DEF RawParts, x
  <2>2. CASE Piece.sound = "other"
    <3>1. NotPending
      BY <2>2, NothingPending DEF RawParts, IsFrame
    <3>2. \A y \in Made : made' = Append(made, y) => y = z
      BY <1>5, OneMade
    <3>3. MakesNo("aac_header") /\ MakesNo("adts")
      BY <1>10, <2>2, <3>2 DEF MakesNo
    <3> QED BY <1>1, <1>11, <3>1, <3>3, ConfigUntouched DEF RawParts
  <2> QED BY <1>1, <2>1, <2>2
<1>13. z.tag.kind \in {"aac_header", "adts", "other"}
  BY <1>3, <1>10
<1>14. RawParts'
  BY <1>1, <1>5, <1>9, <1>12, <1>13, AudioStep DEF x
<1> QED BY <1>8, <1>14

-----------------------------------------------------------------------------
(* The process ends at an assertion in two steps alone.                    *)
LEMMA AbortsKept ==
  ASSUME RawInv, [RawNext]_rawVars
  PROVE  AbortsForBadInput'
<1>1. CASE UNCHANGED rawVars
  <2>1. AbortsForBadInput
    BY DEF RawInv
  <2> QED BY <1>1, <2>1
          DEF rawVars, AbortsForBadInput, Piece, HasSps, LastGiven, Fed, PpsDemux, EmptySet
<1>2. CASE MuxWithoutSps
  <2>1. /\ writer = "video" /\ Changed /\ h264_sps = EmptySet
        /\ UNCHANGED <<raw_stream, fed>>
    BY <1>2 DEF MuxWithoutSps, AsksForHeader
  <2>2. Piece \in Nalus /\ Piece' = Piece
    BY <2>1, InHand DEF RawInv, RawTypes, Piece
  <2>3. PICK n \in Nat : n = Len(fed) + 1
    BY Lengths DEF RawInv
  <2>4. ~HasSps(n)
    BY <2>1, <2>3, NoSpsGiven DEF RawInv, RawParts
  <2>5. ~HasSps(Len(fed) + 1)'
    BY <2>1, <2>3, <2>4 DEF HasSps, LastGiven, Fed, PpsDemux, EmptySet
  <2>6. Fed({"sps", "pps"})' = Fed({"sps", "pps"}) /\ Fed({"sps", "pps"}) # {}
    BY <2>1 DEF RawInv, RawParts, SetsKept, Changed, Fed
  <2>7. "nut" \in DOMAIN Piece'
    BY <2>2, PieceKinds
  <2> QED BY <2>5, <2>6, <2>7 DEF AbortsForBadInput
<1>3. CASE AdtsAsserts
  <2>1. writer = "audio" /\ Piece.length = "below" /\ UNCHANGED raw_stream
    BY <1>3 DEF AdtsAsserts
  <2>2. Piece \in Sounds /\ Piece' = Piece
    BY <2>1, InHand DEF RawInv, RawTypes, Piece
  <2>3. "nut" \notin DOMAIN Piece'
    BY <2>2, PieceKinds
  <2> QED BY <2>1, <2>2, <2>3 DEF AbortsForBadInput
<1>4. writer' # "aborted" => AbortsForBadInput'
  BY DEF AbortsForBadInput
<1>5. ASSUME NEW b \in RawBuffers, WriteRaw(b) PROVE writer' # "aborted"
  BY <1>5, RawAssumption DEF WriteRaw
<1>6. Done /\ writer # "aborted" => writer' # "aborted"
  BY DEF Done
<1>7. Leaves({"stopped", "idle"}) => writer' # "aborted"
  BY DEF Leaves
<1>8. NotPrefixed \/ TakeSps \/ TakePps \/ Ignore \/ DropFrame => writer' # "aborted"
  BY <1>6, <1>7 DEF NotPrefixed, TakeSps, TakePps, Ignore, DropFrame
<1>9. WriteSpsPps \/ WriteIpbFrame => writer' # "aborted"
  BY <1>6, <1>7 DEF WriteSpsPps, AsksForHeader, WriteIpbFrame, Make
<1>10. AdtsRefuses \/ WriteAacHeader \/ WriteAudioFrame => writer' # "aborted"
  BY <1>6, <1>7 DEF AdtsRefuses, WriteAacHeader, WriteAudioFrame, Make
<1> QED BY <1>1, <1>2, <1>3, <1>4, <1>5, <1>8, <1>9, <1>10 DEF RawNext

(* Every step keeps the invariant.                                         *)
LEMMA RawStep ==
  ASSUME RawInv, [RawNext]_rawVars
  PROVE  RawInv'
<1>1. RawTypes /\ RawParts
  BY DEF RawInv
<1>2. CASE UNCHANGED rawVars
  <2>1. UNCHANGED <<writer, raw_stream, fed, avcVars, aac_specific_config, made>>
    BY <1>2 DEF rawVars
  <2>2. RawTypes'
    BY <1>1, <2>1, SameType DEF RawTypes, ContextType, avcVars
  <2>3. InOrder' /\ SetsKept' /\ HeaderKnown'
    BY <1>1, <2>1
       DEF RawParts, InOrder, Frame, SetsKept, HeaderKnown, SpsOf, LastOf, Earlier, Typed, EmptySet,
           Of, Fed, avcVars
  <2>4. ConfigKept'
    BY <1>1, <2>1
       DEF RawParts, ConfigKept, Of, IsAdts, ConfigOf, IsFrame, Piece, Rate, Config, Index, EmptyConfig
  <2>5. FramesFollowTheirSets'
    <3>1. Grows
      BY <2>1 DEF Grows
    <3>2. Follows(fed', made') <=> Follows(fed, made)
      BY <2>1
    <3> QED BY <1>1, <3>1, <3>2, FollowsIs DEF RawParts
  <2>6. EachFrameOnce'
    BY <1>1, <2>1
       DEF RawParts, EachFrameOnce, Of, LastGiven, Fed, Failed, HasSps, PpsDemux, EmptySet, Shown
  <2> QED BY <2>2, <2>3, <2>4, <2>5, <2>6, AbortsKept DEF RawInv, RawParts
<1>3. CASE RawNext
  <2>1. ASSUME NEW b \in RawBuffers, WriteRaw(b) PROVE RawTypes' /\ RawParts'
    BY <1>1, <2>1, WriteRawKeeps
  <2>2. NotPrefixed \/ Ignore \/ DropFrame => RawTypes' /\ RawParts'
    BY <1>1, NotPrefixedKeeps, DropFrameKeeps
  <2>3. TakeSps \/ TakePps => RawTypes' /\ RawParts'
    BY <1>1, TakeSpsKeeps, TakePpsKeeps
  <2>4. WriteSpsPps \/ MuxWithoutSps \/ WriteIpbFrame => RawTypes' /\ RawParts'
    BY <1>1, WriteSpsPpsKeeps, MuxWithoutSpsKeeps, WriteIpbFrameKeeps
  <2>5. AdtsAsserts \/ AdtsRefuses => RawTypes' /\ RawParts'
    BY <1>1, AdtsAssertsKeeps, AdtsRefusesKeeps
  <2>6. WriteAacHeader \/ WriteAudioFrame => RawTypes' /\ RawParts'
    BY <1>1, WriteAacHeaderKeeps, WriteAudioFrameKeeps
  <2>7. RawTypes' /\ RawParts'
    BY <1>3, <2>1, <2>2, <2>3, <2>4, <2>5, <2>6 DEF RawNext
  <2> QED BY <2>7, AbortsKept DEF RawInv
<1> QED BY <1>2, <1>3

(* The invariant holds at first.                                           *)
LEMMA RawStart ==
  ASSUME RawInit
  PROVE  RawInv
<1>1. RawTypes
  <2>1. <<>> \in Seq(Looked) /\ <<>> \in Seq(Made)
    OBVIOUS
  <2>2. StreamType
    BY <2>1 DEF RawInit, StreamType
  <2>3. ContextType
    BY EmptyIn DEF RawInit, ContextType
  <2> QED BY <2>1, <2>2, <2>3 DEF RawInit, RawTypes
<1>2. \A kind : Of(kind) = {}
  BY DEF RawInit, Of
<1>3. \A nuts : Fed(nuts) = {}
  BY DEF RawInit, Fed
<1>4. \A nut, k : LastOf(fed, nut, k) = EmptySet
  BY DEF RawInit, LastOf, Earlier, Typed
<1>5. InOrder /\ HeaderKnown
  BY <1>2 DEF RawInit, InOrder, HeaderKnown
<1>6. SetsKept
  BY <1>4 DEF RawInit, SetsKept, SpsOf, EmptySet
<1>7. ConfigKept /\ FramesFollowTheirSets /\ EachFrameOnce
  BY <1>2, <1>3 DEF RawInit, ConfigKept, FramesFollowTheirSets, EachFrameOnce
<1>8. AbortsForBadInput
  BY DEF RawInit, AbortsForBadInput
<1> QED BY <1>1, <1>5, <1>6, <1>7, <1>8 DEF RawInv, RawParts

(* There is one AAC header; a frame of another configuration came behind a *)
(* change of format.                                                       *)
LEMMA AacHeaderTells ==
  ASSUME RawInv
  PROVE  AacFollowsItsConfig
<1>1. RawTypes /\ InOrder /\ ConfigKept
  BY DEF RawInv, RawParts
<1>2. Cardinality(Of("aac_header")) <= 1
  <2>1. Of("aac_header") = {} \/ \E h : Of("aac_header") = {h}
    BY <1>1 DEF ConfigKept
  <2> QED BY <2>1, FS_EmptySet, FS_Singleton
<1>3. ASSUME NEW i \in Of("adts")
      PROVE  LET h == HeaderOf("aac_header", i) IN
             /\ h > 0
             /\ made[h].tag.config = made[i].tag.config \/ \E k \in 1..made[i].at : NewFormat(k)
  <2>1. i \in DOMAIN made /\ i \in Nat /\ made[i].tag.kind = "adts"
    BY <1>1, Lengths DEF Of
  <2>2. PICK k \in 1..Len(fed) : k = made[i].at
    BY <1>1, <2>1, AtIn DEF Frame
  <2>3. IsAdts(k) /\ made[i].tag.config = ConfigOf(k)
    BY <1>1, <2>2 DEF ConfigKept
  <2>4. aac_specific_config # EmptyConfig
    BY <1>1 DEF ConfigKept
  <2>5. PICK h \in Of("aac_header") :
          /\ Of("aac_header") = {h}
          /\ made[h].tag.config = aac_specific_config
          /\ made[h].at <= Len(fed) => IsAdts(made[h].at) /\ ConfigOf(made[h].at) = aac_specific_config
    BY <1>1, <2>4 DEF ConfigKept
  <2>6. h < i /\ h \in DOMAIN made
    BY <1>1, <2>5 DEF ConfigKept, Of
  <2>7. made[h].at \in Nat /\ 1 <= made[h].at /\ made[h].at <= k
    BY <1>1, <2>1, <2>2, <2>6, AtIn DEF InOrder
  <2>8. IsAdts(made[h].at) /\ ConfigOf(made[h].at) = aac_specific_config
    BY <1>1, <2>2, <2>5, <2>7, Lengths
  <2>9. HeaderOf("aac_header", i) = h
    <3>1. KindOf(made, "aac_header") = {h} /\ made \in Seq(Made)
      BY <1>1, <2>5, Lengths DEF KindOf, Of
    <3>2. LastBefore(made, "aac_header", i) = h
      BY <2>1, <2>6, <3>1, BeforeLast
    <3> QED BY <3>2 DEF HeaderOf, LastBefore, Of, KindOf
  <2>10. h > 0
    BY <1>1, <2>6, Lengths
  <2>11. CASE ConfigOf(k) = aac_specific_config
    BY <2>3, <2>5, <2>9, <2>10, <2>11
  <2>12. CASE ConfigOf(k) # aac_specific_config
    <3>1. made[h].at # k
      BY <2>8, <2>12
    <3>2. made[h].at \in 1..(k - 1)
      BY <2>7, <3>1
    <3>3. NewFormat(k)
      BY <2>3, <2>8, <2>12, <3>2 DEF NewFormat
    <3> QED BY <2>2, <2>9, <2>10, <3>3
  <2> QED BY <2>11, <2>12
<1> QED BY <1>2, <1>3 DEF AacFollowsItsConfig

(* Whatever buffers a caller writes, of parameter sets, frames and audio,  *)
(* and whichever of its tags the connection refuses: the header made last  *)
(* before a frame has the sets that were given last before it, frames are  *)
(* made once and in order, AAC has one header, of the first format, and    *)
(* the process ends at an assertion for two kinds of input alone.          *)
THEOREM RawMakesWhatDecodes == RawSpec => []RawFramesDecodable
<1>1. RawInit => RawInv
  BY RawStart
<1>2. RawInv /\ [RawNext]_rawVars => RawInv'
  BY RawStep
<1>3. RawInv => RawFramesDecodable
  BY AacHeaderTells DEF RawInv, RawParts, RawFramesDecodable
<1> QED BY <1>1, <1>2, <1>3, PTL DEF RawSpec

-----------------------------------------------------------------------------
(* The tools: who holds the packet at each step of the loop.  What was     *)
(* freed once is freed again behind a tag of no size, by rtmp-play at the  *)
(* end of the file, or for a type that srs_rtmp_write_packet does not know.*)
OwnInv ==
    /\ plan \in Plans
    /\ pc \in {"data", "write"} => data = "owned"
    /\ pc \in {"tag", "free"} => data \in {"null", "gone", "owned"}
    /\ pc = "tag" /\ plan.tool = "rtmp" => data # "owned"
    /\ pc = "free" /\ data = "gone" => plan.tool = "play" \/ header.size <= 0
    /\ data = "twice" =>
          /\ pc \in {"end", "aborted", "round", "eos", "done"}
          /\ plan.tool = "play" \/ header.size <= 0 \/ Unknown

(* The tool reads a header, or the end of the file.                        *)
LEMMA ReadTagHeaderOwns ==
  ASSUME OwnInv, ReadTagHeader
  PROVE  OwnInv'
<1>1. pc = "tag" /\ data \in {"null", "gone", "owned"} /\ UNCHANGED plan
  BY DEF OwnInv, ReadTagHeader
<1>2. CASE pc' = (IF plan.tool = "play" THEN "free" ELSE "end") /\ UNCHANGED <<header, data>>
  BY <1>1, <1>2 DEF OwnInv
<1>3. ASSUME NEW h, header' = [type |-> h.type, size |-> h.size, time |-> h.time, data |-> <<>>],
             IF h.size <= 0 THEN pc' = "free" /\ UNCHANGED data ELSE pc' = "data" /\ data' = "owned"
      PROVE  OwnInv'
  <2>1. header'.size = h.size
    BY <1>3
  <2>2. CASE h.size <= 0
    BY <1>1, <1>3, <2>1, <2>2 DEF OwnInv
  <2>3. CASE ~(h.size <= 0)
    BY <1>1, <1>3, <2>3 DEF OwnInv
  <2> QED BY <2>2, <2>3
<1> QED BY <1>2, <1>3 DEF ReadTagHeader

(* The tool writes a tag, which frees the packet in one case and leaves it *)
(* in the others.                                                          *)
LEMMA SendTagOwns ==
  ASSUME OwnInv, SendTag
  PROVE  OwnInv'
<1>1. data = "owned" /\ plan \in Plans /\ pc = "write" /\ UNCHANGED <<plan, header>>
  BY DEF OwnInv, SendTag
<1>2. data' = IF plan.tool # "rtmp" THEN "owned" ELSE IF Unknown THEN "twice" ELSE "gone"
  BY <1>1 DEF SendTag, FreedByWrite, Freed
<1>3. Unknown' <=> Unknown
  BY <1>1 DEF Unknown
<1>4. Unknown => plan.tool = "rtmp"
  BY DEF Unknown
<1>5. \/ pc' = "tag" /\ ~Unknown
      \/ pc' = "end" /\ plan.tool = "rtmp"
      \/ pc' = "free" /\ plan.tool # "rtmp"
      \/ pc' = "aborted"
  BY DEF SendTag
<1> QED BY <1>1, <1>2, <1>3, <1>4, <1>5 DEF OwnInv

(* Every step of the tool keeps the packet in the hands it says.           *)
LEMMA OwnStep ==
  ASSUME OwnInv, [PublishNext]_publishVars
  PROVE  OwnInv'
<1>1. CASE UNCHANGED publishVars
  BY <1>1 DEF publishVars, toolVars, OwnInv, Unknown
<1>2. CASE Record /\ UNCHANGED toolVars
  BY <1>2 DEF toolVars, OwnInv, Unknown
<1>3. CASE Opens
  BY <1>3 DEF Opens, OwnInv, Unknown
<1>4. CASE StartRound
  BY <1>4 DEF StartRound, OwnInv, Unknown
<1>5. CASE InjectSei
  BY <1>5 DEF InjectSei, OwnInv, Unknown
<1>6. CASE ReadTagHeader
  BY <1>6, ReadTagHeaderOwns
<1>7. CASE ReadTagData
  BY <1>7 DEF ReadTagData, OwnInv
<1>8. CASE SendTag
  BY <1>8, SendTagOwns
<1>9. CASE PrintTag
  BY <1>9 DEF PrintTag, OwnInv, Unknown, Freed
<1>10. CASE FreeData
  BY <1>10 DEF FreeData, OwnInv, Unknown, Freed
<1>11. CASE EndFile
  BY <1>11 DEF EndFile, OwnInv, Unknown
<1>12. CASE EndListed
  BY <1>12 DEF EndListed, OwnInv, Unknown
<1>13. CASE EndPlay
  BY <1>13 DEF EndPlay, OwnInv, Unknown
<1>14. CASE SendEos
  BY <1>14 DEF SendEos, OwnInv, Unknown
<1> QED BY <1>1, <1>2, <1>3, <1>4, <1>5, <1>6, <1>7, <1>8, <1>9, <1>10, <1>11, <1>12, <1>13, <1>14
        DEF PublishNext, Tool

(* However a file was cut, whatever a short read of it left undefined and  *)
(* whichever write failed: the tool frees its packet once, but in the      *)
(* three cases, and rtmp-publish leaves none behind for the next tag.      *)
THEOREM ToolOwnsItsPacket == PublishSpec => []OwnsItsPacket
<1>1. ToolInit => OwnInv
  BY DEF ToolInit, Waits, OwnInv
<1>2. OwnInv /\ [PublishNext]_publishVars => OwnInv'
  BY OwnStep
<1>3. OwnInv => OwnsItsPacket
  BY DEF OwnInv, OwnsItsPacket
<1> QED BY <1>1, <1>2, <1>3, PTL DEF PublishSpec

-----------------------------------------------------------------------------
(* What a round of the tool sends. The file is that of the tags recorded, or    *)
(* its begin; while the round goes on, the tool is behind as many tags as it    *)
(* has sent, or at the end of the file, where it reads no more.                 *)
(* A tag as it is recorded, and a unit of the file.                        *)
FlvTags == [type : {kind.type : kind \in TagKinds}, size : Nat, time : Nat, stream : {0}]
FlvUnits ==
    [field : {"type", "size", "time", "stream"}, value : {kind.type : kind \in TagKinds} \cup Nat]
        \cup [part : {"signature", "pts"}] \cup [tag : Nat, part : Nat]

(* The file is the begin of the one that was recorded, and no tool looks   *)
(* at it before it is done.                                                *)
FileInv ==
    /\ recorded \in Seq(FlvTags) /\ flv \in Seq(FlvUnits)
    /\ recorder \in {"recording", "done"}
    /\ recorder = "recording" => pc = "waits" /\ flv = FileOf(recorded)
    /\ Len(flv) <= Len(FileOf(recorded))
    /\ \A i \in 1..Len(flv) : flv[i] = FileOf(recorded)[i]

(* How many tags the round has sent.                                       *)
Count == Len(TagsOf(rounds))
Least(a, b) == IF a <= b THEN a ELSE b

(* The file reader is behind the first n tags, or at the end of the file   *)
(* if that comes before: within the previous tag size of the last of them. *)
Behind(n) ==
    /\ n \in 0..Len(recorded) /\ TagEnd(n) - PtsUnits < Len(flv)
    /\ offset = Least(TagEnd(n), Len(flv))
Kept(k) == header.type = recorded[k].type /\ header.size = recorded[k].size
(* The header in hand is that of tag k, and the file reader is behind it.  *)
HeaderRead(k) ==
    /\ k \in 1..Len(recorded) /\ Kept(k)
    /\ offset = TagEnd(k - 1) + 4 /\ offset <= Len(flv)
(* The tag in hand is tag k, and the file reader is behind it.             *)
TagRead(k) ==
    /\ k \in 1..Len(recorded) /\ Kept(k) /\ Behind(k)
    /\ recorded[k].size > 0 /\ header.data = DataUnits(k, recorded[k].size)

(* Where the tool is in the file, for each place it is at in its loop. At  *)
(* data, a header that was cut is followed by nothing.                     *)
Placed ==
    /\ pc = "waits" => rounds = 0 /\ sent = << >> /\ ret = "ok" /\ offset = 0
    /\ pc = "round" => offset = 0 /\ ret = "ok" /\ (rounds > 0 => AllSent(rounds))
    /\ pc = "tag" => rounds > 0 /\ Behind(Count)
    /\ pc = "data" =>
          /\ rounds > 0 /\ header.size \in Int /\ header.size > 0
          /\ {"type", "size", "data"} \subseteq DOMAIN header
          /\ HeaderRead(Count + 1) \/ offset = Len(flv)
    /\ pc = "write" => rounds > 0 /\ TagRead(Count + 1)
    /\ pc \in {"free", "end"} /\ ret = "ok" => rounds > 0 /\ AllSent(rounds)
    /\ pc = "eos" => plan.tool = "rtmp" /\ plan.list = 0
    /\ pc = "done" /\ ret = "ok" /\ rounds > 0 =>
          AllSent(rounds) \/ (plan.tool = "rtmp" /\ plan.list = 0)

(* Round r has sent the first of the tags to be sent, unchanged.           *)
SentWhole(r) ==
    /\ Len(TagsOf(r)) \in 0..Len(recorded) /\ 1..Len(TagsOf(r)) \subseteq Playable
    /\ \A i \in DOMAIN TagsOf(r) :
          /\ TagsOf(r)[i].type = recorded[i].type
          /\ TagsOf(r)[i].data = DataUnits(i, recorded[i].size)

(* That is so for each round, and a round that is over has sent all of     *)
(* them.                                                                   *)
History ==
    /\ rounds \in Nat /\ sent \in Seq(Range(sent))
    /\ \A p \in Range(sent) : p.round \in 0..rounds
    /\ \A r \in 1..rounds : SentWhole(r) /\ (r < rounds => AllSent(r))

(* The invariant that is behind PlaysWhatIsWhole.                          *)
PlayInv == FileInv /\ History /\ Placed

(* The invariant that is behind NeverOversleeps: the pulse is not ahead of *)
(* the clock, and the time in hand and that of the first tag are times of  *)
(* the recording, unless the file ends in a header.                        *)
NapInv ==
    /\ clock \in Int /\ re \in Int /\ re <= clock /\ timestamp \in Nat /\ starttime \in Int
    /\ LastTime \in Nat /\ \A k \in 1..Len(recorded) : recorded[k].time <= LastTime
    /\ recorder = "recording" => starttime = -1 /\ timestamp = 0
    /\ (recorder = "done" /\ HeaderCut)
       \/ (timestamp <= LastTime /\ timestamp < TimeMod \div 2 /\ starttime \in -1..LastTime)
-----------------------------------------------------------------------------
(* Two parts joined, of known lengths.                                     *)
LEMMA TwoParts ==
  ASSUME NEW S, NEW s \in Seq(S), NEW t \in Seq(S), NEW m, NEW n, Len(s) = m, Len(t) = n
  PROVE  /\ s \o t \in Seq(S) /\ Len(s \o t) = m + n
         /\ \A i \in 1..m : (s \o t)[i] = s[i]
         /\ \A i \in 1..n : (s \o t)[m + i] = t[i]
<1>1. s \o t \in Seq(S) /\ Len(s \o t) = Len(s) + Len(t)
      /\ \A i \in 1..Len(s) : (s \o t)[i] = s[i]
  OBVIOUS
<1>2. \A i \in 1..Len(t) : (s \o t)[Len(s) + i] = t[i]
  OBVIOUS
<1> QED BY <1>1, <1>2

(* A unit that is not the last one of a header.                            *)
CutField(u) == "field" \in DOMAIN u /\ u.field # "stream"

(* The header, the data and the previous tag size of a tag, in units.      *)
LEMMA TagUnits ==
  ASSUME NEW t \in FlvTags, NEW k \in Nat
  PROVE  /\ HeaderUnits(TagHeader(t)) \in Seq(FlvUnits)
         /\ \A i \in 1..3 : CutField(HeaderUnits(TagHeader(t))[i])
         /\ Len(HeaderUnits(TagHeader(t))) = 4
         /\ HeaderUnits(TagHeader(t))[1].value = t.type
         /\ HeaderUnits(TagHeader(t))[2].value = t.size
         /\ HeaderUnits(TagHeader(t))[3].value = TagHeader(t).time
         /\ TagHeader(t).time \in 0..t.time /\ TagHeader(t).time < TimeMod \div 2
         /\ DataUnits(k, t.size) \in Seq(FlvUnits) /\ Len(DataUnits(k, t.size)) = t.size
         /\ PreviousTagSize \in Seq(FlvUnits) /\ Len(PreviousTagSize) = 2
<1> DEFINE h == TagHeader(t)
           half == TimeMod \div 2
           kinds == {kind.type : kind \in TagKinds}
<1>1. t.type \in kinds /\ t.size \in Nat /\ t.time \in Nat /\ t.stream = 0
  BY DEF FlvTags
<1>2. half \in Nat /\ half > 0
  BY FileAssumption
<1>3. t.time % half \in 0..t.time /\ t.time % half < half
  <2> DEFINE q == t.time \div half
             r == t.time % half
  <2>1. q \in Nat /\ r \in Nat /\ r < half /\ t.time = half * q + r
    BY <1>1, <1>2
  <2>2. half * q \in Nat
    BY <1>2, <2>1
  <2> QED BY <1>1, <2>1, <2>2
<1>4. /\ h.type = t.type /\ h.size = t.size /\ h.stream = 0
      /\ h.time = IF IsAv(t.type) THEN t.time % half ELSE 0
  BY DEF FlvTags, TagHeader
<1>5. h.time \in 0..t.time /\ h.time < half
  BY <1>1, <1>2, <1>3, <1>4
<1>6. h.type \in kinds /\ h.size \in Nat /\ h.time \in Nat /\ h.stream \in Nat
  BY <1>1, <1>4, <1>5
<1> DEFINE u == HeaderUnits(h)
<1>7. /\ u = [i \in 1..4 |-> [field |-> Fields[i], value |-> h[Fields[i]]]]
  BY DEF HeaderUnits, Fields
<1>8. /\ u[1] = [field |-> "type", value |-> h.type]
      /\ u[2] = [field |-> "size", value |-> h.size]
      /\ u[3] = [field |-> "time", value |-> h.time]
      /\ u[4] = [field |-> "stream", value |-> h.stream]
  BY <1>7 DEF Fields
<1>9. u[1] \in FlvUnits /\ u[2] \in FlvUnits /\ u[3] \in FlvUnits /\ u[4] \in FlvUnits
  BY <1>6, <1>8 DEF FlvUnits
<1>10. u \in Seq(FlvUnits) /\ Len(u) = 4
  <2>1. \A i \in 1..4 : u[i] \in FlvUnits
    BY <1>9
  <2>2. u = [i \in 1..4 |-> u[i]]
    BY <1>7
  <2> DEFINE w(i) == u[i]
  <2>3. u = [i \in 1..4 |-> w(i)] /\ \A i \in 1..4 : w(i) \in FlvUnits
    BY <2>1, <2>2
  <2> HIDE DEF u, FlvUnits, w
  <2> QED BY <2>3
<1>11. DataUnits(k, t.size) \in Seq(FlvUnits) /\ Len(DataUnits(k, t.size)) = t.size
  <2>1. \A i \in 1..t.size : [tag |-> k, part |-> i] \in FlvUnits
    BY <1>1 DEF FlvUnits
  <2> HIDE DEF FlvUnits
  <2> QED BY <1>1, <2>1 DEF DataUnits
<1>12. PreviousTagSize \in Seq(FlvUnits) /\ Len(PreviousTagSize) = 2
  <2>1. [part |-> "pts"] \in FlvUnits
    BY DEF FlvUnits
  <2> HIDE DEF FlvUnits
  <2> QED BY <2>1 DEF PreviousTagSize, PtsUnits
<1>13. u[1].value = t.type /\ u[2].value = t.size /\ u[3].value = h.time
  BY <1>4, <1>8
<1>14. \A i \in 1..3 : CutField(u[i])
  <2>1. CutField(u[1]) /\ CutField(u[2]) /\ CutField(u[3])
    BY <1>8 DEF CutField
  <2> HIDE DEF u
  <2>2. \A i \in 1..3 : i = 1 \/ i = 2 \/ i = 3
    OBVIOUS
  <2> QED BY <2>1, <2>2
<1> QED BY <1>5, <1>10, <1>11, <1>12, <1>13, <1>14

(* The same in one sequence.                                               *)
LEMMA TagIs ==
  ASSUME NEW t \in FlvTags, NEW k \in Nat
  PROVE  /\ WriteTagUnits(k, t) \in Seq(FlvUnits)
         /\ Len(WriteTagUnits(k, t)) = 6 + t.size
         /\ WriteTagUnits(k, t)[1].value = t.type
         /\ WriteTagUnits(k, t)[2].value = t.size
         /\ WriteTagUnits(k, t)[3].value = TagHeader(t).time
         /\ \A i \in 1..t.size : WriteTagUnits(k, t)[4 + i] = DataUnits(k, t.size)[i]
         /\ \A i \in 1..3 : CutField(WriteTagUnits(k, t)[i])
<1> DEFINE u == HeaderUnits(TagHeader(t))
           d == DataUnits(k, t.size)
           p == PreviousTagSize
<1>1. /\ u \in Seq(FlvUnits) /\ Len(u) = 4
      /\ d \in Seq(FlvUnits) /\ Len(d) = t.size
      /\ p \in Seq(FlvUnits) /\ Len(p) = 2
      /\ u[1].value = t.type /\ u[2].value = t.size /\ u[3].value = TagHeader(t).time
      /\ \A i \in 1..3 : CutField(u[i])
  BY TagUnits
<1>2. t.size \in Nat
  BY DEF FlvTags
<1>3. WriteTagUnits(k, t) = (u \o d) \o p
  BY DEF WriteTagUnits
<1> DEFINE v == u \o d
<1> HIDE DEF u, d, p, FlvUnits
<1>4. /\ v \in Seq(FlvUnits) /\ Len(v) = 4 + t.size
      /\ \A i \in 1..4 : v[i] = u[i]
      /\ \A i \in 1..t.size : v[4 + i] = d[i]
  <2>1. /\ v \in Seq(FlvUnits) /\ Len(v) = Len(u) + Len(d)
        /\ \A i \in 1..Len(u) : v[i] = u[i]
        /\ \A i \in 1..Len(d) : v[Len(u) + i] = d[i]
    <3>1. u \in Seq(FlvUnits) /\ d \in Seq(FlvUnits)
      BY <1>1
    <3> QED BY <3>1, JoinParts
  <2> QED BY <1>1, <2>1
<1> HIDE DEF v
<1>5. /\ v \o p \in Seq(FlvUnits) /\ Len(v \o p) = Len(v) + 2
      /\ \A i \in 1..Len(v) : (v \o p)[i] = v[i]
  <2>1. /\ v \o p \in Seq(FlvUnits) /\ Len(v \o p) = Len(v) + Len(p)
        /\ \A i \in 1..Len(v) : (v \o p)[i] = v[i]
    <3>1. v \in Seq(FlvUnits) /\ p \in Seq(FlvUnits)
      BY <1>1, <1>4
    <3> QED BY <3>1, JoinParts
  <2> QED BY <1>1, <2>1
<1> DEFINE w == v \o p
<1>6. w[1] = u[1] /\ w[2] = u[2] /\ w[3] = u[3]
  BY <1>2, <1>4, <1>5
<1>7. \A i \in 1..t.size : w[4 + i] = d[i]
  BY <1>2, <1>4, <1>5
<1>8. w \in Seq(FlvUnits) /\ Len(w) = 6 + t.size
  BY <1>2, <1>4, <1>5
<1>9. WriteTagUnits(k, t) = w
  BY <1>3 DEF v
<1> HIDE DEF w
<1>10. \A i \in 1..3 : CutField(w[i])
  <2>1. \A i \in 1..3 : i = 1 \/ i = 2 \/ i = 3
    OBVIOUS
  <2>2. \A i \in 1..3 : w[i] = u[i]
    BY <1>6, <2>1
  <2> QED BY <1>1, <2>2
<1> QED BY <1>1, <1>6, <1>7, <1>8, <1>9, <1>10 DEF d

(* The tags of a file, one behind the other.                               *)
Parts(tags) == [i \in DOMAIN tags |-> WriteTagUnits(i, tags[i])]
FileFront == Signature \o PreviousTagSize

(* Each part is a sequence of units.                                       *)
LEMMA PartsType ==
  ASSUME NEW tags \in Seq(FlvTags)
  PROVE  /\ Parts(tags) \in Seq(Seq(FlvUnits)) /\ Len(Parts(tags)) = Len(tags)
         /\ \A i \in 1..Len(tags) : Parts(tags)[i] = WriteTagUnits(i, tags[i])
<1> DEFINE n == Len(tags)
<1>1. n \in Nat /\ DOMAIN tags = 1..n
  OBVIOUS
<1>2. \A i \in 1..n : WriteTagUnits(i, tags[i]) \in Seq(FlvUnits)
  <2> TAKE i \in 1..n
  <2>1. tags[i] \in FlvTags /\ i \in Nat
    <3> HIDE DEF FlvTags
    <3> QED BY <1>1
  <2> QED BY <2>1, TagIs
<1> DEFINE w(i) == WriteTagUnits(i, tags[i])
           B == Seq(FlvUnits)
<1>3. \A i \in 1..n : w(i) \in B
  BY <1>2
<1>4. Parts(tags) = [i \in 1..n |-> w(i)]
  BY <1>1 DEF Parts
<1> HIDE DEF w, B
<1>5. Parts(tags) \in Seq(B) /\ Len(Parts(tags)) = n /\ \A i \in 1..n : Parts(tags)[i] = w(i)
  BY <1>1, <1>3, <1>4
<1> QED BY <1>5 DEF w, B

(* What stands before the first tag.                                       *)
LEMMA FrontType == FileFront \in Seq(FlvUnits) /\ Len(FileFront) = 4
<1>1. [part |-> "pts"] \in FlvUnits /\ [part |-> "signature"] \in FlvUnits
  BY DEF FlvUnits
<1> HIDE DEF FlvUnits
<1>2. PreviousTagSize \in Seq(FlvUnits) /\ Len(PreviousTagSize) = 2
  BY <1>1 DEF PreviousTagSize, PtsUnits
<1>3. Signature \in Seq(FlvUnits) /\ Len(Signature) = 2
  BY <1>1 DEF Signature, SignatureUnits
<1>4. Signature \o PreviousTagSize \in Seq(FlvUnits) /\ Len(Signature \o PreviousTagSize) = 2 + 2
  <2> DEFINE a == Signature
             b == PreviousTagSize
  <2>1. a \in Seq(FlvUnits) /\ b \in Seq(FlvUnits)
    BY <1>2, <1>3
  <2>4. Len(a) = 2 /\ Len(b) = 2
    BY <1>2, <1>3
  <2> HIDE DEF a, b
  <2>2. a \o b \in Seq(FlvUnits) /\ Len(a \o b) = Len(a) + Len(b)
    BY <2>1
  <2>3. a \o b \in Seq(FlvUnits) /\ Len(a \o b) = 2 + 2
    BY <2>2, <2>4
  <2> QED BY <2>3 DEF a, b
<1> QED BY <1>4 DEF FileFront

(* A file begins as the file of its first tags, for each number of them.   *)
LEMMA FileBegins ==
  ASSUME NEW tags \in Seq(FlvTags), NEW k \in 0..Len(tags)
  PROVE  LET f == FileOf(tags)
             g == FileOf(SubSeq(tags, 1, k)) IN
         /\ f \in Seq(FlvUnits) /\ g \in Seq(FlvUnits) /\ Len(g) <= Len(f)
         /\ \A i \in 1..Len(g) : f[i] = g[i]
<1> DEFINE n == Len(tags)
           front == SubSeq(tags, 1, k)
           B == Seq(FlvUnits)
           ps == Parts(tags)
           as == Parts(front)
           bs == SubSeq(ps, k + 1, n)
<1>1. n \in Nat /\ k \in Nat /\ k <= n
  OBVIOUS
<1>2. front \in Seq(FlvTags) /\ Len(front) = k /\ \A i \in 1..k : front[i] = tags[i]
  <2> HIDE DEF FlvTags
  <2> QED BY <1>1
<1> HIDE DEF front
<1>3. /\ ps \in Seq(B) /\ Len(ps) = n /\ \A i \in 1..n : ps[i] = WriteTagUnits(i, tags[i])
  BY PartsType
<1>4. /\ as \in Seq(B) /\ Len(as) = k /\ \A i \in 1..k : as[i] = WriteTagUnits(i, front[i])
  BY <1>2, PartsType
<1> HIDE DEF ps, as, B
<1>5. bs \in Seq(B) /\ Len(bs) = n - k /\ \A i \in 1..(n - k) : bs[i] = ps[k + i]
  BY <1>1, <1>3
<1> HIDE DEF bs
<1>6. ps = as \o bs
  <2>1. Len(ps) = Len(as) + Len(bs)
    BY <1>1, <1>3, <1>4, <1>5
  <2>2. \A i \in 1..Len(as) : ps[i] = as[i]
    <3> TAKE i \in 1..Len(as)
    <3>1. i \in 1..k /\ i \in 1..n
      BY <1>1, <1>4
    <3>2. front[i] = tags[i]
      BY <1>2, <3>1
    <3> QED BY <1>3, <1>4, <3>1, <3>2
  <2>3. \A i \in 1..Len(bs) : ps[Len(as) + i] = bs[i]
    BY <1>1, <1>4, <1>5
  <2> QED BY <1>3, <1>4, <1>5, <2>1, <2>2, <2>3, Joined
<1>7. FlattenSeq(ps) = FlattenSeq(as) \o FlattenSeq(bs)
  BY <1>4, <1>5, <1>6, FlattenConcat DEF B
<1>8. FlattenSeq(as) \in B /\ FlattenSeq(bs) \in B
  BY <1>4, <1>5, FlattenType DEF B
<1> DEFINE fa == FlattenSeq(as)
           fb == FlattenSeq(bs)
<1>9. FileOf(tags) = FileFront \o (fa \o fb) /\ FileOf(front) = FileFront \o fa
  BY <1>7 DEF FileOf, FileFront, ps, as, Parts
<1>10. FileFront \in B
  BY FrontType DEF B
<1> HIDE DEF fa, fb, FileFront
<1>11. FileFront \o (fa \o fb) = (FileFront \o fa) \o fb
  <2>1. \A a, b, c \in B : a \o (b \o c) = (a \o b) \o c
    BY DEF B
  <2>2. fa \in B /\ fb \in B
    BY <1>8 DEF fa, fb
  <2> QED BY <1>10, <2>1, <2>2
<1> DEFINE g == FileFront \o fa
<1>12. g \in B
  BY <1>8, <1>10, JoinParts DEF B, fa
<1> HIDE DEF g
<1>13. /\ g \o fb \in B /\ Len(g \o fb) = Len(g) + Len(fb)
       /\ \A i \in 1..Len(g) : (g \o fb)[i] = g[i]
  BY <1>8, <1>12, JoinParts DEF B, fb
<1>14. Len(g) \in Nat /\ Len(fb) \in Nat
  BY <1>8, <1>12 DEF B, fb
<1>15. FileOf(tags) = g \o fb /\ FileOf(front) = g
  BY <1>9, <1>11 DEF g
<1>16. FileOf(tags) \in B /\ FileOf(front) \in B
       /\ Len(FileOf(front)) <= Len(FileOf(tags))
       /\ \A i \in 1..Len(FileOf(front)) : FileOf(tags)[i] = FileOf(front)[i]
  BY <1>12, <1>13, <1>14, <1>15
<1> QED BY <1>16 DEF front, B

(* One more tag.                                                           *)
LEMMA FileGrows ==
  ASSUME NEW tags \in Seq(FlvTags), NEW t \in FlvTags
  PROVE  /\ FileOf(Append(tags, t)) = FileOf(tags) \o WriteTagUnits(Len(tags) + 1, t)
         /\ FileOf(tags) \in Seq(FlvUnits) /\ FileOf(Append(tags, t)) \in Seq(FlvUnits)
<1> DEFINE n == Len(tags)
           more == Append(tags, t)
           B == Seq(FlvUnits)
           ps == Parts(tags)
           qs == Parts(more)
           x == WriteTagUnits(n + 1, t)
<1>1. n \in Nat
  OBVIOUS
<1>2. /\ more \in Seq(FlvTags) /\ Len(more) = n + 1 /\ more[n + 1] = t
      /\ \A i \in 1..n : more[i] = tags[i]
  <2> HIDE DEF FlvTags
  <2> QED BY <1>1
<1> HIDE DEF more
<1>3. /\ ps \in Seq(B) /\ Len(ps) = n /\ \A i \in 1..n : ps[i] = WriteTagUnits(i, tags[i])
  BY PartsType
<1>4. /\ qs \in Seq(B) /\ Len(qs) = n + 1 /\ \A i \in 1..(n + 1) : qs[i] = WriteTagUnits(i, more[i])
  BY <1>2, PartsType
<1>5. x \in B
  BY <1>1, TagIs
<1> HIDE DEF ps, qs, B, x
<1>6. qs = Append(ps, x)
  <2>1. \A i \in 1..n : qs[i] = ps[i]
    BY <1>1, <1>2, <1>3, <1>4
  <2>2. qs[n + 1] = x
    BY <1>1, <1>2, <1>4 DEF x
  <2> QED BY <1>1, <1>3, <1>4, <1>5, <2>1, <2>2
<1>7. FlattenSeq(qs) = FlattenSeq(ps) \o x /\ FlattenSeq(ps) \in B
  BY <1>3, <1>5, <1>6, FlattenAppend, FlattenType DEF B
<1>8. FileFront \in B
  BY FrontType DEF B
<1> DEFINE fa == FlattenSeq(ps)
<1>9. FileOf(tags) = FileFront \o fa /\ FileOf(more) = FileFront \o (fa \o x)
  BY <1>7 DEF FileOf, FileFront, ps, qs, Parts
<1> HIDE DEF fa, FileFront
<1>10. FileFront \o (fa \o x) = (FileFront \o fa) \o x
  <2>1. \A a, b, c \in B : a \o (b \o c) = (a \o b) \o c
    BY DEF B
  <2>2. fa \in B
    BY <1>7 DEF fa
  <2> QED BY <1>5, <1>8, <2>1, <2>2
<1>11. FileFront \o fa \in B
  BY <1>7, <1>8, JoinParts DEF B, fa
<1>12. (FileFront \o fa) \o x \in B
  BY <1>5, <1>11, JoinParts DEF B
<1> QED BY <1>9, <1>10, <1>11, <1>12 DEF more, x, B

-----------------------------------------------------------------------------
(* Where tags end.                                                         *)
LEMMA EndOfTag ==
  ASSUME recorded \in Seq(FlvTags), NEW k \in 0..Len(recorded)
  PROVE  /\ TagEnd(k) \in Nat /\ TagEnd(0) = 4
         /\ k > 0 => /\ TagEnd(k - 1) \in Nat /\ recorded[k] \in FlvTags
                     /\ TagEnd(k) = TagEnd(k - 1) + 6 + recorded[k].size
                     /\ FileOf(SubSeq(recorded, 1, k)) =
                           FileOf(SubSeq(recorded, 1, k - 1)) \o WriteTagUnits(k, recorded[k])
                     /\ FileOf(SubSeq(recorded, 1, k - 1)) \in Seq(FlvUnits)
         /\ TagEnd(Len(recorded)) = Len(FileOf(recorded))
<1> HIDE DEF FlvTags
<1>1. SubSeq(recorded, 1, Len(recorded)) = recorded
  OBVIOUS
<1>2. FileOf(SubSeq(recorded, 1, k)) \in Seq(FlvUnits)
  BY FileBegins
<1>3. TagEnd(k) \in Nat
  BY <1>2 DEF TagEnd
<1>4. TagEnd(0) = 4
  <2>1. SubSeq(recorded, 1, 0) = << >>
    OBVIOUS
  <2>2. Parts(<< >>) = << >>
    BY DEF Parts
  <2>3. FileOf(<< >>) = FileFront \o << >>
    BY <2>2, FlattenEmpty DEF FileOf, FileFront, Parts
  <2>4. FileFront \o << >> = FileFront
    BY FrontType
  <2> QED BY <2>1, <2>3, <2>4, FrontType DEF TagEnd
<1>5. ASSUME k > 0
      PROVE  /\ TagEnd(k - 1) \in Nat /\ recorded[k] \in FlvTags
             /\ TagEnd(k) = TagEnd(k - 1) + 6 + recorded[k].size
             /\ FileOf(SubSeq(recorded, 1, k)) =
                   FileOf(SubSeq(recorded, 1, k - 1)) \o WriteTagUnits(k, recorded[k])
             /\ FileOf(SubSeq(recorded, 1, k - 1)) \in Seq(FlvUnits)
  <2> DEFINE j == k - 1
             s == SubSeq(recorded, 1, j)
             t == recorded[k]
             w == WriteTagUnits(k, t)
  <2>1. j \in Nat /\ j < Len(recorded) /\ j + 1 = k /\ k \in Nat
    BY <1>5
  <2>2. s \in Seq(FlvTags) /\ Len(s) = j /\ t \in FlvTags
    BY <2>1
  <2>3. SubSeq(recorded, 1, k) = Append(s, t)
    <3>1. /\ SubSeq(recorded, 1, k) \in Seq(FlvTags) /\ Len(SubSeq(recorded, 1, k)) = k
          /\ \A i \in 1..k : SubSeq(recorded, 1, k)[i] = recorded[i]
      BY <2>1
    <3>2. /\ Append(s, t) \in Seq(FlvTags) /\ Len(Append(s, t)) = k
          /\ \A i \in 1..k : Append(s, t)[i] = recorded[i]
      BY <2>1, <2>2
    <3> QED BY <3>1, <3>2
  <2>4. FileOf(Append(s, t)) = FileOf(s) \o w /\ FileOf(s) \in Seq(FlvUnits)
    <3> HIDE DEF s, t
    <3> QED BY <2>1, <2>2, FileGrows
  <2>5. w \in Seq(FlvUnits) /\ Len(w) = 6 + t.size
    <3> HIDE DEF t
    <3> QED BY <2>1, <2>2, TagIs
  <2>6. t.size \in Nat
    BY <2>2 DEF FlvTags
  <2> DEFINE f == FileOf(s)
  <2>7. f \in Seq(FlvUnits)
    BY <2>4
  <2>8. Len(f \o w) = Len(f) + Len(w) /\ Len(f) \in Nat
    <3>1. w \in Seq(FlvUnits)
      BY <2>5
    <3> HIDE DEF f, w, FlvUnits
    <3>2. Len(f) \in Nat
      BY <2>7
    <3>3. Len(f \o w) = Len(f) + Len(w)
      BY <2>7, <3>1, JoinParts
    <3> QED BY <3>2, <3>3
  <2>9. TagEnd(k) = Len(f \o w) /\ TagEnd(j) = Len(f)
    BY <2>3, <2>4 DEF TagEnd
  <2>10. TagEnd(k) = TagEnd(j) + 6 + t.size /\ TagEnd(j) \in Nat
    <3> HIDE DEF f, w, t
    <3> QED BY <2>5, <2>6, <2>8, <2>9
  <2> QED BY <2>2, <2>3, <2>4, <2>10
<1> QED BY <1>1, <1>3, <1>4, <1>5 DEF TagEnd

(* A tag ends before the next.                                             *)
LEMMA EndsGrow ==
  ASSUME recorded \in Seq(FlvTags), NEW j \in Nat, NEW k \in Nat,
         j <= k, k <= Len(recorded)
  PROVE  TagEnd(j) <= TagEnd(k) /\ TagEnd(j) \in Nat /\ TagEnd(k) \in Nat
<1> DEFINE s == SubSeq(recorded, 1, k)
<1>1. s \in Seq(FlvTags) /\ Len(s) = k /\ SubSeq(s, 1, j) = SubSeq(recorded, 1, j)
  <2> HIDE DEF FlvTags
  <2>1. s \in Seq(FlvTags) /\ Len(s) = k /\ \A i \in 1..k : s[i] = recorded[i]
    OBVIOUS
  <2> HIDE DEF s
  <2> DEFINE a == SubSeq(s, 1, j)
             b == SubSeq(recorded, 1, j)
  <2>2. a \in Seq(FlvTags) /\ Len(a) = j /\ \A i \in 1..j : a[i] = s[i]
    BY <2>1
  <2>3. b \in Seq(FlvTags) /\ Len(b) = j /\ \A i \in 1..j : b[i] = recorded[i]
    OBVIOUS
  <2>4. \A i \in 1..j : a[i] = b[i]
    BY <2>1, <2>2, <2>3
  <2> HIDE DEF a, b
  <2>5. a = b
    BY <2>2, <2>3, <2>4
  <2> QED BY <2>1, <2>5 DEF a, b
<1> HIDE DEF s
<1>2. j \in 0..Len(s)
  BY <1>1
<1>3. Len(FileOf(SubSeq(s, 1, j))) <= Len(FileOf(s))
  BY <1>1, <1>2, FileBegins
<1>4. TagEnd(j) <= TagEnd(k)
  BY <1>1, <1>3 DEF TagEnd, s
<1>5. j \in 0..Len(recorded) /\ k \in 0..Len(recorded)
  OBVIOUS
<1> QED BY <1>4, <1>5, EndOfTag

(* What is in the file behind the tags before one.                         *)
LEMMA TagOnFile ==
  ASSUME FileInv, NEW k \in 1..Len(recorded)
  PROVE  LET e == TagEnd(k - 1)
             t == recorded[k]
         IN /\ e + 1 <= Len(flv) => flv[e + 1].value = t.type
            /\ e + 2 <= Len(flv) => flv[e + 2].value = t.size
            /\ e + 3 <= Len(flv) => flv[e + 3].value = TagHeader(t).time
            /\ \A i \in 1..t.size :
                  e + 4 + i <= Len(flv) => flv[e + 4 + i] = DataUnits(k, t.size)[i]
            /\ \A i \in 1..3 : e + i <= Len(flv) => CutField(flv[e + i])
<1> DEFINE e == TagEnd(k - 1)
           t == recorded[k]
           w == WriteTagUnits(k, t)
           g == FileOf(SubSeq(recorded, 1, k))
           f == FileOf(recorded)
           b == FileOf(SubSeq(recorded, 1, k - 1))
<1>1. /\ recorded \in Seq(FlvTags) /\ flv \in Seq(FlvUnits) /\ Len(flv) <= Len(f)
      /\ \A i \in 1..Len(flv) : flv[i] = f[i]
  BY DEF FileInv
<1>2. k \in 0..Len(recorded) /\ k > 0 /\ k \in Nat
  BY <1>1
<1>3. e \in Nat /\ t \in FlvTags /\ g = b \o w /\ b \in Seq(FlvUnits)
      /\ e = Len(b) /\ TagEnd(k) = e + 6 + t.size /\ Len(g) = e + 6 + t.size
  BY <1>1, <1>2, EndOfTag DEF TagEnd
<1>4. f \in Seq(FlvUnits) /\ Len(g) <= Len(f) /\ \A i \in 1..Len(g) : f[i] = g[i]
  BY <1>1, <1>2, FileBegins
<1>5. /\ w \in Seq(FlvUnits) /\ Len(w) = 6 + t.size
      /\ w[1].value = t.type /\ w[2].value = t.size /\ w[3].value = TagHeader(t).time
      /\ \A i \in 1..t.size : w[4 + i] = DataUnits(k, t.size)[i]
      /\ \A i \in 1..3 : CutField(w[i])
  BY <1>2, <1>3, TagIs
<1>6. t.size \in Nat
  BY <1>3 DEF FlvTags
<1> HIDE DEF w, b, f, t, e
<1>7. \A i \in 1..Len(w) : (b \o w)[Len(b) + i] = w[i]
  <2>1. w \in Seq(FlvUnits) /\ b \in Seq(FlvUnits)
    BY <1>3, <1>5
  <2> QED BY <2>1, JoinParts
<1>8. \A i \in 1..Len(w) : g[e + i] = w[i]
  BY <1>3, <1>7
<1> HIDE DEF g
<1>9. ASSUME NEW i \in 1..(6 + t.size), e + i <= Len(flv)
      PROVE  flv[e + i] = w[i]
  <2>1. e + i \in 1..Len(flv) /\ e + i \in 1..Len(g) /\ i \in 1..Len(w)
    BY <1>1, <1>3, <1>5, <1>6, <1>9
  <2>2. flv[e + i] = f[e + i] /\ f[e + i] = g[e + i] /\ g[e + i] = w[i]
    BY <1>1, <1>4, <1>8, <2>1
  <2> QED BY <2>2
<1>10. \A i \in 1..t.size : e + 4 + i <= Len(flv) => flv[e + 4 + i] = DataUnits(k, t.size)[i]
  <2> TAKE i \in 1..t.size
  <2> HAVE e + 4 + i <= Len(flv)
  <2>1. 4 + i \in 1..(6 + t.size) /\ e + (4 + i) = e + 4 + i
    BY <1>3, <1>6
  <2>2. flv[e + (4 + i)] = w[4 + i]
    BY <1>9, <2>1
  <2> QED BY <1>5, <2>1, <2>2
<1>11. e + 1 <= Len(flv) => flv[e + 1].value = t.type
  BY <1>5, <1>6, <1>9
<1>12. e + 2 <= Len(flv) => flv[e + 2].value = t.size
  BY <1>5, <1>6, <1>9
<1>13. e + 3 <= Len(flv) => flv[e + 3].value = TagHeader(t).time
  BY <1>5, <1>6, <1>9
<1>14. \A i \in 1..3 : e + i <= Len(flv) => CutField(flv[e + i])
  <2> TAKE i \in 1..3
  <2> HAVE e + i <= Len(flv)
  <2>1. i \in 1..(6 + t.size)
    BY <1>6
  <2>2. flv[e + i] = w[i]
    BY <1>9, <2>1
  <2> QED BY <1>5, <2>2
<1> QED BY <1>10, <1>11, <1>12, <1>13, <1>14 DEF e, t

(* What a read returns.                                                    *)
LEMMA LeastIs ==
  ASSUME NEW a \in Int, NEW b \in Int
  PROVE  Min({a, b}) = Least(a, b)
<1> DEFINE m == Least(a, b)
           S == {a, b}
<1>1. m \in S /\ \A y \in S : m <= y
  BY DEF Least
<1>2. \A x \in S : (\A y \in S : x <= y) => x = m
  BY <1>1
<1> HIDE DEF m, S
<1>3. Min(S) = m
  BY <1>1, <1>2 DEF Min
<1> QED BY <1>3 DEF m, S

(* What a read of the file returns: as much as there is.                   *)
LEMMA ReadIs ==
  ASSUME flv \in Seq(FlvUnits), NEW from \in Nat, NEW n \in Nat
  PROVE  /\ FileRead(from, n) \in Seq(FlvUnits) /\ Len(FileRead(from, n)) \in Nat
         /\ from + n <= Len(flv) => Len(FileRead(from, n)) = n
         /\ from <= Len(flv) /\ from + n > Len(flv) => Len(FileRead(from, n)) = Len(flv) - from
         /\ from > Len(flv) => Len(FileRead(from, n)) = 0
         /\ Len(FileRead(from, n)) > 0 <=> ~AtEof(FileRead(from, n))
         /\ \A i \in 1..Len(FileRead(from, n)) : FileRead(from, n)[i] = flv[from + i]
<1> DEFINE m == Least(from + n, Len(flv))
           u == SubSeq(flv, from + 1, m)
<1>1. m \in Nat /\ m <= Len(flv) /\ Len(flv) \in Nat
      /\ (from + n <= Len(flv) => m = from + n) /\ (from + n > Len(flv) => m = Len(flv))
  BY DEF Least
<1>2. FileRead(from, n) = u
  <2>1. from + n \in Int /\ Len(flv) \in Int
    BY <1>1
  <2>2. Min({from + n, Len(flv)}) = m
    BY <2>1, LeastIs
  <2> QED BY <2>2 DEF FileRead
<1> HIDE DEF m
<1>3. u \in Seq(FlvUnits) /\ Len(u) = IF from < m THEN m - from ELSE 0
  BY <1>1
<1>4. \A i \in 1..Len(u) : u[i] = flv[from + i]
  <2> TAKE i \in 1..Len(u)
  <2>1. from < m /\ i \in 1..(m - from)
    BY <1>1, <1>3
  <2> QED BY <1>1, <2>1
<1> HIDE DEF u
<1>5. Len(u) > 0 <=> u # << >>
  BY <1>3
<1>6. Len(u) \in Nat
      /\ (from + n <= Len(flv) => Len(u) = n)
      /\ (from <= Len(flv) /\ from + n > Len(flv) => Len(u) = Len(flv) - from)
      /\ (from > Len(flv) => Len(u) = 0)
  BY <1>1, <1>3
<1> QED BY <1>2, <1>3, <1>4, <1>5, <1>6 DEF AtEof

-----------------------------------------------------------------------------
(* What the tool takes for the header of a tag, from the place behind the  *)
(* tags before it: its own, or the end of the file, or what a file that    *)
(* ends in the header leaves on the stack.                                 *)
LEMMA HeaderFound ==
  ASSUME FileInv, NEW n, Behind(n), ~AtEof(FileRead(offset, Len(Fields))),
         NEW x \in TagHeaders(FileRead(offset, Len(Fields)))
  PROVE  LET end == offset + Len(FileRead(offset, Len(Fields))) IN
         /\ offset = TagEnd(n) /\ n + 1 \in 1..Len(recorded) /\ x.size \in Int
         /\ offset + 4 <= Len(flv) =>
               /\ end = offset + 4
               /\ x.type = recorded[n + 1].type /\ x.size = recorded[n + 1].size
               /\ x.time = TagHeader(recorded[n + 1]).time
         /\ offset + 4 > Len(flv) => end = Len(flv)
         /\ x.time \in Nat
<1> DEFINE u == FileRead(offset, 4)
           len == Len(flv)
           e == TagEnd(n)
           t == recorded[n + 1]
<1>1. /\ recorded \in Seq(FlvTags) /\ flv \in Seq(FlvUnits) /\ len <= TagEnd(Len(recorded))
  BY EndOfTag DEF FileInv
<1>2. n \in 0..Len(recorded) /\ n \in Nat /\ e \in Nat /\ len \in Nat
      /\ offset = Least(e, len) /\ offset \in Nat
  <2>1. n \in 0..Len(recorded) /\ offset = Least(e, len)
    BY DEF Behind
  <2>2. e \in Nat
    BY <1>1, <2>1, EndOfTag
  <2> QED BY <1>1, <2>1, <2>2 DEF Least
<1>3. Len(Fields) = 4
  BY DEF Fields
<1>4. /\ u \in Seq(FlvUnits) /\ Len(u) \in Nat /\ Len(u) > 0
      /\ offset + 4 <= len => Len(u) = 4
      /\ offset <= len /\ offset + 4 > len => Len(u) = len - offset
      /\ offset > len => Len(u) = 0
      /\ \A i \in 1..Len(u) : u[i] = flv[offset + i]
  <2>1. flv \in Seq(FlvUnits) /\ offset \in Nat /\ 4 \in Nat
    BY <1>1, <1>2
  <2>2. ~AtEof(u)
    BY <1>3
  <2> QED BY <2>1, <2>2, ReadIs
<1> HIDE DEF u
<1>5. offset = e /\ offset < len
  BY <1>2, <1>4 DEF Least
<1>6. n + 1 \in 1..Len(recorded) /\ n + 1 \in Nat
  <2>1. n # Len(recorded)
    BY <1>1, <1>2, <1>5
  <2> QED BY <1>1, <1>2, <2>1
<1>7. t \in FlvTags
  <2> HIDE DEF FlvTags
  <2> QED BY <1>1, <1>6
<1>8. t.size \in Nat /\ TagHeader(t).time \in Nat
  <2>1. TagHeader(t).time \in 0..t.time /\ t.time \in Nat /\ t.size \in Nat
    BY <1>6, <1>7, TagUnits DEF FlvTags
  <2> QED BY <2>1
<1>9. /\ e + 1 <= len => flv[e + 1].value = t.type
      /\ e + 2 <= len => flv[e + 2].value = t.size
      /\ e + 3 <= len => flv[e + 3].value = TagHeader(t).time
  <2>1. (n + 1) - 1 = n
    BY <1>2
  <2> QED BY <1>6, <2>1, TagOnFile
<1>10. /\ x.type \in IF 1 \in DOMAIN u THEN {u[1].value} ELSE AnyType
       /\ x.size \in IF 2 \in DOMAIN u THEN {u[2].value} ELSE AnySize
       /\ x.time \in IF 3 \in DOMAIN u THEN {u[3].value} ELSE AnyTime
  BY <1>3 DEF TagHeaders, u
<1>11. DOMAIN u = 1..Len(u) /\ Len(u) \in 1..4 /\ offset + Len(u) = Least(offset + 4, len)
  <2>1. DOMAIN u = 1..Len(u)
    BY <1>4
  <2> DEFINE b == Len(u)
  <2>2. /\ b \in Nat /\ b > 0 /\ (offset + 4 <= len => b = 4)
        /\ offset <= len /\ offset + 4 > len => b = len - offset
        /\ offset > len => b = 0
    BY <1>4
  <2> HIDE DEF b
  <2>3. b \in 1..4 /\ offset + b = Least(offset + 4, len)
    BY <1>2, <2>2 DEF Least
  <2> QED BY <2>1, <2>3 DEF b
<1> HIDE DEF t, e
<1>12. x.size \in Int
  <2>1. CASE 2 \in DOMAIN u
    <3>1. x.size = u[2].value /\ u[2] = flv[offset + 2] /\ offset + 2 <= len
      BY <1>2, <1>4, <1>10, <1>11, <2>1 DEF Least
    <3> QED BY <1>5, <1>8, <1>9, <3>1
  <2>2. CASE 2 \notin DOMAIN u
    BY <1>10, <2>2, FileAssumption
  <2> QED BY <2>1, <2>2
<1>13. x.time \in Nat
  <2>1. CASE 3 \in DOMAIN u
    <3>1. x.time = u[3].value /\ u[3] = flv[offset + 3] /\ offset + 3 <= len
      BY <1>2, <1>4, <1>10, <1>11, <2>1 DEF Least
    <3> QED BY <1>5, <1>8, <1>9, <3>1
  <2>2. CASE 3 \notin DOMAIN u
    BY <1>10, <2>2, FileAssumption
  <2> QED BY <2>1, <2>2
<1>14. ASSUME offset + 4 <= len
       PROVE  offset + Len(u) = offset + 4 /\ x.type = t.type /\ x.size = t.size
              /\ x.time = TagHeader(t).time
  <2>1. Len(u) = 4
    BY <1>2, <1>11, <1>14 DEF Least
  <2>2. u[1] = flv[offset + 1] /\ u[2] = flv[offset + 2] /\ u[3] = flv[offset + 3]
    BY <1>4, <2>1
  <2>3. x.type = u[1].value /\ x.size = u[2].value /\ x.time = u[3].value
    BY <1>10, <1>11, <2>1
  <2>4. e + 1 <= len /\ e + 2 <= len /\ e + 3 <= len
    BY <1>2, <1>5, <1>14
  <2> QED BY <1>2, <1>5, <1>9, <2>1, <2>2, <2>3, <2>4
<1>15. offset + 4 > len => offset + Len(u) = len
  BY <1>2, <1>11 DEF Least
<1> QED BY <1>3, <1>5, <1>6, <1>12, <1>13, <1>14, <1>15 DEF u, t, e

(* No header any more: the file ends here.                                 *)
LEMMA NoHeaderFound ==
  ASSUME FileInv, NEW n, Behind(n), AtEof(FileRead(offset, Len(Fields)))
  PROVE  Len(flv) <= TagEnd(n)
<1> DEFINE u == FileRead(offset, 4)
           len == Len(flv)
           e == TagEnd(n)
<1>1. recorded \in Seq(FlvTags) /\ flv \in Seq(FlvUnits)
  BY DEF FileInv
<1>2. e \in Nat /\ len \in Nat /\ offset = Least(e, len) /\ offset \in Nat
  <2>1. n \in 0..Len(recorded) /\ offset = Least(e, len)
    BY DEF Behind
  <2>2. e \in Nat
    BY <1>1, <2>1, EndOfTag
  <2> QED BY <1>1, <2>1, <2>2 DEF Least
<1>3. Len(Fields) = 4
  BY DEF Fields
<1>4. /\ offset + 4 <= len => Len(u) = 4
      /\ offset <= len /\ offset + 4 > len => Len(u) = len - offset
      /\ Len(u) \in Nat /\ ~(Len(u) > 0)
  <2>1. flv \in Seq(FlvUnits) /\ offset \in Nat /\ 4 \in Nat
    BY <1>1, <1>2
  <2>2. AtEof(u)
    BY <1>3
  <2> QED BY <2>1, <2>2, ReadIs
<1> HIDE DEF u, e, len
<1>5. ASSUME e < len  PROVE FALSE
  <2>1. offset = e
    BY <1>2, <1>5 DEF Least
  <2>2. CASE offset + 4 <= len
    BY <1>4, <2>2
  <2>3. CASE ~(offset + 4 <= len)
    <3>1. offset <= len /\ offset + 4 > len
      BY <1>2, <1>5, <2>1, <2>3
    <3>2. Len(u) = len - e /\ len - e > 0
      BY <1>2, <1>4, <1>5, <2>1, <3>1
    <3> QED BY <1>4, <3>2
  <2> QED BY <2>2, <2>3
<1>6. len <= e
  BY <1>2, <1>5
<1> QED BY <1>6 DEF e, len

(* The data behind a whole header is read whole, unless the file ends.     *)
LEMMA DataFound ==
  ASSUME FileInv, NEW k, HeaderRead(k), header.size > 0, header.size \in Int,
         ReadsData(offset, header.size) = "ok"
  PROVE  /\ FileRead(offset, header.size) = DataUnits(k, recorded[k].size)
         /\ TagEnd(k) - PtsUnits < Len(flv)
         /\ BehindData(offset, header.size) = Least(TagEnd(k), Len(flv))
<1> DEFINE n == recorded[k].size
           u == FileRead(offset, n)
           len == Len(flv)
           e == TagEnd(k - 1)
           d == DataUnits(k, n)
           behind == offset + Len(u)
           p == FileRead(behind, 2)
<1>1. recorded \in Seq(FlvTags) /\ flv \in Seq(FlvUnits) /\ len \in Nat
  BY DEF FileInv
<1>2. k \in 1..Len(recorded) /\ header.size = n /\ offset = e + 4 /\ offset <= len
  BY DEF HeaderRead, Kept
<1>3. e \in Nat /\ recorded[k] \in FlvTags /\ TagEnd(k) = e + 6 + n
  <2>1. k \in 0..Len(recorded) /\ k > 0
    BY <1>2
  <2> QED BY <1>1, <2>1, EndOfTag
<1>4. n \in Nat /\ n > 0
  BY <1>2, <1>3 DEF FlvTags
<1>5. /\ \A i \in 1..n : e + 4 + i <= len => flv[e + 4 + i] = d[i]
      /\ d \in Seq(FlvUnits) /\ Len(d) = n
  <2>1. \A i \in 1..n : e + 4 + i <= len => flv[e + 4 + i] = d[i]
    BY <1>2, TagOnFile
  <2>2. k \in Nat
    BY <1>2
  <2>3. d \in Seq(FlvUnits) /\ Len(d) = n
    BY <1>3, <2>2, TagUnits
  <2> QED BY <2>1, <2>3
<1> HIDE DEF n, d, e
<1>6. offset \in Nat
  BY <1>2, <1>3
<1>7. /\ u \in Seq(FlvUnits) /\ Len(u) \in Nat /\ (Len(u) > 0 <=> ~AtEof(u))
      /\ offset + n <= len => Len(u) = n
      /\ offset <= len /\ offset + n > len => Len(u) = len - offset
      /\ \A i \in 1..Len(u) : u[i] = flv[offset + i]
  <2>1. flv \in Seq(FlvUnits) /\ offset \in Nat /\ n \in Nat
    BY <1>1, <1>4, <1>6
  <2> QED BY <2>1, ReadIs
<1> HIDE DEF u
<1>8. behind \in Nat
  BY <1>6, <1>7
<1>9. /\ (Len(p) > 0 <=> ~AtEof(p)) /\ Len(p) \in Nat
      /\ behind + 2 <= len => Len(p) = 2
      /\ behind <= len /\ behind + 2 > len => Len(p) = len - behind
      /\ behind > len => Len(p) = 0
  <2> DEFINE b == behind
  <2>1. flv \in Seq(FlvUnits) /\ b \in Nat /\ 2 \in Nat
    BY <1>1, <1>8
  <2> HIDE DEF b
  <2>2. LET v == FileRead(b, 2) IN
        /\ (Len(v) > 0 <=> ~AtEof(v)) /\ Len(v) \in Nat
        /\ b + 2 <= len => Len(v) = 2
        /\ b <= len /\ b + 2 > len => Len(v) = len - b
        /\ b > len => Len(v) = 0
    BY <2>1, ReadIs
  <2> QED BY <2>2 DEF b
<1> HIDE DEF p
<1>10. Len(u) > 0 /\ Len(p) > 0
  <2>1. ~(AtEof(u) \/ AtEof(p))
    BY <1>2 DEF ReadsData, PtsUnits, u, p
  <2> QED BY <1>7, <1>9, <2>1
<1>11. BehindData(offset, header.size) = behind + Len(p)
  BY <1>2 DEF BehindData, PtsUnits, u, p
<1> HIDE DEF behind
<1>12. behind < len /\ behind + Len(p) = Least(behind + 2, len)
  <2> DEFINE b == Len(p)
  <2>1. /\ b \in Nat /\ b > 0 /\ (behind + 2 <= len => b = 2)
        /\ behind <= len /\ behind + 2 > len => b = len - behind
        /\ behind > len => b = 0
    BY <1>9, <1>10
  <2> HIDE DEF b
  <2>2. behind < len /\ behind + b = Least(behind + 2, len)
    BY <1>1, <1>8, <2>1 DEF Least
  <2> QED BY <2>2 DEF b
<1>14. behind = offset + n /\ Len(u) = n
  BY <1>1, <1>2, <1>4, <1>6, <1>7, <1>12 DEF behind
<1>15. \A i \in 1..n : u[i] = d[i]
  <2> TAKE i \in 1..n
  <2>1. offset + i = e + 4 + i /\ e + 4 + i <= len /\ i \in 1..Len(u)
    BY <1>1, <1>2, <1>3, <1>4, <1>12, <1>14
  <2> QED BY <1>5, <1>7, <2>1
<1>16. u = d
  BY <1>5, <1>7, <1>14, <1>15
<1>17. TagEnd(k) = behind + 2
  BY <1>2, <1>3, <1>4, <1>14
<1>18. TagEnd(k) - 2 < len /\ behind + Len(p) = Least(TagEnd(k), len)
  BY <1>1, <1>8, <1>12, <1>17
<1> QED BY <1>2, <1>11, <1>16, <1>18 DEF PtsUnits, u, d, n

(* Behind what is left of a header there is no data.                       *)
LEMMA NoDataFound ==
  ASSUME FileInv, offset = Len(flv), NEW n \in Nat
  PROVE  ReadsData(offset, n) # "ok"
<1> DEFINE u == FileRead(offset, n)
<1>1. flv \in Seq(FlvUnits) /\ offset \in Nat /\ Len(flv) \in Nat
  BY DEF FileInv
<1>2. /\ Len(u) > 0 <=> ~AtEof(u)
      /\ offset + n <= Len(flv) => Len(u) = n
      /\ offset <= Len(flv) /\ offset + n > Len(flv) => Len(u) = Len(flv) - offset
  BY <1>1, ReadIs
<1> HIDE DEF u
<1>3. AtEof(u)
  BY <1>1, <1>2
<1> QED BY <1>3 DEF ReadsData, u

(* The header of the file.                                                 *)
LEMMA HeaderOfFile ==
  ASSUME FileInv, ReadsHeader(0) = "ok"
  PROVE  TagEnd(0) - PtsUnits < Len(flv) /\ BehindHeader(0) = Least(TagEnd(0), Len(flv))
<1> DEFINE u == FileRead(0, 2)
           len == Len(flv)
           behind == 0 + Len(u)
           p == FileRead(behind, 2)
<1>1. recorded \in Seq(FlvTags) /\ flv \in Seq(FlvUnits) /\ len \in Nat
  BY DEF FileInv
<1>2. TagEnd(0) = 4
  <2>1. 0 \in 0..Len(recorded)
    BY <1>1
  <2> QED BY <1>1, <2>1, EndOfTag
<1>3. /\ (Len(u) > 0 <=> ~AtEof(u)) /\ Len(u) \in Nat
      /\ 2 <= len => Len(u) = 2
      /\ 2 > len => Len(u) = len
  <2>1. flv \in Seq(FlvUnits) /\ 0 \in Nat /\ 2 \in Nat
    BY <1>1
  <2>2. /\ (Len(u) > 0 <=> ~AtEof(u)) /\ Len(u) \in Nat
        /\ 0 + 2 <= len => Len(u) = 2
        /\ 0 <= len /\ 0 + 2 > len => Len(u) = len - 0
    BY <2>1, ReadIs
  <2> QED BY <1>1, <2>2
<1> HIDE DEF u
<1>4. behind \in Nat
  BY <1>3
<1>5. /\ (Len(p) > 0 <=> ~AtEof(p)) /\ Len(p) \in Nat
      /\ behind + 2 <= len => Len(p) = 2
      /\ behind <= len /\ behind + 2 > len => Len(p) = len - behind
      /\ behind > len => Len(p) = 0
  <2> DEFINE b == behind
  <2>1. flv \in Seq(FlvUnits) /\ b \in Nat /\ 2 \in Nat
    BY <1>1, <1>4
  <2> HIDE DEF b
  <2>2. LET v == FileRead(b, 2) IN
        /\ (Len(v) > 0 <=> ~AtEof(v)) /\ Len(v) \in Nat
        /\ b + 2 <= len => Len(v) = 2
        /\ b <= len /\ b + 2 > len => Len(v) = len - b
        /\ b > len => Len(v) = 0
    BY <2>1, ReadIs
  <2> QED BY <2>2 DEF b
<1> HIDE DEF p
<1>6. Len(u) > 0 /\ Len(p) > 0
  <2>1. ~(AtEof(u) \/ AtEof(p))
    BY DEF ReadsHeader, SignatureUnits, PtsUnits, u, p
  <2> QED BY <1>3, <1>5, <2>1
<1>7. BehindHeader(0) = behind + Len(p)
  BY DEF BehindHeader, SignatureUnits, PtsUnits, u, p
<1>8. behind = 2 /\ len > 2
  <2>1. behind = Len(u)
    BY <1>3
  <2> HIDE DEF behind
  <2> DEFINE a == Len(u)
             b == Len(p)
  <2>2. /\ a \in Nat /\ (2 <= len => a = 2) /\ (2 > len => a = len) /\ behind = a
        /\ b \in Nat /\ b > 0
        /\ behind <= len /\ behind + 2 > len => b = len - behind
        /\ behind > len => b = 0
    BY <1>3, <1>5, <1>6, <2>1
  <2> HIDE DEF a, b
  <2> QED BY <1>1, <2>2
<1> HIDE DEF behind
<1>9. behind + Len(p) = Least(4, len)
  <2> DEFINE b == Len(p)
  <2>1. /\ b \in Nat /\ (2 + 2 <= len => b = 2)
        /\ 2 <= len /\ 2 + 2 > len => b = len - 2
    BY <1>5, <1>8
  <2> HIDE DEF b
  <2>2. 2 + b = Least(4, len)
    BY <1>1, <1>8, <2>1 DEF Least
  <2> QED BY <1>8, <2>2 DEF b
<1> QED BY <1>1, <1>2, <1>7, <1>8, <1>9 DEF PtsUnits

-----------------------------------------------------------------------------
(* The tags that a round is to send are the first ones, up to some tag.    *)
LEMMA PlayableFirst ==
  ASSUME FileInv
  PROVE  /\ Playable \subseteq 1..Len(recorded) /\ Len(recorded) \in Nat
         /\ \A k \in Playable : \A j \in 1..k : j \in Playable
         /\ \A k \in Playable : recorded[k].size > 0
<1>1. recorded \in Seq(FlvTags) /\ flv \in Seq(FlvUnits) /\ DOMAIN recorded = 1..Len(recorded)
      /\ Len(recorded) \in Nat /\ Len(flv) \in Nat
  BY DEF FileInv
<1>2. Playable \subseteq 1..Len(recorded)
  BY <1>1 DEF Playable
<1>3. ASSUME NEW k \in Playable, NEW j \in 1..k
      PROVE  j \in Playable
  <2>1. k \in 1..Len(recorded) /\ k \in Nat /\ j \in Nat /\ j <= k /\ k <= Len(recorded)
        /\ j \in 1..Len(recorded) /\ j \in DOMAIN recorded
    BY <1>1, <1>2
  <2>2. TagEnd(j) <= TagEnd(k) /\ TagEnd(j) \in Nat /\ TagEnd(k) \in Nat
    BY <1>1, <2>1, EndsGrow
  <2>3. /\ Len(flv) > TagEnd(k) - PtsUnits
        /\ \A i \in 1..k : Plain(i) \/ (recorded[i].size > 0 /\ plan.tool # "rtmp")
    BY DEF Playable
  <2>4. Len(flv) > TagEnd(j) - PtsUnits
    BY <1>1, <2>2, <2>3 DEF PtsUnits
  <2>5. \A i \in 1..j : Plain(i) \/ (recorded[i].size > 0 /\ plan.tool # "rtmp")
    BY <2>1, <2>3
  <2> QED BY <2>1, <2>4, <2>5 DEF Playable
<1>4. ASSUME NEW k \in Playable
      PROVE  recorded[k].size > 0
  <2>1. k \in 1..k
    BY <1>1, <1>2
  <2>2. Plain(k) \/ recorded[k].size > 0
    BY <2>1 DEF Playable
  <2> QED BY <2>2 DEF Plain
<1> QED BY <1>1, <1>2, <1>3, <1>4

(* What was sent so far is a part of what is to be sent, and all of it as  *)
(* soon as the next tag is not to be sent.                                 *)
LEMMA PlayableTo ==
  ASSUME FileInv, NEW n \in 0..Len(recorded), 1..n \subseteq Playable
  PROVE  /\ n <= Cardinality(Playable) /\ Cardinality(Playable) \in Nat
         /\ n + 1 \notin Playable => Cardinality(Playable) = n
<1>1. /\ Playable \subseteq 1..Len(recorded) /\ Len(recorded) \in Nat
      /\ \A k \in Playable : \A j \in 1..k : j \in Playable
  BY PlayableFirst
<1>2. n \in Nat
  BY <1>1
<1>3. IsFiniteSet(1..Len(recorded)) /\ IsFiniteSet(1..n) /\ Cardinality(1..n) = n
  <2>1. 1 \in Int /\ n \in Int /\ Len(recorded) \in Int
    BY <1>1, <1>2
  <2>2. IsFiniteSet(1..Len(recorded)) /\ IsFiniteSet(1..n)
        /\ Cardinality(1..n) = IF 1 > n THEN 0 ELSE n - 1 + 1
    BY <2>1, FS_Interval
  <2> QED BY <1>2, <2>2
<1>4. IsFiniteSet(Playable) /\ Cardinality(Playable) \in Nat
  BY <1>1, <1>3, FS_Subset, FS_CardinalityType
<1>5. Cardinality(1..n) <= Cardinality(Playable)
  BY <1>4, FS_Subset
<1>6. ASSUME n + 1 \notin Playable
      PROVE  Playable = 1..n
  <2>1. SUFFICES ASSUME NEW k \in Playable, k \notin 1..n PROVE FALSE
    OBVIOUS
  <2>2. k \in Nat /\ n + 1 \in 1..k
    BY <1>1, <1>2, <2>1
  <2> QED BY <1>1, <1>6, <2>2
<1> QED BY <1>3, <1>4, <1>5, <1>6

(* Where the file ends within the next tag, or the next tag has no data,   *)
(* that tag is not to be sent, and no other behind it.                     *)
LEMMA EndsHere ==
  ASSUME FileInv, NEW n, Behind(n), 1..n \subseteq Playable,
         \/ Len(flv) < TagEnd(n) + 5
         \/ n + 1 \in 1..Len(recorded) /\ ~(recorded[n + 1].size > 0)
  PROVE  Cardinality(Playable) = n
<1>1. /\ n \in 0..Len(recorded) /\ n \in Nat /\ Len(recorded) \in Nat /\ Len(flv) \in Nat
      /\ recorded \in Seq(FlvTags)
  BY DEF FileInv, Behind
<1>2. SUFFICES n + 1 \notin Playable
  BY <1>1, PlayableTo
<1>3. SUFFICES ASSUME n + 1 \in Playable PROVE FALSE
  OBVIOUS
<1>4. n + 1 \in 1..Len(recorded) /\ n + 1 \in 0..Len(recorded) /\ recorded[n + 1].size > 0
  BY <1>1, <1>3, PlayableFirst
<1>5. /\ TagEnd(n) \in Nat /\ recorded[n + 1] \in FlvTags
      /\ TagEnd(n + 1) = TagEnd(n) + 6 + recorded[n + 1].size
  <2> DEFINE k == n + 1
  <2>1. k \in 0..Len(recorded) /\ k > 0 /\ k - 1 = n
    BY <1>1, <1>4
  <2> HIDE DEF k
  <2>2. /\ TagEnd(k - 1) \in Nat /\ recorded[k] \in FlvTags
        /\ TagEnd(k) = TagEnd(k - 1) + 6 + recorded[k].size
    BY <1>1, <2>1, EndOfTag
  <2> QED BY <2>1, <2>2 DEF k
<1>6. Len(flv) > TagEnd(n + 1) - 2
  BY <1>3 DEF Playable, PtsUnits
<1>7. recorded[n + 1].size \in Nat
  BY <1>5 DEF FlvTags
<1> QED BY <1>1, <1>4, <1>5, <1>6, <1>7

-----------------------------------------------------------------------------
(* The tags of a round among what was sent.                                *)
Picked(s, r) == Among(s, {p \in Range(s) : p.kind = "tag" /\ p.round = r})

(* A sequence is one over its range.                                       *)
LEMMA RangeSeq ==
  ASSUME NEW S, NEW s \in Seq(S)
  PROVE  s \in Seq(Range(s)) /\ Range(s) \subseteq S
<1>1. \A i \in 1..Len(s) : s[i] \in Range(s)
  BY DEF Range
<1>2. s \in [1..Len(s) -> Range(s)] /\ Len(s) \in Nat
  BY <1>1
<1>3. Range(s) \subseteq S
  BY DEF Range
<1> HIDE DEF Range
<1> QED BY <1>2, <1>3

(* The range of a longer sequence.                                         *)
LEMMA RangeAppend ==
  ASSUME NEW s, s \in Seq(Range(s)), NEW x
  PROVE  /\ Range(Append(s, x)) = Range(s) \cup {x}
         /\ Append(s, x) \in Seq(Range(Append(s, x)))
<1> DEFINE S == Range(s) \cup {x}
           t == Append(s, x)
<1>1. s \in Seq(S)
  <2> DEFINE R == Range(s)
  <2>1. s \in Seq(R) /\ R \subseteq S
    OBVIOUS
  <2> HIDE DEF R, S
  <2> QED BY <2>1
<1>2. x \in S
  OBVIOUS
<1>3. /\ t \in Seq(S) /\ Len(t) = Len(s) + 1 /\ t[Len(s) + 1] = x /\ Len(s) \in Nat
      /\ \A i \in 1..Len(s) : t[i] = s[i]
  <2> HIDE DEF S
  <2> QED BY <1>1, <1>2
<1>4. DOMAIN t = 1..(Len(s) + 1) /\ DOMAIN s = 1..Len(s)
  BY <1>1, <1>3
<1>5. Range(t) = S
  <2>1. ASSUME NEW y \in Range(t) PROVE y \in S
    BY <1>3, <1>4, <2>1 DEF Range
  <2>2. ASSUME NEW y \in Range(s) PROVE y \in Range(t)
    <3>1. PICK i \in 1..Len(s) : y = s[i]
      BY <1>4 DEF Range
    <3>2. i \in DOMAIN t /\ t[i] = y
      BY <1>3, <1>4, <3>1
    <3> QED BY <3>2 DEF Range
  <2>3. x \in Range(t)
    <3>1. Len(s) + 1 \in DOMAIN t
      BY <1>3, <1>4
    <3> QED BY <1>3, <3>1 DEF Range
  <2> QED BY <2>1, <2>2, <2>3
<1> QED BY <1>3, <1>5

(* What is picked out does not depend on what else is in the set.          *)
LEMMA AmongSame ==
  ASSUME NEW S, NEW s \in Seq(S), NEW T, NEW U, \A x \in S : x \in T <=> x \in U
  PROVE  Among(s, T) = Among(s, U)
<1> DEFINE P == {q \in Seq(S) : Among(q, T) = Among(q, U)}
<1>1. << >> \in P
  BY AmongEmpty
<1>2. ASSUME NEW q \in P, NEW x \in S PROVE Append(q, x) \in P
  <2>1. q \in Seq(S) /\ Among(q, T) = Among(q, U) /\ Append(q, x) \in Seq(S)
    OBVIOUS
  <2>2. Among(Append(q, x), T) = IF x \in T THEN Append(Among(q, T), x) ELSE Among(q, T)
    BY <2>1, AmongAppend
  <2>3. Among(Append(q, x), U) = IF x \in U THEN Append(Among(q, U), x) ELSE Among(q, U)
    BY <2>1, AmongAppend
  <2>4. Among(Append(q, x), T) = Among(Append(q, x), U)
    BY <2>1, <2>2, <2>3
  <2> QED BY <2>1, <2>4
<1>3. P = Seq(S)
  <2>1. P \in SUBSET Seq(S)
    OBVIOUS
  <2> HIDE DEF P
  <2> QED BY <1>1, <1>2, <2>1, SeqInduction
<1> QED BY <1>3

(* The tags of a round are packets sent in that round.                     *)
LEMMA PickedType ==
  ASSUME NEW s, s \in Seq(Range(s)), NEW r
  PROVE  /\ Picked(s, r) \in Seq({p \in Range(s) : p.kind = "tag" /\ p.round = r})
         /\ Len(Picked(s, r)) \in Nat /\ DOMAIN Picked(s, r) = 1..Len(Picked(s, r))
<1> DEFINE R == Range(s)
           T == {p \in R : p.kind = "tag" /\ p.round = r}
<1>1. R \cap T = T
  OBVIOUS
<1>2. Picked(s, r) = Among(s, T)
  BY DEF Picked
<1>3. s \in Seq(R)
  OBVIOUS
<1> HIDE DEF R, T
<1>4. Among(s, T) \in Seq(R \cap T)
  BY <1>3, AmongType
<1>5. Picked(s, r) \in Seq(T)
  BY <1>1, <1>2, <1>4
<1>6. Len(Picked(s, r)) \in Nat /\ DOMAIN Picked(s, r) = 1..Len(Picked(s, r))
  BY <1>5
<1> QED BY <1>5, <1>6 DEF R, T

(* A packet more is a tag more of its round, or of none.                   *)
LEMMA PickedAppend ==
  ASSUME NEW s, s \in Seq(Range(s)), NEW x, NEW r
  PROVE  Picked(Append(s, x), r) = IF x.kind = "tag" /\ x.round = r THEN Append(Picked(s, r), x)
                                                                 ELSE Picked(s, r)
<1> DEFINE t == Append(s, x)
           S == Range(t)
           T == {p \in Range(s) : p.kind = "tag" /\ p.round = r}
           U == {p \in Range(t) : p.kind = "tag" /\ p.round = r}
<1>1. S = Range(s) \cup {x}
  BY RangeAppend
<1>2. s \in Seq(S) /\ x \in S
  <2> DEFINE R == Range(s)
  <2>1. s \in Seq(R) /\ R \subseteq S
    BY <1>1
  <2>2. x \in S
    BY <1>1
  <2> HIDE DEF R, S
  <2> QED BY <2>1, <2>2
<1>3. Among(t, U) = IF x \in U THEN Append(Among(s, U), x) ELSE Among(s, U)
  <2> HIDE DEF S, U
  <2> QED BY <1>2, AmongAppend
<1>4. Among(s, U) = Among(s, T)
  <2> DEFINE R == Range(s)
  <2>1. s \in Seq(R)
    OBVIOUS
  <2>2. \A y \in R : y \in T <=> y \in U
    BY <1>1
  <2> HIDE DEF R, T, U
  <2> QED BY <2>1, <2>2, AmongSame
<1>5. x \in U <=> (x.kind = "tag" /\ x.round = r)
  BY <1>2
<1> QED BY <1>3, <1>4, <1>5 DEF Picked

-----------------------------------------------------------------------------
(* The tool leaves the file as it is.                                      *)
LEMMA FileStays ==
  ASSUME UNCHANGED <<fileVars, plan>>
  PROVE  /\ Playable' = Playable /\ recorded' = recorded /\ flv' = flv
         /\ \A k : TagEnd(k)' = TagEnd(k)
         /\ FileInv /\ recorder = "done" => FileInv'
<1>1. recorded' = recorded /\ flv' = flv /\ recorder' = recorder /\ plan' = plan
  BY DEF fileVars
<1>2. \A k : TagEnd(k)' = TagEnd(k)
  BY <1>1 DEF TagEnd
<1>3. Playable' = Playable
  BY <1>1 DEF Playable, Plain, TagEnd
<1>4. FileInv /\ recorder = "done" => FileInv'
  BY <1>1 DEF FileInv
<1> QED BY <1>1, <1>2, <1>3, <1>4

(* A step that sends no tag leaves the tags of each round as they are.     *)
LEMMA SendsNoTag ==
  ASSUME History, \/ sent' = sent
                  \/ \E x : sent' = Append(sent, x) /\ x.kind # "tag" /\ x.round \in 0..rounds
  PROVE  /\ \A r : Picked(sent', r) = Picked(sent, r)
         /\ sent' \in Seq(Range(sent')) /\ \A p \in Range(sent') : p.round \in 0..rounds
<1>1. sent \in Seq(Range(sent)) /\ \A p \in Range(sent) : p.round \in 0..rounds
  BY DEF History
<1>2. CASE sent' = sent
  <2>1. \A r : Picked(sent', r) = Picked(sent, r)
    BY <1>2
  <2>2. Range(sent') = Range(sent)
    BY <1>2
  <2>3. sent' \in Seq(Range(sent'))
    BY <1>1, <1>2, <2>2
  <2> QED BY <1>1, <2>1, <2>2, <2>3
<1>3. ASSUME NEW x, sent' = Append(sent, x), x.kind # "tag", x.round \in 0..rounds
      PROVE  /\ \A r : Picked(sent', r) = Picked(sent, r)
             /\ sent' \in Seq(Range(sent')) /\ \A p \in Range(sent') : p.round \in 0..rounds
  <2> DEFINE t == Append(sent, x)
  <2>1. \A r : Picked(t, r) = Picked(sent, r)
    <3> TAKE r
    <3>1. Picked(t, r) = IF x.kind = "tag" /\ x.round = r THEN Append(Picked(sent, r), x)
                                                          ELSE Picked(sent, r)
      BY <1>1, PickedAppend
    <3> QED BY <1>3, <3>1
  <2>2. Range(t) = Range(sent) \cup {x} /\ t \in Seq(Range(t))
    BY <1>1, RangeAppend
  <2>3. \A p \in Range(t) : p.round \in 0..rounds
    BY <1>1, <1>3, <2>2
  <2>4. sent' = t
    BY <1>3
  <2> HIDE DEF t
  <2> QED BY <2>1, <2>2, <2>3, <2>4
<1> QED BY <1>2, <1>3

(* What a round has sent stays whole as long as its tags stay the same.    *)
LEMMA WholeStays ==
  ASSUME UNCHANGED <<fileVars, plan>>, NEW r, Picked(sent', r) = Picked(sent, r)
  PROVE  /\ TagsOf(r)' = TagsOf(r)
         /\ SentWhole(r) => SentWhole(r)'
         /\ AllSent(r) => AllSent(r)'
<1>1. TagsOf(r)' = Picked(sent', r) /\ TagsOf(r) = Picked(sent, r)
  BY DEF TagsOf, Picked
<1>2. Playable' = Playable /\ recorded' = recorded
  BY FileStays
<1>3. TagsOf(r)' = TagsOf(r)
  BY <1>1
<1>4. SentWhole(r) => SentWhole(r)'
  BY <1>2, <1>3 DEF SentWhole
<1>5. AllSent(r) => AllSent(r)'
  BY <1>2, <1>3 DEF AllSent
<1> QED BY <1>3, <1>4, <1>5

(* Within a round, a step that sends no tag keeps what is known of all of  *)
(* them.                                                                   *)
LEMMA HistoryKept ==
  ASSUME History, UNCHANGED <<fileVars, plan, rounds>>,
         \/ sent' = sent
         \/ \E x : sent' = Append(sent, x) /\ x.kind # "tag" /\ x.round \in 0..rounds
  PROVE  /\ History' /\ Count' = Count
         /\ AllSent(rounds) => AllSent(rounds)'
<1> DEFINE r0 == rounds
<1>1. /\ \A r : Picked(sent', r) = Picked(sent, r)
      /\ sent' \in Seq(Range(sent')) /\ \A p \in Range(sent') : p.round \in 0..rounds
  BY SendsNoTag
<1>2. rounds' = rounds /\ rounds \in Nat
  BY DEF History
<1>3. \A r \in 1..rounds : SentWhole(r)' /\ (r < rounds => AllSent(r)')
  <2> TAKE r \in 1..rounds
  <2>1. SentWhole(r) /\ (r < rounds => AllSent(r))
    BY DEF History
  <2>2. (SentWhole(r) => SentWhole(r)') /\ (AllSent(r) => AllSent(r)')
    BY <1>1, WholeStays
  <2> QED BY <2>1, <2>2
<1>4. History'
  BY <1>1, <1>2, <1>3 DEF History
<1>5. ASSUME NEW r, r = rounds
      PROVE  Count' = Count /\ (AllSent(rounds) => AllSent(rounds)')
  <2>1. TagsOf(r)' = TagsOf(r) /\ (AllSent(r) => AllSent(r)')
    BY <1>1, WholeStays
  <2>2. TagsOf(rounds) = TagsOf(r) /\ TagsOf(rounds)' = TagsOf(r)'
    BY <1>2, <1>5 DEF TagsOf
  <2>3. Count' = Count
    BY <2>1, <2>2 DEF Count
  <2>4. AllSent(rounds) => AllSent(rounds)'
    BY <2>1, <2>2 DEF AllSent
  <2> QED BY <2>3, <2>4
<1> QED BY <1>4, <1>5

(* A round begins: it has sent nothing.                                    *)
LEMMA HistoryBegins ==
  ASSUME History, UNCHANGED <<fileVars, plan>>, rounds' = rounds + 1,
         rounds > 0 => AllSent(rounds),
         \/ sent' = sent
         \/ \E x : sent' = Append(sent, x) /\ x.kind # "tag" /\ x.round \in 0..rounds
  PROVE  History' /\ Count' = 0
<1>1. /\ \A r : Picked(sent', r) = Picked(sent, r)
      /\ sent' \in Seq(Range(sent')) /\ \A p \in Range(sent') : p.round \in 0..rounds
  BY SendsNoTag
<1>2. rounds' = rounds + 1 /\ rounds \in Nat /\ rounds' \in Nat
  BY DEF History
<1>3. ASSUME NEW r, r = rounds + 1
      PROVE  Picked(sent', r) = << >> /\ Count' = 0
  <2> DEFINE s == sent'
             T == {p \in Range(s) : p.kind = "tag" /\ p.round = r}
  <2>1. T = {}
    BY <1>1, <1>2, <1>3
  <2>2. Picked(s, r) \in Seq(T)
    BY <1>1, PickedType
  <2> HIDE DEF T, s
  <2>3. Picked(s, r) = << >>
    BY <2>1, <2>2
  <2>4. TagsOf(rounds)' = Picked(s, r)
    BY <1>2, <1>3 DEF TagsOf, Picked, s
  <2>5. Len(TagsOf(rounds)') = 0
    BY <2>3, <2>4
  <2> QED BY <2>3, <2>5 DEF Count, s
<1>4. Count' = 0
  BY <1>3
<1>5. \A r \in 1..rounds' : SentWhole(r)' /\ (r < rounds' => AllSent(r)')
  <2> TAKE r \in 1..(rounds + 1)
  <2>1. CASE r \in 1..rounds
    <3>1. SentWhole(r) /\ (r < rounds => AllSent(r))
      BY <2>1 DEF History
    <3>2. AllSent(r)
      <4>1. CASE r = rounds
        <5>1. AllSent(rounds)
          BY <1>2, <2>1
        <5> QED BY <4>1, <5>1
      <4>2. CASE r < rounds
        BY <3>1, <4>2
      <4> QED BY <1>2, <2>1, <4>1, <4>2
    <3>3. (SentWhole(r) => SentWhole(r)') /\ (AllSent(r) => AllSent(r)')
      BY <1>1, WholeStays
    <3> QED BY <3>1, <3>2, <3>3
  <2>2. CASE r = rounds + 1
    <3>1. Picked(sent', r) = << >>
      BY <1>3, <2>2
    <3>2. TagsOf(r)' = << >>
      BY <3>1 DEF TagsOf, Picked
    <3>3. Len(<< >>) = 0 /\ DOMAIN << >> = {} /\ 1..0 = {}
      OBVIOUS
    <3>4. Len(recorded) \in Nat => SentWhole(r)'
      <4>1. Len(TagsOf(r)') = 0 /\ DOMAIN TagsOf(r)' = {}
        BY <3>2, <3>3
      <4>2. recorded' = recorded
        BY FileStays
      <4> QED BY <3>3, <4>1, <4>2 DEF SentWhole
    <3> QED BY <1>2, <2>2, <3>4
  <2> QED BY <1>2, <2>1, <2>2
<1>6. \A p \in Range(sent') : p.round \in 0..rounds'
  BY <1>1, <1>2
<1> QED BY <1>1, <1>2, <1>4, <1>5, <1>6 DEF History

(* A tag is sent: the next one of its round.                               *)
LEMMA HistoryGrows ==
  ASSUME FileInv, History, UNCHANGED <<fileVars, plan, rounds>>, rounds > 0,
         NEW x, sent' = Append(sent, x), x.kind = "tag", x.round = rounds,
         Count + 1 \in Playable, x.type = recorded[Count + 1].type,
         x.data = DataUnits(Count + 1, recorded[Count + 1].size)
  PROVE  History' /\ Count' = Count + 1
<1>1. /\ sent \in Seq(Range(sent)) /\ rounds \in Nat /\ rounds' = rounds
      /\ \A p \in Range(sent) : p.round \in 0..rounds
  BY DEF History
<1> DEFINE t == Append(sent, x)
<1>2. \A r : Picked(t, r) = IF r = rounds THEN Append(Picked(sent, r), x) ELSE Picked(sent, r)
  <2> TAKE r
  <2>1. Picked(t, r) = IF x.kind = "tag" /\ x.round = r THEN Append(Picked(sent, r), x)
                                                        ELSE Picked(sent, r)
    BY <1>1, PickedAppend
  <2> QED BY <2>1
<1>3. Range(t) = Range(sent) \cup {x} /\ t \in Seq(Range(t))
  BY <1>1, RangeAppend
<1>4. \A p \in Range(t) : p.round \in 0..rounds
  BY <1>1, <1>3
<1>5. sent' = t
  OBVIOUS
<1> HIDE DEF t
<1>6. recorded' = recorded /\ Playable' = Playable
  BY FileStays
<1>7. /\ Playable \subseteq 1..Len(recorded) /\ Len(recorded) \in Nat
  BY PlayableFirst
<1>8. ASSUME NEW r, r = rounds
      PROVE  SentWhole(r)' /\ Count' = Count + 1
  <2> DEFINE a == Picked(sent, r)
             b == Append(a, x)
             A == {p \in Range(sent) : p.kind = "tag" /\ p.round = r} \cup {x}
  <2>1. /\ TagsOf(rounds) = a /\ TagsOf(r) = a /\ TagsOf(rounds)' = Picked(t, r)
        /\ TagsOf(r)' = Picked(t, r)
    BY <1>1, <1>5, <1>8 DEF TagsOf, Picked
  <2>2. Picked(t, r) = b
    BY <1>2, <1>8
  <2>3. a \in Seq({p \in Range(sent) : p.kind = "tag" /\ p.round = r})
    BY <1>1, PickedType
  <2>4. a \in Seq(A) /\ x \in A
    <3> DEFINE B == {p \in Range(sent) : p.kind = "tag" /\ p.round = r}
    <3>1. a \in Seq(B) /\ B \subseteq A /\ x \in A
      BY <2>3
    <3> HIDE DEF a, A, B
    <3> QED BY <3>1
  <2> HIDE DEF a, A
  <2>5. /\ b \in Seq(A) /\ Len(b) = Len(a) + 1 /\ b[Len(a) + 1] = x /\ Len(a) \in Nat
        /\ \A i \in 1..Len(a) : b[i] = a[i]
    BY <2>4
  <2>6. DOMAIN b = 1..(Len(a) + 1) /\ DOMAIN a = 1..Len(a)
    BY <2>4, <2>5
  <2> HIDE DEF b
  <2>7. Count = Len(a)
    BY <2>1 DEF Count
  <2>8. Count' = Count + 1
    BY <2>1, <2>2, <2>5, <2>7 DEF Count
  <2>9. /\ Len(a) \in 0..Len(recorded) /\ 1..Len(a) \subseteq Playable
        /\ \A i \in DOMAIN a : a[i].type = recorded[i].type
                               /\ a[i].data = DataUnits(i, recorded[i].size)
    <3>1. r \in 1..rounds
      BY <1>1, <1>8
    <3>2. SentWhole(r)
      BY <3>1 DEF History
    <3> QED BY <2>1, <3>2 DEF SentWhole
  <2>10. Len(a) + 1 \in Playable
    BY <2>7
  <2>11. Len(b) \in 0..Len(recorded) /\ 1..Len(b) \subseteq Playable
    <3>1. Len(a) + 1 \in 1..Len(recorded)
      BY <1>7, <2>10
    <3>2. \A i \in 1..(Len(a) + 1) : i \in 1..Len(a) \/ i = Len(a) + 1
      BY <2>5
    <3>3. 1..(Len(a) + 1) \subseteq Playable
      BY <2>9, <2>10, <3>2
    <3> QED BY <1>7, <2>5, <3>1, <3>3
  <2>12. \A i \in DOMAIN b : b[i].type = recorded[i].type
                             /\ b[i].data = DataUnits(i, recorded[i].size)
    <3> TAKE i \in DOMAIN b
    <3>1. CASE i \in 1..Len(a)
      BY <2>5, <2>6, <2>9, <3>1
    <3>2. CASE i = Len(a) + 1
      BY <2>5, <2>7, <3>2
    <3> QED BY <2>5, <2>6, <3>1, <3>2
  <2>13. SentWhole(r)'
    BY <1>6, <2>1, <2>2, <2>11, <2>12 DEF SentWhole
  <2> QED BY <2>8, <2>13
<1>9. \A r \in 1..rounds : SentWhole(r)' /\ (r < rounds => AllSent(r)')
  <2> TAKE r \in 1..rounds
  <2>1. CASE r = rounds
    BY <1>1, <1>8, <2>1
  <2>2. CASE r # rounds
    <3>1. SentWhole(r) /\ (r < rounds => AllSent(r))
      BY DEF History
    <3>2. Picked(sent', r) = Picked(sent, r)
      BY <1>2, <1>5, <2>2
    <3>3. (SentWhole(r) => SentWhole(r)') /\ (AllSent(r) => AllSent(r)')
      BY <3>2, WholeStays
    <3> QED BY <3>1, <3>3
  <2> QED BY <2>1, <2>2
<1>10. History'
  BY <1>1, <1>3, <1>4, <1>5, <1>9 DEF History
<1> QED BY <1>8, <1>10

-----------------------------------------------------------------------------
(* What is known of the place in the file, in the next state.              *)
LEMMA CountNext ==
  ASSUME NEW n, Count' = n
  PROVE  /\ Behind(n)' => Behind(Count)'
         /\ HeaderRead(n + 1)' => HeaderRead(Count + 1)'
         /\ TagRead(n + 1)' => TagRead(Count + 1)'
<1>1. Behind(n)' => Behind(Count)'
  BY DEF Behind, TagEnd
<1>2. HeaderRead(n + 1)' => HeaderRead(Count + 1)'
  BY DEF HeaderRead, Kept, TagEnd
<1>3. TagRead(n + 1)' => TagRead(Count + 1)'
  BY DEF TagRead, Behind, Kept, TagEnd
<1> QED BY <1>1, <1>2, <1>3

(* The place behind a tag, and the place behind its header, from where the *)
(* file reader is.                                                         *)
LEMMA PlaceNext ==
  ASSUME UNCHANGED <<fileVars, plan>>, NEW n
  PROVE  /\ (/\ n \in 0..Len(recorded) /\ TagEnd(n) - PtsUnits < Len(flv)
             /\ offset' = Least(TagEnd(n), Len(flv))) => Behind(n)'
         /\ (/\ n + 1 \in 1..Len(recorded) /\ header'.type = recorded[n + 1].type
             /\ header'.size = recorded[n + 1].size /\ offset' = TagEnd(n) + 4
             /\ offset' <= Len(flv) /\ n \in Nat) => HeaderRead(n + 1)'
<1>1. recorded' = recorded /\ flv' = flv /\ TagEnd(n)' = TagEnd(n)
  BY FileStays
<1>2. ASSUME n \in 0..Len(recorded), TagEnd(n) - PtsUnits < Len(flv),
             offset' = Least(TagEnd(n), Len(flv))
      PROVE  Behind(n)'
  BY <1>1, <1>2 DEF Behind
<1>3. ASSUME n + 1 \in 1..Len(recorded), header'.type = recorded[n + 1].type,
             header'.size = recorded[n + 1].size, offset' = TagEnd(n) + 4,
             offset' <= Len(flv), n \in Nat
      PROVE  HeaderRead(n + 1)'
  <2>1. (n + 1) - 1 = n
    BY <1>3
  <2>2. TagEnd((n + 1) - 1)' = TagEnd(n)
    BY <1>1, <2>1 DEF TagEnd
  <2> QED BY <1>1, <1>3, <2>2 DEF HeaderRead, Kept
<1> QED BY <1>2, <1>3

(* A tag that was read whole is one that the round is to send, unless the  *)
(* tool stops at it.                                                       *)
LEMMA NextIsPlayable ==
  ASSUME FileInv, NEW n \in Nat, 1..n \subseteq Playable, TagRead(n + 1), ~Unknown
  PROVE  n + 1 \in Playable
<1>1. /\ n + 1 \in 1..Len(recorded) /\ header.type = recorded[n + 1].type
      /\ TagEnd(n + 1) - PtsUnits < Len(flv) /\ recorded[n + 1].size > 0
  BY DEF TagRead, Kept, Behind
<1>2. recorded \in Seq(FlvTags) /\ DOMAIN recorded = 1..Len(recorded) /\ Len(flv) \in Nat
  BY DEF FileInv
<1>3. TagEnd(n + 1) \in Nat
  BY <1>1, <1>2, EndOfTag
<1>4. Len(flv) > TagEnd(n + 1) - PtsUnits
  BY <1>1, <1>2, <1>3 DEF PtsUnits
<1>5. ASSUME NEW i \in 1..(n + 1)
      PROVE  Plain(i) \/ (recorded[i].size > 0 /\ plan.tool # "rtmp")
  <2>1. CASE i = n + 1
    BY <1>1, <2>1 DEF Unknown, Plain
  <2>2. CASE i \in 1..n
    <3>1. i \in Playable /\ i \in 1..i
      BY <2>2
    <3> QED BY <3>1 DEF Playable
  <2> QED BY <2>1, <2>2
<1> QED BY <1>1, <1>2, <1>4, <1>5 DEF Playable

(* What a round has sent so far.                                           *)
LEMMA SoFar ==
  ASSUME FileInv, History, rounds > 0
  PROVE  /\ Count \in Nat /\ Count \in 0..Len(recorded) /\ 1..Count \subseteq Playable
         /\ Cardinality(Playable) = Count <=> AllSent(rounds)
         /\ rounds \in 1..rounds
<1>1. rounds \in 1..rounds
  BY DEF History
<1>2. SentWhole(rounds)
  BY <1>1 DEF History
<1>3. Len(recorded) \in Nat
  BY DEF FileInv
<1> QED BY <1>1, <1>2, <1>3 DEF SentWhole, Count, AllSent


-----------------------------------------------------------------------------
(* At the begin there is the front of the file, and nothing was sent.      *)
LEMMA PlayBegins == FileInit /\ ToolInit => PlayInv
<1> SUFFICES ASSUME FileInit, ToolInit  PROVE  PlayInv
  OBVIOUS
<1>1. /\ recorder = "recording" /\ recorded = << >> /\ flv = FileFront
      /\ pc = "waits" /\ rounds = 0 /\ sent = << >> /\ ret = "ok" /\ offset = 0
  BY DEF FileInit, ToolInit, Waits, FileFront
<1>2. FileOf(<< >>) = FileFront
  <2>1. Parts(<< >>) = << >>
    BY DEF Parts
  <2>2. FileOf(<< >>) = FileFront \o << >>
    BY <2>1, FlattenEmpty DEF FileOf, FileFront, Parts
  <2>3. FileFront \o << >> = FileFront
    BY FrontType
  <2> QED BY <2>2, <2>3
<1>3. flv \in Seq(FlvUnits) /\ Len(flv) = 4
  BY <1>1, FrontType
<1>4. recorded \in Seq(FlvTags)
  BY <1>1
<1>5. FileInv
  BY <1>1, <1>2, <1>3, <1>4 DEF FileInv
<1>6. Range(sent) = {} /\ sent \in Seq(Range(sent))
  BY <1>1 DEF Range
<1>7. History
  BY <1>1, <1>6 DEF History
<1>8. Placed
  BY <1>1 DEF Placed
<1> QED BY <1>5, <1>7, <1>8 DEF PlayInv

(* While the tool waits for the file, nothing was sent.                    *)
LEMMA WaitingStays ==
  ASSUME PlayInv, pc = "waits", UNCHANGED toolVars
  PROVE  History' /\ Placed'
<1>1. /\ pc' = "waits" /\ rounds = 0 /\ rounds' = 0 /\ sent' = << >> /\ ret' = "ok"
      /\ offset' = 0
  BY DEF PlayInv, Placed, toolVars
<1>2. Range(sent') = {} /\ sent' \in Seq(Range(sent'))
  BY <1>1 DEF Range
<1>3. History'
  BY <1>1, <1>2 DEF History
<1>4. Placed'
  BY <1>1 DEF Placed
<1> QED BY <1>3, <1>4

(* The recorder goes on.                                                   *)
LEMMA RecordKeeps ==
  ASSUME PlayInv, Record, UNCHANGED toolVars
  PROVE  PlayInv'
<1>1. /\ FileInv /\ recorded \in Seq(FlvTags) /\ flv \in Seq(FlvUnits)
      /\ recorder = "recording" => pc = "waits" /\ flv = FileOf(recorded)
  BY DEF PlayInv, FileInv
<1>2. recorder = "recording"
  BY DEF Record, WriteTag, RecordingEnds
<1>3. pc = "waits" /\ flv = FileOf(recorded) /\ pc' = pc
  BY <1>1, <1>2 DEF toolVars
<1>4. History' /\ Placed'
  BY <1>3, WaitingStays
<1>5. ASSUME NEW kind \in TagKinds, NEW step \in IF recorded = << >> THEN Starts ELSE TagSteps,
             WriteTag(kind, step)
      PROVE  FileInv'
  <2> DEFINE t == [type |-> kind.type, size |-> kind.size, time |-> LastTime + step, stream |-> 0]
             more == Append(recorded, t)
  <2>1. /\ recorded' = more /\ recorder' = "recording"
        /\ flv' = flv \o WriteTagUnits(Len(recorded'), Last(recorded'))
    BY <1>2, <1>5 DEF WriteTag
  <2>2. LastTime \in Nat
    <3>1. CASE recorded = << >>
      BY <3>1 DEF LastTime
    <3>2. CASE recorded # << >>
      <4>1. Len(recorded) \in 1..Len(recorded)
        <5> HIDE DEF FlvTags
        <5> QED BY <1>1, <3>2
      <4>2. recorded[Len(recorded)] \in FlvTags
        <5> HIDE DEF FlvTags
        <5> QED BY <1>1, <4>1
      <4>3. recorded[Len(recorded)].time \in Nat
        BY <4>2 DEF FlvTags
      <4> QED BY <3>2, <4>3 DEF LastTime, Last
    <3> QED BY <3>1, <3>2
  <2>3. t \in FlvTags
    <3>1. kind.size \in Nat /\ step \in Nat
      BY FileAssumption
    <3>2. LastTime + step \in Nat
      BY <2>2, <3>1
    <3> HIDE DEF LastTime
    <3> QED BY <3>1, <3>2 DEF FlvTags
  <2> HIDE DEF t, FlvTags
  <2>4. /\ more \in Seq(FlvTags) /\ Len(more) = Len(recorded) + 1 /\ more[Len(recorded) + 1] = t
        /\ Len(recorded) \in Nat
    BY <1>1, <2>3
  <2>5. Last(more) = t
    BY <2>4 DEF Last
  <2>6. flv' = FileOf(recorded) \o WriteTagUnits(Len(recorded) + 1, t)
    BY <1>3, <2>1, <2>4, <2>5
  <2>7. FileOf(more) = FileOf(recorded) \o WriteTagUnits(Len(recorded) + 1, t)
        /\ FileOf(more) \in Seq(FlvUnits)
    BY <1>1, <2>3, FileGrows
  <2>8. recorded' \in Seq(FlvTags) /\ flv' = FileOf(recorded') /\ flv' \in Seq(FlvUnits)
    <3> HIDE DEF more
    <3> QED BY <2>1, <2>4, <2>6, <2>7
  <2>9. Len(flv') \in Nat
    BY <2>8
  <2> QED BY <1>3, <2>1, <2>8, <2>9 DEF FileInv
<1>6. ASSUME RecordingEnds
      PROVE  FileInv'
  <2>1. PICK cut \in 0..Len(flv) : flv' = SubSeq(flv, 1, cut)
    BY <1>6 DEF RecordingEnds
  <2>2. recorded' = recorded /\ recorder' = "done"
    BY <1>6 DEF RecordingEnds
  <2> HIDE DEF FlvUnits
  <2>3. /\ flv' \in Seq(FlvUnits) /\ Len(flv') = cut /\ cut <= Len(flv)
        /\ \A i \in 1..cut : flv'[i] = flv[i]
    BY <1>1, <2>1
  <2> QED BY <1>1, <1>3, <2>2, <2>3 DEF FileInv
<1> QED BY <1>4, <1>5, <1>6 DEF Record, PlayInv

(* While the tool is at work, the file is there.                           *)
LEMMA FileThere ==
  ASSUME PlayInv, pc # "waits" \/ recorder = "done", UNCHANGED <<fileVars, plan>>
  PROVE  FileInv /\ FileInv' /\ History /\ Placed
<1>1. FileInv /\ History /\ Placed /\ recorder = "done"
  BY DEF PlayInv, FileInv
<1> QED BY <1>1, FileStays

(* A round begins: the file reader is behind the front of the file.        *)
LEMMA RoundKeeps ==
  ASSUME PlayInv, StartRound
  PROVE  PlayInv'
<1>1. pc = "round" /\ UNCHANGED <<fileVars, plan>>
  BY DEF StartRound
<1>2. FileInv /\ FileInv' /\ History /\ Placed
  BY <1>1, FileThere
<1>3. offset = 0 /\ (rounds > 0 => AllSent(rounds)) /\ rounds \in Nat
  BY <1>1, <1>2 DEF Placed, History
<1>4. CASE ret' = "ok"
  <2>1. /\ ReadsHeader(0) = "ok" /\ pc' = "tag" /\ rounds' = rounds + 1
        /\ offset' = BehindHeader(0)
    BY <1>3, <1>4 DEF StartRound
  <2>2. \/ sent' = sent
        \/ \E x : sent' = Append(sent, x) /\ x.kind # "tag" /\ x.round \in 0..rounds
    <3>1. sent' = sent \/ sent' = Append(sent, FlvHeader)
      BY <1>4 DEF StartRound
    <3>2. FlvHeader.kind # "tag" /\ FlvHeader.round \in 0..rounds
      BY <1>3 DEF FlvHeader
    <3> QED BY <3>1, <3>2
  <2>3. History' /\ Count' = 0
    BY <1>1, <1>2, <1>3, <2>1, <2>2, HistoryBegins
  <2>4. TagEnd(0) - PtsUnits < Len(flv) /\ offset' = Least(TagEnd(0), Len(flv))
    BY <1>2, <2>1, HeaderOfFile
  <2>5. 0 \in 0..Len(recorded)
    BY <1>2 DEF FileInv
  <2>6. Behind(0)'
    BY <1>1, <2>4, <2>5, PlaceNext
  <2>7. Behind(Count)'
    BY <2>3, <2>6, CountNext
  <2>8. rounds' > 0
    BY <1>3, <2>1
  <2>9. Placed'
    BY <2>1, <2>7, <2>8 DEF Placed
  <2> QED BY <1>2, <2>3, <2>9 DEF PlayInv
<1>5. CASE ret' # "ok"
  <2>1. pc' = "done" /\ rounds' = rounds /\ sent' = sent
    BY <1>5 DEF StartRound
  <2>2. History'
    BY <1>1, <1>2, <2>1, HistoryKept
  <2>3. Placed'
    BY <1>5, <2>1 DEF Placed
  <2> QED BY <1>2, <2>2, <2>3 DEF PlayInv
<1> QED BY <1>4, <1>5

(* A packet of the tool's own is sent between two tags.                    *)
LEMMA SeiKeeps ==
  ASSUME PlayInv, InjectSei
  PROVE  PlayInv'
<1>1. pc = "tag" /\ UNCHANGED <<fileVars, plan, rounds, offset, header>>
  BY DEF InjectSei
<1>2. FileInv /\ FileInv' /\ History /\ Placed
  BY <1>1, FileThere
<1>3. rounds > 0 /\ Behind(Count) /\ rounds \in Nat
  BY <1>1, <1>2 DEF Placed, History
<1>4. \/ sent' = sent
      \/ \E x : sent' = Append(sent, x) /\ x.kind # "tag" /\ x.round \in 0..rounds
  <2>1. sent' = sent \/ sent' = Append(sent, Sei(U32(timestamp + base)))
    BY DEF InjectSei
  <2>2. Sei(U32(timestamp + base)).kind = "sei" /\ Sei(U32(timestamp + base)).round = rounds
    BY DEF Sei
  <2>3. rounds \in 0..rounds
    BY <1>3
  <2> QED BY <2>1, <2>2, <2>3
<1>5. History' /\ Count' = Count
  BY <1>1, <1>2, <1>4, HistoryKept
<1>6. ASSUME NEW n, n = Count
      PROVE  Behind(Count)'
  <2>1. /\ n \in 0..Len(recorded) /\ TagEnd(n) - PtsUnits < Len(flv)
        /\ offset' = Least(TagEnd(n), Len(flv))
    BY <1>1, <1>3, <1>6 DEF Behind
  <2>2. Behind(n)'
    BY <1>1, <2>1, PlaceNext
  <2> QED BY <1>5, <1>6, <2>2, CountNext
<1>7. Behind(Count)'
  BY <1>6
<1>8. pc' = "tag" \/ (pc' = "end" /\ ret' = "error")
  BY <1>1 DEF InjectSei
<1>9. Placed'
  BY <1>1, <1>3, <1>7, <1>8 DEF Placed
<1> QED BY <1>2, <1>5, <1>9 DEF PlayInv

(* The header of the next tag, or the end of the file.                     *)
LEMMA HeaderKeeps ==
  ASSUME PlayInv, ReadTagHeader
  PROVE  PlayInv'
<1> DEFINE units == FileRead(offset, Len(Fields))
<1>1. /\ pc = "tag" /\ UNCHANGED <<fileVars, plan, rounds>> /\ sent' = sent
      /\ ret' = "ok" /\ offset' = offset + Len(units)
  BY DEF ReadTagHeader
<1>2. FileInv /\ FileInv' /\ History /\ Placed
  BY <1>1, FileThere
<1>3. rounds > 0 /\ Behind(Count) /\ rounds' = rounds
  BY <1>1, <1>2 DEF Placed
<1>4. /\ History' /\ Count' = Count
      /\ AllSent(rounds) => AllSent(rounds)'
  BY <1>1, <1>2, HistoryKept
<1>5. /\ Count \in Nat /\ 1..Count \subseteq Playable
      /\ Cardinality(Playable) = Count => AllSent(rounds)
  BY <1>2, <1>3, SoFar
<1>6. ASSUME NEW n, n = Count
      PROVE  Placed'
  <2>1. n \in Nat /\ 1..n \subseteq Playable /\ Behind(n)
    BY <1>3, <1>5, <1>6
  <2>5. TagEnd(n) \in Nat /\ Len(flv) \in Nat
    <3>1. n \in 0..Len(recorded)
      BY <2>1 DEF Behind
    <3>2. recorded \in Seq(FlvTags) /\ Len(flv) \in Nat
      BY <1>2 DEF FileInv
    <3> QED BY <3>1, <3>2, EndOfTag
  <2>2. CASE AtEof(units)
    <3>1. pc' \in {"free", "end"}
      BY <2>2 DEF ReadTagHeader
    <3>2. Len(flv) <= TagEnd(n)
      BY <1>2, <2>1, <2>2, NoHeaderFound
    <3>3. Len(flv) < TagEnd(n) + 5
      <4>1. TagEnd(n) \in Nat /\ Len(flv) \in Nat
        BY <2>5
      <4> QED BY <3>2, <4>1
    <3>4. Cardinality(Playable) = n
      BY <1>2, <2>1, <3>3, EndsHere
    <3>5. AllSent(rounds)'
      BY <1>4, <1>5, <1>6, <3>4
    <3> QED BY <1>3, <3>1, <3>5 DEF Placed
  <2>3. CASE ~AtEof(units)
    <3>1. PICK h \in TagHeaders(units) :
            /\ header' = [type |-> h.type, size |-> h.size, time |-> h.time, data |-> <<>>]
            /\ (h.size <= 0 => pc' = "free") /\ (~(h.size <= 0) => pc' = "data")
      BY <2>3 DEF ReadTagHeader
    <3>2. header'.type = h.type /\ header'.size = h.size
      BY <3>1
    <3>3. /\ offset = TagEnd(n) /\ n + 1 \in 1..Len(recorded) /\ h.size \in Int
          /\ offset + 4 <= Len(flv) =>
                /\ offset' = offset + 4
                /\ h.type = recorded[n + 1].type /\ h.size = recorded[n + 1].size
          /\ offset + 4 > Len(flv) => offset' = Len(flv)
      <4> HIDE DEF units
      <4>1. offset' = offset + Len(units)
        BY <1>1
      <4> QED BY <1>2, <2>1, <2>3, <4>1, HeaderFound DEF units
    <3>4. TagEnd(n) \in Nat /\ Len(flv) \in Nat
      BY <2>5
    <3>5. CASE h.size <= 0
      <4>1. Cardinality(Playable) = n
        <5>1. CASE offset + 4 <= Len(flv)
          <6>1. ~(recorded[n + 1].size > 0)
            BY <3>3, <3>5, <5>1
          <6> QED BY <1>2, <2>1, <3>3, <6>1, EndsHere
        <5>2. CASE ~(offset + 4 <= Len(flv))
          <6>1. Len(flv) < TagEnd(n) + 5
            BY <3>3, <3>4, <5>2
          <6> QED BY <1>2, <2>1, <6>1, EndsHere
        <5> QED BY <5>1, <5>2
      <4>2. AllSent(rounds)'
        BY <1>4, <1>5, <1>6, <4>1
      <4> QED BY <1>3, <3>1, <3>5, <4>2 DEF Placed
    <3>6. CASE ~(h.size <= 0)
      <4>1. /\ pc' = "data" /\ header'.size \in Int /\ header'.size > 0
            /\ {"type", "size", "data"} \subseteq DOMAIN header'
        BY <3>1, <3>2, <3>3, <3>6
      <4>2. HeaderRead(Count + 1)' \/ offset' = Len(flv')
        <5>1. CASE offset + 4 <= Len(flv)
          <6>1. /\ header'.type = recorded[n + 1].type /\ header'.size = recorded[n + 1].size
                /\ offset' = TagEnd(n) + 4 /\ offset' <= Len(flv)
            BY <3>2, <3>3, <5>1
          <6>2. HeaderRead(n + 1)'
            BY <1>1, <2>1, <3>3, <6>1, PlaceNext
          <6>3. Count' = n
            BY <1>4, <1>6
          <6> QED BY <6>2, <6>3, CountNext
        <5>2. CASE ~(offset + 4 <= Len(flv))
          <6>1. offset' = Len(flv)
            BY <3>3, <3>4, <5>2
          <6>2. flv' = flv
            BY <1>1 DEF fileVars
          <6> QED BY <6>1, <6>2
        <5> QED BY <5>1, <5>2
      <4> QED BY <1>3, <4>1, <4>2 DEF Placed
    <3> QED BY <3>5, <3>6
  <2> QED BY <2>2, <2>3
<1>7. Placed'
  BY <1>6
<1> QED BY <1>2, <1>4, <1>7 DEF PlayInv

(* Its data.                                                               *)
LEMMA DataKeeps ==
  ASSUME PlayInv, ReadTagData
  PROVE  PlayInv'
<1>1. /\ pc = "data" /\ UNCHANGED <<fileVars, plan, rounds>> /\ sent' = sent
      /\ ret' = ReadsData(offset, header.size) /\ offset' = BehindData(offset, header.size)
      /\ header' = [header EXCEPT !.data = FileRead(offset, header.size)]
      /\ (ret' = "ok" => pc' = "write") /\ (ret' # "ok" => pc' = "free")
  BY DEF ReadTagData
<1>2. FileInv /\ FileInv' /\ History /\ Placed
  BY <1>1, FileThere
<1>3. /\ rounds > 0 /\ header.size \in Int /\ header.size > 0 /\ rounds' = rounds
      /\ HeaderRead(Count + 1) \/ offset = Len(flv)
  BY <1>1, <1>2 DEF Placed
<1>4. History' /\ Count' = Count
  BY <1>1, <1>2, HistoryKept
<1>5. CASE ret' # "ok"
  <2>1. pc' = "free"
    BY <1>1, <1>5
  <2>2. Placed'
    BY <1>5, <2>1 DEF Placed
  <2> QED BY <1>2, <1>4, <2>2 DEF PlayInv
<1>6. CASE ret' = "ok"
  <2>1. HeaderRead(Count + 1)
    <3>1. CASE offset = Len(flv)
      <4>1. header.size \in Nat
        BY <1>3
      <4>2. ReadsData(offset, header.size) # "ok"
        BY <1>2, <3>1, <4>1, NoDataFound
      <4> QED BY <1>1, <1>6, <4>2
    <3> QED BY <1>3, <3>1
  <2>2. ASSUME NEW n, n = Count
        PROVE  Placed'
    <3> DEFINE k == n + 1
    <3>1. n \in Nat /\ HeaderRead(k)
      BY <1>2, <1>3, <2>1, <2>2, SoFar
    <3>2. k \in 1..Len(recorded) /\ header.type = recorded[k].type /\ header.size = recorded[k].size
      BY <3>1 DEF HeaderRead, Kept
    <3>3. ReadsData(offset, header.size) = "ok"
      BY <1>1, <1>6
    <3>4. /\ FileRead(offset, header.size) = DataUnits(k, recorded[k].size)
          /\ TagEnd(k) - PtsUnits < Len(flv)
          /\ offset' = Least(TagEnd(k), Len(flv))
      <4> HIDE DEF k
      <4>1. /\ FileRead(offset, header.size) = DataUnits(k, recorded[k].size)
            /\ TagEnd(k) - PtsUnits < Len(flv)
            /\ BehindData(offset, header.size) = Least(TagEnd(k), Len(flv))
        BY <1>2, <1>3, <3>1, <3>3, DataFound
      <4> QED BY <1>1, <4>1
    <3>5. k \in 0..Len(recorded)
      BY <3>2
    <3>6. Behind(k)'
      <4> HIDE DEF k
      <4> QED BY <1>1, <3>4, <3>5, PlaceNext
    <3>7. /\ header'.type = header.type /\ header'.size = header.size
          /\ header'.data = DataUnits(k, recorded[k].size)
      <4>1. {"type", "size", "data"} \subseteq DOMAIN header
        BY <1>1, <1>2 DEF Placed
      <4> QED BY <1>1, <3>4, <4>1
    <3>8. TagRead(k)'
      <4>1. recorded' = recorded
        BY <1>1 DEF fileVars
      <4>2. k \in 1..Len(recorded) /\ recorded[k].size > 0
        BY <1>3, <3>2
      <4> HIDE DEF k
      <4> QED BY <3>2, <3>6, <3>7, <4>1, <4>2 DEF TagRead, Kept
    <3>9. TagRead(Count + 1)'
      <4>1. Count' = n
        BY <1>4, <2>2
      <4> QED BY <3>8, <4>1, CountNext
    <3> QED BY <1>1, <1>3, <1>6, <3>9 DEF Placed
  <2>3. Placed'
    BY <2>2
  <2> QED BY <1>2, <1>4, <2>3 DEF PlayInv
<1> QED BY <1>5, <1>6

(* A tag goes out.                                                         *)
LEMMA TagGoesOut ==
  ASSUME PlayInv, pc = "write", UNCHANGED <<fileVars, plan, rounds, offset, header>>, ~Unknown,
         sent' = Append(sent, Tag), pc' = "tag"
  PROVE  PlayInv'
<1>1. FileInv /\ FileInv' /\ History /\ Placed
  BY FileThere
<1>2. rounds > 0 /\ TagRead(Count + 1) /\ rounds' = rounds
  BY <1>1 DEF Placed
<1>3. Count \in Nat /\ 1..Count \subseteq Playable
  BY <1>1, <1>2, SoFar
<1>4. ASSUME NEW n, n = Count
      PROVE  History' /\ Placed'
  <2>1. n \in Nat /\ 1..n \subseteq Playable /\ TagRead(n + 1)
    BY <1>2, <1>3, <1>4
  <2>2. n + 1 \in Playable
    BY <1>1, <2>1, NextIsPlayable
  <2>3. /\ Tag.kind = "tag" /\ Tag.round = rounds /\ Tag.type = recorded[n + 1].type
        /\ Tag.data = DataUnits(n + 1, recorded[n + 1].size)
    BY <2>1 DEF Tag, TagRead, Kept
  <2>4. History' /\ Count' = n + 1
    <3> DEFINE x == Tag
    <3>1. /\ sent' = Append(sent, x) /\ x.kind = "tag" /\ x.round = rounds
          /\ Count + 1 \in Playable /\ x.type = recorded[Count + 1].type
          /\ x.data = DataUnits(Count + 1, recorded[Count + 1].size)
      BY <1>4, <2>2, <2>3
    <3> HIDE DEF x
    <3>2. History' /\ Count' = Count + 1
      BY <1>1, <1>2, <3>1, HistoryGrows
    <3> QED BY <1>4, <3>2
  <2>5. Behind(n + 1)
    BY <2>1 DEF TagRead
  <2>6. Behind(n + 1)'
    <3>1. /\ n + 1 \in 0..Len(recorded) /\ TagEnd(n + 1) - PtsUnits < Len(flv)
          /\ offset' = Least(TagEnd(n + 1), Len(flv))
      BY <2>5 DEF Behind
    <3> QED BY <3>1, PlaceNext
  <2>7. Behind(Count)'
    BY <2>4, <2>6, CountNext
  <2> QED BY <1>2, <2>4, <2>7 DEF Placed
<1>5. History' /\ Placed'
  BY <1>4
<1> QED BY <1>1, <1>5 DEF PlayInv

(* A step that neither reads nor sends a tag, and is at no tag behind it.  *)
LEMMA EndKeeps ==
  ASSUME PlayInv, pc # "waits", UNCHANGED <<fileVars, plan, rounds>>,
         \/ sent' = sent
         \/ \E x : sent' = Append(sent, x) /\ x.kind # "tag" /\ x.round \in 0..rounds,
         pc' \in {"round", "free", "end", "eos", "done", "aborted"},
         pc' = "round" => offset' = 0 /\ ret' = "ok" /\ (rounds > 0 => AllSent(rounds)),
         pc' \in {"free", "end"} /\ ret' = "ok" => rounds > 0 /\ AllSent(rounds),
         pc' = "eos" => plan.tool = "rtmp" /\ plan.list = 0,
         pc' = "done" /\ ret' = "ok" /\ rounds > 0 =>
            AllSent(rounds) \/ (plan.tool = "rtmp" /\ plan.list = 0)
  PROVE  PlayInv'
<1>1. FileInv /\ FileInv' /\ History /\ Placed
  BY FileThere
<1>2. History' /\ (AllSent(rounds) => AllSent(rounds)')
  BY <1>1, HistoryKept
<1>3. Placed'
  BY <1>2 DEF Placed
<1> QED BY <1>1, <1>2, <1>3 DEF PlayInv

(* Every step of the tool keeps the invariant.                             *)
LEMMA ToolKeeps == PlayInv /\ Tool => PlayInv'
<1> SUFFICES ASSUME PlayInv, Tool  PROVE PlayInv'
  OBVIOUS
<1>1. Placed /\ FileInv /\ History
  BY DEF PlayInv
<1>2. ASSUME Opens  PROVE PlayInv'
  <2>1. /\ pc = "waits" /\ recorder = "done" /\ pc' = "round"
        /\ UNCHANGED <<fileVars, plan, rounds>> /\ sent' = sent
        /\ offset' = offset /\ ret' = ret
    BY <1>2 DEF Opens
  <2>2. offset' = 0 /\ ret' = "ok" /\ rounds = 0
    BY <1>1, <2>1 DEF Placed
  <2>3. FileInv'
    BY <2>1, FileThere
  <2>4. History'
    BY <1>1, <2>1, HistoryKept
  <2>5. Placed'
    BY <2>1, <2>2 DEF Placed
  <2> QED BY <2>3, <2>4, <2>5 DEF PlayInv
<1>3. ASSUME SendTag  PROVE PlayInv'
  <2>1. pc = "write" /\ UNCHANGED <<fileVars, plan, rounds, offset, header>>
    BY <1>3 DEF SendTag
  <2>2. CASE ~Unknown /\ sent' = Append(sent, Tag) /\ pc' = "tag"
    BY <2>1, <2>2, TagGoesOut
  <2>3. CASE sent' = sent /\ ret' = "error" /\ pc' \in {"end", "free", "aborted"}
    BY <2>1, <2>3, EndKeeps
  <2>4. \/ ~Unknown /\ sent' = Append(sent, Tag) /\ pc' = "tag"
        \/ sent' = sent /\ ret' = "error" /\ pc' \in {"end", "free", "aborted"}
    <3> HIDE DEF Tag, Unknown
    <3> QED BY <1>3 DEF SendTag
  <2> QED BY <2>2, <2>3, <2>4
<1>4. ASSUME PrintTag  PROVE PlayInv'
  <2>1. /\ pc = "write" /\ UNCHANGED <<fileVars, plan, rounds, offset, header>>
        /\ plan.tool = "play" /\ sent' = Append(sent, Tag) /\ pc' = "tag"
    BY <1>4 DEF PrintTag
  <2>2. ~Unknown
    BY <2>1 DEF Unknown
  <2> QED BY <2>1, <2>2, TagGoesOut
<1>5. ASSUME FreeData  PROVE PlayInv'
  <2>1. /\ pc = "free" /\ UNCHANGED <<fileVars, plan, rounds>> /\ sent' = sent /\ ret' = ret
        /\ pc' \in {"end", "aborted"}
    BY <1>5 DEF FreeData
  <2>2. ret = "ok" => rounds > 0 /\ AllSent(rounds)
    BY <1>1, <2>1 DEF Placed
  <2> QED BY <2>1, <2>2, EndKeeps
<1>6. ASSUME EndFile  PROVE PlayInv'
  <2>1. /\ pc = "end" /\ UNCHANGED <<fileVars, plan, rounds>> /\ sent' = sent /\ ret' = ret
        /\ plan.list = 0 /\ offset' = 0 /\ pc' \in {"round", "eos", "done"}
        /\ (pc' = "round" => ret = "ok") /\ (pc' = "eos" => plan.tool = "rtmp")
    BY <1>6 DEF EndFile, Again
  <2>2. ret = "ok" => rounds > 0 /\ AllSent(rounds)
    BY <1>1, <2>1 DEF Placed
  <2> QED BY <2>1, <2>2, EndKeeps
<1>7. ASSUME EndListed  PROVE PlayInv'
  <2>1. /\ pc = "end" /\ UNCHANGED <<fileVars, plan, rounds>> /\ sent' = sent /\ ret' = ret
        /\ offset' = 0 /\ pc' \in {"round", "done"} /\ (pc' = "round" => ret = "ok")
    BY <1>7 DEF EndListed, Again
  <2>2. ret = "ok" => rounds > 0 /\ AllSent(rounds)
    BY <1>1, <2>1 DEF Placed
  <2> QED BY <2>1, <2>2, EndKeeps
<1>8. ASSUME EndPlay  PROVE PlayInv'
  <2>1. /\ pc = "end" /\ UNCHANGED <<fileVars, plan, rounds>> /\ sent' = sent /\ ret' = ret
        /\ pc' = "done"
    BY <1>8 DEF EndPlay
  <2>2. ret = "ok" => rounds > 0 /\ AllSent(rounds)
    BY <1>1, <2>1 DEF Placed
  <2> QED BY <2>1, <2>2, EndKeeps
<1>9. ASSUME SendEos  PROVE PlayInv'
  <2>1. /\ pc = "eos" /\ UNCHANGED <<fileVars, plan, rounds>> /\ pc' = "done"
    BY <1>9 DEF SendEos
  <2>2. plan.tool = "rtmp" /\ plan.list = 0
    BY <1>1, <2>1 DEF Placed
  <2>3. \/ sent' = sent
        \/ \E x : sent' = Append(sent, x) /\ x.kind # "tag" /\ x.round \in 0..rounds
    <3> DEFINE x == [Sei(U32(last_time)) EXCEPT !.kind = "eos"]
    <3>1. sent' = sent \/ sent' = Append(sent, x)
      BY <1>9 DEF SendEos
    <3>2. x.kind = "eos" /\ x.round = rounds
      BY DEF Sei
    <3>3. rounds \in 0..rounds
      BY <1>1 DEF History
    <3> HIDE DEF x
    <3> QED BY <3>1, <3>2, <3>3
  <2> QED BY <2>1, <2>2, <2>3, EndKeeps
<1> QED BY <1>2, <1>3, <1>4, <1>5, <1>6, <1>7, <1>8, <1>9, RoundKeeps, SeiKeeps, HeaderKeeps,
           DataKeeps DEF Tool

(* So does a step in which nothing happens.                                *)
LEMMA PlayStutters == PlayInv /\ UNCHANGED publishVars => PlayInv'
<1> SUFFICES ASSUME PlayInv, UNCHANGED publishVars  PROVE PlayInv'
  OBVIOUS
<1>1. /\ UNCHANGED <<fileVars, plan, rounds>> /\ recorder' = recorder /\ sent' = sent
      /\ pc' = pc /\ ret' = ret /\ offset' = offset /\ header' = header
      /\ recorded' = recorded /\ flv' = flv
  BY DEF publishVars, toolVars, fileVars
<1>2. FileInv /\ History /\ Placed
  BY DEF PlayInv
<1>3. FileInv'
  BY <1>1, <1>2 DEF FileInv
<1>4. History' /\ Count' = Count /\ Playable' = Playable
  BY <1>1, <1>2, HistoryKept, FileStays
<1>5. Placed'
  BY <1>1, <1>2 DEF Placed, Count, TagsOf, Behind, HeaderRead, TagRead, Kept, TagEnd, AllSent,
                    Playable, Plain
<1> QED BY <1>3, <1>4, <1>5 DEF PlayInv

(* Every round sends whole tags, in order and from the first.              *)
LEMMA PlayedWhole == PlayInv => PlaysWhatIsWhole
<1> SUFFICES ASSUME PlayInv  PROVE PlaysWhatIsWhole
  OBVIOUS
<1>1. FileInv /\ History /\ Placed
  BY DEF PlayInv
<1>2. ASSUME NEW r \in 1..rounds
      PROVE  /\ Len(TagsOf(r)) <= Cardinality(Playable)
             /\ \A i \in DOMAIN TagsOf(r) :
                  TagsOf(r)[i].type = recorded[i].type
                  /\ TagsOf(r)[i].data = DataUnits(i, recorded[i].size)
             /\ r < rounds => AllSent(r)
  <2>1. SentWhole(r) /\ (r < rounds => AllSent(r))
    BY <1>1 DEF History
  <2>2. Len(TagsOf(r)) \in 0..Len(recorded) /\ 1..Len(TagsOf(r)) \subseteq Playable
    BY <2>1 DEF SentWhole
  <2>3. Len(TagsOf(r)) <= Cardinality(Playable)
    BY <1>1, <2>2, PlayableTo
  <2> QED BY <2>1, <2>3 DEF SentWhole
<1>3. pc = "done" /\ ret = "ok" /\ (plan.tool # "rtmp" \/ plan.list > 0) /\ rounds > 0
        => AllSent(rounds)
  BY <1>1 DEF Placed
<1> QED BY <1>2, <1>3 DEF PlaysWhatIsWhole

(* The invariant holds in every state.                                     *)
LEMMA PlayHolds == PublishSpec => []PlayInv
<1>1. PlayInv /\ [PublishNext]_publishVars => PlayInv'
  BY RecordKeeps, ToolKeeps, PlayStutters DEF PublishNext
<1> QED BY <1>1, PlayBegins, PTL DEF PublishSpec

(* Wherever the file was cut, a round sends whole tags only, unchanged, in *)
(* order and from the first, and none is left out when another begins.     *)
THEOREM PlaysWhole == PublishSpec => []PlaysWhatIsWhole
  BY PlayHolds, PlayedWhole, PTL

-----------------------------------------------------------------------------
(* A file that ends in the header of a tag.                                *)
LEMMA EndsInHeader ==
  ASSUME FileInv, NEW n \in Nat, n + 1 \in 1..Len(recorded),
         TagEnd(n) < Len(flv), Len(flv) < TagEnd(n) + 4
  PROVE  HeaderCut
<1>1. flv \in Seq(FlvUnits) /\ recorded \in Seq(FlvTags)
  BY DEF FileInv
<1>2. TagEnd(n) \in Nat /\ Len(flv) \in Nat
  <2>1. n \in 0..Len(recorded)
    OBVIOUS
  <2>2. Len(flv) \in Nat
    BY <1>1
  <2> QED BY <1>1, <2>1, <2>2, EndOfTag
<1> DEFINE k == n + 1
           e == TagEnd(n)
           i == Len(flv) - e
<1>3. k - 1 = n
  OBVIOUS
<1>4. i \in 1..3 /\ e + i = Len(flv)
  BY <1>2
<1>5. \A j \in 1..3 : e + j <= Len(flv) => CutField(flv[e + j])
  <2> HIDE DEF k
  <2>1. k \in 1..Len(recorded)
    BY DEF k
  <2> QED BY <1>3, <2>1, TagOnFile
<1> HIDE DEF i, e
<1>6. CutField(flv[Len(flv)])
  BY <1>2, <1>4, <1>5
<1>7. flv # << >>
  BY <1>2
<1> QED BY <1>6, <1>7 DEF HeaderCut, CutField, Last

-----------------------------------------------------------------------------
(* The arithmetic of the clock.                                            *)
LEMMA Remainder ==
  ASSUME NEW x \in Int, NEW m \in Nat \ {0}
  PROVE  x % m \in Nat /\ x % m < m /\ (x >= 0 => x % m <= x)
<1> DEFINE q == x \div m
           r == x % m
<1>1. q \in Int /\ r \in Nat /\ r < m /\ x = m * q + r
  BY SMT
<1>2. x >= 0 => q >= 0
  BY SMT
<1>3. ASSUME x >= 0  PROVE r <= x
  <2>1. q \in Nat
    BY <1>1, <1>2, <1>3
  <2>2. m * q \in Nat
    BY <2>1
  <2> HIDE DEF q, r
  <2> QED BY <1>1, <2>2
<1> QED BY <1>1, <1>3

(* The top bit of a time.                                                  *)
LEMMA Halves == TimeMod \div 2 \in Nat /\ TimeMod \div 2 > 0 /\ TimeMod = 2 * (TimeMod \div 2)
BY FileAssumption

(* An unsigned time as a signed one: the same, below the top bit.          *)
LEMMA SignedTime ==
  ASSUME NEW t \in Int
  PROVE  S32(t) \in Int /\ (t \in Nat /\ t < TimeMod \div 2 => S32(t) = t)
<1> DEFINE half == TimeMod \div 2
           u == U32(t)
<1>1. half \in Nat /\ TimeMod \in Nat \ {0} /\ half < TimeMod
  BY FileAssumption, Halves
<1>2. u \in Nat
  BY <1>1, Remainder DEF U32
<1>3. ASSUME t \in Nat, t < half  PROVE u = t
  <2>1. t \in 0..(TimeMod - 1)
    BY <1>1, <1>3
  <2> QED BY <1>1, <2>1 DEF U32
<1>4. S32(t) = IF u >= half THEN u - TimeMod ELSE u
  BY DEF S32
<1> HIDE DEF u, half
<1>5. S32(t) \in Int
  BY <1>1, <1>2, <1>4
<1>6. ASSUME t \in Nat, t < half  PROVE S32(t) = t
  <2>1. u = t
    BY <1>3, <1>6
  <2>2. ~(t >= half)
    BY <1>1, <1>6
  <2> QED BY <1>4, <2>1, <2>2
<1> QED BY <1>5, <1>6 DEF half

(* usleep takes an unsigned integer, which is no more than what it is      *)
(* given.                                                                  *)
LEMMA Sleeps ==
  ASSUME NEW diff \in Int
  PROVE  Sleep(diff) \in Nat /\ (diff > 0 => Sleep(diff) <= diff) /\ (diff <= 0 => Sleep(diff) = 0)
<1>1. SleepMod \in Nat \ {0}
  BY PublishAssumption
<1>2. diff % SleepMod \in Nat /\ (diff >= 0 => diff % SleepMod <= diff)
  BY <1>1, Remainder
<1> QED BY <1>2 DEF Sleep

(* A nap ends at the latest when the clock is where the file is.           *)
LEMMA Naps ==
  ASSUME NEW now \in Int, NEW r \in Int, NEW start \in Int, NEW time \in Int, r <= now
  PROVE  /\ re_update(now, r, start, time) \in Int /\ re_update(now, r, start, time) >= now
         /\ re_cleanup(now, r, start, time) \in Int /\ re_cleanup(now, r, start, time) >= now
         /\ start <= time => /\ re_update(now, r, start, time) <= now + (time - start)
                             /\ re_cleanup(now, r, start, time) <= now + (time - start)
<1> DEFINE d == Ahead(now, r, start, time)
           x == time - start
<1>1. x \in Int
  OBVIOUS
<1>2. U32(x) \in Nat /\ (x >= 0 => U32(x) <= x)
  BY <1>1, FileAssumption, Remainder DEF U32
<1>3. d = U32(x) - (now - r)
  BY DEF Ahead
<1>4. d \in Int /\ (x >= 0 => d <= x)
  <2> HIDE DEF x, d
  <2> QED BY <1>1, <1>2, <1>3
<1>5. Sleep(d) \in Nat /\ (d > 0 => Sleep(d) <= d) /\ (d <= 0 => Sleep(d) = 0)
  BY <1>4, Sleeps
<1>6. /\ re_cleanup(now, r, start, time) = now + Sleep(d)
      /\ \/ re_update(now, r, start, time) = now + Sleep(d)
         \/ re_update(now, r, start, time) = now
  BY DEF re_cleanup, re_update
<1>7. start <= time => x >= 0
  OBVIOUS
<1>8. x >= 0 => Sleep(d) <= x
  <2> HIDE DEF x, d
  <2> QED BY <1>1, <1>4, <1>5
<1>9. x >= 0 => Sleep(d) <= time - start
  BY <1>8
<1> HIDE DEF x, d
<1> QED BY <1>5, <1>6, <1>7, <1>9

(* re_create takes the pulse at the latest from now on.                    *)
LEMMA Restarts ==
  ASSUME NEW now \in Int, NEW startup \in Int
  PROVE  re_create(now, startup) \in Int /\ re_create(now, startup) <= now
<1> DEFINE a == S32(now - S32(startup))
<1>1. S32(startup) \in Int
  BY SignedTime
<1>2. now - S32(startup) \in Int
  BY <1>1
<1>3. a \in Int
  BY <1>2, SignedTime
<1>4. re_create(now, startup) = IF a > 0 THEN now - a ELSE now
  BY DEF re_create
<1> HIDE DEF a
<1> QED BY <1>3, <1>4

(* The longest time that it takes to write a tag.                          *)
LEMMA Longest ==
  /\ Delays \subseteq Nat /\ Max(Delays) \in Nat
  /\ \A d \in Delays : d <= Max(Delays)
<1>1. Delays \in SUBSET Nat /\ \E d \in Delays : \A e \in Delays : e <= d
  BY PublishAssumption
<1>2. \E d \in Delays : \A e \in Delays : d >= e
  BY <1>1
<1>3. Max(Delays) \in Delays /\ \A e \in Delays : Max(Delays) >= e
  BY <1>2 DEF Max
<1>4. \A e \in Delays : e \in Nat
  BY <1>1
<1> QED BY <1>1, <1>3, <1>4

-----------------------------------------------------------------------------
(* What NeverOversleeps says of one step.                                  *)
NapStep ==
    \/ clock' - clock <= Max(Delays) + LastTime - starttime'
    \/ HeaderCut \/ timestamp < starttime

(* The clock at the begin.                                                 *)
LEMMA NapsBegin == FileInit /\ ToolInit => NapInv
<1> SUFFICES ASSUME FileInit, ToolInit  PROVE NapInv
  OBVIOUS
<1>1. /\ recorder = "recording" /\ recorded = << >> /\ clock = Epoch /\ re = Epoch
      /\ timestamp = 0 /\ starttime = -1
  BY DEF FileInit, ToolInit, Waits
<1>2. Epoch \in Nat
  BY PublishAssumption
<1>3. LastTime = 0
  BY <1>1 DEF LastTime
<1> HIDE DEF LastTime
<1> QED BY <1>1, <1>2, <1>3, Halves DEF NapInv

(* The tool is at work: the file is there, and only the four parts of the  *)
(* clock are to be looked at.                                              *)
LEMMA NapOfTool ==
  ASSUME PlayInv, NapInv, pc # "waits" \/ recorder = "done", UNCHANGED fileVars,
         clock' \in Int, re' \in Int, re' <= clock', timestamp' \in Nat, starttime' \in Int,
         HeaderCut \/ (/\ timestamp' <= LastTime /\ timestamp' < TimeMod \div 2
                       /\ starttime' \in -1..LastTime)
  PROVE  NapInv'
<1>1. recorder = "done"
  BY DEF PlayInv, FileInv
<1>2. recorder' = "done" /\ recorded' = recorded /\ flv' = flv
  BY <1>1 DEF fileVars
<1>3. LastTime' = LastTime /\ (HeaderCut => HeaderCut')
  BY <1>2 DEF LastTime, HeaderCut
<1> HIDE DEF LastTime, HeaderCut
<1>4. LastTime \in Nat /\ \A k \in 1..Len(recorded) : recorded[k].time <= LastTime
  BY DEF NapInv
<1>5. /\ LastTime' \in Nat
      /\ \A k \in 1..Len(recorded') : recorded'[k].time <= LastTime'
  BY <1>2, <1>3, <1>4
<1>6. \/ recorder' = "done" /\ HeaderCut'
      \/ timestamp' <= LastTime' /\ timestamp' < TimeMod \div 2 /\ starttime' \in -1..LastTime'
  BY <1>2, <1>3
<1> QED BY <1>2, <1>5, <1>6 DEF NapInv

(* As long as the clock stands still.                                      *)
LEMMA StandsStill ==
  ASSUME NapInv, UNCHANGED <<clock, starttime>>
  PROVE  NapStep
<1>1. /\ clock \in Int /\ LastTime \in Nat
      /\ HeaderCut \/ starttime \in -1..LastTime
  BY DEF NapInv
<1>2. CASE HeaderCut
  BY <1>2 DEF NapStep
<1>3. CASE starttime \in -1..LastTime
  <2> DEFINE m == Max(Delays)
             l == LastTime
  <2>1. m \in Nat /\ l \in Nat /\ starttime \in -1..l
    BY <1>1, <1>3, Longest
  <2> HIDE DEF m, l
  <2>2. clock' - clock <= m + l - starttime'
    BY <1>1, <2>1
  <2> QED BY <2>2 DEF NapStep, m, l
<1> QED BY <1>1, <1>2, <1>3

(* A step that leaves the clock and the times alone.                       *)
LEMMA QuietNaps ==
  ASSUME PlayInv, NapInv, pc # "waits" \/ recorder = "done", UNCHANGED fileVars,
         UNCHANGED <<clock, re, timestamp, starttime>>
  PROVE  NapInv' /\ NapStep
<1>1. /\ clock \in Int /\ re \in Int /\ re <= clock /\ timestamp \in Nat /\ starttime \in Int
      /\ HeaderCut \/ (timestamp <= LastTime /\ timestamp < TimeMod \div 2 /\ starttime \in -1..LastTime)
  BY DEF NapInv
<1>2. NapInv'
  BY <1>1, NapOfTool
<1> QED BY <1>2, StandsStill

(* The recorder writes, or dies.                                           *)
LEMMA RecordNaps ==
  ASSUME PlayInv, NapInv, Record, UNCHANGED toolVars
  PROVE  NapInv' /\ NapStep
<1>1. recorder = "recording" /\ recorded \in Seq(FlvTags)
  BY DEF Record, WriteTag, RecordingEnds, PlayInv, FileInv
<1>2. /\ clock' = clock /\ re' = re /\ timestamp' = timestamp /\ starttime' = starttime
  BY DEF toolVars
<1>3. /\ clock \in Int /\ re \in Int /\ re <= clock /\ starttime = -1 /\ timestamp = 0
      /\ LastTime \in Nat /\ \A k \in 1..Len(recorded) : recorded[k].time <= LastTime
  BY <1>1 DEF NapInv
<1>4. NapStep
  <2> DEFINE m == Max(Delays)
             l == LastTime
  <2>1. m \in Nat /\ l \in Nat
    BY <1>3, Longest
  <2> HIDE DEF m, l
  <2>2. clock' - clock <= m + l - starttime'
    BY <1>2, <1>3, <2>1
  <2> QED BY <2>2 DEF NapStep, m, l
<1>5. ASSUME NEW kind \in TagKinds, NEW step \in IF recorded = << >> THEN Starts ELSE TagSteps,
             WriteTag(kind, step)
      PROVE  NapInv'
  <2> DEFINE l == LastTime
             t == [type |-> kind.type, size |-> kind.size, time |-> l + step, stream |-> 0]
             more == Append(recorded, t)
  <2>1. recorded' = more /\ recorder' = "recording"
    BY <1>1, <1>5 DEF WriteTag
  <2>2. kind.size \in Nat /\ step \in Nat
    BY FileAssumption
  <2>3. t.time = l + step
    OBVIOUS
  <2>4. /\ Len(recorded) \in Nat /\ Len(more) = Len(recorded) + 1
        /\ more[Len(recorded) + 1] = t
        /\ \A k \in 1..Len(recorded) : more[k] = recorded[k]
    <3> DEFINE x == t
    <3> HIDE DEF x, FlvTags
    <3>1. recorded \in Seq(FlvTags \cup {x})
      BY <1>1
    <3>2. /\ Len(recorded) \in Nat /\ Len(Append(recorded, x)) = Len(recorded) + 1
          /\ Append(recorded, x)[Len(recorded) + 1] = x
          /\ \A k \in 1..Len(recorded) : Append(recorded, x)[k] = recorded[k]
      BY <3>1
    <3> QED BY <3>2 DEF x
  <2> HIDE DEF t, more, l
  <2>5. LastTime' = l + step
    <3>1. more # << >>
      BY <2>4
    <3>2. Last(more).time = l + step
      BY <2>3, <2>4 DEF Last
    <3>3. LastTime' = Last(more).time
      BY <2>1, <3>1 DEF LastTime
    <3> QED BY <3>2, <3>3
  <2>6. l \in Nat /\ \A k \in 1..Len(recorded) : recorded[k].time <= l
    BY <1>3 DEF l
  <2>7. \A k \in 1..Len(more) : more[k].time <= l + step
    <3> TAKE k \in 1..Len(more)
    <3>1. CASE k = Len(recorded) + 1
      BY <2>2, <2>3, <2>4, <2>6, <3>1
    <3>2. CASE k \in 1..Len(recorded)
      <4>1. more[k].time = recorded[k].time /\ recorded[k].time <= l
        BY <2>4, <2>6, <3>2
      <4>2. recorded[k].time \in Nat
        <5>1. recorded[k] \in FlvTags
          <6> HIDE DEF FlvTags
          <6> QED BY <1>1, <3>2
        <5> QED BY <5>1 DEF FlvTags
      <4> QED BY <2>2, <2>6, <4>1, <4>2
    <3> QED BY <2>4, <3>1, <3>2
  <2>8. /\ LastTime' \in Nat /\ \A k \in 1..Len(recorded') : recorded'[k].time <= LastTime'
        /\ 0 <= LastTime' /\ -1 \in -1..LastTime'
    <3>1. l + step \in Nat /\ 0 <= l + step /\ -1 \in -1..(l + step)
      BY <2>2, <2>6
    <3> QED BY <2>1, <2>5, <2>7, <3>1
  <2> QED BY <1>2, <1>3, <2>1, <2>8, Halves DEF NapInv
<1>6. ASSUME RecordingEnds  PROVE NapInv'
  <2>1. recorded' = recorded
    BY <1>6 DEF RecordingEnds
  <2>2. LastTime' = LastTime
    BY <2>1 DEF LastTime
  <2> HIDE DEF LastTime
  <2>3. /\ LastTime' \in Nat /\ \A k \in 1..Len(recorded') : recorded'[k].time <= LastTime'
        /\ 0 <= LastTime' /\ -1 \in -1..LastTime'
    <3>1. LastTime \in Nat
      BY <1>3
    <3>2. 0 <= LastTime /\ -1 \in -1..LastTime
      BY <3>1
    <3> QED BY <1>3, <2>1, <2>2, <3>2
  <2> QED BY <1>2, <1>3, <2>3, Halves DEF NapInv
<1> QED BY <1>4, <1>5, <1>6 DEF Record

(* A round takes the time of its begin, and knows no time of the file yet. *)
LEMMA RoundNaps ==
  ASSUME PlayInv, NapInv, StartRound
  PROVE  NapInv' /\ NapStep
<1>1. /\ pc = "round" /\ UNCHANGED fileVars /\ timestamp' = 0 /\ starttime' = -1
      /\ re' = re_create(clock', clock)
  BY DEF StartRound
<1>2. PICK d \in Delays : clock' = clock + d
  BY DEF StartRound
<1>3. clock \in Int /\ LastTime \in Nat
  BY DEF NapInv
<1>4. d \in Nat /\ d <= Max(Delays) /\ Max(Delays) \in Nat
  BY Longest
<1>5. clock' \in Int /\ re' \in Int /\ re' <= clock'
  <2>1. clock' \in Int
    BY <1>2, <1>3, <1>4
  <2> QED BY <1>1, <1>3, <2>1, Restarts
<1>6. NapInv'
  <2>1. 0 <= LastTime /\ -1 \in -1..LastTime
    BY <1>3
  <2> QED BY <1>1, <1>5, <2>1, Halves, NapOfTool
<1>7. NapStep
  <2> DEFINE m == Max(Delays)
             l == LastTime
  <2>1. m \in Nat /\ l \in Nat /\ d <= m
    BY <1>3, <1>4
  <2> HIDE DEF m, l
  <2>2. clock' - clock <= m + l - starttime'
    BY <1>1, <1>2, <1>3, <1>4, <2>1
  <2> QED BY <2>2 DEF NapStep, m, l
<1> QED BY <1>6, <1>7

(* The time of a tag is that of the recording, or made up where the file   *)
(* ends in its header.                                                     *)
LEMMA HeaderNaps ==
  ASSUME PlayInv, NapInv, ReadTagHeader
  PROVE  NapInv' /\ NapStep
<1> DEFINE units == FileRead(offset, Len(Fields))
<1>1. /\ pc = "tag" /\ UNCHANGED fileVars /\ UNCHANGED <<clock, re, starttime>>
      /\ offset' = offset + Len(units)
  BY DEF ReadTagHeader
<1>2. FileInv /\ History /\ Placed
  BY DEF PlayInv
<1>3. rounds > 0 /\ Behind(Count)
  BY <1>1, <1>2 DEF Placed
<1>4. NapStep
  BY <1>1, StandsStill
<1>5. CASE AtEof(units)
  <2>1. timestamp' = timestamp
    BY <1>5 DEF ReadTagHeader
  <2> QED BY <1>1, <2>1, QuietNaps
<1>6. CASE ~AtEof(units)
  <2>1. PICK h \in TagHeaders(units) : timestamp' = h.time
    BY <1>6 DEF ReadTagHeader
  <2>2. ASSUME NEW n, n = Count
        PROVE  /\ timestamp' \in Nat
               /\ HeaderCut \/ (timestamp' <= LastTime /\ timestamp' < TimeMod \div 2)
    <3>1. n \in Nat /\ Behind(n)
      BY <1>2, <1>3, <2>2, SoFar
    <3>2. /\ offset = TagEnd(n) /\ n + 1 \in 1..Len(recorded) /\ h.time \in Nat
          /\ offset + 4 <= Len(flv) => h.time = TagHeader(recorded[n + 1]).time
          /\ offset + 4 > Len(flv) => offset + Len(units) = Len(flv)
      <4> HIDE DEF units
      <4> QED BY <1>2, <1>6, <3>1, HeaderFound DEF units
    <3>3. /\ recorded \in Seq(FlvTags) /\ flv \in Seq(FlvUnits) /\ Len(flv) \in Nat
      BY <1>2 DEF FileInv
    <3>4. TagEnd(n) \in Nat
      <4>1. n \in 0..Len(recorded)
        BY <3>1 DEF Behind
      <4> QED BY <3>3, <4>1, EndOfTag
    <3>5. CASE offset + 4 <= Len(flv)
      <4> DEFINE t == recorded[n + 1]
      <4>1. t \in FlvTags
        <5> HIDE DEF FlvTags
        <5> QED BY <3>2, <3>3
      <4>2. t.time \in Nat
        BY <4>1 DEF FlvTags
      <4>3. TagHeader(t).time \in 0..t.time /\ TagHeader(t).time < TimeMod \div 2
        <5> HIDE DEF t
        <5> QED BY <3>1, <4>1, TagUnits
      <4>4. t.time <= LastTime /\ LastTime \in Nat
        BY <3>2 DEF NapInv
      <4> HIDE DEF t
      <4>5. timestamp' = TagHeader(t).time
        BY <2>1, <3>2, <3>5 DEF t
      <4> QED BY <4>2, <4>3, <4>4, <4>5
    <3>6. CASE ~(offset + 4 <= Len(flv))
      <4>1. Len(units) \in Nat /\ Len(units) > 0
        <5>1. offset \in Nat /\ Len(Fields) = 4 /\ 4 \in Nat
          BY <3>2, <3>4 DEF Fields
        <5> HIDE DEF units
        <5> QED BY <1>6, <3>3, <5>1, ReadIs DEF units
      <4>2. TagEnd(n) < Len(flv) /\ Len(flv) < TagEnd(n) + 4
        <5> HIDE DEF units
        <5> QED BY <3>2, <3>3, <3>4, <3>6, <4>1
      <4>3. HeaderCut
        BY <1>2, <3>1, <3>2, <4>2, EndsInHeader
      <4> QED BY <2>1, <3>2, <4>3
    <3> QED BY <3>5, <3>6
  <2>3. /\ timestamp' \in Nat
        /\ HeaderCut \/ (timestamp' <= LastTime /\ timestamp' < TimeMod \div 2)
    BY <2>2
  <2>4. /\ clock \in Int /\ re \in Int /\ re <= clock /\ starttime \in Int
        /\ HeaderCut \/ starttime \in -1..LastTime
    BY DEF NapInv
  <2>5. /\ clock' \in Int /\ re' \in Int /\ re' <= clock' /\ starttime' \in Int
        /\ HeaderCut \/ starttime' \in -1..LastTime
    BY <1>1, <2>4
  <2>6. NapInv'
    BY <1>1, <2>3, <2>5, NapOfTool
  <2> QED BY <1>4, <2>6
<1> QED BY <1>5, <1>6

(* The sum of a delay and of a sleep.                                      *)
LEMMA Adds ==
  ASSUME NEW a \in Int, NEW b \in Int, NEW d \in Nat, NEW m \in Nat, NEW t \in Int, NEW l \in Nat,
         NEW s \in Int, d <= m, t <= l, b <= (a + d) + (t - s)
  PROVE  b - a <= m + l - s
OBVIOUS

(* A sleep, of re_update or of re_cleanup, after what it took to write.    *)
LEMMA SleepNaps ==
  ASSUME PlayInv, NapInv, pc # "waits", UNCHANGED fileVars, UNCHANGED <<re, timestamp>>,
         starttime' = starttime \/ starttime' = S32(timestamp),
         NEW d \in Nat, d <= Max(Delays),
         \/ clock' = re_update(clock + d, re, starttime', timestamp)
         \/ clock' = re_cleanup(clock + d, re, starttime', timestamp)
  PROVE  NapInv' /\ NapStep
<1>1. /\ clock \in Int /\ re \in Int /\ re <= clock /\ timestamp \in Nat /\ starttime \in Int
      /\ LastTime \in Nat
      /\ HeaderCut \/ (timestamp <= LastTime /\ timestamp < TimeMod \div 2 /\ starttime \in -1..LastTime)
  BY DEF NapInv
<1>2. starttime' \in Int /\ (timestamp < TimeMod \div 2 => starttime' \in {starttime, timestamp})
  <2>1. S32(timestamp) \in Int /\ (timestamp < TimeMod \div 2 => S32(timestamp) = timestamp)
    BY <1>1, SignedTime
  <2> QED BY <1>1, <2>1
<1> DEFINE now == clock + d
           s == starttime'
           l == LastTime
           m == Max(Delays)
<1>3. now \in Int /\ re <= now /\ s \in Int
  BY <1>1, <1>2
<1>4. /\ clock' \in Int /\ clock' >= now
      /\ s <= timestamp => clock' <= now + (timestamp - s)
  <2> HIDE DEF now, s
  <2>1. \/ clock' = re_update(now, re, s, timestamp)
        \/ clock' = re_cleanup(now, re, s, timestamp)
    BY DEF now, s
  <2>2. timestamp \in Int
    BY <1>1
  <2>3. /\ re_update(now, re, s, timestamp) \in Int /\ re_update(now, re, s, timestamp) >= now
        /\ re_cleanup(now, re, s, timestamp) \in Int /\ re_cleanup(now, re, s, timestamp) >= now
        /\ s <= timestamp => /\ re_update(now, re, s, timestamp) <= now + (timestamp - s)
                             /\ re_cleanup(now, re, s, timestamp) <= now + (timestamp - s)
    BY <1>1, <1>3, <2>2, Naps
  <2> QED BY <2>1, <2>3
<1>5. HeaderCut \/ (timestamp <= l /\ timestamp < TimeMod \div 2 /\ s \in -1..l)
  <2>1. CASE HeaderCut
    BY <2>1
  <2>2. CASE timestamp <= LastTime /\ timestamp < TimeMod \div 2 /\ starttime \in -1..LastTime
    <3>1. s \in {starttime, timestamp}
      BY <1>2, <2>2
    <3> HIDE DEF s, l
    <3>2. timestamp \in -1..l /\ starttime \in -1..l
      BY <1>1, <2>2 DEF l
    <3> QED BY <2>2, <3>1, <3>2 DEF l
  <2> QED BY <1>1, <2>1, <2>2
<1>6. NapInv'
  <2>1. re' \in Int /\ re' <= clock' /\ timestamp' \in Nat
    BY <1>1, <1>3, <1>4
  <2> QED BY <1>1, <1>2, <1>4, <1>5, <2>1, NapOfTool
<1>7. NapStep
  <2>1. CASE HeaderCut \/ timestamp < s
    <3>1. CASE HeaderCut
      BY <3>1 DEF NapStep
    <3>2. CASE ~HeaderCut /\ timestamp < s
      <4>1. s = starttime
        BY <1>1, <1>2, <3>2
      <4> QED BY <3>2, <4>1 DEF NapStep
    <3> QED BY <2>1, <3>1, <3>2
  <2>2. CASE ~HeaderCut /\ ~(timestamp < s)
    <3>1. m \in Nat /\ d <= m /\ l \in Nat
      BY <1>1, Longest
    <3>2. timestamp <= l
      BY <1>5, <2>2
    <3> HIDE DEF s, l, m
    <3>3. clock' \in Int /\ clock' <= (clock + d) + (timestamp - s)
      BY <1>1, <1>3, <1>4, <2>2
    <3>4. timestamp \in Int /\ clock \in Int /\ s \in Int
      BY <1>1, <1>3
    <3>5. clock' - clock <= m + l - s
      BY <3>1, <3>2, <3>3, <3>4, Adds
    <3> QED BY <3>5 DEF NapStep, s, l, m
  <2> QED BY <2>1, <2>2
<1> QED BY <1>6, <1>7

(* Every step of the tool.                                                 *)
LEMMA ToolNaps ==
  ASSUME PlayInv, NapInv, Tool
  PROVE  NapInv' /\ NapStep
<1>1. CASE Opens \/ InjectSei \/ ReadTagData \/ PrintTag \/ FreeData \/ EndPlay \/ SendEos
  <2>1. /\ pc # "waits" \/ recorder = "done"
        /\ UNCHANGED fileVars /\ UNCHANGED <<clock, re, timestamp, starttime>>
    BY <1>1 DEF Opens, InjectSei, ReadTagData, PrintTag, FreeData, EndPlay, SendEos
  <2> QED BY <2>1, QuietNaps
<1>2. clock \in Int
  BY DEF NapInv
<1>3. 0 \in Nat /\ 0 <= Max(Delays) /\ clock + 0 = clock
  BY <1>2, Longest
<1>4. ASSUME SendTag  PROVE NapInv' /\ NapStep
  <2>1. pc = "write" /\ UNCHANGED fileVars /\ UNCHANGED <<re, timestamp>>
    BY <1>4 DEF SendTag
  <2>2. CASE UNCHANGED <<clock, starttime>>
    BY <2>1, <2>2, QuietNaps
  <2>3. CASE /\ starttime' = starttime \/ starttime' = S32(timestamp)
             /\ \E d \in Delays : clock' = re_update(clock + d, re, starttime', timestamp)
    <3>1. PICK d \in Delays : clock' = re_update(clock + d, re, starttime', timestamp)
      BY <2>3
    <3>2. d \in Nat /\ d <= Max(Delays)
      BY Longest
    <3> QED BY <2>1, <2>3, <3>1, <3>2, SleepNaps
  <2> QED BY <1>4, <2>2, <2>3 DEF SendTag
<1>5. ASSUME EndFile  PROVE NapInv' /\ NapStep
  <2>1. /\ pc = "end" /\ UNCHANGED fileVars /\ UNCHANGED <<re, timestamp, starttime>>
        /\ clock' = re_cleanup(clock, re, starttime, timestamp)
    BY <1>5 DEF EndFile
  <2>2. clock' = re_cleanup(clock + 0, re, starttime', timestamp)
    BY <1>3, <2>1
  <2> QED BY <1>3, <2>1, <2>2, SleepNaps
<1>6. ASSUME EndListed  PROVE NapInv' /\ NapStep
  <2>1. /\ pc = "end" /\ UNCHANGED fileVars /\ UNCHANGED <<re, timestamp, starttime>>
        /\ clock' = re_cleanup(clock, re, starttime, timestamp) \/ clock' = clock
    BY <1>6 DEF EndListed
  <2>2. CASE clock' = clock
    BY <2>1, <2>2, QuietNaps
  <2>3. CASE clock' = re_cleanup(clock, re, starttime, timestamp)
    <3>1. clock' = re_cleanup(clock + 0, re, starttime', timestamp)
      BY <1>3, <2>1, <2>3
    <3> QED BY <1>3, <2>1, <3>1, SleepNaps
  <2> QED BY <2>1, <2>2, <2>3
<1> QED BY <1>1, <1>4, <1>5, <1>6, RoundNaps, HeaderNaps DEF Tool

(* Every step at all.                                                      *)
LEMMA NapsGoOn ==
  PlayInv /\ NapInv /\ [PublishNext]_publishVars => NapInv' /\ (NapStep \/ UNCHANGED publishVars)
<1> SUFFICES ASSUME PlayInv, NapInv, [PublishNext]_publishVars
             PROVE  NapInv' /\ (NapStep \/ UNCHANGED publishVars)
  OBVIOUS
<1>1. CASE Record /\ UNCHANGED toolVars
  BY <1>1, RecordNaps
<1>2. CASE Tool
  BY <1>2, ToolNaps
<1>3. CASE UNCHANGED publishVars
  <2>1. /\ recorder' = recorder /\ recorded' = recorded /\ flv' = flv /\ clock' = clock /\ re' = re
        /\ timestamp' = timestamp /\ starttime' = starttime
    BY <1>3 DEF publishVars, fileVars, toolVars
  <2>2. NapInv'
    BY <2>1 DEF NapInv, LastTime, HeaderCut
  <2> QED BY <1>3, <2>2
<1> QED BY <1>1, <1>2, <1>3 DEF PublishNext

(* The tool never sleeps for longer than its file lasts.                   *)
THEOREM SleepsNoLonger == PublishSpec => NeverOversleeps
<1>1. PlayInv /\ NapInv /\ [PublishNext]_publishVars =>
        NapInv' /\ [\/ clock' - clock <= Max(Delays) + LastTime - starttime'
                    \/ HeaderCut \/ timestamp < starttime]_publishVars
  BY NapsGoOn DEF NapStep
<1> QED BY <1>1, PlayHolds, NapsBegin, PTL DEF PublishSpec, NeverOversleeps
-----------------------------------------------------------------------------
(* Files of boxes.                                                         *)

(* A sum, of one number more.                                              *)
LEMMA SumEmpty == ASSUME NEW s, Len(s) = 0 PROVE Sum(s) = 0
BY AccumulatedEmpty DEF Sum

(* A sum of naturals is a natural.                                         *)
LEMMA SumType == ASSUME NEW s \in Seq(Nat) PROVE Sum(s) \in Nat
<1> DEFINE step == [p \in Int \X Int |-> p[1] + p[2]]
           P == [i \in Nat |-> Nat]
<1>1. \A i \in 1..Len(s) : \A x \in P[i - 1] : step[<<x, s[i]>>] \in P[i]
  <2> SUFFICES ASSUME NEW i \in 1..Len(s), NEW x \in P[i - 1] PROVE step[<<x, s[i]>>] \in P[i]
    OBVIOUS
  <2>1. x \in Nat /\ s[i] \in Nat /\ P[i] = Nat
    OBVIOUS
  <2>2. step[<<x, s[i]>>] = x + s[i]
    BY <2>1
  <2> QED BY <2>1, <2>2
<1>2. Len(s) \in Nat /\ P[Len(s)] = Nat /\ 0 \in P[0]
  OBVIOUS
<1> HIDE DEF step, P
<1>3. Accumulated(step, 0, s) \in P[Len(s)]
  BY <1>1, <1>2, Accumulates
<1> QED BY <1>2, <1>3 DEF Sum, step

(* One number more is added.                                               *)
LEMMA SumAppend ==
  ASSUME NEW s \in Seq(Nat), NEW x \in Nat
  PROVE  Sum(Append(s, x)) = Sum(s) + x
<1> DEFINE step == [p \in Int \X Int |-> p[1] + p[2]]
           begin == 0
<1>1. Sum(s) \in Nat
  BY SumType
<1>2. step[<<Sum(s), x>>] = Sum(s) + x
  BY <1>1
<1> HIDE DEF step, begin
<1>3. Accumulated(step, begin, Append(s, x)) = step[<<Accumulated(step, begin, s), x>>]
  BY AccumulatedAppend
<1> QED BY <1>2, <1>3 DEF Sum, step, begin
(* A sum of ones, and of zeros.                                            *)
LEMMA SumOnes ==
  ASSUME NEW n \in Nat, NEW s, s = [i \in 1..n |-> 1]
  PROVE  Sum(s) = n
<1> DEFINE step == [p \in Int \X Int |-> p[1] + p[2]]
           P == [i \in Nat |-> {i}]
<1>0. Len(s) = n
  OBVIOUS
<1>1. \A i \in 1..Len(s) : \A x \in P[i - 1] : step[<<x, s[i]>>] \in P[i]
  <2> SUFFICES ASSUME NEW i \in 1..Len(s), NEW x \in P[i - 1] PROVE step[<<x, s[i]>>] \in P[i]
    OBVIOUS
  <2>1. x = i - 1 /\ x \in Int /\ i \in Nat /\ s[i] = 1 /\ P[i] = {i}
    BY <1>0
  <2>2. step[<<x, s[i]>>] = x + 1
    BY <2>1
  <2> QED BY <2>1, <2>2
<1>2. Len(s) \in Nat /\ P[Len(s)] = {n} /\ 0 \in P[0]
  BY <1>0
<1> HIDE DEF step, P
<1>3. Accumulated(step, 0, s) \in P[Len(s)]
  BY <1>1, <1>2, Accumulates
<1> QED BY <1>2, <1>3 DEF Sum, step

-----------------------------------------------------------------------------
(* The tables that the encoder makes of a track fit each other. A table of *)
(* runs is for n values when the counts add up to n, and has those of the  *)
(* values that vals says.                                                  *)
Marks(entries, n, u) ==
    /\ u \in [0..Len(entries) -> Nat] /\ u[0] = 0 /\ u[Len(entries)] = n
    /\ \A j \in 1..Len(entries) : u[j - 1] < u[j] /\ entries[j].count = u[j] - u[j - 1]
Says(entries, u, vals) ==
    \A j \in 1..Len(entries) : \A k \in DOMAIN vals :
       u[j - 1] < k /\ k <= u[j] => entries[j].value = vals[k]
RunsFor(n, vals) == {entries \in Seq(Run) : \E u : Marks(entries, n, u) /\ Says(entries, u, vals)}
IsVals(vals) == DOMAIN vals \subseteq Nat
Unsaid == [k \in {} |-> 0]

(* A run that is new, or is longer by one.                                 *)
LEMMA RunAppended ==
  ASSUME NEW vals, IsVals(vals), NEW n \in Nat, NEW entries \in RunsFor(n, vals), NEW v \in Int,
         n + 1 \in DOMAIN vals => v = vals[n + 1]
  PROVE  Append(entries, [count |-> 1, value |-> v]) \in RunsFor(n + 1, vals)
<1> DEFINE L == Len(entries)
           r == [count |-> 1, value |-> v]
           more == Append(entries, r)
<1>1. entries \in Seq(Run) /\ L \in Nat /\ r \in Run
  BY DEF RunsFor, Run
<1>2. PICK u : Marks(entries, n, u) /\ Says(entries, u, vals)
  BY DEF RunsFor
<1> DEFINE w == [j \in 0..(L + 1) |-> IF j <= L THEN u[j] ELSE n + 1]
<1>3. more \in Seq(Run) /\ Len(more) = L + 1 /\ more[L + 1].count = 1 /\ more[L + 1].value = v
      /\ \A j \in 1..L : more[j] = entries[j]
  BY <1>1
<1> HIDE DEF r, more
<1>4. /\ u \in [0..L -> Nat] /\ u[0] = 0 /\ u[L] = n
      /\ \A j \in 1..L : u[j - 1] < u[j] /\ entries[j].count = u[j] - u[j - 1]
  BY <1>2 DEF Marks
<1> HIDE DEF L
<1>5. w \in [0..(L + 1) -> Nat] /\ w[0] = 0 /\ w[L + 1] = n + 1
  BY <1>1, <1>4
<1>6. ASSUME NEW j \in 1..(L + 1) PROVE w[j - 1] < w[j] /\ more[j].count = w[j] - w[j - 1]
  <2>1. CASE j \in 1..L
    <3>1. w[j] = u[j] /\ w[j - 1] = u[j - 1] /\ more[j] = entries[j]
      BY <1>1, <1>3, <2>1
    <3> QED BY <1>4, <2>1, <3>1
  <2>2. CASE j = L + 1
    <3>1. w[j] = n + 1 /\ w[j - 1] = n /\ more[j].count = 1
      BY <1>1, <1>3, <1>4, <2>2
    <3> QED BY <3>1
  <2> QED BY <1>1, <2>1, <2>2
<1>7. ASSUME NEW j \in 1..(L + 1), NEW k \in DOMAIN vals, w[j - 1] < k, k <= w[j]
      PROVE  more[j].value = vals[k]
  <2>1. CASE j \in 1..L
    <3>1. w[j] = u[j] /\ w[j - 1] = u[j - 1] /\ more[j] = entries[j]
      BY <1>1, <1>3, <2>1
    <3> QED BY <1>2, <1>7, <2>1, <3>1 DEF Says, L
  <2>2. CASE j = L + 1
    <3>1. w[j] = n + 1 /\ w[j - 1] = n /\ k \in Nat
      BY <1>1, <1>3, <1>4, <2>2 DEF IsVals
    <3>2. k = n + 1
      BY <1>7, <3>1
    <3> QED BY <1>3, <2>2, <3>2
  <2> QED BY <1>1, <2>1, <2>2
<1> HIDE DEF w
<1>8. Marks(more, n + 1, w)
  BY <1>3, <1>5, <1>6 DEF Marks
<1>9. Says(more, w, vals)
  BY <1>3, <1>7 DEF Says
<1> QED BY <1>3, <1>8, <1>9 DEF RunsFor, more, r

(* The last run, one longer, makes a table for one value more.             *)
LEMMA RunLonger ==
  ASSUME NEW vals, IsVals(vals), NEW n \in Nat, NEW entries \in RunsFor(n, vals),
         NEW L, L = Len(entries), L # 0, NEW r \in Run,
         r.count = entries[L].count + 1, n + 1 \in DOMAIN vals => r.value = vals[n + 1],
         \/ r.value = entries[L].value
         \/ \A k \in DOMAIN vals : ~(k <= n)
  PROVE  [entries EXCEPT ![L] = r] \in RunsFor(n + 1, vals)
<1> DEFINE more == [entries EXCEPT ![L] = r]
<1>1. entries \in Seq(Run) /\ L \in Nat /\ L \in 1..Len(entries)
  BY DEF RunsFor
<1>2. PICK u : Marks(entries, n, u) /\ Says(entries, u, vals)
  BY DEF RunsFor
<1> DEFINE w == [j \in 0..L |-> IF j < L THEN u[j] ELSE n + 1]
<1>3. more \in Seq(Run) /\ Len(more) = L /\ more[L] = r /\ \A j \in 1..(L - 1) : more[j] = entries[j]
  BY <1>1
<1> HIDE DEF more
<1>4. /\ u \in [0..L -> Nat] /\ u[0] = 0 /\ u[L] = n
      /\ \A j \in 1..L : u[j - 1] < u[j] /\ entries[j].count = u[j] - u[j - 1]
  BY <1>2 DEF Marks
<1>5. w \in [0..L -> Nat] /\ w[0] = 0 /\ w[L] = n + 1
  BY <1>1, <1>4
<1>6. ASSUME NEW j \in 1..L PROVE w[j - 1] < w[j] /\ more[j].count = w[j] - w[j - 1]
  <2>1. CASE j \in 1..(L - 1)
    <3>1. w[j] = u[j] /\ w[j - 1] = u[j - 1] /\ more[j] = entries[j]
      BY <1>1, <1>3, <2>1
    <3> QED BY <1>1, <1>4, <2>1, <3>1
  <2>2. CASE j = L
    <3>1. w[j] = n + 1 /\ w[j - 1] = u[L - 1] /\ more[j].count = entries[L].count + 1
      BY <1>1, <1>3, <2>2
    <3>2. entries[L].count = n - u[L - 1] /\ u[L - 1] < n /\ u[L - 1] \in Nat
      BY <1>1, <1>4
    <3> QED BY <3>1, <3>2
  <2> QED BY <1>1, <2>1, <2>2
<1>w. ASSUME NEW j \in 1..(L - 1) PROVE w[j] = u[j] /\ w[j - 1] = u[j - 1]
  BY <1>1
<1>7. ASSUME NEW j \in 1..L, NEW k \in DOMAIN vals, w[j - 1] < k, k <= w[j]
      PROVE  more[j].value = vals[k]
  <2>1. CASE j \in 1..(L - 1)
    <3>1. w[j] = u[j] /\ w[j - 1] = u[j - 1] /\ more[j] = entries[j]
      BY <1>3, <1>w, <2>1
    <3> QED BY <1>2, <1>7, <3>1 DEF Says
  <2>2. CASE j = L
    <3>1. w[j] = n + 1 /\ w[j - 1] = u[L - 1] /\ more[j] = r /\ k \in Nat
      BY <1>1, <1>3, <2>2 DEF IsVals
    <3>2. CASE k = n + 1
      BY <3>1, <3>2
    <3>3. CASE k # n + 1
      <4>1. k <= n
        BY <1>7, <3>1, <3>3
      <4>2. entries[L].value = vals[k]
        BY <1>1, <1>2, <1>4, <1>7, <3>1, <4>1 DEF Says
      <4> QED BY <3>1, <4>1, <4>2
    <3> QED BY <3>2, <3>3
  <2> QED BY <1>1, <2>1, <2>2
<1> HIDE DEF w
<1>8. Marks(more, n + 1, w)
  BY <1>3, <1>5, <1>6 DEF Marks
<1>9. Says(more, w, vals)
  BY <1>3, <1>7 DEF Says
<1> QED BY <1>3, <1>8, <1>9 DEF RunsFor, more

(* The last run has the last value.                                        *)
LEMMA LastSays ==
  ASSUME NEW vals, NEW n \in Nat, NEW entries \in RunsFor(n, vals), Len(entries) # 0, n \in DOMAIN vals
  PROVE  entries[Len(entries)].value = vals[n]
<1> DEFINE L == Len(entries)
<1>1. L \in Nat /\ L \in 1..Len(entries)
  BY DEF RunsFor
<1>2. PICK u : Marks(entries, n, u) /\ Says(entries, u, vals)
  BY DEF RunsFor
<1>3. u[L - 1] < n /\ u[L] = n
  BY <1>1, <1>2 DEF Marks
<1> QED BY <1>1, <1>2, <1>3 DEF Says

(* The steps of the two tables of runs.                                    *)
LEMMA DeltaRunFor ==
  ASSUME NEW vals, IsVals(vals), NEW n \in Nat, NEW entries \in RunsFor(n, vals), entries # <<>>,
         NEW delta \in Int, n + 1 \in DOMAIN vals => delta = vals[n + 1],
         \/ n \in DOMAIN vals /\ vals[n] # 0
         \/ \A k \in DOMAIN vals : ~(k <= n)
  PROVE  DeltaRun(entries, delta) \in RunsFor(n + 1, vals) /\ DeltaRun(entries, delta) # <<>>
<1> DEFINE L == Len(entries)
<1>1. entries \in Seq(Run) /\ L \in Nat /\ L # 0 /\ L \in 1..Len(entries)
  BY DEF RunsFor
<1>2. entries[L] \in Run /\ entries[L].count \in Nat
  <2>1. entries[L] \in Run
    BY <1>1
  <2> QED BY <2>1 DEF Run
<1> DEFINE longer == [count |-> entries[L].count + 1, value |-> delta]
           one == [count |-> 1, value |-> delta]
           a == [entries EXCEPT ![L] = longer]
           b == Append(entries, one)
<1>3. longer \in Run /\ longer.count = entries[L].count + 1 /\ one \in Run
  BY <1>2 DEF Run
<1>4. \/ DeltaRun(entries, delta) = a /\ entries[L].value \in {0, delta}
      \/ DeltaRun(entries, delta) = b
  BY DEF DeltaRun
<1>5. a # <<>> /\ b # <<>>
  <2> HIDE DEF longer, one
  <2>1. Len(a) = L /\ Len(b) = L + 1
    BY <1>1, <1>3
  <2> QED BY <1>1, <2>1
<1>6. ASSUME entries[L].value \in {0, delta} PROVE a \in RunsFor(n + 1, vals)
  <2>1. \/ longer.value = entries[L].value
        \/ \A k \in DOMAIN vals : ~(k <= n)
    <3>1. CASE n \in DOMAIN vals /\ vals[n] # 0
      <4>1. entries[L].value = vals[n]
        BY <1>1, <3>1, LastSays
      <4> QED BY <1>6, <3>1, <4>1
    <3> QED BY <3>1
  <2>2. n + 1 \in DOMAIN vals => longer.value = vals[n + 1]
    OBVIOUS
  <2> HIDE DEF longer
  <2> QED BY <1>1, <1>3, <2>1, <2>2, RunLonger
<1>7. b \in RunsFor(n + 1, vals)
  BY RunAppended
<1> HIDE DEF a, b
<1> QED BY <1>4, <1>5, <1>6, <1>7

(* A single run of one value is a table for one value.                     *)
LEMMA OneRunFor ==
  ASSUME NEW vals, IsVals(vals), NEW v \in Int, 1 \notin DOMAIN vals
  PROVE  << [count |-> 1, value |-> v] >> \in RunsFor(1, vals)
<1> DEFINE r == [count |-> 1, value |-> v]
           u == [j \in 0..1 |-> j]
           one == <<r>>
<1>1. r \in Run /\ r.count = 1
  BY DEF Run
<1> HIDE DEF r
<1>2. one \in Seq(Run) /\ Len(one) = 1 /\ one[1] = r
  BY <1>1
<1> HIDE DEF one
<1>3. Marks(one, 1, u)
  <2>1. u \in [0..Len(one) -> Nat] /\ u[0] = 0 /\ u[Len(one)] = 1
    BY <1>2
  <2>2. ASSUME NEW j \in 1..Len(one) PROVE u[j - 1] < u[j] /\ one[j].count = u[j] - u[j - 1]
    <3>1. j = 1 /\ u[1] = 1 /\ u[0] = 0 /\ j - 1 = 0
      BY <1>2
    <3> QED BY <1>1, <1>2, <3>1
  <2> HIDE DEF u
  <2> QED BY <2>1, <2>2 DEF Marks
<1>4. Says(one, u, vals)
  <2> SUFFICES ASSUME NEW j \in 1..Len(one), NEW k \in DOMAIN vals, u[j - 1] < k, k <= u[j] PROVE FALSE
    BY DEF Says
  <2>1. j = 1 /\ u[1] = 1 /\ u[0] = 0 /\ j - 1 = 0 /\ k \in Nat
    BY <1>2 DEF IsVals
  <2>2. k = 1
    BY <2>1
  <2> QED BY <2>2
<1> QED BY <1>2, <1>3, <1>4 DEF RunsFor, one, r

(* A step of the table of offsets (write_track) makes it for one value     *)
(* more.                                                                   *)
LEMMA OffsetRunFor ==
  ASSUME NEW vals, IsVals(vals), 1 \notin DOMAIN vals,
         NEW n \in Nat, NEW entries \in RunsFor(n, vals), n # 0 => entries # <<>>, entries = <<>> => n = 0,
         NEW v \in Int, n + 1 \in DOMAIN vals => v = vals[n + 1]
  PROVE  OffsetRun(entries, v) \in RunsFor(n + 1, vals) /\ OffsetRun(entries, v) # <<>>
<1> DEFINE L == Len(entries)
<1>1. entries \in Seq(Run) /\ L \in Nat
  BY DEF RunsFor
<1>2. CASE L = 0
  <2>1. n = 0 /\ n + 1 = 1
    BY <1>1, <1>2
  <2>2. OffsetRun(entries, v) = << [count |-> 1, value |-> 0] >>
    BY <1>2 DEF OffsetRun
  <2> QED BY <2>1, <2>2, OneRunFor
<1>3. CASE L # 0
  <2>1. L \in 1..Len(entries) /\ entries[L] \in Run /\ entries[L].count \in Nat /\ entries[L].value \in Int
    <3>1. L \in 1..Len(entries) /\ entries[L] \in Run
      BY <1>1, <1>3
    <3> QED BY <3>1 DEF Run
  <2> DEFINE longer == [entries[L] EXCEPT !.count = @ + 1]
             one == [count |-> 1, value |-> v]
             a == [entries EXCEPT ![L] = longer]
             b == Append(entries, one)
  <2>2. longer \in Run /\ longer.count = entries[L].count + 1 /\ one \in Run /\ longer.value = entries[L].value
    BY <2>1 DEF Run
  <2>3. \/ OffsetRun(entries, v) = a /\ entries[L].value = v
        \/ OffsetRun(entries, v) = b
    BY <1>3, <2>1 DEF OffsetRun
  <2>4. a # <<>> /\ b # <<>>
    <3> HIDE DEF longer, one
    <3>1. Len(a) = L /\ Len(b) = L + 1
      BY <1>1, <2>2
    <3> QED BY <1>1, <1>3, <3>1
  <2>5. ASSUME entries[L].value = v PROVE a \in RunsFor(n + 1, vals)
    <3> HIDE DEF longer
    <3> QED BY <1>3, <2>2, <2>5, RunLonger
  <2>6. b \in RunsFor(n + 1, vals)
    BY RunAppended
  <2> HIDE DEF a, b
  <2> QED BY <2>3, <2>4, <2>5, <2>6
<1> QED BY <1>2, <1>3

(* The time table of a track is for its samples, and so is that of the     *)
(* offsets.                                                                *)
Timed(track) == \A i \in DOMAIN track : track[i].dts \in Int /\ track[i].pts \in Int

(* The table of times of a track is for all of its samples, and says all   *)
(* deltas if none is 0.                                                    *)
Deltas(track) == [k \in 2..Len(track) |-> (track[k].dts - track[k - 1].dts) % Modulus]
SaysDeltas(vals, track) ==
    \/ vals = Unsaid
    \/ vals = Deltas(track) /\ Distinct(track)
LEMMA SttsFits ==
  ASSUME NEW track, Len(track) \in Nat \ {0}, DOMAIN track = 1..Len(track), Timed(track),
         NEW vals, SaysDeltas(vals, track)
  PROVE  Stts(track) \in RunsFor(Len(track), vals) /\ Stts(track) # <<>>
<1> DEFINE n == Len(track) - 1
           d == [i \in 1..n |-> (track[i + 1].dts - track[i].dts) % Modulus]
           step == [p \in Seq(Run) \X Int |-> DeltaRun(p[1], p[2])]
           begin == << [count |-> 1, value |-> 0] >>
           P == [i \in Nat |-> {e \in RunsFor(i + 1, vals) : e # <<>>}]
<1>1. n \in Nat /\ Len(d) = n
  OBVIOUS
<1>2. \A i \in 1..n : d[i] \in Int
  <2> SUFFICES ASSUME NEW i \in 1..n PROVE d[i] \in Int
    OBVIOUS
  <2>1. track[i + 1].dts \in Int /\ track[i].dts \in Int
    BY <1>1 DEF Timed
  <2>2. Modulus \in Nat \ {0}
    BY ModulusAssumption
  <2> QED BY <2>1, <2>2
<1>v. /\ IsVals(vals) /\ 1 \notin DOMAIN vals
      /\ \A k \in DOMAIN vals : /\ k \in 2..(n + 1) /\ vals[k] = d[k - 1] /\ vals[k] # 0
                                 /\ \A l \in 2..(n + 1) : l \in DOMAIN vals
  <2>1. CASE vals = Unsaid
    BY <2>1 DEF Unsaid, IsVals
  <2>2. CASE vals = Deltas(track) /\ Distinct(track)
    <3>1. DOMAIN vals = 2..(n + 1)
      BY <1>1, <2>2 DEF Deltas
    <3>2. ASSUME NEW k \in 2..(n + 1) PROVE vals[k] = d[k - 1] /\ vals[k] # 0
      <4>1. k \in 2..Len(track) /\ k - 1 \in 1..n /\ (k - 1) + 1 = k
        BY <1>1
      <4> QED BY <2>2, <4>1 DEF Deltas, Distinct
    <3> QED BY <3>1, <3>2 DEF IsVals
  <2> QED BY <2>1, <2>2 DEF SaysDeltas
<1>3. begin \in P[0]
  <2>1. begin # <<>>
    OBVIOUS
  <2>2. begin \in RunsFor(1, vals)
    BY <1>v, OneRunFor
  <2> QED BY <2>1, <2>2
<1> HIDE DEF begin, d
<1>4. \A i \in 1..Len(d) : \A x \in P[i - 1] : step[<<x, d[i]>>] \in P[i]
  <2> SUFFICES ASSUME NEW i \in 1..Len(d), NEW x \in P[i - 1] PROVE step[<<x, d[i]>>] \in P[i]
    OBVIOUS
  <2>1. i \in Nat /\ i - 1 \in Nat /\ (i - 1) + 1 = i /\ i \in 1..n /\ d[i] \in Int
    BY <1>1, <1>2
  <2>2. x \in RunsFor(i, vals) /\ x # <<>>
    BY <2>1
  <2>3. x \in Seq(Run)
    BY <2>2 DEF RunsFor
  <2>4. step[<<x, d[i]>>] = DeltaRun(x, d[i])
    BY <2>1, <2>3
  <2>5. DeltaRun(x, d[i]) \in RunsFor(i + 1, vals) /\ DeltaRun(x, d[i]) # <<>>
    <3>1. i + 1 \in DOMAIN vals => d[i] = vals[i + 1]
      BY <1>v, <2>1
    <3>2. \/ i \in DOMAIN vals /\ vals[i] # 0
          \/ \A k \in DOMAIN vals : ~(k <= i)
      <4> SUFFICES ASSUME NEW k \in DOMAIN vals, k <= i PROVE i \in DOMAIN vals /\ vals[i] # 0
        OBVIOUS
      <4>1. k \in 2..(n + 1) /\ i \in 2..(n + 1)
        BY <1>1, <1>v, <2>1
      <4> QED BY <1>v, <4>1
    <3> QED BY <1>v, <2>1, <2>2, <3>1, <3>2, DeltaRunFor
  <2> HIDE DEF step
  <2> QED BY <2>1, <2>4, <2>5
<1>5. P[Len(d)] = {e \in RunsFor(Len(track), vals) : e # <<>>}
  BY <1>1
<1> HIDE DEF step, P, n
<1>6. Accumulated(step, begin, d) \in P[Len(d)]
  BY <1>1, <1>3, <1>4, Accumulates
<1>7. Stts(track) = Accumulated(step, begin, d)
  BY DEF Stts, step, begin, d, n
<1> QED BY <1>5, <1>6, <1>7

(* So is the table of the offsets of pts from dts, which says all but the  *)
(* first.                                                                  *)
Lates(track) == [k \in 2..Len(track) |-> track[k].pts - track[k].dts]
LEMMA CttsFits ==
  ASSUME NEW track, Len(track) \in Nat, DOMAIN track = 1..Len(track), Timed(track),
         NEW vals, vals = Lates(track)
  PROVE  Ctts(track) \in RunsFor(Len(track), vals) /\ (Ctts(track) = <<>> => Len(track) = 0)
<1> DEFINE n == Len(track)
           d == [i \in DOMAIN track |-> track[i].pts - track[i].dts]
           step == [p \in Seq(Run) \X Int |-> OffsetRun(p[1], p[2])]
           P == [i \in Nat |-> {e \in RunsFor(i, vals) : e = <<>> => i = 0}]
<1>1. n \in Nat /\ Len(d) = n
  OBVIOUS
<1>2. \A i \in 1..n : d[i] \in Int
  BY DEF Timed
<1>3. <<>> \in P[0]
  <2> DEFINE u == [j \in 0..0 |-> 0]
             e == <<>>
  <2>1. e \in Seq(Run) /\ Len(e) = 0
    OBVIOUS
  <2> HIDE DEF e
  <2>2. Marks(e, 0, u)
    BY <2>1 DEF Marks
  <2>3. Says(e, u, vals)
    BY <2>1 DEF Says
  <2>4. e \in RunsFor(0, vals)
    BY <2>1, <2>2, <2>3 DEF RunsFor
  <2> QED BY <2>4 DEF e
<1>v. /\ IsVals(vals) /\ 1 \notin DOMAIN vals
      /\ \A k \in DOMAIN vals : k \in 1..n /\ vals[k] = d[k]
  <2>1. DOMAIN vals = 2..n /\ \A k \in 2..n : vals[k] = track[k].pts - track[k].dts
    BY DEF Lates
  <2> QED BY <1>1, <2>1 DEF IsVals
<1> HIDE DEF d
<1>4. \A i \in 1..Len(d) : \A x \in P[i - 1] : step[<<x, d[i]>>] \in P[i]
  <2> SUFFICES ASSUME NEW i \in 1..Len(d), NEW x \in P[i - 1] PROVE step[<<x, d[i]>>] \in P[i]
    OBVIOUS
  <2>1. i \in Nat /\ i - 1 \in Nat /\ (i - 1) + 1 = i /\ i \in 1..n /\ d[i] \in Int
    BY <1>1, <1>2
  <2>2. x \in RunsFor(i - 1, vals) /\ (x = <<>> => i - 1 = 0)
    BY <2>1
  <2>3. x \in Seq(Run)
    BY <2>2 DEF RunsFor
  <2>4. step[<<x, d[i]>>] = OffsetRun(x, d[i])
    BY <2>1, <2>3
  <2>5. OffsetRun(x, d[i]) \in RunsFor((i - 1) + 1, vals) /\ OffsetRun(x, d[i]) # <<>>
    BY <1>v, <2>1, <2>2, OffsetRunFor
  <2> HIDE DEF step
  <2> QED BY <2>1, <2>4, <2>5
<1>5. P[Len(d)] = {e \in RunsFor(n, vals) : e = <<>> => n = 0}
  BY <1>1
<1> HIDE DEF step, P
<1>6. Accumulated(step, <<>>, d) \in P[Len(d)]
  BY <1>1, <1>3, <1>4, Accumulates
<1>7. Ctts(track) = Accumulated(step, <<>>, d)
  BY DEF Ctts, step, d
<1> QED BY <1>5, <1>6, <1>7

(* Counting through a table that is for n values finds all of them, each   *)
(* in the run that it is in.                                               *)
CountsTo(c, entries, u, k) ==
    /\ c \in Counter /\ c.entries = entries /\ ~c.over /\ c.at \in 1..Len(entries)
    /\ c.count = u[c.at] /\ u[c.at - 1] <= k /\ k <= c.count /\ Len(c.values) = k
LEMMA OnSampleFits ==
  ASSUME NEW n \in Nat, NEW entries \in Seq(Run), NEW u, Marks(entries, n, u),
         NEW k \in 1..n, NEW c, CountsTo(c, entries, u, k - 1)
  PROVE  /\ CountsTo(OnSample(c, k), entries, u, k)
         /\ \E j \in 1..Len(entries) : /\ u[j - 1] < k /\ k <= u[j]
                                       /\ OnSample(c, k).values = Append(c.values, entries[j].value)
<1> DEFINE L == Len(entries)
           a == IF k > c.count THEN c.at + 1 ELSE c.at
<1>0. /\ u \in [0..L -> Nat] /\ u[L] = n
      /\ \A j \in 1..L : u[j - 1] < u[j] /\ entries[j].count = u[j] - u[j - 1]
  BY Zenon DEF Marks
<1>1. L \in Nat /\ k \in Nat /\ k - 1 \in Nat
  OBVIOUS
<1>2. /\ c.values \in Seq(Int) /\ c.at \in 1..L /\ c.entries = entries /\ ~c.over
      /\ c.count = u[c.at] /\ u[c.at - 1] <= k - 1 /\ k - 1 <= c.count /\ Len(c.values) = k - 1
  BY DEF CountsTo, Counter
<1>3. /\ a \in 1..L /\ u[a - 1] < k /\ k <= u[a] /\ u[a] \in Nat
      /\ u[a] = IF k > c.count THEN c.count + entries[a].count ELSE c.count
      /\ ~(k > c.count /\ c.at = L)
  <2>1. CASE k > c.count
    <3>1. c.count = k - 1 /\ c.count \in Nat
      BY <1>0, <1>1, <1>2, <2>1
    <3>2. c.at # L
      <4>1. c.count # n
        BY <3>1
      <4> QED BY <1>0, <1>2, <4>1
    <3>3. a = c.at + 1 /\ a \in 1..L /\ a - 1 = c.at
      BY <1>1, <1>2, <2>1, <3>2
    <3> HIDE DEF a
    <3> DEFINE x == u[c.at]
               y == u[a]
               z == entries[a].count
    <3>4. x < y /\ z = y - x /\ x \in Nat /\ y \in Nat
      BY <1>0, <3>3
    <3>5. x = k - 1 /\ u[a - 1] = x /\ c.count = x
      BY <1>2, <3>1, <3>3
    <3> HIDE DEF x, y, z
    <3>6. y = x + z /\ k <= y /\ x < k
      BY <1>1, <3>4, <3>5
    <3> QED BY <2>1, <3>2, <3>3, <3>4, <3>5, <3>6 DEF y, z
  <2>2. CASE ~(k > c.count)
    <3>1. a = c.at /\ u[a] = c.count /\ c.count \in Nat /\ u[a - 1] <= k - 1
      BY <1>0, <1>2, <2>2
    <3> HIDE DEF a
    <3>2. a - 1 \in 0..L
      BY <1>1, <1>2, <3>1
    <3>3. u[a - 1] \in Nat
      BY <1>0, <3>2
    <3> DEFINE x == u[a - 1]
    <3>4. x \in Nat /\ x <= k - 1
      BY <3>1, <3>3
    <3> HIDE DEF x
    <3>5. x < k
      BY <1>1, <3>4
    <3>6. k <= c.count
      BY <1>1, <2>2, <3>1
    <3> QED BY <1>2, <2>2, <3>1, <3>5, <3>6 DEF x
  <2> QED BY <2>1, <2>2
<1>4. a = IF k > c.count THEN c.at + 1 ELSE c.at
  OBVIOUS
<1> HIDE DEF a
<1>5. entries[a].value \in Int
  <2>1. entries[a] \in Run
    BY <1>3
  <2> QED BY <2>1 DEF Run
<1> DEFINE vs == Append(c.values, entries[a].value)
           b == [entries |-> entries, at |-> a, count |-> u[a], values |-> vs, over |-> FALSE]
<1>6. OnSample(c, k) = b
  BY <1>2, <1>3, <1>4 DEF OnSample
<1>7. vs \in Seq(Int) /\ Len(vs) = k
  <2> DEFINE w == c.values
             v == entries[a].value
  <2> HIDE DEF w, v
  <2>1. w \in Seq(Int) /\ v \in Int /\ Len(w) = k - 1
    BY <1>2, <1>5 DEF w, v
  <2>2. Append(w, v) \in Seq(Int) /\ Len(Append(w, v)) = Len(w) + 1
    BY <2>1
  <2>3. Len(w) + 1 = k
    BY <1>1, <2>1
  <2> QED BY <2>2, <2>3 DEF w, v
<1>8. b \in Counter
  <2>1. a \in Nat /\ u[a] \in Nat
    BY <1>3
  <2> HIDE DEF vs
  <2> QED BY <1>7, <2>1 DEF Counter
<1>9. b.entries = entries /\ ~b.over /\ b.at = a /\ b.count = u[a] /\ b.values = vs
  OBVIOUS
<1>10. u[a - 1] <= k
  <2>1. a - 1 \in 0..L
    BY <1>1, <1>3
  <2>2. u[a - 1] \in Nat
    BY <1>0, <2>1
  <2> QED BY <1>1, <1>3, <2>2
<1> HIDE DEF b, vs
<1>11. CountsTo(b, entries, u, k)
  BY <1>3, <1>7, <1>8, <1>9, <1>10 DEF CountsTo
<1> QED BY <1>3, <1>6, <1>9, <1>11 DEF vs

(* Going through a table for n values, load_trak finds n, and those that   *)
(* the table says.                                                         *)
LEMMA CountedFits ==
  ASSUME NEW vals, NEW n \in Nat \ {0}, NEW entries \in RunsFor(n, vals)
  PROVE  /\ Len(Counted(entries, n)) = n /\ Counted(entries, n) \in Seq(Int)
         /\ \A i \in 1..n : i \in DOMAIN vals => Counted(entries, n)[i] = vals[i]
<1>1. entries \in Seq(Run)
  BY DEF RunsFor
<1>2. PICK u : Marks(entries, n, u) /\ Says(entries, u, vals)
  BY DEF RunsFor
<1> DEFINE L == Len(entries)
           s == [k \in 1..n |-> k]
           step == [p \in Counter \X Nat |-> OnSample(p[1], p[2])]
           begin == [entries |-> entries, at |-> 1, count |-> entries[1].count, values |-> <<>>, over |-> FALSE]
           Right(c, k) == \A i \in 1..k : i \in DOMAIN vals => c.values[i] = vals[i]
           P == [k \in Nat |-> {c \in Counter : CountsTo(c, entries, u, k) /\ Right(c, k)}]
<1>3. Len(s) = n /\ n \in Nat
  OBVIOUS
<1>4. begin \in P[0]
  <2>1. L # 0 /\ L \in Nat /\ 1 \in 1..L
    BY <1>1, <1>2 DEF Marks
  <2>2. entries[1].count = u[1] /\ u[1] \in Nat /\ u[0] = 0
    BY <1>2, <2>1 DEF Marks
  <2>3. begin \in Counter
    BY <1>1, <2>2 DEF Counter
  <2>4. begin.entries = entries /\ ~begin.over /\ begin.at = 1 /\ begin.count = u[1] /\ Len(begin.values) = 0
    BY <2>2
  <2>5. Right(begin, 0)
    OBVIOUS
  <2> HIDE DEF begin, Right
  <2>6. CountsTo(begin, entries, u, 0)
    BY <2>1, <2>2, <2>3, <2>4 DEF CountsTo
  <2> QED BY <2>3, <2>5, <2>6
<1>5. \A i \in 1..Len(s) : \A x \in P[i - 1] : step[<<x, s[i]>>] \in P[i]
  <2> SUFFICES ASSUME NEW i \in 1..Len(s), NEW x \in P[i - 1] PROVE step[<<x, s[i]>>] \in P[i]
    OBVIOUS
  <2>1. i \in 1..n /\ i \in Nat /\ i - 1 \in Nat /\ s[i] = i
    BY <1>3
  <2>2. x \in Counter /\ CountsTo(x, entries, u, i - 1) /\ Right(x, i - 1)
    BY <2>1
  <2>3. step[<<x, s[i]>>] = OnSample(x, i)
    BY <2>1, <2>2
  <2> DEFINE b == OnSample(x, i)
  <2>4. /\ CountsTo(b, entries, u, i)
        /\ \E j \in 1..L : u[j - 1] < i /\ i <= u[j] /\ b.values = Append(x.values, entries[j].value)
    BY <1>1, <1>2, <2>1, <2>2, OnSampleFits
  <2>5. x.values \in Seq(Int) /\ Len(x.values) = i - 1
    BY <2>2 DEF CountsTo, Counter
  <2> HIDE DEF b, step
  <2>6. ASSUME NEW k \in 1..i, k \in DOMAIN vals PROVE b.values[k] = vals[k]
    <3>1. PICK j \in 1..L : u[j - 1] < i /\ i <= u[j] /\ b.values = Append(x.values, entries[j].value)
      BY <2>4
    <3>2. CASE k = i
      <4>1. entries[j].value = vals[i]
        BY <1>2, <2>6, <3>1, <3>2 DEF Says
      <4>2. Append(x.values, entries[j].value)[i] = entries[j].value
        BY <2>1, <2>5
      <4> QED BY <3>1, <3>2, <4>1, <4>2
    <3>3. CASE k # i
      <4>1. k \in 1..(i - 1)
        BY <2>1, <3>3
      <4>2. x.values[k] = vals[k]
        BY <2>2, <2>6, <4>1
      <4>3. Append(x.values, entries[j].value)[k] = x.values[k]
        BY <2>1, <2>5, <4>1
      <4> QED BY <3>1, <4>2, <4>3
    <3> QED BY <3>2, <3>3
  <2>7. Right(b, i)
    BY <2>6
  <2>8. b \in Counter
    BY <2>4 DEF CountsTo
  <2> HIDE DEF Right
  <2>9. b \in P[i]
    BY <2>1, <2>4, <2>7, <2>8
  <2> QED BY <2>3, <2>9 DEF b
<1>6. \A c \in P[n] : Len(c.values) = n /\ c.values \in Seq(Int) /\ Right(c, n)
  <2> HIDE DEF Right
  <2> QED BY <1>3 DEF CountsTo, Counter
<1> HIDE DEF step, P, begin, s
<1>7. Accumulated(step, begin, s) \in P[n]
  BY <1>3, <1>4, <1>5, Accumulates
<1>8. Counted(entries, n) = Accumulated(step, begin, s).values
  BY DEF Counted, step, begin, s
<1> QED BY <1>6, <1>7, <1>8

(* Every chunk of the encoder has one sample.                              *)
LEMMA OneEach ==
  ASSUME NEW n \in Nat
  PROVE  SamplesPerChunk(<< [first |-> 1, samples |-> 1] >>, n) = [i \in 1..n |-> 1]
<1> DEFINE stsc == << [first |-> 1, samples |-> 1] >>
           s == [ci \in 1..n |-> ci]
           ones(k) == [i \in 1..k |-> 1]
           step == [p \in ChunkCounter \X Nat |-> OnChunk(p[1], p[2])]
           c(k) == [entries |-> stsc, at |-> 1, counts |-> ones(k)]
           P == [k \in Nat |-> {c(k)}]
<1>1. Len(s) = n
  OBVIOUS
<1>2. stsc \in Seq([first : Nat, samples : Nat]) /\ Len(stsc) = 1 /\ stsc[1].samples = 1
  OBVIOUS
<1>3. \A k \in Nat : ones(k) \in Seq(Nat)
  OBVIOUS
<1>4. \A i \in 1..n : Append(ones(i - 1), 1) = ones(i)
  OBVIOUS
<1> HIDE DEF stsc, ones
<1>5. \A k \in Nat : c(k) \in ChunkCounter
  BY <1>2, <1>3 DEF ChunkCounter
<1>6. \A i \in 1..Len(s) : \A x \in P[i - 1] : step[<<x, s[i]>>] \in P[i]
  <2> SUFFICES ASSUME NEW i \in 1..Len(s), NEW x \in P[i - 1] PROVE step[<<x, s[i]>>] \in P[i]
    OBVIOUS
  <2>1. i \in 1..n /\ i \in Nat /\ i - 1 \in Nat /\ s[i] = i
    BY <1>1
  <2>2. x = c(i - 1) /\ x \in ChunkCounter
    BY <1>5, <2>1
  <2>3. step[<<x, s[i]>>] = OnChunk(x, i)
    BY <2>1, <2>2
  <2>4. x.entries = stsc /\ x.at = 1 /\ x.counts = ones(i - 1)
    BY <2>2
  <2>5. Len(x.entries) = 1 /\ x.entries[1].samples = 1
    BY <1>2, <2>4
  <2>6. ~(x.at < Len(x.entries))
    <3> HIDE DEF c
    <3> QED BY <2>4, <2>5
  <2>7. OnChunk(x, i) = [entries |-> x.entries, at |-> x.at, counts |-> Append(x.counts, x.entries[x.at].samples)]
    BY <2>6 DEF OnChunk
  <2>8. OnChunk(x, i) = c(i)
    BY <1>4, <2>1, <2>4, <2>5, <2>7
  <2> HIDE DEF step, c
  <2> QED BY <2>1, <2>3, <2>8
<1>7. c(0) \in P[0] /\ P[n] = {c(n)} /\ ones(0) = <<>>
  BY DEF ones
<1>8. c(n).counts = ones(n) /\ c(0) = [entries |-> stsc, at |-> 1, counts |-> <<>>]
  BY <1>7
<1> HIDE DEF step, P, s, c
<1>9. Accumulated(step, c(0), s) \in P[n]
  BY <1>1, <1>6, <1>7, Accumulates
<1>10. SamplesPerChunk(stsc, n) = Accumulated(step, c(0), s).counts
  BY <1>8 DEF SamplesPerChunk, step, s
<1> QED BY <1>7, <1>8, <1>9, <1>10 DEF stsc, ones

(* So the encoder's tables of a track fit each other.                      *)
LEMMA TablesFit ==
  ASSUME NEW t, NEW n \in Nat, n # 0, Len(t.stsz) = n, Len(t.stco) = n,
         t.stsc = << [first |-> 1, samples |-> 1] >>, NEW vals, t.stts \in RunsFor(n, vals),
         NEW lates, t.ctts = NoTable \/ t.ctts \in RunsFor(n, lates)
  PROVE  Fitting(t)
<1>1. SamplesPerChunk(t.stsc, Len(t.stco)) = [i \in 1..n |-> 1]
  BY OneEach
<1>2. Sum(SamplesPerChunk(t.stsc, Len(t.stco))) = n
  BY <1>1, SumOnes
<1>3. Len(Counted(t.stts, n)) = n
  BY CountedFits
<1>4. Len(Offsets(t, n)) = n
  <2>1. CASE t.ctts = NoTable
    BY <2>1 DEF Offsets
  <2>2. CASE t.ctts # NoTable
    BY <2>2, CountedFits DEF Offsets
  <2> QED BY <2>1, <2>2
<1> QED BY <1>2, <1>3, <1>4 DEF Fitting

(* What the encoder writes can be loaded.                                  *)
LEMMA OfTypeIs ==
  ASSUME NEW ss, ss \in Seq(Range(ss)), Timed(ss), NEW i \in DOMAIN ss
  PROVE  LET track == OfType(ss, ss[i].type) IN
         Len(track) \in Nat \ {0} /\ DOMAIN track = 1..Len(track) /\ Timed(track)
<1> DEFINE S == Range(ss)
           T == {s \in S : s.type = ss[i].type}
           track == OfType(ss, ss[i].type)
<1>1. ss[i] \in T /\ i \in 1..Len(ss)
  BY DEF Range
<1>2. \A s \in S : s.dts \in Int /\ s.pts \in Int
  BY DEF Timed, Range
<1>3. track = Among(ss, T)
  BY DEF OfType
<1> HIDE DEF T, S, track
<1>4. track \in Seq(S \cap T) /\ track # <<>>
  <2>1. ss \in Seq(S)
    BY DEF S
  <2> QED BY <1>1, <1>3, <2>1, AmongType, AmongSome
<1>5. Len(track) \in Nat \ {0} /\ DOMAIN track = 1..Len(track)
  BY <1>4
<1>6. \A j \in DOMAIN track : track[j] \in S
  BY <1>4
<1>7. Timed(track)
  BY <1>2, <1>6 DEF Timed
<1> QED BY <1>5, <1>7 DEF track

(* SrsMp4SampleManager::write makes tables that load takes.                *)
LEMMA WrittenIsLoadable ==
  ASSUME NEW ss, ss \in Seq(Range(ss)), Timed(ss)
  PROVE  Loadable(Write(ss))
<1> DEFINE types == {ss[i].type : i \in DOMAIN ss}
           hasCts == \E i \in DOMAIN ss : ss[i].dts # ss[i].pts
<1>1. Write(ss) = [type \in types |-> WriteTrack(ss, type, hasCts)]
  BY DEF Write
<1> SUFFICES ASSUME NEW type \in types PROVE Fitting(WriteTrack(ss, type, hasCts))
  BY <1>1 DEF Loadable
<1> DEFINE track == OfType(ss, type)
           n == Len(track)
           t == WriteTrack(ss, type, hasCts)
<1>2. n \in Nat \ {0} /\ DOMAIN track = 1..n /\ Timed(track)
  BY OfTypeIs
<1>3. /\ t.stsz = [i \in DOMAIN track |-> track[i].size] /\ t.stco = [i \in DOMAIN track |-> track[i].offset]
      /\ t.stsc = << [first |-> 1, samples |-> 1] >> /\ t.stts = Stts(track)
      /\ t.ctts = NoTable \/ t.ctts = Ctts(track)
  BY DEF WriteTrack
<1> HIDE DEF track, t, types, hasCts
<1>4. t.stts \in RunsFor(n, Unsaid) /\ (t.ctts = NoTable \/ t.ctts \in RunsFor(n, Lates(track)))
  BY <1>2, <1>3, SttsFits, CttsFits DEF SaysDeltas
<1>5. Len(t.stsz) = n /\ Len(t.stco) = n
  BY <1>2, <1>3
<1>6. Fitting(t)
  <2> HIDE DEF n
  <2> QED BY <1>2, <1>3, <1>4, <1>5, TablesFit
<1> QED BY <1>6 DEF t

-----------------------------------------------------------------------------
(* What is loaded of what the encoder writes.                              *)
IsSeq(f) == f \in Seq(Range(f))

(* A sum of integers, and of one more.                                     *)
LEMMA SumInt ==
  ASSUME NEW s \in Seq(Int)
  PROVE  Sum(s) \in Int /\ \A x \in Int : Sum(Append(s, x)) = Sum(s) + x
<1> DEFINE step == [p \in Int \X Int |-> p[1] + p[2]]
           P == [i \in Nat |-> Int]
<1>1. \A i \in 1..Len(s) : \A x \in P[i - 1] : step[<<x, s[i]>>] \in P[i]
  <2> SUFFICES ASSUME NEW i \in 1..Len(s), NEW x \in P[i - 1] PROVE step[<<x, s[i]>>] \in P[i]
    OBVIOUS
  <2>1. x \in Int /\ s[i] \in Int /\ P[i] = Int
    OBVIOUS
  <2>2. step[<<x, s[i]>>] = x + s[i]
    BY <2>1
  <2> QED BY <2>1, <2>2
<1>2. Len(s) \in Nat /\ P[Len(s)] = Int /\ 0 \in P[0]
  OBVIOUS
<1>a. \A y, x \in Int : step[<<y, x>>] = y + x
  OBVIOUS
<1> HIDE DEF step, P
<1>3. Accumulated(step, 0, s) \in P[Len(s)]
  BY <1>1, <1>2, Accumulates
<1>4. Sum(s) \in Int
  BY <1>2, <1>3 DEF Sum, step
<1>5. ASSUME NEW x \in Int PROVE Sum(Append(s, x)) = Sum(s) + x
  <2>1. Accumulated(step, 0, Append(s, x)) = step[<<Accumulated(step, 0, s), x>>]
    BY AccumulatedAppend
  <2>2. Sum(Append(s, x)) = step[<<Sum(s), x>>]
    BY <2>1 DEF Sum, step
  <2> QED BY <1>4, <1>a, <2>2
<1> QED BY <1>4, <1>5

(* What is a multiple of the modulus has no remainder.                     *)
LEMMA NoRemainder ==
  ASSUME NEW M \in Nat \ {0}, NEW k \in Int, NEW x \in Int, x = M * k
  PROVE  x % M = 0
<1> DEFINE q == x \div M
           r == x % M
<1>1. q \in Int /\ r \in Int /\ x = M * q + r /\ 0 <= r /\ r < M
  OBVIOUS
<1> HIDE DEF q, r
<1>2. M * (k - q) = r
  BY <1>1
<1>3. ASSUME k - q >= 1 PROVE FALSE
  <2> DEFINE z == k - q
  <2>1. z \in Int /\ z >= 1 /\ M * z = r
    BY <1>1, <1>2, <1>3
  <2> HIDE DEF z
  <2>2. M * z >= M * 1
    BY <2>1
  <2> QED BY <1>1, <2>1, <2>2
<1>4. ASSUME k - q <= -1 PROVE FALSE
  <2> DEFINE z == k - q
  <2>1. z \in Int /\ z <= -1 /\ M * z = r
    BY <1>1, <1>2, <1>4
  <2> HIDE DEF z
  <2>2. M * z <= M * (-1)
    BY <2>1
  <2> QED BY <1>1, <2>1, <2>2
<1>5. k - q = 0
  BY <1>1, <1>3, <1>4
<1>6. r = 0
  BY <1>1, <1>2, <1>5
<1> QED BY <1>6 DEF r

(* Two times that are moved by as much and lose their wraps are as far     *)
(* from each other, but for wraps.                                         *)
LEMMA Moved ==
  ASSUME NEW M \in Nat \ {0}, NEW x \in Int, NEW y \in Int, NEW a \in Int, NEW d \in Int,
         x - y = d \/ x - y = d % M
  PROVE  (((x + a) % M) - ((y + a) % M) - d) % M = 0
<1>1. PICK c \in Int : x - y = d - M * c
  <2>1. CASE x - y = d
    BY <2>1
  <2>2. CASE x - y = d % M
    <3>1. d \div M \in Int /\ d % M \in Int /\ d = M * (d \div M) + (d % M)
      OBVIOUS
    <3> DEFINE q == d \div M
               r == d % M
    <3> HIDE DEF q, r
    <3>2. q \in Int /\ r \in Int /\ d = M * q + r /\ x - y = r
      BY <2>2, <3>1 DEF q, r
    <3>3. x - y = d - M * q
      BY <3>2
    <3> QED BY <3>2, <3>3
  <2> QED BY <2>1, <2>2
<1> DEFINE u == x + a
           v == y + a
           qu == u \div M
           ru == u % M
           qv == v \div M
           rv == v % M
<1>2. u \in Int /\ v \in Int /\ u - v = x - y
  OBVIOUS
<1> HIDE DEF u, v
<1>3. qu \in Int /\ ru \in Int /\ u = M * qu + ru /\ qv \in Int /\ rv \in Int /\ v = M * qv + rv
  BY <1>2
<1> HIDE DEF qu, ru, qv, rv
<1> DEFINE z == ru - rv - d
           k == qv - qu - c
<1>4. z \in Int /\ k \in Int
  BY <1>3
<1>5. z = M * k
  <2>1. ru = u - M * qu /\ rv = v - M * qv /\ u - v = d - M * c
    BY <1>1, <1>2, <1>3
  <2>2. z = M * qv - M * qu - M * c
    BY <1>2, <1>3, <2>1
  <2>3. M * k = M * qv - M * qu - M * c
    BY <1>3
  <2> QED BY <2>2, <2>3
<1> HIDE DEF z, k
<1>6. z % M = 0
  BY <1>4, <1>5, NoRemainder
<1> QED BY <1>6 DEF z, ru, rv, u, v

(* The farthest of integers that have a bound is one of them.              *)
LEMMA FarthestOf ==
  ASSUME NEW S \in SUBSET Int, S # {}, NEW n \in Int, \A x \in S : x <= n
  PROVE  Farthest(S) \in Int
<1> DEFINE T == {n - x : x \in S}
<1>1. T \in SUBSET Nat /\ T # {}
  <2>1. \A x \in S : n - x \in Nat
    OBVIOUS
  <2>2. PICK x \in S : TRUE
    OBVIOUS
  <2>3. n - x \in T
    OBVIOUS
  <2> QED BY <2>1, <2>3
<1> HIDE DEF T
<1>2. PICK t \in T : \A m \in T : t <= m
  BY <1>1, LeastNat
<1>3. PICK x \in S : t = n - x
  BY DEF T
<1>4. \A y \in S : x >= y
  <2> SUFFICES ASSUME NEW y \in S PROVE x >= y
    OBVIOUS
  <2>1. n - y \in T
    BY DEF T
  <2>2. n - x <= n - y
    BY <1>2, <1>3, <2>1
  <2>3. x \in Int /\ y \in Int
    OBVIOUS
  <2> QED BY <2>2, <2>3
<1> QED BY <1>3, <1>4 DEF Farthest

(* Audio is adjusted by an integer.                                        *)
LEMMA AdjustType ==
  ASSUME NEW ss, Len(ss) \in Nat, \A i \in 1..Len(ss) : ss[i].dts \in Int
  PROVE  Adjust(ss) \in Int
<1>1. Modulus \in Nat \ {0}
  BY ModulusAssumption
<1>2. \A x \in Int : Signed(x) \in Int /\ Signed(x) <= Modulus /\ -Signed(x) <= Modulus
  <2> SUFFICES ASSUME NEW x \in Int PROVE Signed(x) \in Int /\ Signed(x) <= Modulus /\ -Signed(x) <= Modulus
    OBVIOUS
  <2> DEFINE m == x % Modulus
  <2>1. m \in Nat /\ m < Modulus
    BY <1>1, Remainder
  <2>2. Signed(x) = IF 2 * m >= Modulus THEN m - Modulus ELSE m
    BY DEF Signed
  <2> HIDE DEF m
  <2> QED BY <1>1, <2>1, <2>2
<1>3. \A d \in Diffs(ss) : d \in Int /\ d <= Modulus /\ -d <= Modulus
  <2> SUFFICES ASSUME NEW d \in Diffs(ss) PROVE d \in Int /\ d <= Modulus /\ -d <= Modulus
    OBVIOUS
  <2>1. PICK i \in 2..Len(ss) : d = Signed(ss[i].dts - ss[i - 1].dts)
    BY DEF Diffs
  <2>2. i \in 1..Len(ss) /\ i - 1 \in 1..Len(ss)
    OBVIOUS
  <2>3. ss[i].dts - ss[i - 1].dts \in Int
    BY <2>2
  <2> QED BY <1>2, <2>1, <2>3
<1> DEFINE D == Diffs(ss)
           A == D \cup {0}
           B == {-d : d \in D} \cup {0}
<1> HIDE DEF D
<1>4. \A d \in D : d \in Int /\ d <= Modulus /\ -d <= Modulus
  BY <1>3 DEF D
<1>5. A \in SUBSET Int /\ A # {} /\ \A x \in A : x <= Modulus
  BY <1>1, <1>4
<1>6. B \in SUBSET Int /\ B # {} /\ \A x \in B : x <= Modulus
  BY <1>1, <1>4
<1>7. Modulus \in Int
  BY <1>1
<1> HIDE DEF A, B
<1> DEFINE p == Farthest(A)
           q == Farthest(B)
<1>8. p \in Int /\ q \in Int
  BY <1>5, <1>6, <1>7, FarthestOf
<1>9. Adjust(ss) = IF p * (-q) = 0 THEN 0 - p - (-q) ELSE 0
  BY DEF Adjust, A, B, D
<1> HIDE DEF p, q
<1> QED BY <1>8, <1>9

-----------------------------------------------------------------------------
(* What is loaded of a track that the encoder has written: the samples of  *)
(* the track where they are, and the times between them.                   *)
IsLoaded(loaded, type, track) ==
    /\ IsSeq(loaded) /\ Len(loaded) = Len(track) /\ DOMAIN loaded = 1..Len(track)
    /\ \A k \in 1..Len(track) :
          /\ loaded[k].type = type /\ loaded[k].offset = track[k].offset
          /\ loaded[k].dts \in Int /\ loaded[k].pts \in Int
    /\ \A k \in 2..Len(track) : loaded[k].pts - loaded[k].dts = Cts(track[k])
    /\ Distinct(track) =>
          \A k \in 2..Len(track) :
             loaded[k].dts - loaded[k - 1].dts = (track[k].dts - track[k - 1].dts) % Modulus

(* The places of the samples, each of which is a chunk.                    *)
LEMMA OnePlaces ==
  ASSUME NEW n \in Nat, NEW ss,
         ss = [ci \in 1..n |-> [i \in 1..1 |-> [chunk |-> ci, before |-> i - 1]]]
  PROVE  \A k \in 1..n : FlattenSeq(ss)[k].chunk = k /\ FlattenSeq(ss)[k].before = 0
<1> DEFINE S == [chunk : Nat, before : Nat]
           f == FlattenSeq(ss)
<1>1. ss \in Seq(Seq(S)) /\ Len(ss) = n /\ \A i \in 1..n : Len(ss[i]) = 1 /\ ss[i][1].chunk = i /\ ss[i][1].before = 0
  OBVIOUS
<1> HIDE DEF S, f
<1>2. PICK st : IsPlaced(ss, st, f)
  BY <1>1, FlatPlaces DEF f
<1>3. /\ st[1] = 0 /\ \A i \in 1..n : st[i + 1] = st[i] + Len(ss[i])
      /\ \A i \in 1..n : \A j \in 1..Len(ss[i]) : f[st[i] + j] = ss[i][j]
  BY <1>1, <1>2 DEF IsPlaced
<1> DEFINE P == {i \in Nat : i + 1 <= n + 1 => st[i + 1] = i}
<1>4. P = Nat
  <2>1. 0 \in P
    BY <1>3
  <2>2. ASSUME NEW i \in P PROVE i + 1 \in P
    <3> SUFFICES ASSUME i + 2 <= n + 1 PROVE st[i + 2] = i + 1
      OBVIOUS
    <3>1. i + 1 \in 1..n /\ st[i + 1] = i
      OBVIOUS
    <3>2. st[(i + 1) + 1] = st[i + 1] + 1
      BY <1>1, <1>3, <3>1
    <3> QED BY <3>1, <3>2
  <2> QED
    <3>1. P \in SUBSET Nat
      OBVIOUS
    <3> HIDE DEF P
    <3> QED BY <2>1, <2>2, <3>1, Induction
<1>5. ASSUME NEW k \in 1..n PROVE f[k].chunk = k /\ f[k].before = 0
  <2>1. k - 1 \in P
    <3>1. k - 1 \in Nat
      OBVIOUS
    <3> HIDE DEF P
    <3> QED BY <1>4, <3>1
  <2>2. st[k] = k - 1
    BY <2>1
  <2>3. f[st[k] + 1] = ss[k][1]
    <3>1. 1 \in 1..Len(ss[k])
      BY <1>1
    <3> QED BY <1>3, <3>1
  <2> QED BY <1>1, <2>2, <2>3
<1> QED BY <1>5 DEF f

(* Sums of the front of a sequence.                                        *)
LEMMA FrontSums ==
  ASSUME NEW s \in Seq(Int), NEW k \in 1..Len(s)
  PROVE  /\ Sum(SubSeq(s, 2, k)) \in Int
         /\ k >= 2 => Sum(SubSeq(s, 2, k)) - Sum(SubSeq(s, 2, k - 1)) = s[k]
<1> DEFINE a == SubSeq(s, 2, k)
           b == SubSeq(s, 2, k - 1)
<1>1. a \in Seq(Int) /\ b \in Seq(Int)
  OBVIOUS
<1>2. ASSUME k >= 2 PROVE a = Append(b, s[k])
  BY <1>2
<1>3. s[k] \in Int
  OBVIOUS
<1> HIDE DEF a, b
<1>4. Sum(a) \in Int /\ Sum(b) \in Int /\ Sum(Append(b, s[k])) = Sum(b) + s[k]
  BY <1>1, <1>3, SumInt
<1>5. ASSUME k >= 2 PROVE Sum(a) - Sum(b) = s[k]
  <2>1. a = Append(b, s[k])
    BY <1>2, <1>5
  <2> DEFINE x == Sum(a)
             y == Sum(b)
  <2>2. x = y + s[k] /\ x \in Int /\ y \in Int
    BY <1>4, <2>1
  <2> HIDE DEF x, y
  <2> QED BY <1>3, <2>2 DEF x, y
<1> QED BY <1>4, <1>5 DEF a, b

\* A track as the encoder has it, and its tables.
IsTrack(track) ==
    /\ Len(track) \in Nat \ {0} /\ DOMAIN track = 1..Len(track) /\ Timed(track)
    /\ \A k \in 1..Len(track) : track[k].offset \in Int /\ track[k].size \in Nat
AreTables(t, type, track, hasCts) ==
    /\ t.stts = Stts(track) /\ t.stsc = << [first |-> 1, samples |-> 1] >>
    /\ t.ctts = IF type = Video /\ hasCts THEN Ctts(track) ELSE NoTable
    /\ t.stsz = [i \in DOMAIN track |-> track[i].size]
    /\ t.stco = [i \in DOMAIN track |-> track[i].offset]

(* The samples of a track are loaded where they are, at their times        *)
(* (SrsMp4SampleManager::load_trak).                                       *)
LEMMA TrackLoaded ==
  ASSUME NEW type, NEW track, IsTrack(track), NEW t, NEW hasCts \in BOOLEAN, AreTables(t, type, track, hasCts),
         \A k \in 1..Len(track) : track[k].type = type,
         hasCts \/ \A k \in 1..Len(track) : track[k].dts = track[k].pts
  PROVE  IsLoaded(LoadTrak(type, t), type, track)
<1> DEFINE n == Len(track)
           perChunk == SamplesPerChunk(t.stsc, Len(t.stco))
           deltas == Counted(t.stts, n)
           offsets == Offsets(t, n)
           places == FlattenSeq([ci \in DOMAIN perChunk |->
                                [i \in 1..perChunk[ci] |-> [chunk |-> ci, before |-> i - 1]]])
           Place(k) == t.stco[places[k].chunk] + Sum(SubSeq(t.stsz, k - places[k].before, k - 1))
           Dts(k) == Sum(SubSeq(deltas, 2, k))
           loaded == LoadTrak(type, t)
<1>1. n \in Nat /\ n # 0 /\ DOMAIN track = 1..n /\ Timed(track)
  BY DEF IsTrack
<1>2. \A k \in 1..n : track[k].offset \in Int /\ track[k].dts \in Int /\ track[k].pts \in Int
  BY <1>1 DEF IsTrack, Timed
<1>3. /\ t.stsz = [i \in 1..n |-> track[i].size] /\ t.stco = [i \in 1..n |-> track[i].offset]
      /\ t.stsc = << [first |-> 1, samples |-> 1] >> /\ t.stts = Stts(track)
      /\ t.ctts = IF type = Video /\ hasCts THEN Ctts(track) ELSE NoTable
  BY <1>1 DEF AreTables
<1>4. Len(t.stco) = n
  BY <1>1, <1>3
<1>5. perChunk = [i \in 1..n |-> 1] /\ Sum(perChunk) = n
  <2>1. perChunk = [i \in 1..n |-> 1]
    BY <1>1, <1>3, <1>4, OneEach
  <2> HIDE DEF perChunk
  <2> QED BY <1>1, <2>1, SumOnes
<1>6. loaded = [k \in 1..n |->
          [type |-> type, offset |-> Place(k), size |-> t.stsz[k],
           dts |-> Dts(k), pts |-> Dts(k) + offsets[k],
           key |-> type = Video /\ (t.stss = NoTable \/ k \in Range(t.stss[1]))]]
  BY <1>5 DEF LoadTrak
<1>7. \A k \in 1..n : places[k].chunk = k /\ places[k].before = 0
  <2> DEFINE ss == [ci \in 1..n |-> [i \in 1..1 |-> [chunk |-> ci, before |-> i - 1]]]
  <2>1. [ci \in DOMAIN perChunk |-> [i \in 1..perChunk[ci] |-> [chunk |-> ci, before |-> i - 1]]] = ss
    BY <1>5
  <2> HIDE DEF perChunk, ss
  <2>2. \A k \in 1..n : FlattenSeq(ss)[k].chunk = k /\ FlattenSeq(ss)[k].before = 0
    BY <1>1, OnePlaces DEF ss
  <2> QED BY <2>1, <2>2
<1> HIDE DEF places
<1>8. \A k \in 1..n : Place(k) = track[k].offset
  <2> SUFFICES ASSUME NEW k \in 1..n PROVE Place(k) = track[k].offset
    OBVIOUS
  <2>1. places[k].chunk = k /\ places[k].before = 0
    BY <1>7
  <2>2. t.stco[k] = track[k].offset
    BY <1>3
  <2>3. Len(SubSeq(t.stsz, k, k - 1)) = 0
    BY <1>3
  <2>4. Sum(SubSeq(t.stsz, k, k - 1)) = 0
    BY <2>3, SumEmpty
  <2>5. k - 0 = k
    OBVIOUS
  <2> QED BY <1>2, <2>1, <2>2, <2>4, <2>5
<1> HIDE DEF Place, perChunk, places
<1>9. /\ Len(deltas) = n /\ deltas \in Seq(Int)
      /\ Distinct(track) => \A k \in 2..n : deltas[k] = (track[k].dts - track[k - 1].dts) % Modulus
  <2> DEFINE vals == Deltas(track)
  <2>1. Stts(track) \in RunsFor(n, Unsaid) /\ (Distinct(track) => Stts(track) \in RunsFor(n, vals))
    BY <1>1, SttsFits DEF SaysDeltas
  <2>2. Len(deltas) = n /\ deltas \in Seq(Int)
    BY <1>1, <1>3, <2>1, CountedFits
  <2>3. ASSUME Distinct(track), NEW k \in 2..n PROVE deltas[k] = (track[k].dts - track[k - 1].dts) % Modulus
    <3>1. k \in 1..n /\ k \in DOMAIN vals /\ vals[k] = (track[k].dts - track[k - 1].dts) % Modulus
      BY <1>1 DEF Deltas
    <3> HIDE DEF vals, deltas
    <3>2. \A i \in 1..n : i \in DOMAIN vals => Counted(t.stts, n)[i] = vals[i]
      BY <1>1, <1>3, <2>1, <2>3, CountedFits
    <3> QED BY <3>1, <3>2 DEF deltas
  <2> QED BY <2>2, <2>3
<1>10. /\ \A k \in 1..n : offsets[k] \in Int
       /\ \A k \in 2..n : offsets[k] = Cts(track[k])
  <2> DEFINE vals == Lates(track)
  <2>1. CASE type = Video /\ hasCts
    <3>1. t.ctts = Ctts(track) /\ Ctts(track) \in RunsFor(n, vals) /\ Ctts(track) # NoTable
      <4>1. t.ctts = Ctts(track)
        BY <1>3, <2>1
      <4>2. Ctts(track) \in RunsFor(n, vals) /\ Ctts(track) # <<>>
        BY <1>1, CttsFits
      <4> QED BY <4>1, <4>2 DEF NoTable
    <3>2. offsets = Counted(t.ctts, n)
      BY <3>1 DEF Offsets
    <3> HIDE DEF vals, offsets
    <3>3. Len(offsets) = n /\ offsets \in Seq(Int) /\ \A i \in 1..n : i \in DOMAIN vals => offsets[i] = vals[i]
      BY <1>1, <3>1, <3>2, CountedFits
    <3>4. \A k \in 2..n : k \in 1..n /\ k \in DOMAIN vals /\ vals[k] = Cts(track[k])
      <4> SUFFICES ASSUME NEW k \in 2..n PROVE k \in 1..n /\ k \in DOMAIN vals /\ vals[k] = Cts(track[k])
        OBVIOUS
      <4>1. k \in 1..n /\ track[k].type = Video
        BY <2>1
      <4>2. k \in DOMAIN vals /\ vals[k] = track[k].pts - track[k].dts
        BY <1>1 DEF vals, Lates
      <4> QED BY <4>1, <4>2 DEF Cts
    <3> QED BY <1>1, <3>3, <3>4
  <2>2. CASE ~(type = Video /\ hasCts)
    <3>1. t.ctts = NoTable
      BY <1>3, <2>2
    <3>2. offsets = [k \in 1..n |-> 0]
      BY <3>1 DEF Offsets
    <3>3. \A k \in 1..n : Cts(track[k]) = 0
      <4> SUFFICES ASSUME NEW k \in 1..n PROVE Cts(track[k]) = 0
        OBVIOUS
      <4>1. type = Video => track[k].dts = track[k].pts
        BY <2>2
      <4>2. track[k].type = type
        OBVIOUS
      <4> QED BY <1>2, <4>1, <4>2 DEF Cts
    <3> HIDE DEF offsets
    <3> QED BY <1>1, <3>2, <3>3
  <2> QED BY <2>1, <2>2
<1> HIDE DEF deltas, offsets
<1>11. \A k \in 1..n : Dts(k) \in Int
  BY <1>9, FrontSums
<1>12. \A k \in 2..n : Dts(k) - Dts(k - 1) = deltas[k]
  BY <1>9, FrontSums
<1> HIDE DEF Dts, loaded
<1>13. IsSeq(loaded) /\ Len(loaded) = n /\ DOMAIN loaded = 1..n
  <2>1. loaded = [k \in 1..n |-> loaded[k]] /\ DOMAIN loaded = 1..n
    BY <1>6
  <2> DEFINE R == Range(loaded)
  <2>2. \A k \in 1..n : loaded[k] \in R
    BY <2>1 DEF Range
  <2> HIDE DEF R, n
  <2>3. [k \in 1..n |-> loaded[k]] \in Seq(R) /\ Len([k \in 1..n |-> loaded[k]]) = n
    BY <1>1, <2>2
  <2> QED BY <2>1, <2>3 DEF R, IsSeq
<1>14. \A k \in 1..n : /\ loaded[k].type = type /\ loaded[k].offset = Place(k)
                       /\ loaded[k].dts = Dts(k) /\ loaded[k].pts = Dts(k) + offsets[k]
  BY <1>6
<1>15. \A k \in 2..n : loaded[k].pts - loaded[k].dts = Cts(track[k])
  <2> SUFFICES ASSUME NEW k \in 2..n PROVE loaded[k].pts - loaded[k].dts = Cts(track[k])
    OBVIOUS
  <2>1. k \in 1..n
    OBVIOUS
  <2> QED BY <1>10, <1>11, <1>14, <2>1
<1>16. Distinct(track) => \A k \in 2..n : loaded[k].dts - loaded[k - 1].dts = (track[k].dts - track[k - 1].dts) % Modulus
  <2> SUFFICES ASSUME Distinct(track), NEW k \in 2..n
               PROVE loaded[k].dts - loaded[k - 1].dts = (track[k].dts - track[k - 1].dts) % Modulus
    OBVIOUS
  <2>1. k \in 1..n /\ k - 1 \in 1..n
    OBVIOUS
  <2> QED BY <1>9, <1>12, <1>14, <2>1
<1>17. \A k \in 1..n : loaded[k].dts \in Int /\ loaded[k].pts \in Int
  BY <1>10, <1>11, <1>14
<1> QED BY <1>8, <1>13, <1>14, <1>15, <1>16, <1>17 DEF IsLoaded, loaded, n

-----------------------------------------------------------------------------
(* Samples by their place in the file.                                     *)
HavePlaces(S) == \A s \in S : s.offset \in Int
Sorted(q) == \A i, j \in 1..Len(q) : i < j => q[i].offset < q[j].offset

(* What is picked of a sorted sequence is sorted.                          *)
LEMMA AmongSorted ==
  ASSUME NEW S, NEW T, NEW s \in Seq(S), Sorted(s)
  PROVE  Sorted(Among(s, T))
<1> DEFINE P == {q \in Seq(S) : Sorted(q) => Sorted(Among(q, T))}
<1>1. <<>> \in P
  <2>1. Sorted(<<>>)
    BY DEF Sorted
  <2> QED BY <2>1, AmongEmpty
<1>2. ASSUME NEW q \in P, NEW x \in S PROVE Append(q, x) \in P
  <2> DEFINE r == Append(q, x)
  <2>1. q \in Seq(S) /\ r \in Seq(S) /\ (Sorted(q) => Sorted(Among(q, T)))
    OBVIOUS
  <2> SUFFICES ASSUME Sorted(r) PROVE Sorted(Among(r, T))
    BY <2>1
  <2>2. Len(r) = Len(q) + 1 /\ r[Len(r)] = x /\ (\A i \in 1..Len(q) : r[i] = q[i]) /\ Len(q) \in Nat
    OBVIOUS
  <2> HIDE DEF r
  <2>3. Sorted(q) /\ \A i \in 1..Len(q) : q[i].offset < x.offset
    <3>1. \A i \in 1..Len(q) : i \in 1..Len(r) /\ i < Len(r) /\ Len(r) \in 1..Len(r)
      BY <2>2
    <3>2. Sorted(q)
      BY <2>2, <3>1 DEF Sorted
    <3>3. \A i \in 1..Len(q) : q[i].offset < x.offset
      BY <2>2, <3>1 DEF Sorted
    <3> QED BY <3>2, <3>3
  <2>4. Among(r, T) = IF x \in T THEN Append(Among(q, T), x) ELSE Among(q, T)
    BY <2>1, AmongAppend DEF r
  <2> DEFINE a == Among(q, T)
  <2>5. a \in Seq(S) /\ Range(a) = Range(q) \cap T /\ Sorted(a)
    BY <2>1, <2>3, AmongIn, AmongHas
  <2>6. \A i \in 1..Len(a) : a[i].offset < x.offset
    <3> SUFFICES ASSUME NEW i \in 1..Len(a) PROVE a[i].offset < x.offset
      OBVIOUS
    <3> HIDE DEF a
    <3>0. a[i] \in Range(a)
      BY <2>5 DEF Range
    <3>1. a[i] \in Range(q)
      BY <2>5, <3>0
    <3>2. PICK j \in 1..Len(q) : q[j] = a[i]
      BY <2>1, <3>1 DEF Range
    <3> QED BY <2>3, <3>2
  <2> HIDE DEF a
  <2>7. Sorted(Append(a, x))
    <3> DEFINE b == Append(a, x)
    <3>1. Len(b) = Len(a) + 1 /\ b[Len(b)] = x /\ (\A i \in 1..Len(a) : b[i] = a[i]) /\ Len(a) \in Nat
      BY <2>5
    <3> HIDE DEF b
    <3> SUFFICES ASSUME NEW i \in 1..Len(b), NEW j \in 1..Len(b), i < j PROVE b[i].offset < b[j].offset
      BY DEF Sorted, b
    <3>2. i \in 1..Len(a) /\ (j \in 1..Len(a) \/ j = Len(b))
      BY <3>1
    <3>3. CASE j \in 1..Len(a)
      <4>1. a[i].offset < a[j].offset
        BY <2>5, <3>2, <3>3 DEF Sorted
      <4> QED BY <3>1, <3>2, <3>3, <4>1
    <3>4. CASE j = Len(b)
      BY <2>6, <3>1, <3>2, <3>4
    <3> QED BY <3>2, <3>3, <3>4
  <2> QED BY <2>4, <2>5, <2>7 DEF a
<1>3. P = Seq(S)
  <2>1. P \in SUBSET Seq(S) OBVIOUS
  <2> HIDE DEF P
  <2> QED BY <1>1, <1>2, <2>1, SeqInduction
<1>4. s \in P
  <2> HIDE DEF P
  <2> QED BY <1>3
<1> QED BY <1>4

(* Two sorted sequences, one behind the other.                             *)
LEMMA SortedJoin ==
  ASSUME NEW S, NEW a \in Seq(S), NEW b \in Seq(S)
  PROVE  /\ a \o b \in Seq(S) /\ Range(a \o b) = Range(a) \cup Range(b)
         /\ (/\ Sorted(a) /\ Sorted(b)
             /\ \A x \in Range(a), y \in Range(b) : x.offset < y.offset) => Sorted(a \o b)
<1> DEFINE c == a \o b
           m == Len(a)
           n == Len(b)
<1>1. /\ c \in Seq(S) /\ Len(c) = m + n /\ m \in Nat /\ n \in Nat
      /\ \A i \in 1..m : c[i] = a[i]
      /\ \A i \in 1..n : c[m + i] = b[i]
  <2>1. m \in Nat /\ n \in Nat
    OBVIOUS
  <2> QED BY <2>1, JoinParts
<1>d. DOMAIN a = 1..m /\ DOMAIN b = 1..n /\ DOMAIN c = 1..(m + n)
  BY <1>1
<1> HIDE DEF c, m, n
<1>2. \A i \in 1..(m + n) : i \in 1..m \/ \E j \in 1..n : i = m + j
  <2> SUFFICES ASSUME NEW i \in 1..(m + n), i \notin 1..m PROVE \E j \in 1..n : i = m + j
    OBVIOUS
  <2>1. i - m \in 1..n /\ i = m + (i - m)
    BY <1>1
  <2> QED BY <2>1
<1>3. (\A i \in 1..m : i \in 1..(m + n)) /\ (\A j \in 1..n : m + j \in 1..(m + n))
  BY <1>1
<1>4. Range(c) = Range(a) \cup Range(b)
  <2>1. ASSUME NEW x \in Range(c) PROVE x \in Range(a) \cup Range(b)
    <3>1. PICK i \in 1..(m + n) : x = c[i]
      BY <1>d DEF Range
    <3>2. CASE i \in 1..m
      BY <1>1, <1>d, <3>1, <3>2 DEF Range
    <3>3. CASE \E j \in 1..n : i = m + j
      BY <1>1, <1>d, <3>1, <3>3 DEF Range
    <3> QED BY <1>2, <3>2, <3>3
  <2>2. ASSUME NEW x \in Range(a) PROVE x \in Range(c)
    <3>1. PICK i \in 1..m : x = a[i]
      BY <1>d DEF Range
    <3>2. i \in 1..(m + n) /\ c[i] = x
      BY <1>1, <1>3, <3>1
    <3> QED BY <1>d, <3>2 DEF Range
  <2>3. ASSUME NEW x \in Range(b) PROVE x \in Range(c)
    <3>1. PICK i \in 1..n : x = b[i]
      BY <1>d DEF Range
    <3>2. m + i \in 1..(m + n) /\ c[m + i] = x
      BY <1>1, <1>3, <3>1
    <3> QED BY <1>d, <3>2 DEF Range
  <2> QED BY <2>1, <2>2, <2>3
<1>5. ASSUME Sorted(a), Sorted(b), \A x \in Range(a), y \in Range(b) : x.offset < y.offset
      PROVE  Sorted(c)
  <2> SUFFICES ASSUME NEW i \in 1..Len(c), NEW j \in 1..Len(c), i < j PROVE c[i].offset < c[j].offset
    BY DEF Sorted
  <2>0. i \in 1..(m + n) /\ j \in 1..(m + n)
    BY <1>1
  <2>1. CASE i \in 1..m /\ j \in 1..m
    <3>1. a[i].offset < a[j].offset
      BY <1>5, <2>1 DEF Sorted, m
    <3> QED BY <1>1, <2>1, <3>1
  <2>2. CASE i \in 1..m /\ \E k \in 1..n : j = m + k
    <3>1. PICK k \in 1..n : j = m + k
      BY <2>2
    <3>2. a[i] \in Range(a) /\ b[k] \in Range(b)
      BY <1>d, <2>2 DEF Range
    <3> QED BY <1>1, <1>5, <2>2, <3>1, <3>2
  <2>3. CASE (\E k \in 1..n : i = m + k) /\ (\E l \in 1..n : j = m + l)
    <3>1. PICK k \in 1..n : i = m + k
      BY <2>3
    <3>2. PICK l \in 1..n : j = m + l
      BY <2>3
    <3>3. k < l
      BY <1>1, <3>1, <3>2
    <3>4. b[k].offset < b[l].offset
      BY <1>5, <3>3 DEF Sorted, n
    <3> QED BY <1>1, <3>1, <3>2, <3>4
  <2>4. ~((\E k \in 1..n : i = m + k) /\ j \in 1..m)
    BY <1>1
  <2> QED BY <1>2, <2>0, <2>1, <2>2, <2>3, <2>4
<1> QED BY <1>1, <1>4, <1>5 DEF c

(* One more sample, at a place of its own.                                 *)
LEMMA KeyedSorted ==
  ASSUME NEW S, HavePlaces(S), NEW q \in Seq(S), Sorted(q), NEW s \in S, \A u \in Range(q) : u.offset # s.offset
  PROVE  Keyed(q, s) \in Seq(S) /\ Sorted(Keyed(q, s)) /\ Range(Keyed(q, s)) = Range(q) \cup {s}
<1> DEFINE A == {u \in Range(q) : u.offset < s.offset}
           B == {u \in Range(q) : u.offset > s.offset}
           a == Among(q, A)
           b == Among(q, B)
           one == <<s>>
<1>1. Keyed(q, s) = (a \o one) \o b
  BY DEF Keyed
<1>2. Range(q) \subseteq S
  <2>1. \A i \in DOMAIN q : q[i] \in S
    OBVIOUS
  <2> QED BY <2>1 DEF Range
<1>3. Range(q) = A \cup B
  <2>1. \A u \in Range(q) : u.offset \in Int /\ s.offset \in Int
    BY <1>2 DEF HavePlaces
  <2>2. \A u \in Range(q) : u.offset < s.offset \/ u.offset > s.offset
    BY <2>1
  <2> QED BY <2>2
<1>4. a \in Seq(S) /\ Sorted(a) /\ Range(a) = A
  <2>1. Range(q) \cap A = A
    OBVIOUS
  <2> HIDE DEF A
  <2>2. Among(q, A) \in Seq(S)
    BY AmongIn
  <2>3. Sorted(Among(q, A))
    BY AmongSorted
  <2>4. Range(Among(q, A)) = A
    BY <2>1, AmongHas
  <2> QED BY <2>2, <2>3, <2>4
<1>5. b \in Seq(S) /\ Sorted(b) /\ Range(b) = B
  <2>1. Range(q) \cap B = B
    OBVIOUS
  <2> HIDE DEF B
  <2>2. Among(q, B) \in Seq(S)
    BY AmongIn
  <2>3. Sorted(Among(q, B))
    BY AmongSorted
  <2>4. Range(Among(q, B)) = B
    BY <2>1, AmongHas
  <2> QED BY <2>2, <2>3, <2>4
<1>6. one \in Seq(S) /\ Sorted(one) /\ Range(one) = {s}
  <2>1. one \in Seq(S) /\ Len(one) = 1 /\ DOMAIN one = 1..1 /\ one[1] = s
    OBVIOUS
  <2> HIDE DEF one
  <2>2. Sorted(one)
    BY <2>1 DEF Sorted
  <2>3. Range(one) = {s}
    BY <2>1 DEF Range
  <2> QED BY <2>1, <2>2, <2>3
<1>7. (\A u \in A : u.offset < s.offset) /\ (\A u \in B : s.offset < u.offset)
  <2>1. \A u \in B : u.offset \in Int /\ s.offset \in Int /\ u.offset > s.offset
    BY <1>2 DEF HavePlaces
  <2> QED BY <2>1
<1>8. \A u \in A, v \in B : u.offset < v.offset
  <2> SUFFICES ASSUME NEW u \in A, NEW v \in B PROVE u.offset < v.offset
    OBVIOUS
  <2>1. u.offset \in Int /\ v.offset \in Int /\ s.offset \in Int
    BY <1>2 DEF HavePlaces
  <2>2. u.offset < s.offset /\ s.offset < v.offset
    BY <1>7
  <2> QED BY <2>1, <2>2
<1> HIDE DEF a, b, one, A, B
<1> DEFINE c == a \o one
<1>9. c \in Seq(S) /\ Range(c) = A \cup {s} /\ Sorted(c)
  BY <1>4, <1>6, <1>7, SortedJoin
<1> HIDE DEF c
<1>10. c \o b \in Seq(S) /\ Range(c \o b) = A \cup {s} \cup B /\ Sorted(c \o b)
  BY <1>5, <1>7, <1>8, <1>9, SortedJoin
<1> QED BY <1>1, <1>3, <1>10 DEF c

(* All the samples of a list, each at a place of its own.                  *)
LEMMA ByPlaceSorted ==
  ASSUME NEW list, IsSeq(list), HavePlaces(Range(list)),
         \A i, j \in 1..Len(list) : i < j => list[i].offset # list[j].offset
  PROVE  IsSeq(ByPlace(list)) /\ Sorted(ByPlace(list)) /\ Range(ByPlace(list)) = Range(list)
<1> DEFINE S == Range(list)
           step == [p \in Seq(S) \X S |-> Keyed(p[1], p[2])]
           front(i) == {list[j] : j \in 1..i}
           P == [i \in Nat |-> {q \in Seq(S) : Sorted(q) /\ Range(q) = front(i)}]
<1>1. list \in Seq(S) /\ Len(list) \in Nat /\ DOMAIN list = 1..Len(list) /\ \A i \in 1..Len(list) : list[i] \in S
  BY DEF IsSeq, Range
<1>2. <<>> \in P[0]
  <2>1. Sorted(<<>>) /\ Range(<<>>) = {} /\ front(0) = {}
    BY DEF Sorted, Range
  <2> HIDE DEF front, S
  <2>2. <<>> \in Seq(S) /\ 0 \in Nat
    OBVIOUS
  <2>3. P[0] = {q \in Seq(S) : Sorted(q) /\ Range(q) = front(0)}
    BY <2>2
  <2> HIDE DEF P
  <2> QED BY <2>1, <2>2, <2>3
<1>3. ASSUME NEW i \in 1..Len(list), NEW x \in P[i - 1] PROVE step[<<x, list[i]>>] \in P[i]
  <2>1. i \in Nat /\ i - 1 \in Nat
    BY <1>1
  <2>2. x \in Seq(S) /\ Sorted(x) /\ Range(x) = front(i - 1)
    <3> HIDE DEF front, S
    <3> QED BY <2>1
  <2>3. list[i] \in S
    BY <1>1
  <2>4. step[<<x, list[i]>>] = Keyed(x, list[i])
    <3> HIDE DEF S
    <3> QED BY <2>2, <2>3
  <2>5. \A u \in Range(x) : u.offset # list[i].offset
    <3> SUFFICES ASSUME NEW u \in Range(x) PROVE u.offset # list[i].offset
      OBVIOUS
    <3>1. PICK j \in 1..(i - 1) : u = list[j]
      BY <2>2
    <3>2. j \in 1..Len(list) /\ j < i
      BY <1>1, <2>1
    <3> QED BY <3>1, <3>2
  <2>6. front(i) = front(i - 1) \cup {list[i]}
    <3>1. \A j \in 1..i : j \in 1..(i - 1) \/ j = i
      BY <2>1
    <3>2. i \in 1..i /\ \A j \in 1..(i - 1) : j \in 1..i
      BY <2>1
    <3> QED BY <3>1, <3>2
  <2> HIDE DEF S, front
  <2> DEFINE k == Keyed(x, list[i])
  <2>7. k \in Seq(S) /\ Sorted(k) /\ Range(k) = Range(x) \cup {list[i]}
    <3>1. HavePlaces(S)
      BY DEF S
    <3> QED BY <2>2, <2>3, <2>5, <3>1, KeyedSorted
  <2> HIDE DEF k
  <2>8. k \in P[i]
    BY <2>1, <2>2, <2>6, <2>7
  <2> QED BY <2>4, <2>8 DEF k
<1>4. front(Len(list)) = S
  BY <1>1 DEF Range
<1>5. \A q \in P[Len(list)] : q \in Seq(S) /\ Sorted(q) /\ Range(q) = front(Len(list))
  <2> HIDE DEF front, S
  <2> QED BY <1>1
<1> HIDE DEF step, P, front
<1>6. Accumulated(step, <<>>, list) \in P[Len(list)]
  <2> HIDE DEF S
  <2> QED BY <1>1, <1>2, <1>3, Accumulates
<1>7. ByPlace(list) = Accumulated(step, <<>>, list)
  BY DEF ByPlace, step
<1> QED BY <1>4, <1>5, <1>6, <1>7 DEF IsSeq

(* A set of samples can be sorted in one way only.                         *)
LEMMA SortedUnique ==
  ASSUME NEW S, HavePlaces(S), NEW a \in Seq(S), NEW b \in Seq(S), Sorted(a), Sorted(b), Range(a) = Range(b)
  PROVE  a = b
<1> DEFINE Same(i) == (i <= Len(a) <=> i <= Len(b)) /\ (i <= Len(a) => a[i] = b[i])
           P == {k \in Nat : \A i \in 1..k : Same(i)}
<1>0. /\ Len(a) \in Nat /\ DOMAIN a = 1..Len(a) /\ Len(b) \in Nat /\ DOMAIN b = 1..Len(b)
      /\ \A i \in 1..Len(a) : a[i].offset \in Int
      /\ \A i \in 1..Len(b) : b[i].offset \in Int
  BY DEF HavePlaces
<1>1. \A i \in 1..Len(a) : \E j \in 1..Len(b) : a[i] = b[j]
  BY <1>0 DEF Range
<1>2. \A i \in 1..Len(b) : \E j \in 1..Len(a) : b[i] = a[j]
  BY <1>0 DEF Range
<1>3. 0 \in P
  OBVIOUS
<1>4. ASSUME NEW k \in P PROVE k + 1 \in P
  <2>1. k \in Nat /\ \A i \in 1..k : Same(i)
    OBVIOUS
  <2> DEFINE n == k + 1
  <2>2. n \in Nat /\ n > 0 /\ \A i \in 1..n : i \in 1..k \/ i = n
    BY <2>1
  <2>3. ASSUME n <= Len(a) PROVE n <= Len(b) /\ a[n] = b[n]
    <3>1. n \in 1..Len(a)
      BY <1>0, <2>2, <2>3
    <3>2. PICK j \in 1..Len(b) : a[n] = b[j]
      BY <1>1, <3>1
    <3>3. j >= n
      <4> SUFFICES ASSUME j < n PROVE FALSE
        BY <2>1
      <4>1. j \in 1..k /\ j < n
        BY <2>1
      <4>2. a[j] = b[j] /\ j \in 1..Len(a)
        BY <1>0, <2>1, <4>1
      <4>3. a[j].offset < a[n].offset
        BY <3>1, <4>1, <4>2 DEF Sorted
      <4> QED BY <1>0, <3>1, <3>2, <4>2, <4>3
    <3>4. n \in 1..Len(b)
      BY <1>0, <2>2, <3>3
    <3>5. PICK m \in 1..Len(a) : b[n] = a[m]
      BY <1>2, <3>4
    <3>6. m >= n
      <4> SUFFICES ASSUME m < n PROVE FALSE
        BY <2>1
      <4>1. m \in 1..k /\ m < n
        BY <2>1
      <4>2. a[m] = b[m] /\ m \in 1..Len(b)
        BY <1>0, <2>1, <4>1
      <4>3. b[m].offset < b[n].offset
        BY <3>4, <4>1, <4>2 DEF Sorted
      <4> QED BY <1>0, <3>4, <3>5, <4>2, <4>3
    <3> HIDE DEF n
    <3>7. j = n
      <4> SUFFICES ASSUME n < j PROVE FALSE
        BY <2>2, <3>3
      <4>1. b[n].offset < b[j].offset
        BY <3>4 DEF Sorted
      <4>2. a[m].offset < a[n].offset
        BY <3>2, <3>5, <4>1
      <4>3. a[n].offset < a[m].offset \/ n = m
        BY <2>2, <3>1, <3>6 DEF Sorted
      <4>4. a[n].offset \in Int /\ a[m].offset \in Int
        BY <1>0, <3>1
      <4> QED BY <4>2, <4>3, <4>4
    <3> QED BY <3>2, <3>4, <3>7
  <2>4. ASSUME n <= Len(b) PROVE n <= Len(a)
    <3>1. n \in 1..Len(b)
      BY <1>0, <2>2, <2>4
    <3>2. PICK j \in 1..Len(a) : b[n] = a[j]
      BY <1>2, <3>1
    <3>3. j >= n
      <4> SUFFICES ASSUME j < n PROVE FALSE
        BY <2>1
      <4>1. j \in 1..k /\ j < n
        BY <2>1
      <4>2. a[j] = b[j] /\ j \in 1..Len(b)
        BY <1>0, <2>1, <4>1
      <4>3. b[j].offset < b[n].offset
        BY <3>1, <4>1, <4>2 DEF Sorted
      <4> QED BY <1>0, <3>1, <3>2, <4>2, <4>3
    <3> QED BY <1>0, <2>2, <3>3
  <2>5. Same(n)
    BY <2>3, <2>4
  <2> HIDE DEF Same
  <2> QED BY <2>1, <2>2, <2>5
<1>5. P = Nat
  <2>1. P \in SUBSET Nat OBVIOUS
  <2> HIDE DEF P
  <2> QED BY <1>3, <1>4, <2>1, Induction
<1>6. \A k \in Nat : k > 0 => Same(k)
  <2> SUFFICES ASSUME NEW k \in Nat, k > 0 PROVE Same(k)
    OBVIOUS
  <2> HIDE DEF Same
  <2>1. k \in P /\ k \in 1..k
    <3>1. k \in P
      <4> HIDE DEF P
      <4> QED BY <1>5
    <3> QED BY <3>1
  <2> QED BY <2>1
<1>7. Len(a) = Len(b)
  <2>1. Len(a) <= Len(b)
    BY <1>0, <1>6
  <2>2. Len(b) <= Len(a)
    BY <1>0, <1>6
  <2> DEFINE m == Len(a)
             n == Len(b)
  <2>3. m \in Nat /\ n \in Nat /\ m <= n /\ n <= m
    BY <1>0, <2>1, <2>2
  <2> HIDE DEF m, n
  <2>4. m = n
    BY <2>3
  <2> QED BY <2>4 DEF m, n
<1>8. \A i \in 1..Len(a) : a[i] = b[i]
  BY <1>0, <1>6
<1> QED BY <1>7, <1>8

-----------------------------------------------------------------------------
(* What is loaded of the tables of the encoder.                            *)
IsStored(ss) ==
    /\ IsSeq(ss) /\ Sorted(ss)
    /\ \A i \in 1..Len(ss) :
          /\ ss[i].type \in {Video, Audio} /\ ss[i].size \in Nat
          /\ ss[i].offset \in Int /\ ss[i].dts \in Int /\ ss[i].pts \in Int
TypesOf(ss) == {ss[i].type : i \in DOMAIN ss}
Loaded(tracks, type) == IF type \in DOMAIN tracks THEN LoadTrak(type, tracks[type]) ELSE <<>>

(* The samples of a type are in the order of the file.                     *)
LEMMA TrackOf ==
  ASSUME NEW ss, IsStored(ss), NEW type
  PROVE  LET track == OfType(ss, type) IN
         /\ IsSeq(track) /\ Sorted(track) /\ Len(track) \in Nat /\ DOMAIN track = 1..Len(track)
         /\ Range(track) = {s \in Range(ss) : s.type = type}
         /\ \A k \in 1..Len(track) : track[k].type = type /\ track[k] \in Range(ss)
         /\ IF type \in TypesOf(ss) THEN IsTrack(track) ELSE Len(track) = 0
<1> DEFINE S == Range(ss)
           T == {s \in S : s.type = type}
           track == OfType(ss, type)
<1>1. ss \in Seq(S) /\ Len(ss) \in Nat /\ DOMAIN ss = 1..Len(ss) /\ Sorted(ss)
  BY DEF IsStored, IsSeq
<1>2. track = Among(ss, T)
  BY DEF OfType
<1>3. S \cap T = T
  OBVIOUS
<1>4. \A s \in S : s.size \in Nat /\ s.offset \in Int /\ s.dts \in Int /\ s.pts \in Int
  BY <1>1 DEF IsStored, Range
<1>5. type \in TypesOf(ss) <=> T # {}
  BY <1>1 DEF TypesOf, Range
<1>6. \A s \in T : s \in S /\ s.type = type
  OBVIOUS
<1> HIDE DEF S, T, track
<1>7. track \in Seq(S) /\ Sorted(track) /\ Range(track) = T
  <2>1. track \in Seq(S)
    BY <1>1, <1>2, AmongIn
  <2>2. Sorted(track)
    BY <1>1, <1>2, AmongSorted
  <2>3. Range(track) = S \cap T
    BY <1>1, <1>2, AmongHas DEF S
  <2> QED BY <1>3, <2>1, <2>2, <2>3
<1>8. Len(track) \in Nat /\ DOMAIN track = 1..Len(track)
  BY <1>7
<1>9. \A k \in 1..Len(track) : track[k] \in T
  BY <1>7, <1>8 DEF Range
<1>10. IsSeq(track)
  <2>1. \A k \in 1..Len(track) : track[k] \in Range(track)
    BY <1>8 DEF Range
  <2>2. track = [k \in 1..Len(track) |-> track[k]]
    BY <1>7
  <2> DEFINE n == Len(track)
             R == Range(track)
  <2> HIDE DEF n, R
  <2>3. [k \in 1..n |-> track[k]] \in Seq(R)
    BY <1>8, <2>1 DEF n, R
  <2> QED BY <2>2, <2>3 DEF IsSeq, n, R
<1>11. ASSUME T # {} PROVE IsTrack(track)
  <2>1. Len(track) # 0
    BY <1>7, <1>8, <1>11 DEF Range
  <2>2. \A k \in 1..Len(track) : /\ track[k].size \in Nat /\ track[k].offset \in Int
                                 /\ track[k].dts \in Int /\ track[k].pts \in Int
    BY <1>4, <1>6, <1>9
  <2> QED BY <1>8, <2>1, <2>2 DEF IsTrack, Timed
<1>12. ASSUME T = {} PROVE Len(track) = 0
  <2>1. ~ (1 \in 1..Len(track))
    BY <1>9, <1>12
  <2> QED BY <1>8, <2>1
<1> QED BY <1>5, <1>6, <1>7, <1>8, <1>9, <1>10, <1>11, <1>12 DEF S, T, track

(* Each track is loaded as it was.                                         *)
LEMMA WrittenLoaded ==
  ASSUME NEW ss, IsStored(ss), NEW type
  PROVE  IsLoaded(Loaded(Write(ss), type), type, OfType(ss, type))
<1> DEFINE track == OfType(ss, type)
           hasCts == \E i \in DOMAIN ss : ss[i].dts # ss[i].pts
           t == WriteTrack(ss, type, hasCts)
<1>1. Write(ss) = [ty \in TypesOf(ss) |-> WriteTrack(ss, ty, hasCts)]
  BY DEF Write, TypesOf
<1>2. /\ DOMAIN track = 1..Len(track)
      /\ \A k \in 1..Len(track) : track[k].type = type /\ track[k] \in Range(ss)
      /\ IF type \in TypesOf(ss) THEN IsTrack(track) ELSE Len(track) = 0
  BY TrackOf
<1>3. CASE type \in TypesOf(ss)
  <2>1. Loaded(Write(ss), type) = LoadTrak(type, t)
    BY <1>1, <1>3 DEF Loaded
  <2>2. AreTables(t, type, track, hasCts)
    BY DEF AreTables, WriteTrack
  <2>3. hasCts \/ \A k \in 1..Len(track) : track[k].dts = track[k].pts
    BY <1>2 DEF Range
  <2>4. IsTrack(track) /\ \A k \in 1..Len(track) : track[k].type = type
    BY <1>2, <1>3
  <2>5. hasCts \in BOOLEAN
    OBVIOUS
  <2> HIDE DEF t, track, hasCts
  <2> QED BY <2>1, <2>2, <2>3, <2>4, <2>5, TrackLoaded DEF track
<1>4. CASE type \notin TypesOf(ss)
  <2>1. Loaded(Write(ss), type) = <<>>
    BY <1>1, <1>4 DEF Loaded
  <2>2. Len(track) = 0
    BY <1>2, <1>4
  <2> HIDE DEF track
  <2>3. IsLoaded(<<>>, type, track)
    <3>1. IsSeq(<<>>)
      BY DEF IsSeq
    <3> QED BY <2>2, <3>1 DEF IsLoaded
  <2> QED BY <2>1, <2>3 DEF track
<1> QED BY <1>3, <1>4

(* A track as it was loaded has the places of its samples.                 *)
LEMMA LoadedSorted ==
  ASSUME NEW ss, IsStored(ss), NEW type
  PROVE  LET loaded == Loaded(Write(ss), type) IN
         /\ IsSeq(loaded) /\ Sorted(loaded) /\ Len(loaded) \in Nat /\ DOMAIN loaded = 1..Len(loaded)
         /\ \A k \in 1..Len(loaded) :
               /\ loaded[k].type = type /\ loaded[k].offset \in Int /\ loaded[k].dts \in Int
               /\ \E s \in Range(ss) : s.type = type /\ s.offset = loaded[k].offset
<1> DEFINE loaded == Loaded(Write(ss), type)
           track == OfType(ss, type)
<1>1. IsLoaded(loaded, type, track)
  BY WrittenLoaded
<1>2. /\ Sorted(track) /\ Len(track) \in Nat
      /\ \A k \in 1..Len(track) : track[k].type = type /\ track[k] \in Range(ss)
  BY TrackOf
<1>3. \A s \in Range(ss) : s.offset \in Int
  BY DEF IsStored, IsSeq, Range
<1> HIDE DEF loaded, track
<1>4. /\ IsSeq(loaded) /\ Len(loaded) = Len(track) /\ DOMAIN loaded = 1..Len(track)
      /\ \A k \in 1..Len(track) : loaded[k].type = type /\ loaded[k].offset = track[k].offset /\ loaded[k].dts \in Int
  BY <1>1 DEF IsLoaded
<1>5. Sorted(loaded)
  BY <1>2, <1>4 DEF Sorted
<1> QED BY <1>2, <1>3, <1>4, <1>5 DEF loaded

(* Both tracks together are in the order of the file.                      *)
Both(ss) == Merged(Write(ss))
LEMMA BothSorted ==
  ASSUME NEW ss, IsStored(ss)
  PROVE  /\ IsSeq(Both(ss)) /\ Sorted(Both(ss))
         /\ Range(Both(ss)) = Range(Loaded(Write(ss), Video)) \cup Range(Loaded(Write(ss), Audio))
         /\ \A s \in Range(Both(ss)) : s.offset \in Int /\ s.dts \in Int
<1> DEFINE v == Loaded(Write(ss), Video)
           a == Loaded(Write(ss), Audio)
           list == v \o a
<1>1. Both(ss) = ByPlace(list)
  BY DEF Both, Merged, Loaded
<1>2. /\ IsSeq(v) /\ Sorted(v) /\ Len(v) \in Nat /\ DOMAIN v = 1..Len(v)
      /\ \A k \in 1..Len(v) :
            /\ v[k].type = Video /\ v[k].offset \in Int /\ v[k].dts \in Int
            /\ \E s \in Range(ss) : s.type = Video /\ s.offset = v[k].offset
  BY LoadedSorted
<1>3. /\ IsSeq(a) /\ Sorted(a) /\ Len(a) \in Nat /\ DOMAIN a = 1..Len(a)
      /\ \A k \in 1..Len(a) :
            /\ a[k].type = Audio /\ a[k].offset \in Int /\ a[k].dts \in Int
            /\ \E s \in Range(ss) : s.type = Audio /\ s.offset = a[k].offset
  BY LoadedSorted
<1> HIDE DEF v, a
<1>4. \A s, u \in Range(ss) : s.offset = u.offset => s = u
  <2> SUFFICES ASSUME NEW s \in Range(ss), NEW u \in Range(ss), s.offset = u.offset PROVE s = u
    OBVIOUS
  <2>1. Len(ss) \in Nat /\ DOMAIN ss = 1..Len(ss) /\ Sorted(ss) /\ \A i \in 1..Len(ss) : ss[i].offset \in Int
    BY DEF IsStored, IsSeq
  <2>2. PICK i \in 1..Len(ss) : s = ss[i]
    BY <2>1 DEF Range
  <2>3. PICK j \in 1..Len(ss) : u = ss[j]
    BY <2>1 DEF Range
  <2>4. ~(i < j) /\ ~(j < i)
    BY <2>1, <2>2, <2>3 DEF Sorted
  <2>5. i = j
    BY <2>1, <2>4
  <2> QED BY <2>2, <2>3, <2>5
<1>5. \A k \in 1..Len(v), l \in 1..Len(a) : v[k].offset # a[l].offset
  BY <1>2, <1>3, <1>4 DEF Video, Audio
<1> DEFINE S == Range(v) \cup Range(a)
           m == Len(v)
           n == Len(a)
<1>6. v \in Seq(S) /\ a \in Seq(S)
  <2>1. v \in Seq(Range(v)) /\ a \in Seq(Range(a))
    BY <1>2, <1>3 DEF IsSeq
  <2> QED BY <2>1
<1>7. \A s \in S : s.offset \in Int /\ s.dts \in Int
  BY <1>2, <1>3 DEF Range
<1> HIDE DEF S
<1>8. list \in Seq(S) /\ Range(list) = S
  <2>1. list \in Seq(S) /\ Range(list) = Range(v) \cup Range(a)
    BY <1>6, SortedJoin
  <2> QED BY <2>1 DEF S
<1>9. /\ Len(list) = m + n
      /\ \A i \in 1..m : list[i] = v[i]
      /\ \A i \in 1..n : list[m + i] = a[i]
  BY <1>6, JoinParts
<1> HIDE DEF list, m, n
<1>10. \A i, j \in 1..Len(list) : i < j => list[i].offset # list[j].offset
  <2> SUFFICES ASSUME NEW i \in 1..Len(list), NEW j \in 1..Len(list), i < j PROVE list[i].offset # list[j].offset
    OBVIOUS
  <2>1. m \in Nat /\ n \in Nat
    BY <1>2, <1>3 DEF m, n
  <2>2. \A x \in 1..Len(list) : x \in 1..m \/ \E y \in 1..n : x = m + y
    <3> SUFFICES ASSUME NEW x \in 1..(m + n), x \notin 1..m PROVE \E y \in 1..n : x = m + y
      BY <1>9
    <3>1. x - m \in 1..n /\ x = m + (x - m)
      BY <2>1
    <3> QED BY <3>1
  <2>3. CASE i \in 1..m /\ j \in 1..m
    <3>1. v[i].offset < v[j].offset /\ v[i].offset \in Int /\ v[j].offset \in Int
      BY <1>2, <2>3 DEF Sorted, m
    <3> QED BY <1>9, <2>3, <3>1
  <2>4. CASE i \in 1..m /\ \E y \in 1..n : j = m + y
    <3>1. PICK y \in 1..n : j = m + y
      BY <2>4
    <3>2. list[i] = v[i] /\ list[j] = a[y]
      BY <1>9, <2>4, <3>1
    <3>3. v[i].offset # a[y].offset
      BY <1>5, <2>4, <3>1 DEF m, n
    <3> QED BY <3>2, <3>3
  <2>5. CASE (\E x \in 1..n : i = m + x) /\ (\E y \in 1..n : j = m + y)
    <3>1. PICK x \in 1..n : i = m + x
      BY <2>5
    <3>2. PICK y \in 1..n : j = m + y
      BY <2>5
    <3>3. x < y
      BY <2>1, <3>1, <3>2
    <3>4. a[x].offset < a[y].offset /\ a[x].offset \in Int /\ a[y].offset \in Int
      BY <1>3, <3>3 DEF Sorted, n
    <3> QED BY <1>9, <3>1, <3>2, <3>4
  <2>6. ~((\E x \in 1..n : i = m + x) /\ j \in 1..m)
    BY <2>1
  <2> QED BY <2>2, <2>3, <2>4, <2>5, <2>6
<1>11. IsSeq(list) /\ HavePlaces(Range(list))
  BY <1>7, <1>8 DEF IsSeq, HavePlaces
<1>12. IsSeq(ByPlace(list)) /\ Sorted(ByPlace(list)) /\ Range(ByPlace(list)) = Range(list)
  BY <1>10, <1>11, ByPlaceSorted
<1> QED BY <1>1, <1>7, <1>8, <1>12 DEF S, v, a

(* What is given of a type is the track of it, as it was loaded, in ms.    *)
LEMMA LoadOf ==
  ASSUME NEW ss, IsStored(ss), NEW type \in {Video, Audio}
  PROVE  \E a \in Int :
            OfType(Load(Write(ss)), type)
              = [k \in 1..Len(Loaded(Write(ss), type)) |-> InMs(Loaded(Write(ss), type)[k], a)]
<1> DEFINE m == Both(ss)
           adj == Adjust(m)
           load == Load(Write(ss))
           l == Loaded(Write(ss), type)
           S == {InMs(s, adj) : s \in Range(m)}
           T == {s \in Range(load) : s.type = type}
           g == OfType(load, type)
           h == [k \in 1..Len(l) |-> InMs(l[k], adj)]
<1>1. /\ IsSeq(m) /\ Sorted(m) /\ Range(m) = Range(Loaded(Write(ss), Video)) \cup Range(Loaded(Write(ss), Audio))
      /\ \A s \in Range(m) : s.offset \in Int /\ s.dts \in Int
  BY BothSorted
<1>2. \A ty \in {Video, Audio} : LET q == Loaded(Write(ss), ty) IN
        /\ IsSeq(q) /\ Sorted(q) /\ Len(q) \in Nat /\ DOMAIN q = 1..Len(q)
        /\ \A k \in 1..Len(q) : q[k].type = ty
  BY LoadedSorted
<1>3. load = [i \in DOMAIN m |-> InMs(m[i], adj)]
  BY DEF Load, Both
<1>4. /\ IsSeq(l) /\ Sorted(l) /\ Len(l) \in Nat /\ DOMAIN l = 1..Len(l)
      /\ \A k \in 1..Len(l) : l[k].type = type
  BY <1>2
<1>5. \A s \in Range(m) : s.type = type => s \in Range(l)
  <2> SUFFICES ASSUME NEW s \in Range(m), s.type = type PROVE s \in Range(l)
    OBVIOUS
  <2>1. PICK ty \in {Video, Audio} : s \in Range(Loaded(Write(ss), ty))
    BY <1>1
  <2>2. s.type = ty
    BY <1>2, <2>1 DEF Range
  <2> QED BY <2>1, <2>2
<1>6. \A s \in Range(l) : s \in Range(m) /\ s.type = type
  <2> SUFFICES ASSUME NEW s \in Range(l) PROVE s \in Range(m) /\ s.type = type
    OBVIOUS
  <2>1. s \in Range(m)
    BY <1>1
  <2> QED BY <1>4, <2>1 DEF Range
<1>7. \A s : InMs(s, adj).type = s.type /\ InMs(s, adj).offset = s.offset
  BY DEF InMs
<1>8. Len(m) \in Nat /\ DOMAIN m = 1..Len(m)
  BY <1>1 DEF IsSeq
<1>9. adj \in Int
  <2>1. \A i \in 1..Len(m) : m[i].dts \in Int
    BY <1>1, <1>8 DEF Range
  <2> HIDE DEF m
  <2> QED BY <1>8, <2>1, AdjustType
<1> HIDE DEF m, adj, load, l
<1>10. load \in Seq(S) /\ Len(load) = Len(m) /\ Range(load) = S /\ Sorted(load)
  <2>1. \A i \in 1..Len(m) : InMs(m[i], adj) \in S
    BY <1>8 DEF Range
  <2>2. load = [i \in 1..Len(m) |-> InMs(m[i], adj)]
    BY <1>3, <1>8
  <2>3. Range(load) = S
    BY <1>8, <2>2 DEF Range
  <2> HIDE DEF S
  <2>4. load \in Seq(S) /\ Len(load) = Len(m)
    BY <1>8, <2>1, <2>2
  <2>5. \A i \in 1..Len(load) : load[i].offset = m[i].offset
    BY <1>7, <2>2, <2>4
  <2>6. Sorted(load)
    BY <1>1, <2>4, <2>5 DEF Sorted
  <2> QED BY <2>3, <2>4, <2>6
<1>11. HavePlaces(S)
  BY <1>1, <1>7 DEF HavePlaces
<1>12. g \in Seq(S) /\ Sorted(g) /\ Range(g) = Range(load) \cap T
  <2>1. g = Among(load, T)
    BY DEF OfType
  <2> HIDE DEF S, T, g
  <2> QED BY <1>10, <2>1, AmongIn, AmongSorted, AmongHas
<1>13. h \in Seq(S) /\ Sorted(h) /\ Range(h) = {InMs(s, adj) : s \in Range(l)}
  <2>1. \A k \in 1..Len(l) : InMs(l[k], adj) \in S
    BY <1>4, <1>6 DEF Range
  <2>2. Range(h) = {InMs(s, adj) : s \in Range(l)}
    BY <1>4 DEF Range
  <2> HIDE DEF S
  <2>3. h \in Seq(S) /\ Len(h) = Len(l)
    BY <1>4, <2>1
  <2>4. \A i \in 1..Len(h) : h[i].offset = l[i].offset
    BY <1>7, <2>3
  <2> HIDE DEF h
  <2>5. Sorted(h)
    BY <1>4, <2>3, <2>4 DEF Sorted
  <2> QED BY <2>2, <2>3, <2>5
<1>14. Range(load) \cap T = {InMs(s, adj) : s \in Range(l)}
  <2>1. ASSUME NEW x \in Range(load), x.type = type PROVE x \in {InMs(s, adj) : s \in Range(l)}
    <3>1. PICK s \in Range(m) : x = InMs(s, adj)
      BY <1>10
    <3>2. s.type = type
      BY <1>7, <2>1, <3>1
    <3> QED BY <1>5, <3>1, <3>2
  <2>2. ASSUME NEW s \in Range(l) PROVE InMs(s, adj) \in Range(load) /\ InMs(s, adj).type = type
    BY <1>6, <1>7, <1>10
  <2> QED BY <2>1, <2>2
<1> HIDE DEF S, T, g, h
<1>15. g = h
  BY <1>11, <1>12, <1>13, <1>14, SortedUnique
<1> QED BY <1>9, <1>15 DEF g, h, l, load

\* TimesKept of what was loaded of a recording.
KeepsTimes(loaded, ss) ==
    \A type \in {Video, Audio} :
       LET g == OfType(loaded, type) w == OfType(ss, type)
       IN Len(g) = Len(w) /\ (Distinct(w) => KeptTimes(g, w))

(* Times that are moved by as much are as far from each other.             *)
AreApart(x, y, a, d) == (((x + a) % Modulus) - ((y + a) % Modulus) - d) % Modulus = 0
Apart(x, y, d) == x - y = d \/ x - y = d % Modulus
LEMMA MovedTimes ==
  ASSUME NEW x \in Int, NEW y \in Int, NEW a \in Int, NEW d \in Int, Apart(x, y, d)
  PROVE  AreApart(x, y, a, d)
<1>1. Modulus \in Nat \ {0}
  BY ModulusAssumption
<1> QED BY <1>1, Moved DEF Apart, AreApart

(* So the times of a recording are kept.                                   *)
LEMMA LoadKeepsTimes ==
  ASSUME NEW ss, IsStored(ss)
  PROVE  KeepsTimes(Load(Write(ss)), ss)
<1> SUFFICES ASSUME NEW type \in {Video, Audio}
             PROVE  LET g == OfType(Load(Write(ss)), type) w == OfType(ss, type)
                    IN Len(g) = Len(w) /\ (Distinct(w) => KeptTimes(g, w))
  BY DEF KeepsTimes
<1> DEFINE g == OfType(Load(Write(ss)), type)
           w == OfType(ss, type)
           l == Loaded(Write(ss), type)
           n == Len(w)
<1>1. IsLoaded(l, type, w)
  BY WrittenLoaded
<1>2. n \in Nat /\ DOMAIN w = 1..n /\ \A k \in 1..n : w[k] \in Range(ss) /\ w[k].type = type
  BY TrackOf
<1>3. PICK a \in Int : g = [k \in 1..Len(l) |-> InMs(l[k], a)]
  BY LoadOf
<1>4. \A s \in Range(ss) : s.dts \in Int /\ s.pts \in Int
  BY DEF IsStored, IsSeq, Range
<1> HIDE DEF g, w, l
<1>5. /\ Len(l) = n
      /\ \A k \in 1..n : l[k].type = type /\ l[k].dts \in Int /\ l[k].pts \in Int
      /\ \A k \in 2..n : l[k].pts - l[k].dts = Cts(w[k])
      /\ Distinct(w) => \A k \in 2..n : l[k].dts - l[k - 1].dts = (w[k].dts - w[k - 1].dts) % Modulus
  BY <1>1 DEF IsLoaded, n
<1>6. Len(g) = n
  BY <1>2, <1>3, <1>5
<1> DEFINE b == IF type = Audio THEN a ELSE 0
<1>7. b \in Int /\ \A k \in 1..n : g[k].dts = (l[k].dts + b) % Modulus /\ g[k].pts = (l[k].pts + b) % Modulus
  BY <1>3, <1>5 DEF InMs
<1> HIDE DEF b
<1>8. Modulus \in Nat \ {0}
  BY ModulusAssumption
<1>9. \A k \in 1..n : w[k].dts \in Int /\ w[k].pts \in Int /\ Cts(w[k]) \in Int
  BY <1>2, <1>4 DEF Cts
<1>10. ASSUME Distinct(w) PROVE KeptTimes(g, w)
  <2> SUFFICES ASSUME NEW i \in 2..n
               PROVE  /\ (g[i].dts - g[i - 1].dts - (w[i].dts - w[i - 1].dts)) % Modulus = 0
                      /\ (g[i].pts - g[i].dts - Cts(w[i])) % Modulus = 0
    BY DEF KeptTimes, n
  <2>1. i \in 1..n /\ i - 1 \in 1..n
    BY <1>2
  <2> DEFINE x == l[i].dts
             y == l[i - 1].dts
             p == l[i].pts
             d == w[i].dts - w[i - 1].dts
             c == Cts(w[i])
  <2>2. x \in Int /\ y \in Int /\ p \in Int /\ d \in Int /\ c \in Int
    BY <1>5, <1>9, <2>1
  <2>3. x - y = d % Modulus /\ p - x = c
    BY <1>5, <1>10
  <2>4. g[i].dts = (x + b) % Modulus /\ g[i - 1].dts = (y + b) % Modulus /\ g[i].pts = (p + b) % Modulus
    BY <1>7, <2>1
  <2> HIDE DEF x, y, p, d, c
  <2>5. b \in Int /\ Apart(x, y, d) /\ Apart(p, x, c)
    BY <1>7, <2>3 DEF Apart
  <2>6. AreApart(x, y, b, d) /\ AreApart(p, x, b, c)
    BY <2>2, <2>5, MovedTimes
  <2>7. /\ (((x + b) % Modulus) - ((y + b) % Modulus) - d) % Modulus = 0
        /\ (((p + b) % Modulus) - ((x + b) % Modulus) - c) % Modulus = 0
    BY <2>6, Zenon DEF AreApart
  <2> QED BY <2>4, <2>7, Zenon DEF d, c
<1> QED BY <1>6, <1>10 DEF g, w, n

-----------------------------------------------------------------------------
(* The units of a file.                                                    *)

(* A sequence is one over its own elements.                                *)
LEMMA SeqIsSeq == ASSUME NEW S, NEW s \in Seq(S) PROVE IsSeq(s) /\ Range(s) \subseteq S
BY DEF IsSeq, Range
IsJoined(r, s, t) ==
    /\ IsSeq(r) /\ Len(r) = Len(s) + Len(t)
    /\ \A i \in 1..Len(s) : r[i] = s[i]
    /\ \A i \in 1..Len(t) : r[Len(s) + i] = t[i]
    /\ Len(s) \in Nat /\ Len(t) \in Nat

(* Where the elements of two sequences are when they are joined.           *)
LEMMA SeqJoined ==
  ASSUME NEW s, NEW t, IsSeq(s), IsSeq(t)
  PROVE  IsJoined(s \o t, s, t)
<1> DEFINE S == Range(s) \cup Range(t)
<1>1. s \in Seq(S) /\ t \in Seq(S)
  BY DEF IsSeq
<1> HIDE DEF S
<1>2. s \o t \in Seq(S)
  BY <1>1
<1>3. IsSeq(s \o t)
  BY <1>2, SeqIsSeq
<1>4. /\ Len(s \o t) = Len(s) + Len(t) /\ Len(s) \in Nat /\ Len(t) \in Nat
      /\ \A i \in 1..Len(s) : (s \o t)[i] = s[i]
      /\ \A i \in 1..Len(t) : (s \o t)[Len(s) + i] = t[i]
  BY <1>1, JoinParts
<1> QED BY <1>3, <1>4 DEF IsJoined
IsJoin(r, s, t) ==
    /\ IsSeq(r) /\ Len(r) = Len(s) + Len(t)
    /\ s # <<>> => r[1] = s[1]
    /\ r[Len(s) + 1] = t[1]

(* The first elements of what is joined.                                   *)
LEMMA SeqJoins ==
  ASSUME NEW s, NEW t, IsSeq(s), IsSeq(t), t # <<>>
  PROVE  IsJoin(s \o t, s, t)
<1> DEFINE r == s \o t
<1>1. 1 \in 1..Len(t) /\ (s # <<>> => 1 \in 1..Len(s))
  BY DEF IsSeq
<1>2. /\ IsSeq(r) /\ Len(r) = Len(s) + Len(t)
      /\ \A i \in 1..Len(s) : r[i] = s[i]
      /\ \A i \in 1..Len(t) : r[Len(s) + i] = t[i]
  BY SeqJoined DEF IsJoined
<1> HIDE DEF r
<1> QED BY <1>1, <1>2 DEF IsJoin, r

(* What is left of a sequence that is cut.                                 *)
LEMMA SeqCut ==
  ASSUME NEW s, IsSeq(s), NEW n \in 0..Len(s)
  PROVE  /\ IsSeq(SubSeq(s, 1, n)) /\ Len(SubSeq(s, 1, n)) = n
         /\ \A i \in 1..n : SubSeq(s, 1, n)[i] = s[i]
<1>1. /\ SubSeq(s, 1, n) \in Seq(Range(s)) /\ Len(SubSeq(s, 1, n)) = n
      /\ \A i \in 1..n : SubSeq(s, 1, n)[i] = s[i]
  BY DEF IsSeq
<1> QED BY <1>1, SeqIsSeq

(* A box begins with the unit that names it, and is as long as it is made. *)
LEMMA UnitsOf ==
  ASSUME NEW name, NEW sz, NEW n \in Nat \ {0}, NEW tables
  PROVE  LET u == Units(name, sz, n, tables) IN
         IsSeq(u) /\ Len(u) = n /\ IsBox(u[1]) /\ u[1].box = name /\ u[1].sz = sz /\ u[1].tables = tables
<1> DEFINE u == Units(name, sz, n, tables)
           head == [box |-> name, sz |-> sz, tables |-> tables]
<1>1. /\ u = [i \in 1..n |-> IF i = 1 THEN head ELSE [of |-> name, part |-> i]]
      /\ 1 \in 1..n
  BY DEF Units
<1>2. u[1] = head /\ Len(u) = n /\ DOMAIN u = 1..n
  BY <1>1
<1>3. IsSeq(u)
  <2> HIDE DEF u
  <2>1. \A i \in 1..n : u[i] \in Range(u)
    BY <1>2 DEF Range
  <2>2. u \in [1..n -> Range(u)]
    BY <1>1, <2>1
  <2> QED BY <2>2 DEF IsSeq
<1>4. IsBox(head) /\ head.box = name /\ head.sz = sz /\ head.tables = tables
  BY DEF IsBox
<1> QED BY <1>2, <1>3, <1>4

(* The data of a sample is as long as the sample, and none of it is a box. *)
LEMMA DataOf ==
  ASSUME NEW k, NEW size \in Nat
  PROVE  IsSeq(Data(k, size)) /\ Len(Data(k, size)) = size /\ \A i \in 1..size : ~IsBox(Data(k, size)[i])
<1> DEFINE d == Data(k, size)
<1>1. d = [i \in 1..size |-> [sample |-> k, part |-> i]]
  BY DEF Data
<1>2. Len(d) = size /\ DOMAIN d = 1..size /\ \A i \in 1..size : d[i] = [sample |-> k, part |-> i]
  BY <1>1
<1>3. \A i \in 1..size : ~IsBox([sample |-> k, part |-> i])
  BY DEF IsBox
<1>4. IsSeq(d)
  <2> HIDE DEF d
  <2>1. \A i \in 1..size : d[i] \in Range(d)
    BY <1>2 DEF Range
  <2>2. d \in [1..size -> Range(d)]
    BY <1>1, <2>1
  <2> QED BY <2>2 DEF IsSeq
<1> QED BY <1>2, <1>3, <1>4

-----------------------------------------------------------------------------
(* The recording. A file whose flush did not end is torn: behind the       *)
(* header of its mdat box, where the next box should be, there is data. In *)
(* any other file the boxes of its layout follow each other at the places  *)
(* st, up to where the file is cut.                                        *)
Start == Sizes["ftyp"]
IsBoxOf(unit, name, sz) == IsBox(unit) /\ unit.box = name /\ unit.sz = sz
Torn(f) ==
    /\ 0 < Len(f) => IsBoxOf(f[1], "ftyp", Start)
    /\ Start < Len(f) => IsBoxOf(f[Start + 1], "mdat", Header)
    /\ Start + Header < Len(f) => ~IsBox(f[Start + Header + 1])
Legal(tables) == tables.types # {} /\ tables.types \subseteq tables.headers /\ tables.legal
Boxed(f, boxes, st) ==
    /\ st \in [1..(Len(boxes) + 1) -> Nat] /\ st[1] = 0 /\ Len(f) <= st[Len(boxes) + 1]
    /\ \A i \in 1..Len(boxes) :
         /\ st[i] + Header <= st[i + 1] /\ st[i + 1] <= st[Len(boxes) + 1]
         /\ st[i] < Len(f) => /\ IsBoxOf(f[st[i] + 1], boxes[i], st[i + 1] - st[i])
                              /\ boxes[i] = "moov" => Legal(f[st[i] + 1].tables)
IsWhole(f, boxes, st) == Boxed(f, boxes, st) /\ Len(f) = st[Len(boxes) + 1]

Recorded ==
    /\ written \in Seq(Sample) /\ headers \subseteq {Video, Audio} /\ IsSeq(file)
    /\ layout \in Layouts \cup {Own} /\ enc \in {"closed", "recording", "flushing", "done", "cut"}
    /\ enc = "closed" => file = <<>> /\ written = <<>>
    /\ enc \in {"recording", "flushing"} =>
          /\ Torn(file) /\ \A i \in DOMAIN written : written[i].type \in headers
          /\ written # <<>> => Bytes # 0
    /\ enc \in {"closed", "recording", "flushing"} => layout = Own
    /\ enc = "recording" => Len(file) = Start + Header + Bytes
    /\ enc = "flushing" =>
          /\ Len(file) = Start + Header + Bytes + Sizes["moov"] /\ written # <<>>
          /\ IsBoxOf(file[Start + Header + Bytes + 1], "moov", Sizes["moov"])
          /\ Legal(file[Start + Header + Bytes + 1].tables)

(* What is assumed of the sizes, as the proofs use it.                     *)
LEMMA SizesAre ==
  /\ Start \in Nat /\ Start >= 2 /\ Sizes["moov"] \in Nat /\ Sizes["moov"] >= 2 /\ Header = 2
  /\ Sizes["ftyp"] = Start /\ BufSize \in Nat \ {0}
BY SizesAssumption, BufSizeAssumption DEF Header, Start, Boxes

(* The bytes written are the sizes of the samples.                         *)
LEMMA BytesType == ASSUME written \in Seq(Sample) PROVE Bytes \in Nat
<1> DEFINE sizes == [k \in DOMAIN written |-> written[k].size]
<1>1. sizes \in Seq(Nat)
  <2>1. \A k \in DOMAIN written : written[k] \in Sample
    OBVIOUS
  <2>2. \A k \in DOMAIN written : written[k].size \in Nat
    BY <2>1 DEF Sample
  <2> QED BY <2>2
<1> HIDE DEF sizes
<1>2. Sum(sizes) \in Nat
  BY <1>1, SumType
<1> QED BY <1>2 DEF Bytes, sizes

(* A sample that is written adds its size.                                 *)
LEMMA BytesGrow ==
  ASSUME written \in Seq(Sample), NEW w \in Sample, written' = Append(written, w)
  PROVE  Bytes' = Bytes + w.size
<1> DEFINE sizes == [k \in DOMAIN written |-> written[k].size]
           more == [k \in DOMAIN written' |-> written'[k].size]
<1>1. sizes \in Seq(Nat) /\ w.size \in Nat
  <2>1. \A k \in DOMAIN written : written[k] \in Sample
    OBVIOUS
  <2>2. w.size \in Nat /\ \A k \in DOMAIN written : written[k].size \in Nat
    BY <2>1 DEF Sample
  <2> QED BY <2>2
<1>2. more = Append(sizes, w.size)
  <2>1. Len(written') = Len(written) + 1 /\ Len(written) \in Nat
    OBVIOUS
  <2>2. more = [k \in 1..(Len(written) + 1) |-> written'[k].size]
    BY <2>1
  <2>3. Append(sizes, w.size) = [k \in 1..(Len(written) + 1) |-> IF k = Len(written) + 1 THEN w.size ELSE sizes[k]]
    BY <1>1, <2>1
  <2>4. \A k \in 1..(Len(written) + 1) :
           written'[k].size = IF k = Len(written) + 1 THEN w.size ELSE sizes[k]
    BY <2>1
  <2> HIDE DEF sizes, more
  <2> QED BY <2>2, <2>3, <2>4
<1> HIDE DEF sizes, more
<1>3. Sum(more) = Sum(sizes) + w.size
  BY <1>1, <1>2, SumAppend
<1> QED BY <1>3 DEF Bytes, sizes, more

(* Nothing is recorded at the begin.                                       *)
LEMMA RecordBegins == Init => Recorded
<1> SUFFICES ASSUME Init PROVE Recorded
  OBVIOUS
<1>1. enc = "closed" /\ file = <<>> /\ headers = {} /\ written = <<>> /\ layout = Own
  BY DEF Init
<1>2. IsSeq(<<>>)
  BY DEF IsSeq, Range
<1> QED BY <1>1, <1>2 DEF Recorded

(* The file begins with a ftyp box and the header of a mdat box.           *)
LEMMA InitializeRecords == ASSUME Recorded, Initialize PROVE Recorded'
<1> DEFINE a == Whole("ftyp", NoTables)
           b == Mdat(0)
<1>1. /\ enc = "closed" /\ enc' = "recording" /\ file' = a \o b /\ headers' = headers
      /\ written' = written /\ layout' = layout /\ written = <<>> /\ layout = Own
  BY DEF Initialize, Recorded
<1>2. IsSeq(a) /\ Len(a) = Start /\ IsBoxOf(a[1], "ftyp", Start)
  BY SizesAre, UnitsOf DEF Whole, IsBoxOf
<1>3. IsSeq(b) /\ Len(b) = 2 /\ IsBoxOf(b[1], "mdat", Header)
  <2>1. b = Units("mdat", Header, Header, NoTables) /\ Header \in Nat \ {0}
    BY SizesAre DEF Mdat
  <2> QED BY <2>1, SizesAre, UnitsOf DEF IsBoxOf
<1>4. Bytes = 0
  <2>1. Len([k \in DOMAIN written |-> written[k].size]) = 0
    BY <1>1
  <2> QED BY <2>1, SumEmpty DEF Bytes
<1>5. Bytes' = 0
  BY <1>1, <1>4 DEF Bytes
<1> HIDE DEF a, b
<1>6. /\ IsSeq(file') /\ Len(file') = Start + 2 /\ file'[1] = a[1] /\ file'[Start + 1] = b[1]
  <2>1. b # <<>> /\ a # <<>>
    BY <1>2, <1>3, SizesAre
  <2>2. IsSeq(a) /\ IsSeq(b) /\ file' = a \o b
    BY <1>1, <1>2, <1>3
  <2>3. IsJoin(file', a, b)
    BY <2>1, <2>2, SeqJoins
  <2> QED BY <1>2, <1>3, <2>1, <2>3 DEF IsJoin
<1>7. Torn(file')
  BY <1>2, <1>3, <1>6, SizesAre DEF Torn
<1> QED BY <1>1, <1>5, <1>6, <1>7, SizesAre DEF Recorded

(* A torn file stays torn when what is behind it grows.                    *)
LEMMA TornGrows ==
  ASSUME NEW f, IsSeq(f), Torn(f), NEW g, IsSeq(g), Start + Header <= Len(f),
         Len(f) = Start + Header => (g # <<>> => ~IsBox(g[1]))
  PROVE  Torn(f \o g)
<1> DEFINE h == f \o g
<1>1. /\ Len(h) = Len(f) + Len(g) /\ Len(f) \in Nat /\ Len(g) \in Nat
      /\ \A i \in 1..Len(f) : h[i] = f[i]
      /\ \A i \in 1..Len(g) : h[Len(f) + i] = g[i]
  BY SeqJoined DEF IsJoined
<1> HIDE DEF h
<1>2. Start \in Nat /\ Start >= 2 /\ Header = 2 /\ 1 \in 1..Len(f) /\ Start + 1 \in 1..Len(f)
  BY <1>1, SizesAre
<1>3. h[1] = f[1] /\ h[Start + 1] = f[Start + 1]
  BY <1>1, <1>2
<1>4. ASSUME Start + Header < Len(h) PROVE ~IsBox(h[Start + Header + 1])
  <2>1. CASE Start + Header < Len(f)
    <3>1. Start + Header + 1 \in 1..Len(f)
      BY <1>1, <1>2, <2>1
    <3> QED BY <1>1, <2>1, <3>1 DEF Torn
  <2>2. CASE Len(f) = Start + Header
    <3>1. 1 \in 1..Len(g) /\ g # <<>>
      BY <1>1, <1>2, <1>4, <2>2
    <3> QED BY <1>1, <2>2, <3>1
  <2> QED BY <1>1, <1>2, <2>1, <2>2
<1> QED BY <1>1, <1>2, <1>3, <1>4 DEF Torn, h

(* A sample goes to the end of the file, which stays torn.                 *)
LEMMA WriteSampleRecords ==
  ASSUME Recorded, NEW kind \in Kinds, NEW step \in Steps, WriteSample(kind, step)
  PROVE  Recorded'
<1> DEFINE d == Data(Len(written) + 1, kind.size)
           w == [type |-> kind.type, size |-> kind.size, key |-> kind.key, offset |-> Len(file),
                 dts |-> LastDts + step, pts |-> LastDts + step + kind.cts]
<1>1. /\ enc = "recording" /\ enc' = enc /\ file' = file \o d /\ headers' = headers
      /\ written' = Append(written, w) /\ layout' = layout /\ kind.type \in headers
  BY DEF WriteSample
<1>2. /\ written \in Seq(Sample) /\ IsSeq(file) /\ Torn(file) /\ layout = Own
      /\ Len(file) = Start + Header + Bytes /\ headers \subseteq {Video, Audio}
      /\ \A i \in DOMAIN written : written[i].type \in headers
  BY <1>1 DEF Recorded
<1>3. /\ kind.type \in {Video, Audio} /\ kind.size \in Nat \ {0} /\ kind.cts \in Int /\ step \in Int
  BY KindsAssumption
<1>4. w \in Sample
  <2>1. LastDts \in Int
    <3>1. CASE written = <<>>
      BY <3>1 DEF LastDts
    <3>2. CASE written # <<>>
      <4>1. written[Len(written)] \in Sample
        BY <1>2, <3>2
      <4> QED BY <3>2, <4>1 DEF LastDts, Sample
    <3> QED BY <3>1, <3>2
  <2>2. Len(file) \in Nat
    BY <1>2 DEF IsSeq
  <2>3. LastDts + step \in Int /\ LastDts + step + kind.cts \in Int
    BY <1>3, <2>1
  <2> QED BY <1>3, <2>2, <2>3 DEF Sample
<1>5. IsSeq(d) /\ Len(d) = kind.size /\ \A i \in 1..kind.size : ~IsBox(d[i])
  BY <1>3, DataOf
<1>6. Bytes \in Nat
  BY <1>2, BytesType
<1>7. w.size = kind.size /\ w.type = kind.type
  OBVIOUS
<1> HIDE DEF w, d
<1>8. Bytes' = Bytes + kind.size
  BY <1>1, <1>2, <1>4, <1>7, BytesGrow
<1>9. IsSeq(file') /\ Len(file') = Start + Header + Bytes'
  <2>1. IsSeq(file \o d) /\ Len(file \o d) = Len(file) + kind.size
    <3>1. IsJoined(file \o d, file, d)
      BY <1>2, <1>5, SeqJoined
    <3> QED BY <1>5, <3>1 DEF IsJoined
  <2>2. Len(file \o d) = Start + Header + Bytes'
    <3>1. Start \in Nat /\ Header \in Nat /\ kind.size \in Nat
      BY <1>3, SizesAre
    <3> QED BY <1>2, <1>6, <1>8, <2>1, <3>1
  <2> QED BY <1>1, <2>1, <2>2
<1>10. Torn(file')
  <2>1. Start + Header <= Len(file)
    BY <1>2, <1>6, SizesAre
  <2>2. ~IsBox(d[1])
    BY <1>3, <1>5
  <2> QED BY <1>1, <1>2, <1>5, <2>1, <2>2, TornGrows
<1>11. written' \in Seq(Sample) /\ \A i \in DOMAIN written' : written'[i].type \in headers'
  <2>1. written' \in Seq(Sample) /\ Len(written') = Len(written) + 1
        /\ \A i \in 1..Len(written) : written'[i] = written[i]
    BY <1>1, <1>2, <1>4
  <2>2. written'[Len(written) + 1] = w
    BY <1>1, <1>2, <1>4
  <2>3. \A i \in DOMAIN written' : i \in DOMAIN written \/ i = Len(written) + 1
    BY <1>2, <2>1
  <2> QED BY <1>1, <1>2, <1>7, <2>1, <2>2, <2>3
<1>12. Bytes' # 0
  BY <1>3, <1>6, <1>8
<1> QED BY <1>1, <1>2, <1>9, <1>10, <1>11, <1>12 DEF Recorded

(* The moov box of the encoder is legal.                                   *)
LEMMA MoovOf ==
  ASSUME NEW tracks, DOMAIN tracks # {}, DOMAIN tracks \subseteq headers, Loadable(tracks)
  PROVE  LET v == Moov(tracks) IN
         IsSeq(v) /\ Len(v) = Sizes["moov"] /\ IsBoxOf(v[1], "moov", Sizes["moov"]) /\ Legal(v[1].tables)
<1> DEFINE tables == [types |-> DOMAIN tracks, headers |-> headers, legal |-> Loadable(tracks),
                      samples |-> IF Loadable(tracks) THEN Load(tracks) ELSE <<>>]
           v == Moov(tracks)
<1>1. v = Units("moov", Sizes["moov"], Sizes["moov"], tables)
  BY DEF Moov, Whole
<1>2. tables.types = DOMAIN tracks /\ tables.headers = headers /\ tables.legal = Loadable(tracks)
  OBVIOUS
<1>3. Legal(tables)
  <2> HIDE DEF tables
  <2> QED BY <1>2 DEF Legal
<1> HIDE DEF v, tables
<1>4. Sizes["moov"] \in Nat \ {0}
  BY SizesAre
<1>5. IsSeq(v) /\ Len(v) = Sizes["moov"] /\ IsBox(v[1]) /\ v[1].box = "moov"
      /\ v[1].sz = Sizes["moov"] /\ v[1].tables = tables
  BY <1>1, <1>4, UnitsOf
<1> QED BY <1>3, <1>5 DEF v, IsBoxOf

(* The moov box comes behind the samples: the file is still torn.          *)
LEMMA FlushMoovRecords == ASSUME Recorded, FlushMoov PROVE Recorded'
<1> DEFINE tracks == Write(written)
           v == Moov(tracks)
<1>1. /\ enc = "recording" /\ written # <<>> /\ enc' = "flushing" /\ file' = file \o v
      /\ headers' = headers /\ written' = written /\ layout' = layout
  BY DEF FlushMoov
<1>2. /\ written \in Seq(Sample) /\ IsSeq(file) /\ Torn(file) /\ layout = Own /\ Bytes # 0
      /\ Len(file) = Start + Header + Bytes /\ headers \subseteq {Video, Audio}
      /\ \A i \in DOMAIN written : written[i].type \in headers
  BY <1>1 DEF Recorded
<1>3. Loadable(tracks)
  <2>1. written \in Seq(Range(written))
    BY <1>2, SeqIsSeq DEF IsSeq
  <2>2. Timed(written)
    <3>1. \A i \in DOMAIN written : written[i] \in Sample
      BY <1>2
    <3> QED BY <3>1 DEF Timed, Sample
  <2> QED BY <2>1, <2>2, WrittenIsLoadable
<1>4. DOMAIN tracks # {} /\ DOMAIN tracks \subseteq headers
  <2>1. DOMAIN tracks = {written[i].type : i \in DOMAIN written}
    BY DEF Write
  <2>2. 1 \in DOMAIN written
    BY <1>1, <1>2
  <2> QED BY <1>2, <2>1, <2>2
<1>5. IsSeq(v) /\ Len(v) = Sizes["moov"] /\ IsBoxOf(v[1], "moov", Sizes["moov"]) /\ Legal(v[1].tables)
  BY <1>3, <1>4, MoovOf
<1>6. Bytes' = Bytes /\ Bytes \in Nat
  BY <1>1, <1>2, BytesType DEF Bytes
<1> HIDE DEF v, tracks
<1>7. /\ IsSeq(file') /\ Len(file') = Start + Header + Bytes + Sizes["moov"]
      /\ file'[Start + Header + Bytes + 1] = v[1]
  <2>1. v # <<>>
    BY <1>5, SizesAre
  <2>2. IsSeq(file) /\ IsSeq(v) /\ file' = file \o v
    BY <1>1, <1>2, <1>5
  <2>3. IsJoin(file', file, v)
    BY <2>1, <2>2, SeqJoins
  <2> QED BY <1>2, <1>5, <2>3 DEF IsJoin
<1>8. Torn(file')
  <2>1. Start + Header <= Len(file) /\ Len(file) # Start + Header
    BY <1>2, <1>6, SizesAre
  <2> QED BY <1>1, <1>2, <1>5, <2>1, TornGrows
<1> QED BY <1>1, <1>2, <1>5, <1>6, <1>7, <1>8 DEF Recorded

(* The flush that ends makes a whole file.                                 *)
LEMMA FlushMdatMakes ==
  ASSUME Recorded, FlushMdat
  PROVE  /\ \E st : IsWhole(file', Own, st)
         /\ IsSeq(file') /\ enc' = "done" /\ layout = Own /\ layout' = Own
         /\ UNCHANGED <<headers, written, decoder>>
<1> DEFINE B == Bytes
           M == Sizes["moov"]
           m == Mdat(B)[1]
           a == Start + 1
           st == [i \in 1..4 |-> IF i = 1 THEN 0 ELSE IF i = 2 THEN Start
                                 ELSE IF i = 3 THEN Start + 2 + B ELSE Start + 2 + B + M]
<1>1. /\ enc = "flushing" /\ enc' = "done" /\ file' = [file EXCEPT ![Sizes["ftyp"] + 1] = m]
      /\ UNCHANGED <<headers, written, layout, decoder>>
  BY DEF FlushMdat
<1>2. /\ IsSeq(file) /\ Torn(file) /\ layout = Own
      /\ Len(file) = Start + 2 + B + M /\ written \in Seq(Sample)
      /\ IsBoxOf(file[Start + 2 + B + 1], "moov", M)
      /\ Legal(file[Start + 2 + B + 1].tables)
  BY <1>1, SizesAre DEF Recorded
<1>3. B \in Nat /\ Start \in Nat /\ Start >= 2 /\ M \in Nat /\ M >= 2 /\ Sizes["ftyp"] = Start /\ Header = 2
  BY <1>2, BytesType, SizesAre
<1>4. IsBoxOf(m, "mdat", 2 + B)
  <2>1. Mdat(B) = Units("mdat", Header + B, Header, NoTables) /\ Header \in Nat \ {0}
    BY <1>3 DEF Mdat
  <2>2. IsBox(Mdat(B)[1]) /\ Mdat(B)[1].box = "mdat" /\ Mdat(B)[1].sz = Header + B
    BY <2>1, UnitsOf
  <2> QED BY <1>3, <2>2 DEF IsBoxOf
<1>5. 0 < Len(file) /\ IsBoxOf(file[1], "ftyp", Start)
  BY <1>2, <1>3 DEF Torn
<1> HIDE DEF m, B, M
<1>6. /\ file' = [file EXCEPT ![a] = m] /\ a \in 1..Len(file) /\ a # 1 /\ 1 \in 1..Len(file)
      /\ Start + 2 + B + 1 \in 1..Len(file) /\ Start + 2 + B + 1 # a
  BY <1>1, <1>2, <1>3
<1>7. /\ Len(file') = Len(file) /\ IsSeq(file')
      /\ file'[a] = m /\ \A i \in 1..Len(file) : i # a => file'[i] = file[i]
  <2> HIDE DEF a
  <2> DEFINE S == Range(file) \cup {m}
  <2>1. file \in Seq(S)
    BY <1>2 DEF IsSeq
  <2>2. file' \in Seq(S) /\ Len(file') = Len(file)
        /\ file'[a] = m /\ \A i \in 1..Len(file) : i # a => file'[i] = file[i]
    <3> HIDE DEF S
    <3>1. m \in S
      BY DEF S
    <3> QED BY <1>6, <2>1, <3>1
  <2>3. IsSeq(file')
    BY <2>2, SeqIsSeq
  <2> QED BY <2>2, <2>3
<1>8. file'[1] = file[1] /\ file'[Start + 2 + B + 1] = file[Start + 2 + B + 1]
  BY <1>6, <1>7
<1>9. /\ st \in [1..4 -> Nat] /\ st[1] = 0 /\ st[2] = Start /\ st[3] = Start + 2 + B
      /\ st[4] = Start + 2 + B + M
  BY <1>3
<1>10. Len(Own) = 3 /\ Own[1] = "ftyp" /\ Own[2] = "mdat" /\ Own[3] = "moov"
  BY DEF Own
<1> HIDE DEF st
<1>11. Len(file') = st[Len(Own) + 1] /\ st \in [1..(Len(Own) + 1) -> Nat]
  BY <1>2, <1>7, <1>9, <1>10
<1>12. ASSUME NEW i \in 1..Len(Own)
       PROVE  /\ st[i] + Header <= st[i + 1] /\ st[i + 1] <= st[Len(Own) + 1]
              /\ IsBoxOf(file'[st[i] + 1], Own[i], st[i + 1] - st[i])
              /\ Own[i] = "moov" => Legal(file'[st[i] + 1].tables)
  <2>1. CASE i = 1
    <3>1. st[i + 1] - st[i] = Start /\ st[i] + 1 = 1
      BY <1>3, <1>9, <2>1
    <3>2. file'[st[i] + 1] = file[1] /\ Own[i] = "ftyp"
      BY <1>8, <1>10, <2>1, <3>1
    <3>3. IsBoxOf(file'[st[i] + 1], Own[i], st[i + 1] - st[i])
      BY Zenon, <1>5, <3>1, <3>2
    <3>4. st[i] + Header <= st[i + 1]
      BY <1>3, <1>9, <2>1
    <3>5. st[i + 1] <= st[Len(Own) + 1]
      BY <1>3, <1>9, <1>10, <2>1
    <3> QED BY <3>2, <3>3, <3>4, <3>5
  <2>2. CASE i = 2
    <3>1. st[i + 1] - st[i] = 2 + B /\ st[i] + 1 = a
      BY <1>3, <1>9, <2>2
    <3> QED BY <1>3, <1>4, <1>7, <1>9, <1>10, <2>2, <3>1
  <2>3. CASE i = 3
    <3>1. st[i + 1] - st[i] = M /\ st[i] + 1 = Start + 2 + B + 1
      BY <1>3, <1>9, <2>3
    <3>2. st[i] + Header <= st[i + 1] /\ st[i + 1] <= st[Len(Own) + 1]
      BY <1>3, <1>9, <1>10, <2>3
    <3>3. file'[st[i] + 1] = file[Start + 2 + B + 1] /\ Own[i] = "moov"
      BY <1>8, <1>10, <2>3, <3>1
    <3> QED BY <1>2, <3>1, <3>2, <3>3
  <2> QED BY <1>10, <2>1, <2>2, <2>3
<1>13. IsWhole(file', Own, st)
  BY <1>9, <1>11, <1>12 DEF IsWhole, Boxed
<1> QED BY <1>1, <1>2, <1>7, <1>13

(* What is cut off keeps what is before it.                                *)
LEMMA TornCut ==
  ASSUME NEW f, IsSeq(f), Torn(f), NEW n \in 0..Len(f)
  PROVE  Torn(SubSeq(f, 1, n))
<1> DEFINE g == SubSeq(f, 1, n)
<1>1. Len(g) = n /\ (\A i \in 1..n : g[i] = f[i]) /\ n <= Len(f) /\ n \in Nat /\ Len(f) \in Nat
  <2>1. Len(f) \in Nat
    BY DEF IsSeq
  <2> QED BY <2>1, SeqCut
<1> HIDE DEF g
<1>2. /\ 0 < n => g[1] = f[1] /\ 0 < Len(f)
      /\ Start < n => g[Start + 1] = f[Start + 1] /\ Start < Len(f)
      /\ Start + Header < n => g[Start + Header + 1] = f[Start + Header + 1] /\ Start + Header < Len(f)
  BY <1>1, SizesAre
<1> QED BY <1>1, <1>2 DEF Torn, g

(* A file of boxes that is cut is one that ends earlier.                   *)
LEMMA BoxedCut ==
  ASSUME NEW f, IsSeq(f), NEW boxes, NEW st, Boxed(f, boxes, st), NEW n \in 0..Len(f), boxes \in Seq(Boxes)
  PROVE  Boxed(SubSeq(f, 1, n), boxes, st)
<1> DEFINE g == SubSeq(f, 1, n)
           L == Len(boxes)
<1>1. Len(g) = n /\ (\A i \in 1..n : g[i] = f[i]) /\ n <= Len(f) /\ n \in Nat /\ Len(f) \in Nat
  <2>1. Len(f) \in Nat
    BY DEF IsSeq
  <2> QED BY <2>1, SeqCut
<1>2. L \in Nat
  OBVIOUS
<1> HIDE DEF g, L
<1>3. /\ st \in [1..(L + 1) -> Nat] /\ st[1] = 0 /\ Len(f) <= st[L + 1]
      /\ \A i \in 1..L :
           /\ st[i] + Header <= st[i + 1] /\ st[i + 1] <= st[L + 1]
           /\ st[i] < Len(f) => /\ IsBoxOf(f[st[i] + 1], boxes[i], st[i + 1] - st[i])
                                /\ boxes[i] = "moov" => Legal(f[st[i] + 1].tables)
  BY DEF Boxed, L
<1>4. Len(g) <= st[L + 1]
  <2>1. st[L + 1] \in Nat
    BY <1>2, <1>3
  <2> QED BY <1>1, <1>3, <2>1
<1>5. ASSUME NEW i \in 1..L, st[i] < Len(g) PROVE st[i] < Len(f) /\ g[st[i] + 1] = f[st[i] + 1]
  <2>1. st[i] \in Nat
    BY <1>2, <1>3
  <2> QED BY <1>1, <1>5, <2>1
<1> QED BY <1>3, <1>4, <1>5 DEF Boxed, g, L

-----------------------------------------------------------------------------
(* The decoder. What it has in its buffer begins at Base in the file, which *)
(* is where a box begins.                                                  *)
Base == pos - Len(stream)
Reading ==
    /\ pos \in Nat /\ IsSeq(stream) /\ Len(stream) <= pos /\ (stream # <<>> => pos <= Len(file))
    /\ \A j \in 1..Len(stream) : stream[j] = file[Base + j]
    /\ box # NoBox => Base < Len(file) /\ box = file[Base + 1] /\ IsBox(box)
StandsTorn == Base \in {0, Start, Start + Header} /\ (Base = Start + Header => box = NoBox)
Stands(st, i) ==
    /\ Base = st[i]
    /\ \A j \in 1..(i - 1) : layout[j] # "moov" /\ (layout[j] = "ftyp" => ftyp)

(* A layout has a moov box, and a ftyp box before it.                      *)
LEMMA LayoutIs ==
  ASSUME layout \in Layouts \cup {Own}
  PROVE  /\ layout \in Seq(Boxes) /\ Len(layout) \in Nat
         /\ \E i \in 1..Len(layout) : layout[i] = "moov"
         /\ \A i \in 1..Len(layout) : layout[i] = "moov" => \E j \in 1..(i - 1) : layout[j] = "ftyp"
<1>1. CASE layout \in Layouts
  <2>1. DOMAIN layout = 1..Len(layout)
    BY <1>1, LayoutsAssumption
  <2> QED BY <1>1, <2>1, LayoutsAssumption
<1>2. CASE layout = Own
  <2>1. Own \in Seq(Boxes) /\ Len(Own) = 3 /\ Own[1] = "ftyp" /\ Own[2] = "mdat" /\ Own[3] = "moov"
    BY DEF Own, Boxes
  <2>2. \E i \in 1..3 : Own[i] = "moov"
    BY <2>1
  <2>3. \A i \in 1..3 : Own[i] = "moov" => \E j \in 1..(i - 1) : Own[j] = "ftyp"
    <3> SUFFICES ASSUME NEW i \in 1..3, Own[i] = "moov" PROVE \E j \in 1..(i - 1) : Own[j] = "ftyp"
      OBVIOUS
    <3>1. i = 3
      BY <2>1
    <3> QED BY <2>1, <3>1
  <2> QED BY <1>2, <2>1, <2>2, <2>3
<1> QED BY <1>1, <1>2

(* A part of a sequence.                                                   *)
IsPart(p, s, m, n) ==
    /\ IsSeq(p) /\ Len(p) = n - m
    /\ \A i \in 1..(n - m) : p[i] = s[m + i]

(* A part of a sequence has its elements from there on.                    *)
LEMMA SeqPart ==
  ASSUME NEW s, IsSeq(s), NEW m \in Nat, NEW n \in Nat, m <= n, n <= Len(s)
  PROVE  IsPart(SubSeq(s, m + 1, n), s, m, n)
<1> DEFINE p == SubSeq(s, m + 1, n)
<1>1. s \in Seq(Range(s)) /\ Len(s) \in Nat
  BY DEF IsSeq
<1>2. /\ p \in Seq(Range(s)) /\ Len(p) = n - m
      /\ \A i \in 1..(n - m) : p[i] = s[m + i]
  BY <1>1
<1> HIDE DEF p
<1>3. IsSeq(p)
  BY <1>2, SeqIsSeq
<1> QED BY <1>2, <1>3 DEF IsPart, p

(* The file, like what follows from it, is not touched by the decoder.     *)
LEMMA RecordKept ==
  ASSUME Recorded, UNCHANGED encoder
  PROVE  Recorded' /\ UNCHANGED <<enc, file, headers, written, layout>>
BY DEF encoder, Recorded, Bytes

(* More of the file comes into the buffer: it begins where it did.         *)
LEMMA ReadMoreReads ==
  ASSUME Reading, IsSeq(file), file' = file, pos < Len(file),
         stream' = stream \o SubSeq(file, pos + 1, pos + Upto(BufSize)),
         pos' = pos + Upto(BufSize), box' = box
  PROVE  Reading' /\ Base' = Base
<1> DEFINE n == pos + Upto(BufSize)
           p == SubSeq(file, pos + 1, n)
<1>1. pos \in Nat /\ Len(file) \in Nat /\ IsSeq(stream) /\ Len(stream) \in Nat /\ Len(stream) <= pos
  BY DEF Reading, IsSeq
<1>2. Upto(BufSize) \in Nat /\ n \in Nat /\ pos <= n /\ n <= Len(file) /\ n - pos = Upto(BufSize)
  <2>1. BufSize \in Nat
    BY SizesAre
  <2>2. Upto(BufSize) \in Nat /\ pos + Upto(BufSize) <= Len(file)
    BY <1>1, <2>1 DEF Upto
  <2> HIDE DEF Upto
  <2> QED BY <1>1, <2>2
<1>3. IsPart(p, file, pos, n)
  <2> HIDE DEF n
  <2> QED BY <1>1, <1>2, SeqPart
<1>4. stream' = stream \o p /\ pos' = n
  OBVIOUS
<1> HIDE DEF p, n
<1>5. IsSeq(p) /\ Len(p) = n - pos /\ \A i \in 1..(n - pos) : p[i] = file[pos + i]
  BY <1>3 DEF IsPart
<1> DEFINE r == stream \o p
           k == Len(stream)
<1>6. /\ IsSeq(r) /\ Len(r) = k + (n - pos)
      /\ \A i \in 1..k : r[i] = stream[i]
      /\ \A i \in 1..(n - pos) : r[k + i] = p[i]
  <2>1. IsJoined(r, stream, p)
    BY <1>1, <1>5, SeqJoined
  <2> HIDE DEF r
  <2> QED BY <1>5, <2>1 DEF IsJoined
<1>7. r = stream'
  BY <1>4
<1>8. \A j \in 1..k : stream[j] = file[Base + j]
  BY DEF Reading
<1> HIDE DEF r
<1>9. Base' = Base /\ Base \in Nat /\ Base + k = pos
  <2>1. Base' = n - Len(r) /\ Base = pos - k
    BY <1>4, <1>7 DEF Base
  <2> HIDE DEF k
  <2> QED BY <1>1, <1>2, <1>6, <2>1 DEF k
<1>10. ASSUME NEW j \in 1..Len(r) PROVE r[j] = file[Base + j]
  <2>1. CASE j \in 1..k
    BY <1>6, <1>8, <2>1
  <2>2. CASE j \notin 1..k
    <3>1. j - k \in 1..(n - pos) /\ k + (j - k) = j /\ pos + (j - k) = Base + j
      <4> DEFINE u == n - pos
                 b == Base
      <4>1. k \in Nat /\ u \in Nat /\ j \in Nat /\ b \in Nat /\ pos = b + k /\ 1 <= j /\ j <= k + u
        BY <1>1, <1>2, <1>6, <1>9
      <4> HIDE DEF k, u, b
      <4> QED BY <2>2, <4>1 DEF u, b
    <3>2. r[k + (j - k)] = p[j - k] /\ p[j - k] = file[pos + (j - k)]
      BY <1>5, <1>6, <3>1
    <3> QED BY <3>1, <3>2
  <2> QED BY <2>1, <2>2
<1>11. Len(r) <= n /\ n <= Len(file)
  BY <1>1, <1>2, <1>6
<1>12. box # NoBox => Base < Len(file) /\ box = file[Base + 1] /\ IsBox(box)
  BY DEF Reading
<1>13. /\ pos' \in Nat /\ IsSeq(stream') /\ Len(stream') <= pos' /\ (stream' # <<>> => pos' <= Len(file'))
       /\ \A j \in 1..Len(stream') : stream'[j] = file'[Base' + j]
       /\ box' # NoBox => Base' < Len(file') /\ box' = file'[Base' + 1] /\ IsBox(box')
  <2>1. stream' = r /\ pos' = n /\ file' = file /\ Base' = Base /\ box' = box
    BY <1>4, <1>7, <1>9
  <2> QED BY <1>2, <1>6, <1>10, <1>11, <1>12, <2>1
<1> QED BY <1>9, <1>13 DEF Reading

(* A box is left behind.                                                   *)
LEMMA BoxLeft ==
  ASSUME Reading, IsSeq(file), file' = file, NEW sz \in Nat, box' = NoBox,
         \/ sz <= Len(stream) /\ stream' = SubSeq(stream, sz + 1, Len(stream)) /\ pos' = pos
         \/ sz > Len(stream) /\ stream' = <<>> /\ pos' = pos + (sz - Len(stream))
  PROVE  Reading' /\ Base' = Base + sz
<1> DEFINE k == Len(stream)
<1>1. pos \in Nat /\ IsSeq(stream) /\ k \in Nat /\ k <= pos /\ Base = pos - k
  BY DEF Reading, IsSeq, Base
<1>2. CASE sz <= k /\ stream' = SubSeq(stream, sz + 1, k) /\ pos' = pos
  <2>1. IsPart(stream', stream, sz, k)
    BY <1>1, <1>2, SeqPart
  <2>2. IsSeq(stream') /\ Len(stream') = k - sz /\ \A i \in 1..(k - sz) : stream'[i] = stream[sz + i]
    BY <2>1 DEF IsPart
  <2>3. Base' = Base + sz
    <3>1. Base' = pos - (k - sz)
      BY <1>2, <2>2 DEF Base
    <3> QED BY <1>1, <3>1
  <2>4. \A j \in 1..k : stream[j] = file[Base + j]
    BY DEF Reading
  <2>5. ASSUME NEW j \in 1..Len(stream') PROVE stream'[j] = file[Base' + j]
    <3>1. j \in 1..(k - sz) /\ sz + j \in 1..k /\ Base + (sz + j) = Base' + j
      BY <1>1, <1>2, <2>2, <2>3
    <3> QED BY <2>2, <2>4, <3>1
  <2>6. Len(stream') <= pos' /\ (stream' # <<>> => pos' <= Len(file'))
    <3>1. stream # <<>> => pos <= Len(file)
      BY DEF Reading
    <3>2. stream' # <<>> => stream # <<>>
      <4>1. Len(stream) = 0 => Len(stream') = 0
        BY <1>2, <2>2
      <4>2. (stream' # <<>> => Len(stream') # 0) /\ (stream = <<>> => Len(stream) = 0)
        BY <2>2 DEF IsSeq
      <4> QED BY <4>1, <4>2
    <3> QED BY <1>1, <1>2, <2>2, <3>1, <3>2
  <2> QED BY <1>1, <1>2, <2>2, <2>3, <2>5, <2>6 DEF Reading
<1>3. CASE sz > k /\ stream' = <<>> /\ pos' = pos + (sz - k)
  <2>1. Len(stream') = 0 /\ IsSeq(stream')
    BY <1>3 DEF IsSeq
  <2>2. pos' \in Nat /\ Base' = Base + sz
    <3>1. Base' = pos' - 0
      BY <2>1 DEF Base
    <3> QED BY <1>1, <1>3, <3>1
  <2> QED BY <1>3, <2>1, <2>2 DEF Reading
<1> QED BY <1>2, <1>3

(* The next box begins where the one before it ends: a moov box is ahead.  *)
LEMMA Advances ==
  ASSUME layout \in Layouts \cup {Own}, layout' = layout, NEW st, Boxed(file, layout, st),
         NEW i \in 1..Len(layout), Stands(st, i), layout[i] # "moov",
         Base' = Base + (st[i + 1] - st[i]), layout[i] = "ftyp" => ftyp', ftyp => ftyp'
  PROVE  i + 1 \in 1..Len(layout) /\ Stands(st, i + 1)'
<1> DEFINE L == Len(layout)
<1>1. L \in Nat /\ (\E j \in 1..L : layout[j] = "moov")
  BY LayoutIs
<1>2. /\ Base = st[i]
      /\ \A j \in 1..(i - 1) : layout[j] # "moov" /\ (layout[j] = "ftyp" => ftyp)
  BY DEF Stands
<1>3. i + 1 \in 1..L
  <2>1. PICK j \in 1..L : layout[j] = "moov"
    BY <1>1
  <2>2. j # i /\ j \notin 1..(i - 1)
    BY <1>2, <2>1
  <2> QED BY <1>1, <2>1, <2>2
<1>4. st[i] \in Nat /\ st[i + 1] \in Nat
  <2>1. st \in [1..(L + 1) -> Nat]
    BY Zenon DEF Boxed
  <2>2. i \in 1..(L + 1) /\ i + 1 \in 1..(L + 1)
    BY <1>1, <1>3
  <2> QED BY <2>1, <2>2
<1>5. Base' = st[i + 1]
  <2> DEFINE a == st[i]
             b == st[i + 1]
             c == Base
  <2>1. a \in Nat /\ b \in Nat /\ c = a
    BY <1>2, <1>4
  <2> HIDE DEF a, b, c
  <2>2. c + (b - a) = b
    BY <2>1
  <2> QED BY <2>2 DEF a, b, c
<1>6. \A j \in 1..((i + 1) - 1) : layout[j] # "moov" /\ (layout[j] = "ftyp" => ftyp')
  <2> SUFFICES ASSUME NEW j \in 1..((i + 1) - 1) PROVE layout[j] # "moov" /\ (layout[j] = "ftyp" => ftyp')
    OBVIOUS
  <2>1. j = i \/ j \in 1..(i - 1)
    BY <1>3
  <2> QED BY <1>2, <2>1
<1> QED BY <1>3, <1>5, <1>6 DEF Stands

(* Where a box stands in a file of boxes.                                  *)
LEMMA BoxThere ==
  ASSUME layout \in Layouts \cup {Own}, NEW st, Boxed(file, layout, st), IsSeq(file), Reading,
         NEW i \in 1..Len(layout), Stands(st, i)
  PROVE  /\ st[i] \in Nat /\ st[i + 1] \in Nat /\ st[i] + 2 <= st[i + 1]
         /\ st[i + 1] <= st[Len(layout) + 1] /\ Base = st[i] /\ pos = Base + Len(stream)
         /\ Len(stream) \in Nat /\ Len(file) \in Nat /\ pos \in Nat /\ Len(file) <= st[Len(layout) + 1]
         /\ st[Len(layout) + 1] \in Nat
         /\ Base < Len(file) => /\ IsBoxOf(file[Base + 1], layout[i], st[i + 1] - st[i])
                                /\ layout[i] = "moov" => Legal(file[Base + 1].tables)
<1> DEFINE L == Len(layout)
<1>1. L \in Nat /\ i \in 1..L
  BY LayoutIs
<1>2. /\ st \in [1..(L + 1) -> Nat] /\ Len(file) <= st[L + 1]
      /\ st[i] + Header <= st[i + 1] /\ st[i + 1] <= st[L + 1]
      /\ st[i] < Len(file) => /\ IsBoxOf(file[st[i] + 1], layout[i], st[i + 1] - st[i])
                              /\ layout[i] = "moov" => Legal(file[st[i] + 1].tables)
  BY DEF Boxed
<1>3. st[i] \in Nat /\ st[i + 1] \in Nat /\ st[L + 1] \in Nat
  BY <1>1, <1>2
<1>4. Base = st[i]
  BY DEF Stands
<1>5. pos \in Nat /\ Len(stream) \in Nat /\ Len(file) \in Nat /\ pos = Base + Len(stream)
  <2>1. pos \in Nat /\ Len(stream) \in Nat /\ Len(file) \in Nat
    BY DEF Reading, IsSeq
  <2> QED BY <2>1 DEF Base
<1> QED BY <1>2, <1>3, <1>4, <1>5, SizesAre

(* The box that the decoder is at is the one of the layout.                *)
LEMMA BoxIs ==
  ASSUME layout \in Layouts \cup {Own}, NEW st, Boxed(file, layout, st), IsSeq(file), Reading,
         NEW i \in 1..Len(layout), Stands(st, i), box # NoBox
  PROVE  /\ box.box = layout[i] /\ box.sz = st[i + 1] - st[i] /\ box.sz \in Nat /\ box.sz >= 2
         /\ layout[i] = "moov" => Legal(box.tables)
<1>1. Base < Len(file) /\ box = file[Base + 1]
  BY DEF Reading
<1>2. /\ IsBoxOf(file[Base + 1], layout[i], st[i + 1] - st[i])
      /\ layout[i] = "moov" => Legal(file[Base + 1].tables)
      /\ st[i] \in Nat /\ st[i + 1] \in Nat /\ st[i] + 2 <= st[i + 1]
  BY <1>1, BoxThere
<1>3. st[i + 1] - st[i] \in Nat /\ st[i + 1] - st[i] >= 2
  <2> DEFINE a == st[i]
             b == st[i + 1]
  <2> HIDE DEF a, b
  <2>1. a \in Nat /\ b \in Nat /\ a + 2 <= b
    BY <1>2 DEF a, b
  <2>2. b - a \in Nat /\ b - a >= 2
    BY <2>1
  <2> QED BY <2>2 DEF a, b
<1> QED BY <1>1, <1>2, <1>3 DEF IsBoxOf

-----------------------------------------------------------------------------
(* The decoder in a file that is torn. It never gets past what is no box.  *)
IsTorn == enc = "cut" /\ layout = Own /\ Torn(file) /\ IsSeq(file)
ReadsTorn == IsTorn /\ dec = "loading" /\ Reading /\ StandsTorn

(* In a torn file the decoder meets the ftyp box and the header of mdat    *)
(* only.                                                                   *)
LEMMA TornBox ==
  ASSUME ReadsTorn, box # NoBox
  PROVE  \/ Base = 0 /\ box.box = "ftyp" /\ box.sz = Start
         \/ Base = Start /\ box.box = "mdat" /\ box.sz = Header
<1>1. Base < Len(file) /\ box = file[Base + 1]
  BY DEF Reading, ReadsTorn
<1>2. Base \in {0, Start}
  BY DEF ReadsTorn, StandsTorn
<1>3. CASE Base = 0
  <2>1. IsBoxOf(file[1], "ftyp", Start) /\ box = file[1]
    BY <1>1, <1>3 DEF Torn, ReadsTorn, IsTorn
  <2> QED BY <1>3, <2>1 DEF IsBoxOf
<1>4. CASE Base = Start
  <2>1. IsBoxOf(file[Start + 1], "mdat", Header) /\ box = file[Start + 1]
    BY <1>1, <1>4 DEF Torn, ReadsTorn, IsTorn
  <2> QED BY <1>4, <2>1 DEF IsBoxOf
<1> QED BY <1>2, <1>3, <1>4

(* It stays there, or is refused: what comes next is no box.               *)
LEMMA TornStays ==
  ASSUME ReadsTorn, UNCHANGED encoder, ReadMore \/ Discover \/ SkipMdat \/ TakeBox \/ ParseMoov
  PROVE  dec' = "refused" \/ ReadsTorn'
<1>1. IsTorn' /\ file' = file
  BY DEF ReadsTorn, IsTorn, encoder, Torn
<1>2. IsSeq(file) /\ Reading /\ StandsTorn /\ dec = "loading" /\ Torn(file)
  BY DEF ReadsTorn, IsTorn
<1>3. CASE ReadMore
  <2>1. CASE pos >= Len(file)
    BY <1>3, <2>1 DEF ReadMore, Refuse
  <2>2. CASE ~(pos >= Len(file))
    <3>1. /\ stream' = stream \o SubSeq(file, pos + 1, pos + Upto(BufSize))
          /\ pos' = pos + Upto(BufSize) /\ box' = box /\ dec' = dec
      BY <1>3, <2>2 DEF ReadMore
    <3>2. pos < Len(file)
      BY <1>2, <2>2 DEF Reading, IsSeq
    <3>3. Reading' /\ Base' = Base
      BY <1>1, <1>2, <3>1, <3>2, ReadMoreReads
    <3>4. StandsTorn'
      BY <1>2, <3>1, <3>3 DEF StandsTorn
    <3> QED BY <1>1, <1>2, <3>1, <3>3, <3>4 DEF ReadsTorn
  <2> QED BY <2>1, <2>2
<1>4. CASE Discover
  <2>1. CASE ~IsBox(stream[1])
    BY <1>4, <2>1 DEF Discover, Refuse
  <2>2. CASE IsBox(stream[1])
    <3>1. /\ box' = stream[1] /\ UNCHANGED <<dec, pos, stream>> /\ Len(stream) >= Header
      BY <1>4, <2>2 DEF Discover
    <3>2. /\ Len(stream) \in Nat /\ pos \in Nat /\ pos <= Len(file) /\ Len(file) \in Nat
          /\ stream[1] = file[Base + 1] /\ Base = pos - Len(stream) /\ Len(stream) >= 2
      <4>1. Len(stream) \in Nat /\ Len(file) \in Nat /\ Len(stream) >= 2 /\ stream # <<>>
        BY <1>2, <3>1, SizesAre DEF Reading, IsSeq
      <4>2. 1 \in 1..Len(stream)
        BY <4>1
      <4> QED BY <1>2, <4>1, <4>2 DEF Reading, Base
    <3>3. Base < Len(file)
      BY <3>2
    <3>4. Base # Start + Header
      <4>1. ASSUME Base = Start + Header PROVE FALSE
        <5>1. ~IsBox(file[Start + Header + 1])
          BY <1>2, <3>3, <4>1 DEF Torn
        <5> QED BY <2>2, <3>2, <4>1, <5>1
      <4> QED BY <4>1
    <3>5. Base' = Base
      BY <3>1 DEF Base
    <3>6. Reading'
      <4>1. IsBox(box') /\ box' = file'[Base' + 1] /\ Base' < Len(file')
        BY <1>1, <2>2, <3>1, <3>2, <3>3, <3>5
      <4> QED BY <1>1, <1>2, <3>1, <3>5, <4>1 DEF Reading
    <3>7. StandsTorn'
      BY <1>2, <3>4, <3>5 DEF StandsTorn
    <3> QED BY <1>1, <1>2, <3>1, <3>6, <3>7 DEF ReadsTorn
  <2> QED BY <2>1, <2>2
<1>5. CASE SkipMdat
  <2>1. box.box = "mdat" /\ box # NoBox
    BY <1>5 DEF SkipMdat, NoBox
  <2>2. Base = Start /\ box.sz = Header
    BY <2>1, TornBox
  <2>3. Header \in Nat
    BY SizesAre
  <2>4. CASE dec' = "refused"
    BY <2>4
  <2>5. CASE dec' # "refused"
    <3>1. LET over == box.sz - Len(stream) IN
          /\ stream' = IF over > 0 THEN <<>> ELSE SubSeq(stream, box.sz + 1, Len(stream))
          /\ pos' = IF over > 0 THEN pos + over ELSE pos
          /\ box' = NoBox /\ dec' = dec
      BY <1>5, <2>5 DEF SkipMdat, Refuse
    <3>2. \/ Header <= Len(stream) /\ stream' = SubSeq(stream, Header + 1, Len(stream)) /\ pos' = pos
          \/ Header > Len(stream) /\ stream' = <<>> /\ pos' = pos + (Header - Len(stream))
      <4>1. Len(stream) \in Nat
        BY <1>2 DEF Reading, IsSeq
      <4> QED BY <2>2, <2>3, <3>1, <4>1
    <3>3. Reading' /\ Base' = Base + Header
      BY <1>1, <1>2, <2>3, <3>1, <3>2, BoxLeft
    <3>4. StandsTorn'
      BY <2>2, <3>1, <3>3 DEF StandsTorn
    <3> QED BY <1>1, <1>2, <3>1, <3>3, <3>4 DEF ReadsTorn
  <2> QED BY <2>4, <2>5
<1>6. CASE TakeBox
  <2>1. box.box \in {"ftyp", "free"} /\ box # NoBox
    BY <1>6 DEF TakeBox, NoBox
  <2>2. Base = 0 /\ box.sz = Start
    BY <2>1, TornBox
  <2>3. /\ stream' = SubSeq(stream, box.sz + 1, Len(stream)) /\ pos' = pos /\ box' = NoBox /\ dec' = dec
        /\ Start <= Len(stream)
    <3>1. Start \in Nat /\ Len(stream) \in Nat /\ Len(stream) >= box.sz
      BY <1>2, <1>6, SizesAre DEF TakeBox, Reading, IsSeq
    <3> QED BY <1>6, <2>2, <3>1 DEF TakeBox
  <2>4. Start \in Nat
    BY SizesAre
  <2>5. Reading' /\ Base' = Base + Start
    BY <1>1, <1>2, <2>2, <2>3, <2>4, BoxLeft
  <2>6. StandsTorn'
    BY <2>2, <2>3, <2>4, <2>5 DEF StandsTorn
  <2> QED BY <1>1, <1>2, <2>3, <2>5, <2>6 DEF ReadsTorn
<1>7. CASE ParseMoov
  <2>1. box.box = "moov" /\ box # NoBox
    BY <1>7 DEF ParseMoov, NoBox
  <2> QED BY <2>1, TornBox
<1> QED BY <1>3, <1>4, <1>5, <1>6, <1>7

(* The decoder in a file of boxes. It is refused only by a file that is    *)
(* cut, or at a mdat box that the buffer holds whole, and opens only what  *)
(* is whole if the file is of the encoder.                                 *)
Ends(st) == Len(file) = st[Len(layout) + 1]
IsBoxes(st) ==
    /\ layout \in Layouts \cup {Own} /\ IsSeq(file) /\ Boxed(file, layout, st)
    /\ enc \in {"done", "cut"} /\ (enc = "done" <=> Ends(st))
ReadsBoxes(st) ==
    /\ IsBoxes(st) /\ dec = "loading" /\ Reading
    /\ \E i \in 1..Len(layout) : Stands(st, i)
Small == enc = "done" => box.box = "mdat" /\ Len(stream) >= box.sz
After(st) ==
    \/ ReadsBoxes(st)
    \/ dec = "refused" /\ Small
    \/ dec = "loaded" /\ (layout = Own => enc = "done")

(* The decoder does not touch the file of boxes.                           *)
LEMMA BoxesKept ==
  ASSUME NEW st, IsBoxes(st), UNCHANGED encoder
  PROVE  IsBoxes(st)' /\ UNCHANGED <<enc, file, headers, written, layout>>
BY DEF IsBoxes, encoder, Boxed, Ends, Legal

(* It stands where it was when it leaves no box behind.                    *)
LEMMA StandsKept ==
  ASSUME NEW st, NEW i, Stands(st, i), UNCHANGED encoder, Base' = Base, ftyp' = ftyp
  PROVE  Stands(st, i)'
BY DEF Stands, encoder

(* A read into the buffer (do_load_next_box): the end of a whole file is   *)
(* not met.                                                                *)
LEMMA BoxesReadMore ==
  ASSUME NEW st, ReadsBoxes(st), UNCHANGED encoder, ReadMore
  PROVE  After(st)'
<1>1. PICK i \in 1..Len(layout) : Stands(st, i)
  BY DEF ReadsBoxes
<1>2. IsBoxes(st)' /\ file' = file /\ enc' = enc /\ layout' = layout
  BY BoxesKept DEF ReadsBoxes
<1>3. /\ layout \in Layouts \cup {Own} /\ IsSeq(file) /\ Boxed(file, layout, st) /\ Reading
      /\ dec = "loading" /\ (enc = "done" => Ends(st))
  BY DEF ReadsBoxes, IsBoxes
<1>4. /\ st[i] \in Nat /\ st[i + 1] \in Nat /\ st[i] + 2 <= st[i + 1]
      /\ st[i + 1] <= st[Len(layout) + 1] /\ Base = st[i] /\ pos = Base + Len(stream)
      /\ Len(stream) \in Nat /\ Len(file) \in Nat /\ pos \in Nat
  BY <1>1, <1>3, BoxThere
<1>5. CASE pos >= Len(file)
  <2>1. dec' = "refused" /\ UNCHANGED <<stream, box>>
    BY <1>5 DEF ReadMore, Refuse
  <2>2. enc # "done"
    <3> SUFFICES ASSUME enc = "done" PROVE FALSE
      OBVIOUS
    <3>1. Len(stream) >= st[i + 1] - st[i] /\ Len(stream) >= 2
      <4> DEFINE a == st[i]
                 b == st[i + 1]
                 c == st[Len(layout) + 1]
                 n == Len(stream)
                 m == Len(file)
      <4>1. a \in Nat /\ b \in Nat /\ a + 2 <= b /\ b <= c /\ m = c /\ pos >= m /\ pos = a + n /\ n \in Nat
            /\ m \in Nat /\ pos \in Nat
        BY <1>3, <1>4, <1>5 DEF Ends
      <4> HIDE DEF a, b, c, n, m
      <4>2. n >= b - a /\ n >= 2
        BY <4>1
      <4> QED BY <4>2 DEF a, b, n
    <3>2. Len(stream) < Required
      BY DEF ReadMore
    <3>3. CASE box = NoBox
      <4>1. Required = 1
        BY <3>3 DEF Required
      <4> QED BY <1>4, <3>1, <3>2, <4>1
    <3>4. CASE box # NoBox
      <4>1. box.sz = st[i + 1] - st[i] /\ box.sz \in Nat
        BY <1>1, <1>3, <3>4, BoxIs
      <4>2. Required = box.sz
        BY <3>4 DEF Required
      <4>3. Len(stream) >= box.sz
        BY <3>1, <4>1
      <4> QED BY <1>4, <3>2, <4>1, <4>2, <4>3
    <3> QED BY <3>3, <3>4
  <2> QED BY <1>2, <2>1, <2>2 DEF After, Small
<1>6. CASE ~(pos >= Len(file))
  <2>1. /\ stream' = stream \o SubSeq(file, pos + 1, pos + Upto(BufSize))
        /\ pos' = pos + Upto(BufSize) /\ box' = box /\ dec' = dec /\ ftyp' = ftyp
    BY <1>6 DEF ReadMore
  <2>2. pos < Len(file)
    BY <1>4, <1>6
  <2>3. Reading' /\ Base' = Base
    BY <1>2, <1>3, <2>1, <2>2, ReadMoreReads
  <2>4. Stands(st, i)'
    BY <1>1, <2>1, <2>3, StandsKept
  <2>5. i \in 1..Len(layout')
    BY <1>2
  <2> QED BY <1>2, <1>3, <2>1, <2>3, <2>4, <2>5 DEF After, ReadsBoxes
<1> QED BY <1>5, <1>6

(* What is in the buffer is discovered to be the box of the layout.        *)
LEMMA BoxesDiscover ==
  ASSUME NEW st, ReadsBoxes(st), UNCHANGED encoder, Discover
  PROVE  After(st)'
<1>1. PICK i \in 1..Len(layout) : Stands(st, i)
  BY DEF ReadsBoxes
<1>2. IsBoxes(st)' /\ file' = file /\ enc' = enc /\ layout' = layout
  BY BoxesKept DEF ReadsBoxes
<1>3. /\ layout \in Layouts \cup {Own} /\ IsSeq(file) /\ Boxed(file, layout, st) /\ Reading
      /\ dec = "loading"
  BY DEF ReadsBoxes, IsBoxes
<1>4. /\ Base = st[i] /\ pos = Base + Len(stream) /\ st[i] \in Nat
      /\ Len(stream) \in Nat /\ Len(file) \in Nat /\ pos \in Nat
      /\ Base < Len(file) => /\ IsBoxOf(file[Base + 1], layout[i], st[i + 1] - st[i])
  BY <1>1, <1>3, BoxThere
<1>5. Len(stream) >= 2
  BY SizesAre DEF Discover
<1>6. stream[1] = file[Base + 1] /\ pos <= Len(file)
  <2>1. 1 \in 1..Len(stream) /\ stream # <<>>
    BY <1>4, <1>5
  <2> QED BY <1>3, <2>1 DEF Reading
<1>7. Base < Len(file)
  BY <1>4, <1>5, <1>6
<1>8. IsBox(stream[1])
  BY <1>4, <1>6, <1>7 DEF IsBoxOf
<1>9. box' = stream[1] /\ UNCHANGED <<dec, pos, stream, ftyp>>
  BY <1>8 DEF Discover
<1>10. Base' = Base
  BY <1>9 DEF Base
<1>11. Reading'
  <2>1. IsBox(box') /\ box' = file'[Base' + 1] /\ Base' < Len(file')
    BY <1>2, <1>6, <1>7, <1>8, <1>9, <1>10
  <2> QED BY <1>2, <1>3, <1>9, <1>10, <2>1 DEF Reading
<1>12. Stands(st, i)'
  BY <1>1, <1>9, <1>10, StandsKept
<1>13. i \in 1..Len(layout')
  BY <1>2
<1> QED BY <1>2, <1>3, <1>9, <1>11, <1>12, <1>13 DEF After, ReadsBoxes

(* A mdat box is skipped, or refused when the buffer holds it whole.       *)
LEMMA BoxesSkip ==
  ASSUME NEW st, ReadsBoxes(st), UNCHANGED encoder, SkipMdat
  PROVE  After(st)'
<1>1. PICK i \in 1..Len(layout) : Stands(st, i)
  BY DEF ReadsBoxes
<1>2. IsBoxes(st)' /\ file' = file /\ enc' = enc /\ layout' = layout
  BY BoxesKept DEF ReadsBoxes
<1>3. /\ layout \in Layouts \cup {Own} /\ IsSeq(file) /\ Boxed(file, layout, st) /\ Reading
      /\ dec = "loading" /\ Len(stream) \in Nat
  BY DEF ReadsBoxes, IsBoxes, Reading, IsSeq
<1>4. box.box = "mdat" /\ box # NoBox
  BY DEF SkipMdat, NoBox
<1>5. box.box = layout[i] /\ box.sz = st[i + 1] - st[i] /\ box.sz \in Nat
  BY <1>1, <1>3, <1>4, BoxIs
<1>6. CASE box.sz - Len(stream) <= 0 /\ box.sz > Header
  <2>1. dec' = "refused" /\ UNCHANGED <<stream, box>>
    BY <1>6 DEF SkipMdat, Refuse
  <2>2. Len(stream) >= box.sz
    BY <1>3, <1>5, <1>6
  <2> QED BY <1>2, <1>4, <2>1, <2>2 DEF After, Small
<1>7. CASE ~(box.sz - Len(stream) <= 0 /\ box.sz > Header)
  <2>1. LET over == box.sz - Len(stream) IN
        /\ stream' = IF over > 0 THEN <<>> ELSE SubSeq(stream, box.sz + 1, Len(stream))
        /\ pos' = IF over > 0 THEN pos + over ELSE pos
        /\ box' = NoBox /\ dec' = dec /\ ftyp' = ftyp
    BY <1>7 DEF SkipMdat
  <2> DEFINE sz == box.sz
  <2>a. sz \in Int /\ Len(stream) \in Int
    BY <1>3, <1>5
  <2>b. /\ stream' = IF sz - Len(stream) > 0 THEN <<>> ELSE SubSeq(stream, sz + 1, Len(stream))
        /\ pos' = IF sz - Len(stream) > 0 THEN pos + (sz - Len(stream)) ELSE pos
    BY <2>1
  <2> HIDE DEF sz
  <2>2. \/ sz <= Len(stream) /\ stream' = SubSeq(stream, sz + 1, Len(stream)) /\ pos' = pos
        \/ sz > Len(stream) /\ stream' = <<>> /\ pos' = pos + (sz - Len(stream))
    <3>1. CASE sz - Len(stream) > 0
      <4>1. sz > Len(stream)
        BY <2>a, <3>1
      <4> QED BY <2>b, <3>1, <4>1
    <3>2. CASE ~(sz - Len(stream) > 0)
      <4>1. sz <= Len(stream)
        BY <2>a, <3>2
      <4> QED BY <2>b, <3>2, <4>1
    <3> QED BY <3>1, <3>2
  <2> USE DEF sz
  <2>3. sz \in Nat /\ box' = NoBox
    BY <1>5, <2>1
  <2> HIDE DEF sz
  <2>4. Reading' /\ Base' = Base + sz
    BY <1>2, <1>3, <2>2, <2>3, BoxLeft
  <2>5. Base' = Base + (st[i + 1] - st[i])
    BY <1>5, <2>4 DEF sz
  <2>6. layout[i] # "moov" /\ layout[i] # "ftyp"
    BY <1>4, <1>5
  <2>7. i + 1 \in 1..Len(layout) /\ Stands(st, i + 1)'
    BY <1>1, <1>2, <1>3, <2>1, <2>5, <2>6, Advances
  <2>8. i + 1 \in 1..Len(layout')
    BY <1>2, <2>7
  <2> QED BY <1>2, <1>3, <2>1, <2>4, <2>7, <2>8 DEF After, ReadsBoxes
<1> QED BY <1>6, <1>7

(* A ftyp or free box is taken off the buffer.                             *)
LEMMA BoxesTake ==
  ASSUME NEW st, ReadsBoxes(st), UNCHANGED encoder, TakeBox
  PROVE  After(st)'
<1>1. PICK i \in 1..Len(layout) : Stands(st, i)
  BY DEF ReadsBoxes
<1>2. IsBoxes(st)' /\ file' = file /\ enc' = enc /\ layout' = layout
  BY BoxesKept DEF ReadsBoxes
<1>3. /\ layout \in Layouts \cup {Own} /\ IsSeq(file) /\ Boxed(file, layout, st) /\ Reading
      /\ dec = "loading" /\ Len(stream) \in Nat
  BY DEF ReadsBoxes, IsBoxes, Reading, IsSeq
<1>4. box.box \in {"ftyp", "free"} /\ box # NoBox
  BY DEF TakeBox, NoBox
<1>5. box.box = layout[i] /\ box.sz = st[i + 1] - st[i] /\ box.sz \in Nat
  BY <1>1, <1>3, <1>4, BoxIs
<1> DEFINE sz == box.sz
<1>6. /\ sz <= Len(stream) /\ stream' = SubSeq(stream, sz + 1, Len(stream)) /\ pos' = pos
      /\ box' = NoBox /\ dec' = dec /\ ftyp' = (ftyp \/ box.box = "ftyp")
  <2>1. Len(stream) >= box.sz
    BY DEF TakeBox
  <2>2. sz <= Len(stream)
    BY <1>3, <1>5, <2>1
  <2> QED BY <2>2 DEF TakeBox
<1>7. sz \in Nat
  BY <1>5
<1> HIDE DEF sz
<1>8. Reading' /\ Base' = Base + sz
  BY <1>2, <1>3, <1>6, <1>7, BoxLeft
<1>9. Base' = Base + (st[i + 1] - st[i])
  BY <1>5, <1>8 DEF sz
<1>10. layout[i] # "moov"
  BY <1>4, <1>5
<1>11. (layout[i] = "ftyp" => ftyp') /\ (ftyp => ftyp')
  BY <1>5, <1>6
<1>12. i + 1 \in 1..Len(layout) /\ Stands(st, i + 1)'
  BY <1>1, <1>2, <1>3, <1>9, <1>10, <1>11, Advances
<1>13. i + 1 \in 1..Len(layout')
  BY <1>2, <1>12
<1> QED BY <1>2, <1>3, <1>6, <1>8, <1>12, <1>13 DEF After, ReadsBoxes

(* The moov box is parsed: behind a ftyp box and legal, so it is not       *)
(* refused; in the layout of the encoder it is the end of the file.        *)
LEMMA BoxesParse ==
  ASSUME NEW st, ReadsBoxes(st), UNCHANGED encoder, ParseMoov
  PROVE  After(st)'
<1>1. PICK i \in 1..Len(layout) : Stands(st, i)
  BY DEF ReadsBoxes
<1>2. file' = file /\ enc' = enc /\ layout' = layout
  BY DEF encoder
<1>3. /\ layout \in Layouts \cup {Own} /\ IsSeq(file) /\ Boxed(file, layout, st) /\ Reading
      /\ dec = "loading" /\ (Ends(st) => enc = "done")
  BY DEF ReadsBoxes, IsBoxes
<1>4. box.box = "moov" /\ box # NoBox /\ Len(stream) >= box.sz
  BY DEF ParseMoov, NoBox
<1>5. /\ box.box = layout[i] /\ box.sz = st[i + 1] - st[i] /\ box.sz \in Nat /\ box.sz >= 2
      /\ layout[i] = "moov" => Legal(box.tables)
  BY <1>1, <1>3, <1>4, BoxIs
<1>6. Legal(box.tables)
  BY <1>4, <1>5
<1>7. ftyp
  <2>1. PICK j \in 1..(i - 1) : layout[j] = "ftyp"
    BY <1>3, <1>4, <1>5, LayoutIs
  <2> QED BY <1>1, <2>1 DEF Stands
<1>8. dec' = "loaded"
  BY <1>6, <1>7 DEF ParseMoov, Legal
<1>9. ASSUME layout = Own PROVE Ends(st)
  <2>1. Len(Own) = 3 /\ Own[1] = "ftyp" /\ Own[2] = "mdat" /\ Own[3] = "moov"
    BY DEF Own
  <2>2. i = 3 /\ Len(layout) + 1 = i + 1
    <3>1. i \in 1..3 /\ Own[i] = "moov"
      BY <1>4, <1>5, <1>9, <2>1
    <3> QED BY <1>9, <2>1, <3>1
  <2>3. /\ st[i] \in Nat /\ st[i + 1] \in Nat /\ Base = st[i] /\ pos = Base + Len(stream)
        /\ Len(stream) \in Nat /\ Len(file) \in Nat /\ pos \in Nat /\ Len(file) <= st[i + 1]
    BY <1>1, <1>3, <2>2, BoxThere
  <2>4. pos <= Len(file)
    <3>1. stream # <<>>
      BY <1>4, <1>5, <2>3
    <3> QED BY <1>3, <3>1 DEF Reading
  <2>5. Len(file) = st[i + 1]
    <3> DEFINE a == st[i]
               b == st[i + 1]
               n == Len(stream)
               m == Len(file)
    <3>1. a \in Nat /\ b \in Nat /\ n \in Nat /\ m \in Nat /\ pos = a + n /\ n >= b - a /\ pos <= m /\ m <= b
      BY <1>4, <1>5, <2>3, <2>4
    <3> HIDE DEF a, b, n, m
    <3>2. m = b
      BY <3>1
    <3> QED BY <3>2 DEF m, b
  <2> QED BY <2>2, <2>5 DEF Ends
<1> QED BY <1>2, <1>3, <1>8, <1>9 DEF After

-----------------------------------------------------------------------------
(* Nothing is said of the values of the tables of another muxer.           *)
LEMMA NothingSaid == IsVals(Unsaid) /\ DOMAIN Unsaid = {}
BY DEF IsVals, Unsaid

(* The tables of another muxer fit each other, too: runs of what there is. *)
LEMMA RunOnFor ==
  ASSUME NEW n \in Nat, NEW entries \in RunsFor(n, Unsaid), NEW v \in Int
  PROVE  RunOn(entries, v) \in RunsFor(n + 1, Unsaid)
<1> DEFINE L == Len(entries)
<1>1. entries \in Seq(Run) /\ L \in Nat
  BY DEF RunsFor
<1> DEFINE longer == [count |-> entries[L].count + 1, value |-> v]
           one == [count |-> 1, value |-> v]
           a == [entries EXCEPT ![L] = longer]
           b == Append(entries, one)
<1>2. RunOn(entries, v) = b \/ (L # 0 /\ RunOn(entries, v) = a)
  BY DEF RunOn
<1>3. b \in RunsFor(n + 1, Unsaid)
  BY NothingSaid, RunAppended
<1>4. ASSUME L # 0 PROVE a \in RunsFor(n + 1, Unsaid)
  <2>1. entries[L] \in Run
    BY <1>1, <1>4
  <2>2. longer \in Run /\ longer.count = entries[L].count + 1
    BY <2>1 DEF Run
  <2> HIDE DEF longer
  <2> QED BY <1>4, <2>2, NothingSaid, RunLonger
<1> HIDE DEF a, b
<1> QED BY <1>2, <1>3, <1>4

(* No run is a table for no value.                                         *)
LEMMA NoRuns == <<>> \in RunsFor(0, Unsaid)
<1> DEFINE u == [j \in 0..0 |-> 0]
           e == <<>>
<1>1. e \in Seq(Run) /\ Len(e) = 0
  OBVIOUS
<1> HIDE DEF e
<1>2. Marks(e, 0, u)
  BY <1>1 DEF Marks
<1>3. Says(e, u, Unsaid)
  BY NothingSaid DEF Says
<1>4. e \in RunsFor(0, Unsaid)
  BY <1>1, <1>2, <1>3 DEF RunsFor
<1> QED BY <1>4 DEF e

(* The runs of n values are a table for n values.                          *)
LEMMA RunsFit ==
  ASSUME NEW d, Len(d) \in Nat, \A i \in 1..Len(d) : d[i] \in Int
  PROVE  Runs(d) \in RunsFor(Len(d), Unsaid)
<1> DEFINE n == Len(d)
           step == [p \in Seq(Run) \X Int |-> RunOn(p[1], p[2])]
           P == [i \in Nat |-> RunsFor(i, Unsaid)]
<1>1. \A i \in 1..Len(d) : \A x \in P[i - 1] : step[<<x, d[i]>>] \in P[i]
  <2> SUFFICES ASSUME NEW i \in 1..Len(d), NEW x \in P[i - 1] PROVE step[<<x, d[i]>>] \in P[i]
    OBVIOUS
  <2>1. i \in Nat /\ i - 1 \in Nat /\ (i - 1) + 1 = i /\ d[i] \in Int
    OBVIOUS
  <2>2. x \in RunsFor(i - 1, Unsaid)
    BY <2>1
  <2>3. x \in Seq(Run)
    BY <2>2 DEF RunsFor
  <2>4. step[<<x, d[i]>>] = RunOn(x, d[i])
    BY <2>1, <2>3
  <2>5. RunOn(x, d[i]) \in RunsFor((i - 1) + 1, Unsaid)
    BY <2>1, <2>2, RunOnFor
  <2> HIDE DEF step
  <2> QED BY <2>1, <2>4, <2>5
<1>2. P[Len(d)] = RunsFor(n, Unsaid) /\ <<>> \in P[0]
  BY NoRuns
<1> HIDE DEF step, P
<1>3. Accumulated(step, <<>>, d) \in P[Len(d)]
  BY <1>1, <1>2, Accumulates
<1>4. Runs(d) = Accumulated(step, <<>>, d)
  BY DEF Runs, step
<1> QED BY <1>2, <1>3, <1>4

(* The entries of stsc are for k chunks when going through them finds how  *)
(* many samples each has: w[c] is the entry of chunk c.                    *)
Entry == [first : Nat, samples : Nat]
NextEntry(e, at, c) == IF at < Len(e) /\ c >= e[at + 1].first THEN at + 1 ELSE at
EntriesAt(e, counts, k, w) ==
    /\ w \in [1..k -> 1..Len(e)]
    /\ k # 0 => w[1] = 1 /\ w[k] = Len(e)
    /\ \A c \in 1..k : e[w[c]].samples = counts[c]
    /\ \A c \in 2..k : w[c] = NextEntry(e, w[c - 1], c)
    /\ \A j \in 1..Len(e) : e[j].first <= k /\ (j # 1 => e[j].first > 1)
    /\ k = 0 => e = <<>>
EntriesFor(counts, k) == {e \in Seq(Entry) : \E w : EntriesAt(e, counts, k, w)}

(* An entry is made, or not, for one chunk more.                           *)
LEMMA EntryOnFor ==
  ASSUME NEW counts \in Seq(Nat), NEW k \in 1..Len(counts), NEW e \in EntriesFor(counts, k - 1)
  PROVE  EntryOn(e, counts, k) \in EntriesFor(counts, k)
<1> DEFINE L == Len(e)
<1>1. e \in Seq(Entry) /\ L \in Nat /\ k \in Nat /\ k - 1 \in Nat /\ k # 0 /\ counts[k] \in Nat
  BY DEF EntriesFor
<1>2. PICK w : EntriesAt(e, counts, k - 1, w)
  BY DEF EntriesFor
<1>3. /\ w \in [1..(k - 1) -> 1..L]
      /\ k - 1 # 0 => w[1] = 1 /\ w[k - 1] = L
      /\ \A c \in 1..(k - 1) : e[w[c]].samples = counts[c]
      /\ \A c \in 2..(k - 1) : w[c] = NextEntry(e, w[c - 1], c)
      /\ \A j \in 1..L : e[j].first <= k - 1 /\ (j # 1 => e[j].first > 1)
      /\ k - 1 = 0 => e = <<>>
  BY <1>2 DEF EntriesAt
<1>4. \A j \in 1..L : e[j].first \in Nat
  <2>1. \A j \in 1..L : e[j] \in Entry
    BY <1>1
  <2> QED BY <2>1 DEF Entry
<1>5. CASE k > 1 /\ counts[k] = counts[k - 1]
  <2>1. EntryOn(e, counts, k) = e
    BY <1>5 DEF EntryOn
  <2> DEFINE v == [c \in 1..k |-> IF c = k THEN L ELSE w[c]]
  <2>2. k - 1 # 0 /\ w[k - 1] = L /\ k - 1 \in 1..(k - 1) /\ L \in 1..L /\ w[1] = 1
    BY <1>1, <1>3, <1>5
  <2>3. v \in [1..k -> 1..L] /\ v[1] = 1 /\ v[k] = L
        /\ \A c \in 1..(k - 1) : v[c] = w[c]
    BY <1>1, <1>3, <1>5, <2>2
  <2> HIDE DEF v
  <2>4. ASSUME NEW c \in 1..k PROVE e[v[c]].samples = counts[c]
    <3>1. CASE c = k
      BY <1>3, <1>5, <2>2, <2>3, <3>1
    <3>2. CASE c # k
      <4>1. c \in 1..(k - 1)
        BY <1>1, <3>2
      <4> QED BY <1>3, <2>3, <4>1
    <3> QED BY <3>1, <3>2
  <2>5. ASSUME NEW c \in 2..k PROVE v[c] = NextEntry(e, v[c - 1], c)
    <3>1. CASE c = k
      <4>1. v[c] = L /\ v[c - 1] = L
        BY <2>2, <2>3, <3>1
      <4> QED BY <1>1, <4>1 DEF NextEntry
    <3>2. CASE c # k
      <4>1. c \in 2..(k - 1) /\ c \in 1..(k - 1) /\ c - 1 \in 1..(k - 1)
        BY <1>1, <3>2
      <4> QED BY <1>3, <2>3, <4>1
    <3> QED BY <3>1, <3>2
  <2>6. \A j \in 1..L : e[j].first <= k /\ (j # 1 => e[j].first > 1)
    BY <1>1, <1>3, <1>4
  <2>7. EntriesAt(e, counts, k, v)
    BY <1>1, <2>3, <2>4, <2>5, <2>6 DEF EntriesAt
  <2> QED BY <1>1, <2>1, <2>7 DEF EntriesFor
<1>6. CASE ~(k > 1 /\ counts[k] = counts[k - 1])
  <2> DEFINE r == [first |-> k, samples |-> counts[k]]
             f == Append(e, r)
  <2>1. EntryOn(e, counts, k) = f
    BY <1>6 DEF EntryOn
  <2>2. r \in Entry /\ r.first = k /\ r.samples = counts[k]
    BY <1>1 DEF Entry
  <2> HIDE DEF r
  <2>3. f \in Seq(Entry) /\ Len(f) = L + 1 /\ f[L + 1] = r /\ \A j \in 1..L : f[j] = e[j]
    BY <1>1, <2>2
  <2> HIDE DEF f
  <2> DEFINE v == [c \in 1..k |-> IF c = k THEN L + 1 ELSE w[c]]
  <2>4. v \in [1..k -> 1..(L + 1)]
    BY <1>1, <1>3
  <2>5. v[k] = L + 1 /\ \A c \in 1..(k - 1) : v[c] = w[c]
    BY <1>1
  <2> HIDE DEF v
  <2>6. v[1] = 1
    <3>1. CASE k = 1
      <4>1. L = 0
        BY <1>3, <3>1
      <4> QED BY <2>5, <3>1, <4>1
    <3>2. CASE k # 1
      <4>1. 1 \in 1..(k - 1) /\ k - 1 # 0
        BY <1>1, <3>2
      <4> QED BY <1>3, <2>5, <4>1
    <3> QED BY <3>1, <3>2
  <2>7. ASSUME NEW c \in 1..k PROVE f[v[c]].samples = counts[c]
    <3>1. CASE c = k
      BY <2>2, <2>3, <2>5, <3>1
    <3>2. CASE c # k
      <4>a. c \in 1..(k - 1)
        BY <1>1, <3>2
      <4>b. w \in [1..(k - 1) -> 1..L]
        BY Zenon, <1>3
      <4>1. c \in 1..(k - 1) /\ w[c] \in 1..L
        BY Zenon, <4>a, <4>b
      <4> QED BY <1>3, <2>3, <2>5, <4>1
    <3> QED BY <3>1, <3>2
  <2>8. ASSUME NEW c \in 2..k PROVE v[c] = NextEntry(f, v[c - 1], c)
    <3>1. CASE c = k
      <4>1. k - 1 # 0 /\ k - 1 \in 1..(k - 1)
        BY <1>1, <3>1
      <4>2. v[c] = L + 1 /\ v[c - 1] = L
        BY <1>3, <2>5, <3>1, <4>1
      <4>3. L < L + 1 /\ f[L + 1].first = k
        BY <1>1, <2>2, <2>3
      <4> QED BY <1>1, <2>3, <3>1, <4>2, <4>3 DEF NextEntry
    <3>2. CASE c # k
      <4>1. c \in 2..(k - 1) /\ c \in 1..(k - 1) /\ c - 1 \in 1..(k - 1) /\ c < k
        BY <1>1, <3>2
      <4>2. v[c] = w[c] /\ v[c - 1] = w[c - 1] /\ w[c] = NextEntry(e, w[c - 1], c) /\ w[c - 1] \in 1..L
        BY <1>3, <2>5, <4>1
      <4>3. CASE w[c - 1] < L
        <5> DEFINE a == w[c - 1]
        <5>0. a \in 1..L /\ a < L
          BY <4>2, <4>3
        <5> HIDE DEF a
        <5>1. a \in 1..L /\ a + 1 \in 1..L /\ a < Len(f)
          BY <1>1, <2>3, <5>0
        <5>2. f[a + 1] = e[a + 1] /\ a < L
          BY <2>3, <5>0, <5>1
        <5>3. NextEntry(f, a, c) = NextEntry(e, a, c)
          BY <5>1, <5>2 DEF NextEntry
        <5> QED BY <4>2, <5>3 DEF a
      <4>4. CASE w[c - 1] = L
        <5>1. w[c] = L
          BY <1>1, <4>2, <4>4 DEF NextEntry
        <5>2. f[L + 1].first = k /\ ~(c >= k)
          BY <1>1, <2>2, <2>3, <4>1
        <5>3. NextEntry(f, L, c) = L
          BY <5>2 DEF NextEntry
        <5> QED BY <4>2, <4>4, <5>1, <5>3
      <4> QED BY <1>1, <4>2, <4>3, <4>4
    <3> QED BY <3>1, <3>2
  <2>9. ASSUME NEW j \in 1..Len(f) PROVE f[j].first <= k /\ (j # 1 => f[j].first > 1)
    <3>1. CASE j \in 1..L
      <4>1. f[j] = e[j] /\ e[j].first \in Nat /\ e[j].first <= k - 1
        BY <1>3, <1>4, <2>3, <3>1
      <4> QED BY <1>1, <1>3, <3>1, <4>1
    <3>2. CASE j = L + 1
      <4>1. f[j].first = k
        BY <2>2, <2>3, <3>2
      <4>2. j # 1 => k > 1
        <5>1. k = 1 => L = 0
          BY <1>3
        <5> QED BY <1>1, <3>2, <5>1
      <4> QED BY <1>1, <4>1, <4>2
    <3> QED BY <1>1, <2>3, <3>1, <3>2
  <2>10. EntriesAt(f, counts, k, v)
    BY <1>1, <2>3, <2>4, <2>5, <2>6, <2>7, <2>8, <2>9 DEF EntriesAt
  <2> QED BY <2>1, <2>3, <2>10 DEF EntriesFor
<1> QED BY <1>5, <1>6

(* The entries that are made of the counts are for all of the chunks.      *)
LEMMA StscFor ==
  ASSUME NEW counts \in Seq(Nat)
  PROVE  Stsc(counts) \in EntriesFor(counts, Len(counts))
<1> DEFINE n == Len(counts)
           s == [c \in DOMAIN counts |-> c]
           step == [p \in Seq(Entry) \X Nat |-> EntryOn(p[1], counts, p[2])]
           P == [i \in Nat |-> EntriesFor(counts, i)]
<1>1. Len(s) = n /\ n \in Nat
  OBVIOUS
<1>2. \A i \in 1..Len(s) : \A x \in P[i - 1] : step[<<x, s[i]>>] \in P[i]
  <2> SUFFICES ASSUME NEW i \in 1..Len(s), NEW x \in P[i - 1] PROVE step[<<x, s[i]>>] \in P[i]
    OBVIOUS
  <2>1. i \in Nat /\ i - 1 \in Nat /\ i \in 1..n /\ s[i] = i
    BY <1>1
  <2>2. x \in EntriesFor(counts, i - 1)
    BY <2>1
  <2>3. x \in Seq(Entry)
    BY <2>2 DEF EntriesFor
  <2>4. step[<<x, s[i]>>] = EntryOn(x, counts, i)
    BY <2>1, <2>3
  <2>5. EntryOn(x, counts, i) \in EntriesFor(counts, i)
    BY <2>1, <2>2, EntryOnFor
  <2> HIDE DEF step
  <2> QED BY <2>1, <2>4, <2>5
<1>3. <<>> \in P[0]
  <2> DEFINE w == [c \in 1..0 |-> 1]
             e == <<>>
  <2>1. e \in Seq(Entry) /\ Len(e) = 0
    OBVIOUS
  <2>2. w \in [1..0 -> 1..0]
    OBVIOUS
  <2> HIDE DEF w
  <2>3. EntriesAt(e, counts, 0, w)
    <3>1. \A c \in 1..0 : FALSE
      OBVIOUS
    <3>2. \A c \in 2..0 : FALSE
      OBVIOUS
    <3> QED BY <2>1, <2>2, <3>1, <3>2 DEF EntriesAt
  <2>4. e \in EntriesFor(counts, 0)
    <3> HIDE DEF e
    <3> QED BY <2>1, <2>3 DEF EntriesFor
  <2> QED BY <2>4
<1>4. P[Len(s)] = EntriesFor(counts, n)
  BY <1>1
<1> HIDE DEF step, P, s, n
<1>5. Accumulated(step, <<>>, s) \in P[Len(s)]
  BY <1>1, <1>2, <1>3, Accumulates
<1>6. Stsc(counts) = Accumulated(step, <<>>, s)
  BY DEF Stsc, step, s, Entry
<1> QED BY <1>4, <1>5, <1>6 DEF n

(* Going through them gives back how many samples each chunk has.          *)
LEMMA CountsBack ==
  ASSUME NEW counts \in Seq(Nat), NEW e \in EntriesFor(counts, Len(counts))
  PROVE  SamplesPerChunk(e, Len(counts)) = counts
<1> DEFINE n == Len(counts)
           s == [ci \in 1..n |-> ci]
           upto(k) == [i \in 1..k |-> counts[i]]
           step == [p \in ChunkCounter \X Nat |-> OnChunk(p[1], p[2])]
<1>1. n \in Nat /\ Len(s) = n /\ e \in Seq(Entry) /\ Len(e) \in Nat
  BY DEF EntriesFor
<1>2. PICK w : EntriesAt(e, counts, n, w)
  BY DEF EntriesFor
<1> DEFINE at(k) == IF k = 0 THEN 1 ELSE w[k]
           c(k) == [entries |-> e, at |-> at(k), counts |-> upto(k)]
           P == [k \in Nat |-> {c(k)}]
<1>3. /\ w \in [1..n -> 1..Len(e)]
      /\ n # 0 => w[1] = 1
      /\ \A k \in 1..n : e[w[k]].samples = counts[k]
      /\ \A k \in 2..n : w[k] = NextEntry(e, w[k - 1], k)
      /\ \A j \in 1..Len(e) : j # 1 => e[j].first > 1
  BY <1>2 DEF EntriesAt
<1>4. \A k \in 0..n : upto(k) \in Seq(Nat)
  OBVIOUS
<1>5. \A k \in 1..n : Append(upto(k - 1), counts[k]) = upto(k)
  <2> SUFFICES ASSUME NEW k \in 1..n PROVE Append(upto(k - 1), counts[k]) = upto(k)
    OBVIOUS
  <2>1. upto(k - 1) \in Seq(Nat) /\ Len(upto(k - 1)) = k - 1 /\ \A i \in 1..(k - 1) : upto(k - 1)[i] = counts[i]
    OBVIOUS
  <2>2. Len(Append(upto(k - 1), counts[k])) = k
    BY <2>1
  <2> QED BY <2>1, <2>2
<1>6. upto(0) = <<>> /\ upto(n) = counts
  OBVIOUS
<1> HIDE DEF upto
<1>7. ASSUME NEW k \in 1..n PROVE at(k) = NextEntry(e, at(k - 1), k) /\ at(k) \in 1..Len(e) /\ at(k - 1) \in Nat
  <2>1. CASE k = 1
    <3>1. at(k) = 1 /\ at(k - 1) = 1 /\ 1 \in 1..Len(e)
      <4>1. n # 0 /\ 1 \in 1..n
        BY <1>1
      <4>2. w[1] = 1 /\ w[1] \in 1..Len(e)
        BY <1>3, <4>1
      <4> QED BY <2>1, <4>2
    <3>2. ~(1 < Len(e) /\ k >= e[1 + 1].first)
      <4> SUFFICES ASSUME 1 < Len(e), k >= e[1 + 1].first PROVE FALSE
        OBVIOUS
      <4>1. 2 \in 1..Len(e) /\ 1 + 1 = 2
        BY <1>1
      <4>2. e[2].first > 1 /\ e[2] \in Entry
        BY <1>1, <1>3, <4>1
      <4>3. e[2].first \in Nat
        BY <4>2 DEF Entry
      <4> QED BY <2>1, <4>1, <4>2, <4>3
    <3>3. NextEntry(e, 1, k) = 1
      BY <3>2 DEF NextEntry
    <3> QED BY <3>1, <3>3
  <2>2. CASE k # 1
    <3>1. k \in 2..n /\ k - 1 \in 1..n /\ k # 0 /\ k - 1 # 0
      BY <1>1, <2>2
    <3>2. w[k] = NextEntry(e, w[k - 1], k) /\ w[k] \in 1..Len(e) /\ w[k - 1] \in 1..Len(e)
      BY <1>3, <3>1
    <3> QED BY <3>1, <3>2
  <2> QED BY <2>1, <2>2
<1>8. \A k \in 0..n : at(k) \in Nat
  <2> SUFFICES ASSUME NEW k \in 0..n PROVE at(k) \in Nat
    OBVIOUS
  <2>1. CASE k = 0
    BY <2>1
  <2>2. CASE k # 0
    <3>1. w[k] \in 1..Len(e)
      BY <1>1, <1>3, <2>2
    <3> QED BY <2>2, <3>1
  <2> QED BY <2>1, <2>2
<1>9. \A k \in 1..n : e[at(k)].samples = counts[k]
  BY <1>3
<1>10. at(0) = 1
  OBVIOUS
<1> HIDE DEF at
<1>11. \A k \in 0..n : c(k) \in ChunkCounter
  BY <1>1, <1>4, <1>8 DEF ChunkCounter, Entry
<1>12. \A i \in 1..Len(s) : \A x \in P[i - 1] : step[<<x, s[i]>>] \in P[i]
  <2> SUFFICES ASSUME NEW i \in 1..Len(s), NEW x \in P[i - 1] PROVE step[<<x, s[i]>>] \in P[i]
    OBVIOUS
  <2>1. i \in 1..n /\ i \in Nat /\ i - 1 \in Nat /\ s[i] = i /\ i - 1 \in 0..n
    BY <1>1
  <2>2. x = c(i - 1) /\ x \in ChunkCounter
    BY <1>11, <2>1
  <2>3. step[<<x, s[i]>>] = OnChunk(x, i)
    BY <2>1, <2>2
  <2>4. x.entries = e /\ x.at = at(i - 1) /\ x.counts = upto(i - 1)
    BY <2>2
  <2>5. at(i) = NextEntry(e, at(i - 1), i) /\ e[at(i)].samples = counts[i]
    BY <1>7, <1>9, <2>1
  <2>6. OnChunk(x, i) = [entries |-> e, at |-> at(i), counts |-> Append(upto(i - 1), e[at(i)].samples)]
    <3>1. NextEntry(x.entries, x.at, i) = at(i)
      BY <2>4, <2>5
    <3>2. OnChunk(x, i) = [entries |-> x.entries, at |-> NextEntry(x.entries, x.at, i),
                           counts |-> Append(x.counts, x.entries[NextEntry(x.entries, x.at, i)].samples)]
      BY DEF OnChunk, NextEntry
    <3> QED BY <2>4, <3>1, <3>2
  <2>7. OnChunk(x, i) = c(i)
    BY <1>5, <2>1, <2>5, <2>6
  <2> HIDE DEF step, c
  <2> QED BY <2>1, <2>3, <2>7
<1>13. c(0) \in P[0] /\ P[n] = {c(n)}
  BY <1>1
<1>14. c(n).counts = counts /\ c(0) = [entries |-> e, at |-> 1, counts |-> <<>>]
  BY <1>6, <1>10
<1> HIDE DEF step, P, s, c
<1>15. Accumulated(step, c(0), s) \in P[n]
  BY <1>1, <1>12, <1>13, Accumulates
<1>16. SamplesPerChunk(e, n) = Accumulated(step, c(0), s).counts
  BY <1>14 DEF SamplesPerChunk, step, s
<1> QED BY <1>13, <1>14, <1>15, <1>16

(* What is in front of a place in a sequence.                              *)
LEMMA FrontPart ==
  ASSUME NEW S, NEW s \in Seq(S), NEW m \in 0..Len(s)
  PROVE  SubSeq(s, 1, m) \in Seq(S) /\ Len(SubSeq(s, 1, m)) = m /\ \A i \in 1..m : SubSeq(s, 1, m)[i] = s[i]
OBVIOUS

Ns(chunks) == [c \in DOMAIN chunks |-> chunks[c].n]

(* The counts of chunks.                                                   *)
LEMMA NsType ==
  ASSUME NEW cs \in Seq(Chunk)
  PROVE  Ns(cs) \in Seq(Nat) /\ Len(Ns(cs)) = Len(cs)
<1>1. \A c \in 1..Len(cs) : cs[c] \in Chunk
  OBVIOUS
<1>2. \A c \in 1..Len(cs) : cs[c].n \in Nat
  BY <1>1 DEF Chunk
<1> QED BY <1>2 DEF Ns

(* One chunk more has its samples more.                                    *)
LEMMA NsSum ==
  ASSUME NEW cs \in Seq(Chunk), NEW x \in Chunk
  PROVE  Sum(Ns(Append(cs, x))) = Sum(Ns(cs)) + x.n /\ Sum(Ns(cs)) \in Nat
<1> DEFINE more == Append(cs, x)
<1>1. /\ more \in Seq(Chunk) /\ Len(more) = Len(cs) + 1 /\ more[Len(cs) + 1] = x /\ Len(cs) \in Nat
      /\ \A c \in 1..Len(cs) : more[c] = cs[c]
  OBVIOUS
<1> HIDE DEF more
<1>2. x.n \in Nat
  BY DEF Chunk
<1>3. Ns(cs) \in Seq(Nat) /\ Len(Ns(cs)) = Len(cs)
  BY NsType
<1>4. Ns(more) = Append(Ns(cs), x.n)
  <2>1. Ns(more) = [c \in 1..(Len(cs) + 1) |-> more[c].n]
    BY <1>1 DEF Ns
  <2>2. Append(Ns(cs), x.n) = [c \in 1..(Len(cs) + 1) |-> IF c = Len(cs) + 1 THEN x.n ELSE Ns(cs)[c]]
    BY <1>2, <1>3
  <2>3. \A c \in 1..(Len(cs) + 1) : more[c].n = IF c = Len(cs) + 1 THEN x.n ELSE Ns(cs)[c]
    BY <1>1 DEF Ns
  <2> QED BY <2>1, <2>2, <2>3
<1>5. Sum(Append(Ns(cs), x.n)) = Sum(Ns(cs)) + x.n /\ Sum(Ns(cs)) \in Nat
  BY <1>2, <1>3, SumAppend, SumType
<1> QED BY <1>4, <1>5 DEF more

(* One more sample makes the last chunk longer or begins another one.      *)
ChunksOf(type) == {c \in Chunk : c.type = type}
SamplesOf(type) == {s \in Sample : s.type = type}
Total(cs, type) == Sum(Ns(Among(cs, ChunksOf(type))))

(* One chunk more counts for its track only.                               *)
LEMMA TotalAppend ==
  ASSUME NEW cs \in Seq(Chunk), NEW x \in Chunk, NEW type
  PROVE  /\ Total(cs, type) \in Nat
         /\ Total(Append(cs, x), type) = IF x.type = type THEN Total(cs, type) + x.n ELSE Total(cs, type)
<1> DEFINE T == ChunksOf(type)
           a == Among(cs, T)
<1>1. Among(Append(cs, x), T) = IF x \in T THEN Append(a, x) ELSE a
  BY AmongAppend
<1>2. x \in T <=> x.type = type
  BY DEF ChunksOf
<1>3. a \in Seq(Chunk)
  <2>1. a \in Seq(Chunk \cap T)
    BY AmongType
  <2>2. Chunk \cap T \subseteq Chunk
    OBVIOUS
  <2> HIDE DEF a, T
  <2> QED BY <2>1, <2>2
<1> HIDE DEF a, T
<1>4. Sum(Ns(Append(a, x))) = Sum(Ns(a)) + x.n /\ Sum(Ns(a)) \in Nat
  BY <1>3, NsSum
<1> QED BY <1>1, <1>2, <1>4 DEF Total, a, T

(* A sample counts for its track, in the last chunk or in a chunk of its   *)
(* own.                                                                    *)
LEMMA ChunkOnTotal ==
  ASSUME NEW cs \in Seq(Chunk), NEW s \in Sample, NEW type
  PROVE  /\ ChunkOn(cs, s) \in Seq(Chunk)
         /\ Total(ChunkOn(cs, s), type) = IF s.type = type THEN Total(cs, type) + 1 ELSE Total(cs, type)
<1> DEFINE L == Len(cs)
           one == [type |-> s.type, n |-> 1, offset |-> s.offset]
<1>1. s.type \in {Video, Audio} /\ s.offset \in Nat /\ L \in Nat
  BY DEF Sample
<1>2. CASE L # 0 /\ cs[L].type = s.type
  <2> DEFINE longer == [type |-> s.type, n |-> cs[L].n + 1, offset |-> cs[L].offset]
             front == SubSeq(cs, 1, L - 1)
             last == cs[L]
  <2>1. ChunkOn(cs, s) = [cs EXCEPT ![L] = longer]
    BY <1>2 DEF ChunkOn
  <2>2. last \in Chunk /\ L \in 1..L
    BY <1>1, <1>2
  <2>3. longer \in Chunk /\ longer.type = s.type /\ longer.n = last.n + 1 /\ last.n \in Nat
    BY <1>1, <2>2 DEF Chunk
  <2>4. front \in Seq(Chunk) /\ Len(front) = L - 1 /\ \A c \in 1..(L - 1) : front[c] = cs[c]
    <3>1. L - 1 \in 0..Len(cs)
      BY <1>1, <1>2
    <3> QED BY <3>1, FrontPart
  <2> HIDE DEF longer, front
  <2>5. cs = Append(front, last)
    BY <1>1, <1>2, <2>2, <2>4
  <2>6. [cs EXCEPT ![L] = longer] = Append(front, longer)
    <3> DEFINE a == [cs EXCEPT ![L] = longer]
               b == Append(front, longer)
    <3>1. a \in Seq(Chunk) /\ Len(a) = L /\ a[L] = longer /\ \A c \in 1..(L - 1) : a[c] = cs[c]
      BY <1>1, <1>2, <2>2, <2>3
    <3>2. b \in Seq(Chunk) /\ Len(b) = (L - 1) + 1 /\ b[(L - 1) + 1] = longer
          /\ \A c \in 1..(L - 1) : b[c] = front[c]
      BY <2>3, <2>4
    <3> HIDE DEF a, b
    <3>3. ASSUME NEW c \in 1..L PROVE a[c] = b[c]
      <4>1. CASE c = L
        <5>1. (L - 1) + 1 = L
          BY <1>1
        <5> QED BY <3>1, <3>2, <4>1, <5>1
      <4>2. CASE c # L
        <5>1. c \in 1..(L - 1)
          BY <1>1, <4>2
        <5>2. a[c] = cs[c] /\ b[c] = front[c] /\ front[c] = cs[c]
          BY <2>4, <3>1, <3>2, <5>1
        <5> QED BY <5>2
      <4> QED BY <4>1, <4>2
    <3>4. a = b
      BY <1>1, <3>1, <3>2, <3>3
    <3> QED BY <3>4 DEF a, b
  <2>7. /\ Total(front, type) \in Nat
        /\ Total(Append(front, last), type) = IF last.type = type THEN Total(front, type) + last.n ELSE Total(front, type)
        /\ Total(Append(front, longer), type) = IF longer.type = type THEN Total(front, type) + longer.n ELSE Total(front, type)
    BY <2>2, <2>3, <2>4, TotalAppend
  <2>8. Append(front, longer) \in Seq(Chunk)
    BY <2>3, <2>4
  <2>9. last.type = s.type
    BY <1>2
  <2> HIDE DEF last, L
  <2>10. Total(Append(front, longer), type)
           = IF s.type = type THEN Total(Append(front, last), type) + 1 ELSE Total(Append(front, last), type)
    BY <2>3, <2>7, <2>9
  <2> QED BY <2>1, <2>5, <2>6, <2>8, <2>10
<1>3. CASE ~(L # 0 /\ cs[L].type = s.type)
  <2>1. ChunkOn(cs, s) = Append(cs, one)
    BY <1>3 DEF ChunkOn
  <2>2. one \in Chunk /\ one.n = 1 /\ one.type = s.type
    BY <1>1 DEF Chunk
  <2> HIDE DEF one
  <2>3. Total(Append(cs, one), type) = IF one.type = type THEN Total(cs, type) + one.n ELSE Total(cs, type)
    BY <2>2, TotalAppend
  <2> QED BY <2>1, <2>2, <2>3
<1> QED BY <1>2, <1>3

(* All of the samples of a track are in its chunks.                        *)
LEMMA ChunksTotal ==
  ASSUME NEW list \in Seq(Sample), NEW type
  PROVE  /\ Chunks(list) \in Seq(Chunk)
         /\ Total(Chunks(list), type) = Len(Among(list, SamplesOf(type)))
<1> DEFINE T == SamplesOf(type)
           step == [p \in Seq(Chunk) \X Sample |-> ChunkOn(p[1], p[2])]
           P == {q \in Seq(Sample) : Chunks(q) \in Seq(Chunk) /\ Total(Chunks(q), type) = Len(Among(q, T))}
<1>1. <<>> \in P
  <2> DEFINE e == <<>>
  <2>1. e \in Seq(Sample) /\ e \in Seq(Chunk) /\ Len(e) = 0
    OBVIOUS
  <2>2. Chunks(e) = e
    BY <2>1, AccumulatedEmpty DEF Chunks
  <2>3. Among(e, T) = e /\ Among(e, ChunksOf(type)) = e
    BY AmongEmpty
  <2>4. Len(Ns(e)) = 0
    BY <2>1, NsType
  <2>5. Total(e, type) = 0
    BY <2>3, <2>4, SumEmpty DEF Total
  <2> HIDE DEF e, T
  <2>6. e \in P
    BY <2>1, <2>2, <2>3, <2>5
  <2> QED BY <2>6 DEF e
<1>2. ASSUME NEW q \in P, NEW x \in Sample PROVE Append(q, x) \in P
  <2>1. q \in Seq(Sample) /\ Chunks(q) \in Seq(Chunk) /\ Total(Chunks(q), type) = Len(Among(q, T))
        /\ Append(q, x) \in Seq(Sample)
    OBVIOUS
  <2> HIDE DEF T, P
  <2>2. Chunks(Append(q, x)) = step[<<Chunks(q), x>>]
    <3> HIDE DEF step
    <3>1. Accumulated(step, <<>>, Append(q, x)) = step[<<Accumulated(step, <<>>, q), x>>]
      BY <2>1, AccumulatedAppend
    <3> QED BY <3>1 DEF Chunks, step
  <2>3. Chunks(Append(q, x)) = ChunkOn(Chunks(q), x)
    BY <2>1, <2>2
  <2> DEFINE cs == Chunks(q)
             more == ChunkOn(cs, x)
  <2>4. /\ more \in Seq(Chunk)
        /\ Total(more, type) = IF x.type = type THEN Total(cs, type) + 1 ELSE Total(cs, type)
    BY <2>1, ChunkOnTotal
  <2>5. Among(Append(q, x), T) = IF x \in T THEN Append(Among(q, T), x) ELSE Among(q, T)
    BY <2>1, AmongAppend
  <2>6. x \in T <=> x.type = type
    BY DEF T, SamplesOf
  <2>7. Among(q, T) \in Seq(Sample)
    <3>1. Among(q, T) \in Seq(Sample \cap T) /\ Sample \cap T \subseteq Sample
      BY <2>1, AmongType
    <3> QED BY <3>1
  <2>8. Len(Append(Among(q, T), x)) = Len(Among(q, T)) + 1
    BY <2>7
  <2> HIDE DEF cs, more, step
  <2>9. Total(more, type) = Len(Among(Append(q, x), T))
    BY <2>1, <2>4, <2>5, <2>6, <2>8 DEF cs
  <2> QED BY <2>1, <2>3, <2>4, <2>9 DEF P, more, cs
<1>3. P = Seq(Sample)
  <2>1. P \in SUBSET Seq(Sample) OBVIOUS
  <2> HIDE DEF P
  <2> QED BY <1>1, <1>2, <2>1, SeqInduction
<1>4. list \in P
  <2> HIDE DEF P
  <2> QED BY <1>3
<1> QED BY <1>4

(* So the tables of a track that another muxer writes can be loaded.       *)
LEMMA MuxedFits ==
  ASSUME NEW list \in Seq(Sample), NEW type, NEW i \in DOMAIN list, list[i].type = type
  PROVE  Fitting(MuxTrack(list, type))
<1> DEFINE track == OfType(list, type)
           all == Chunks(list)
           chunks == OfType(all, type)
           n == Len(track)
           counts == Ns(chunks)
           delta == [k \in DOMAIN track |-> IF k < Len(track) THEN track[k + 1].dts - track[k].dts ELSE 1]
           late == [k \in DOMAIN track |-> track[k].pts - track[k].dts]
           t == MuxTrack(list, type)
<1>1. /\ t.stts = Runs(delta) /\ t.ctts \in {Runs(late), NoTable}
      /\ t.stsz = [k \in DOMAIN track |-> track[k].size]
      /\ t.stsc = Stsc(counts) /\ t.stco = [c \in DOMAIN chunks |-> chunks[c].offset]
  BY DEF MuxTrack, WriteTrack, Ns
<1>2. list \in Seq(Range(list)) /\ Timed(list)
  <2>1. \A k \in DOMAIN list : list[k] \in Sample
    OBVIOUS
  <2> QED BY <2>1, SeqIsSeq DEF IsSeq, Timed, Sample
<1>3. n \in Nat \ {0} /\ DOMAIN track = 1..n /\ Timed(track)
  BY <1>2, OfTypeIs
<1>4. track = Among(list, SamplesOf(type))
  <2>1. \A x \in Range(list) : x \in {s \in Range(list) : s.type = type} <=> x \in SamplesOf(type)
    <3>1. \A x \in Range(list) : x \in Sample
      BY DEF Range
    <3> QED BY <3>1 DEF SamplesOf
  <2> QED BY <1>2, <2>1, AmongSame DEF OfType
<1>5. all \in Seq(Chunk) /\ Total(all, type) = n
  BY <1>4, ChunksTotal
<1> HIDE DEF track, all, t, delta, late
<1>6. chunks = Among(all, ChunksOf(type)) /\ chunks \in Seq(Chunk)
  <2>1. \A x \in Range(all) : x \in {s \in Range(all) : s.type = type} <=> x \in ChunksOf(type)
    <3>1. \A x \in Range(all) : x \in Chunk
      BY <1>5 DEF Range
    <3> QED BY <3>1 DEF ChunksOf
  <2>2. all \in Seq(Range(all))
    BY <1>5, SeqIsSeq DEF IsSeq
  <2>3. chunks = Among(all, ChunksOf(type))
    BY <2>1, <2>2, AmongSame DEF OfType
  <2>4. chunks \in Seq(Chunk \cap ChunksOf(type)) /\ Chunk \cap ChunksOf(type) \subseteq Chunk
    BY <1>5, <2>3, AmongType
  <2> HIDE DEF chunks
  <2> QED BY <2>3, <2>4
<1> HIDE DEF chunks
<1>7. counts \in Seq(Nat) /\ Len(counts) = Len(chunks) /\ Sum(counts) = n /\ Len(chunks) \in Nat
  BY <1>5, <1>6, NsType DEF Total
<1> HIDE DEF counts
<1>8. SamplesPerChunk(t.stsc, Len(t.stco)) = counts
  <2>1. Stsc(counts) \in EntriesFor(counts, Len(counts))
    BY <1>7, StscFor
  <2>2. Len(t.stco) = Len(counts)
    BY <1>1, <1>6, <1>7
  <2> QED BY <1>1, <1>7, <2>1, <2>2, CountsBack
<1>9. Runs(delta) \in RunsFor(n, Unsaid) /\ Runs(late) \in RunsFor(n, Unsaid)
  <2>1. \A k \in 1..n : track[k].dts \in Int /\ track[k].pts \in Int
    BY <1>3 DEF Timed
  <2>2. Len(delta) = n /\ \A k \in 1..n : delta[k] \in Int
    <3>1. delta = [k \in 1..n |-> IF k < n THEN track[k + 1].dts - track[k].dts ELSE 1]
      BY <1>3 DEF delta
    <3>2. ASSUME NEW k \in 1..n PROVE delta[k] \in Int
      <4>1. CASE k < n
        <5>1. k + 1 \in 1..n
          BY <1>3, <4>1
        <5>2. track[k + 1].dts \in Int /\ track[k].dts \in Int
          BY <2>1, <5>1
        <5>3. delta[k] = track[k + 1].dts - track[k].dts
          BY <3>1, <4>1
        <5> QED BY <5>2, <5>3
      <4>2. CASE ~(k < n)
        BY <3>1, <4>2
      <4> QED BY <4>1, <4>2
    <3> QED BY <1>3, <3>1, <3>2
  <2>3. Len(late) = n /\ \A k \in 1..n : late[k] \in Int
    <3>1. late = [k \in 1..n |-> track[k].pts - track[k].dts]
      BY <1>3 DEF late
    <3> QED BY <1>3, <2>1, <3>1
  <2> HIDE DEF n
  <2> QED BY <1>3, <2>2, <2>3, RunsFit
<1> HIDE DEF n
<1>10. Len(Counted(t.stts, n)) = n
  BY <1>1, <1>3, <1>9, CountedFits
<1>11. Len(Offsets(t, n)) = n
  <2>1. CASE t.ctts = NoTable
    BY <1>3, <2>1 DEF Offsets
  <2>2. CASE t.ctts # NoTable
    BY <1>1, <1>3, <1>9, <2>2, CountedFits DEF Offsets
  <2> QED BY <2>1, <2>2
<1>12. Len(t.stsz) = n
  BY <1>1, <1>3
<1>13. Fitting(t)
  BY <1>3, <1>7, <1>8, <1>10, <1>11, <1>12 DEF Fitting
<1> QED BY <1>13 DEF t

-----------------------------------------------------------------------------
(* What another muxer writes is a whole file.                              *)
LEMMA FlatLen ==
  ASSUME NEW S, NEW ss \in Seq(Seq(S))
  PROVE  Len(FlattenSeq(ss)) = Sum([i \in DOMAIN ss |-> Len(ss[i])])
<1> DEFINE B == Seq(S)
           lens(qq) == [i \in DOMAIN qq |-> Len(qq[i])]
           P == {qq \in Seq(B) : Len(FlattenSeq(qq)) = Sum(lens(qq))}
<1>1. << >> \in P
  <2> DEFINE e == << >>
  <2>1. e \in Seq(B) /\ Len(e) = 0 /\ FlattenSeq(e) = e /\ Len(lens(e)) = 0
    BY FlattenEmpty
  <2>2. Sum(lens(e)) = 0
    BY <2>1, SumEmpty
  <2> HIDE DEF e, B
  <2>3. e \in P
    BY <2>1, <2>2
  <2> QED BY <2>3 DEF e
<1>2. ASSUME NEW qq \in P, NEW x \in B PROVE Append(qq, x) \in P
  <2> DEFINE rr == Append(qq, x)
             n == Len(qq)
  <2>1. qq \in Seq(B) /\ rr \in Seq(B) /\ Len(FlattenSeq(qq)) = Sum(lens(qq))
    OBVIOUS
  <2>2. n \in Nat /\ Len(rr) = n + 1 /\ rr[n + 1] = x /\ \A i \in 1..n : rr[i] = qq[i]
    BY <2>1
  <2>3. Len(x) \in Nat /\ \A i \in 1..n : Len(qq[i]) \in Nat
    <3>1. \A i \in 1..n : qq[i] \in Seq(S)
      BY <2>1
    <3> QED BY <3>1
  <2>4. lens(qq) \in Seq(Nat) /\ Len(lens(qq)) = n
    <3>1. lens(qq) = [i \in 1..n |-> Len(qq[i])]
      BY <2>1
    <3> HIDE DEF lens
    <3> QED BY <2>2, <2>3, <3>1
  <2>5. FlattenSeq(rr) = FlattenSeq(qq) \o x /\ FlattenSeq(qq) \in Seq(S)
    <3> HIDE DEF P
    <3> QED BY <2>1, FlattenAppend, FlattenType
  <2>6. Len(FlattenSeq(qq) \o x) = Len(FlattenSeq(qq)) + Len(x)
    BY <2>5
  <2>7. lens(rr) = Append(lens(qq), Len(x))
    <3> DEFINE m == Len(x)
               q == lens(qq)
    <3>1. lens(rr) = [i \in 1..(n + 1) |-> Len(rr[i])]
      BY <2>1, <2>2
    <3>2. \A i \in 1..(n + 1) : Len(rr[i]) = IF i = n + 1 THEN m ELSE q[i]
      BY <2>1, <2>2
    <3>3. q \in Seq(Nat) /\ Len(q) = n /\ m \in Nat
      BY <2>3, <2>4
    <3> HIDE DEF m, q, rr, n
    <3> DEFINE b == Append(q, m)
    <3>4. /\ b \in Seq(Nat) /\ Len(b) = n + 1 /\ b[n + 1] = m
          /\ \A i \in 1..n : b[i] = q[i]
      BY <3>3
    <3> HIDE DEF b, lens
    <3>5. b = [i \in 1..(n + 1) |-> b[i]]
      BY <3>4
    <3>6. \A i \in 1..(n + 1) : b[i] = Len(rr[i])
      <4> SUFFICES ASSUME NEW i \in 1..(n + 1) PROVE b[i] = Len(rr[i])
        OBVIOUS
      <4>1. i = n + 1 \/ i \in 1..n
        BY <3>3
      <4>2. i \in 1..n => i # n + 1
        BY <3>3
      <4> QED BY <3>2, <3>4, <4>1, <4>2
    <3>7. lens(rr) = b
      BY <3>1, <3>5, <3>6
    <3> QED BY <3>7 DEF b, q, m
  <2> HIDE DEF lens, rr, n
  <2>8. Sum(lens(rr)) = Sum(lens(qq)) + Len(x)
    BY <2>3, <2>4, <2>7, SumAppend
  <2> QED BY <2>1, <2>5, <2>6, <2>8 DEF rr
<1>3. P = Seq(B)
  <2>1. P \in SUBSET Seq(B) OBVIOUS
  <2> HIDE DEF P, B
  <2> QED BY <1>1, <1>2, <2>1, SeqInduction
<1>4. ss \in P
  <2> HIDE DEF P
  <2> QED BY <1>3
<1> QED BY <1>4

(* A box as it is written.                                                 *)
SizeOf(name) == IF name = "mdat" THEN Header + Bytes ELSE Sizes[name]
IsContent(v, name) ==
    /\ IsSeq(v) /\ Len(v) = SizeOf(name) /\ SizeOf(name) \in Nat /\ SizeOf(name) >= Header
    /\ IsBoxOf(v[1], name, SizeOf(name)) /\ (name = "moov" => Legal(v[1].tables))

(* The mdat box with all of the samples is as long as its header says.     *)
LEMMA MdatContent ==
  ASSUME written \in Seq(Sample)
  PROVE  IsContent(Mdat(Bytes) \o FlattenSeq([k \in DOMAIN written |-> Data(k, written[k].size)]), "mdat")
<1> DEFINE D == [k \in DOMAIN written |-> Data(k, written[k].size)]
           U == [sample : Nat, part : Nat]
           f == FlattenSeq(D)
           a == Mdat(Bytes)
<1>1. Bytes \in Nat /\ Header = 2
  BY BytesType, SizesAre
<1>2. \A k \in DOMAIN written : written[k].size \in Nat /\ k \in Nat
  <2>1. \A k \in DOMAIN written : written[k] \in Sample /\ k \in Nat
    OBVIOUS
  <2> QED BY <2>1 DEF Sample
<1>3. ASSUME NEW k \in DOMAIN written PROVE Data(k, written[k].size) \in Seq(U) /\ Len(Data(k, written[k].size)) = written[k].size
  <2> DEFINE z == written[k].size
             d == Data(k, z)
  <2>1. z \in Nat /\ k \in Nat
    BY <1>2
  <2> HIDE DEF z
  <2>2. d = [i \in 1..z |-> [sample |-> k, part |-> i]]
    BY DEF Data
  <2>3. d \in Seq(U) /\ Len(d) = z
    BY <2>1, <2>2
  <2> QED BY <2>3 DEF z
<1>4. D \in Seq(Seq(U)) /\ DOMAIN D = DOMAIN written
  <2> HIDE DEF U
  <2> QED BY <1>3
<1>5. IsSeq(f) /\ Len(f) = Bytes
  <2>1. f \in Seq(U)
    <3> HIDE DEF U, D
    <3> QED BY <1>4, FlattenType
  <2>2. Len(f) = Sum([k \in DOMAIN D |-> Len(D[k])])
    <3> HIDE DEF U, D
    <3> QED BY <1>4, FlatLen
  <2>3. [k \in DOMAIN D |-> Len(D[k])] = [k \in DOMAIN written |-> written[k].size]
    BY <1>3, <1>4
  <2>4. IsSeq(f)
    <3> HIDE DEF U, f
    <3> QED BY <2>1, SeqIsSeq
  <2> QED BY <2>2, <2>3, <2>4 DEF Bytes
<1>6. IsSeq(a) /\ Len(a) = Header /\ IsBoxOf(a[1], "mdat", Header + Bytes)
  <2>1. a = Units("mdat", Header + Bytes, Header, NoTables) /\ Header \in Nat \ {0}
    BY <1>1 DEF Mdat
  <2> QED BY <2>1, UnitsOf DEF IsBoxOf
<1> HIDE DEF a, f, D, U
<1>7. IsJoined(a \o f, a, f)
  BY <1>5, <1>6, SeqJoined
<1>8. IsSeq(a \o f) /\ Len(a \o f) = Header + Bytes /\ (a \o f)[1] = a[1]
  <2>1. 1 \in 1..Len(a)
    BY <1>1, <1>6
  <2> QED BY <1>5, <1>6, <1>7, <2>1 DEF IsJoined
<1>9. Header + Bytes \in Nat /\ Header + Bytes >= Header
  BY <1>1
<1>10. IsContent(a \o f, "mdat")
  BY <1>6, <1>8, <1>9 DEF IsContent, SizeOf
<1> QED BY <1>10 DEF a, f, D

(* The other boxes are as long as theirs say.                              *)
LEMMA OtherContent ==
  ASSUME NEW name \in Boxes \ {"mdat", "moov"}
  PROVE  IsContent(Whole(name, NoTables), name)
<1>1. Sizes[name] \in Nat \ {0} /\ Sizes[name] >= Header /\ SizeOf(name) = Sizes[name]
  BY SizesAssumption DEF SizeOf, Header
<1>2. Whole(name, NoTables) = Units(name, Sizes[name], Sizes[name], NoTables)
  BY DEF Whole
<1> QED BY <1>1, <1>2, UnitsOf DEF IsContent, IsBoxOf

(* Boxes that follow each other are a file.                                *)
LEMMA BoxesMake ==
  ASSUME NEW boxes \in Seq(Boxes), NEW cs, DOMAIN cs = DOMAIN boxes, cs = [i \in DOMAIN boxes |-> cs[i]],
         \A i \in DOMAIN boxes : IsContent(cs[i], boxes[i])
  PROVE  IsSeq(FlattenSeq(cs)) /\ \E st : IsWhole(FlattenSeq(cs), boxes, st)
<1> DEFINE S == UNION {Range(cs[i]) : i \in DOMAIN boxes}
           f == FlattenSeq(cs)
           L == Len(boxes)
<1>1. \A i \in 1..L : cs[i] \in Seq(S)
  <2> SUFFICES ASSUME NEW i \in 1..L PROVE cs[i] \in Seq(S)
    OBVIOUS
  <2>1. cs[i] \in Seq(Range(cs[i])) /\ Range(cs[i]) \subseteq S
    BY DEF IsContent, IsSeq
  <2> HIDE DEF S
  <2> QED BY <2>1
<1> HIDE DEF S
<1>2. cs \in Seq(Seq(S)) /\ Len(cs) = L /\ L \in Nat
  BY <1>1
<1>3. PICK st : IsPlaced(cs, st, f)
  BY <1>2, FlatPlaces
<1>4. IsSeq(f)
  BY <1>2, FlattenType, SeqIsSeq
<1> HIDE DEF f
<1>5. /\ st \in [1..(L + 1) -> Nat] /\ st[1] = 0 /\ Len(f) = st[L + 1]
      /\ \A i \in 1..L : st[i + 1] = st[i] + Len(cs[i]) /\ st[i + 1] <= st[L + 1]
      /\ \A i \in 1..L : \A j \in 1..Len(cs[i]) : f[st[i] + j] = cs[i][j]
  BY <1>2, <1>3 DEF IsPlaced
<1> HIDE DEF L
<1>6. ASSUME NEW i \in 1..L
      PROVE  /\ st[i] + Header <= st[i + 1] /\ st[i + 1] <= st[L + 1]
             /\ IsBoxOf(f[st[i] + 1], boxes[i], st[i + 1] - st[i])
             /\ boxes[i] = "moov" => Legal(f[st[i] + 1].tables)
  <2> DEFINE n == SizeOf(boxes[i])
             v == cs[i]
  <2>1. /\ Len(v) = n /\ n \in Nat /\ n >= Header /\ IsBoxOf(v[1], boxes[i], n)
        /\ boxes[i] = "moov" => Legal(v[1].tables)
    BY DEF IsContent, L
  <2>2. Header = 2 /\ st[i] \in Nat /\ st[i + 1] \in Nat /\ st[i + 1] = st[i] + Len(v) /\ st[i + 1] <= st[L + 1]
    BY <1>2, <1>5, SizesAre
  <2>3. 1 \in 1..Len(v)
    <3> HIDE DEF n, v
    <3> QED BY <2>1, <2>2
  <2>4. f[st[i] + 1] = v[1]
    BY <1>5, <2>3
  <2>5. st[i] + Header <= st[i + 1] /\ st[i + 1] - st[i] = n
    <3> DEFINE a == st[i]
               b == st[i + 1]
    <3>1. a \in Nat /\ b \in Nat /\ b = a + n /\ n \in Nat /\ n >= Header /\ Header = 2
      BY <2>1, <2>2
    <3> HIDE DEF a, b, n
    <3>2. a + Header <= b /\ b - a = n
      BY <3>1
    <3> QED BY <3>2 DEF a, b
  <2> HIDE DEF n, v
  <2> QED BY <2>1, <2>2, <2>4, <2>5
<1>7. IsWhole(f, boxes, st)
  BY <1>5, <1>6 DEF IsWhole, Boxed, L
<1> QED BY <1>4, <1>7 DEF f

(* Whatever the layout, another muxer writes a whole file.                 *)
LEMMA MuxMakes ==
  ASSUME Recorded, NEW boxes \in Layouts, Mux(boxes)
  PROVE  /\ \E st : IsWhole(file', boxes, st)
         /\ IsSeq(file') /\ enc' = "done" /\ layout' = boxes /\ enc = "recording" /\ written' \in Seq(Sample)
         /\ UNCHANGED <<headers, decoder>>
<1> DEFINE at == CHOOSE i \in DOMAIN boxes : boxes[i] = "mdat"
           begin == Header + Sum([i \in 1..(at - 1) |-> SizeOf(boxes[i])])
           place(k) == begin + Sum([i \in 1..(k - 1) |-> written[i].size])
           moved == [k \in DOMAIN written |-> [written[k] EXCEPT !.offset = place(k)]]
           tracks == [type \in headers |-> MuxTrack(moved, type)]
           Content(name) ==
             CASE name = "mdat" -> Mdat(Bytes) \o FlattenSeq([k \in DOMAIN written |-> Data(k, written[k].size)])
               [] name = "moov" -> Moov(tracks)
               [] OTHER -> Whole(name, NoTables)
           cs == [i \in DOMAIN boxes |-> Content(boxes[i])]
<1>1. /\ enc = "recording" /\ headers = {written[k].type : k \in DOMAIN written} /\ written # <<>>
      /\ enc' = "done" /\ written' = moved /\ layout' = boxes /\ file' = FlattenSeq(cs)
      /\ UNCHANGED <<headers, decoder>>
  BY DEF Mux, SizeOf
<1>2. written \in Seq(Sample) /\ headers \subseteq {Video, Audio}
  BY DEF Recorded
<1>3. boxes \in Seq(Boxes) /\ DOMAIN boxes = 1..Len(boxes) /\ Len(boxes) \in Nat /\ at \in 1..Len(boxes)
  <2>1. boxes \in Seq(Boxes) /\ \E i \in DOMAIN boxes : boxes[i] = "mdat"
    BY LayoutsAssumption
  <2> QED BY <2>1
<1>4. \A name \in Boxes : SizeOf(name) \in Nat
  BY <1>2, BytesType, SizesAre, SizesAssumption DEF SizeOf
<1> HIDE DEF at
<1>5. begin \in Nat
  <2> DEFINE s == [i \in 1..(at - 1) |-> SizeOf(boxes[i])]
  <2>1. s \in Seq(Nat)
    <3>1. \A i \in 1..(at - 1) : boxes[i] \in Boxes
      BY <1>3
    <3>2. \A i \in 1..(at - 1) : SizeOf(boxes[i]) \in Nat
      BY <1>4, <3>1
    <3>3. at - 1 \in Nat
      BY <1>3
    <3> QED BY <3>2, <3>3
  <2> HIDE DEF s
  <2>2. Sum(s) \in Nat
    BY <2>1, SumType
  <2>3. Header \in Nat
    BY SizesAre
  <2> QED BY <2>2, <2>3 DEF s
<1> HIDE DEF begin
<1>6. ASSUME NEW k \in DOMAIN written PROVE place(k) \in Nat /\ moved[k] \in Sample /\ moved[k].type = written[k].type
  <2> DEFINE s == [i \in 1..(k - 1) |-> written[i].size]
  <2>1. s \in Seq(Nat)
    <3>1. \A i \in 1..(k - 1) : written[i] \in Sample
      BY <1>2
    <3>2. \A i \in 1..(k - 1) : written[i].size \in Nat
      BY <3>1 DEF Sample
    <3>3. k - 1 \in Nat
      BY <1>2
    <3> QED BY <3>2, <3>3
  <2> HIDE DEF s
  <2>2. Sum(s) \in Nat
    BY <2>1, SumType
  <2>3. place(k) \in Nat
    BY <1>5, <2>2 DEF s
  <2> HIDE DEF place
  <2>4. written[k] \in Sample
    BY <1>2
  <2>5. moved[k] = [written[k] EXCEPT !.offset = place(k)]
    OBVIOUS
  <2> HIDE DEF moved
  <2>6. moved[k] \in Sample /\ moved[k].type = written[k].type
    BY <2>3, <2>4, <2>5 DEF Sample
  <2> QED BY <2>3, <2>6
<1>7. moved \in Seq(Sample) /\ DOMAIN moved = DOMAIN written
  <2> HIDE DEF place
  <2>1. moved = [k \in 1..Len(written) |-> moved[k]] /\ Len(written) \in Nat
    BY <1>2
  <2>2. DOMAIN moved = DOMAIN written /\ DOMAIN written = 1..Len(written)
    BY <1>2
  <2>3. \A k \in DOMAIN written : moved[k] \in Sample
    BY <1>6
  <2> HIDE DEF moved
  <2> QED BY <2>1, <2>2, <2>3
<1> HIDE DEF moved
<1>8. Loadable(tracks)
  <2> SUFFICES ASSUME NEW type \in headers PROVE Fitting(MuxTrack(moved, type))
    BY DEF Loadable
  <2>1. PICK k \in DOMAIN written : written[k].type = type
    BY <1>1
  <2> QED BY <1>6, <1>7, <2>1, MuxedFits
<1>9. DOMAIN tracks = headers /\ headers # {}
  <2>1. 1 \in DOMAIN written
    BY <1>1, <1>2
  <2> QED BY <1>1, <2>1
<1> HIDE DEF tracks
<1>10. IsContent(Moov(tracks), "moov")
  <2> DEFINE v == Moov(tracks)
  <2>1. IsSeq(v) /\ Len(v) = Sizes["moov"] /\ IsBoxOf(v[1], "moov", Sizes["moov"]) /\ Legal(v[1].tables)
    BY <1>8, <1>9, MoovOf
  <2>2. SizeOf("moov") = Sizes["moov"] /\ Sizes["moov"] \in Nat /\ Sizes["moov"] >= Header
    BY SizesAre DEF SizeOf
  <2> HIDE DEF v
  <2> QED BY <2>1, <2>2 DEF IsContent, v
<1>11. ASSUME NEW name \in Boxes PROVE IsContent(Content(name), name)
  <2>1. CASE name = "mdat"
    BY <1>2, <2>1, MdatContent
  <2>2. CASE name = "moov"
    BY <1>10, <2>2
  <2>3. CASE name \notin {"mdat", "moov"}
    <3>1. Content(name) = Whole(name, NoTables)
      BY <2>3
    <3> QED BY <2>3, <3>1, OtherContent
  <2> QED BY <2>1, <2>2, <2>3
<1> HIDE DEF Content
<1>12. \A i \in DOMAIN boxes : IsContent(cs[i], boxes[i])
  <2>1. \A i \in DOMAIN boxes : boxes[i] \in Boxes
    BY <1>3
  <2> QED BY <1>11, <2>1
<1>13. DOMAIN cs = DOMAIN boxes /\ cs = [i \in DOMAIN boxes |-> cs[i]]
  OBVIOUS
<1> HIDE DEF cs
<1>14. IsSeq(FlattenSeq(cs)) /\ \E st : IsWhole(FlattenSeq(cs), boxes, st)
  BY <1>3, <1>12, <1>13, BoxesMake
<1> QED BY <1>1, <1>7, <1>14

-----------------------------------------------------------------------------
(* Where the decoder is in whatever file it is given.                      *)
PlacedTorn == IsTorn /\ (dec = "loading" => ReadsTorn)
PlacedIn(st) == IsBoxes(st) /\ (dec = "loading" => ReadsBoxes(st))
FilePlaced == PlacedTorn \/ \E st : PlacedIn(st)
HasRead ==
    /\ dec \in {"closed", "loading", "refused", "loaded", "eof"}
    /\ dec = "closed" => pos = 0 /\ stream = <<>> /\ box = NoBox
    /\ dec # "closed" => enc \in {"done", "cut"}
    /\ enc \in {"done", "cut"} => FilePlaced
    /\ OpensWhatIsComplete

(* A file that is opened is read from its begin, where a box is.           *)
LEMMA OpenReads == ASSUME Recorded, HasRead, Open PROVE HasRead'
<1>1. /\ dec = "closed" /\ enc \in {"done", "cut"} /\ dec' = "loading" /\ UNCHANGED encoder
      /\ UNCHANGED <<pos, stream, box>>
  BY DEF Open
<1>2. pos' = 0 /\ stream' = <<>> /\ box' = NoBox /\ FilePlaced /\ Len(stream') = 0
  BY <1>1 DEF HasRead
<1>3. UNCHANGED <<enc, file, headers, written, layout>>
  BY <1>1 DEF encoder
<1>4. Base' = 0
  <2>1. Base' = pos' - Len(stream')
    BY DEF Base
  <2>2. pos' = 0 /\ Len(stream') = 0
    BY <1>2
  <2> QED BY <2>1, <2>2
<1>5. Reading'
  <2>1. IsSeq(<<>>)
    BY DEF IsSeq, Range
  <2>2. IsSeq(stream') /\ Len(stream') <= pos'
    BY <1>2, <2>1
  <2> QED BY <1>2, <2>2 DEF Reading
<1>6. CASE PlacedTorn
  <2>1. IsTorn'
    BY <1>3, <1>6 DEF PlacedTorn, IsTorn, Torn
  <2>2. StandsTorn'
    BY <1>2, <1>4 DEF StandsTorn
  <2>3. PlacedTorn'
    BY <1>1, <1>5, <2>1, <2>2 DEF PlacedTorn, ReadsTorn
  <2> QED BY <1>1, <1>3, <2>3 DEF HasRead, FilePlaced, OpensWhatIsComplete, NoPartialRecording, RefusedForSmallMdat
<1>7. ASSUME NEW st, PlacedIn(st) PROVE HasRead'
  <2>1. IsBoxes(st)' /\ IsBoxes(st)
    BY <1>1, <1>7, BoxesKept DEF PlacedIn
  <2>2. 1 \in 1..Len(layout)
    <3>1. layout \in Layouts \cup {Own}
      BY <2>1 DEF IsBoxes
    <3> QED BY <3>1, LayoutIs
  <2>3. Stands(st, 1)'
    <3>1. st[1] = 0
      BY <2>1 DEF IsBoxes, Boxed
    <3>2. Base' = st[1]
      BY <1>4, <3>1
    <3>3. 1..(1 - 1) = {}
      OBVIOUS
    <3> QED BY <3>2, <3>3 DEF Stands
  <2>4. 1 \in 1..Len(layout')
    BY <1>3, <2>2
  <2>5. PlacedIn(st)'
    BY <1>1, <1>5, <2>1, <2>3, <2>4 DEF PlacedIn, ReadsBoxes
  <2> QED BY <1>1, <1>3, <2>5 DEF HasRead, FilePlaced, OpensWhatIsComplete, NoPartialRecording, RefusedForSmallMdat
<1> QED BY <1>2, <1>6, <1>7 DEF FilePlaced

(* The steps while the file is loaded.                                     *)
LEMMA LoadReads ==
  ASSUME Recorded, HasRead, ReadMore \/ Discover \/ SkipMdat \/ TakeBox \/ ParseMoov
  PROVE  HasRead'
<1>1. UNCHANGED encoder /\ dec = "loading"
  BY DEF ReadMore, Discover, SkipMdat, TakeBox, ParseMoov
<1>2. UNCHANGED <<enc, file, headers, written, layout>>
  BY <1>1 DEF encoder
<1>3. enc \in {"done", "cut"} /\ FilePlaced
  BY <1>1 DEF HasRead
<1>4. CASE PlacedTorn
  <2>1. ReadsTorn /\ IsTorn
    BY <1>1, <1>4 DEF PlacedTorn
  <2>2. dec' = "refused" \/ ReadsTorn'
    BY <1>1, <2>1, TornStays
  <2>3. IsTorn' /\ enc' = "cut"
    BY <1>2, <2>1 DEF IsTorn, Torn
  <2>4. dec' \in {"refused", "loading"}
    BY <2>2 DEF ReadsTorn
  <2>5. PlacedTorn'
    BY <2>2, <2>3 DEF PlacedTorn
  <2>6. OpensWhatIsComplete'
    BY <2>3, <2>4 DEF OpensWhatIsComplete, NoPartialRecording, RefusedForSmallMdat, Complete
  <2> QED BY <2>3, <2>4, <2>5, <2>6 DEF HasRead, FilePlaced
<1>5. ASSUME NEW st, PlacedIn(st) PROVE HasRead'
  <2>1. ReadsBoxes(st) /\ IsBoxes(st)
    BY <1>1, <1>5 DEF PlacedIn
  <2>2. After(st)'
    BY <1>1, <2>1, BoxesReadMore, BoxesDiscover, BoxesSkip, BoxesTake, BoxesParse
  <2>3. IsBoxes(st)'
    BY <1>1, <2>1, BoxesKept
  <2>4. dec' \in {"refused", "loading", "loaded"} /\ enc' \in {"done", "cut"}
    BY <2>2, <2>3 DEF After, ReadsBoxes, IsBoxes
  <2>5. PlacedIn(st)'
    BY <2>2, <2>3 DEF PlacedIn, After
  <2>6. OpensWhatIsComplete'
    BY <2>2 DEF After, Small, ReadsBoxes, OpensWhatIsComplete, NoPartialRecording, RefusedForSmallMdat, Complete
  <2> QED BY <2>4, <2>5, <2>6 DEF HasRead, FilePlaced
<1> QED BY <1>3, <1>4, <1>5 DEF FilePlaced

(* The caller reads samples of a file that is loaded.                      *)
LEMMA SamplesRead == ASSUME Recorded, HasRead, GiveHeader \/ ReadSample PROVE HasRead'
<1>1. UNCHANGED encoder /\ dec = "loaded" /\ dec' \in {"loaded", "eof"}
  BY DEF GiveHeader, ReadSample, ReadData, End
<1>2. UNCHANGED <<enc, file, headers, written, layout>>
  BY <1>1 DEF encoder
<1>3. FilePlaced /\ enc \in {"done", "cut"} /\ OpensWhatIsComplete
  BY <1>1 DEF HasRead
<1>4. FilePlaced'
  <2>1. CASE PlacedTorn
    <3>1. IsTorn'
      BY <1>2, <2>1 DEF PlacedTorn, IsTorn, Torn
    <3> QED BY <1>1, <3>1 DEF FilePlaced, PlacedTorn
  <2>2. ASSUME NEW st, PlacedIn(st) PROVE FilePlaced'
    <3>1. IsBoxes(st)'
      BY <1>1, <2>2, BoxesKept DEF PlacedIn
    <3> QED BY <1>1, <3>1 DEF FilePlaced, PlacedIn
  <2> QED BY <1>3, <2>1, <2>2 DEF FilePlaced
<1>5. OpensWhatIsComplete'
  BY <1>1, <1>2, <1>3 DEF OpensWhatIsComplete, NoPartialRecording, RefusedForSmallMdat, Complete
<1> QED BY <1>1, <1>2, <1>3, <1>4, <1>5 DEF HasRead

-----------------------------------------------------------------------------
(* The encoder, while nobody reads.                                        *)
NobodyReads == dec = "closed" /\ UNCHANGED decoder

(* While nobody reads, there is nothing to be wrong about.                 *)
LEMMA NobodyHasRead ==
  ASSUME HasRead, NobodyReads, enc' \in {"done", "cut"} => FilePlaced'
  PROVE  HasRead'
<1>1. /\ dec' = "closed" /\ dec = "closed" /\ UNCHANGED <<pos, stream, box>>
  BY DEF NobodyReads, decoder
<1>2. OpensWhatIsComplete'
  BY <1>1 DEF OpensWhatIsComplete, NoPartialRecording, RefusedForSmallMdat
<1> QED BY <1>1, <1>2 DEF HasRead

(* A whole file is a file of boxes.                                        *)
LEMMA WholePlaced ==
  ASSUME IsSeq(file'), layout' \in Layouts \cup {Own}, enc' = "done", NobodyReads,
         NEW st, IsWhole(file', layout', st)
  PROVE  FilePlaced'
<1>1. dec' = "closed"
  BY DEF NobodyReads, decoder
<1>2. IsBoxes(st)'
  BY DEF IsBoxes, Ends, IsWhole
<1> QED BY <1>1, <1>2 DEF FilePlaced, PlacedIn

(* Nothing more is asked of the recording once it is over.                 *)
LEMMA DoneRecords ==
  ASSUME enc' \in {"done", "cut"}, written' \in Seq(Sample), headers' \subseteq {Video, Audio}, IsSeq(file'),
         layout' \in Layouts \cup {Own}
  PROVE  Recorded'
BY DEF Recorded

(* The steps of a recording that goes on.                                  *)
LEMMA RecordStep ==
  ASSUME Recorded, HasRead,
         Initialize \/ (\E type \in {Video, Audio} : CopySequenceHeader(type))
           \/ (\E kind \in Kinds, step \in Steps : WriteSample(kind, step)) \/ FlushMoov
  PROVE  Recorded' /\ HasRead'
<1>1. NobodyReads /\ enc' \notin {"done", "cut"}
  <2>1. enc \in {"closed", "recording"} /\ UNCHANGED decoder /\ enc' \notin {"done", "cut"}
    BY DEF Initialize, CopySequenceHeader, WriteSample, FlushMoov
  <2> QED BY <2>1 DEF NobodyReads, HasRead
<1>2. HasRead'
  BY <1>1, NobodyHasRead
<1>3. CASE \E type \in {Video, Audio} : CopySequenceHeader(type)
  <2>1. PICK type \in {Video, Audio} : CopySequenceHeader(type)
    BY <1>3
  <2>2. headers' = headers \cup {type} /\ UNCHANGED <<enc, file, written, layout>> /\ enc = "recording"
    BY <2>1 DEF CopySequenceHeader
  <2> QED BY <1>2, <2>2 DEF Recorded, Bytes
<1> QED BY <1>2, <1>3, InitializeRecords, WriteSampleRecords, FlushMoovRecords

(* The end of the flush (SrsMp4Encoder::flush): the file is whole.         *)
LEMMA FlushStep == ASSUME Recorded, HasRead, FlushMdat PROVE Recorded' /\ HasRead'
<1>1. PICK st : IsWhole(file', Own, st)
  BY FlushMdatMakes
<1>2. /\ IsSeq(file') /\ enc' = "done" /\ layout' = Own /\ UNCHANGED <<headers, written, decoder>>
  BY FlushMdatMakes
<1>3. NobodyReads
  <2>1. enc = "flushing"
    BY DEF FlushMdat
  <2> QED BY <1>2, <2>1 DEF NobodyReads, HasRead
<1>4. FilePlaced'
  BY <1>1, <1>2, <1>3, WholePlaced
<1>5. written' \in Seq(Sample) /\ headers' \subseteq {Video, Audio} /\ layout' \in Layouts \cup {Own}
  BY <1>2 DEF Recorded
<1> QED BY <1>2, <1>3, <1>4, <1>5, NobodyHasRead, DoneRecords

(* The recorder dies, or the file is cut: what was torn is torn, what had  *)
(* its boxes has them up to the cut.                                       *)
LEMMA CutStep == ASSUME Recorded, HasRead, NEW n \in 0..Len(file), Cut(n) PROVE Recorded' /\ HasRead'
<1>1. /\ enc \in {"recording", "flushing", "done"} /\ dec = "closed" /\ (enc = "done" => n < Len(file))
      /\ enc' = "cut" /\ file' = SubSeq(file, 1, n) /\ UNCHANGED <<headers, written, layout, decoder>>
  BY DEF Cut
<1>2. IsSeq(file) /\ layout \in Layouts \cup {Own} /\ written \in Seq(Sample) /\ headers \subseteq {Video, Audio}
  BY DEF Recorded
<1>3. IsSeq(file') /\ Len(file') = n
  BY <1>1, <1>2, SeqCut
<1>4. NobodyReads /\ dec' = "closed"
  BY <1>1 DEF NobodyReads, decoder
<1>5. FilePlaced'
  <2>1. CASE enc # "done"
    <3>1. Torn(file) /\ layout = Own
      BY <1>1, <2>1 DEF Recorded
    <3>2. Torn(file')
      BY <1>1, <1>2, <3>1, TornCut
    <3>3. IsTorn'
      BY <1>1, <1>3, <3>1, <3>2 DEF IsTorn, Torn
    <3> QED BY <1>4, <3>3 DEF FilePlaced, PlacedTorn
  <2>2. CASE enc = "done"
    <3>1. FilePlaced /\ ~PlacedTorn
      BY <2>2 DEF HasRead, PlacedTorn, IsTorn
    <3>2. PICK st : PlacedIn(st)
      BY <3>1 DEF FilePlaced
    <3>3. Boxed(file, layout, st) /\ Len(file) = st[Len(layout) + 1]
      BY <2>2, <3>2 DEF PlacedIn, IsBoxes, Ends
    <3>4. layout \in Seq(Boxes)
      BY <1>2, LayoutIs
    <3>5. Boxed(file', layout, st)
      BY <1>1, <1>2, <3>3, <3>4, BoxedCut
    <3>6. Boxed(file', layout', st)
      BY <1>1, <3>5
    <3>7. Len(file') # st[Len(layout') + 1]
      <4>1. n < Len(file) /\ n \in Nat /\ Len(file) \in Nat
        BY <1>1, <1>2, <2>2 DEF IsSeq
      <4> QED BY <1>1, <1>3, <3>3, <4>1
    <3>8. IsBoxes(st)'
      BY <1>1, <1>2, <1>3, <3>6, <3>7 DEF IsBoxes, Ends
    <3> QED BY <1>4, <3>8 DEF FilePlaced, PlacedIn
  <2> QED BY <2>1, <2>2
<1> QED BY <1>1, <1>2, <1>3, <1>4, <1>5, NobodyHasRead, DoneRecords

(* Another muxer has written the file.                                     *)
LEMMA MuxStep == ASSUME Recorded, HasRead, NEW boxes \in Layouts, Mux(boxes) PROVE Recorded' /\ HasRead'
<1>1. PICK st : IsWhole(file', boxes, st)
  BY MuxMakes
<1>2. /\ IsSeq(file') /\ enc' = "done" /\ layout' = boxes /\ written' \in Seq(Sample)
      /\ UNCHANGED <<headers, decoder>> /\ enc = "recording"
  BY MuxMakes
<1>3. NobodyReads
  BY <1>2 DEF NobodyReads, HasRead
<1>4. FilePlaced'
  BY <1>1, <1>2, <1>3, WholePlaced
<1>5. headers' \subseteq {Video, Audio}
  BY <1>2 DEF Recorded
<1> QED BY <1>2, <1>3, <1>4, <1>5, NobodyHasRead, DoneRecords

-----------------------------------------------------------------------------

(* The invariant holds before anything is recorded.                        *)
LEMMA FilesBegin == Init => Recorded /\ HasRead
<1> SUFFICES ASSUME Init PROVE HasRead
  BY RecordBegins
<1>1. dec = "closed" /\ enc = "closed" /\ pos = 0 /\ stream = <<>> /\ box = NoBox
  BY DEF Init
<1> QED BY <1>1 DEF HasRead, OpensWhatIsComplete, NoPartialRecording, RefusedForSmallMdat

(* Every step of the recorder and of the reader keeps it.                  *)
LEMMA FilesStep == Recorded /\ HasRead /\ [Next]_vars => (Recorded /\ HasRead)'
<1> SUFFICES ASSUME Recorded, HasRead, [Next]_vars PROVE (Recorded /\ HasRead)'
  OBVIOUS
<1>1. CASE UNCHANGED vars
  <2>1. UNCHANGED encoder /\ UNCHANGED decoder
    BY <1>1 DEF vars, encoder, decoder
  <2>2. Recorded' /\ UNCHANGED <<enc, file, headers, written, layout>>
    BY <2>1, RecordKept
  <2>3. UNCHANGED <<dec, pos, stream, box, ftyp>>
    BY <2>1 DEF decoder
  <2>4. Base' = Base
    BY <2>3 DEF Base
  <2>5. Reading' = Reading
    BY <2>2, <2>3, <2>4 DEF Reading
  <2>6. OpensWhatIsComplete' = OpensWhatIsComplete
    BY <2>2, <2>3 DEF OpensWhatIsComplete, NoPartialRecording, RefusedForSmallMdat, Complete
  <2>7. ASSUME PlacedTorn PROVE PlacedTorn'
    <3>1. IsTorn'
      BY <2>2, <2>7 DEF PlacedTorn, IsTorn, Torn
    <3>2. ASSUME ReadsTorn PROVE ReadsTorn'
      <4>1. StandsTorn'
        BY <2>3, <2>4, <3>2 DEF ReadsTorn, StandsTorn
      <4> QED BY <2>3, <2>5, <3>1, <3>2, <4>1 DEF ReadsTorn
    <3> QED BY <2>3, <2>7, <3>1, <3>2 DEF PlacedTorn
  <2>8. ASSUME NEW st, PlacedIn(st) PROVE PlacedIn(st)'
    <3>1. IsBoxes(st)'
      BY <2>1, <2>8, BoxesKept DEF PlacedIn
    <3>2. ASSUME ReadsBoxes(st) PROVE ReadsBoxes(st)'
      <4>1. PICK i \in 1..Len(layout) : Stands(st, i)
        BY <3>2 DEF ReadsBoxes
      <4>2. Stands(st, i)'
        BY <2>1, <2>3, <2>4, <4>1, StandsKept
      <4>3. i \in 1..Len(layout')
        BY <2>2
      <4> QED BY <2>3, <2>5, <3>1, <3>2, <4>2, <4>3 DEF ReadsBoxes
    <3> QED BY <2>3, <2>8, <3>1, <3>2 DEF PlacedIn
  <2>9. HasRead'
    BY <2>2, <2>3, <2>6, <2>7, <2>8 DEF HasRead, FilePlaced
  <2> QED BY <2>2, <2>9
<1>2. CASE Initialize \/ (\E type \in {Video, Audio} : CopySequenceHeader(type))
             \/ (\E kind \in Kinds, step \in Steps : WriteSample(kind, step)) \/ FlushMoov
  BY <1>2, RecordStep
<1>3. CASE FlushMdat
  BY <1>3, FlushStep
<1>4. CASE \E n \in 0..Len(file) : Cut(n)
  BY <1>4, CutStep
<1>5. CASE \E boxes \in Layouts : Mux(boxes)
  BY <1>5, MuxStep
<1>6. CASE Open \/ ReadMore \/ Discover \/ SkipMdat \/ TakeBox \/ ParseMoov \/ GiveHeader \/ ReadSample
  <2>1. UNCHANGED encoder
    BY <1>6 DEF Open, ReadMore, Discover, SkipMdat, TakeBox, ParseMoov, GiveHeader, ReadSample
  <2>2. Recorded'
    BY <2>1, RecordKept
  <2>3. HasRead'
    BY <1>6, OpenReads, LoadReads, SamplesRead
  <2> QED BY <2>2, <2>3
<1> QED BY <1>1, <1>2, <1>3, <1>4, <1>5, <1>6 DEF Next

(* A file of the encoder opens only when its flush has ended, and a file   *)
(* that is whole is refused only for a mdat box that the buffer holds      *)
(* whole, whoever made it, wherever the recorder died and the file was cut *)
(* (SrsMp4Encoder::flush, SrsMp4Decoder::initialize).                      *)
THEOREM FilesOpenWhenComplete == Spec => []OpensWhatIsComplete
<1>1. Recorded /\ HasRead => OpensWhatIsComplete
  BY DEF HasRead
<1> QED BY <1>1, FilesBegin, FilesStep, PTL DEF Spec

-----------------------------------------------------------------------------
(* What the moov box of a recording gives is what the encoder had.         *)
IsMoov(unit) == IsBox(unit) /\ unit.box = "moov"
HasTables(f, ss) == \A i \in 1..Len(f) : IsMoov(f[i]) => f[i].tables.samples = Load(Write(ss))
NoMoov(f) == \A i \in 1..Len(f) : ~IsMoov(f[i])
Tabled ==
    layout = Own =>
       /\ IsStored(written) /\ HasTables(file, written)
       /\ enc \in {"closed", "recording"} =>
             NoMoov(file) /\ \A i \in 1..Len(written) : written[i].offset < Len(file)
       /\ dec \in {"loaded", "eof"} => samples = Load(Write(written))

(* What is written is what the encoder's tables can be made of.            *)
LEMMA StoredIs ==
  ASSUME NEW ss \in Seq(Sample), Sorted(ss)
  PROVE  IsStored(ss)
<1>1. \A i \in 1..Len(ss) : ss[i] \in Sample
  OBVIOUS
<1>2. IsSeq(ss)
  BY SeqIsSeq
<1> QED BY <1>1, <1>2 DEF IsStored, Sample

(* Only the first unit of a box is one.                                    *)
LEMMA OneBox ==
  ASSUME NEW name, NEW sz, NEW n \in Nat, NEW tables, NEW i \in 1..n, IsBox(Units(name, sz, n, tables)[i])
  PROVE  i = 1
<1> SUFFICES ASSUME i # 1 PROVE FALSE
  OBVIOUS
<1>1. Units(name, sz, n, tables)[i] = [of |-> name, part |-> i]
  BY DEF Units
<1>2. ~IsBox([of |-> name, part |-> i])
  BY DEF IsBox
<1> QED BY <1>1, <1>2

(* Only the moov box of the encoder is one, and it has the tables.         *)
LEMMA UnitsTabled ==
  ASSUME NEW name, NEW sz, NEW n \in Nat \ {0}, NEW tables, NEW ss,
         name = "moov" => tables.samples = Load(Write(ss))
  PROVE  /\ HasTables(Units(name, sz, n, tables), ss)
         /\ name # "moov" => NoMoov(Units(name, sz, n, tables))
<1> DEFINE u == Units(name, sz, n, tables)
<1>1. IsSeq(u) /\ Len(u) = n /\ u[1].box = name /\ u[1].tables = tables
  BY UnitsOf
<1>2. \A i \in 1..n : IsBox(u[i]) => i = 1
  BY OneBox
<1> HIDE DEF u
<1>3. HasTables(u, ss)
  BY <1>1, <1>2 DEF HasTables, IsMoov
<1>4. name # "moov" => NoMoov(u)
  BY <1>1, <1>2 DEF NoMoov, IsMoov
<1> QED BY <1>3, <1>4 DEF u

(* What is joined of files has what both have.                             *)
LEMMA JoinTabled ==
  ASSUME NEW f, NEW g, IsSeq(f), IsSeq(g), NEW ss
  PROVE  /\ HasTables(f, ss) /\ HasTables(g, ss) => HasTables(f \o g, ss)
         /\ NoMoov(f) /\ NoMoov(g) => NoMoov(f \o g)
<1> DEFINE r == f \o g
           m == Len(f)
           n == Len(g)
<1>1. IsJoined(r, f, g)
  BY SeqJoined
<1> HIDE DEF r
<1>2. /\ Len(r) = m + n /\ m \in Nat /\ n \in Nat
      /\ \A i \in 1..m : r[i] = f[i]
      /\ \A i \in 1..n : r[m + i] = g[i]
  BY <1>1 DEF IsJoined
<1> HIDE DEF m, n
<1>3. \A i \in 1..(m + n) : (\E j \in 1..m : r[i] = f[j]) \/ \E j \in 1..n : r[i] = g[j]
  <2> SUFFICES ASSUME NEW i \in 1..(m + n)
               PROVE  (\E j \in 1..m : r[i] = f[j]) \/ \E j \in 1..n : r[i] = g[j]
    OBVIOUS
  <2>1. CASE i \in 1..m
    BY <1>2, <2>1
  <2>2. CASE i \notin 1..m
    <3>1. i - m \in 1..n /\ m + (i - m) = i
      BY <1>2, <2>2
    <3> QED BY <1>2, <3>1
  <2> QED BY <2>1, <2>2
<1>4. ASSUME HasTables(f, ss), HasTables(g, ss) PROVE HasTables(r, ss)
  BY <1>2, <1>3, <1>4 DEF HasTables, m, n
<1>5. ASSUME NoMoov(f), NoMoov(g) PROVE NoMoov(r)
  BY <1>2, <1>3, <1>5 DEF NoMoov, m, n
<1> QED BY <1>4, <1>5 DEF r

(* Nothing is written yet.                                                 *)
LEMMA TablesBegin == Init => Tabled
<1> SUFFICES ASSUME Init PROVE Tabled
  OBVIOUS
<1>1. file = <<>> /\ written = <<>> /\ dec = "closed"
  BY DEF Init
<1>2. Sorted(<<>>) /\ <<>> \in Seq(Sample)
  BY DEF Sorted
<1>3. IsStored(written)
  BY <1>1, <1>2, StoredIs
<1>4. Len(file) = 0 /\ Len(written) = 0
  BY <1>1
<1> QED BY <1>1, <1>3, <1>4 DEF Tabled, HasTables, NoMoov

(* The steps of the recording (SrsMp4Encoder::write_sample, flush).        *)
LEMMA InitializeTabled == ASSUME Recorded, HasRead, Tabled, Initialize PROVE Tabled'
<1> DEFINE a == Whole("ftyp", NoTables)
           b == Mdat(0)
<1>1. /\ enc = "closed" /\ enc' = "recording" /\ file' = a \o b
      /\ written' = written /\ layout' = layout /\ written = <<>> /\ layout = Own /\ dec' = dec
  BY DEF Initialize, Recorded, decoder
<1>2. dec = "closed"
  BY <1>1 DEF HasRead
<1>3. a = Units("ftyp", Start, Start, NoTables) /\ b = Units("mdat", Header, Header, NoTables) /\ Header \in Nat \ {0}
  BY SizesAre DEF Whole, Mdat
<1>4. /\ IsSeq(a) /\ NoMoov(a) /\ HasTables(a, written)
      /\ IsSeq(b) /\ NoMoov(b) /\ HasTables(b, written)
  <2>1. Start \in Nat \ {0}
    BY SizesAre
  <2> QED BY <1>3, <2>1, UnitsOf, UnitsTabled
<1> HIDE DEF a, b
<1>5. HasTables(file', written) /\ NoMoov(file')
  BY <1>1, <1>4, JoinTabled
<1>6. IsStored(written) /\ Len(written) = 0
  BY <1>1 DEF Tabled
<1> QED BY <1>1, <1>2, <1>5, <1>6 DEF Tabled

(* A sample is written at the end of the file, behind all others.          *)
LEMMA WriteSampleTabled ==
  ASSUME Recorded, HasRead, Tabled, NEW kind \in Kinds, NEW step \in Steps, WriteSample(kind, step)
  PROVE  Tabled'
<1> DEFINE d == Data(Len(written) + 1, kind.size)
           w == [type |-> kind.type, size |-> kind.size, key |-> kind.key, offset |-> Len(file),
                 dts |-> LastDts + step, pts |-> LastDts + step + kind.cts]
<1>1. /\ enc = "recording" /\ enc' = enc /\ file' = file \o d /\ layout' = layout
      /\ written' = Append(written, w) /\ dec' = dec
  BY DEF WriteSample, decoder
<1>2. /\ written \in Seq(Sample) /\ IsSeq(file) /\ layout = Own /\ dec = "closed"
  BY <1>1 DEF Recorded, HasRead
<1>3. /\ IsStored(written) /\ NoMoov(file) /\ \A i \in 1..Len(written) : written[i].offset < Len(file)
  BY <1>1, <1>2 DEF Tabled
<1>4. written' \in Seq(Sample)
  BY WriteSampleRecords DEF Recorded
<1>5. kind.size \in Nat \ {0}
  BY KindsAssumption
<1>6. IsSeq(d) /\ Len(d) = kind.size /\ NoMoov(d)
  BY <1>5, DataOf DEF NoMoov, IsMoov
<1>7. w.offset = Len(file)
  OBVIOUS
<1> HIDE DEF d, w
<1>8. Len(file') = Len(file) + kind.size /\ Len(file) \in Nat
  <2>1. IsJoined(file \o d, file, d)
    BY <1>2, <1>6, SeqJoined
  <2> QED BY <1>1, <1>6, <2>1 DEF IsJoined
<1>9. NoMoov(file')
  BY <1>1, <1>2, <1>3, <1>6, JoinTabled
<1>10. HasTables(file', written')
  BY <1>9 DEF HasTables, NoMoov
<1> DEFINE n == Len(written)
<1>11. /\ n \in Nat /\ Len(written') = n + 1 /\ written'[n + 1] = w
       /\ \A i \in 1..n : written'[i] = written[i] /\ written[i] \in Sample
  <2> DEFINE All == Sample \cup {w}
  <2>1. /\ n \in Nat /\ \A i \in 1..n : written[i] \in Sample
    BY <1>2
  <2>2. written \in Seq(All) /\ w \in All
    BY <1>2, SeqMonotonic
  <2> HIDE DEF All
  <2>3. /\ Len(Append(written, w)) = n + 1 /\ Append(written, w)[n + 1] = w
        /\ \A i \in 1..n : Append(written, w)[i] = written[i]
    BY <2>2
  <2> QED BY <1>1, <2>1, <2>3
<1>12. \A i \in 1..n : written[i].offset \in Int
  BY <1>11 DEF Sample
<1> HIDE DEF n
<1>13. \A i \in 1..(n + 1) : i \in 1..n \/ i = n + 1
  BY <1>11
<1>14. \A i \in 1..n : written[i].offset < Len(file)
  BY <1>3 DEF n
<1>15. \A i \in 1..Len(written') : written'[i].offset < Len(file')
  <2> SUFFICES ASSUME NEW i \in 1..(n + 1) PROVE written'[i].offset < Len(file')
    BY <1>11
  <2>1. CASE i \in 1..n
    <3>1. written'[i].offset = written[i].offset
      BY <1>11, <2>1
    <3> QED BY <1>5, <1>8, <1>12, <1>14, <2>1, <3>1
  <2>2. CASE i = n + 1
    <3>1. written'[i].offset = Len(file)
      BY <1>7, <1>11, <2>2
    <3> QED BY <1>5, <1>8, <3>1
  <2> QED BY <1>13, <2>1, <2>2
<1>16. Sorted(written')
  <2> SUFFICES ASSUME NEW i \in 1..(n + 1), NEW j \in 1..(n + 1), i < j
               PROVE  written'[i].offset < written'[j].offset
    BY <1>11 DEF Sorted
  <2>1. i \in 1..n
    BY <1>11
  <2>2. CASE j \in 1..n
    <3>1. Sorted(written)
      BY <1>3 DEF IsStored
    <3>2. written[i].offset < written[j].offset
      BY <2>1, <2>2, <3>1 DEF Sorted, n
    <3> QED BY <1>11, <2>1, <2>2, <3>2
  <2>3. CASE j = n + 1
    BY <1>7, <1>11, <1>14, <2>1, <2>3
  <2> QED BY <1>13, <2>2, <2>3
<1>17. IsStored(written')
  BY <1>4, <1>16, StoredIs
<1> QED BY <1>1, <1>2, <1>9, <1>10, <1>15, <1>17 DEF Tabled

(* The tables are those of the samples that were written.                  *)
LEMMA FlushMoovTabled == ASSUME Recorded, HasRead, Tabled, FlushMoov PROVE Tabled'
<1> DEFINE tracks == Write(written)
           tables == [types |-> DOMAIN tracks, headers |-> headers, legal |-> Loadable(tracks),
                      samples |-> IF Loadable(tracks) THEN Load(tracks) ELSE <<>>]
           v == Moov(tracks)
<1>1. /\ enc = "recording" /\ enc' = "flushing" /\ file' = file \o v
      /\ written' = written /\ layout' = layout /\ dec' = dec
  BY DEF FlushMoov, decoder
<1>2. written \in Seq(Sample) /\ IsSeq(file) /\ layout = Own /\ dec = "closed"
  BY <1>1 DEF Recorded, HasRead
<1>3. IsStored(written) /\ HasTables(file, written)
  BY <1>2 DEF Tabled
<1>4. Loadable(tracks)
  <2>1. written \in Seq(Range(written))
    BY <1>2, SeqIsSeq DEF IsSeq
  <2>2. Timed(written)
    <3>1. \A i \in DOMAIN written : written[i] \in Sample
      BY <1>2
    <3> QED BY <3>1 DEF Timed, Sample
  <2> QED BY <2>1, <2>2, WrittenIsLoadable
<1>5. v = Units("moov", Sizes["moov"], Sizes["moov"], tables)
  BY DEF Moov, Whole
<1>6. tables.samples = Load(Write(written))
  BY <1>4
<1> HIDE DEF tables, tracks
<1>7. IsSeq(v) /\ HasTables(v, written)
  <2>1. Sizes["moov"] \in Nat \ {0}
    BY SizesAre
  <2> HIDE DEF v
  <2> QED BY <1>5, <1>6, <2>1, UnitsOf, UnitsTabled
<1> HIDE DEF v
<1>8. HasTables(file', written)
  BY <1>1, <1>2, <1>3, <1>7, JoinTabled
<1> QED BY <1>1, <1>2, <1>3, <1>8 DEF Tabled

(* Patching the header of the mdat box leaves the rest.                    *)
LEMMA FlushMdatTabled == ASSUME Recorded, HasRead, Tabled, FlushMdat PROVE Tabled'
<1> DEFINE m == Mdat(Bytes)[1]
           a == Sizes["ftyp"] + 1
<1>1. /\ enc = "flushing" /\ enc' = "done" /\ file' = [file EXCEPT ![a] = m]
      /\ written' = written /\ layout' = layout /\ dec' = dec
  BY DEF FlushMdat, decoder
<1>2. IsSeq(file) /\ layout = Own /\ dec = "closed" /\ written \in Seq(Sample)
  BY <1>1 DEF Recorded, HasRead
<1>3. IsStored(written) /\ HasTables(file, written)
  BY <1>2 DEF Tabled
<1>4. ~IsMoov(m)
  <2>1. Mdat(Bytes) = Units("mdat", Header + Bytes, Header, NoTables) /\ Header \in Nat \ {0}
    BY SizesAre DEF Mdat
  <2>2. Mdat(Bytes)[1].box = "mdat"
    BY <2>1, UnitsOf
  <2> QED BY <2>2 DEF IsMoov
<1> HIDE DEF m, a
<1>5. Len(file') = Len(file) /\ \A i \in 1..Len(file) : file'[i] = file[i] \/ file'[i] = m
  <2>1. file \in Seq(Range(file)) /\ DOMAIN file = 1..Len(file) /\ Len(file) \in Nat
    BY <1>2 DEF IsSeq
  <2>2. DOMAIN file' = 1..Len(file) /\ \A i \in 1..Len(file) : file'[i] = file[i] \/ file'[i] = m
    BY <1>1, <2>1
  <2>3. Len(file') = Len(file)
    BY <2>1, <2>2, FlushMdatMakes DEF IsSeq
  <2> QED BY <2>2, <2>3
<1>6. HasTables(file', written)
  BY <1>3, <1>4, <1>5 DEF HasTables
<1> QED BY <1>1, <1>2, <1>3, <1>6 DEF Tabled

(* What is left of a file has the tables that it had.                      *)
LEMMA CutTabled == ASSUME Recorded, HasRead, Tabled, NEW n \in 0..Len(file), Cut(n) PROVE Tabled'
<1>1. /\ dec = "closed" /\ enc' = "cut" /\ file' = SubSeq(file, 1, n)
      /\ written' = written /\ layout' = layout /\ dec' = dec
  BY DEF Cut, decoder
<1>2. IsSeq(file)
  BY DEF Recorded
<1>3. ASSUME layout = Own PROVE IsStored(written) /\ HasTables(file, written)
  BY <1>3 DEF Tabled
<1>4. Len(file') = n /\ \A i \in 1..n : file'[i] = file[i]
  BY <1>1, <1>2, SeqCut
<1>5. \A i \in 1..n : i \in 1..Len(file)
  BY <1>2 DEF IsSeq
<1>6. layout = Own => HasTables(file', written)
  BY <1>3, <1>4, <1>5 DEF HasTables
<1> QED BY <1>1, <1>3, <1>6 DEF Tabled

(* What the reader is given comes from the moov box (parse_moov).          *)
LEMMA ParseTabled == ASSUME Recorded, HasRead, Tabled, ParseMoov PROVE Tabled'
<1>1. /\ dec = "loading" /\ box.box = "moov" /\ UNCHANGED <<enc, file, headers, written, layout>>
      /\ dec' = "refused" \/ (dec' = "loaded" /\ samples' = box.tables.samples)
  BY DEF ParseMoov, Refuse, encoder
<1>2. Reading /\ IsSeq(file)
  <2>1. enc \in {"done", "cut"} /\ FilePlaced
    BY <1>1 DEF HasRead
  <2>2. Reading
    BY <1>1, <2>1 DEF FilePlaced, PlacedTorn, PlacedIn, ReadsTorn, ReadsBoxes
  <2> QED BY <2>2 DEF Recorded
<1>3. box # NoBox
  BY <1>1 DEF NoBox
<1>4. box = file[Base + 1] /\ IsMoov(box) /\ Base + 1 \in 1..Len(file)
  <2>1. box = file[Base + 1] /\ IsBox(box) /\ Base < Len(file)
    BY <1>2, <1>3 DEF Reading
  <2>2. Base \in Nat /\ Len(file) \in Nat
    BY <1>2 DEF Reading, Base, IsSeq
  <2> QED BY <1>1, <2>1, <2>2 DEF IsMoov
<1>5. layout = Own => IsStored(written) /\ HasTables(file, written)
  BY DEF Tabled
<1>6. layout = Own => box.tables.samples = Load(Write(written))
  BY <1>4, <1>5 DEF HasTables
<1>7. enc \notin {"closed", "recording"}
  BY <1>1 DEF HasRead
<1> QED BY <1>1, <1>5, <1>6, <1>7 DEF Tabled

(* Every step keeps it.                                                    *)
LEMMA TablesStep == Recorded /\ HasRead /\ Tabled /\ [Next]_vars => Tabled'
<1> SUFFICES ASSUME Recorded, HasRead, Tabled, [Next]_vars PROVE Tabled'
  OBVIOUS
<1>1. ASSUME UNCHANGED <<enc, file, written, layout, samples>>, dec' = dec \/ dec' \notin {"loaded", "eof"} \/ dec = "loaded"
      PROVE  Tabled'
  BY <1>1 DEF Tabled
<1>2. CASE UNCHANGED vars
  <2>1. UNCHANGED <<enc, file, written, layout, samples>> /\ dec' = dec
    BY <1>2 DEF vars
  <2> QED BY <1>1, <2>1
<1>3. CASE Initialize \/ FlushMoov \/ FlushMdat \/ ParseMoov
  BY <1>3, InitializeTabled, FlushMoovTabled, FlushMdatTabled, ParseTabled
<1>4. CASE \E type \in {Video, Audio} : CopySequenceHeader(type)
  <2>1. UNCHANGED <<enc, file, written, layout, samples>> /\ dec' = dec
    BY <1>4 DEF CopySequenceHeader, decoder
  <2> QED BY <1>1, <2>1
<1>5. CASE \E kind \in Kinds, step \in Steps : WriteSample(kind, step)
  BY <1>5, WriteSampleTabled
<1>6. CASE \E n \in 0..Len(file) : Cut(n)
  BY <1>6, CutTabled
<1>7. CASE \E boxes \in Layouts : Mux(boxes)
  <2>1. PICK boxes \in Layouts : Mux(boxes)
    BY <1>7
  <2>2. layout' = boxes /\ boxes # Own
    BY <2>1, MuxMakes, LayoutsAssumption DEF Own
  <2> QED BY <2>2 DEF Tabled
<1>8. CASE Open \/ ReadMore \/ Discover \/ SkipMdat \/ TakeBox
  <2>1. UNCHANGED encoder /\ samples' = samples /\ dec' \in {"loading", "refused"}
    BY <1>8 DEF Open, ReadMore, Discover, SkipMdat, TakeBox, Refuse
  <2> QED BY <1>1, <2>1 DEF encoder
<1>9. CASE GiveHeader \/ ReadSample
  <2>1. UNCHANGED encoder /\ samples' = samples /\ dec = "loaded"
    BY <1>9 DEF GiveHeader, ReadSample
  <2> QED BY <1>1, <2>1 DEF encoder
<1> QED BY <1>2, <1>3, <1>4, <1>5, <1>6, <1>7, <1>8, <1>9 DEF Next

(* Of a recording of the encoder itself the reader loads all samples, and  *)
(* in a track in which no two samples that follow each other have the same *)
(* dts, what lies between two of them and, behind the first, between the   *)
(* dts and the pts is what it was, however the samples of both tracks come *)
(* and whatever their times are                                            *)
(* (SrsMp4SampleManager::write_track, load_trak, load).                    *)
THEOREM FilesKeepTimes == Spec => []TimesKept
<1>1. Tabled => TimesKept
  <2> SUFFICES ASSUME Tabled, layout = Own, dec \in {"loaded", "eof"} PROVE KeepsTimes(samples, written)
    BY DEF TimesKept, KeepsTimes
  <2> QED BY LoadKeepsTimes DEF Tabled
<1>2. Init => Recorded /\ HasRead /\ Tabled
  BY FilesBegin, TablesBegin
<1>3. Recorded /\ HasRead /\ Tabled /\ [Next]_vars => (Recorded /\ HasRead /\ Tabled)'
  BY FilesStep, TablesStep
<1> QED BY <1>1, <1>2, <1>3, PTL DEF Spec
=============================================================================
