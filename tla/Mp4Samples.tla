------------------------------ MODULE Mp4Samples ------------------------------
(* SrsMp4SampleManager: the samples of a file as the tables of its moov box,  *)
(* and back. A sample is a record of its type, its place in the file, its     *)
(* size, its times and whether it is a key frame.                             *)
EXTENDS Integers, Sequences, SequencesExt, FiniteSets, Selection

CONSTANT Modulus     \* times are kept in 32 bits: 2^32

ASSUME ModulusAssumption == Modulus \in Nat \ {0, 1}

Video == "video"
Audio == "audio"
OfType(samples, type) == Among(samples, {s \in Range(samples) : s.type = type})
Sum(numbers) == Accumulated([p \in Int \X Int |-> p[1] + p[2]], 0, numbers)
NoTable == <<>>
Run == [count : Nat, value : Int]

-----------------------------------------------------------------------------
(* Writing: runs of equal values, the last of which is still open.           *)

\* Mutant: a run goes on whatever the delta.
OneRun(entries, delta) ==
    [entries EXCEPT ![1] = [count |-> @.count + 1, value |-> delta]]
\* A delta of 0 in the open entry is taken for one that is not known yet.
DeltaRun(entries, delta) ==
    LET n == Len(entries) last == entries[n] IN
    IF last.value \in {0, delta} THEN [entries EXCEPT ![n] = [count |-> last.count + 1, value |-> delta]]
    ELSE Append(entries, [count |-> 1, value |-> delta])
Stts(track) ==
    Accumulated([p \in Seq(Run) \X Int |-> DeltaRun(p[1], p[2])], << [count |-> 1, value |-> 0] >>,
                [i \in 1..(Len(track) - 1) |-> (track[i + 1].dts - track[i].dts) % Modulus])

\* The first entry is opened with the offset of its constructor.
OffsetRun(entries, offset) ==
    LET n == Len(entries) IN
    IF n = 0 THEN << [count |-> 1, value |-> 0] >>
    ELSE IF entries[n].value = offset THEN [entries EXCEPT ![n].count = @ + 1]
    ELSE Append(entries, [count |-> 1, value |-> offset])
Ctts(track) ==
    Accumulated([p \in Seq(Run) \X Int |-> OffsetRun(p[1], p[2])], <<>>,
                [i \in DOMAIN track |-> track[i].pts - track[i].dts])

\* stss: the samples that are key frames, by their number in the track.
Stss(track) == SelectSeq([i \in DOMAIN track |-> i], LAMBDA i : track[i].key)

\* Every sample is a chunk of its own.
WriteTrack(samples, type, hasCts) ==
    LET track == OfType(samples, type) IN
    [stts |-> Stts(track),
     ctts |-> IF type = Video /\ hasCts THEN Ctts(track) ELSE NoTable,
     stss |-> IF type = Video THEN <<Stss(track)>> ELSE NoTable,
     stsc |-> << [first |-> 1, samples |-> 1] >>,
     stsz |-> [i \in DOMAIN track |-> track[i].size],
     stco |-> [i \in DOMAIN track |-> track[i].offset]]
Write(samples) ==
    LET hasCts == \E i \in DOMAIN samples : samples[i].dts # samples[i].pts
        types == {samples[i].type : i \in DOMAIN samples}
    IN [type \in types |-> WriteTrack(samples, type, hasCts)]

-----------------------------------------------------------------------------
(* Loading *)

\* initialize_counter and on_sample: the entries of the first n samples, or
\* fewer when the table ends before them.
OnSample(c, k) ==
    LET moves == k > c.count
        at == IF moves THEN c.at + 1 ELSE c.at
    IN IF c.over \/ (moves /\ c.at = Len(c.entries)) THEN [c EXCEPT !.over = TRUE]
       ELSE [entries |-> c.entries, at |-> at, values |-> Append(c.values, c.entries[at].value), over |-> FALSE,
             count |-> IF moves THEN c.count + c.entries[at].count ELSE c.count]
Counter == [entries : Seq(Run), at : Nat, count : Nat, values : Seq(Int), over : BOOLEAN]
Counted(entries, n) ==
    Accumulated([p \in Counter \X Nat |-> OnSample(p[1], p[2])],
                [entries |-> entries, at |-> 1, count |-> entries[1].count, values |-> <<>>, over |-> FALSE],
                [k \in 1..n |-> k]).values

\* on_chunk: how many samples each of the n chunks has.
OnChunk(c, ci) ==
    LET at == IF c.at < Len(c.entries) /\ ci >= c.entries[c.at + 1].first THEN c.at + 1 ELSE c.at
    IN [entries |-> c.entries, at |-> at, counts |-> Append(c.counts, c.entries[at].samples)]
ChunkCounter == [entries : Seq([first : Nat, samples : Nat]), at : Nat, counts : Seq(Nat)]
SamplesPerChunk(stsc, n) ==
    Accumulated([p \in ChunkCounter \X Nat |-> OnChunk(p[1], p[2])],
                [entries |-> stsc, at |-> 1, counts |-> <<>>], [ci \in 1..n |-> ci]).counts

\* A track whose tables do not fit each other is refused.
Offsets(t, n) == IF t.ctts = NoTable THEN [k \in 1..n |-> 0] ELSE Counted(t.ctts, n)
Fitting(t) ==
    LET n == Sum(SamplesPerChunk(t.stsc, Len(t.stco)))
    IN n = Len(t.stsz) /\ Len(Counted(t.stts, n)) >= n /\ Len(Offsets(t, n)) >= n
Loadable(tracks) == \A type \in DOMAIN tracks : Fitting(tracks[type])

\* The first sample of a track has the time 0.
LoadTrak(type, t) ==
    LET perChunk == SamplesPerChunk(t.stsc, Len(t.stco))
        n == Sum(perChunk)
        deltas == Counted(t.stts, n)
        offsets == Offsets(t, n)
        places == FlattenSeq([ci \in DOMAIN perChunk |->
                                [i \in 1..perChunk[ci] |-> [chunk |-> ci, before |-> i - 1]]])
        Place(k) == t.stco[places[k].chunk] + Sum(SubSeq(t.stsz, k - places[k].before, k - 1))
        Dts(k) == Sum(SubSeq(deltas, 2, k))
    IN [k \in 1..n |->
          [type |-> type, offset |-> Place(k), size |-> t.stsz[k],
           dts |-> Dts(k), pts |-> Dts(k) + offsets[k],
           key |-> type = Video /\ (t.stss = NoTable \/ k \in Range(t.stss[1]))]]

\* tses: the samples of both tracks by their place in the file, one for each.
Keyed(sorted, s) ==
    Among(sorted, {u \in Range(sorted) : u.offset < s.offset}) \o <<s>>
      \o Among(sorted, {u \in Range(sorted) : u.offset > s.offset})
ByPlace(list) == Accumulated([p \in Seq(Range(list)) \X Range(list) |-> Keyed(p[1], p[2])], <<>>, list)
Merged(tracks) ==
    LET Loaded(type) == IF type \in DOMAIN tracks THEN LoadTrak(type, tracks[type]) ELSE <<>>
    IN ByPlace(Loaded(Video) \o Loaded(Audio))

\* How far audio is ahead of or behind the video right before it.
Signed(n) == LET m == n % Modulus IN IF 2 * m >= Modulus THEN m - Modulus ELSE m
Diffs(samples) ==
    {Signed(samples[i].dts - samples[i - 1].dts) :
       i \in {j \in 2..Len(samples) : samples[j].type = Audio /\ samples[j - 1].type = Video}}
Farthest(S) == CHOOSE x \in S : \A y \in S : x >= y
Adjust(samples) ==
    LET maxp == Farthest(Diffs(samples) \cup {0})
        maxn == -Farthest({-d : d \in Diffs(samples)} \cup {0})
    IN IF maxp * maxn = 0 THEN 0 - maxp - maxn ELSE 0

\* dts_ms and pts_ms, unsigned, with the adjustment of audio.
InMs(s, adjust) ==
    LET a == IF s.type = Audio THEN adjust ELSE 0
    IN [type |-> s.type, offset |-> s.offset, size |-> s.size, key |-> s.key,
        dts |-> (s.dts + a) % Modulus, pts |-> (s.pts + a) % Modulus]

Load(tracks) ==
    LET samples == Merged(tracks)
    IN [i \in DOMAIN samples |-> InMs(samples[i], Adjust(samples))]
=============================================================================
