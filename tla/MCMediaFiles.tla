---------------------------- MODULE MCMediaFiles ----------------------------
(* A process that works on media: an MP4 file that is recorded and read, an   *)
(* FLV file that is recorded and published, or raw frames that are published. *)
(* A small instance of each for TLC.                                          *)
EXTENDS Mp4File, PublishTool, RawFrames

Job(name) == [tool |-> name, list |-> 0, recur |-> 0]
Mp4Job == Job("mp4")
RawJob == Job("raw")
mediaVars == <<vars, publishVars, rawVars>>
MediaInit == Init /\ FileInit /\ RawInit /\ (ToolInit \/ Waits(Mp4Job) \/ Waits(RawJob))
MediaNext ==
    \/ plan = Mp4Job /\ Next /\ UNCHANGED <<publishVars, rawVars>>
    \/ plan = RawJob /\ RawNext /\ UNCHANGED <<vars, publishVars>>
    \/ plan \notin {Mp4Job, RawJob} /\ PublishNext /\ UNCHANGED <<vars, rawVars>>
\* Who reads a file goes on until an error or its end.
MediaSpec ==
    /\ MediaInit /\ [][MediaNext]_mediaVars
    /\ WF_mediaVars(plan = Mp4Job /\ Decode /\ UNCHANGED <<publishVars, rawVars>>)
    /\ WF_mediaVars(plan \notin {Mp4Job, RawJob} /\ Tool /\ UNCHANGED <<vars, rawVars>>)

\* Whoever reads a file comes to its end: the decoder unless it spins
\* (EveryReadEnds), a tool in any case (ToolEnds).
ReadersEnd == EveryReadEnds /\ ToolEnds

MCKinds == { [type |-> Video, size |-> 2, cts |-> 1, key |-> TRUE],
             [type |-> Video, size |-> 1, cts |-> 0, key |-> FALSE],
             [type |-> Audio, size |-> 1, cts |-> 1, key |-> FALSE] }
MCLayouts == { <<"ftyp", "free", "mdat", "moov">>, <<"ftyp", "moov", "free", "mdat">> }
MCSizes == [ftyp |-> 3, free |-> 2, moov |-> 4]

MCTagKinds == { [type |-> "video", size |-> 2], [type |-> "audio", size |-> 1], [type |-> "script", size |-> 1],
                [type |-> "video", size |-> 0], [type |-> "other", size |-> 1] }
MCPlans == { [tool |-> "rtmp", list |-> 0, recur |-> 2], [tool |-> "rtmp", list |-> 2, recur |-> 1],
             [tool |-> "hdl", list |-> 0, recur |-> 1], [tool |-> "play", list |-> 0, recur |-> 1] }

Avc(nut, id, size) == [nut |-> nut, id |-> id, size |-> size]
Adts(sound, rate, length) == [sound |-> sound, object |-> IF rate = 0 THEN "reserved" ELSE "lc", index |-> rate,
                               channels |-> 2, length |-> length]
AvcBuffer(pieces) == [media |-> "video", pieces |-> pieces, rate |-> 0]
AacBuffer(rate, pieces) == [media |-> "audio", pieces |-> pieces, rate |-> rate]
Sps(i) == Avc("sps", i, 4)
Pps(i) == Avc("pps", i, 1)
Idr == Avc("idr", 1, 5)
MCRawBuffers ==
    { AvcBuffer(<<Sps(1), Pps(1), Idr>>), AvcBuffer(<<Sps(2)>>), AvcBuffer(<<Pps(2)>>), AvcBuffer(<<Pps(1), Idr>>),
      AvcBuffer(<<Avc("aud", 1, 1), Sps(1), Pps(1), Idr>>), AvcBuffer(<<Avc("sps", 1, 3), Avc("nonidr", 1, 2)>>),
      AvcBuffer(<<Avc("none", 0, 0), Avc("sei", 1, 2), Avc("nonidr", 1, 2), Idr>>), AvcBuffer(<<Avc("bare", 1, 4), Idr>>),
      AacBuffer(3, <<Adts("adts", 3, "exact"), Adts("adts", 4, "exact")>>), AacBuffer(0, <<Adts("adts", 3, "exact")>>),
      AacBuffer(0, <<Adts("adts", 15, "exact")>>), AacBuffer(3, <<Adts("adts", 0, "exact")>>),
      AacBuffer(2, <<Adts("adts", 4, "exact"), Adts("adts", 4, "beyond")>>), AacBuffer(3, <<Adts("adts", 3, "below")>>),
      AacBuffer(3, <<Adts("bare", 3, "exact")>>), AacBuffer(3, <<Adts("other", 3, "exact")>>) }
=============================================================================
