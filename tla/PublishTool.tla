----------------------------- MODULE PublishTool -----------------------------
(* rtmp-publish, flv-publish and the file mode of rtmp-play: a loop over the  *)
(* tags of an FLV file, paced by the clock of rtmp_tool.                      *)
EXTENDS FlvFile, Selection

CONSTANTS
    Plans,       \* how the tool is called: [tool, list, recur]
    Epoch,       \* the clock at the begin
    MaxClock,    \* bound: the clock at the begin of a round
    Delays,      \* how long it takes to write a tag
    Pulse,       \* RE_PULSE_MS
    Jitter,      \* RE_PULSE_JITTER_MS
    SeiPeriod,   \* of inject_profiling_packet_sei
    SleepMod     \* usleep takes an unsigned integer

ASSUME PublishAssumption ==
    /\ Epoch \in Nat /\ SleepMod \in Nat \ {0}
    /\ Delays \in SUBSET Nat /\ \E d \in Delays : \A e \in Delays : e <= d

VARIABLES
    plan, pc, ret, recur, listed, \* listed: lines of the list that were read
    offset,                          \* of the file reader
    header, data,                 \* the tag in hand; data is a pointer
    starttime, timestamp,
    clock, base_time, base, re, last_sei, last_time,
    sent, rounds
toolVars == <<plan, pc, ret, recur, listed, offset, header, data, starttime, timestamp,
              clock, base_time, base, re, last_sei, last_time, sent, rounds>>
publishVars == <<fileVars, toolVars>>

U32(x) == x % TimeMod
S32(x) == LET u == U32(x) IN IF u >= TimeMod \div 2 THEN u - TimeMod ELSE u
NoHeader == [type |-> "audio", size |-> 0, time |-> 0, data |-> <<>>]
Sleep(diff) == IF diff > 0 THEN diff % SleepMod ELSE 0

-----------------------------------------------------------------------------
(* rtmp_tool *)

\* The startup time is an int here, and so is the difference to it.
re_create(now, startup) == LET adjust == S32(now - S32(startup)) IN IF adjust > 0 THEN now - adjust ELSE now

\* Mutant: the whole difference is unsigned.
AheadUnsigned(now, r, start, time) == U32(time - start - (now - r))
\* time - starttime is unsigned, and then taken from a 64 bit integer.
Ahead(now, r, start, time) == U32(time - start) - (now - r)
re_update(now, r, start, time) == LET diff == Ahead(now, r, start, time) IN
    IF diff > Pulse /\ diff < Jitter THEN now + Sleep(diff) ELSE now
\* Mutant: the last pulse is left out.
NoLastPulse(now, r, start, time) == now
re_cleanup(now, r, start, time) == now + Sleep(Ahead(now, r, start, time))

-----------------------------------------------------------------------------
(* The pointer data: deleting what is already gone is undefined, and either   *)
(* ends the process or is not noticed.                                        *)

Freed(pointer) == CASE pointer = "null" -> "null" [] pointer = "owned" -> "gone" [] OTHER -> "twice"

Waits(p) ==
    /\ plan = p /\ pc = "waits" /\ ret = "ok" /\ recur = p.recur /\ listed = 0
    /\ offset = 0 /\ header = NoHeader /\ data = "null" /\ starttime = -1 /\ timestamp = 0
    /\ clock = Epoch /\ base_time = Epoch /\ base = 0 /\ re = Epoch /\ last_sei = Epoch /\ last_time = 0
    /\ sent = <<>> /\ rounds = 0
ToolInit == \E p \in Plans : Waits(p)

Opens ==
    /\ pc = "waits" /\ recorder = "done"
    /\ pc' = "round"
    /\ UNCHANGED <<fileVars, plan, ret, recur, listed, offset, header, data, starttime, timestamp,
                   clock, base_time, base, re, last_sei, last_time, sent, rounds>>

FlvHeader == [kind |-> "header", type |-> "none", time |-> 0, round |-> 0, data |-> <<>>]
\* proxy and publish_concat up to do_proxy. A listed file may not open, and
\* the header may not go out. rtmp-play has one round and no use for the clock.
StartRound ==
    /\ pc = "round" /\ clock < MaxClock
    /\ timestamp' = 0 /\ starttime' = -1 /\ data' = "null"
    /\ base' = clock - base_time
    /\ \E d \in Delays : clock' = clock + d
    /\ re' = re_create(clock', clock) /\ last_sei' = clock'
    /\ offset' = BehindHeader(offset)
    /\ \/ ret' = ReadsHeader(offset)
       \/ ret' = "error" /\ (plan.tool = "hdl" \/ plan.list > 0)
    /\ pc' = IF ret' = "ok" THEN "tag" ELSE "done"
    /\ listed' = IF plan.list > 0 THEN listed + 1 ELSE listed
    /\ rounds' = IF ret' = "ok" THEN rounds + 1 ELSE rounds
    /\ sent' = IF ret' = "ok" /\ plan.tool = "hdl" THEN Append(sent, FlvHeader) ELSE sent
    /\ UNCHANGED <<fileVars, plan, recur, header, base_time, last_time>>

Sei(time) == [kind |-> "sei", type |-> "video", time |-> time, round |-> rounds, data |-> <<>>]
InjectSei ==
    /\ pc = "tag" /\ plan.tool = "rtmp" /\ clock - last_sei >= SeiPeriod
    /\ last_sei' = clock
    /\ \/ sent' = Append(sent, Sei(U32(timestamp + base))) /\ UNCHANGED <<pc, ret>>
       \/ pc' = "end" /\ ret' = "error" /\ UNCHANGED sent
    /\ UNCHANGED <<fileVars, plan, recur, listed, offset, header, data, starttime, timestamp,
                   clock, base_time, base, re, last_time, rounds>>

ReadTagHeader ==
    LET units == FileRead(offset, Len(Fields)) IN
    /\ pc = "tag" /\ (plan.tool = "rtmp" => clock - last_sei < SeiPeriod)
    /\ offset' = offset + Len(units)
    /\ IF AtEof(units)
       THEN /\ pc' = IF plan.tool = "play" THEN "free" ELSE "end"
            /\ ret' = "ok"
            /\ UNCHANGED <<header, timestamp, data>>
       ELSE \E h \in TagHeaders(units) :
            /\ header' = [type |-> h.type, size |-> h.size, time |-> h.time, data |-> <<>>]
            /\ timestamp' = h.time /\ ret' = "ok"
            /\ IF h.size <= 0 THEN pc' = "free" /\ UNCHANGED data ELSE pc' = "data" /\ data' = "owned"
    /\ UNCHANGED <<fileVars, plan, recur, listed, starttime, clock, base_time, base, re, last_sei,
                   last_time, sent, rounds>>

\* A file that cannot be read on gives another error, with the same effect.
ReadTagData ==
    /\ pc = "data"
    /\ offset' = BehindData(offset, header.size) /\ ret' = ReadsData(offset, header.size)
    /\ header' = [header EXCEPT !.data = FileRead(offset, header.size)]
    /\ pc' = IF ret' = "ok" THEN "write" ELSE "free"
    /\ UNCHANGED <<fileVars, plan, recur, listed, data, starttime, timestamp, clock, base_time,
                   base, re, last_sei, last_time, sent, rounds>>

\* srs_rtmp_write_packet takes the data in any case, and frees it twice when it
\* is of no type it knows; srs_hdl_write_tag leaves it to its caller, who frees
\* it only when it fails.
Tag == [kind |-> "tag", type |-> header.type, time |-> U32(timestamp + base), round |-> rounds,
        data |-> header.data]
Unknown == plan.tool = "rtmp" /\ ~IsAv(header.type) /\ header.type # "script"
\* Mutant: the caller keeps the packet.
KeptByCaller == data
FreedByWrite == IF plan.tool # "rtmp" THEN data ELSE IF Unknown THEN Freed(Freed(data)) ELSE Freed(data)
SendTag ==
    /\ pc = "write" /\ plan.tool # "play"
    /\ \/ /\ ~Unknown
          /\ sent' = Append(sent, Tag)
          /\ starttime' = IF starttime < 0 /\ IsAv(header.type) THEN S32(timestamp) ELSE starttime
          /\ \E d \in Delays : clock' = re_update(clock + d, re, starttime', timestamp)
          /\ pc' = "tag" /\ ret' = "ok" /\ data' = FreedByWrite
       \/ /\ data' = FreedByWrite
          /\ pc' \in (IF plan.tool = "rtmp" THEN {"end"} ELSE {"free"})
                    \cup (IF data' = "twice" THEN {"aborted"} ELSE {})
          /\ ret' = "error"
          /\ UNCHANGED <<sent, starttime, clock>>
    /\ UNCHANGED <<fileVars, plan, recur, listed, offset, header, timestamp, base_time, base, re,
                   last_sei, last_time, rounds>>
PrintTag ==
    /\ pc = "write" /\ plan.tool = "play"
    /\ sent' = Append(sent, Tag) /\ data' = Freed(data) /\ pc' = "tag"
    /\ UNCHANGED <<fileVars, plan, ret, recur, listed, offset, header, starttime, timestamp, clock,
                   base_time, base, re, last_sei, last_time, rounds>>

FreeData ==
    /\ pc = "free"
    /\ data' = Freed(data)
    /\ pc' \in IF data' = "twice" THEN {"end", "aborted"} ELSE {"end"}
    /\ UNCHANGED <<fileVars, plan, ret, recur, listed, offset, header, starttime, timestamp, clock,
                   base_time, base, re, last_sei, last_time, sent, rounds>>

\* Behind do_proxy. One file is read again from its begin after any result, as
\* long as the result was good; a list stops at the first bad one and ends a
\* round of it at its last line.
Again == recur' > 0 /\ ret = "ok"
EndFile ==
    /\ pc = "end" /\ plan.tool # "play" /\ plan.list = 0
    /\ clock' = re_cleanup(clock, re, starttime, timestamp)
    /\ offset' = 0 /\ recur' = recur - 1 /\ last_time' = base + timestamp
    /\ pc' = IF Again THEN "round" ELSE IF plan.tool = "rtmp" THEN "eos" ELSE "done"
    /\ UNCHANGED <<fileVars, plan, ret, listed, header, data, starttime, timestamp, base_time, base, re,
                   last_sei, sent, rounds>>
EndListed ==
    /\ pc = "end" /\ plan.list > 0
    /\ clock' = IF ret = "ok" THEN re_cleanup(clock, re, starttime, timestamp) ELSE clock
    /\ offset' = 0
    /\ IF ret = "ok" /\ listed < plan.list
       THEN pc' = "round" /\ UNCHANGED <<recur, listed>>
       ELSE recur' = recur - 1 /\ listed' = 0 /\ pc' = IF Again THEN "round" ELSE "done"
    /\ UNCHANGED <<fileVars, plan, ret, header, data, starttime, timestamp, base_time, base, re,
                   last_sei, last_time, sent, rounds>>
EndPlay ==
    /\ pc = "end" /\ plan.tool = "play"
    /\ pc' = "done"
    /\ UNCHANGED <<fileVars, plan, ret, recur, listed, offset, header, data, starttime, timestamp, clock,
                   base_time, base, re, last_sei, last_time, sent, rounds>>

\* inject_h264_stream_eof_packet; unpublishing is part of the session.
SendEos ==
    /\ pc = "eos"
    /\ \/ sent' = Append(sent, [Sei(U32(last_time)) EXCEPT !.kind = "eos"]) /\ ret' = "ok"
       \/ ret' = "error" /\ UNCHANGED sent
    /\ pc' = "done"
    /\ UNCHANGED <<fileVars, plan, recur, listed, offset, header, data, starttime, timestamp, clock,
                   base_time, base, re, last_sei, last_time, rounds>>

Tool ==
    \/ Opens \/ StartRound \/ InjectSei \/ ReadTagHeader \/ ReadTagData
    \/ SendTag \/ PrintTag \/ FreeData \/ EndFile \/ EndListed \/ EndPlay \/ SendEos
PublishNext == (Record /\ UNCHANGED toolVars) \/ Tool
PublishSpec == FileInit /\ ToolInit /\ [][PublishNext]_publishVars

-----------------------------------------------------------------------------
(* Properties *)

FileOf(tags) == Signature \o PreviousTagSize \o FlattenSeq([i \in DOMAIN tags |-> WriteTagUnits(i, tags[i])])
TagEnd(k) == Len(FileOf(SubSeq(recorded, 1, k)))
Plain(k) == recorded[k].size > 0 /\ (IsAv(recorded[k].type) \/ recorded[k].type = "script")
\* The tags that a round is to send: those that are whole up to a part of the
\* previous tag size behind them, before the first that the tool stops at.
Playable == { k \in DOMAIN recorded :
    Len(flv) > TagEnd(k) - PtsUnits /\ \A i \in 1..k : Plain(i) \/ (recorded[i].size > 0 /\ plan.tool # "rtmp") }
TagsOf(r) == Among(sent, {p \in Range(sent) : p.kind = "tag" /\ p.round = r})
AllSent(r) == Len(TagsOf(r)) = Cardinality(Playable)

\* Wherever the file was cut, a round sends whole tags only, unchanged, in
\* order and from the first: nothing that a short read of SrsFlvDecoder made up
\* goes out. Another round, and a good result where it is not overwritten by
\* that of the end of the stream, mean that none was left out.
PlaysWhatIsWhole ==
    /\ \A r \in 1..rounds : LET tags == TagsOf(r) IN
        /\ Len(tags) <= Cardinality(Playable)
        /\ \A i \in DOMAIN tags :
            tags[i].type = recorded[i].type /\ tags[i].data = DataUnits(i, recorded[i].size)
        /\ r < rounds => AllSent(r)
    /\ pc = "done" /\ ret = "ok" /\ (plan.tool # "rtmp" \/ plan.list > 0) /\ rounds > 0 => AllSent(rounds)

HeaderOnFile(k) == Len(flv) >= TagEnd(k) - PtsUnits - recorded[k].size
LastRead == {k \in DOMAIN recorded : HeaderOnFile(k) /\ \A i \in 1..(k - 1) : recorded[i].size > 0}
AvSent == SelectSeq(sent, LAMBDA p : p.kind = "tag" /\ IsAv(p.type))

\* base is the time of the wall when a round begins, and the times of the file
\* are added to it: the sleeps of re_update and, after the last tag, of
\* re_cleanup are what keeps the next round from going back in time. That is
\* so if the last tag that is read is audio or video: any other has time 0.
TimesGoOn ==
    (LastRead # {} => IsAv(recorded[Max(LastRead)].type))
        => \A i \in 1..(Len(AvSent) - 1) : AvSent[i].time <= AvSent[i + 1].time

HeaderCut == flv # <<>> /\ "field" \in DOMAIN Last(flv) /\ Last(flv).field # "stream"
\* The tool does not sleep for longer than its file lasts, whatever it takes to
\* write: unless the last time it read is below the first or was made up, when
\* the unsigned difference of re_cleanup is anything.
NeverOversleeps ==
    [][\/ clock' - clock <= Max(Delays) + LastTime - starttime'
       \/ HeaderCut \/ timestamp < starttime]_publishVars

\* A packet is freed once: the tool may delete what srs_rtmp_write_packet has
\* freed only behind a tag of no size, srs_rtmp_write_packet itself only one of a
\* type it does not know, and rtmp-play at the end of a file. rtmp-publish
\* leaves none behind when it goes on to the next tag.
OwnsItsPacket ==
    /\ data = "twice" => plan.tool = "play" \/ header.size <= 0 \/ Unknown
    /\ plan.tool = "rtmp" /\ pc = "tag" => data # "owned"

\* Once the file is there, the tool comes to its end.
ToolEnds == recorder = "done" ~> pc \in {"done", "aborted"}
=============================================================================
