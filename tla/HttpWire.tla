------------------------------- MODULE HttpWire -------------------------------
(* What an HTTP connection carries from the server to the client, and the FLV *)
(* tags in it. A unit of the wire stands for one or more bytes that the code  *)
(* writes at once; the ends of lines are two units, for they may be parted.   *)
EXTENDS Integers, Sequences, SequencesExt

CONSTANT Half        \* 2^31: the times that write_audio and write_video keep

VARIABLES wire, open \* the units under way, and whether the server may send more
wireVars == <<wire, open>>

ASSUME HalfAssumption == Half \in Nat \ {0}

Line == << [is |-> "CR"], [is |-> "LF"] >>
\* The headers that are looked at: the status, Transfer-Encoding and
\* Content-Length, which is -1 when there is none.
Headers(code, chunked, length) ==
    << [is |-> "headers", code |-> code, chunked |-> chunked, length |-> length] >> \o Line \o Line
\* The same with n more fields.
LongHeaders(code, n) ==
    << [is |-> "headers", code |-> code, chunked |-> FALSE, length |-> -1] >>
    \o [i \in 1..n |-> [is |-> "field"]] \o Line \o Line
SizeLine(n) == << [is |-> "size", n |-> n] >> \o Line

-----------------------------------------------------------------------------
(* SrsHDLProtocol: write_flv_header and write_flv_tag *)

FlvHeader == << [is |-> "FLV"], [is |-> "previous", size |-> 0] >>
TagHeaderUnits == 2
TagTypes == {"audio", "video", "script"}
\* write_flv_tag: what is neither audio nor video is written as a script is.
TimeWritten(tag) == IF tag.type \in {"audio", "video"} THEN tag.time % Half ELSE 0
WriteTag(tag) ==
    << [is |-> "tag", type |-> tag.type, size |-> tag.size, time |-> TimeWritten(tag)], [is |-> "stream id"] >>
       \o [i \in 1..tag.size |-> [is |-> "data", of |-> tag.id, part |-> i]]
       \o << [is |-> "previous", size |-> tag.size + TagHeaderUnits] >>
=============================================================================
