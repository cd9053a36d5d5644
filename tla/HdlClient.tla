------------------------------- MODULE HdlClient -------------------------------
(* SrsHDLClient: play a URL, then the FLV header and tag after tag out of the *)
(* body of the response, each part by a read_full of its own. The caller stops *)
(* at the first error, but may call again after a timeout or a bad tag.       *)
EXTENDS HttpReader

CONSTANTS
    BadTags,            \* what units may say that are taken for the header of a tag
    Arrivals,           \* how many units may arrive at once
    MaxTimeouts         \* bound: calls that time out

VARIABLES
    phase,              \* what is being read
    got,                \* units that the read_full at hand has
    tag,                \* the tag at hand: its header, then its data
    messages,           \* what recv_message gave
    result,             \* the error that the caller stopped at
    torn,               \* a timeout took units that were read or counted
    timeouts,
    astray,             \* history: it took for a header of a tag or for the
                        \* size of a chunk what is none
    strays              \* history: what recv_message gave since
strayVars == <<astray, strays>>
clientVars == <<phase, got, tag, messages, result, torn, timeouts, strayVars>>

NoTag == [type |-> "none", size |-> 0, time |-> 0, data |-> <<>>]
ASSUME BadTagsAssumption ==
    BadTags \subseteq [type : STRING \ {NoTag.type}, size : Nat, time : Nat, data : {<<>>}]
ClientInit ==
    /\ ReaderInit
    /\ phase = "idle" /\ got = <<>> /\ tag = NoTag /\ messages = <<>>
    /\ result = "none" /\ torn = FALSE /\ timeouts = 0
    /\ astray = FALSE /\ strays = <<>>

Ended == phase \in {"stopped", "aborted"}
Stop(error) == phase' = "stopped" /\ result' = error
Goto(next) == phase' = next /\ UNCHANGED result

\* play: the response is parsed before its status is looked at.
ReadResponse ==
    /\ phase = "headers"
    /\ ParseMessage
    /\ IF msg'.code = 200 THEN Goto("flv") ELSE Stop("not available")
    /\ UNCHANGED <<got, tag, messages, torn, timeouts, strayVars>>

-----------------------------------------------------------------------------
(* read_full *)

InFull == phase \in {"flv", "flv previous", "tag", "data", "previous"}
Want == CASE phase = "tag" -> TagHeaderUnits [] phase = "data" -> tag.size [] OTHER -> 1
Left == Want - Len(got)
\* Nothing is wanted of an empty tag, and read is called all the same.
Calling == InFull /\ (Left > 0 \/ Want = 0)
Waiting == (phase = "headers" \/ Calling \/ (InFull /\ inEnd)) /\ MustGrow

ReadChunkHeader ==
    /\ Calling /\ ChunkHeader
    /\ UNCHANGED clientVars
ReadMisread ==
    /\ Calling /\ MisreadChunk
    /\ astray' = TRUE
    /\ UNCHANGED <<phase, got, tag, messages, result, torn, timeouts, strays>>
ReadChunkEnd ==
    /\ InFull /\ ChunkEnd
    /\ UNCHANGED clientVars
ReadEndOfLength ==
    /\ Calling /\ EndOfLength
    /\ UNCHANGED clientVars
ReadBody ==
    /\ Calling /\ ReadSome(Left)
    /\ got' = got \o SubSeq(buf, 1, Some(Left))
    /\ UNCHANGED <<phase, tag, messages, result, torn, timeouts, strayVars>>
Failing ==
    /\ \/ Calling /\ isEof /\ ~inEnd /\ Stop("eof")
       \/ Calling /\ (EmptyChunkHeader \/ NegativeChunk) /\ Stop("chunk")
       \/ Calling /\ Asserts(Left) /\ Goto("aborted")
       \/ Waiting /\ Overflows /\ Stop("overflow")
    /\ UNCHANGED <<readerVars, wireVars, got, tag, messages, torn, timeouts, strayVars>>

-----------------------------------------------------------------------------
(* recv_flv_header and recv_message *)

\* What do_recv_message makes of a tag: the time of a script is not taken.
Message == [type |-> tag.type, time |-> IF tag.type = "script" THEN 0 ELSE tag.time, data |-> tag.data]
IsMedia(type) == type \in TagTypes
\* Mutant: what is neither audio nor script is video.
IsAny(type) == TRUE
Known(type) == IsMedia(type)
Give ==
    IF astray THEN strays' = Append(strays, Message) /\ UNCHANGED messages
    ELSE messages' = Append(messages, Message) /\ UNCHANGED strays

\* What comes where the header of a tag should be is taken for one.
Complete ==
    /\ InFull /\ Left = 0 /\ Want > 0 /\ ~inEnd
    /\ got' = <<>>
    /\ CASE phase = "flv" ->
              /\ IF got[1].is = "FLV" THEN Goto("flv previous") ELSE Stop("flv")
              /\ UNCHANGED <<tag, messages, strayVars>>
         [] phase = "flv previous" -> Goto("tag") /\ UNCHANGED <<tag, messages, strayVars>>
         [] phase = "tag" /\ got[1].is = "tag" ->
              /\ Goto("data")
              /\ tag' = [type |-> got[1].type, size |-> got[1].size, time |-> got[1].time, data |-> <<>>]
              /\ UNCHANGED <<messages, strayVars>>
         [] phase = "tag" /\ got[1].is # "tag" ->
              /\ Goto("data")
              /\ tag' \in BadTags
              /\ astray' = TRUE
              /\ UNCHANGED <<messages, strays>>
         [] phase = "data" ->
              /\ Goto("previous")
              /\ tag' = [tag EXCEPT !.data = got]
              /\ UNCHANGED <<messages, strayVars>>
         [] phase = "previous" ->
              /\ tag' = NoTag
              /\ IF Known(tag.type)
                 THEN Goto("tag") /\ Give
                 ELSE (Goto("tag") \/ Stop("tag type")) /\ UNCHANGED <<messages, strays>>
              /\ UNCHANGED astray
    /\ UNCHANGED <<readerVars, wireVars, torn, timeouts>>

\* A call that timed out is made again from its start.
Again == IF phase \in {"flv", "flv previous"} THEN "flv" ELSE "tag"
Timeout ==
    /\ Waiting /\ timeouts < MaxTimeouts
    /\ timeouts' = timeouts + 1
    /\ FailRead(Left)
    /\ got' = <<>> /\ tag' = NoTag
    /\ torn' = (torn \/ got # <<>> \/ phase \in {"flv previous", "data", "previous"} \/ inEnd \/ InChunk)
    /\ Stop("timeout") \/ (InFull /\ Goto(Again))
    /\ UNCHANGED <<messages, strayVars>>
Closed ==
    /\ Waiting /\ wire = <<>> /\ ~open
    /\ Stop("closed")
    /\ UNCHANGED <<readerVars, wireVars, got, tag, messages, torn, timeouts, strayVars>>
ReceiveSome(n) ==
    /\ Waiting
    /\ Receive(n)
    /\ UNCHANGED clientVars

ClientStep ==
    \/ ReadResponse \/ ReadChunkHeader \/ ReadMisread \/ ReadChunkEnd \/ ReadEndOfLength \/ ReadBody
    \/ Failing \/ Complete \/ Closed
    \/ \E n \in Arrivals : ReceiveSome(n)
=============================================================================
