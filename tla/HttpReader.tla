------------------------------ MODULE HttpReader ------------------------------
(* SrsHttpParser and SrsHttpResponseReader: the headers of a response and its *)
(* body, read through SrsFastBuffer. Where the units lie in the buffer is     *)
(* left out: FastStream models that.                                          *)
EXTENDS HttpWire

CONSTANTS
    Cap,             \* units that the buffer holds
    Misread          \* what strtol may make of a line that is no size
ASSUME CapAssumption == Cap \in Nat
ASSUME MisreadAssumption == Misread \subseteq Int

VARIABLES
    buf,             \* SrsFastBuffer: the units from p to end
    msg,             \* SrsHttpMessage: what the headers say
    nbLeft, total, isEof,
    inEnd            \* the read at hand is at the CRLF that ends a chunk
bodyVars == <<nbLeft, total, isEof, inEnd>>
readerVars == <<buf, msg, nbLeft, total, isEof, inEnd>>

NoMsg == [code |-> 0, chunked |-> FALSE, length |-> -1]
ReaderInit ==
    /\ buf = <<>> /\ msg = NoMsg
    /\ nbLeft = 0 /\ total = 0 /\ isEof = FALSE /\ inEnd = FALSE

Lesser(m, n) == IF m < n THEN m ELSE n
After(n) == SubSeq(buf, n + 1, Len(buf))

\* parse_message_imp: http_parser is given the buffer when the end of the
\* headers is in it. The parser is external; of what does not begin with
\* headers it parses nothing, and more is read.
HeaderEnds == {i \in 4..Len(buf) : SubSeq(buf, i - 3, i) = Line \o Line}
HeadersIn == HeaderEnds # {} /\ buf[1].is = "headers"
ParseMessage ==
    /\ msg = NoMsg /\ HeadersIn
    /\ msg' = [code |-> buf[1].code, chunked |-> buf[1].chunked, length |-> buf[1].length]
    /\ buf' = After(CHOOSE i \in HeaderEnds : \A j \in HeaderEnds : i <= j)
    /\ UNCHANGED <<bodyVars, wireVars>>

\* How many units the line takes that the buffer begins with, 0 when its end
\* is not there.
LineLength ==
    LET ends == {i \in 1..(Len(buf) - 1) : SubSeq(buf, i, i + 1) = Line}
    IN IF ends = {} THEN 0 ELSE 1 + CHOOSE i \in ends : \A j \in ends : i <= j

Reading == ~isEof /\ ~inEnd
AllRead == nbLeft <= 0
NewChunk == msg.chunked /\ Reading /\ AllRead
InChunk == msg.chunked /\ Reading /\ ~AllRead

\* read_chunked: the last chunk has no data, and a line after it as the others.
BeginChunk(n) ==
    /\ nbLeft' = n
    /\ isEof' = (n = 0) /\ inEnd' = (n = 0)
    /\ buf' = After(LineLength)
    /\ UNCHANGED <<msg, total, wireVars>>
ChunkHeader == NewChunk /\ LineLength > 2 /\ buf[1].is = "size" /\ BeginChunk(buf[1].n)
\* A line of its own is an error, and a number below 0. Of any other line
\* strtol makes some number, 0 when it begins with none.
EmptyChunkHeader == NewChunk /\ LineLength = 2
NoChunkHeader == NewChunk /\ LineLength > 2 /\ buf[1].is # "size"
MisreadChunk == NoChunkHeader /\ \E n \in Misread : n >= 0 /\ BeginChunk(n)
NegativeChunk == NoChunkHeader /\ \E n \in Misread : n < 0
\* Whatever lies there is taken for the end of the chunk.
ChunkEnd ==
    /\ inEnd /\ Len(buf) >= 2
    /\ buf' = After(2)
    /\ inEnd' = FALSE
    /\ UNCHANGED <<msg, nbLeft, total, isEof, wireVars>>

\* read_specified: what there is, up to what is asked for.
ByLength == ~msg.chunked /\ msg.length # -1 /\ Reading
Remaining == msg.length - total
\* Mutant: the last unit of the body is left.
AllButOne == msg.length - total - 1
LengthLeft == Remaining
EndOfLength ==
    /\ ByLength /\ LengthLeft <= 0
    /\ isEof' = TRUE
    /\ UNCHANGED <<buf, msg, nbLeft, total, inEnd, wireVars>>
InBody == InChunk \/ (ByLength /\ LengthLeft > 0) \/ (~msg.chunked /\ msg.length = -1 /\ Reading)
Some(n) ==
    LET most == CASE msg.chunked -> Lesser(n, nbLeft) [] ByLength -> Lesser(n, LengthLeft) [] OTHER -> n
    IN Lesser(most, Len(buf))
ReadSome(n) ==
    /\ InBody /\ buf # <<>> /\ Some(n) > 0
    /\ buf' = After(Some(n))
    /\ total' = total + Some(n)
    /\ nbLeft' = IF msg.chunked THEN nbLeft - Some(n) ELSE nbLeft
    /\ inEnd' = (msg.chunked /\ nbLeft = Some(n))
    /\ isEof' = (~msg.chunked /\ msg.length # -1 /\ total + Some(n) >= msg.length)
    /\ UNCHANGED <<msg, wireVars>>
\* srs_assert(nb_left_chunk) and srs_assert(nb_bytes)
Asserts(n) == InBody /\ ((msg.chunked /\ nbLeft = 0) \/ (buf # <<>> /\ Some(n) = 0))

\* SrsFastBuffer: the buffer has to grow before the read goes on.
MustGrow ==
    CASE msg = NoMsg -> ~HeadersIn
      [] inEnd -> Len(buf) < 2
      [] NewChunk -> LineLength = 0
      [] OTHER -> InBody /\ buf = <<>>
Overflows == Len(buf) = Cap
Receive(n) ==
    /\ n \in 1..Lesser(Len(wire), Cap - Len(buf))
    /\ buf' = buf \o SubSeq(wire, 1, n)
    /\ wire' = SubSeq(wire, n + 1, Len(wire))
    /\ UNCHANGED <<msg, bodyVars, open>>

\* A read of n units that fails: in a chunk they count as read all the same,
\* and the end of a chunk is not looked for again.
FailRead(n) ==
    /\ nbLeft' = IF InChunk THEN nbLeft - Lesser(nbLeft, n) ELSE nbLeft
    /\ inEnd' = FALSE
    /\ UNCHANGED <<buf, msg, total, isEof, wireVars>>
=============================================================================
