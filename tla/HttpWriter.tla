------------------------------ MODULE HttpWriter ------------------------------
(* SrsHttpResponseWriter: a response with a length or in chunks.              *)
EXTENDS HttpWire

VARIABLES status, headerSent, contentLength, written
writerVars == <<status, headerSent, contentLength, written>>

OK == 200
WriterInit == status = 0 /\ headerSent = FALSE /\ contentLength = -1 /\ written = 0

\* write_header, which write calls too when the handler did not: the length is
\* the one that is in the headers by now.
WriteHeader(code, length) ==
    /\ status = 0
    /\ status' = code
    /\ contentLength' = length
    /\ UNCHANGED <<headerSent, written, wireVars>>

InChunks == contentLength = -1
\* send_header
Heading == IF headerSent THEN <<>> ELSE Headers(status, InChunks, contentLength)
Framed(data) == SizeLine(Len(data)) \o data \o Line
\* Mutant: the chunk has no end.
Unended(data) == SizeLine(Len(data)) \o data
Chunk(data) == Framed(data)

\* More than the length is counted as written and not sent.
Exceeded(n) == ~InChunks /\ written + n > contentLength
\* Mutant: nothing is checked.
NeverExceeded(n) == FALSE
Exceeds(n) == Exceeded(n)

Write(data) ==
    /\ status # 0
    /\ wire' = wire \o Heading \o (CASE InChunks -> Chunk(data) [] Exceeds(Len(data)) -> <<>> [] OTHER -> data)
    /\ headerSent' = TRUE
    /\ written' = written + Len(data)
    /\ UNCHANGED <<status, contentLength, open>>

\* writev: in chunks all the parts are one, and no header is sent before it,
\* be it that write_header was called and nothing was written yet.
Writev(data, more) ==
    /\ status # 0 /\ InChunks
    /\ wire' = wire \o Chunk(data \o more)
    /\ written' = written + Len(data \o more)
    /\ UNCHANGED <<status, headerSent, contentLength, open>>

\* Mutant: the last chunk is not ended.
OnlySize == SizeLine(0)
EndOfChunks == SizeLine(0) \o Line
\* final_request: in chunks it is the end of the body, whether the headers
\* were sent or not.
FinalRequest ==
    /\ status # 0
    /\ wire' = wire \o IF InChunks THEN EndOfChunks ELSE Heading
    /\ headerSent' = (headerSent \/ ~InChunks)
    /\ UNCHANGED <<status, contentLength, written, open>>
=============================================================================
