------------------------------- MODULE HdlStream -------------------------------
(* An SrsHDLClient plays from a server: one of SrsHttpServeMux and            *)
(* SrsHttpResponseWriter, or another that sends the body as it is. The        *)
(* handlers of the first are an application's; it may die at any time.        *)
EXTENDS HdlClient, HttpWriter, HttpMux, Selection

CONSTANTS
    Requests,           \* what is played: [host, parts, slash]
    Scripts,            \* sequences of tags [id, type, size, time] that are served
    Pieces,             \* how many units of a body are written at once
    Window              \* bound: units under way when the server writes

VARIABLES
    registered,         \* history: the registrations that succeeded
    request,            \* "none", or what the client plays
    served, pending,    \* what the server is doing and has to write
    sent                \* history: the tags of the body
serverVars == <<request, served, pending, sent>>
vars == <<wireVars, writerVars, readerVars, clientVars, muxVars, registered, serverVars>>

Tags == [id : Nat, type : STRING \ {NoTag.type}, size : Nat, time : Nat]
ASSUME ScriptsAssumption == Scripts \subseteq Seq(Tags)
ASSUME RequestsAssumption ==
    /\ \A r \in Requests : IsPath(r)
    /\ \A r \in Registrations : r.serves \in {"live", "file"}
\* A chunk without data is the last one.
ASSUME PiecesAssumption == Pieces \subseteq Nat \ {0}

NoRequest == [host |-> "", parts |-> <<>>, slash |-> FALSE]
Init ==
    /\ wire = <<>> /\ open = TRUE
    /\ WriterInit /\ ClientInit /\ MuxInit
    /\ registered = <<>> /\ request = NoRequest
    /\ served = "idle" /\ pending = <<>> /\ sent = <<>>

Body(script) == FlvHeader \o FlattenSeq([i \in DOMAIN script |-> WriteTag(script[i])])
Unsent == UNCHANGED <<wireVars, writerVars>>
ClientIdle == UNCHANGED <<readerVars, clientVars>>
MuxIdle == UNCHANGED <<muxVars, registered>>

Register(r) ==
    /\ phase = "idle" /\ Len(registered) < MaxRegistrations
    /\ \/ Handle(r.pattern, [serves |-> r.serves, to |-> r.pattern]) /\ registered' = Append(registered, r)
       \/ HandleDuplicate(r.pattern) /\ UNCHANGED registered
    /\ Unsent /\ ClientIdle /\ UNCHANGED serverVars

Play(r) ==
    /\ phase = "idle" /\ served = "idle"
    /\ Goto("headers")
    /\ request' = r
    /\ Unsent /\ MuxIdle /\ UNCHANGED <<readerVars, got, tag, messages, torn, timeouts, strayVars, served, pending, sent>>

-----------------------------------------------------------------------------
(* The server *)

Text == << [is |-> "text"] >>
Serving == open /\ served = "idle" /\ phase # "idle"
\* SrsHttpNotFoundHandler and SrsHttpRedirectHandler
ServeText(code) ==
    /\ WriteHeader(code, Len(Text))
    /\ pending' = Text /\ UNCHANGED sent
\* A live stream has no length. A file has; a handler may also promise one that
\* is less than what it writes.
ServeStream ==
    \E script \in Scripts : pending' = Body(script) /\ sent' = script /\ WriteHeader(OK, -1)
ServeFile ==
    \E script \in Scripts : \E length \in {0, Len(Body(script)) - 1, Len(Body(script))} :
        pending' = Body(script) /\ sent' = script /\ WriteHeader(OK, length)
ServeHttp ==
    LET handler == Match(request)
    IN /\ Serving
       /\ served' = "serving"
       /\ \/ handler = NotFound /\ ServeText(404)
          \/ handler.serves = "redirect" /\ ServeText(302)
          \/ handler.serves = "live" /\ ServeStream
          \/ handler.serves = "file" /\ ServeFile
       /\ ClientIdle /\ MuxIdle /\ UNCHANGED request

Piece(n) == SubSeq(pending, 1, n)
Sent(n) == pending' = SubSeq(pending, n + 1, Len(pending))
Sending == open /\ served = "serving" /\ pending # <<>> /\ Len(wire) <= Window
WriteBody(n) ==
    /\ Sending /\ n <= Len(pending)
    /\ Write(Piece(n))
    /\ Sent(n)
    /\ served' = IF Exceeds(n) THEN "failed" ELSE served
    /\ ClientIdle /\ MuxIdle /\ UNCHANGED <<request, sent>>
WritevBody(n) ==
    /\ Sending /\ 1 < n /\ n <= Len(pending)
    /\ Writev(Piece(1), SubSeq(pending, 2, n))
    /\ Sent(n)
    /\ ClientIdle /\ MuxIdle /\ UNCHANGED <<request, served, sent>>
Finish ==
    /\ open /\ served = "serving" /\ pending = <<>> /\ Len(wire) <= Window
    /\ FinalRequest
    /\ served' = "done"
    /\ ClientIdle /\ MuxIdle /\ UNCHANGED <<request, pending, sent>>

\* The other server has no mux.
ServeOther ==
    /\ Serving /\ registered = <<>>
    /\ served' = "plain"
    /\ \E fields \in {0, Cap} : wire' = LongHeaders(OK, fields)
    /\ \E script \in Scripts : pending' = Body(script) /\ sent' = script
    /\ ClientIdle /\ MuxIdle /\ UNCHANGED <<open, writerVars, request>>
SendOther(n) ==
    /\ open /\ served = "plain" /\ n <= Len(pending) /\ Len(wire) <= Window
    /\ wire' = wire \o Piece(n)
    /\ Sent(n)
    /\ ClientIdle /\ MuxIdle /\ UNCHANGED <<open, writerVars, request, served, sent>>
\* A connection ends when the server is through with it or dies; what is under
\* way may be lost with it.
Close ==
    /\ open /\ phase # "idle"
    /\ open' = FALSE
    /\ wire' \in {wire, <<>>}
    /\ served' = CASE served = "done" -> "done" [] served = "plain" /\ pending = <<>> -> "done" [] OTHER -> "failed"
    /\ ClientIdle /\ MuxIdle /\ UNCHANGED <<writerVars, request, pending, sent>>

ServerIdle == UNCHANGED <<writerVars, muxVars, registered, serverVars>>
Client == ClientStep /\ ServerIdle
ClientTimeout == Timeout /\ ServerIdle
Server == ServeHttp \/ Finish \/ ServeOther \/ \E n \in Pieces : WriteBody(n) \/ WritevBody(n) \/ SendOther(n)

Next ==
    \/ \E r \in Registrations : Register(r)
    \/ \E r \in Requests : Play(r)
    \/ Server \/ Close
    \/ Client \/ ClientTimeout
Spec == Init /\ [][Next]_vars /\ WF_vars(Client)

-----------------------------------------------------------------------------
(* Properties *)

\* The tags that a client is to be given, as it is to see them.
MediaOf(script) == {t \in Range(script) : t.type \in TagTypes}
AsSeen(t) ==
    [type |-> t.type, time |-> IF t.type \in {"audio", "video"} THEN t.time % Half ELSE 0,
     data |-> [k \in 1..t.size |-> [is |-> "data", of |-> t.id, part |-> k]]]
Delivered ==
    LET media == Among(sent, MediaOf(sent)) IN [i \in DOMAIN media |-> AsSeen(media[i])]

\* However the server cuts the body and the network parts it, the messages that
\* recv_message gives before the client goes astray are audio, video and script
\* tags that were sent, whole and in order, and none twice. None is left out
\* either, unless a call that is made again in the middle of a tag times out
\* too: it may do so right where the next tag begins. What a client gives that
\* has taken payload for a header or for the size of a chunk is up to the
\* payload; FailsForAReason says when that may be.
TagsInOrder ==
    /\ \E at \in [DOMAIN messages -> DOMAIN Delivered] :
          /\ \A i \in DOMAIN messages : messages[i] = Delivered[at[i]]
          /\ \A i, j \in DOMAIN messages : i < j => at[i] < at[j]
    /\ ~torn \/ timeouts <= 1 => IsPrefix(messages, Delivered)

\* The client is told that the response ended only when it did: in chunks all
\* the tags were received; with a length all of it was read.
EofAtEnd ==
    result = "eof" /\ ~torn =>
        IF msg.chunked THEN served = "done" /\ messages = Delivered
        ELSE total = msg.length /\ (total = Len(Body(sent)) => messages = Delivered)

\* A client takes for the header of a tag or the size of a chunk what is none,
\* and so gives what nobody sent, or finds a bad chunk or a bad FLV header, only
\* after a timeout in the middle of a tag or of a chunk.
KeepsItsPlace == astray \/ strays # <<>> \/ result \in {"chunk", "flv"} => torn

\* The assertions of read_chunked and read_specified fail for nothing but a tag
\* without data, or for what was taken for one.
AbortsOnEmptyTag == phase = "aborted" => tag.type # "none" /\ tag.size = 0

\* The client fails for a reason: only a timeout costs it its place, only a tag
\* without data an assertion.
FailsForAReason == KeepsItsPlace /\ AbortsOnEmptyTag

\* A handler that writes more than the length that it promised does not put
\* it behind the response: the next response would begin in it.
NothingBehindTheBody ==
    msg.length # -1 => total + Len(buf) + Len(wire) <= msg.length

\* The first chunk came before the headers of its response.
Headless == msg = NoMsg /\ buf \o wire # <<>> /\ (buf \o wire)[1].is # "headers"

\* A client that no timeout tore does not read on for ever when the response
\* has ended: it stops even if the connection is kept. A response that is
\* headless is excepted: it waits for headers.
StopsAtEnd == (served = "done" \/ ~open) ~> (Ended \/ torn \/ Headless)

\* What it means that a pattern is for a path.
Covers(p, r) ==
    IF p.slash THEN IsPrefix(p.parts, r.parts) /\ (p.parts # r.parts \/ r.slash)
    ELSE p.parts = r.parts /\ ~r.slash
Patterns == {registered[i].pattern : i \in DOMAIN registered}

\* A request that an explicit pattern matches is not answered 404, as long as
\* its host has no patterns of its own.
PatternsAnswer ==
    [][ServeHttp /\ status' = 404 =>
        LET host == IF \E p \in Patterns : p.host = request.host THEN request.host ELSE ""
        IN \A p \in Patterns : p.host = host => ~Covers(p, request)]_vars

\* A request gets a stream from the most particular of the trees that it is in,
\* whatever the order that they were registered in.
MostParticular ==
    [][ServeHttp /\ status' = OK =>
        LET own == Match(request).to
        IN \A p \in Patterns :
             p.host = own.host /\ p.slash /\ Covers(p, request) => Len(p.parts) <= Len(own.parts)]_vars

\* A request that a pattern matches gets a handler, and that of the most
\* particular tree.
FindsItsHandler == PatternsAnswer /\ MostParticular
=============================================================================
