---------------------------- MODULE ClientSession ----------------------------
(***************************************************************************)
(* SrsRtmpClient, as srs_rtmp_do_simple_handshake,                         *)
(* srs_rtmp_fast_handshake_play, srs_rtmp_connect_app,                     *)
(* srs_rtmp_play_stream, srs_rtmp_publish_stream, srs_rtmp_write_packet,   *)
(* srs_rtmp_read_packet and srs_rtmp_fmle_unpublish_stream use it          *)
(* (src/libs/protocol/rtmp.cpp).                                           *)
(*                                                                         *)
(* The client is sequential: it sends a few messages, then waits in        *)
(* expect_message, which drops every message that does not decode to what  *)
(* the caller wants.  What it sends between two waits is one step, since   *)
(* nothing but its own queue can tell the difference.                      *)
(***************************************************************************)
EXTENDS SessionMessages

CONSTANTS
    Purposes,        \* what clients come for: play, fast (to play at once),
                     \* publish, flash
    MaxMedia         \* bound: how many pieces of media are sent

ASSUME PurposeAssumption ==
    Purposes \subseteq {"play", "fast", "publish", "flash"}
ASSUME MediaAssumption == MaxMedia \in Nat

VARIABLES
    purpose,         \* what this client came for
    cpc,             \* where the client is, named for what it waits for
    stream_id,       \* context->stream_id
    requests,        \* SrsProtocol::requests: command name by transaction id
    asked,           \* transaction ids of all requests sent, oldest first
    produced,        \* media the client has written
    msgs,            \* context->msgs: parts of an aggregate, not read yet
    played,          \* media srs_rtmp_read_packet has returned
    dropped,         \* media that expect_message has dropped
    fault            \* the error decode_message reported, if any

clientVars == <<purpose, cpc, stream_id, requests, asked, produced, msgs,
                played, dropped, fault>>

Tids == 1..4

ClientInit ==
    /\ purpose \in Purposes
    /\ cpc = "unshaken"
    /\ stream_id = 0
    /\ requests = [t \in Tids |-> "none"]
    /\ asked = << >>
    /\ produced = 0 /\ msgs = << >> /\ played = << >> /\ dropped = 0
    /\ fault = "none"

(* The packets each wait accepts.  fmle_publish waits for any packet where *)
(* it expects the result of createStream.                                  *)
Packets == {"ConnectAppRes", "CreateStreamRes", "FMLEStartRes",
            "OnStatusCall", "Call", "Control", "Data"}

Wanted ==
    [connecting |-> {"ConnectAppRes"}, creating |-> {"CreateStreamRes"},
     releasing |-> Packets, confirming |-> {"OnStatusCall"}]

Expects == cpc \in DOMAIN Wanted
Waits == Expects \/ cpc \in {"shaking", "fast"}

(* decode_message: a result is decoded as the request with its transaction *)
(* id asks for.  Set peer bandwidth and media give no packet at all.       *)
ResultPacket ==
    [connectRes |-> "ConnectAppRes", streamRes |-> "CreateStreamRes",
     fmleRes |-> "FMLEStartRes"]

DecodedResult(m) ==
    IF m.tid \notin Tids \/ requests[m.tid] = "none" THEN "no_request"
    ELSE IF ResultOf(requests[m.tid]) # m.kind THEN "undecodable"
    ELSE ResultPacket[m.kind]

OtherPacket(m) ==
    CASE m.kind \in {"onBWDone", "onFCPublish", "onFCUnpublish"} -> "Call"
      [] m.kind \in {"rejected", "playReset", "playStart", "publishStart",
                     "publishRefused", "unpublishSuccess"} -> "OnStatusCall"
      [] m.kind \in {"sampleAccess", "dataStart"} -> "Data"
      [] m.kind \in {"windowAck", "chunkSize", "ping", "streamBegin"}
            -> "Control"
      [] OTHER -> "none"

Decoded(m) ==
    IF m.kind \in Results THEN DecodedResult(m) ELSE OtherPacket(m)

Faults == {"no_request", "undecodable"}

-----------------------------------------------------------------------------
(* Sending.  on_send_packet records a request once it is written; no two   *)
(* requests between two waits have one id.                                 *)
NetConnectionOnly(m) ==           \* mutant: FMLE commands are not recorded
    m.kind \in {"connect", "createStream"}
Recorded(m) == m.kind \in Requests

RequestsAfter(ms) ==
    LET Under(t) == {i \in DOMAIN ms : Recorded(ms[i]) /\ ms[i].tid = t}
    IN  [t \in Tids |->
            IF Under(t) = {} THEN requests[t]
            ELSE ms[CHOOSE i \in Under(t) : TRUE].kind]

Sends(ms) ==
    /\ toServer' = toServer \o ms
    /\ requests' = RequestsAfter(ms)
    /\ asked' = asked \o TidsOf(RequestsIn(ms))
    /\ UNCHANGED <<toClient, closed>>

SendsOnly(ms, next) ==
    /\ Sends(ms)
    /\ cpc' = next
    /\ UNCHANGED <<purpose, stream_id, produced, msgs, played, dropped, fault>>

(* SrsSimpleHandshake::handshake_with_server: what it writes.              *)
WriteC0C1 ==
    /\ cpc = "unshaken" /\ purpose # "fast"
    /\ SendsOnly(<<Plain("c0c1")>>, "shaking")
WriteC2 == cpc = "shaken" /\ SendsOnly(<<Plain("c2")>>, "start")

(* SrsRtmpClient::fast_handshake, up to its wait.                          *)
FastHandshake ==
    /\ cpc = "unshaken" /\ purpose = "fast"
    /\ SendsOnly(<<Plain("fastHs")>>, "fast")

(* SrsRtmpClient::connect_app, up to its wait.                             *)
ConnectApp ==
    /\ cpc = "start"
    /\ SendsOnly(<<Call("connect", 1), Plain("windowAck")>>, "connecting")

(* srs_rtmp_play_stream begins with create_stream; so does flash publish.  *)
CreateStream ==
    /\ cpc = "connected" /\ purpose # "publish"
    /\ SendsOnly(<<Call("createStream", 2)>>, "creating")

(* SrsRtmpClient::play sends and returns.                                  *)
Play ==
    /\ cpc = "created" /\ purpose = "play"
    /\ SendsOnly(<<Over(stream_id, "play"), Plain("bufferLength"),
                   Plain("chunkSize")>>, "playing")

(* SrsRtmpClient::publish, the flash workflow, as well.                    *)
Publish ==
    /\ cpc = "created" /\ purpose = "flash"
    /\ SendsOnly(<<Plain("chunkSize"), Over(stream_id, "publish")>>,
                 "publishing")

(* fmle_publish up to its first wait; createStream has an id of its own.   *)
CreateStreamTid == 4

FmlePublish ==
    /\ cpc = "connected" /\ purpose = "publish"
    /\ Sends(<<Call("releaseStream", 2), Call("FCPublish", 3),
               Call("createStream", CreateStreamTid)>>)
    /\ stream_id' = 0
    /\ cpc' = "releasing"
    /\ UNCHANGED <<purpose, produced, msgs, played, dropped, fault>>

FmlePublishes ==
    /\ cpc = "released"
    /\ SendsOnly(<<Over(stream_id, "publish")>>, "confirming")

FmleUnpublish ==
    /\ cpc = "publishing" /\ purpose = "publish" /\ produced = MaxMedia
    /\ Sends(<<Call("FCUnpublish", 3)>>)
    /\ stream_id' = 0
    /\ cpc' = "unpublished"
    /\ UNCHANGED <<purpose, produced, msgs, played, dropped, fault>>

(* srs_rtmp_write_packet.                                                  *)
WritePacket ==
    /\ cpc = "publishing" /\ produced < MaxMedia
    /\ toServer' = Append(toServer, Media(stream_id, produced + 1))
    /\ produced' = produced + 1
    /\ UNCHANGED <<purpose, cpc, stream_id, requests, asked, msgs, played,
                   dropped, fault, toClient, closed>>

(* A send fails, once the connection is closed.                            *)
SendFails ==
    /\ closed
    /\ cpc \in {"unshaken", "shaken", "start", "connected", "created",
                "released", "publishing"}
    /\ cpc' = "failed"
    /\ UNCHANGED <<purpose, stream_id, requests, asked, produced, msgs, played,
                   dropped, fault, wireVars>>

-----------------------------------------------------------------------------
(* Receiving.                                                              *)
Gets ==
    /\ toClient # << >>
    /\ toClient' = Tail(toClient)
    /\ UNCHANGED <<purpose, requests, asked, produced, toServer, closed>>

(* The handshake reads its 3073 bytes past every buffer.                   *)
ReadS0S1S2 ==
    /\ cpc = "shaking" /\ Gets
    /\ Head(toClient).kind = "s0s1s2"
    /\ cpc' = "shaken"
    /\ UNCHANGED <<stream_id, msgs, played, dropped, fault>>

(* The flag of the answer is looked at first.  Then the client plays: it   *)
(* is told a stream id and does not keep it.                               *)
ReadFastHandshakeRes ==
    /\ cpc = "fast" /\ Gets
    /\ cpc' = IF Head(toClient).kind = "fastHsRes" THEN "playing" ELSE "failed"
    /\ UNCHANGED <<stream_id, msgs, played, dropped, fault>>

(* expect_message passes over what the caller does not want.               *)
IsMedia(m) == m.kind = "media"
IsAggregate(m) == m.kind = "aggregate"

DropsMessage ==
    /\ Expects /\ Gets
    /\ Decoded(Head(toClient)) \notin Wanted[cpc] \cup Faults
    /\ dropped' = IF IsMedia(Head(toClient)) \/ IsAggregate(Head(toClient))
                  THEN dropped + 1 ELSE dropped
    /\ UNCHANGED <<cpc, stream_id, msgs, played, fault>>

(* It ends with the message the caller wants.  create_stream and           *)
(* fmle_publish take the stream id out of the result of createStream.      *)
StreamIdAfter(m) ==
    IF Decoded(m) = "CreateStreamRes" THEN m.data ELSE stream_id

(* The loop at the end of fmle_publish gives up at the first status that   *)
(* is not NetStream.Publish.Start, and otherwise waits for more.           *)
AnyStatus(m) ==                   \* mutant: the code is not looked at
    CASE cpc = "connecting" -> "connected"
      [] cpc = "creating" -> "created"
      [] cpc = "releasing" -> "released"
      [] cpc = "confirming" -> "publishing"
After(m) ==
    CASE cpc = "connecting" -> "connected"
      [] cpc = "creating" -> "created"
      [] cpc = "releasing" -> "released"
      [] cpc = "confirming" ->
            IF m.kind = "publishStart" THEN "confirming" ELSE "refused"

(* Any error ends the loop of fmle_publish with ERROR_SUCCESS, and every   *)
(* other call with that error.                                             *)
TriesAgain == cpc                 \* mutant: waits on after an error
AfterError == IF cpc = "confirming" THEN "publishing" ELSE "failed"

EndsWait ==
    LET m == Head(toClient)
        failed == Decoded(m) \in Faults
    IN  /\ Expects /\ Gets
        /\ Decoded(m) \in Wanted[cpc] \cup Faults
        /\ stream_id' = StreamIdAfter(m)
        /\ cpc' = IF failed THEN AfterError ELSE After(m)
        /\ fault' = IF failed THEN Decoded(m) ELSE fault
        /\ UNCHANGED <<msgs, played, dropped>>

(* The receive timeout, or the end of the stream.                          *)
NothingArrives ==
    /\ Waits /\ toClient = << >>
    /\ cpc' = AfterError
    /\ UNCHANGED <<purpose, stream_id, requests, asked, produced, msgs, played,
                   dropped, fault, wireVars>>

(* srs_rtmp_read_packet returns whatever arrives, with its type; played is *)
(* what it returned as media.                                              *)
Piece(n, t) == [piece |-> n, time |-> t]
PlayedAfter(m) ==
    IF IsMedia(m) THEN Append(played, Piece(m.data, m.data)) ELSE played

ReadPacket ==
    /\ cpc = "playing" /\ msgs = << >> /\ Gets
    /\ ~IsAggregate(Head(toClient))
    /\ played' = PlayedAfter(Head(toClient))
    /\ UNCHANGED <<cpc, stream_id, msgs, dropped, fault>>

(* srs_rtmp_on_aggregate: the difference of the two clocks is taken at the *)
(* first part and, as long as it is negative, at each part again, which    *)
(* gives every part the time of the aggregate.                             *)
OwnTimes(m) ==                    \* mutant: the times are not adjusted
    [i \in 1..2 |-> Piece(m.data + i - 1, m.base + i - 1)]
Parts(m) ==
    LET Clocks(i) == m.data - (m.base + i)
        delta == [i \in 0..1 |-> IF i = 0 \/ Clocks(0) < 0 THEN Clocks(i)
                                                          ELSE Clocks(0)]
    IN  [i \in 1..2 |-> Piece(m.data + i - 1, m.base + i - 1 + delta[i - 1])]

OnAggregate ==
    /\ cpc = "playing" /\ msgs = << >> /\ Gets
    /\ IsAggregate(Head(toClient))
    /\ msgs' = Parts(Head(toClient))
    /\ UNCHANGED <<cpc, stream_id, played, dropped, fault>>

(* What is left of an aggregate is returned before anything is received.   *)
ReadPart ==
    /\ cpc = "playing" /\ msgs # << >>
    /\ played' = Append(played, Head(msgs))
    /\ msgs' = Tail(msgs)
    /\ UNCHANGED <<purpose, cpc, stream_id, requests, asked, produced, dropped,
                   fault, wireVars>>

(* All of it but giving up a wait.                                         *)
ClientStep ==
    \/ WriteC0C1 \/ ReadS0S1S2 \/ WriteC2
    \/ FastHandshake \/ ReadFastHandshakeRes
    \/ ConnectApp \/ CreateStream \/ Play \/ Publish
    \/ FmlePublish \/ FmlePublishes \/ WritePacket \/ FmleUnpublish
    \/ SendFails
    \/ DropsMessage \/ EndsWait \/ ReadPacket \/ OnAggregate \/ ReadPart
=============================================================================
