---------------------------- MODULE ServerSession ----------------------------
(***************************************************************************)
(* SrsRtmpServer (src/libs/protocol/rtmp.cpp).  The order of its calls is  *)
(* that of the server that embeds it, which is not in this repository: the *)
(* handshake, connect, the settings and the result, then identify          *)
(* the client and start what it came for.  The server may also reject the  *)
(* client, redirect it, or close the connection at any time.               *)
(***************************************************************************)
EXTENDS SessionMessages

CONSTANTS
    MaxServed,       \* bound: pieces of media and pings the server sends
    MaxAhead         \* bound: how far the clock of an aggregate is ahead

ASSUME ServedAssumption == MaxServed \in Nat /\ MaxAhead \in Nat

VARIABLES
    spc,             \* where the server is, named for what it waits for
    role,            \* the type identify_client found
    answered,        \* transaction ids of the requests it answered
    served,          \* media it has sent to a player
    taken,           \* media it has received from a publisher
    pinged           \* how many pings it has sent

serverVars == <<spc, role, answered, served, taken, pinged>>

ServerInit ==
    /\ spc = "shaking" /\ role = "none" /\ answered = << >>
    /\ served = 0 /\ taken = << >> /\ pinged = 0

SetsClient(ms, next) ==
    /\ toClient' = toClient \o ms
    /\ answered' = answered \o TidsOf(ResultsIn(ms))
    /\ spc' = next

(* The server sends ms without receiving anything.                         *)
Answers(ms, next) ==
    /\ ~closed
    /\ SetsClient(ms, next)
    /\ UNCHANGED <<toServer, closed, served, taken, pinged>>

(* It receives a message of one of the kinds, and answers with ms.         *)
Takes(kinds) ==
    /\ ~closed /\ toServer # << >>
    /\ Head(toServer).kind \in kinds
    /\ toServer' = Tail(toServer)
    /\ UNCHANGED <<closed, served, pinged>>

Request == Head(toServer)

(* What the server waits for.  identify_client passes over everything that *)
(* does not identify, expect_message over everything that is not expected. *)
Awaited ==
    [connecting |-> {"connect"},
     identifying |-> {"createStream", "play"} \cup FMLEStart,
     created |-> {"createStream", "play", "publish"},
     fc_publish |-> FMLEStart, create_stream |-> {"createStream"},
     publish |-> {"publish"}, publishing |-> {"media", "FCUnpublish"},
     playing |-> {}, redirecting |-> {}]

Ignores ==
    /\ spc \in DOMAIN Awaited
    /\ Takes(Kinds \ Awaited[spc])
    /\ UNCHANGED <<spc, role, answered, taken, toClient>>

-----------------------------------------------------------------------------
(* handshake: the complex one gives up at once without SSL, and the simple *)
(* one reads its two blocks whole.                                         *)
TakesC0C1 ==
    /\ spc = "shaking" /\ Takes({"c0c1"})
    /\ SetsClient(<<Plain("s0s1s2")>>, "reading_c2")
    /\ UNCHANGED <<role, taken>>

TakesC2 ==
    /\ spc = "reading_c2" /\ Takes({"c2"})
    /\ spc' = "connecting"
    /\ UNCHANGED <<role, answered, taken, toClient>>

(* A fast handshake does not begin with version 3, which the simple one    *)
(* refuses.                                                                *)
RefusesFastHandshake ==
    /\ spc = "shaking" /\ Takes({"fastHs"})
    /\ spc' = "leaving"
    /\ UNCHANGED <<role, answered, taken, toClient>>

(* Another server knows it, and may then begin with the media at once.     *)
TakesFastHandshake ==
    /\ spc = "shaking" /\ Takes({"fastHs"})
    /\ \E next \in {"identified", "playing"} :
          SetsClient(<<Plain("fastHsRes")>>, next)
    /\ role' = "play"
    /\ UNCHANGED taken

(* connect_app, and what the server does about it.                         *)
TakesConnect ==
    /\ spc = "connecting" /\ Takes({"connect"})
    /\ spc' = "deciding"
    /\ UNCHANGED <<role, answered, taken, toClient>>

Accepts ==
    /\ spc = "deciding"
    /\ \E done \in {<<Plain("onBWDone")>>, << >>} :
          Answers(<<Plain("windowAck"), Plain("peerBandwidth"),
                    Plain("chunkSize"), Call("connectRes", 1)>> \o done,
                  "identifying")
    /\ UNCHANGED role

(* response_connect_reject, then the connection is closed.                 *)
Rejects ==
    /\ spc = "deciding"
    /\ Answers(<<Plain("rejected")>>, "leaving")
    /\ UNCHANGED role

(* redirect: it waits for a call from the client, and for at most three    *)
(* seconds.                                                                *)
Redirects ==
    /\ spc = "deciding"
    /\ Answers(<<Plain("rejected")>>, "redirecting")
    /\ UNCHANGED role

RedirectTimesOut ==
    /\ spc = "redirecting"
    /\ Answers(<< >>, "leaving")
    /\ UNCHANGED role

-----------------------------------------------------------------------------
(* identify_client, identify_create_stream_client and those they call.     *)
PlayLevels == {"identifying", "created"}

IdentifiesByCreateStream ==
    /\ spc \in {"identifying", "created"} /\ Takes({"createStream"})
    /\ SetsClient(<<[Call("streamRes", Request.tid) EXCEPT !.data = StreamId]>>,
                  "created")
    /\ UNCHANGED <<role, taken>>

IdentifiesPlay ==
    /\ spc \in PlayLevels /\ Takes({"play"})
    /\ spc' = "identified" /\ role' = "play"
    /\ UNCHANGED <<answered, taken, toClient>>

IdentifiesFlashPublish ==
    /\ spc = "created" /\ Takes({"publish"})
    /\ spc' = "identified" /\ role' = "flash"
    /\ UNCHANGED <<answered, taken, toClient>>

NoAnswer(tid) == << >>            \* mutant: the client is only identified
FmleAnswer(tid) == <<Call("fmleRes", tid)>>

IdentifiesFmlePublish ==
    /\ spc = "identifying" /\ Takes(FMLEStart)
    /\ SetsClient(FmleAnswer(Request.tid), "identified")
    /\ role' = "fmle"
    /\ UNCHANGED taken

-----------------------------------------------------------------------------
(* start_play.                                                             *)
StartPlay ==
    /\ spc = "identified" /\ role = "play"
    /\ Answers(<<Plain("streamBegin"), Over(StreamId, "playReset"),
                 Over(StreamId, "playStart"), Over(StreamId, "sampleAccess"),
                 Over(StreamId, "dataStart")>>, "playing")
    /\ UNCHANGED role

(* start_flash_publish.                                                    *)
StartFlashPublish ==
    /\ spc = "identified" /\ role = "flash"
    /\ Answers(<<Over(StreamId, "publishStart")>>, "publishing")
    /\ UNCHANGED role

(* start_fmle_publish, wait by wait.                                       *)
StartFmlePublish ==
    /\ spc = "identified" /\ role = "fmle"
    /\ Answers(<< >>, "fc_publish")
    /\ UNCHANGED role

TakesFCPublish ==
    /\ spc = "fc_publish" /\ Takes(FMLEStart)
    /\ SetsClient(FmleAnswer(Request.tid), "create_stream")
    /\ UNCHANGED <<role, taken>>

TakesCreateStream ==
    /\ spc = "create_stream" /\ Takes({"createStream"})
    /\ SetsClient(<<[Call("streamRes", Request.tid) EXCEPT !.data = StreamId]>>,
                  "publish")
    /\ UNCHANGED <<role, taken>>

TakesPublish ==
    /\ spc = "publish" /\ Takes({"publish"})
    /\ SetsClient(<<Over(StreamId, "onFCPublish"),
                    Over(StreamId, "publishStart")>>, "publishing")
    /\ UNCHANGED <<role, taken>>

(* The server that embeds this one may refuse with a status of its own.    *)
RefusesPublish ==
    /\ spc = "publish" /\ Takes({"publish"})
    /\ SetsClient(<<Over(StreamId, "publishRefused")>>, "leaving")
    /\ UNCHANGED <<role, taken>>

-----------------------------------------------------------------------------
(* A publisher's media is taken whatever stream it comes over.             *)
TakesMedia ==
    /\ spc = "publishing" /\ Takes({"media"})
    /\ taken' = Append(taken, Request.data)
    /\ UNCHANGED <<spc, role, answered, toClient>>

(* fmle_unpublish, then the client is identified anew.                     *)
TakesUnpublish ==
    /\ spc = "publishing" /\ Takes({"FCUnpublish"})
    /\ SetsClient(<<Over(StreamId, "onFCUnpublish"),
                    [Call("fmleRes", Request.tid) EXCEPT !.sid = StreamId],
                    Over(StreamId, "unpublishSuccess")>>, "identifying")
    /\ role' = "none"
    /\ UNCHANGED taken

(* The clock of an aggregate may be behind its own time, or ahead of it.    *)
ServesAggregate ==
    /\ spc = "playing" /\ ~closed /\ served + 2 <= MaxServed
    /\ \E b \in 0..served + 1 + MaxAhead :
          toClient' = Append(toClient, Aggregate(StreamId, served + 1, b))
    /\ served' = served + 2
    /\ UNCHANGED <<spc, role, answered, taken, pinged, toServer, closed>>

ServesMedia ==
    /\ spc = "playing" /\ ~closed /\ served < MaxServed
    /\ toClient' = Append(toClient, Media(StreamId, served + 1))
    /\ served' = served + 1
    /\ UNCHANGED <<spc, role, answered, taken, pinged, toServer, closed>>

(* A ping may come at any time between two answers.                        *)
Pings ==
    /\ spc \notin {"shaking", "reading_c2", "leaving"} /\ ~closed
    /\ pinged < MaxServed
    /\ toClient' = Append(toClient, Plain("ping"))
    /\ pinged' = pinged + 1
    /\ UNCHANGED <<spc, role, answered, served, taken, toServer, closed>>

(* The server leaves or fails, or the network does: what was on its way    *)
(* may be lost from some message on.                                       *)
Closes ==
    /\ ~closed
    /\ closed' = TRUE
    /\ \E n \in 0..Len(toClient) : toClient' = SubSeq(toClient, 1, n)
    /\ UNCHANGED <<serverVars, toServer>>

ServerStep ==
    \/ TakesC0C1 \/ TakesC2
    \/ TakesFastHandshake \/ RefusesFastHandshake
    \/ TakesConnect \/ Accepts \/ Rejects \/ Redirects \/ RedirectTimesOut
    \/ IdentifiesByCreateStream \/ IdentifiesPlay
    \/ IdentifiesFlashPublish \/ IdentifiesFmlePublish
    \/ StartPlay \/ StartFlashPublish \/ StartFmlePublish
    \/ TakesFCPublish \/ TakesCreateStream \/ TakesPublish
    \/ RefusesPublish
    \/ TakesMedia \/ TakesUnpublish \/ Ignores

(* The server has nothing to do until the client sends something.          *)
ServerWaits ==
    \/ closed
    \/ /\ spc \in {"shaking", "reading_c2"} \cup DOMAIN Awaited
       /\ spc # "redirecting"
       /\ toServer = << >>
=============================================================================
