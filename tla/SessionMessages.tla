--------------------------- MODULE SessionMessages ---------------------------
(***************************************************************************)
(* The messages of an RTMP session and the connection that carries them.   *)
(* The chunk layer below delivers whole messages, once and in order        *)
(* (MessageChannel.tla), so that each direction is a queue of messages.    *)
(*                                                                         *)
(* A message is its kind, its transaction id (commands and their results), *)
(* the message stream it is sent over, and one number of its content: the  *)
(* stream id a createStream result carries, or which piece of media it is. *)
(* Piece n of the media has the time n.  An aggregate holds two pieces,    *)
(* whose times are told by a clock that shows base at the first of them.   *)
(* The three blocks of the handshake are not chunked, but go over the same *)
(* connection.  Both ends have version 3; what else is in them is random.  *)
(* A fast handshake is one packet each way in place of them and of all     *)
(* that comes before the media.                                            *)
(***************************************************************************)
EXTENDS Integers, Sequences, SequencesExt, Selection

CONSTANT
    StreamId         \* the id the server gives to createStream

ASSUME StreamIdAssumption == StreamId \in Nat \ {0}

VARIABLES
    toServer,        \* sent by the client, not received yet
    toClient,        \* sent by the server, not received yet
    closed           \* the server, or the network, closed the connection

wireVars == <<toServer, toClient, closed>>

WireInit == toServer = << >> /\ toClient = << >> /\ closed = FALSE

Kinds ==
    {"c0c1", "s0s1s2", "c2", "fastHs", "fastHsRes", "aggregate",
     "connect", "windowAck", "createStream", "play", "bufferLength",
     "chunkSize", "publish", "releaseStream", "FCPublish", "FCUnpublish",
     "media", "peerBandwidth", "connectRes", "streamRes", "fmleRes",
     "onBWDone", "onFCPublish", "onFCUnpublish", "rejected", "ping",
     "playReset", "playStart", "publishStart", "unpublishSuccess",
     "publishRefused", "streamBegin", "sampleAccess", "dataStart"}

Message == [kind : Kinds, tid : Nat, sid : {0, StreamId}, data : Nat,
            base : Nat]

Plain(k) == [kind |-> k, tid |-> 0, sid |-> 0, data |-> 0, base |-> 0]
Over(s, k) == [kind |-> k, tid |-> 0, sid |-> s, data |-> 0, base |-> 0]
Call(k, t) == [kind |-> k, tid |-> t, sid |-> 0, data |-> 0, base |-> 0]
Media(s, n) ==
    [kind |-> "media", tid |-> 0, sid |-> s, data |-> n, base |-> 0]
Aggregate(s, n, b) ==
    [kind |-> "aggregate", tid |-> 0, sid |-> s, data |-> n, base |-> b]

(* The commands whose result the sender waits for: on_send_packet keeps    *)
(* their names by transaction id.                                          *)
FMLEStart == {"releaseStream", "FCPublish", "FCUnpublish"}
Requests == {"connect", "createStream"} \cup FMLEStart

(* What the results of those commands are decoded as.                      *)
ResultOf(request) ==
    CASE request = "connect" -> "connectRes"
      [] request = "createStream" -> "streamRes"
      [] OTHER -> "fmleRes"

Results == {"connectRes", "streamRes", "fmleRes"}

TidsOf(ms) == [i \in DOMAIN ms |-> ms[i].tid]
RequestsIn(ms) == Among(ms, {m \in Message : m.kind \in Requests})
ResultsIn(ms) == Among(ms, {m \in Message : m.kind \in Results})
=============================================================================
