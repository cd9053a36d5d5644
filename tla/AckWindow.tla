------------------------------ MODULE AckWindow ------------------------------
(***************************************************************************)
(* The control messages that SrsProtocol answers by itself when it         *)
(* receives: acknowledgements and ping responses (on_recv_message,         *)
(* response_acknowledgement_message, response_ping_message and             *)
(* manual_response_flush in src/libs/protocol/rtmp.cpp), with the byte     *)
(* counter of the socket they rest on.                                     *)
(*                                                                         *)
(* The other end is a peer that stops sending while a full window of bytes *)
(* is not acknowledged, the encoder that the comment at                    *)
(* set_in_window_ack_size describes.  One step reads some of its bytes or  *)
(* handles one whole message; messages are counted in bytes.  The peer's   *)
(* limit only grows while it waits, so that a byte may as well be sent     *)
(* when it is read.                                                        *)
(***************************************************************************)
EXTENDS Naturals, SequencesExt

CONSTANTS
    Handshake,       \* bytes of the handshake, which read_fully reads
    Mod,             \* 2^32, the range of sequence_number
    ResetLimit,      \* 0xf0000000
    Sizes,           \* sizes of media messages
    Windows,         \* window sizes that the peer announces
    ControlSize,     \* size of a control message
    Autos,           \* values of auto_response_when_recv
    MaxBytes,        \* bound: bytes the peer has to send
    MaxInbox,        \* bound: messages it has not finished sending
    MaxPings         \* bound: its ping requests

ASSUME SizeAssumption ==
    /\ Handshake \in Nat /\ ControlSize \in Nat \ {0}
    /\ Sizes \subseteq Nat \ {0} /\ Windows \subseteq Nat
    /\ Autos \subseteq BOOLEAN
    /\ MaxBytes \in Nat /\ MaxInbox \in Nat /\ MaxPings \in Nat
ASSUME ModAssumption == Mod \in Nat \ {0} /\ ResetLimit \in 0..(Mod - 1)

VARIABLES
    rbytes,          \* SrsBlockSyncSocket.rbytes
    window,          \* in_ack_size.window
    nb_recv_bytes,   \* in_ack_size.nb_recv_bytes
    sequence_number, \* in_ack_size.sequence_number
    auto,            \* auto_response_when_recv
    responses,       \* manual_response_queue
    arrived,         \* bytes that were really received
    handled,         \* of them, the bytes of handled messages
    inbox,           \* messages of the peer that are not handled yet
    replies,         \* responses on their way to the peer
    queued,          \* bytes the peer has to send
    peer_acked,      \* the last acknowledgement it got
    peer_window,     \* its window, 0 if it has announced none
    asked, answered  \* data of its pings, and of the responses to them

endpointVars == <<rbytes, window, nb_recv_bytes, sequence_number, auto,
                  responses, arrived, handled>>
peerVars == <<queued, peer_acked, peer_window, asked, answered>>
vars == <<endpointVars, peerVars, inbox, replies>>

(* srs_hijack_io_read counts what it reads, and srs_hijack_io_read_fully,  *)
(* which calls it, counts the same bytes again.                            *)
ReadFully(n) == 2 * n

Init ==
    /\ rbytes = ReadFully(Handshake)
    /\ window = 0 /\ nb_recv_bytes = 0 /\ sequence_number = 0
    /\ auto \in Autos /\ responses = << >>
    /\ arrived = Handshake /\ handled = Handshake
    /\ inbox = << >> /\ replies = << >>
    /\ queued = Handshake /\ peer_acked = 0 /\ peer_window = 0
    /\ asked = << >> /\ answered = << >>

-----------------------------------------------------------------------------
(* The peer: it queues messages, sends bytes and takes the responses.      *)
Media(n) == [kind |-> "media", data |-> 0, size |-> n]
WindowAckSize(w) == [kind |-> "window", data |-> w, size |-> ControlSize]
PingRequest(d) == [kind |-> "ping", data |-> d, size |-> ControlSize]

PeerQueues(m) ==
    /\ queued + m.size <= MaxBytes /\ Len(inbox) < MaxInbox
    /\ queued' = queued + m.size
    /\ inbox' = Append(inbox, m)
    /\ peer_window' = IF m.kind = "window" THEN m.data ELSE peer_window
    /\ asked' = IF m.kind = "ping" THEN Append(asked, m.data) ELSE asked
    /\ UNCHANGED <<endpointVars, replies, peer_acked, answered>>

(* The window is announced once, when less than half of it has been sent,  *)
(* as both ends do right after the handshake.                              *)
PeerAnnounces(w) ==
    /\ peer_window = 0 /\ 2 * (queued + ControlSize) <= w
    /\ PeerQueues(WindowAckSize(w))

PeerPings ==
    /\ Len(asked) < MaxPings
    /\ PeerQueues(PingRequest(Len(asked) + 1))

PeerMaySend(n) == peer_window = 0 \/ n <= peer_acked + peer_window

PeerReceives ==
    /\ replies # << >>
    /\ replies' = Tail(replies)
    /\ LET r == Head(replies)
       IN  /\ peer_acked' = IF r.kind = "ack" THEN r.data ELSE peer_acked
           /\ answered' = IF r.kind = "pong" THEN Append(answered, r.data)
                                             ELSE answered
    /\ UNCHANGED <<endpointVars, inbox, queued, peer_window, asked>>

-----------------------------------------------------------------------------
(* A read of the receive buffer takes whatever has arrived, which may be a *)
(* part of a message or several.                                           *)
ReadsSome ==
    /\ \E n \in (arrived + 1)..queued :
          /\ PeerMaySend(n)
          /\ arrived' = n
          /\ rbytes' = rbytes + (n - arrived)
    /\ UNCHANGED <<window, nb_recv_bytes, sequence_number, auto, responses,
                   handled, inbox, replies, peerVars>>

(* response_acknowledgement_message: half a window after the last one.     *)
Delta == (rbytes - nb_recv_bytes) % Mod

WaitsForWindow == window > 0 /\ Delta >= window \* mutant: a whole window

AckDue == window > 0 /\ Delta >= window \div 2

NextSequence ==
    LET next == (sequence_number + Delta) % Mod
    IN  IF next > ResetLimit THEN Delta ELSE next

KeepsCount == nb_recv_bytes       \* mutant: the same bytes count again
RecvBytesNow == rbytes

Ack == [kind |-> "ack", data |-> NextSequence]
Pong(d) == [kind |-> "pong", data |-> d]

(* The order of on_recv_message: the acknowledgement, then the message.    *)
AckOnly(m) ==                     \* mutant: an ack leaves no room for a ping
    IF AckDue THEN <<Ack>>
              ELSE IF m.kind = "ping" THEN <<Pong(m.data)>> ELSE << >>

Responses(m) ==
    (IF AckDue THEN <<Ack>> ELSE << >>)
    \o (IF m.kind = "ping" THEN <<Pong(m.data)>> ELSE << >>)

IsWhole(m) == handled + m.size <= arrived

(* on_recv_message, when a whole message has been read.  Responses are     *)
(* sent at once, or queued for the next send.                              *)
OnRecvMessage ==
    LET m == Head(inbox)
    IN  /\ inbox # << >> /\ IsWhole(m)
        /\ inbox' = Tail(inbox)
        /\ handled' = handled + m.size
        /\ nb_recv_bytes' = IF AckDue THEN RecvBytesNow ELSE nb_recv_bytes
        /\ sequence_number' = IF AckDue THEN NextSequence ELSE sequence_number
        /\ window' = IF m.kind = "window" /\ m.data > 0 THEN m.data ELSE window
        /\ IF auto
           THEN replies' = replies \o Responses(m) /\ UNCHANGED responses
           ELSE responses' = responses \o Responses(m) /\ UNCHANGED replies
        /\ UNCHANGED <<rbytes, auto, arrived, peerVars>>

(* manual_response_flush, behind whatever the program sends.               *)
Flush ==
    /\ responses # << >>
    /\ replies' = Append(replies, Head(responses))
    /\ responses' = Tail(responses)
    /\ UNCHANGED <<rbytes, window, nb_recv_bytes, sequence_number, auto,
                   arrived, handled, inbox, peerVars>>

Next ==
    \/ \E n \in Sizes : PeerQueues(Media(n))
    \/ \E w \in Windows : PeerAnnounces(w)
    \/ PeerPings \/ PeerReceives
    \/ ReadsSome \/ OnRecvMessage \/ Flush

(* Both ends keep running; a program that answers manually keeps sending.  *)
Spec ==
    /\ Init /\ [][Next]_vars
    /\ WF_vars(PeerReceives) /\ WF_vars(ReadsSome)
    /\ WF_vars(OnRecvMessage) /\ WF_vars(Flush)

-----------------------------------------------------------------------------
Reply == [kind : {"ack", "pong"}, data : Nat]

AckTypeOK ==
    /\ rbytes \in Nat /\ window \in Nat /\ nb_recv_bytes \in Nat
    /\ sequence_number \in 0..(Mod - 1)
    /\ auto \in BOOLEAN
    /\ responses \in Seq(Reply) /\ replies \in Seq(Reply)
    /\ handled <= arrived /\ arrived <= queued
    /\ auto => responses = << >>

(* No acknowledgement claims bytes that have not arrived, but for those of *)
(* the handshake, which are counted twice.                                 *)
Acks(rs) == {rs[i].data : i \in {j \in DOMAIN rs : rs[j].kind = "ack"}}

AcksNearlyTrue ==
    \A a \in Acks(responses) \cup Acks(replies) \cup {peer_acked} :
        a <= arrived + Handshake

(* Every ping is answered once, in the order of the requests, also when an *)
(* acknowledgement is due with the same message or responses are queued.   *)
PingsInOrder ==
    /\ IsPrefix(answered, asked)
    /\ (inbox = << >> /\ responses = << >> /\ replies = << >>) =>
           answered = asked

(* "The client or the server sends the acknowledgment to the peer after    *)
(* receiving bytes equal to the window size": a peer that waits for it     *)
(* gets to send every byte it has, up to where the sequence number is      *)
(* reset.                                                                  *)
PeerGoesOn ==
    \A n \in 1..MaxBytes :
        n + Handshake <= ResetLimit => (queued >= n ~> arrived >= n)
=============================================================================
