-------------------------- MODULE AckWindow_proofs --------------------------
(***************************************************************************)
(* Proofs about AckWindow.  No acknowledgement claims bytes that have not  *)
(* arrived because the sequence number never passes nb_recv_bytes, which   *)
(* never passes the counter of the socket, which counts the handshake      *)
(* twice and everything else once.                                         *)
(***************************************************************************)
EXTENDS AckWindow, TLAPS

Inbox == [kind : {"media", "window", "ping"}, data : Nat, size : Nat \ {0}]

Limit == arrived + Handshake

AcksUpTo(n, rs) == \A i \in DOMAIN rs : rs[i].kind = "ack" => rs[i].data <= n

Types ==
    /\ AckTypeOK
    /\ arrived \in Nat /\ handled \in Nat /\ queued \in Nat
    /\ peer_acked \in Nat /\ peer_window \in Nat
    /\ inbox \in Seq(Inbox) /\ asked \in Seq(Nat)

Counts ==
    /\ rbytes = arrived + Handshake
    /\ nb_recv_bytes <= rbytes
    /\ sequence_number <= nb_recv_bytes

IInv ==
    /\ Types
    /\ Counts
    /\ AcksUpTo(Limit, responses) /\ AcksUpTo(Limit, replies)
    /\ peer_acked <= Limit

-----------------------------------------------------------------------------
(* A number is never smaller than its remainder: the unsigned arithmetic   *)
(* of response_acknowledgement_message never adds bytes.                   *)
LEMMA Remainder ==
    ASSUME NEW n \in Nat, NEW k \in Nat \ {0}
    PROVE  n % k \in 0..(k - 1) /\ n % k <= n
  OBVIOUS

(* The number that the next acknowledgement carries.                       *)
LEMMA NextSequenceBound ==
    ASSUME IInv
    PROVE  /\ Delta \in Nat /\ NextSequence \in 0..(Mod - 1)
           /\ NextSequence <= rbytes
<1>1. /\ rbytes \in Nat /\ nb_recv_bytes \in Nat /\ sequence_number \in Nat
      /\ rbytes - nb_recv_bytes \in Nat
  BY ModAssumption DEF IInv, Types, Counts, AckTypeOK
<1>2. Delta \in 0..(Mod - 1) /\ Delta <= rbytes - nb_recv_bytes
  BY <1>1, Remainder, ModAssumption DEF Delta
<1>3. /\ (sequence_number + Delta) % Mod \in 0..(Mod - 1)
      /\ (sequence_number + Delta) % Mod <= sequence_number + Delta
  <2>1. sequence_number + Delta \in Nat
    BY <1>1, <1>2, ModAssumption
  <2> QED
    BY <2>1, Remainder, ModAssumption
<1>4. sequence_number + Delta <= rbytes
  BY <1>1, <1>2, ModAssumption DEF IInv, Counts
<1> QED
  BY <1>1, <1>2, <1>3, <1>4, ModAssumption DEF NextSequence

(* The responses to a message, which follow those that wait.               *)
LEMMA ResponsesTrue ==
    ASSUME IInv, NEW m \in Inbox, NEW rs \in Seq(Reply), AcksUpTo(Limit, rs)
    PROVE  /\ rs \o Responses(m) \in Seq(Reply)
           /\ AcksUpTo(Limit, rs \o Responses(m))
<1>1. NextSequence <= Limit /\ NextSequence \in Nat
  BY NextSequenceBound, ModAssumption DEF IInv, Counts, Limit
<1>2. Ack \in Reply /\ Pong(m.data) \in Reply
  BY <1>1 DEF Ack, Pong, Reply, Inbox
<1>3. \A s \in Seq(Reply), r \in Reply :
        AcksUpTo(Limit, s) /\ (r.kind = "ack" => r.data <= Limit) =>
            s \o <<r>> \in Seq(Reply) /\ AcksUpTo(Limit, s \o <<r>>)
  BY DEF AcksUpTo
<1>4. (Ack.kind = "ack" => Ack.data <= Limit)
      /\ (Pong(m.data).kind = "ack" => Pong(m.data).data <= Limit)
  BY <1>1 DEF Ack, Pong
<1> DEFINE acked == rs \o (IF AckDue THEN <<Ack>> ELSE << >>)
<1>5. acked \in Seq(Reply) /\ AcksUpTo(Limit, acked)
  <2>1. CASE AckDue
    BY <2>1, <1>2, <1>3, <1>4
  <2>2. CASE ~ AckDue
    <3>1. acked = rs
      BY <2>2
    <3> QED
      BY <3>1
  <2> QED
    BY <2>1, <2>2
<1> DEFINE pong == IF m.kind = "ping" THEN <<Pong(m.data)>> ELSE << >>
<1>6. rs \o Responses(m) = acked \o pong
  <2>1. \A a, b, c \in Seq(Reply) : a \o (b \o c) = (a \o b) \o c
    OBVIOUS
  <2>2. (IF AckDue THEN <<Ack>> ELSE << >>) \in Seq(Reply)
    BY <1>2
  <2>3. pong \in Seq(Reply)
    BY <1>2
  <2> HIDE DEF pong
  <2> QED
    BY <2>1, <2>2, <2>3 DEF Responses, pong
<1> HIDE DEF acked
<1>7. CASE m.kind = "ping"
  BY <1>7, <1>2, <1>3, <1>4, <1>5, <1>6
<1>8. CASE m.kind # "ping"
  <2>1. rs \o Responses(m) = acked
    BY <1>5, <1>6, <1>8
  <2> QED
    BY <2>1, <1>5
<1> QED
  BY <1>7, <1>8

-----------------------------------------------------------------------------
(* Nothing has arrived yet: the invariant holds at the start.              *)
LEMMA Initially == Init => IInv
<1> SUFFICES ASSUME Init PROVE IInv
  OBVIOUS
<1>1. Types
  BY SizeAssumption, ModAssumption
  DEF Init, Types, AckTypeOK, ReadFully, Reply, Inbox
<1>2. Counts
  BY SizeAssumption DEF Init, Counts, ReadFully
<1>3. /\ AcksUpTo(Limit, responses) /\ AcksUpTo(Limit, replies)
      /\ peer_acked <= Limit
  BY SizeAssumption DEF Init, AcksUpTo, Limit
<1> QED
  BY <1>1, <1>2, <1>3 DEF IInv

(* The peer may ask or say anything: no count of ours moves.               *)
LEMMA PeerQueuesKeeps ==
    ASSUME IInv, NEW m \in Inbox, PeerQueues(m) PROVE IInv'
<1>1. Types'
  BY DEF IInv, Types, AckTypeOK, PeerQueues, endpointVars, Inbox
<1>2. Counts'
  BY DEF IInv, Counts, PeerQueues, endpointVars
<1>3. (/\ AcksUpTo(Limit, responses) /\ AcksUpTo(Limit, replies)
       /\ peer_acked <= Limit)'
  BY DEF IInv, AcksUpTo, Limit, PeerQueues, endpointVars
<1> QED
  BY <1>1, <1>2, <1>3 DEF IInv

(* The peer learns of an acknowledgement only what was sent.               *)
LEMMA PeerReceivesKeeps == ASSUME IInv, PeerReceives PROVE IInv'
<1> DEFINE r == Head(replies)
<1>1. r \in Reply /\ (r.kind = "ack" => r.data <= Limit)
      /\ Tail(replies) \in Seq(Reply) /\ AcksUpTo(Limit, Tail(replies))
  BY DEF IInv, Types, AckTypeOK, PeerReceives, AcksUpTo
<1>2. peer_acked' \in Nat /\ peer_acked' <= Limit'
  BY <1>1 DEF PeerReceives, endpointVars, IInv, Types, Limit, Reply
<1>3. Types'
  BY <1>1, <1>2 DEF IInv, Types, AckTypeOK, PeerReceives, endpointVars
<1>4. Counts'
  BY DEF IInv, Counts, PeerReceives, endpointVars
<1>5. AcksUpTo(Limit, responses)' /\ AcksUpTo(Limit, replies)'
  BY <1>1 DEF IInv, AcksUpTo, Limit, PeerReceives, endpointVars
<1> QED
  BY <1>2, <1>3, <1>4, <1>5 DEF IInv

(* Acknowledgements of at most n bytes are also of at most k >= n.         *)
LEMMA Weaker ==
    ASSUME NEW n \in Nat, NEW k \in Nat, n <= k,
           NEW rs \in Seq(Reply), AcksUpTo(n, rs)
    PROVE  AcksUpTo(k, rs)
<1> SUFFICES ASSUME NEW i \in DOMAIN rs, rs[i].kind = "ack"
             PROVE  rs[i].data <= k
  BY DEF AcksUpTo
<1>1. rs[i] \in Reply
  OBVIOUS
<1>2. rs[i].data \in Nat
  BY <1>1 DEF Reply
<1>3. rs[i].data <= n
  BY DEF AcksUpTo
<1> QED
  BY <1>2, <1>3

(* Reading bytes only raises what may be acknowledged.                     *)
LEMMA ReadsSomeKeeps == ASSUME IInv, ReadsSome PROVE IInv'
<1>1. PICK n \in (arrived + 1)..queued :
        arrived' = n /\ rbytes' = rbytes + (n - arrived)
  BY DEF ReadsSome
<1>2. n \in Nat /\ arrived \in Nat /\ rbytes \in Nat /\ Handshake \in Nat
      /\ arrived <= n /\ n <= queued
  BY <1>1, SizeAssumption DEF IInv, Types, AckTypeOK
<1>3. Types'
  BY <1>1, <1>2 DEF IInv, Types, AckTypeOK, ReadsSome, peerVars
<1>4. Counts'
  <2>1. nb_recv_bytes \in Nat
    BY DEF IInv, Types, AckTypeOK
  <2> QED
    BY <1>1, <1>2, <2>1 DEF IInv, Counts, ReadsSome
<1>5. Limit \in Nat /\ Limit' \in Nat /\ Limit <= Limit'
  BY <1>1, <1>2 DEF Limit
<1>6. \A rs \in Seq(Reply) : AcksUpTo(Limit, rs) => AcksUpTo(Limit', rs)
  BY <1>5, Weaker
<1>7. /\ AcksUpTo(Limit', responses') /\ AcksUpTo(Limit', replies')
      /\ peer_acked' <= Limit'
  BY <1>5, <1>6 DEF IInv, Types, AckTypeOK, ReadsSome, peerVars
<1> QED
  BY <1>3, <1>4, <1>7 DEF IInv

(* on_recv_message: the acknowledgement it queues is of bytes read.        *)
LEMMA OnRecvMessageKeeps == ASSUME IInv, OnRecvMessage PROVE IInv'
<1> DEFINE m == Head(inbox)
<1>1. m \in Inbox /\ Tail(inbox) \in Seq(Inbox)
  BY DEF IInv, Types, OnRecvMessage
<1>2. handled + m.size <= arrived /\ handled' = handled + m.size
  BY DEF OnRecvMessage, IsWhole
<1>3. m.size \in Nat /\ m.data \in Nat
  BY <1>1 DEF Inbox
<1>4. /\ responses' \in Seq(Reply) /\ AcksUpTo(Limit, responses')
      /\ replies' \in Seq(Reply) /\ AcksUpTo(Limit, replies')
      /\ auto' => responses' = << >>
  BY <1>1, ResponsesTrue DEF IInv, Types, AckTypeOK, OnRecvMessage
<1>5. /\ nb_recv_bytes' \in Nat /\ nb_recv_bytes' <= rbytes'
      /\ sequence_number' \in 0..(Mod - 1)
      /\ sequence_number' <= nb_recv_bytes'
  BY NextSequenceBound, SMTT(30)
  DEF IInv, Types, AckTypeOK, Counts, OnRecvMessage, RecvBytesNow
<1>6. Types'
  BY <1>1, <1>2, <1>3, <1>4, <1>5, SMTT(30)
  DEF IInv, Types, AckTypeOK, OnRecvMessage, peerVars
<1>7. Counts'
  BY <1>5 DEF IInv, Counts, OnRecvMessage
<1>8. (/\ AcksUpTo(Limit, responses) /\ AcksUpTo(Limit, replies)
       /\ peer_acked <= Limit)'
  BY <1>4 DEF IInv, AcksUpTo, Limit, OnRecvMessage, peerVars
<1> QED
  BY <1>6, <1>7, <1>8 DEF IInv

(* manual_response_flush: what is sent was queued, so it is bounded.       *)
LEMMA FlushKeeps == ASSUME IInv, Flush PROVE IInv'
<1> DEFINE r == Head(responses)
<1>1. /\ r \in Reply /\ (r.kind = "ack" => r.data <= Limit)
      /\ Tail(responses) \in Seq(Reply) /\ AcksUpTo(Limit, Tail(responses))
      /\ ~ auto
  BY DEF IInv, Types, AckTypeOK, Flush, AcksUpTo
<1>2. Append(replies, r) \in Seq(Reply) /\ AcksUpTo(Limit, Append(replies, r))
  BY <1>1 DEF IInv, Types, AckTypeOK, AcksUpTo
<1>3. Types'
  BY <1>1, <1>2 DEF IInv, Types, AckTypeOK, Flush, peerVars
<1>4. Counts'
  BY DEF IInv, Counts, Flush
<1>5. (/\ AcksUpTo(Limit, responses) /\ AcksUpTo(Limit, replies)
       /\ peer_acked <= Limit)'
  BY <1>1, <1>2 DEF IInv, AcksUpTo, Limit, Flush, peerVars
<1> QED
  BY <1>3, <1>4, <1>5 DEF IInv

(* Every step of the connection keeps the invariant.                       *)
LEMMA Inductive == IInv /\ [Next]_vars => IInv'
<1> SUFFICES ASSUME IInv, [Next]_vars PROVE IInv'
  OBVIOUS
<1>1. \A n \in Sizes : Media(n) \in Inbox
  BY SizeAssumption DEF Media, Inbox
<1>2. \A w \in Windows : WindowAckSize(w) \in Inbox
  BY SizeAssumption DEF WindowAckSize, Inbox
<1>3. \A d \in Nat : PingRequest(d) \in Inbox
  BY SizeAssumption DEF PingRequest, Inbox
<1>4. CASE \E n \in Sizes : PeerQueues(Media(n))
  BY <1>1, <1>4, PeerQueuesKeeps
<1>5. CASE \E w \in Windows : PeerAnnounces(w)
  BY <1>2, <1>5, PeerQueuesKeeps DEF PeerAnnounces
<1>6. CASE PeerPings
  <2>1. Len(asked) + 1 \in Nat
    BY DEF IInv, Types
  <2> QED
    BY <1>3, <1>6, <2>1, PeerQueuesKeeps DEF PeerPings
<1>7. CASE PeerReceives
  BY <1>7, PeerReceivesKeeps
<1>8. CASE ReadsSome
  BY <1>8, ReadsSomeKeeps
<1>9. CASE OnRecvMessage
  BY <1>9, OnRecvMessageKeeps
<1>10. CASE Flush
  BY <1>10, FlushKeeps
<1>11. CASE UNCHANGED vars
  BY <1>11
  DEF vars, endpointVars, peerVars, IInv, Types, AckTypeOK, Counts,
      AcksUpTo, Limit
<1> QED
  BY <1>4, <1>5, <1>6, <1>7, <1>8, <1>9, <1>10, <1>11 DEF Next

(* Type correctness: the sequence number is unsigned 32 bits, and nothing  *)
(* waits in the queue of responses while they are sent at once.            *)
THEOREM AckTypeCorrect == Spec => []AckTypeOK
<1>1. IInv => AckTypeOK
  BY DEF IInv, Types
<1> QED
  BY <1>1, Initially, Inductive, PTL DEF Spec

(* An acknowledgement never claims more than has arrived, but for the      *)
(* bytes of the handshake, for any windows and sizes, across resets of the *)
(* sequence number.                                                        *)
THEOREM AcksStayNearlyTrue == Spec => []AcksNearlyTrue
<1>1. IInv => AcksNearlyTrue
  BY DEF IInv, AcksNearlyTrue, Acks, AcksUpTo, Limit
<1> QED
  BY <1>1, Initially, Inductive, PTL DEF Spec

-----------------------------------------------------------------------------
(* Where the pings between answered and asked are: those of kind K in s    *)
(* carry exactly the numbers behind lo up to hi, in order.                 *)
Ordered(K, lo, hi, s) ==
    /\ \A i \in DOMAIN s : s[i].kind = K => s[i].data \in (lo + 1)..hi
    /\ \A k \in (lo + 1)..hi : \E i \in DOMAIN s : s[i].kind = K /\ s[i].data = k
    /\ \A i, j \in DOMAIN s :
          i < j /\ s[i].kind = K /\ s[j].kind = K => s[i].data < s[j].data

Numbered(s) == s \in Seq(Nat) /\ \A i \in DOMAIN s : s[i] = i

InPlace(b, c) ==
    /\ Len(answered) <= b /\ b <= c /\ c <= Len(asked)
    /\ Ordered("pong", Len(answered), b, replies)
    /\ Ordered("pong", b, c, responses)
    /\ Ordered("ping", c, Len(asked), inbox)

Pings ==
    /\ Numbered(asked) /\ Numbered(answered)
    /\ \E b, c \in Nat : InPlace(b, c)

(* An empty queue holds the numbers of an empty range, and only it.        *)
LEMMA OrderedEmpty ==
    ASSUME NEW K, NEW lo \in Nat, NEW hi \in Nat
    PROVE  /\ Ordered(K, lo, lo, << >>)
           /\ lo <= hi /\ Ordered(K, lo, hi, << >>) => lo = hi
<1>1. DOMAIN << >> = {}
  OBVIOUS
<1>2. (lo + 1)..lo = {}
  OBVIOUS
<1>3. lo < hi => lo + 1 \in (lo + 1)..hi
  OBVIOUS
<1> QED
  BY <1>1, <1>2, <1>3 DEF Ordered

(* Taking the head off a queue takes the lowest number of its kind.        *)
LEMMA OrderedTail ==
    ASSUME NEW S, \A e \in S : e.data \in Nat, NEW s \in Seq(S), s # << >>,
           NEW K, NEW lo \in Nat, NEW hi \in Nat, Ordered(K, lo, hi, s)
    PROVE  /\ Head(s).kind = K =>
                 /\ Head(s).data = lo + 1 /\ lo + 1 <= hi
                 /\ Ordered(K, lo + 1, hi, Tail(s))
           /\ Head(s).kind # K => Ordered(K, lo, hi, Tail(s))
<1>1. /\ Head(s) = s[1] /\ 1 \in DOMAIN s
      /\ \A i \in DOMAIN Tail(s) : /\ i + 1 \in DOMAIN s /\ 1 < i + 1
                                   /\ Tail(s)[i] = s[i + 1]
      /\ \A i \in DOMAIN s : i # 1 => i - 1 \in DOMAIN Tail(s)
      /\ \A i \in DOMAIN Tail(s) : i \in Nat
      /\ \A i \in DOMAIN s : i \in Nat /\ i >= 1 /\ s[i].data \in Nat
  OBVIOUS
<1>2. \A i, j \in DOMAIN Tail(s) :
         i < j /\ Tail(s)[i].kind = K /\ Tail(s)[j].kind = K =>
             Tail(s)[i].data < Tail(s)[j].data
  <2> SUFFICES ASSUME NEW i \in DOMAIN Tail(s), NEW j \in DOMAIN Tail(s), i < j,
                      Tail(s)[i].kind = K, Tail(s)[j].kind = K
               PROVE  Tail(s)[i].data < Tail(s)[j].data
    OBVIOUS
  <2>1. i + 1 < j + 1 /\ s[i + 1].kind = K /\ s[j + 1].kind = K
    BY <1>1
  <2> QED
    BY <1>1, <2>1 DEF Ordered
<1>3. CASE Head(s).kind = K
  <2>1. s[1].data \in (lo + 1)..hi
    BY <1>1, <1>3 DEF Ordered
  <2>2. s[1].data = lo + 1
    <3>1. PICK i \in DOMAIN s : s[i].kind = K /\ s[i].data = lo + 1
      BY <2>1 DEF Ordered
    <3>2. CASE i = 1
      BY <3>1, <3>2
    <3>3. CASE i # 1
      <4>1. 1 < i
        BY <1>1, <3>3
      <4>2. s[1].data < s[i].data
        BY <1>1, <1>3, <3>1, <4>1 DEF Ordered
      <4> QED
        BY <2>1, <3>1, <4>2
    <3> QED
      BY <3>2, <3>3
  <2>3. ASSUME NEW i \in DOMAIN Tail(s), Tail(s)[i].kind = K
        PROVE  Tail(s)[i].data \in (lo + 2)..hi
    <3>1. s[i + 1].kind = K /\ 1 < i + 1 /\ i + 1 \in DOMAIN s
      BY <1>1, <2>3
    <3>2. s[1].data < s[i + 1].data /\ s[i + 1].data \in (lo + 1)..hi
      BY <1>1, <1>3, <3>1 DEF Ordered
    <3> QED
      BY <1>1, <2>2, <3>2
  <2>4. ASSUME NEW k \in (lo + 2)..hi
        PROVE  \E i \in DOMAIN Tail(s) : Tail(s)[i].kind = K /\ Tail(s)[i].data = k
    <3>1. PICK i \in DOMAIN s : s[i].kind = K /\ s[i].data = k
      BY DEF Ordered
    <3>2. i # 1
      BY <2>2, <3>1
    <3>3. i - 1 \in DOMAIN Tail(s) /\ (i - 1) + 1 = i
      BY <1>1, <3>2
    <3> QED
      BY <1>1, <3>1, <3>3
  <2>5. lo + 1 + 1 = lo + 2
    OBVIOUS
  <2>6. Ordered(K, lo + 1, hi, Tail(s))
    BY <1>2, <2>3, <2>4, <2>5 DEF Ordered
  <2> QED
    BY <1>1, <1>3, <2>1, <2>2, <2>6
<1>4. CASE Head(s).kind # K
  <2>1. ASSUME NEW i \in DOMAIN Tail(s), Tail(s)[i].kind = K
        PROVE  Tail(s)[i].data \in (lo + 1)..hi
    BY <1>1, <2>1 DEF Ordered
  <2>2. ASSUME NEW k \in (lo + 1)..hi
        PROVE  \E i \in DOMAIN Tail(s) : Tail(s)[i].kind = K /\ Tail(s)[i].data = k
    <3>1. PICK i \in DOMAIN s : s[i].kind = K /\ s[i].data = k
      BY DEF Ordered
    <3>2. i # 1
      BY <1>1, <1>4, <3>1
    <3>3. i - 1 \in DOMAIN Tail(s) /\ (i - 1) + 1 = i
      BY <1>1, <3>2
    <3> QED
      BY <1>1, <3>1, <3>3
  <2> QED
    BY <1>2, <1>4, <2>1, <2>2 DEF Ordered
<1> QED
  BY <1>3, <1>4

(* Appending the next number, or another kind, keeps the order.            *)
LEMMA OrderedAppend ==
    ASSUME NEW S, \A e \in S : e.data \in Nat, NEW s \in Seq(S), NEW e \in S,
           NEW K, NEW lo \in Nat, NEW hi \in Nat, lo <= hi, Ordered(K, lo, hi, s)
    PROVE  /\ e.kind = K /\ e.data = hi + 1 =>
                 Ordered(K, lo, hi + 1, Append(s, e))
           /\ e.kind # K => Ordered(K, lo, hi, Append(s, e))
<1> DEFINE t == Append(s, e)
           n == Len(s) + 1
<1>1. /\ n \in DOMAIN t /\ t[n] = e
      /\ \A i \in DOMAIN s : i \in DOMAIN t /\ t[i] = s[i] /\ i < n
      /\ \A i \in DOMAIN t : i \in Nat /\ i <= n /\ (i # n => i \in DOMAIN s)
      /\ n \in Nat
      /\ \A i \in DOMAIN s : s[i].data \in Nat
  OBVIOUS
<1> HIDE DEF t, n
<1>2. CASE e.kind = K /\ e.data = hi + 1
  <2>1. ASSUME NEW i \in DOMAIN t, t[i].kind = K
        PROVE  t[i].data \in (lo + 1)..(hi + 1)
    <3>1. CASE i = n
      BY <1>1, <1>2, <3>1
    <3>2. CASE i # n
      <4>1. i \in DOMAIN s /\ t[i] = s[i]
        BY <1>1, <3>2
      <4>2. s[i].data \in (lo + 1)..hi
        BY <2>1, <4>1 DEF Ordered
      <4> QED
        BY <4>1, <4>2
    <3> QED
      BY <3>1, <3>2
  <2>2. ASSUME NEW k \in (lo + 1)..(hi + 1)
        PROVE  \E i \in DOMAIN t : t[i].kind = K /\ t[i].data = k
    <3>1. CASE k = hi + 1
      BY <1>1, <1>2, <3>1
    <3>2. CASE k # hi + 1
      <4>1. k \in (lo + 1)..hi
        BY <3>2
      <4>2. PICK i \in DOMAIN s : s[i].kind = K /\ s[i].data = k
        BY <4>1 DEF Ordered
      <4> QED
        BY <1>1, <4>2
    <3> QED
      BY <3>1, <3>2
  <2>3. ASSUME NEW i \in DOMAIN t, NEW j \in DOMAIN t, i < j,
               t[i].kind = K, t[j].kind = K
        PROVE  t[i].data < t[j].data
    <3>1. i # n
      BY <1>1, <2>3
    <3>2. i \in DOMAIN s /\ t[i] = s[i]
      BY <1>1, <3>1
    <3>3. CASE j = n
      <4>1. s[i].data \in (lo + 1)..hi
        BY <2>3, <3>2 DEF Ordered
      <4> QED
        BY <1>1, <1>2, <3>2, <3>3, <4>1
    <3>4. CASE j # n
      <4>1. j \in DOMAIN s /\ t[j] = s[j]
        BY <1>1, <3>4
      <4> QED
        BY <2>3, <3>2, <4>1 DEF Ordered
    <3> QED
      BY <3>3, <3>4
  <2>4. Ordered(K, lo, hi + 1, t)
    BY <2>1, <2>2, <2>3 DEF Ordered
  <2> QED
    BY <1>2, <2>4 DEF t
<1>3. CASE e.kind # K
  <2>1. \A i \in DOMAIN t : t[i].kind = K => i \in DOMAIN s /\ t[i] = s[i]
    BY <1>1, <1>3
  <2>2. \A k \in (lo + 1)..hi : \E i \in DOMAIN t : t[i].kind = K /\ t[i].data = k
    BY <1>1 DEF Ordered
  <2>3. Ordered(K, lo, hi, t)
    BY <2>1, <2>2 DEF Ordered
  <2> QED
    BY <1>3, <2>3 DEF t
<1> QED
  BY <1>2, <1>3

(* The responses to a ping are numbered like the ping, behind those that   *)
(* are there, with or without an acknowledgement in front.                 *)
LEMMA ResponsesOrdered ==
    ASSUME IInv, NEW m \in Inbox, NEW rs \in Seq(Reply), AcksUpTo(Limit, rs),
           NEW lo \in Nat, NEW hi \in Nat, lo <= hi, Ordered("pong", lo, hi, rs)
    PROVE  /\ m.kind = "ping" /\ m.data = hi + 1 =>
                 Ordered("pong", lo, hi + 1, rs \o Responses(m))
           /\ m.kind # "ping" => Ordered("pong", lo, hi, rs \o Responses(m))
<1>1. NextSequence \in Nat
  BY NextSequenceBound, ModAssumption
<1>2. /\ Ack \in Reply /\ Ack.kind # "pong"
      /\ Pong(m.data) \in Reply
      /\ Pong(m.data).kind = "pong" /\ Pong(m.data).data = m.data
  BY <1>1 DEF Ack, Pong, Reply, Inbox
<1>3. \A e \in Reply : e.data \in Nat
  BY DEF Reply
<1> DEFINE acked == IF AckDue THEN Append(rs, Ack) ELSE rs
<1>4. acked \in Seq(Reply) /\ Ordered("pong", lo, hi, acked)
  <2>1. CASE AckDue
    <3>1. Append(rs, Ack) \in Seq(Reply)
      BY <1>2
    <3>2. Ordered("pong", lo, hi, Append(rs, Ack))
      BY <1>2, <1>3, OrderedAppend
    <3> QED
      BY <2>1, <3>1, <3>2
  <2>2. CASE ~ AckDue
    BY <2>2
  <2> QED
    BY <2>1, <2>2
<1>5. rs \o Responses(m) =
        IF m.kind = "ping" THEN Append(acked, Pong(m.data)) ELSE acked
  <2>1. CASE AckDue
    BY <1>2, <2>1 DEF Responses
  <2>2. CASE ~ AckDue
    BY <1>2, <2>2 DEF Responses
  <2> QED
    BY <2>1, <2>2
<1> HIDE DEF acked
<1>6. CASE m.kind = "ping" /\ m.data = hi + 1
  <2>1. Ordered("pong", lo, hi + 1, Append(acked, Pong(m.data)))
    BY <1>2, <1>3, <1>4, <1>6, OrderedAppend
  <2> QED
    BY <1>5, <1>6, <2>1
<1>7. CASE m.kind # "ping"
  BY <1>4, <1>5, <1>7
<1> QED
  BY <1>6, <1>7

-----------------------------------------------------------------------------
(* No ping has been asked, none answered, and every queue is empty.        *)
LEMMA PingsInitially == Init => Pings
<1> SUFFICES ASSUME Init PROVE Pings
  OBVIOUS
<1>1. Numbered(asked) /\ Numbered(answered) /\ Len(asked) = 0 /\ Len(answered) = 0
  BY DEF Init, Numbered
<1>2. InPlace(0, 0)
  BY <1>1, OrderedEmpty DEF Init, InPlace
<1> QED
  BY <1>1, <1>2 DEF Pings

(* The next number keeps a numbered sequence numbered.                     *)
LEMMA NumberedAppend ==
    ASSUME NEW s, Numbered(s), NEW d \in Nat, d = Len(s) + 1
    PROVE  Numbered(Append(s, d)) /\ Len(Append(s, d)) = Len(s) + 1
  BY DEF Numbered

(* What the queues carry is a natural number.                              *)
LEMMA DataIsNat ==
    (\A e \in Reply : e.data \in Nat) /\ (\A e \in Inbox : e.data \in Nat)
  BY DEF Reply, Inbox

(* A ping is queued with the next number; another message changes nothing. *)
LEMMA PeerQueuesInOrder ==
    ASSUME IInv, Pings, NEW m \in Inbox, PeerQueues(m),
           m.kind = "ping" => m.data = Len(asked) + 1
    PROVE  Pings'
<1>1. PICK b \in Nat, c \in Nat : InPlace(b, c)
  BY DEF Pings
<1>2. /\ asked \in Seq(Nat) /\ Len(asked) \in Nat /\ inbox \in Seq(Inbox)
      /\ c <= Len(asked) /\ Ordered("ping", c, Len(asked), inbox)
  BY <1>1 DEF IInv, Types, InPlace
<1>3. UNCHANGED <<answered, replies, responses>> /\ inbox' = Append(inbox, m)
  BY DEF PeerQueues, endpointVars
<1>4. CASE m.kind = "ping"
  <2>1. asked' = Append(asked, m.data) /\ m.data = Len(asked) + 1 /\ m.data \in Nat
    BY <1>2, <1>4 DEF PeerQueues
  <2>2. Numbered(asked') /\ Len(asked') = Len(asked) + 1
    BY <2>1, NumberedAppend DEF Pings
  <2>3. Ordered("ping", c, Len(asked) + 1, Append(inbox, m))
    BY <1>2, <1>4, <2>1, DataIsNat, OrderedAppend
  <2>4. InPlace(b, c)'
    BY <1>1, <1>2, <1>3, <2>2, <2>3 DEF InPlace
  <2> QED
    BY <1>3, <2>2, <2>4 DEF Pings
<1>5. CASE m.kind # "ping"
  <2>1. asked' = asked
    BY <1>5 DEF PeerQueues
  <2>2. Ordered("ping", c, Len(asked), Append(inbox, m))
    BY <1>2, <1>5, DataIsNat, OrderedAppend
  <2>3. InPlace(b, c)'
    BY <1>1, <1>3, <2>1, <2>2 DEF InPlace
  <2> QED
    BY <1>3, <2>1, <2>3 DEF Pings
<1> QED
  BY <1>4, <1>5

(* The pong that the peer takes is the next one it waits for.              *)
LEMMA PeerReceivesInOrder == ASSUME IInv, Pings, PeerReceives PROVE Pings'
<1>1. PICK b \in Nat, c \in Nat : InPlace(b, c)
  BY DEF Pings
<1> DEFINE r == Head(replies)
<1>2. /\ replies \in Seq(Reply) /\ replies # << >> /\ replies' = Tail(replies)
      /\ Numbered(answered) /\ Len(answered) \in Nat /\ r \in Reply
  BY DEF IInv, Types, AckTypeOK, PeerReceives, Pings, Numbered
<1>3. UNCHANGED <<asked, responses, inbox>>
  BY DEF PeerReceives, endpointVars
<1>4. Ordered("pong", Len(answered), b, replies)
  BY <1>1 DEF InPlace
<1>5. CASE r.kind = "pong"
  <2>1. /\ r.data = Len(answered) + 1 /\ Len(answered) + 1 <= b
        /\ Ordered("pong", Len(answered) + 1, b, Tail(replies))
    BY <1>2, <1>4, <1>5, DataIsNat, OrderedTail
  <2>2. answered' = Append(answered, r.data)
    BY <1>5 DEF PeerReceives
  <2>3. Numbered(answered') /\ Len(answered') = Len(answered) + 1
    BY <1>2, <2>1, <2>2, NumberedAppend
  <2>4. InPlace(b, c)'
    BY <1>1, <1>2, <1>3, <2>1, <2>3 DEF InPlace
  <2> QED
    BY <1>3, <2>3, <2>4 DEF Pings
<1>6. CASE r.kind # "pong"
  <2>1. Ordered("pong", Len(answered), b, Tail(replies))
    BY <1>2, <1>4, <1>6, DataIsNat, OrderedTail
  <2>2. answered' = answered
    BY <1>6 DEF PeerReceives
  <2>3. InPlace(b, c)'
    BY <1>1, <1>2, <1>3, <2>1, <2>2 DEF InPlace
  <2> QED
    BY <1>3, <2>2, <2>3 DEF Pings
<1> QED
  BY <1>5, <1>6

(* The ping that is handled is the next one: its pong goes last.           *)
LEMMA OnRecvMessageInOrder == ASSUME IInv, Pings, OnRecvMessage PROVE Pings'
<1>1. PICK b \in Nat, c \in Nat : InPlace(b, c)
  BY DEF Pings
<1> DEFINE m == Head(inbox)
<1>2. /\ inbox \in Seq(Inbox) /\ inbox # << >> /\ inbox' = Tail(inbox)
      /\ m \in Inbox /\ Len(asked) \in Nat /\ Len(answered) \in Nat
  BY DEF IInv, Types, OnRecvMessage, Pings, Numbered
<1>3. UNCHANGED <<asked, answered>>
  BY DEF OnRecvMessage, peerVars
<1>4. /\ responses \in Seq(Reply) /\ AcksUpTo(Limit, responses)
      /\ replies \in Seq(Reply) /\ AcksUpTo(Limit, replies)
  BY DEF IInv, Types, AckTypeOK
<1>5. /\ Ordered("pong", Len(answered), b, replies)
      /\ Ordered("pong", b, c, responses)
      /\ Ordered("ping", c, Len(asked), inbox)
      /\ Len(answered) <= b /\ b <= c /\ c <= Len(asked)
  BY <1>1 DEF InPlace
<1>6. PICK d \in Nat :
        /\ c <= d /\ d <= Len(asked)
        /\ Ordered("ping", d, Len(asked), Tail(inbox))
        /\ \/ m.kind = "ping" /\ m.data = c + 1 /\ d = c + 1
           \/ m.kind # "ping" /\ d = c
  <2>1. CASE m.kind = "ping"
    <3>1. m.data = c + 1 /\ c + 1 <= Len(asked)
          /\ Ordered("ping", c + 1, Len(asked), Tail(inbox))
      BY <1>2, <1>5, <2>1, DataIsNat, OrderedTail
    <3>2. c + 1 \in Nat /\ c <= c + 1
      OBVIOUS
    <3> QED
      BY <2>1, <3>1, <3>2
  <2>2. CASE m.kind # "ping"
    <3>1. Ordered("ping", c, Len(asked), Tail(inbox))
      BY <1>2, <1>5, <2>2, DataIsNat, OrderedTail
    <3> QED
      BY <1>5, <2>2, <3>1
  <2> QED
    BY <2>1, <2>2
<1>7. \A rs \in Seq(Reply), lo \in Nat :
         AcksUpTo(Limit, rs) /\ lo <= c /\ Ordered("pong", lo, c, rs) =>
             Ordered("pong", lo, d, rs \o Responses(m))
  <2> SUFFICES ASSUME NEW rs \in Seq(Reply), NEW lo \in Nat,
                      AcksUpTo(Limit, rs), lo <= c, Ordered("pong", lo, c, rs)
               PROVE  Ordered("pong", lo, d, rs \o Responses(m))
    OBVIOUS
  <2>1. /\ m.kind = "ping" /\ m.data = c + 1 =>
              Ordered("pong", lo, c + 1, rs \o Responses(m))
        /\ m.kind # "ping" => Ordered("pong", lo, c, rs \o Responses(m))
    <3> HIDE DEF m
    <3> QED
      BY <1>2, ResponsesOrdered
  <2> QED
    BY <1>6, <2>1
<1>8. CASE auto
  <2>1. /\ replies' = replies \o Responses(m)
        /\ responses' = responses /\ responses = << >>
    BY <1>8 DEF OnRecvMessage, IInv, Types, AckTypeOK
  <2>2. b = c
    BY <1>5, <2>1, OrderedEmpty
  <2>3. Ordered("pong", Len(answered), d, replies')
    BY <1>2, <1>4, <1>5, <1>7, <2>1, <2>2
  <2>4. Ordered("pong", d, d, responses')
    BY <1>6, <2>1, OrderedEmpty
  <2>5. InPlace(d, d)'
    BY <1>2, <1>3, <1>5, <1>6, <2>2, <2>3, <2>4 DEF InPlace
  <2> QED
    BY <1>3, <1>6, <2>5 DEF Pings
<1>9. CASE ~ auto
  <2>1. replies' = replies /\ responses' = responses \o Responses(m)
    BY <1>9 DEF OnRecvMessage
  <2>2. Ordered("pong", b, d, responses')
    BY <1>4, <1>5, <1>7, <2>1
  <2>3. InPlace(b, d)'
    BY <1>2, <1>3, <1>5, <1>6, <2>1, <2>2 DEF InPlace
  <2> QED
    BY <1>3, <1>6, <2>3 DEF Pings
<1> QED
  BY <1>8, <1>9

(* Flushing moves the first response to the end of the replies.            *)
LEMMA FlushInOrder == ASSUME IInv, Pings, Flush PROVE Pings'
<1>1. PICK b \in Nat, c \in Nat : InPlace(b, c)
  BY DEF Pings
<1> DEFINE r == Head(responses)
<1>2. /\ responses \in Seq(Reply) /\ responses # << >> /\ r \in Reply
      /\ responses' = Tail(responses) /\ replies' = Append(replies, r)
      /\ replies \in Seq(Reply) /\ Len(answered) \in Nat
  BY DEF IInv, Types, AckTypeOK, Flush, Pings, Numbered
<1>3. UNCHANGED <<asked, answered, inbox>>
  BY DEF Flush, peerVars
<1>4. /\ Ordered("pong", Len(answered), b, replies)
      /\ Ordered("pong", b, c, responses)
      /\ Len(answered) <= b /\ b <= c
  BY <1>1 DEF InPlace
<1>5. CASE r.kind = "pong"
  <2>1. /\ r.data = b + 1 /\ b + 1 <= c
        /\ Ordered("pong", b + 1, c, Tail(responses))
    BY <1>2, <1>4, <1>5, DataIsNat, OrderedTail
  <2>2. Ordered("pong", Len(answered), b + 1, Append(replies, r))
    BY <1>2, <1>4, <1>5, <2>1, DataIsNat, OrderedAppend
  <2>3. InPlace(b + 1, c)'
    BY <1>1, <1>2, <1>3, <2>1, <2>2 DEF InPlace
  <2>4. b + 1 \in Nat
    OBVIOUS
  <2> QED
    BY <1>3, <2>3, <2>4 DEF Pings
<1>6. CASE r.kind # "pong"
  <2>1. Ordered("pong", b, c, Tail(responses))
    BY <1>2, <1>4, <1>6, DataIsNat, OrderedTail
  <2>2. Ordered("pong", Len(answered), b, Append(replies, r))
    BY <1>2, <1>4, <1>6, DataIsNat, OrderedAppend
  <2>3. InPlace(b, c)'
    BY <1>1, <1>2, <1>3, <2>1, <2>2 DEF InPlace
  <2> QED
    BY <1>3, <2>3 DEF Pings
<1> QED
  BY <1>5, <1>6

(* A step that touches no queue keeps the pings in their place.            *)
LEMMA UntouchedInOrder ==
    ASSUME Pings, UNCHANGED <<asked, answered, inbox, replies, responses>>
    PROVE  Pings'
  BY DEF Pings, InPlace

(* Every step keeps the pings and pongs in their place.                    *)
LEMMA PingsStep == IInv /\ Pings /\ [Next]_vars => Pings'
<1> SUFFICES ASSUME IInv, Pings, [Next]_vars PROVE Pings'
  OBVIOUS
<1>1. \A n \in Sizes : Media(n) \in Inbox /\ Media(n).kind # "ping"
  BY SizeAssumption DEF Media, Inbox
<1>2. \A w \in Windows :
         WindowAckSize(w) \in Inbox /\ WindowAckSize(w).kind # "ping"
  BY SizeAssumption DEF WindowAckSize, Inbox
<1>3. CASE \E n \in Sizes : PeerQueues(Media(n))
  BY <1>1, <1>3, PeerQueuesInOrder
<1>4. CASE \E w \in Windows : PeerAnnounces(w)
  BY <1>2, <1>4, PeerQueuesInOrder DEF PeerAnnounces
<1>5. CASE PeerPings
  <2>1. Len(asked) + 1 \in Nat
    BY DEF IInv, Types
  <2>2. /\ PingRequest(Len(asked) + 1) \in Inbox
        /\ PingRequest(Len(asked) + 1).data = Len(asked) + 1
    BY <2>1, SizeAssumption DEF PingRequest, Inbox
  <2> QED
    BY <1>5, <2>2, PeerQueuesInOrder DEF PeerPings
<1>6. CASE PeerReceives
  BY <1>6, PeerReceivesInOrder
<1>7. CASE ReadsSome
  BY <1>7, UntouchedInOrder DEF ReadsSome, peerVars
<1>8. CASE OnRecvMessage
  BY <1>8, OnRecvMessageInOrder
<1>9. CASE Flush
  BY <1>9, FlushInOrder
<1>10. CASE UNCHANGED vars
  BY <1>10, UntouchedInOrder DEF vars, endpointVars, peerVars
<1> QED
  BY <1>3, <1>4, <1>5, <1>6, <1>7, <1>8, <1>9, <1>10 DEF Next

(* The shorter of two numbered sequences is a prefix of the other.         *)
LEMMA SameNumbers ==
    ASSUME NEW s, NEW t, Numbered(s), Numbered(t), Len(s) <= Len(t)
    PROVE  /\ IsPrefix(s, t)
           /\ Len(s) = Len(t) => s = t
<1>1. s \in Seq(Nat) /\ t \in Seq(Nat)
  BY DEF Numbered
<1>2. \A i \in 1..Len(s) : s[i] = t[i]
  BY <1>1 DEF Numbered
<1>3. SubSeq(s, 1, Len(s)) = SubSeq(t, 1, Len(s))
  BY <1>1, <1>2
<1>4. IsPrefix(s, t)
  BY <1>1, <1>3 DEF IsPrefix
<1>5. Len(s) = Len(t) => s = t
  BY <1>1, <1>2
<1> QED
  BY <1>4, <1>5

(* Every ping is answered once and in order, for any number of pings that  *)
(* are under way, answered at once or when the program sends next, with    *)
(* acknowledgements due between them.                                      *)
THEOREM PingsAnsweredInOrder == Spec => []PingsInOrder
<1>1. ASSUME Pings PROVE PingsInOrder
  <2>1. PICK b \in Nat, c \in Nat : InPlace(b, c)
    BY <1>1 DEF Pings
  <2>2. /\ Numbered(asked) /\ Numbered(answered)
        /\ Len(asked) \in Nat /\ Len(answered) \in Nat
        /\ Len(answered) <= Len(asked)
    BY <1>1, <2>1 DEF Pings, Numbered, InPlace
  <2>3. ASSUME inbox = << >>, responses = << >>, replies = << >>
        PROVE  Len(answered) = Len(asked)
    <3>1. Len(answered) = b /\ b = c /\ c = Len(asked)
      BY <2>1, <2>2, <2>3, OrderedEmpty DEF InPlace
    <3> QED
      BY <3>1
  <2> QED
    BY <2>2, <2>3, SameNumbers DEF PingsInOrder
<1> QED
  BY <1>1, Initially, Inductive, PingsInitially, PingsStep, PTL DEF Spec
=============================================================================
