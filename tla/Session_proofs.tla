---------------------------- MODULE Session_proofs ----------------------------
(***************************************************************************)
(* Proofs about the session of Session.tla, for every set of purposes,     *)
(* every stream id and any amount of media and pings: first what results   *)
(* are decoded as, then how a session is set up, then that it carries its  *)
(* media whole and answers its requests once and in order, from where both *)
(* ends are in its script.                                                 *)
(***************************************************************************)
EXTENDS Session, Selection_proofs

(* Which commands are ever sent under a transaction id, and what their     *)
(* results are decoded as: fmle_publish and create_stream share id 2, but  *)
(* no client calls both; FCPublish and FCUnpublish share id 3, and their   *)
(* results look the same.                                                  *)
Allowed(t) ==
    CASE t = 1 -> {"connect"}
      [] t = 2 -> IF purpose = "publish" THEN {"releaseStream"}
                                         ELSE {"createStream"}
      [] t = 3 -> {"FCPublish", "FCUnpublish"}
      [] t = 4 -> {"createStream"}

Class(t) ==
    CASE t = 1 -> "connectRes"
      [] t = 2 -> IF purpose = "publish" THEN "fmleRes" ELSE "streamRes"
      [] t = 3 -> "fmleRes"
      [] t = 4 -> "streamRes"

Sent(t) == t \in Tids /\ requests[t] # "none"

(* A request on its way is recorded, and goes by an id of its kind.        *)
GoodRequest(m) ==
    m.kind \in Requests => Sent(m.tid) /\ m.kind \in Allowed(m.tid)

(* A result on its way answers a recorded request of its kind.             *)
GoodResult(m) ==
    /\ m.kind \in Results => Sent(m.tid) /\ m.kind = Class(m.tid)
    /\ m.kind = "streamRes" => m.data = StreamId

Types ==
    /\ stream_id \in {0, StreamId}
    /\ produced \in Nat /\ served \in Nat
    /\ toServer \in Seq(Message) /\ toClient \in Seq(Message)
    /\ requests \in [Tids -> Requests \cup {"none"}]

(* The inductive invariant: NoUnknownResponse follows from what is on its  *)
(* way, which follows from what is recorded.                               *)
IInv ==
    /\ Types
    /\ \A t \in Tids : requests[t] \in Allowed(t) \cup {"none"}
    /\ \A i \in DOMAIN toServer : GoodRequest(toServer[i])
    /\ \A i \in DOMAIN toClient : GoodResult(toClient[i])
    /\ spc = "deciding" => Sent(1)
    /\ fault = "none"

-----------------------------------------------------------------------------
(* Commands that share a transaction id have results of one form.          *)
LEMMA OneClass ==
  ASSUME NEW t \in Tids, NEW k \in Allowed(t)
  PROVE  k \in Requests /\ ResultOf(k) = Class(t)
<1>1. CASE t = 1  BY <1>1 DEF Allowed, Class, ResultOf, Requests, FMLEStart
<1>2. CASE t = 2  BY <1>2 DEF Allowed, Class, ResultOf, Requests, FMLEStart
<1>3. CASE t = 3  BY <1>3 DEF Allowed, Class, ResultOf, Requests, FMLEStart
<1>4. CASE t = 4  BY <1>4 DEF Allowed, Class, ResultOf, Requests, FMLEStart
<1> QED  BY <1>1, <1>2, <1>3, <1>4 DEF Tids

(* A new session satisfies the invariant.                                  *)
LEMMA InitInv == Init => IInv
  BY StreamIdAssumption
  DEF Init, ClientInit, ServerInit, WireInit, IInv, Types, Sent

(* Whatever the requests recorded under an id, they are of its kind.       *)
LEMMA RecordsItsKind ==
  ASSUME IInv, NEW ms \in Seq(Message),
         \A i \in DOMAIN ms : ms[i].kind \in Requests =>
             ms[i].tid \in Tids /\ ms[i].kind \in Allowed(ms[i].tid)
  PROVE  /\ RequestsAfter(ms) \in [Tids -> Requests \cup {"none"}]
         /\ \A t \in Tids : /\ RequestsAfter(ms)[t] \in Allowed(t) \cup {"none"}
                            /\ requests[t] # "none" =>
                                  RequestsAfter(ms)[t] # "none"
         /\ \A i \in DOMAIN ms : ms[i].kind \in Requests =>
                RequestsAfter(ms)[ms[i].tid] # "none"
<1> DEFINE Under(t) == {i \in DOMAIN ms : Recorded(ms[i]) /\ ms[i].tid = t}
           after == RequestsAfter(ms)
<1>1. after = [t \in Tids |-> IF Under(t) = {} THEN requests[t]
                              ELSE ms[CHOOSE i \in Under(t) : TRUE].kind]
  BY DEF RequestsAfter
<1>2. ASSUME NEW t \in Tids, Under(t) # {}
      PROVE  after[t] \in Allowed(t) /\ after[t] \in Requests
  <2>1. PICK i \in Under(t) : after[t] = ms[i].kind  BY <1>1, <1>2
  <2> QED  BY <2>1 DEF Recorded
<1>3. ASSUME NEW t \in Tids, Under(t) = {}
      PROVE  after[t] = requests[t]
  BY <1>1, <1>3
<1>4. "none" \notin Requests  BY DEF Requests, FMLEStart
<1>5. ASSUME NEW i \in DOMAIN ms, ms[i].kind \in Requests
      PROVE  after[ms[i].tid] # "none"
  <2>1. i \in Under(ms[i].tid) /\ ms[i].tid \in Tids  BY <1>5 DEF Recorded
  <2> QED  BY <2>1, <1>2, <1>4
<1>6. \A t \in Tids : after[t] \in Requests \cup {"none"}
  BY <1>2, <1>3 DEF IInv, Types
<1>7. after \in [Tids -> Requests \cup {"none"}]  BY <1>1, <1>6
<1>8. \A t \in Tids : /\ after[t] \in Allowed(t) \cup {"none"}
                      /\ requests[t] # "none" => after[t] # "none"
  BY <1>2, <1>3, <1>4 DEF IInv
<1> QED  BY <1>5, <1>7, <1>8

(* Sending a batch of such requests keeps the invariant.                   *)
LEMMA SendsInv ==
  ASSUME IInv, NEW ms \in Seq(Message), Sends(ms),
         \A i \in DOMAIN ms : ms[i].kind \in Requests =>
             ms[i].tid \in Tids /\ ms[i].kind \in Allowed(ms[i].tid),
         UNCHANGED <<purpose, serverVars, fault>>,
         stream_id' \in {0, StreamId}, produced' \in Nat
  PROVE  IInv'
<1> DEFINE after == RequestsAfter(ms)
<1>1. requests' = after /\ toServer' = toServer \o ms
      /\ UNCHANGED <<toClient, spc, served, purpose, fault>>
  BY DEF Sends, serverVars
<1>2. /\ after \in [Tids -> Requests \cup {"none"}]
      /\ \A t \in Tids : /\ after[t] \in Allowed(t) \cup {"none"}
                         /\ requests[t] # "none" => after[t] # "none"
      /\ \A i \in DOMAIN ms : ms[i].kind \in Requests =>
             after[ms[i].tid] # "none"
  BY RecordsItsKind
<1>3. \A t : Allowed(t)' = Allowed(t) /\ Class(t)' = Class(t)
  BY <1>1 DEF Allowed, Class
<1>4. \A t : Sent(t) => Sent(t)'  BY <1>1, <1>2 DEF Sent
<1>5. Types'  BY <1>1, <1>2 DEF IInv, Types
<1>6. \A t \in Tids : requests'[t] \in Allowed(t)' \cup {"none"}
  BY <1>1, <1>2, <1>3
<1>7. ASSUME NEW i \in DOMAIN toServer'
      PROVE  GoodRequest(toServer[i])'
  <2>1. CASE i \in DOMAIN toServer
    <3>1. toServer'[i] = toServer[i]  BY <1>1, <2>1 DEF IInv, Types
    <3>2. GoodRequest(toServer[i])  BY <2>1 DEF IInv
    <3> QED  BY <3>1, <3>2, <1>3, <1>4 DEF GoodRequest
  <2>2. CASE i \notin DOMAIN toServer
    <3>1. PICK j \in DOMAIN ms : toServer'[i] = ms[j]
      <4>1. i - Len(toServer) \in DOMAIN ms
            /\ toServer'[i] = ms[i - Len(toServer)]
        BY <1>1, <1>7, <2>2 DEF IInv, Types
      <4> QED  BY <4>1
    <3>2. ms[j].kind \in Requests =>
            /\ ms[j].tid \in Tids /\ ms[j].kind \in Allowed(ms[j].tid)
            /\ requests'[ms[j].tid] # "none"
      BY <1>1, <1>2
    <3> QED  BY <3>1, <3>2, <1>3 DEF GoodRequest, Sent
  <2> QED  BY <2>1, <2>2
<1>8. ASSUME NEW i \in DOMAIN toClient'
      PROVE  GoodResult(toClient[i])'
  <2>1. GoodResult(toClient[i]) /\ toClient'[i] = toClient[i]
    BY <1>1, <1>8 DEF IInv
  <2> QED  BY <2>1, <1>3, <1>4 DEF GoodResult
<1>9. spc' = "deciding" => Sent(1)'  BY <1>1, <1>4 DEF IInv
<1>10. fault' = "none"  BY <1>1 DEF IInv
<1> QED  BY <1>5, <1>6, <1>7, <1>8, <1>9, <1>10 DEF IInv

-----------------------------------------------------------------------------
(* The client sends.                                                       *)
LEMMA ClientSendsInv ==
  ASSUME IInv, UNCHANGED serverVars,
         WriteC0C1 \/ WriteC2 \/ FastHandshake
             \/ ConnectApp \/ CreateStream \/ Play \/ Publish
             \/ FmlePublish \/ FmlePublishes \/ FmleUnpublish
  PROVE  IInv'
<1> USE StreamIdAssumption DEF Message, Kinds, Call, Plain, Over
<1>0. stream_id \in {0, StreamId} /\ stream_id \in {0, StreamId}
      /\ produced \in Nat
  BY DEF IInv, Types
<1>1. CASE ConnectApp
  <2> DEFINE ms == <<Call("connect", 1), Plain("windowAck")>>
  <2>1. ms \in Seq(Message)  OBVIOUS
  <2>2. \A i \in DOMAIN ms : ms[i].kind \in Requests =>
            ms[i].tid \in Tids /\ ms[i].kind \in Allowed(ms[i].tid)
    BY DEF Requests, FMLEStart, Tids, Allowed
  <2>3. Sends(ms) /\ UNCHANGED <<purpose, stream_id, produced, fault>>
    BY <1>1 DEF ConnectApp, SendsOnly
  <2> HIDE DEF ms
  <2> QED  BY <2>1, <2>2, <2>3, <1>0, SendsInv
<1>2. CASE CreateStream
  <2> DEFINE ms == <<Call("createStream", 2)>>
  <2>1. ms \in Seq(Message)  OBVIOUS
  <2>2. \A i \in DOMAIN ms : ms[i].kind \in Requests =>
            ms[i].tid \in Tids /\ ms[i].kind \in Allowed(ms[i].tid)
    BY <1>2 DEF CreateStream, Requests, FMLEStart, Tids, Allowed
  <2>3. Sends(ms) /\ UNCHANGED <<purpose, stream_id, produced, fault>>
    BY <1>2 DEF CreateStream, SendsOnly
  <2> HIDE DEF ms
  <2> QED  BY <2>1, <2>2, <2>3, <1>0, SendsInv
<1>3. CASE Play
  <2> DEFINE ms == <<Over(stream_id, "play"), Plain("bufferLength"),
                     Plain("chunkSize")>>
  <2>1. ms \in Seq(Message)  BY <1>0
  <2>2. \A i \in DOMAIN ms : ms[i].kind \notin Requests
    BY DEF Requests, FMLEStart
  <2>3. Sends(ms) /\ UNCHANGED <<purpose, stream_id, produced, fault>>
    BY <1>3 DEF Play, SendsOnly
  <2> HIDE DEF ms
  <2> QED  BY <2>1, <2>2, <2>3, <1>0, SendsInv
<1>4. CASE Publish
  <2> DEFINE ms == <<Plain("chunkSize"), Over(stream_id, "publish")>>
  <2>1. ms \in Seq(Message)  BY <1>0
  <2>2. \A i \in DOMAIN ms : ms[i].kind \notin Requests
    BY DEF Requests, FMLEStart
  <2>3. Sends(ms) /\ UNCHANGED <<purpose, stream_id, produced, fault>>
    BY <1>4 DEF Publish, SendsOnly
  <2> HIDE DEF ms
  <2> QED  BY <2>1, <2>2, <2>3, <1>0, SendsInv
<1>5. CASE FmlePublish
  <2> DEFINE ms == <<Call("releaseStream", 2), Call("FCPublish", 3),
                     Call("createStream", 4)>>
  <2>1. ms \in Seq(Message)  OBVIOUS
  <2>2. \A i \in DOMAIN ms : ms[i].kind \in Requests =>
            ms[i].tid \in Tids /\ ms[i].kind \in Allowed(ms[i].tid)
    <3>1. purpose = "publish"  BY <1>5 DEF FmlePublish
    <3>2. /\ "releaseStream" \in Allowed(2) /\ "FCPublish" \in Allowed(3)
          /\ "createStream" \in Allowed(4)
      BY <3>1 DEF Allowed
    <3> QED  BY <3>2 DEF Tids
  <2>3. Sends(ms) /\ stream_id' = 0 /\ UNCHANGED <<purpose, produced, fault>>
    BY <1>5 DEF FmlePublish, CreateStreamTid
  <2> HIDE DEF ms
  <2> QED  BY <2>1, <2>2, <2>3, <1>0, SendsInv
<1>6. CASE FmlePublishes
  <2> DEFINE ms == <<Over(stream_id, "publish")>>
  <2>1. ms \in Seq(Message)  BY <1>0
  <2>2. \A i \in DOMAIN ms : ms[i].kind \notin Requests
    BY DEF Requests, FMLEStart
  <2>3. Sends(ms) /\ UNCHANGED <<purpose, stream_id, produced, fault>>
    BY <1>6 DEF FmlePublishes, SendsOnly
  <2> HIDE DEF ms
  <2> QED  BY <2>1, <2>2, <2>3, <1>0, SendsInv
<1>7. CASE FmleUnpublish
  <2> DEFINE ms == <<Call("FCUnpublish", 3)>>
  <2>1. ms \in Seq(Message)  OBVIOUS
  <2>2. \A i \in DOMAIN ms : ms[i].kind \in Requests =>
            ms[i].tid \in Tids /\ ms[i].kind \in Allowed(ms[i].tid)
    BY DEF Requests, FMLEStart, Tids, Allowed
  <2>3. Sends(ms) /\ stream_id' = 0 /\ UNCHANGED <<purpose, produced, fault>>
    BY <1>7 DEF FmleUnpublish
  <2> HIDE DEF ms
  <2> QED  BY <2>1, <2>2, <2>3, <1>0, SendsInv
<1>8. CASE WriteC0C1 \/ WriteC2 \/ FastHandshake
  <2>1. PICK k \in {"c0c1", "c2", "fastHs"} :
           Sends(<<Plain(k)>>)
           /\ UNCHANGED <<purpose, stream_id, produced, fault>>
    BY <1>8 DEF WriteC0C1, WriteC2, FastHandshake, SendsOnly
  <2> DEFINE ms == <<Plain(k)>>
  <2>2. ms \in Seq(Message) /\ \A i \in DOMAIN ms : ms[i].kind \notin Requests
    BY DEF Requests, FMLEStart
  <2>3. Sends(ms)  BY <2>1
  <2> HIDE DEF ms
  <2> QED  BY <2>1, <2>2, <2>3, <1>0, SendsInv
<1> QED  BY <1>1, <1>2, <1>3, <1>4, <1>5, <1>6, <1>7, <1>8

(* Media is no request and asks for no result.                             *)
LEMMA WritePacketInv ==
  ASSUME IInv, UNCHANGED serverVars, WritePacket
  PROVE  IInv'
<1> DEFINE m == Media(stream_id, produced + 1)
<1>1. m \in Message /\ m.kind \notin Requests
  BY DEF IInv, Types, Media, Message, Kinds, Requests, FMLEStart
<1>2. /\ toServer' = Append(toServer, m) /\ produced' \in Nat
      /\ UNCHANGED <<purpose, stream_id, requests, fault, toClient, served, spc>>
  BY DEF IInv, Types, WritePacket, serverVars
<1> HIDE DEF m
<1>3. \A t : Allowed(t)' = Allowed(t) /\ Class(t)' = Class(t) /\ Sent(t)' = Sent(t)
  BY <1>2 DEF Allowed, Class, Sent
<1>4. Types'  BY <1>1, <1>2 DEF IInv, Types
<1>5. ASSUME NEW i \in DOMAIN toServer'
      PROVE  GoodRequest(toServer[i])'
  <2>1. CASE i \in DOMAIN toServer
    <3>1. toServer'[i] = toServer[i] /\ GoodRequest(toServer[i])
      BY <1>2, <2>1 DEF IInv, Types
    <3> QED  BY <3>1, <1>3 DEF GoodRequest
  <2>2. CASE i \notin DOMAIN toServer
    <3>1. toServer'[i] = m  BY <1>2, <2>2, <1>5 DEF IInv, Types
    <3> QED  BY <3>1, <1>1 DEF GoodRequest
  <2> QED  BY <2>1, <2>2
<1>6. ASSUME NEW i \in DOMAIN toClient'
      PROVE  GoodResult(toClient[i])'
  BY <1>2, <1>3, <1>6 DEF IInv, GoodResult
<1> QED  BY <1>2, <1>3, <1>4, <1>5, <1>6 DEF IInv

-----------------------------------------------------------------------------
(* The client receives: a result that is on its way decodes.               *)
LEMMA ResultsDecode ==
  ASSUME IInv, NEW m \in Message, GoodResult(m)
  PROVE  Decoded(m) \notin Faults /\ StreamIdAfter(m) \in {0, StreamId}
<1>1. CASE m.kind \in Results
  <2>1. Sent(m.tid) /\ m.kind = Class(m.tid)  BY <1>1 DEF GoodResult
  <2>2. requests[m.tid] \in Allowed(m.tid)  BY <2>1 DEF IInv, Sent
  <2>3. ResultOf(requests[m.tid]) = m.kind  BY <2>1, <2>2, OneClass DEF Sent
  <2>4. Decoded(m) = ResultPacket[m.kind]
    <3>1. Decoded(m) = DecodedResult(m)  BY <1>1 DEF Decoded
    <3> QED  BY <3>1, <2>1, <2>3 DEF DecodedResult, Sent
  <2>5. /\ Decoded(m) \in {"ConnectAppRes", "CreateStreamRes", "FMLEStartRes"}
        /\ Decoded(m) = "CreateStreamRes" => m.kind = "streamRes"
    BY <1>1, <2>4 DEF ResultPacket, Results
  <2> QED  BY <2>5 DEF Faults, StreamIdAfter, GoodResult, IInv, Types
<1>2. CASE m.kind \notin Results
  <2>1. Decoded(m) \in {"Call", "OnStatusCall", "Data", "Control", "none"}
    BY <1>2 DEF Decoded, OtherPacket
  <2> QED  BY <2>1 DEF Faults, StreamIdAfter, IInv, Types
<1> QED  BY <1>1, <1>2

(* Taking a message off the queue leaves the rest as it was.               *)
LEMMA GetsInv ==
  ASSUME IInv, Gets, UNCHANGED serverVars,
         stream_id' \in {0, StreamId}, fault' = "none"
  PROVE  IInv'
<1>1. /\ toClient # << >> /\ toClient' = Tail(toClient)
      /\ UNCHANGED <<purpose, requests, produced, toServer, served, spc>>
  BY DEF Gets, serverVars
<1>2. \A t : Allowed(t)' = Allowed(t) /\ Class(t)' = Class(t) /\ Sent(t)' = Sent(t)
  BY <1>1 DEF Allowed, Class, Sent
<1>3. Types'  BY <1>1 DEF IInv, Types
<1>4. ASSUME NEW i \in DOMAIN toClient'
      PROVE  GoodResult(toClient[i])'
  <2>1. i + 1 \in DOMAIN toClient /\ toClient'[i] = toClient[i + 1]
    BY <1>1, <1>4 DEF IInv, Types
  <2>2. GoodResult(toClient[i + 1])  BY <2>1 DEF IInv
  <2> QED  BY <2>1, <2>2, <1>2 DEF GoodResult
<1>5. \A i \in DOMAIN toServer' : GoodRequest(toServer[i])'
  BY <1>1, <1>2 DEF IInv, GoodRequest
<1> QED  BY <1>1, <1>2, <1>3, <1>4, <1>5 DEF IInv

(* Every way in which the client receives.                                 *)
LEMMA ClientReceivesInv ==
  ASSUME IInv, UNCHANGED serverVars,
         DropsMessage \/ EndsWait \/ ReadPacket \/ OnAggregate \/ ReadS0S1S2
             \/ ReadFastHandshakeRes
  PROVE  IInv'
<1>1. Gets
  BY DEF DropsMessage, EndsWait, ReadPacket, OnAggregate, ReadS0S1S2,
         ReadFastHandshakeRes
<1>2. toClient # << >> /\ Head(toClient) = toClient[1]
      /\ 1 \in DOMAIN toClient /\ toClient[1] \in Message
  BY <1>1 DEF Gets, IInv, Types
<1>3. Decoded(Head(toClient)) \notin Faults
      /\ StreamIdAfter(Head(toClient)) \in {0, StreamId}
  BY <1>2, ResultsDecode DEF IInv
<1>4. stream_id' \in {0, StreamId} /\ fault' = "none"
  BY <1>3 DEF DropsMessage, EndsWait, ReadPacket, OnAggregate, ReadS0S1S2,
              ReadFastHandshakeRes, IInv, Types
<1> QED  BY <1>1, <1>4, GetsInv

-----------------------------------------------------------------------------
(* The server receives at most one message and sends good results.         *)
LEMMA ServerSendsInv ==
  ASSUME IInv, NEW ms \in Seq(Message),
         UNCHANGED clientVars,
         served' \in Nat,
         \/ UNCHANGED toServer
         \/ toServer # << >> /\ toServer' = Tail(toServer),
         toClient' = toClient \o ms,
         \A i \in DOMAIN ms : GoodResult(ms[i]),
         spc' = "deciding" => Sent(1)
  PROVE  IInv'
<1>1. UNCHANGED <<purpose, requests, produced, stream_id, fault>>
  BY DEF clientVars
<1>2. \A t : Allowed(t)' = Allowed(t) /\ Class(t)' = Class(t) /\ Sent(t)' = Sent(t)
  BY <1>1 DEF Allowed, Class, Sent
<1>3. Types'
  <2>1. toServer' \in Seq(Message)
    <3>1. toServer \in Seq(Message)  BY DEF IInv, Types
    <3>2. CASE UNCHANGED toServer  BY <3>1, <3>2
    <3>3. CASE toServer # << >> /\ toServer' = Tail(toServer)  BY <3>1, <3>3
    <3> QED  BY <3>2, <3>3
  <2>2. toClient' \in Seq(Message)  BY DEF IInv, Types
  <2> QED  BY <1>1, <2>1, <2>2 DEF IInv, Types
<1>4. ASSUME NEW i \in DOMAIN toServer'
      PROVE  GoodRequest(toServer[i])'
  <2>1. PICK j \in DOMAIN toServer : toServer'[i] = toServer[j]
    <3>1. CASE UNCHANGED toServer  BY <3>1, <1>4
    <3>2. CASE toServer # << >> /\ toServer' = Tail(toServer)
      <4>1. i + 1 \in DOMAIN toServer /\ toServer'[i] = toServer[i + 1]
        BY <3>2, <1>4 DEF IInv, Types
      <4> QED  BY <4>1
    <3> QED  BY <3>1, <3>2
  <2>2. GoodRequest(toServer[j])  BY DEF IInv
  <2> QED  BY <2>1, <2>2, <1>2 DEF GoodRequest
<1>5. ASSUME NEW i \in DOMAIN toClient'
      PROVE  GoodResult(toClient[i])'
  <2>1. CASE i \in DOMAIN toClient
    <3>1. toClient'[i] = toClient[i] /\ GoodResult(toClient[i])
      BY <2>1 DEF IInv, Types
    <3> QED  BY <3>1, <1>2 DEF GoodResult
  <2>2. CASE i \notin DOMAIN toClient
    <3>1. i - Len(toClient) \in DOMAIN ms
          /\ toClient'[i] = ms[i - Len(toClient)]
      BY <1>5, <2>2 DEF IInv, Types
    <3> QED  BY <3>1, <1>2 DEF GoodResult
  <2> QED  BY <2>1, <2>2
<1> QED  BY <1>1, <1>2, <1>3, <1>4, <1>5 DEF IInv

(* What the server knows of the request it takes.                          *)
LEMMA TakesGoodRequest ==
  ASSUME IInv, NEW kinds, Takes(kinds)
  PROVE  /\ toServer # << >> /\ toServer' = Tail(toServer) /\ served' \in Nat
         /\ Request \in Message /\ Request.kind \in kinds
         /\ Request.kind \in Requests =>
               /\ Sent(Request.tid)
               /\ ResultOf(Request.kind) = Class(Request.tid)
<1>1. /\ toServer # << >> /\ toServer' = Tail(toServer) /\ served' \in Nat
      /\ Request.kind \in kinds
  BY DEF Takes, Request, IInv, Types
<1>2. 1 \in DOMAIN toServer /\ Request = toServer[1] /\ Request \in Message
  <2>1. toServer \in Seq(Message)  BY DEF IInv, Types
  <2> QED  BY <1>1, <2>1 DEF Request
<1>3. GoodRequest(Request)  BY <1>2 DEF IInv
<1>4. Request.kind \in Requests =>
         Sent(Request.tid) /\ Request.kind \in Allowed(Request.tid)
  BY <1>3 DEF GoodRequest
<1>5. Request.kind \in Requests => Request.tid \in Tids  BY <1>4 DEF Sent
<1> QED  BY <1>1, <1>2, <1>4, <1>5, OneClass

(* The server accepts, rejects, redirects or starts the client.            *)
LEMMA AnswersInv ==
  ASSUME IInv, UNCHANGED clientVars,
         Accepts \/ Rejects \/ Redirects \/ RedirectTimesOut
             \/ StartPlay \/ StartFlashPublish \/ StartFmlePublish
  PROVE  IInv'
<1> USE StreamIdAssumption DEF Message, Kinds, Call, Plain, Over
<1>0. served \in Nat  BY DEF IInv, Types
<1>1. ASSUME NEW ms \in Seq(Message), NEW next, Answers(ms, next),
             \A i \in DOMAIN ms : GoodResult(ms[i]), next # "deciding"
      PROVE  IInv'
  <2>1. /\ toClient' = toClient \o ms /\ UNCHANGED <<toServer, served>>
        /\ spc' = next
    BY <1>1 DEF Answers, SetsClient
  <2> QED  BY <1>0, <1>1, <2>1, ServerSendsInv
<1>2. \A m : m.kind \notin Results => GoodResult(m)
  BY DEF GoodResult, Results
<1>3. CASE Accepts
  <2>1. PICK done \in {<<Plain("onBWDone")>>, << >>} :
          Answers(<<Plain("windowAck"), Plain("peerBandwidth"),
                    Plain("chunkSize"), Call("connectRes", 1)>> \o done,
                  "identifying")
    BY <1>3 DEF Accepts
  <2>2. GoodResult(Call("connectRes", 1))
    BY <1>3 DEF Accepts, IInv, GoodResult, Class
  <2> DEFINE settings == <<Plain("windowAck"), Plain("peerBandwidth"),
                           Plain("chunkSize"), Call("connectRes", 1)>>
             ms == settings \o done
  <2>3. settings \in Seq(Message) /\ \A i \in DOMAIN settings :
           GoodResult(settings[i])
    BY <1>2, <2>2 DEF Results
  <2>4. done \in Seq(Message) /\ \A i \in DOMAIN done : GoodResult(done[i])
    <3>1. CASE done = << >>  BY <3>1
    <3>2. CASE done = <<Plain("onBWDone")>>  BY <3>2, <1>2 DEF Results
    <3> QED  BY <3>1, <3>2
  <2>5. Answers(ms, "identifying")  BY <2>1
  <2> HIDE DEF settings
  <2>6. ms \in Seq(Message)  BY <2>3, <2>4
  <2>7. ASSUME NEW i \in DOMAIN ms  PROVE  GoodResult(ms[i])
    <3>1. CASE i \in DOMAIN settings
      <4>1. ms[i] = settings[i]  BY <2>3, <2>4, <3>1
      <4> QED  BY <4>1, <2>3, <3>1
    <3>2. CASE i \notin DOMAIN settings
      <4>1. i - Len(settings) \in DOMAIN done
            /\ ms[i] = done[i - Len(settings)]
        BY <2>3, <2>4, <2>7, <3>2
      <4> QED  BY <4>1, <2>4
    <3> QED  BY <3>1, <3>2
  <2> HIDE DEF ms
  <2> QED  BY <1>1, <2>5, <2>6, <2>7
<1>4. CASE Rejects \/ Redirects
  <2> DEFINE ms == <<Plain("rejected")>>
  <2>1. ms \in Seq(Message) /\ \A i \in DOMAIN ms : GoodResult(ms[i])
    BY <1>2 DEF Results
  <2>2. PICK next \in {"leaving", "redirecting"} : Answers(ms, next)
    BY <1>4 DEF Rejects, Redirects
  <2> HIDE DEF ms
  <2> QED  BY <1>1, <2>1, <2>2
<1>5. CASE RedirectTimesOut \/ StartFmlePublish
  <2>1. << >> \in Seq(Message)
        /\ \A i \in DOMAIN << >> : GoodResult(<< >>[i])
    OBVIOUS
  <2>2. PICK next \in {"leaving", "fc_publish"} : Answers(<< >>, next)
    BY <1>5 DEF RedirectTimesOut, StartFmlePublish
  <2> QED  BY <1>1, <2>1, <2>2
<1>6. CASE StartPlay
  <2> DEFINE ms == <<Plain("streamBegin"), Over(StreamId, "playReset"),
                 Over(StreamId, "playStart"), Over(StreamId, "sampleAccess"),
                 Over(StreamId, "dataStart")>>
  <2>1. ms \in Seq(Message)  OBVIOUS
  <2>2. \A i \in DOMAIN ms : GoodResult(ms[i])  BY <1>2 DEF Results
  <2>3. Answers(ms, "playing")  BY <1>6 DEF StartPlay
  <2> HIDE DEF ms
  <2> QED  BY <1>1, <2>1, <2>2, <2>3
<1>7. CASE StartFlashPublish
  <2> DEFINE ms == <<Over(StreamId, "publishStart")>>
  <2>1. ms \in Seq(Message) /\ \A i \in DOMAIN ms : GoodResult(ms[i])
    BY <1>2 DEF Results
  <2>2. Answers(ms, "publishing")  BY <1>7 DEF StartFlashPublish
  <2> HIDE DEF ms
  <2> QED  BY <1>1, <2>1, <2>2
<1> QED  BY <1>3, <1>4, <1>5, <1>6, <1>7

(* The server takes a message without answering it.                        *)
LEMMA TakesOnlyInv ==
  ASSUME IInv, UNCHANGED clientVars,
         TakesC2 \/ TakesConnect \/ IdentifiesPlay \/ IdentifiesFlashPublish
             \/ TakesMedia \/ Ignores \/ RefusesFastHandshake
  PROVE  IInv'
<1>1. PICK kinds : Takes(kinds)
  BY DEF TakesC2, TakesConnect, IdentifiesPlay, IdentifiesFlashPublish,
         TakesMedia, Ignores, RefusesFastHandshake
<1>2. toServer # << >> /\ toServer' = Tail(toServer) /\ served' \in Nat
  BY <1>1, TakesGoodRequest
<1>3. toClient \in Seq(Message) /\ toClient' = toClient
  BY DEF TakesC2, TakesConnect, IdentifiesPlay, IdentifiesFlashPublish,
         TakesMedia, Ignores, RefusesFastHandshake, IInv, Types
<1>4. toClient' = toClient \o << >>  BY <1>3
<1>5. << >> \in Seq(Message) /\ \A i \in DOMAIN << >> : GoodResult(<< >>[i])
  OBVIOUS
<1>6. spc' = "deciding" => Sent(1)
  <2>1. CASE TakesConnect
    <3>1. Request.kind = "connect"
          /\ (Request.kind \in Requests =>
                 /\ Sent(Request.tid)
                 /\ ResultOf(Request.kind) = Class(Request.tid))
      BY <2>1, TakesGoodRequest DEF TakesConnect
    <3>2. Sent(Request.tid) /\ Class(Request.tid) = "connectRes"
      BY <3>1 DEF Requests, ResultOf
    <3>3. Request.tid = 1  BY <3>2 DEF Sent, Tids, Class
    <3> QED  BY <3>2, <3>3
  <2>2. CASE TakesC2 \/ IdentifiesPlay \/ IdentifiesFlashPublish
                \/ RefusesFastHandshake
    BY <2>2 DEF TakesC2, IdentifiesPlay, IdentifiesFlashPublish,
                RefusesFastHandshake
  <2>3. CASE TakesMedia \/ Ignores
    BY <2>3 DEF TakesMedia, Ignores, Awaited
  <2> QED  BY <2>1, <2>2, <2>3
<1> QED  BY <1>2, <1>4, <1>5, <1>6, ServerSendsInv

(* The server takes a request and answers it, under the id it came with.   *)
LEMMA TakesAndAnswersInv ==
  ASSUME IInv, UNCHANGED clientVars,
         \/ IdentifiesByCreateStream \/ TakesCreateStream
         \/ IdentifiesFmlePublish \/ TakesFCPublish \/ TakesUnpublish
         \/ TakesPublish \/ RefusesPublish \/ TakesC0C1
         \/ TakesFastHandshake
  PROVE  IInv'
<1> USE StreamIdAssumption DEF Message, Kinds, Call, Plain, Over
<1> DEFINE r == Request
           fmleRes == [Call("fmleRes", r.tid) EXCEPT !.sid = StreamId]
<1>1. ASSUME NEW kinds, NEW ms \in Seq(Message), NEW next, Takes(kinds),
             SetsClient(ms, next), \A i \in DOMAIN ms : GoodResult(ms[i]),
             next # "deciding"
      PROVE  IInv'
  <2>1. toServer # << >> /\ toServer' = Tail(toServer) /\ served' \in Nat
    BY <1>1, TakesGoodRequest
  <2>2. toClient' = toClient \o ms /\ spc' = next  BY <1>1 DEF SetsClient
  <2> QED  BY <1>1, <2>1, <2>2, ServerSendsInv
<1>2. \A m : m.kind \notin Results => GoodResult(m)
  BY DEF GoodResult, Results
<1>3. ASSUME NEW kinds \in SUBSET Requests, Takes(kinds)
      PROVE  /\ r.kind \in kinds /\ r.tid \in Nat /\ Sent(r.tid)
             /\ ResultOf(r.kind) = Class(r.tid)
  BY <1>3, TakesGoodRequest
<1>4. FMLEStart \in SUBSET Requests /\ {"createStream"} \in SUBSET Requests
      /\ {"FCUnpublish"} \in SUBSET FMLEStart
      /\ (\A k \in FMLEStart : ResultOf(k) = "fmleRes")
      /\ ResultOf("createStream") = "streamRes"
  BY DEF Requests, FMLEStart, ResultOf
<1>5. CASE IdentifiesByCreateStream \/ TakesCreateStream
  <2> DEFINE ms == <<[Call("streamRes", r.tid) EXCEPT !.data = StreamId]>>
  <2>1. PICK next \in {"created", "publish"} :
           Takes({"createStream"}) /\ SetsClient(ms, next)
    BY <1>5 DEF IdentifiesByCreateStream, TakesCreateStream
  <2>2. r.tid \in Nat /\ Sent(r.tid) /\ Class(r.tid) = "streamRes"
    BY <2>1, <1>3, <1>4
  <2>3. ms \in Seq(Message)  BY <2>2
  <2>4. \A i \in DOMAIN ms : GoodResult(ms[i])  BY <2>2 DEF GoodResult
  <2> HIDE DEF ms
  <2> QED  BY <1>1, <2>1, <2>3, <2>4
<1>6. CASE IdentifiesFmlePublish \/ TakesFCPublish
  <2> DEFINE ms == <<Call("fmleRes", r.tid)>>
  <2>1. PICK next \in {"identified", "create_stream"} :
           Takes(FMLEStart) /\ SetsClient(ms, next)
    BY <1>6 DEF IdentifiesFmlePublish, TakesFCPublish, FmleAnswer
  <2>2. r.tid \in Nat /\ Sent(r.tid) /\ Class(r.tid) = "fmleRes"
    BY <2>1, <1>3, <1>4
  <2>3. ms \in Seq(Message)  BY <2>2
  <2>4. \A i \in DOMAIN ms : GoodResult(ms[i])  BY <2>2 DEF GoodResult
  <2> HIDE DEF ms
  <2> QED  BY <1>1, <2>1, <2>3, <2>4
<1>7. CASE TakesUnpublish
  <2> DEFINE ms == <<Over(StreamId, "onFCUnpublish"), fmleRes,
                     Over(StreamId, "unpublishSuccess")>>
  <2>1. Takes({"FCUnpublish"}) /\ SetsClient(ms, "identifying")
    BY <1>7 DEF TakesUnpublish
  <2>2. r.tid \in Nat /\ Sent(r.tid) /\ Class(r.tid) = "fmleRes"
    BY <2>1, <1>3, <1>4
  <2>3. ms \in Seq(Message)  BY <2>2
  <2>4. GoodResult(fmleRes)  BY <2>2 DEF GoodResult
  <2>5. \A i \in DOMAIN ms : GoodResult(ms[i])
    BY <2>4, <1>2 DEF Results
  <2> HIDE DEF ms
  <2> QED  BY <1>1, <2>1, <2>3, <2>5
<1>8. CASE TakesPublish
  <2> DEFINE ms == <<Over(StreamId, "onFCPublish"),
                     Over(StreamId, "publishStart")>>
  <2>1. Takes({"publish"}) /\ SetsClient(ms, "publishing")
    BY <1>8 DEF TakesPublish
  <2>2. ms \in Seq(Message)  OBVIOUS
  <2>3. \A i \in DOMAIN ms : GoodResult(ms[i])  BY <1>2 DEF Results
  <2> HIDE DEF ms
  <2> QED  BY <1>1, <2>1, <2>2, <2>3
<1>9. CASE RefusesPublish
  <2> DEFINE ms == <<Over(StreamId, "publishRefused")>>
  <2>1. Takes({"publish"}) /\ SetsClient(ms, "leaving")
    BY <1>9 DEF RefusesPublish
  <2>2. ms \in Seq(Message)  OBVIOUS
  <2>3. \A i \in DOMAIN ms : GoodResult(ms[i])  BY <1>2 DEF Results
  <2> HIDE DEF ms
  <2> QED  BY <1>1, <2>1, <2>2, <2>3
<1>10. CASE TakesC0C1
  <2> DEFINE ms == <<Plain("s0s1s2")>>
  <2>1. Takes({"c0c1"}) /\ SetsClient(ms, "reading_c2")
    BY <1>10 DEF TakesC0C1
  <2>2. ms \in Seq(Message) /\ \A i \in DOMAIN ms : GoodResult(ms[i])
    BY <1>2 DEF Results
  <2> HIDE DEF ms
  <2> QED  BY <1>1, <2>1, <2>2
<1>11. CASE TakesFastHandshake
  <2> DEFINE ms == <<Plain("fastHsRes")>>
  <2>1. PICK next \in {"identified", "playing"} :
           Takes({"fastHs"}) /\ SetsClient(ms, next)
    BY <1>11 DEF TakesFastHandshake
  <2>2. ms \in Seq(Message) /\ \A i \in DOMAIN ms : GoodResult(ms[i])
    BY <1>2 DEF Results
  <2> HIDE DEF ms
  <2> QED  BY <1>1, <2>1, <2>2
<1> QED  BY <1>5, <1>6, <1>7, <1>8, <1>9, <1>10, <1>11

(* Media and pings go out at any time.                                     *)
LEMMA UnaskedInv ==
  ASSUME IInv, UNCHANGED clientVars, ServesMedia \/ ServesAggregate \/ Pings
  PROVE  IInv'
<1>1. PICK m \in Message :
         m.kind \notin Results /\ toClient' = Append(toClient, m)
  <2>1. CASE ServesMedia
    <3> DEFINE m == Media(StreamId, served + 1)
    <3>1. m \in Message /\ m.kind \notin Results
      BY StreamIdAssumption DEF Media, Message, Kinds, Results, IInv, Types
    <3>2. toClient' = Append(toClient, m)  BY <2>1 DEF ServesMedia
    <3> HIDE DEF m
    <3> QED  BY <3>1, <3>2
  <2>2. CASE Pings
    <3> DEFINE m == Plain("ping")
    <3>1. m \in Message /\ m.kind \notin Results
      BY StreamIdAssumption DEF Plain, Message, Kinds, Results
    <3>2. toClient' = Append(toClient, m)  BY <2>2 DEF Pings
    <3> HIDE DEF m
    <3> QED  BY <3>1, <3>2
  <2>3. CASE ServesAggregate
    <3>1. PICK b \in 0..served + 1 + MaxAhead :
             toClient' = Append(toClient, Aggregate(StreamId, served + 1, b))
      BY <2>3 DEF ServesAggregate
    <3> DEFINE m == Aggregate(StreamId, served + 1, b)
    <3>2. m \in Message /\ m.kind \notin Results
      BY <3>1, StreamIdAssumption, ServedAssumption
      DEF Aggregate, Message, Kinds, Results, IInv, Types
    <3>3. toClient' = Append(toClient, m)  BY <3>1
    <3> HIDE DEF m
    <3> QED  BY <3>2, <3>3
  <2> QED  BY <2>1, <2>2, <2>3
<1>2. served' \in Nat /\ UNCHANGED <<toServer, spc>>
  BY DEF ServesMedia, ServesAggregate, Pings, IInv, Types
<1>3. toClient' = toClient \o <<m>>  BY <1>1 DEF IInv, Types
<1>4. <<m>> \in Seq(Message) /\ \A i \in DOMAIN <<m>> : GoodResult(<<m>>[i])
  BY <1>1 DEF GoodResult, Results
<1> QED  BY <1>2, <1>3, <1>4, ServerSendsInv DEF IInv

(* What is lost with the connection leaves the rest as it was.             *)
LEMMA ClosesInv ==
  ASSUME IInv, UNCHANGED clientVars, Closes
  PROVE  IInv'
<1>1. PICK n \in 0..Len(toClient) : toClient' = SubSeq(toClient, 1, n)
  BY DEF Closes
<1>2. UNCHANGED <<purpose, requests, produced, stream_id, fault, served, spc,
                  toServer>>
  BY DEF Closes, clientVars, serverVars
<1>3. \A t : Allowed(t)' = Allowed(t) /\ Class(t)' = Class(t) /\ Sent(t)' = Sent(t)
  BY <1>2 DEF Allowed, Class, Sent
<1>4. toClient \in Seq(Message)  BY DEF IInv, Types
<1>5. /\ toClient' \in Seq(Message)
      /\ \A i \in DOMAIN toClient' :
            i \in DOMAIN toClient /\ toClient'[i] = toClient[i]
  BY <1>1, <1>4
<1>6. Types'  BY <1>2, <1>5 DEF IInv, Types
<1>7. \A i \in DOMAIN toClient' : GoodResult(toClient[i])'
  BY <1>3, <1>5 DEF IInv, GoodResult
<1>8. \A i \in DOMAIN toServer' : GoodRequest(toServer[i])'
  BY <1>2, <1>3 DEF IInv, GoodRequest
<1> QED  BY <1>2, <1>3, <1>6, <1>7, <1>8 DEF IInv

(* Nothing the invariant speaks of changes when a wait or a send fails.    *)
LEMMA UnchangedInv ==
  ASSUME IInv,
         UNCHANGED <<purpose, requests, produced, stream_id, fault, served, spc,
                     toServer, toClient>>
  PROVE  IInv'
  BY DEF IInv, Types, Sent, Allowed, Class, GoodRequest, GoodResult

-----------------------------------------------------------------------------
(* Every step of the session keeps the invariant.                          *)
LEMMA NextInv ==
  ASSUME IInv, [Next]_vars
  PROVE  IInv'
<1>1. CASE Client
  <2>1. UNCHANGED serverVars  BY <1>1 DEF Client
  <2>2. CASE WriteC0C1 \/ WriteC2 \/ FastHandshake
                \/ ConnectApp \/ CreateStream \/ Play \/ Publish
                \/ FmlePublish \/ FmlePublishes \/ FmleUnpublish
    BY <2>1, <2>2, ClientSendsInv
  <2>3. CASE WritePacket  BY <2>1, <2>3, WritePacketInv
  <2>4. CASE DropsMessage \/ EndsWait \/ ReadPacket \/ OnAggregate
                \/ ReadS0S1S2 \/ ReadFastHandshakeRes
    BY <2>1, <2>4, ClientReceivesInv
  <2>5. CASE SendFails \/ NothingArrives \/ ReadPart
    BY <2>1, <2>5, UnchangedInv
    DEF SendFails, NothingArrives, ReadPart, wireVars, serverVars
  <2> QED  BY <1>1, <2>2, <2>3, <2>4, <2>5 DEF Client, ClientStep, GivesUp
<1>2. CASE Server
  <2>1. UNCHANGED clientVars  BY <1>2 DEF Server
  <2> QED  BY <1>2, <2>1, AnswersInv, TakesOnlyInv, TakesAndAnswersInv
           DEF Server, ServerStep
<1>3. CASE Unbidden  BY <1>3, UnaskedInv, ClosesInv DEF Unbidden
<1>4. CASE UNCHANGED vars
  BY <1>4, UnchangedInv DEF vars, clientVars, serverVars, wireVars
<1> QED  BY <1>1, <1>2, <1>3, <1>4 DEF Next

(* Every result that reaches the client decodes, whatever the purpose, the *)
(* amount of media and pings, and however late the answers come: no wait   *)
(* ends with a result that belongs to no request, or to another one.       *)
THEOREM ResponsesKnown == Spec => []NoUnknownResponse
<1>1. Init => IInv  BY InitInv
<1>2. IInv /\ [Next]_vars => IInv'  BY NextInv
<1>3. IInv => NoUnknownResponse  BY DEF IInv, NoUnknownResponse
<1> QED  BY <1>1, <1>2, <1>3, PTL DEF Spec

-----------------------------------------------------------------------------
(* How a session is set up.  A client sends what it sends in one order,    *)
(* its script, whatever the server does; so the state of a session is how  *)
(* far along that script the client is, and how far the server.            *)

(* The messages a client sends before its media, by purpose.               *)
Script ==
    [play |-> <<"c0c1", "c2", "connect", "windowAck",
                "createStream", "play", "bufferLength", "chunkSize">>,
     fast |-> <<"fastHs">>,
     publish |-> <<"c0c1", "c2", "connect", "windowAck",
                   "releaseStream", "FCPublish", "createStream", "publish">>,
     flash |-> <<"c0c1", "c2", "connect", "windowAck",
                 "createStream", "chunkSize", "publish">>]
Opening == Len(Script[purpose])
Line ==
    [i \in Nat |-> IF i <= Opening THEN Script[purpose][i]
                   ELSE IF i <= Opening + MaxMedia THEN "media"
                   ELSE "FCUnpublish"]

(* Of n messages that the client has sent the server has taken k.          *)
OnItsWay(k, n) ==
    /\ k <= n /\ Len(toServer) = n - k
    /\ \A i \in (k + 1)..n :
           /\ toServer[i - k].kind = Line[i]
           /\ Line[i] = "media" => toServer[i - k].data = i - Opening

(* How many messages the client has sent where it is.                      *)
ClientAt(n) ==
    /\ purpose \in {"play", "fast", "publish", "flash"}
    /\ cpc \in {"unshaken", "shaking", "shaken", "fast", "start", "connecting",
                "connected", "creating", "created", "releasing", "released",
                "confirming", "refused", "publishing", "playing",
                "unpublished", "failed"}
    /\ produced <= MaxMedia
    /\ produced > 0 =>
           purpose \in {"publish", "flash"} /\ n >= Opening + produced
    /\ cpc # "unpublished" => n <= Opening + produced
    /\ cpc = "unshaken" => n = 0
    /\ cpc \in {"shaking", "shaken"} => n = 1 /\ purpose # "fast"
    /\ cpc = "fast" => n = 1 /\ purpose = "fast"
    /\ cpc = "start" => n = 2
    /\ cpc \in {"connecting", "connected"} => n = 4
    /\ cpc \in {"creating", "created"} => n = 5 /\ purpose \in {"play", "flash"}
    /\ cpc \in {"releasing", "released"} => n = 7 /\ purpose = "publish"
    /\ cpc \in {"confirming", "refused"} => n = 8 /\ purpose = "publish"
    /\ cpc = "publishing" =>
           n = Opening + produced /\ purpose \in {"publish", "flash"}
    /\ cpc = "playing" => n = Opening /\ purpose \in {"play", "fast"}
    /\ cpc = "unpublished" => /\ n = Opening + MaxMedia + 1
                              /\ produced = MaxMedia /\ purpose = "publish"

(* How many the server has taken where it is.                              *)
Unsettled == {"shaking", "reading_c2", "connecting", "deciding", "redirecting"}
ServerAt(k, n) ==
    /\ spc \in Unsettled \cup
           {"leaving", "identifying", "created", "identified", "fc_publish",
            "create_stream", "publish", "publishing", "playing"}
    /\ spc \in Unsettled => n <= 4
    /\ taken \in Seq(Nat) /\ \A i \in DOMAIN taken : taken[i] = i
    /\ Len(taken) <= MaxMedia
    /\ taken # << >> => spc \in {"publishing", "identifying"}
    /\ spc = "shaking" => k = 0
    /\ spc = "reading_c2" => k = 1 /\ purpose # "fast"
    /\ spc = "connecting" => k = 2
    /\ spc = "deciding" => k = 3
    /\ spc = "redirecting" => k \in {3, 4}
    /\ spc = "leaving" => k <= Opening
    /\ spc = "identifying" =>
           \/ k \in {3, 4} /\ taken = << >>
           \/ /\ purpose = "publish" /\ k = Opening + MaxMedia + 1
              /\ Len(taken) = MaxMedia
    /\ spc = "created" => \/ purpose = "play" /\ k = 5
                          \/ purpose = "flash" /\ k \in {5, 6}
    /\ spc = "identified" => \/ purpose = "play" /\ role = "play" /\ k = 6
                             \/ purpose = "fast" /\ role = "play" /\ k = 1
                             \/ purpose = "flash" /\ role = "flash" /\ k = 7
                             \/ purpose = "publish" /\ role = "fmle" /\ k = 5
    /\ spc = "fc_publish" => purpose = "publish" /\ k = 5
    /\ spc = "create_stream" => purpose = "publish" /\ k = 6
    /\ spc = "publish" => purpose = "publish" /\ k = 7
    /\ spc = "publishing" => /\ purpose \in {"publish", "flash"}
                             /\ k = Opening + Len(taken)
    /\ spc = "playing" => \/ purpose = "play" /\ k \in 6..8
                          \/ purpose = "fast" /\ k = 1

(* Client and server are where they are in the same script.                *)
InScript ==
    \E k, n \in Nat : OnItsWay(k, n) /\ ClientAt(n) /\ ServerAt(k, n)

(* What the client has been told, or is about to be, is true.              *)
MediaKinds == {"media", "aggregate"}
ToldOf(kind) ==
    /\ kind = "connectRes" => spc \notin Unsettled
    /\ kind = "rejected" => spc \in {"redirecting", "leaving"}
    /\ kind = "publishRefused" => spc = "leaving"
    /\ kind \in {"playReset", "playStart"} => purpose \in {"play", "fast"}
    /\ kind = "unpublishSuccess" => cpc = "unpublished"
    /\ kind \in MediaKinds => cpc \in {"fast", "playing", "failed"}
Told ==
    /\ cpc \in {"connected", "creating", "created", "releasing", "released",
                "confirming", "refused", "publishing", "unpublished"} =>
           spc \notin Unsettled
    /\ \A i \in DOMAIN toClient : ToldOf(toClient[i].kind)
    /\ PublishTellsOutcome

(* The stream id that is sent is the one that the server gave.             *)
OnStreamId ==
    /\ cpc = "created" => stream_id = StreamId
    /\ cpc = "publishing" /\ purpose = "flash" => stream_id = StreamId
    /\ \A i \in DOMAIN toServer :
           (/\ toServer[i].kind \in {"play", "publish", "media"}
            /\ purpose # "publish") => toServer[i].sid = StreamId

-----------------------------------------------------------------------------
(* The lines of the scripts, one by one.                                   *)
LEMMA ScriptLines ==
  /\ purpose = "play" =>
        /\ Opening = 8
        /\ Line[1] = "c0c1" /\ Line[2] = "c2" /\ Line[3] = "connect"
        /\ Line[4] = "windowAck" /\ Line[5] = "createStream"
        /\ Line[6] = "play" /\ Line[7] = "bufferLength"
        /\ Line[8] = "chunkSize"
  /\ purpose = "fast" => Opening = 1 /\ Line[1] = "fastHs"
  /\ purpose = "publish" =>
        /\ Opening = 8
        /\ Line[1] = "c0c1" /\ Line[2] = "c2" /\ Line[3] = "connect"
        /\ Line[4] = "windowAck" /\ Line[5] = "releaseStream"
        /\ Line[6] = "FCPublish" /\ Line[7] = "createStream"
        /\ Line[8] = "publish"
  /\ purpose = "flash" =>
        /\ Opening = 7
        /\ Line[1] = "c0c1" /\ Line[2] = "c2" /\ Line[3] = "connect"
        /\ Line[4] = "windowAck" /\ Line[5] = "createStream"
        /\ Line[6] = "chunkSize" /\ Line[7] = "publish"
<1>1. CASE purpose = "play"
  <2>1. Opening = 8  BY <1>1 DEF Opening, Script
  <2> QED  BY <1>1, <2>1 DEF Line, Script
<1>2. CASE purpose = "fast"
  <2>1. Opening = 1  BY <1>2 DEF Opening, Script
  <2> QED  BY <1>2, <2>1 DEF Line, Script
<1>3. CASE purpose = "publish"
  <2>1. Opening = 8  BY <1>3 DEF Opening, Script
  <2> QED  BY <1>3, <2>1 DEF Line, Script
<1>4. CASE purpose = "flash"
  <2>1. Opening = 7  BY <1>4 DEF Opening, Script
  <2> QED  BY <1>4, <2>1 DEF Line, Script
<1> QED  BY <1>1, <1>2, <1>3, <1>4

(* Behind the opening lines the script is media, then the farewell.        *)
LEMMA MediaLines ==
  ASSUME NEW i \in Nat, i > Opening, Opening \in Nat
  PROVE  Line[i] = IF i <= Opening + MaxMedia THEN "media" ELSE "FCUnpublish"
BY MediaAssumption DEF Line

(* The script stays what it is.                                            *)
LEMMA SameScript ==
  ASSUME UNCHANGED purpose
  PROVE  Opening' = Opening /\ Line' = Line
BY DEF Opening, Line, Script

(* The server takes the next line of the script.                           *)
LEMMA TakesLine ==
  ASSUME NEW k \in Nat, NEW n \in Nat, OnItsWay(k, n),
         toServer \in Seq(Message), NEW kinds, Takes(kinds),
         UNCHANGED purpose, Opening \in Nat
  PROVE  /\ OnItsWay(k + 1, n)' /\ k + 1 <= n
         /\ Line[k + 1] \in kinds
         /\ Line[k + 1] = "media" => Head(toServer).data = k + 1 - Opening
<1>1. /\ toServer # << >> /\ toServer' = Tail(toServer)
      /\ Head(toServer).kind \in kinds
  BY DEF Takes
<1>2. Len(toServer) = n - k /\ n - k >= 1 /\ k + 1 <= n
  BY <1>1 DEF OnItsWay
<1>3. Head(toServer) = toServer[1]  BY <1>1
<1>4. /\ toServer[1].kind = Line[k + 1]
      /\ Line[k + 1] = "media" => toServer[1].data = k + 1 - Opening
  <2>1. PICK i \in (k + 1)..n : i = k + 1 /\ i - k = 1  BY <1>2
  <2>2. /\ toServer[i - k].kind = Line[i]
        /\ Line[i] = "media" => toServer[i - k].data = i - Opening
    BY DEF OnItsWay
  <2>3. Line[i] = Line[k + 1]  BY <2>1
  <2>4. toServer[i - k] = toServer[1]  BY <2>1
  <2>5. i - Opening = k + 1 - Opening  BY <2>1
  <2> QED  BY <2>2, <2>3, <2>4, <2>5
<1>5. Len(toServer') = n - (k + 1)  BY <1>1, <1>2
<1>6. ASSUME NEW i \in ((k + 1) + 1)..n
      PROVE  /\ toServer'[i - (k + 1)].kind = Line[i]
             /\ Line[i] = "media" =>
                    toServer'[i - (k + 1)].data = i - Opening
  <2>1. toServer'[i - (k + 1)] = toServer[i - k]  BY <1>1, <1>2
  <2>2. i \in (k + 1)..n  OBVIOUS
  <2> QED  BY <2>1, <2>2 DEF OnItsWay
<1>7. OnItsWay(k + 1, n)'
  BY <1>2, <1>5, <1>6, SameScript DEF OnItsWay
<1> QED  BY <1>1, <1>2, <1>3, <1>4, <1>7

(* The client sends the next lines.                                        *)
LEMMA SendsLines ==
  ASSUME NEW k \in Nat, NEW n \in Nat, OnItsWay(k, n),
         toServer \in Seq(Message), NEW ms \in Seq(Message),
         toServer' = toServer \o ms, UNCHANGED purpose,
         \A i \in (n + 1)..(n + Len(ms)) :
             /\ ms[i - n].kind = Line[i]
             /\ Line[i] = "media" => ms[i - n].data = i - Opening
  PROVE  OnItsWay(k, n + Len(ms))'
<1>1. Len(toServer) = n - k /\ k <= n /\ Len(ms) \in Nat
  BY DEF OnItsWay
<1>a. Len(toServer \o ms) = Len(toServer) + Len(ms)
  OBVIOUS
<1>2. Len(toServer') = (n + Len(ms)) - k /\ k <= n + Len(ms)  BY <1>1, <1>a
<1>3. ASSUME NEW i \in (k + 1)..(n + Len(ms))
      PROVE  /\ toServer'[i - k].kind = Line[i]
             /\ Line[i] = "media" => toServer'[i - k].data = i - Opening
  <2>1. CASE i <= n
    <3>1. i \in (k + 1)..n /\ i - k \in 1..Len(toServer)  BY <1>1, <2>1
    <3>2. toServer'[i - k] = toServer[i - k]  BY <3>1
    <3> QED  BY <3>1, <3>2 DEF OnItsWay
  <2>2. CASE i > n
    <3>1. i \in (n + 1)..(n + Len(ms)) /\ i - n \in 1..Len(ms)  BY <1>1, <2>2
    <3>2. i - k = Len(toServer) + (i - n)  BY <1>1, <3>1
    <3>3. toServer'[i - k] = ms[i - n]  BY <1>1, <3>1, <3>2
    <3> QED  BY <3>1, <3>3
  <2> QED  BY <2>1, <2>2, <1>1
<1> QED  BY <1>2, <1>3, SameScript DEF OnItsWay

(* A batch has one, two or three messages.                                  *)
LEMMA SendsOne ==
  ASSUME NEW k \in Nat, NEW n \in Nat, OnItsWay(k, n),
         toServer \in Seq(Message), UNCHANGED purpose, Opening \in Nat,
         NEW a \in Message, toServer' = toServer \o <<a>>,
         a.kind = Line[n + 1], a.kind = "media" => a.data = n + 1 - Opening
  PROVE  OnItsWay(k, n + 1)'
<1> DEFINE ms == <<a>>
<1>1. ms \in Seq(Message) /\ Len(ms) = 1 /\ ms[1] = a  OBVIOUS
<1> HIDE DEF ms
<1>2. ASSUME NEW i \in (n + 1)..(n + Len(ms))
      PROVE  /\ ms[i - n].kind = Line[i]
             /\ Line[i] = "media" => ms[i - n].data = i - Opening
  <2>1. i = n + 1 /\ i - n = 1  BY <1>1, <1>2
  <2>2. ms[i - n] = a /\ Line[i] = Line[n + 1]  BY <1>1, <2>1
  <2>3. i - Opening = n + 1 - Opening  BY <2>1
  <2> QED  BY <2>2, <2>3
<1>3. toServer' = toServer \o ms  BY DEF ms
<1>4. OnItsWay(k, n + Len(ms))'  BY <1>1, <1>2, <1>3, SendsLines
<1> QED  BY <1>1, <1>4

(* Sending the next two lines of the script keeps it.                      *)
LEMMA SendsTwo ==
  ASSUME NEW k \in Nat, NEW n \in Nat, OnItsWay(k, n),
         toServer \in Seq(Message), UNCHANGED purpose, Opening \in Nat,
         NEW a \in Message, NEW b \in Message,
         toServer' = toServer \o <<a, b>>,
         a.kind = Line[n + 1], a.kind # "media",
         b.kind = Line[n + 2], b.kind # "media"
  PROVE  OnItsWay(k, n + 2)'
<1> DEFINE ms == <<a, b>>
<1>1. ms \in Seq(Message) /\ Len(ms) = 2 /\ ms[1] = a /\ ms[2] = b  OBVIOUS
<1> HIDE DEF ms
<1>2. ASSUME NEW i \in (n + 1)..(n + Len(ms))
      PROVE  ms[i - n].kind = Line[i] /\ Line[i] # "media"
  <2>1. CASE i = n + 1
    <3>1. i - n = 1  BY <2>1
    <3> QED  BY <1>1, <2>1, <3>1
  <2>2. CASE i = n + 2
    <3>1. i - n = 2  BY <2>2
    <3> QED  BY <1>1, <2>2, <3>1
  <2>3. i = n + 1 \/ i = n + 2  BY <1>1, <1>2
  <2> QED  BY <2>1, <2>2, <2>3
<1>3. toServer' = toServer \o ms  BY DEF ms
<1>4. OnItsWay(k, n + Len(ms))'  BY <1>1, <1>2, <1>3, SendsLines
<1> QED  BY <1>1, <1>4

(* Sending the next three lines of the script keeps it.                    *)
LEMMA SendsThree ==
  ASSUME NEW k \in Nat, NEW n \in Nat, OnItsWay(k, n),
         toServer \in Seq(Message), UNCHANGED purpose, Opening \in Nat,
         NEW a \in Message, NEW b \in Message, NEW c \in Message,
         toServer' = toServer \o <<a, b, c>>,
         a.kind = Line[n + 1], a.kind # "media",
         b.kind = Line[n + 2], b.kind # "media",
         c.kind = Line[n + 3], c.kind # "media"
  PROVE  OnItsWay(k, n + 3)'
<1> DEFINE ms == <<a, b, c>>
<1>1. /\ ms \in Seq(Message) /\ Len(ms) = 3
      /\ ms[1] = a /\ ms[2] = b /\ ms[3] = c
  OBVIOUS
<1> HIDE DEF ms
<1>2. ASSUME NEW i \in (n + 1)..(n + Len(ms))
      PROVE  ms[i - n].kind = Line[i] /\ Line[i] # "media"
  <2>1. CASE i = n + 1
    <3>1. i - n = 1  BY <2>1
    <3> QED  BY <1>1, <2>1, <3>1
  <2>2. CASE i = n + 2
    <3>1. i - n = 2  BY <2>2
    <3> QED  BY <1>1, <2>2, <3>1
  <2>3. CASE i = n + 3
    <3>1. i - n = 3  BY <2>3
    <3> QED  BY <1>1, <2>3, <3>1
  <2>4. i \in (n + 1)..(n + 3)  BY <1>1, <1>2
  <2>5. i = n + 1 \/ i = n + 2 \/ i = n + 3  BY <2>4
  <2> QED  BY <2>1, <2>2, <2>3, <2>5
<1>3. toServer' = toServer \o ms  BY DEF ms
<1>4. OnItsWay(k, n + Len(ms))'  BY <1>1, <1>2, <1>3, SendsLines
<1> QED  BY <1>1, <1>4

-----------------------------------------------------------------------------
(* The server goes through the script: what it takes and passes over.      *)
Takings ==
    TakesC0C1 \/ TakesC2 \/ TakesFastHandshake \/ RefusesFastHandshake
    \/ TakesConnect \/ IdentifiesByCreateStream \/ IdentifiesPlay
    \/ IdentifiesFlashPublish \/ IdentifiesFmlePublish
    \/ TakesFCPublish \/ TakesCreateStream \/ TakesPublish
    \/ RefusesPublish \/ TakesMedia \/ TakesUnpublish \/ Ignores

(* Whatever the server takes is the next line of the script.               *)
LEMMA TakesInScript ==
  ASSUME NEW k \in Nat, NEW n \in Nat, OnItsWay(k, n), ClientAt(n),
         ServerAt(k, n), toServer \in Seq(Message), produced \in Nat,
         UNCHANGED clientVars, Takings
  PROVE  InScript'
<1>0. UNCHANGED <<purpose, cpc, produced>>  BY DEF clientVars
<1>1. ClientAt(n)'
  BY <1>0, SameScript DEF ClientAt
<1> SUFFICES k + 1 \in Nat /\ OnItsWay(k + 1, n)' /\ ServerAt(k + 1, n)'
  BY <1>1 DEF InScript
<1> USE ScriptLines, MediaAssumption
<1>2. ASSUME NEW kinds, Takes(kinds)
      PROVE  /\ OnItsWay(k + 1, n)' /\ k + 1 <= n /\ Line[k + 1] \in kinds
             /\ Line[k + 1] = "media" => Request.data = k + 1 - Opening
  <2>1. Opening \in Nat  BY DEF ClientAt
  <2> QED  BY <1>0, <1>2, <2>1, TakesLine DEF Request
<1>3. CASE TakesC0C1
  <2>1. /\ Takes({"c0c1"}) /\ spc = "shaking" /\ spc' = "reading_c2"
        /\ taken' = taken
    BY <1>3 DEF TakesC0C1, SetsClient
  <2> QED  BY <1>0, <1>2, <2>1, SameScript DEF ServerAt, ClientAt, Unsettled
<1>4. CASE TakesC2
  <2>1. /\ Takes({"c2"}) /\ spc = "reading_c2" /\ spc' = "connecting"
        /\ taken' = taken
    BY <1>4 DEF TakesC2
  <2> QED  BY <1>0, <1>2, <2>1, SameScript DEF ServerAt, ClientAt, Unsettled
<1>5. CASE TakesFastHandshake
  <2>1. Takes({"fastHs"}) /\ spc = "shaking"
       /\ spc' \in {"identified", "playing"} /\ role' = "play" /\ taken' = taken
    BY <1>5 DEF TakesFastHandshake, SetsClient
  <2> QED  BY <1>0, <1>2, <2>1, SameScript DEF ServerAt, ClientAt, Unsettled
<1>6. CASE RefusesFastHandshake
  <2>1. /\ Takes({"fastHs"}) /\ spc = "shaking" /\ spc' = "leaving"
        /\ taken' = taken
    BY <1>6 DEF RefusesFastHandshake
  <2> QED  BY <1>0, <1>2, <2>1, SameScript DEF ServerAt, ClientAt, Unsettled
<1>7. CASE TakesConnect
  <2>1. /\ Takes({"connect"}) /\ spc = "connecting" /\ spc' = "deciding"
        /\ taken' = taken
    BY <1>7 DEF TakesConnect
  <2> QED  BY <1>0, <1>2, <2>1, SameScript DEF ServerAt, ClientAt, Unsettled
<1>8. CASE IdentifiesByCreateStream
  <2>1. Takes({"createStream"}) /\ spc \in {"identifying", "created"}
       /\ spc' = "created" /\ taken' = taken
    BY <1>8 DEF IdentifiesByCreateStream, SetsClient
  <2>2. Line[k + 1] = "createStream" /\ OnItsWay(k + 1, n)' /\ k + 1 <= n
    BY <1>2, <2>1
  <2>3. /\ purpose \in {"play", "fast", "publish", "flash"}
        /\ \/ k \in {3, 4, 5, 6} /\ taken = << >>
              /\ (k = 5 => purpose \in {"play", "flash"})
              /\ (k = 6 => purpose = "flash")
           \/ purpose = "publish" /\ k = Opening + MaxMedia + 1
    BY <2>1 DEF ServerAt, ClientAt
  <2>4. n <= Opening + MaxMedia + 1 /\ (k > 2 => purpose # "fast")
    BY <2>2 DEF ClientAt
  <2>5. k = 4 /\ taken = << >> /\ purpose \in {"play", "flash"}
    BY <2>2, <2>3, <2>4
  <2> QED  BY <1>0, <2>1, <2>2, <2>5, SameScript DEF ServerAt, Unsettled
<1>9. CASE IdentifiesPlay
  <2>1. Takes({"play"}) /\ spc \in {"identifying", "created"}
       /\ spc' = "identified" /\ role' = "play" /\ taken' = taken
    BY <1>9 DEF IdentifiesPlay, PlayLevels
  <2>2. Line[k + 1] = "play" /\ OnItsWay(k + 1, n)' /\ k + 1 <= n
    BY <1>2, <2>1
  <2>3. /\ purpose \in {"play", "fast", "publish", "flash"}
        /\ \/ k \in {3, 4, 5, 6} /\ taken = << >>
              /\ (k = 5 => purpose \in {"play", "flash"})
              /\ (k = 6 => purpose = "flash")
           \/ purpose = "publish" /\ k = Opening + MaxMedia + 1
    BY <2>1 DEF ServerAt, ClientAt
  <2>4. n <= Opening + MaxMedia + 1 /\ (k > 2 => purpose # "fast")
    BY <2>2 DEF ClientAt
  <2>5. k = 5 /\ taken = << >> /\ purpose = "play"
    BY <2>2, <2>3, <2>4
  <2> QED  BY <1>0, <2>1, <2>2, <2>5, SameScript DEF ServerAt, Unsettled
<1>10. CASE IdentifiesFlashPublish
  <2>1. Takes({"publish"}) /\ spc = "created"
       /\ spc' = "identified" /\ role' = "flash" /\ taken' = taken
    BY <1>10 DEF IdentifiesFlashPublish
  <2>2. Line[k + 1] = "publish" /\ OnItsWay(k + 1, n)' /\ k + 1 <= n
    BY <1>2, <2>1
  <2>3. k = 6 /\ taken = << >> /\ purpose = "flash"
    BY <2>1, <2>2 DEF ServerAt, ClientAt
  <2> QED  BY <1>0, <2>1, <2>2, <2>3, SameScript DEF ServerAt, Unsettled
<1>11. CASE IdentifiesFmlePublish
  <2>1. Takes(FMLEStart) /\ spc = "identifying"
       /\ spc' = "identified" /\ role' = "fmle" /\ taken' = taken
    BY <1>11 DEF IdentifiesFmlePublish, SetsClient
  <2>2. Line[k + 1] \in FMLEStart /\ OnItsWay(k + 1, n)' /\ k + 1 <= n
    BY <1>2, <2>1
  <2>3. k \in {3, 4}  BY <2>1, <2>2 DEF ServerAt, ClientAt
  <2>4. purpose = "publish" /\ k = 4 /\ taken = << >>
    BY <2>1, <2>2, <2>3 DEF ServerAt, ClientAt, FMLEStart
  <2> QED  BY <1>0, <2>1, <2>2, <2>4, SameScript DEF ServerAt, Unsettled
<1>12. CASE TakesFCPublish
  <2>1. /\ Takes(FMLEStart) /\ spc = "fc_publish" /\ spc' = "create_stream"
        /\ taken' = taken
    BY <1>12 DEF TakesFCPublish, SetsClient
  <2> QED  BY <1>0, <1>2, <2>1, SameScript
           DEF ServerAt, ClientAt, Unsettled, FMLEStart
<1>13. CASE TakesCreateStream
  <2>1. /\ Takes({"createStream"}) /\ spc = "create_stream" /\ spc' = "publish"
        /\ taken' = taken
    BY <1>13 DEF TakesCreateStream, SetsClient
  <2> QED  BY <1>0, <1>2, <2>1, SameScript DEF ServerAt, ClientAt, Unsettled
<1>14. CASE TakesPublish
  <2>1. /\ Takes({"publish"}) /\ spc = "publish" /\ spc' = "publishing"
        /\ taken' = taken
    BY <1>14 DEF TakesPublish, SetsClient
  <2> QED  BY <1>0, <1>2, <2>1, SameScript DEF ServerAt, ClientAt, Unsettled
<1>15. CASE RefusesPublish
  <2>1. /\ Takes({"publish"}) /\ spc = "publish" /\ spc' = "leaving"
        /\ taken' = taken
    BY <1>15 DEF RefusesPublish, SetsClient
  <2> QED  BY <1>0, <1>2, <2>1, SameScript DEF ServerAt, ClientAt, Unsettled
<1>16. CASE TakesMedia
  <2>1. /\ Takes({"media"}) /\ spc = "publishing" /\ spc' = "publishing"
        /\ taken' = Append(taken, Request.data)
    BY <1>16 DEF TakesMedia
  <2>2. /\ Line[k + 1] = "media" /\ Request.data = k + 1 - Opening
        /\ OnItsWay(k + 1, n)' /\ k + 1 <= n
    BY <1>2, <2>1
  <2>3. k = Opening + Len(taken) /\ purpose \in {"publish", "flash"}
        /\ Opening \in Nat
    BY <2>1 DEF ServerAt
  <2>4. Request.data = Len(taken) + 1  BY <2>2, <2>3 DEF ServerAt
  <2>5. Len(taken) + 1 <= MaxMedia
    <3>1. Line[k + 1] = IF k + 1 <= Opening + MaxMedia THEN "media"
                                                       ELSE "FCUnpublish"
      BY <2>3, MediaLines DEF ServerAt
    <3> QED  BY <3>1, <2>2, <2>3 DEF ServerAt
  <2>6. /\ taken' \in Seq(Nat) /\ Len(taken') = Len(taken) + 1
        /\ \A i \in DOMAIN taken' : taken'[i] = i
    <3>1. taken \in Seq(Nat) /\ \A i \in DOMAIN taken : taken[i] = i
      BY DEF ServerAt
    <3>2. taken' = Append(taken, Len(taken) + 1)  BY <2>1, <2>4
    <3> QED  BY <3>1, <3>2
  <2> QED  BY <1>0, <2>1, <2>2, <2>3, <2>5, <2>6, SameScript
           DEF ServerAt, Unsettled
<1>17. CASE TakesUnpublish
  <2>1. /\ Takes({"FCUnpublish"}) /\ spc = "publishing" /\ spc' = "identifying"
        /\ taken' = taken
    BY <1>17 DEF TakesUnpublish, SetsClient
  <2>2. Line[k + 1] = "FCUnpublish" /\ OnItsWay(k + 1, n)' /\ k + 1 <= n
    BY <1>2, <2>1
  <2>3. k = Opening + Len(taken) /\ purpose \in {"publish", "flash"}
        /\ Opening \in Nat
    BY <2>1 DEF ServerAt
  <2>4. k + 1 > Opening + MaxMedia
    <3>1. Line[k + 1] = IF k + 1 <= Opening + MaxMedia THEN "media"
                                                       ELSE "FCUnpublish"
      BY <2>3, MediaLines DEF ServerAt
    <3> QED  BY <3>1, <2>2, <2>3
  <2>5. cpc = "unpublished" /\ purpose = "publish" /\ n = Opening + MaxMedia + 1
    BY <2>2, <2>3, <2>4 DEF ClientAt, ServerAt
  <2> QED  BY <1>0, <2>1, <2>2, <2>3, <2>4, <2>5, SameScript
           DEF ServerAt, Unsettled
<1>18. CASE Ignores
  <2>1. /\ Takes(Kinds \ Awaited[spc]) /\ spc \in DOMAIN Awaited
        /\ spc' = spc /\ taken' = taken /\ role' = role
    BY <1>18 DEF Ignores
  <2>2. Line[k + 1] \notin Awaited[spc] /\ OnItsWay(k + 1, n)' /\ k + 1 <= n
    BY <1>2, <2>1
  <2>3. CASE spc \in {"connecting", "fc_publish", "create_stream", "publish"}
    BY <2>2, <2>3 DEF ServerAt, Awaited, FMLEStart, ClientAt
  <2>4. CASE spc = "redirecting"
    BY <1>0, <2>1, <2>2, <2>4, SameScript DEF ServerAt, Unsettled
  <2>5. CASE spc = "identifying"
    BY <1>0, <2>1, <2>2, <2>5, SameScript
    DEF ServerAt, ClientAt, Awaited, FMLEStart, Unsettled
  <2>6. CASE spc = "created"
    BY <1>0, <2>1, <2>2, <2>6, SameScript
    DEF ServerAt, ClientAt, Awaited, FMLEStart, Unsettled
  <2>7. CASE spc = "publishing"
    <3>1. k = Opening + Len(taken) /\ Opening \in Nat /\ k + 1 > Opening
      BY <2>7 DEF ServerAt
    <3>2. Line[k + 1] \in {"media", "FCUnpublish"}  BY <3>1, MediaLines
    <3> QED  BY <3>2, <2>2, <2>7 DEF Awaited
  <2>8. CASE spc = "playing"
    BY <1>0, <2>1, <2>2, <2>8, SameScript DEF ServerAt, ClientAt, Unsettled
  <2>9. DOMAIN Awaited = {"connecting", "identifying", "created", "fc_publish",
                          "create_stream", "publish", "publishing", "playing",
                          "redirecting"}
    BY DEF Awaited
  <2> QED  BY <2>1, <2>3, <2>4, <2>5, <2>6, <2>7, <2>8, <2>9
<1> QED  BY <1>3, <1>4, <1>5, <1>6, <1>7, <1>8, <1>9, <1>10, <1>11, <1>12,
            <1>13, <1>14, <1>15, <1>16, <1>17, <1>18 DEF Takings

(* What the server does without taking anything.                           *)
Sayings ==
    Accepts \/ Rejects \/ Redirects \/ RedirectTimesOut
    \/ StartPlay \/ StartFlashPublish \/ StartFmlePublish
    \/ ServesMedia \/ ServesAggregate \/ Pings \/ Closes

(* What the server says or decides takes no line of the client.            *)
LEMMA SayingsInScript ==
  ASSUME NEW k \in Nat, NEW n \in Nat, OnItsWay(k, n), ClientAt(n),
         ServerAt(k, n), produced \in Nat, UNCHANGED clientVars, Sayings
  PROVE  InScript'
<1>0. UNCHANGED <<purpose, cpc, produced, toServer>>
  BY DEF clientVars, Sayings, Accepts, Rejects, Redirects, RedirectTimesOut,
         StartPlay, StartFlashPublish, StartFmlePublish, ServesMedia,
         ServesAggregate, Pings, Closes, Answers
<1>1. ClientAt(n)' /\ OnItsWay(k, n)'
  BY <1>0, SameScript DEF ClientAt, OnItsWay
<1> SUFFICES ServerAt(k, n)'
  BY <1>1 DEF InScript
<1> USE ScriptLines
<1>2. CASE Accepts \/ Rejects \/ Redirects \/ RedirectTimesOut
  <2>1. /\ taken' = taken
        /\ \/ spc = "deciding"
              /\ spc' \in {"identifying", "leaving", "redirecting"}
           \/ spc = "redirecting" /\ spc' = "leaving"
    BY <1>2 DEF Accepts, Rejects, Redirects, RedirectTimesOut, Answers,
                SetsClient
  <2>2. k \in {3, 4} /\ n <= 4  BY <2>1 DEF ServerAt, Unsettled
  <2>3. purpose # "fast"  BY <2>2 DEF ClientAt, OnItsWay
  <2>4. k <= Opening /\ taken = << >>
    BY <2>1, <2>2, <2>3 DEF ServerAt, ClientAt
  <2> QED  BY <1>0, <2>1, <2>2, <2>4, SameScript DEF ServerAt, Unsettled
<1>3. CASE StartPlay \/ StartFlashPublish \/ StartFmlePublish
  <2>1. /\ taken' = taken /\ spc = "identified"
        /\ \/ role = "play" /\ spc' = "playing"
           \/ role = "flash" /\ spc' = "publishing"
           \/ role = "fmle" /\ spc' = "fc_publish"
    BY <1>3 DEF StartPlay, StartFlashPublish, StartFmlePublish, Answers,
                SetsClient
  <2>2. taken = << >>  BY <2>1 DEF ServerAt
  <2> QED  BY <1>0, <2>1, <2>2, SameScript, MediaAssumption
           DEF ServerAt, ClientAt, Unsettled
<1>4. CASE ServesMedia \/ ServesAggregate \/ Pings \/ Closes
  <2>1. UNCHANGED <<spc, role, taken>>
    BY <1>4 DEF ServesMedia, ServesAggregate, Pings, Closes, serverVars
  <2> QED  BY <1>0, <2>1, SameScript DEF ServerAt
<1> QED  BY <1>2, <1>3, <1>4 DEF Sayings

-----------------------------------------------------------------------------
(* The client goes through the script: what it sends.                      *)
Sendings ==
    WriteC0C1 \/ WriteC2 \/ FastHandshake
    \/ ConnectApp \/ CreateStream \/ Play \/ Publish
    \/ FmlePublish \/ FmlePublishes \/ WritePacket \/ FmleUnpublish

(* The messages that are built are messages of their kind.                 *)
LEMMA PlainMessages ==
  ASSUME NEW k \in Kinds, NEW t \in Nat, NEW s \in {0, StreamId}
  PROVE  /\ Plain(k) \in Message /\ Plain(k).kind = k
         /\ Call(k, t) \in Message /\ Call(k, t).kind = k
         /\ Over(s, k) \in Message /\ Over(s, k).kind = k
BY StreamIdAssumption DEF Plain, Call, Over, Message

(* Whatever the client sends is the next line of its script.               *)
LEMMA SendsInScript ==
  ASSUME NEW k \in Nat, NEW n \in Nat, OnItsWay(k, n), ClientAt(n),
         ServerAt(k, n), toServer \in Seq(Message), produced \in Nat,
         stream_id \in {0, StreamId}, Told,
         UNCHANGED serverVars, Sendings
  PROVE  InScript'
<1>0. UNCHANGED <<purpose, spc, role, taken>>
  BY DEF serverVars, Sendings, WriteC0C1, WriteC2, FastHandshake, ConnectApp,
         CreateStream, Play, Publish, FmlePublish, FmlePublishes, WritePacket,
         FmleUnpublish, SendsOnly
<1>1. ASSUME NEW n2 \in Nat, n2 <= 4 \/ spc \notin Unsettled
      PROVE  ServerAt(k, n2)'
  BY <1>0, <1>1, SameScript DEF ServerAt
<1> USE ScriptLines, MediaAssumption
<1>2. Opening \in Nat  BY DEF ClientAt
<1>3. ASSUME NEW d \in Nat, OnItsWay(k, n + d)', ClientAt(n + d)',
             n + d <= 4 \/ spc \notin Unsettled
      PROVE  InScript'
  BY <1>1, <1>3 DEF InScript
<1>4. CASE WriteC0C1
  <2>1. /\ cpc = "unshaken" /\ purpose # "fast" /\ cpc' = "shaking"
        /\ toServer' = toServer \o <<Plain("c0c1")>> /\ produced' = produced
    BY <1>4 DEF WriteC0C1, SendsOnly, Sends
  <2>2. Plain("c0c1") \in Message /\ Plain("c0c1").kind = "c0c1"
    BY PlainMessages DEF Kinds
  <2>3. n = 0 /\ Line[n + 1] = "c0c1"  BY <2>1 DEF ClientAt
  <2>4. ClientAt(n + 1)'  BY <1>0, <2>1, <2>3, SameScript DEF ClientAt
  <2>5. OnItsWay(k, n + 1)'  BY <1>0, <1>2, <2>1, <2>2, <2>3, SendsOne
  <2> QED  BY <1>3, <2>3, <2>4, <2>5
<1>5. CASE WriteC2
  <2>1. /\ cpc = "shaken" /\ cpc' = "start"
        /\ toServer' = toServer \o <<Plain("c2")>>
        /\ produced' = produced
    BY <1>5 DEF WriteC2, SendsOnly, Sends
  <2>2. /\ Plain("c2") \in Message /\ Plain("c2").kind = "c2"
    BY PlainMessages DEF Kinds
  <2>3. n = 1 /\ Line[n + 1] = "c2"
    BY <2>1 DEF ClientAt
  <2>4. ClientAt(n + 1)'  BY <1>0, <2>1, <2>3, SameScript DEF ClientAt
  <2>5. OnItsWay(k, n + 1)'  BY <1>0, <1>2, <2>1, <2>2, <2>3, SendsOne
  <2> QED  BY <1>3, <2>3, <2>4, <2>5
<1>6. CASE FastHandshake
  <2>1. /\ cpc = "unshaken" /\ purpose = "fast" /\ cpc' = "fast"
        /\ toServer' = toServer \o <<Plain("fastHs")>>
        /\ produced' = produced
    BY <1>6 DEF FastHandshake, SendsOnly, Sends
  <2>2. /\ Plain("fastHs") \in Message /\ Plain("fastHs").kind = "fastHs"
    BY PlainMessages DEF Kinds
  <2>3. n = 0 /\ Line[n + 1] = "fastHs"
    BY <2>1 DEF ClientAt
  <2>4. ClientAt(n + 1)'  BY <1>0, <2>1, <2>3, SameScript DEF ClientAt
  <2>5. OnItsWay(k, n + 1)'  BY <1>0, <1>2, <2>1, <2>2, <2>3, SendsOne
  <2> QED  BY <1>3, <2>3, <2>4, <2>5
<1>7. CASE ConnectApp
  <2>1. /\ cpc = "start" /\ cpc' = "connecting"
        /\ toServer' = toServer \o <<Call("connect", 1), Plain("windowAck")>>
        /\ produced' = produced
    BY <1>7 DEF ConnectApp, SendsOnly, Sends
  <2>2. /\ Call("connect", 1) \in Message /\ Call("connect", 1).kind = "connect"
        /\ Plain("windowAck") \in Message
        /\ Plain("windowAck").kind = "windowAck"
    BY PlainMessages DEF Kinds
  <2>3. n = 2 /\ Line[n + 1] = "connect" /\ Line[n + 2] = "windowAck"
    BY <2>1 DEF ClientAt
  <2>4. ClientAt(n + 2)'  BY <1>0, <2>1, <2>3, SameScript DEF ClientAt
  <2>5. OnItsWay(k, n + 2)'  BY <1>0, <1>2, <2>1, <2>2, <2>3, SendsTwo
  <2>6. n + 2 <= 4  BY <2>3
  <2> QED  BY <1>3, <2>4, <2>5, <2>6
<1>8. CASE CreateStream
  <2>1. /\ cpc = "connected" /\ purpose # "publish" /\ cpc' = "creating"
        /\ toServer' = toServer \o <<Call("createStream", 2)>>
        /\ produced' = produced
    BY <1>8 DEF CreateStream, SendsOnly, Sends
  <2>2. /\ Call("createStream", 2) \in Message
        /\ Call("createStream", 2).kind = "createStream"
    BY PlainMessages DEF Kinds
  <2>3. n = 4 /\ Line[n + 1] = "createStream" /\ purpose # "fast"
    BY <2>1 DEF ClientAt
  <2>4. ClientAt(n + 1)'  BY <1>0, <2>1, <2>3, SameScript DEF ClientAt
  <2>5. OnItsWay(k, n + 1)'  BY <1>0, <1>2, <2>1, <2>2, <2>3, SendsOne
  <2>6. spc \notin Unsettled  BY <2>1 DEF Told
  <2> QED  BY <1>3, <2>3, <2>4, <2>5, <2>6
<1>9. CASE Play
  <2>1. /\ cpc = "created" /\ purpose = "play" /\ cpc' = "playing"
        /\ toServer' = toServer \o <<Over(stream_id, "play"),
                                      Plain("bufferLength"),
                                      Plain("chunkSize")>>
        /\ produced' = produced
    BY <1>9 DEF Play, SendsOnly, Sends
  <2>2. /\ Over(stream_id, "play") \in Message
        /\ Over(stream_id, "play").kind = "play"
        /\ Plain("bufferLength") \in Message
        /\ Plain("bufferLength").kind = "bufferLength"
        /\ Plain("chunkSize") \in Message
        /\ Plain("chunkSize").kind = "chunkSize"
    BY PlainMessages DEF Kinds
  <2>3. /\ n = 5
        /\ Line[n + 1] = "play"
        /\ Line[n + 2] = "bufferLength"
        /\ Line[n + 3] = "chunkSize"
    BY <2>1 DEF ClientAt
  <2>4. ClientAt(n + 3)'  BY <1>0, <2>1, <2>3, SameScript DEF ClientAt
  <2>5. OnItsWay(k, n + 3)'  BY <1>0, <1>2, <2>1, <2>2, <2>3, SendsThree
  <2>6. spc \notin Unsettled  BY <2>1 DEF Told
  <2> QED  BY <1>3, <2>3, <2>4, <2>5, <2>6
<1>10. CASE Publish
  <2>1. /\ cpc = "created" /\ purpose = "flash" /\ cpc' = "publishing"
        /\ toServer' = toServer \o <<Plain("chunkSize"),
                                      Over(stream_id, "publish")>>
        /\ produced' = produced
    BY <1>10 DEF Publish, SendsOnly, Sends
  <2>2. /\ Plain("chunkSize") \in Message
        /\ Plain("chunkSize").kind = "chunkSize"
        /\ Over(stream_id, "publish") \in Message
        /\ Over(stream_id, "publish").kind = "publish"
    BY PlainMessages DEF Kinds
  <2>3. /\ n = 5
        /\ Line[n + 1] = "chunkSize"
        /\ Line[n + 2] = "publish"
        /\ produced = 0
    BY <2>1 DEF ClientAt
  <2>4. ClientAt(n + 2)'  BY <1>0, <2>1, <2>3, SameScript DEF ClientAt
  <2>5. OnItsWay(k, n + 2)'  BY <1>0, <1>2, <2>1, <2>2, <2>3, SendsTwo
  <2>6. spc \notin Unsettled  BY <2>1 DEF Told
  <2> QED  BY <1>3, <2>3, <2>4, <2>5, <2>6
<1>11. CASE FmlePublish
  <2>1. /\ cpc = "connected" /\ purpose = "publish" /\ cpc' = "releasing"
        /\ toServer' = toServer \o <<Call("releaseStream", 2),
                                      Call("FCPublish", 3),
                                      Call("createStream", 4)>>
        /\ produced' = produced
    BY <1>11 DEF FmlePublish, SendsOnly, Sends, CreateStreamTid
  <2>2. /\ Call("releaseStream", 2) \in Message
        /\ Call("releaseStream", 2).kind = "releaseStream"
        /\ Call("FCPublish", 3) \in Message
        /\ Call("FCPublish", 3).kind = "FCPublish"
        /\ Call("createStream", 4) \in Message
        /\ Call("createStream", 4).kind = "createStream"
    BY PlainMessages DEF Kinds
  <2>3. /\ n = 4
        /\ Line[n + 1] = "releaseStream"
        /\ Line[n + 2] = "FCPublish"
        /\ Line[n + 3] = "createStream"
    BY <2>1 DEF ClientAt
  <2>4. ClientAt(n + 3)'  BY <1>0, <2>1, <2>3, SameScript DEF ClientAt
  <2>5. OnItsWay(k, n + 3)'  BY <1>0, <1>2, <2>1, <2>2, <2>3, SendsThree
  <2>6. spc \notin Unsettled  BY <2>1 DEF Told
  <2> QED  BY <1>3, <2>3, <2>4, <2>5, <2>6
<1>12. CASE FmlePublishes
  <2>1. /\ cpc = "released" /\ cpc' = "confirming"
        /\ toServer' = toServer \o <<Over(stream_id, "publish")>>
        /\ produced' = produced
    BY <1>12 DEF FmlePublishes, SendsOnly, Sends
  <2>2. /\ Over(stream_id, "publish") \in Message
        /\ Over(stream_id, "publish").kind = "publish"
    BY PlainMessages DEF Kinds
  <2>3. n = 7 /\ Line[n + 1] = "publish"
    BY <2>1 DEF ClientAt
  <2>4. ClientAt(n + 1)'  BY <1>0, <2>1, <2>3, SameScript DEF ClientAt
  <2>5. OnItsWay(k, n + 1)'  BY <1>0, <1>2, <2>1, <2>2, <2>3, SendsOne
  <2>6. spc \notin Unsettled  BY <2>1 DEF Told
  <2> QED  BY <1>3, <2>3, <2>4, <2>5, <2>6
<1>13. CASE WritePacket
  <2> DEFINE m == Media(stream_id, produced + 1)
  <2>1. /\ cpc = "publishing" /\ cpc' = cpc /\ produced < MaxMedia
        /\ toServer' = toServer \o <<m>> /\ produced' = produced + 1
    BY <1>13 DEF WritePacket
  <2>2. m \in Message /\ m.kind = "media" /\ m.data = produced + 1
    BY DEF Media, Message, Kinds
  <2>3. /\ n = Opening + produced /\ purpose \in {"publish", "flash"}
        /\ spc \notin Unsettled
    BY <2>1 DEF ClientAt, Told
  <2>4. Line[n + 1] = "media"
    <3>1. n + 1 \in Nat /\ n + 1 > Opening /\ n + 1 <= Opening + MaxMedia
      BY <1>2, <2>1, <2>3
    <3> QED  BY <1>2, <3>1, MediaLines
  <2>5. m.data = n + 1 - Opening  BY <1>2, <2>2, <2>3
  <2> HIDE DEF m
  <2>6. OnItsWay(k, n + 1)'
    BY <1>0, <1>2, <2>1, <2>2, <2>4, <2>5, SendsOne
  <2>7. ClientAt(n + 1)'
    BY <1>0, <1>2, <2>1, <2>3, SameScript DEF ClientAt
  <2> QED  BY <1>3, <2>3, <2>6, <2>7
<1>14. CASE FmleUnpublish
  <2> DEFINE m == Call("FCUnpublish", 3)
  <2>1. /\ cpc = "publishing" /\ purpose = "publish" /\ produced = MaxMedia
        /\ cpc' = "unpublished" /\ produced' = produced
        /\ toServer' = toServer \o <<m>>
    BY <1>14 DEF FmleUnpublish, Sends
  <2>2. m \in Message /\ m.kind = "FCUnpublish"  BY PlainMessages DEF Kinds
  <2>3. n = Opening + MaxMedia /\ spc \notin Unsettled
    BY <2>1 DEF ClientAt, Told
  <2>4. Line[n + 1] = "FCUnpublish"
    <3>1. /\ n + 1 \in Nat /\ n + 1 > Opening
          /\ ~(n + 1 <= Opening + MaxMedia)
      BY <1>2, <2>3
    <3> QED  BY <1>2, <3>1, MediaLines
  <2> HIDE DEF m
  <2>5. OnItsWay(k, n + 1)'  BY <1>0, <1>2, <2>1, <2>2, <2>4, SendsOne
  <2>6. ClientAt(n + 1)'
    BY <1>0, <1>2, <2>1, <2>3, SameScript DEF ClientAt
  <2> QED  BY <1>3, <2>3, <2>5, <2>6
<1> QED  BY <1>4, <1>5, <1>6, <1>7, <1>8, <1>9, <1>10, <1>11, <1>12, <1>13,
            <1>14 DEF Sendings

-----------------------------------------------------------------------------
(* The client receives, gives up or fails: the script stays as it is.      *)
Receivings ==
    DropsMessage \/ EndsWait \/ ReadPacket \/ OnAggregate \/ ReadPart
    \/ ReadS0S1S2 \/ ReadFastHandshakeRes \/ SendFails \/ NothingArrives

(* The result that ends a wait for it is the one of its request.           *)
LEMMA EndsWithResult ==
  ASSUME IInv, EndsWait
  PROVE  /\ toClient # << >> /\ toClient[1] \in Message
         /\ Head(toClient) = toClient[1]
         /\ cpc \in DOMAIN Wanted
         /\ Decoded(toClient[1]) \in Wanted[cpc]
         /\ cpc' = After(toClient[1]) /\ fault' = fault
         /\ cpc = "connecting" => toClient[1].kind = "connectRes"
         /\ cpc = "creating" => stream_id' = StreamId
<1>1. /\ toClient # << >> /\ Head(toClient) = toClient[1]
      /\ toClient[1] \in Message /\ GoodResult(toClient[1])
  BY DEF EndsWait, Gets, IInv, Types
<1> DEFINE m == toClient[1]
<1>2. Decoded(m) \notin Faults  BY <1>1, ResultsDecode
<1>3. /\ Decoded(m) \in Wanted[cpc] /\ cpc' = After(m) /\ fault' = fault
      /\ cpc \in DOMAIN Wanted /\ stream_id' = StreamIdAfter(m)
  BY <1>1, <1>2 DEF EndsWait, Expects
<1> HIDE DEF m
<1>4. ASSUME Decoded(m) \in {"ConnectAppRes", "CreateStreamRes"}
      PROVE  /\ Decoded(m) = "ConnectAppRes" => m.kind = "connectRes"
             /\ Decoded(m) = "CreateStreamRes" => m.kind = "streamRes"
  <2>1. m.kind \in Results
    BY <1>4 DEF Decoded, OtherPacket
  <2>2. Decoded(m) \in {"no_request", "undecodable", ResultPacket[m.kind]}
    BY <2>1 DEF Decoded, DecodedResult
  <2> QED  BY <1>4, <2>1, <2>2 DEF ResultPacket, Results
<1>5. cpc = "connecting" => m.kind = "connectRes"
  BY <1>3, <1>4 DEF Wanted
<1>6. cpc = "creating" => stream_id' = StreamId
  BY <1>1, <1>3, <1>4 DEF Wanted, StreamIdAfter, GoodResult, m
<1> QED  BY <1>1, <1>3, <1>5, <1>6 DEF m

(* What the client receives moves it along its script.                     *)
LEMMA ReceivesInScript ==
  ASSUME NEW k \in Nat, NEW n \in Nat, OnItsWay(k, n), ClientAt(n),
         ServerAt(k, n), produced \in Nat, IInv,
         UNCHANGED serverVars, Receivings
  PROVE  InScript'
<1>0. UNCHANGED <<purpose, spc, role, taken, produced, toServer>>
  BY DEF serverVars, Receivings, DropsMessage, EndsWait, ReadPacket,
         OnAggregate, ReadPart, ReadS0S1S2, ReadFastHandshakeRes, SendFails,
         NothingArrives, Gets, wireVars
<1>1. OnItsWay(k, n)' /\ ServerAt(k, n)'
  BY <1>0, SameScript DEF OnItsWay, ServerAt
<1> SUFFICES ClientAt(n)'
  BY <1>1 DEF InScript
<1>2. CASE DropsMessage \/ ReadPacket \/ OnAggregate \/ ReadPart
  <2>1. cpc' = cpc
    BY <1>2 DEF DropsMessage, ReadPacket, OnAggregate, ReadPart
  <2> QED  BY <1>0, <2>1, SameScript DEF ClientAt
<1>3. CASE EndsWait
  <2>1. cpc \in DOMAIN Wanted /\ cpc' = After(toClient[1])
    BY <1>3, EndsWithResult
  <2>2. \/ cpc = "connecting" /\ cpc' = "connected"
        \/ cpc = "creating" /\ cpc' = "created"
        \/ cpc = "releasing" /\ cpc' = "released"
        \/ cpc = "confirming" /\ cpc' \in {"confirming", "refused"}
    BY <2>1 DEF Wanted, After
  <2> QED  BY <1>0, <2>2, SameScript DEF ClientAt
<1>4. CASE ReadS0S1S2 \/ ReadFastHandshakeRes
  <2>1. \/ cpc = "shaking" /\ cpc' = "shaken"
        \/ cpc = "fast" /\ cpc' \in {"playing", "failed"}
    BY <1>4 DEF ReadS0S1S2, ReadFastHandshakeRes
  <2> QED  BY <1>0, <2>1, SameScript, ScriptLines DEF ClientAt
<1>5. CASE SendFails
  <2>1. cpc # "unpublished" /\ cpc' = "failed"  BY <1>5 DEF SendFails
  <2> QED  BY <1>0, <2>1, SameScript, ScriptLines DEF ClientAt
<1>6. CASE NothingArrives
  <2>1. Waits /\ cpc' = AfterError  BY <1>6 DEF NothingArrives
  <2>2. cpc # "unpublished"
    <3>1. DOMAIN Wanted = {"connecting", "creating", "releasing", "confirming"}
      BY DEF Wanted
    <3> QED  BY <2>1, <3>1 DEF Waits, Expects
  <2>3. cpc' = "failed" \/ (cpc = "confirming" /\ cpc' = "publishing")
    BY <2>1 DEF AfterError
  <2> QED  BY <1>0, <2>2, <2>3, SameScript, ScriptLines DEF ClientAt
<1> QED  BY <1>2, <1>3, <1>4, <1>5, <1>6 DEF Receivings

-----------------------------------------------------------------------------
(* What the server adds to what is on its way to the client.               *)
Adds(S) ==
    /\ Len(toClient) <= Len(toClient')
    /\ \A i \in 1..Len(toClient) : toClient'[i] = toClient[i]
    /\ \A i \in 1..Len(toClient') : i > Len(toClient) => toClient'[i].kind \in S

Telling == {"connectRes", "rejected", "publishRefused", "playReset",
            "playStart", "unpublishSuccess"} \cup MediaKinds
Quiet == Kinds \ Telling

(* Sending messages of kinds S adds nothing but kinds S.                   *)
LEMMA AddsMessages ==
  ASSUME toClient \in Seq(Message), NEW ms \in Seq(Message), NEW S,
         toClient' = toClient \o ms,
         \A j \in 1..Len(ms) : ms[j].kind \in S
  PROVE  Adds(S)
<1>1. Len(toClient') = Len(toClient) + Len(ms)  OBVIOUS
<1>2. ASSUME NEW i \in 1..Len(toClient') , i > Len(toClient)
      PROVE  toClient'[i].kind \in S
  <2>1. i - Len(toClient) \in 1..Len(ms)  BY <1>1, <1>2
  <2>2. toClient'[i] = ms[i - Len(toClient)]  BY <1>1, <1>2
  <2> QED  BY <2>1, <2>2
<1>3. \A i \in 1..Len(toClient) : toClient'[i] = toClient[i]  OBVIOUS
<1> QED  BY <1>1, <1>2, <1>3 DEF Adds

(* Sending one message of a kind in S adds nothing but kinds S.            *)
LEMMA AddsOne ==
  ASSUME toClient \in Seq(Message), NEW a \in Message, NEW S, a.kind \in S,
         toClient' = toClient \o <<a>>
  PROVE  Adds(S)
<1> DEFINE ms == <<a>>
<1>1. ms \in Seq(Message) /\ \A j \in 1..Len(ms) : ms[j].kind \in S  OBVIOUS
<1>2. toClient' = toClient \o ms  OBVIOUS
<1> HIDE DEF ms
<1> QED  BY <1>1, <1>2, AddsMessages

(* Sending nothing adds nothing.                                           *)
LEMMA AddsNothing ==
  ASSUME toClient \in Seq(Message), NEW S, toClient' = toClient
  PROVE  Adds(S)
BY DEF Adds

(* The actions by what they tell.                                          *)
LEMMA AcceptsAdds ==
  ASSUME toClient \in Seq(Message), Accepts
  PROVE  Adds(Quiet \cup {"connectRes"})
<1>1. PICK done \in {<<Plain("onBWDone")>>, << >>} :
          toClient' = toClient \o (<<Plain("windowAck"), Plain("peerBandwidth"),
              Plain("chunkSize"), Call("connectRes", 1)>> \o done)
  BY DEF Accepts, Answers, SetsClient
<1>2. /\ Plain("windowAck") \in Message /\ Plain("windowAck").kind \in Quiet
      /\ Plain("peerBandwidth") \in Message
      /\ Plain("peerBandwidth").kind \in Quiet
      /\ Plain("chunkSize") \in Message /\ Plain("chunkSize").kind \in Quiet
      /\ Plain("onBWDone") \in Message /\ Plain("onBWDone").kind \in Quiet
      /\ Call("connectRes", 1) \in Message
      /\ Call("connectRes", 1).kind = "connectRes"
  BY PlainMessages DEF Kinds, Quiet, Telling, MediaKinds
<1> DEFINE ms == <<Plain("windowAck"), Plain("peerBandwidth"),
                   Plain("chunkSize"), Call("connectRes", 1)>>
           S == Quiet \cup {"connectRes"}
<1> DEFINE Adding(m) == m \in Message /\ m.kind \in S
<1>3. ms \in Seq(Message) /\ \A j \in 1..Len(ms) : ms[j].kind \in S
  <2>1. /\ Adding(Plain("windowAck")) /\ Adding(Plain("peerBandwidth"))
        /\ Adding(Plain("chunkSize")) /\ Adding(Call("connectRes", 1))
    BY <1>2
  <2> HIDE DEF S
  <2> QED  BY <2>1
<1>4. done \in Seq(Message) /\ \A j \in 1..Len(done) : done[j].kind \in S
  <2>1. Adding(Plain("onBWDone"))  BY <1>2
  <2> HIDE DEF S
  <2>2. CASE done = << >>  BY <2>2
  <2>3. CASE done = <<Plain("onBWDone")>>  BY <2>1, <2>3
  <2> QED  BY <2>2, <2>3
<1>5. toClient' = toClient \o (ms \o done)  BY <1>1
<1> HIDE DEF ms, S
<1>6. ASSUME NEW j \in 1..Len(ms \o done)
      PROVE  (ms \o done)[j].kind \in S
  <2>1. CASE j <= Len(ms)
    <3>1. (ms \o done)[j] = ms[j] /\ j \in 1..Len(ms)  BY <1>3, <1>4, <2>1
    <3> QED  BY <1>3, <3>1
  <2>2. CASE j > Len(ms)
    <3>1. /\ (ms \o done)[j] = done[j - Len(ms)]
          /\ j - Len(ms) \in 1..Len(done)
      BY <1>3, <1>4, <2>2
    <3> QED  BY <1>4, <3>1
  <2> QED  BY <1>3, <1>4, <2>1, <2>2
<1>7. ms \o done \in Seq(Message)  BY <1>3, <1>4
<1>8. Adds(S)  BY <1>5, <1>6, <1>7, AddsMessages
<1> QED  BY <1>8 DEF S

(* A refusal is all that the server says when it refuses.                  *)
LEMMA RefusalsAdd ==
  ASSUME toClient \in Seq(Message)
  PROVE  /\ Rejects \/ Redirects => Adds({"rejected"})
         /\ RefusesPublish => Adds({"publishRefused"})
<1>1. /\ Plain("rejected") \in Message /\ Plain("rejected").kind = "rejected"
      /\ Over(StreamId, "publishRefused") \in Message
      /\ Over(StreamId, "publishRefused").kind = "publishRefused"
  BY PlainMessages DEF Kinds
<1>2. Rejects \/ Redirects => toClient' = toClient \o <<Plain("rejected")>>
  BY DEF Rejects, Redirects, Answers, SetsClient
<1>3. RefusesPublish =>
          toClient' = toClient \o <<Over(StreamId, "publishRefused")>>
  BY DEF RefusesPublish, SetsClient
<1>4. ASSUME NEW a \in Message, toClient' = toClient \o <<a>>
      PROVE  Adds({a.kind})
  BY <1>4, AddsOne
<1> QED  BY <1>1, <1>2, <1>3, <1>4

(* StartPlay announces the play, and nothing else that tells.              *)
LEMMA PlayAdds ==
  ASSUME toClient \in Seq(Message), StartPlay
  PROVE  Adds(Quiet \cup {"playReset", "playStart"})
<1> DEFINE ms == <<Plain("streamBegin"), Over(StreamId, "playReset"),
                   Over(StreamId, "playStart"), Over(StreamId, "sampleAccess"),
                   Over(StreamId, "dataStart")>>
           S == Quiet \cup {"playReset", "playStart"}
<1>1. toClient' = toClient \o ms  BY DEF StartPlay, Answers, SetsClient
<1>2. /\ Plain("streamBegin") \in Message
      /\ Plain("streamBegin").kind \in Quiet
      /\ \A k \in {"playReset", "playStart", "sampleAccess", "dataStart"} :
             Over(StreamId, k) \in Message /\ Over(StreamId, k).kind = k
      /\ {"sampleAccess", "dataStart"} \subseteq Quiet
  BY PlainMessages DEF Kinds, Quiet, Telling, MediaKinds
<1>3. ms \in Seq(Message) /\ \A j \in 1..Len(ms) : ms[j].kind \in S
  BY <1>2
<1> HIDE DEF ms, S
<1>4. Adds(S)  BY <1>1, <1>3, AddsMessages
<1> QED  BY <1>4 DEF S

(* FCUnpublish is answered by the success of it alone.                     *)
LEMMA UnpublishAdds ==
  ASSUME toClient \in Seq(Message), toServer \in Seq(Message), TakesUnpublish
  PROVE  Adds(Quiet \cup {"unpublishSuccess"})
<1> DEFINE r == [Call("fmleRes", Request.tid) EXCEPT !.sid = StreamId]
           ms == <<Over(StreamId, "onFCUnpublish"), r,
                   Over(StreamId, "unpublishSuccess")>>
           S == Quiet \cup {"unpublishSuccess"}
<1>1. toClient' = toClient \o ms  BY DEF TakesUnpublish, SetsClient
<1>2. r \in Message /\ r.kind \in Quiet
  <2>1. toServer # << >>  BY DEF TakesUnpublish, Takes
  <2>2. Request \in Message  BY <2>1 DEF Request
  <2>3. Request.tid \in Nat  BY <2>2 DEF Message
  <2>4. r.kind = "fmleRes" /\ "fmleRes" \in Quiet
    BY DEF Call, Kinds, Quiet, Telling, MediaKinds
  <2>5. r \in Message
    BY <2>3, StreamIdAssumption DEF Call, Message, Kinds
  <2> QED  BY <2>4, <2>5
<1> HIDE DEF r
<1>3. /\ \A k \in {"onFCUnpublish", "unpublishSuccess"} :
             Over(StreamId, k) \in Message /\ Over(StreamId, k).kind = k
      /\ "onFCUnpublish" \in Quiet
  BY PlainMessages DEF Kinds, Quiet, Telling, MediaKinds
<1>4. ms \in Seq(Message) /\ \A j \in 1..Len(ms) : ms[j].kind \in S
  BY <1>2, <1>3
<1> HIDE DEF ms, S
<1>5. Adds(S)  BY <1>1, <1>4, AddsMessages
<1> QED  BY <1>5 DEF S

(* The other steps of the server say nothing that tells.                   *)
LEMMA OthersAdd ==
  ASSUME toClient \in Seq(Message), toServer \in Seq(Message),
         \/ TakesC0C1 \/ TakesC2 \/ TakesFastHandshake
         \/ RefusesFastHandshake \/ TakesConnect
         \/ IdentifiesByCreateStream \/ IdentifiesPlay
         \/ IdentifiesFlashPublish \/ IdentifiesFmlePublish
         \/ TakesFCPublish \/ TakesCreateStream \/ TakesPublish
         \/ TakesMedia \/ Ignores \/ RedirectTimesOut
         \/ StartFlashPublish \/ StartFmlePublish \/ Pings
  PROVE  Adds(Quiet)
<1>1. ASSUME NEW a \in Message, a.kind \in Quiet,
             toClient' = toClient \o <<a>>
      PROVE  Adds(Quiet)
  BY <1>1, AddsOne
<1>2. \A k \in {"s0s1s2", "fastHsRes", "publishStart", "onFCPublish", "ping",
                "streamRes", "fmleRes"} : k \in Kinds /\ k \in Quiet
  BY DEF Kinds, Quiet, Telling, MediaKinds
<1>3. CASE TakesC2 \/ RefusesFastHandshake \/ TakesConnect \/ IdentifiesPlay
               \/ IdentifiesFlashPublish \/ TakesMedia \/ Ignores
  <2>1. toClient' = toClient
    BY <1>3 DEF TakesC2, RefusesFastHandshake, TakesConnect, IdentifiesPlay,
                IdentifiesFlashPublish, TakesMedia, Ignores
  <2> QED  BY <2>1, AddsNothing
<1>4. CASE RedirectTimesOut \/ StartFmlePublish
  <2>1. toClient' = toClient \o << >>
    BY <1>4 DEF RedirectTimesOut, StartFmlePublish, Answers, SetsClient
  <2>2. toClient' = toClient  BY <2>1
  <2> QED  BY <2>2, AddsNothing
<1>5. CASE TakesC0C1 \/ TakesFastHandshake
  <2>1. \E k \in {"s0s1s2", "fastHsRes"} : toClient' = toClient \o <<Plain(k)>>
    BY <1>5 DEF TakesC0C1, TakesFastHandshake, SetsClient
  <2>2. PICK k \in {"s0s1s2", "fastHsRes"} :
            toClient' = toClient \o <<Plain(k)>>
    BY <2>1
  <2>3. Plain(k) \in Message /\ Plain(k).kind \in Quiet
    BY <1>2, PlainMessages
  <2> QED  BY <1>1, <2>2, <2>3
<1>6. ASSUME TakesC0C1 \/ IdentifiesByCreateStream \/ IdentifiesFmlePublish
                 \/ TakesFCPublish \/ TakesCreateStream \/ TakesMedia
      PROVE  Request \in Message /\ Request.tid \in Nat
  <2>1. toServer # << >>
    BY <1>6 DEF TakesC0C1, IdentifiesByCreateStream, IdentifiesFmlePublish,
                TakesFCPublish, TakesCreateStream, TakesMedia, Takes
  <2>2. Request \in Message  BY <2>1 DEF Request
  <2> QED  BY <2>2 DEF Message
<1>7. CASE IdentifiesByCreateStream \/ TakesCreateStream
  <2> DEFINE a == [Call("streamRes", Request.tid) EXCEPT !.data = StreamId]
  <2>1. toClient' = toClient \o <<a>>
    BY <1>7 DEF IdentifiesByCreateStream, TakesCreateStream, SetsClient
  <2>2. a \in Message /\ a.kind = "streamRes"
    BY <1>6, <1>7, StreamIdAssumption DEF Call, Message, Kinds
  <2> HIDE DEF a
  <2> QED  BY <1>1, <1>2, <2>1, <2>2
<1>8. CASE IdentifiesFmlePublish \/ TakesFCPublish
  <2> DEFINE a == Call("fmleRes", Request.tid)
  <2>1. toClient' = toClient \o <<a>>
    BY <1>8 DEF IdentifiesFmlePublish, TakesFCPublish, SetsClient, FmleAnswer
  <2>2. a \in Message /\ a.kind = "fmleRes"
    BY <1>6, <1>8 DEF Call, Message, Kinds
  <2> HIDE DEF a
  <2> QED  BY <1>1, <1>2, <2>1, <2>2
<1>9. CASE StartFlashPublish
  <2>1. toClient' = toClient \o <<Over(StreamId, "publishStart")>>
    BY <1>9 DEF StartFlashPublish, Answers, SetsClient
  <2>2. /\ Over(StreamId, "publishStart") \in Message
        /\ Over(StreamId, "publishStart").kind \in Quiet
    BY <1>2, PlainMessages
  <2> QED  BY <1>1, <2>1, <2>2
<1>10. CASE TakesPublish
  <2> DEFINE ms == <<Over(StreamId, "onFCPublish"),
                     Over(StreamId, "publishStart")>>
  <2>1. toClient' = toClient \o ms  BY <1>10 DEF TakesPublish, SetsClient
  <2>2. \A k \in {"onFCPublish", "publishStart"} :
            Over(StreamId, k) \in Message /\ Over(StreamId, k).kind \in Quiet
    BY <1>2, PlainMessages
  <2>3. ms \in Seq(Message) /\ \A j \in 1..Len(ms) : ms[j].kind \in Quiet
    BY <2>2
  <2> HIDE DEF ms
  <2> QED  BY <2>1, <2>3, AddsMessages
<1>11. CASE Pings
  <2>1. toClient' = toClient \o <<Plain("ping")>>  BY <1>11 DEF Pings
  <2>2. Plain("ping") \in Message /\ Plain("ping").kind \in Quiet
    BY <1>2, PlainMessages
  <2> QED  BY <1>1, <2>1, <2>2
<1> QED  BY <1>3, <1>4, <1>5, <1>7, <1>8, <1>9, <1>10, <1>11

(* Serving media sends media and nothing else.                             *)
LEMMA MediaAdds ==
  ASSUME toClient \in Seq(Message), served \in Nat,
         ServesMedia \/ ServesAggregate
  PROVE  Adds(MediaKinds)
<1>1. CASE ServesMedia
  <2> DEFINE a == Media(StreamId, served + 1)
  <2>1. toClient' = toClient \o <<a>>  BY <1>1 DEF ServesMedia
  <2>2. a \in Message /\ a.kind = "media"
    BY StreamIdAssumption DEF Media, Message, Kinds
  <2> HIDE DEF a
  <2>3. a.kind \in MediaKinds  BY <2>2 DEF MediaKinds
  <2> QED  BY <2>1, <2>2, <2>3, AddsOne
<1>2. CASE ServesAggregate
  <2>1. PICK b \in 0..served + 1 + MaxAhead :
            toClient' = Append(toClient, Aggregate(StreamId, served + 1, b))
    BY <1>2 DEF ServesAggregate
  <2> DEFINE a == Aggregate(StreamId, served + 1, b)
  <2>2. toClient' = toClient \o <<a>>  BY <2>1
  <2>3. a \in Message /\ a.kind = "aggregate"
    BY StreamIdAssumption DEF Aggregate, Message, Kinds
  <2> HIDE DEF a
  <2>4. a.kind \in MediaKinds  BY <2>3 DEF MediaKinds
  <2> QED  BY <2>2, <2>3, <2>4, AddsOne
<1> QED  BY <1>1, <1>2

-----------------------------------------------------------------------------
(* The server does not come back to where it has not settled with the      *)
(* client, nor from where it leaves.                                       *)
LEMMA ServerGoesOn ==
  ASSUME Takings \/ Sayings
  PROVE  /\ spc \notin Unsettled => spc' \notin Unsettled
         /\ spc = "leaving" => spc' = "leaving"
         /\ spc = "redirecting" => spc' \in {"redirecting", "leaving"}
         /\ closed => closed'
         /\ spc = "publishing" => spc' = "publishing" \/ TakesUnpublish
<1>1. CASE Takings
  BY <1>1
  DEF Takings, TakesC0C1, TakesC2, TakesFastHandshake, RefusesFastHandshake,
      TakesConnect, IdentifiesByCreateStream, IdentifiesPlay,
      IdentifiesFlashPublish, IdentifiesFmlePublish, TakesFCPublish,
      TakesCreateStream, TakesPublish, RefusesPublish, TakesMedia,
      TakesUnpublish, Ignores, Takes, SetsClient, Unsettled, PlayLevels
<1>2. CASE Sayings
  BY <1>2
  DEF Sayings, Accepts, Rejects, Redirects, RedirectTimesOut, StartPlay,
      StartFlashPublish, StartFmlePublish, ServesMedia, ServesAggregate, Pings,
      Closes, Answers, SetsClient, Unsettled, serverVars
<1> QED  BY <1>1, <1>2

(* A publisher is identified anew only after it has unpublished.           *)
LEMMA UnpublishEnds ==
  ASSUME NEW k \in Nat, NEW n \in Nat, OnItsWay(k, n), ClientAt(n),
         ServerAt(k, n), toServer \in Seq(Message), produced \in Nat,
         UNCHANGED purpose, TakesUnpublish
  PROVE  cpc = "unpublished"
<1> USE ScriptLines, MediaAssumption
<1>1. Takes({"FCUnpublish"}) /\ spc = "publishing"  BY DEF TakesUnpublish
<1>2. Opening \in Nat  BY DEF ClientAt
<1>3. Line[k + 1] = "FCUnpublish" /\ k + 1 <= n  BY <1>1, <1>2, TakesLine
<1>4. k = Opening + Len(taken) /\ Len(taken) \in Nat
  BY <1>1 DEF ServerAt
<1>5. Line[k + 1] = IF k + 1 <= Opening + MaxMedia THEN "media"
                                                   ELSE "FCUnpublish"
  BY <1>2, <1>4, MediaLines
<1>6. k + 1 > Opening + MaxMedia  BY <1>2, <1>3, <1>4, <1>5
<1> QED  BY <1>2, <1>3, <1>6 DEF ClientAt

(* A server that plays has a client that was asked for it.                 *)
LEMMA PlaysToPlayers ==
  ASSUME NEW k \in Nat, NEW n \in Nat, OnItsWay(k, n), ClientAt(n),
         ServerAt(k, n), produced \in Nat
  PROVE  /\ spc = "playing" => cpc \in {"fast", "playing", "failed"}
         /\ spc = "identified" /\ role = "play" => purpose \in {"play", "fast"}
BY ScriptLines DEF OnItsWay, ClientAt, ServerAt

(* What the server says of an outcome is where it is.                      *)
LEMMA ServerTells ==
  ASSUME NEW k \in Nat, NEW n \in Nat, OnItsWay(k, n), ClientAt(n),
         ServerAt(k, n), IInv, Told, UNCHANGED <<clientVars, slow>>,
         Takings \/ Sayings
  PROVE  Told'
<1>1. UNCHANGED <<purpose, cpc, slow>>  BY DEF clientVars
<1>2. /\ toClient \in Seq(Message) /\ toServer \in Seq(Message)
      /\ served \in Nat /\ produced \in Nat
  BY DEF IInv, Types
<1>3. TakesUnpublish => cpc = "unpublished"
  BY <1>1, <1>2, UnpublishEnds
<1>4. \A kind : ToldOf(kind) => ToldOf(kind)'
  BY <1>1, ServerGoesOn DEF ToldOf
<1>5. ASSUME NEW S, Adds(S), \A kind \in S : ToldOf(kind)'
      PROVE  \A i \in DOMAIN toClient' : ToldOf(toClient[i].kind)'
  <2> SUFFICES ASSUME NEW i \in 1..Len(toClient')
               PROVE  ToldOf(toClient[i].kind)'
    OBVIOUS
  <2>1. CASE i \in 1..Len(toClient)
    <3>1. toClient'[i] = toClient[i]  BY <1>5, <2>1 DEF Adds
    <3>2. ToldOf(toClient[i].kind)  BY <1>2, <2>1 DEF Told
    <3> QED  BY <3>1, <3>2, <1>4 DEF ToldOf
  <2>2. CASE i \notin 1..Len(toClient)
    <3>1. toClient'[i].kind \in S  BY <1>2, <1>5, <2>2 DEF Adds
    <3> QED  BY <3>1, <1>5 DEF ToldOf
  <2> QED  BY <2>1, <2>2
<1>6. \A kind \in Quiet : ToldOf(kind)'
  BY DEF ToldOf, Quiet, Telling, MediaKinds
<1>7. \A i \in DOMAIN toClient' : ToldOf(toClient[i].kind)'
  <2>1. CASE Accepts
    <3>1. spc' \notin Unsettled
      BY <2>1 DEF Accepts, Answers, SetsClient, Unsettled
    <3>2. \A kind \in Quiet \cup {"connectRes"} : ToldOf(kind)'
      BY <1>6, <3>1 DEF ToldOf, MediaKinds
    <3> QED  BY <1>2, <1>5, <2>1, <3>2, AcceptsAdds
  <2>2. CASE Rejects \/ Redirects
    <3>1. spc' \in {"redirecting", "leaving"}
      BY <2>2 DEF Rejects, Redirects, Answers, SetsClient
    <3>2. \A kind \in {"rejected"} : ToldOf(kind)'
      BY <3>1 DEF ToldOf, MediaKinds
    <3> QED  BY <1>2, <1>5, <2>2, <3>2, RefusalsAdd
  <2>3. CASE RefusesPublish
    <3>1. spc' = "leaving"  BY <2>3 DEF RefusesPublish, SetsClient
    <3>2. \A kind \in {"publishRefused"} : ToldOf(kind)'
      BY <3>1 DEF ToldOf, MediaKinds
    <3> QED  BY <1>2, <1>5, <2>3, <3>2, RefusalsAdd
  <2>4. CASE StartPlay
    <3>1. purpose' \in {"play", "fast"}
      BY <1>1, <1>2, <2>4, PlaysToPlayers DEF StartPlay
    <3>2. \A kind \in Quiet \cup {"playReset", "playStart"} : ToldOf(kind)'
      BY <1>6, <3>1 DEF ToldOf, MediaKinds
    <3> QED  BY <1>2, <1>5, <2>4, <3>2, PlayAdds
  <2>5. CASE TakesUnpublish
    <3>1. cpc' = "unpublished"  BY <1>1, <1>3, <2>5
    <3>2. \A kind \in Quiet \cup {"unpublishSuccess"} : ToldOf(kind)'
      BY <1>6, <3>1 DEF ToldOf, MediaKinds
    <3> QED  BY <1>2, <1>5, <2>5, <3>2, UnpublishAdds
  <2>6. CASE ServesMedia \/ ServesAggregate
    <3>1. cpc' \in {"fast", "playing", "failed"}
      BY <1>1, <1>2, <2>6, PlaysToPlayers DEF ServesMedia, ServesAggregate
    <3>2. \A kind \in MediaKinds : ToldOf(kind)'
      BY <3>1 DEF ToldOf, MediaKinds
    <3> QED  BY <1>2, <1>5, <2>6, <3>2, MediaAdds
  <2>7. CASE Closes
    <3>1. PICK l \in 0..Len(toClient) : toClient' = SubSeq(toClient, 1, l)
      BY <2>7 DEF Closes
    <3> SUFFICES ASSUME NEW i \in DOMAIN toClient'
                 PROVE  ToldOf(toClient[i].kind)'
      OBVIOUS
    <3>2. i \in DOMAIN toClient /\ toClient'[i] = toClient[i]
      BY <1>2, <3>1
    <3>3. ToldOf(toClient[i].kind)  BY <3>2 DEF Told
    <3> QED  BY <3>2, <3>3, <1>4 DEF ToldOf
  <2>8. CASE \/ TakesC0C1 \/ TakesC2 \/ TakesFastHandshake
             \/ RefusesFastHandshake \/ TakesConnect
             \/ IdentifiesByCreateStream \/ IdentifiesPlay
             \/ IdentifiesFlashPublish \/ IdentifiesFmlePublish
             \/ TakesFCPublish \/ TakesCreateStream \/ TakesPublish
             \/ TakesMedia \/ Ignores \/ RedirectTimesOut
             \/ StartFlashPublish \/ StartFmlePublish \/ Pings
    <3>1. Adds(Quiet)  BY <1>2, <2>8, OthersAdd
    <3> QED  BY <1>5, <1>6, <3>1
  <2> QED  BY <2>1, <2>2, <2>3, <2>4, <2>5, <2>6, <2>7, <2>8
           DEF Takings, Sayings
<1>8. PublishTellsOutcome'
  BY <1>1, <1>3, ServerGoesOn DEF Told, PublishTellsOutcome
<1> QED  BY <1>1, <1>7, <1>8, ServerGoesOn DEF Told

(* The client stays told of what is true.                                  *)
LEMMA ClientTells ==
  ASSUME NEW k \in Nat, NEW n \in Nat, OnItsWay(k, n), ClientAt(n),
         ServerAt(k, n), IInv, Told, UNCHANGED <<serverVars, slow>>,
         Sendings \/ Receivings, NothingArrives => slow \/ ServerWaits
  PROVE  Told'
<1>1. /\ toClient \in Seq(Message) /\ produced \in Nat
  BY DEF IInv, Types
<1>2. UNCHANGED <<spc, slow, purpose, closed>>
  BY DEF serverVars, Sendings, WriteC0C1, WriteC2, FastHandshake, ConnectApp,
         CreateStream, Play, Publish, FmlePublish, FmlePublishes, WritePacket,
         FmleUnpublish, SendsOnly, Sends, Receivings, DropsMessage, EndsWait,
         ReadPacket, OnAggregate, ReadPart, ReadS0S1S2, ReadFastHandshakeRes,
         SendFails, NothingArrives, Gets, wireVars
<1>3. \A i \in DOMAIN toClient' :
          \E j \in DOMAIN toClient : toClient'[i] = toClient[j]
  <2>1. toClient' = toClient \/ (toClient # << >> /\ toClient' = Tail(toClient))
    BY DEF Sendings, WriteC0C1, WriteC2, FastHandshake, ConnectApp,
           CreateStream, Play, Publish, FmlePublish, FmlePublishes, WritePacket,
           FmleUnpublish, SendsOnly, Sends, Receivings, DropsMessage, EndsWait,
           ReadPacket, OnAggregate, ReadPart, ReadS0S1S2, ReadFastHandshakeRes,
           SendFails, NothingArrives, Gets, wireVars
  <2>2. CASE toClient' = toClient  BY <2>2
  <2>3. CASE toClient # << >> /\ toClient' = Tail(toClient)
    <3> SUFFICES ASSUME NEW i \in DOMAIN toClient'
                 PROVE  \E j \in DOMAIN toClient : toClient'[i] = toClient[j]
      OBVIOUS
    <3>1. i + 1 \in DOMAIN toClient /\ toClient'[i] = toClient[i + 1]
      BY <1>1, <2>3
    <3> QED  BY <3>1
  <2> QED  BY <2>1, <2>2, <2>3
<1>4. /\ cpc = "unpublished" => cpc' = "unpublished"
      /\ cpc \in {"fast", "playing", "failed"} =>
             cpc' \in {"fast", "playing", "failed"}
      /\ cpc' = "refused" => cpc = "refused" \/ (EndsWait /\ cpc = "confirming")
      /\ cpc' = "publishing" => \/ cpc = "publishing" \/ purpose = "flash"
                                \/ NothingArrives /\ cpc = "confirming"
      /\ cpc' = "connected" =>
             cpc = "connected" \/ (EndsWait /\ cpc = "connecting")
      /\ cpc' \in {"creating", "created", "releasing", "released", "confirming",
                   "refused", "publishing", "unpublished"} =>
             cpc \in {"connected", "creating", "created", "releasing",
                      "released", "confirming", "refused", "publishing",
                      "unpublished"}
  <2>1. CASE Sendings
    BY <2>1
    DEF Sendings, WriteC0C1, WriteC2, FastHandshake, ConnectApp, CreateStream,
        Play, Publish, FmlePublish, FmlePublishes, WritePacket, FmleUnpublish,
        SendsOnly
  <2>2. CASE DropsMessage \/ ReadPacket \/ OnAggregate \/ ReadPart
                \/ ReadS0S1S2 \/ ReadFastHandshakeRes \/ SendFails
    BY <2>2
    DEF DropsMessage, ReadPacket, OnAggregate, ReadPart, ReadS0S1S2,
        ReadFastHandshakeRes, SendFails
  <2>3. CASE EndsWait
    <3>1. cpc \in DOMAIN Wanted /\ cpc' = After(toClient[1])
      BY <2>3, EndsWithResult
    <3>2. \/ cpc = "connecting" /\ cpc' = "connected"
          \/ cpc = "creating" /\ cpc' = "created"
          \/ cpc = "releasing" /\ cpc' = "released"
          \/ cpc = "confirming" /\ cpc' \in {"confirming", "refused"}
      BY <3>1 DEF Wanted, After
    <3> QED  BY <2>3, <3>2
  <2>4. CASE NothingArrives
    <3>1. cpc \in {"connecting", "creating", "releasing", "confirming",
                   "shaking", "fast"}
      <4>1. DOMAIN Wanted =
                {"connecting", "creating", "releasing", "confirming"}
        BY DEF Wanted
      <4> QED  BY <2>4, <4>1 DEF NothingArrives, Waits, Expects
    <3>2. cpc' = IF cpc = "confirming" THEN "publishing" ELSE "failed"
      BY <2>4 DEF NothingArrives, AfterError
    <3> QED  BY <2>4, <3>1, <3>2
  <2> QED  BY <2>1, <2>2, <2>3, <2>4 DEF Receivings
<1>5. ASSUME EndsWait
      PROVE  /\ cpc = "connecting" => spc \notin Unsettled
             /\ cpc = "confirming" /\ cpc' = "refused" => spc = "leaving"
  <2> DEFINE m == toClient[1]
  <2>1. /\ toClient # << >> /\ m \in Message
        /\ Decoded(m) \in Wanted[cpc] /\ cpc' = After(m)
        /\ cpc = "connecting" => m.kind = "connectRes"
    BY <1>5, EndsWithResult
  <2>2. ToldOf(m.kind)
    <3>1. 1 \in DOMAIN toClient  BY <1>1, <2>1
    <3> QED  BY <3>1 DEF Told
  <2> HIDE DEF m
  <2>3. ASSUME cpc = "confirming", cpc' = "refused"
        PROVE  spc = "leaving"
    <3>1. Decoded(m) = "OnStatusCall" /\ m.kind # "publishStart"
      BY <2>1, <2>3 DEF Wanted, After
    <3>2. m.kind \notin Results
      BY <3>1 DEF Decoded, DecodedResult, ResultPacket, Results
    <3>3. m.kind \in {"rejected", "playReset", "playStart", "publishRefused",
                      "unpublishSuccess"}
      BY <3>1, <3>2 DEF Decoded, OtherPacket
    <3>4. purpose = "publish" /\ spc \notin Unsettled
      BY <2>3 DEF ClientAt, Told
    <3> QED  BY <2>2, <2>3, <3>3, <3>4 DEF ToldOf, Unsettled
  <2> QED  BY <2>1, <2>2, <2>3 DEF ToldOf
<1>6. \A i \in DOMAIN toClient' : ToldOf(toClient[i].kind)'
  <2> SUFFICES ASSUME NEW i \in DOMAIN toClient'
               PROVE  ToldOf(toClient[i].kind)'
    OBVIOUS
  <2>1. PICK j \in DOMAIN toClient : toClient'[i] = toClient[j]  BY <1>3
  <2>2. ToldOf(toClient[j].kind)  BY DEF Told
  <2> QED  BY <1>2, <1>4, <2>1, <2>2 DEF ToldOf
<1>7. PublishTellsOutcome'
  <2>1. ASSUME cpc' = "publishing", purpose = "publish", ~slow, ~closed
        PROVE  spc = "publishing"
    <3>1. CASE cpc = "publishing"
      BY <2>1, <3>1 DEF Told, PublishTellsOutcome
    <3>2. CASE NothingArrives /\ cpc = "confirming"
      <4>1. ServerWaits  BY <2>1, <3>2
      <4>2. /\ toServer = << >> /\ spc # "redirecting"
            /\ spc \in {"shaking", "reading_c2"} \cup DOMAIN Awaited
        BY <2>1, <4>1 DEF ServerWaits
      <4>3. n = 8 /\ spc \notin Unsettled  BY <3>2 DEF ClientAt, Told
      <4>4. k = 8  BY <4>2, <4>3 DEF OnItsWay
      <4>5. Opening = 8  BY <2>1, ScriptLines
      <4>6. spc # "identifying"
        BY <4>4, <4>5, MediaAssumption DEF ServerAt
      <4>7. DOMAIN Awaited = {"connecting", "identifying", "created",
                              "fc_publish", "create_stream", "publish",
                              "publishing", "playing", "redirecting"}
        BY DEF Awaited
      <4> QED  BY <2>1, <4>2, <4>3, <4>4, <4>5, <4>6, <4>7
               DEF ServerAt, Unsettled
    <3> QED  BY <1>4, <2>1, <3>1, <3>2
  <2>2. cpc' = "refused" => spc = "leaving"
    BY <1>4, <1>5 DEF Told, PublishTellsOutcome
  <2> QED  BY <1>2, <2>1, <2>2 DEF PublishTellsOutcome
<1>8. cpc' \in {"connected", "creating", "created", "releasing", "released",
                "confirming", "refused", "publishing", "unpublished"} =>
          spc \notin Unsettled
  BY <1>4, <1>5 DEF Told
<1> QED  BY <1>2, <1>6, <1>7, <1>8 DEF Told, Unsettled

-----------------------------------------------------------------------------
(* The stream id of what is sent.                                          *)
GoodStream(m) ==
    (m.kind \in {"play", "publish", "media"} /\ purpose # "publish") =>
        m.sid = StreamId

(* Messages on the given stream keep all of them on it.                    *)
LEMMA KeepsStreams ==
  ASSUME toServer \in Seq(Message), NEW ms \in Seq(Message),
         toServer' = toServer \o ms, UNCHANGED purpose,
         \A i \in DOMAIN toServer : GoodStream(toServer[i]),
         \A j \in 1..Len(ms) : GoodStream(ms[j])
  PROVE  \A i \in DOMAIN toServer' : GoodStream(toServer[i])'
<1> SUFFICES ASSUME NEW i \in DOMAIN toServer'
             PROVE  GoodStream(toServer[i])'
  OBVIOUS
<1>1. CASE i \in DOMAIN toServer
  <2>1. toServer'[i] = toServer[i]  BY <1>1
  <2> QED  BY <1>1, <2>1 DEF GoodStream
<1>2. CASE i \notin DOMAIN toServer
  <2>1. /\ i - Len(toServer) \in 1..Len(ms)
        /\ toServer'[i] = ms[i - Len(toServer)]
    BY <1>2
  <2> QED  BY <2>1 DEF GoodStream
<1> QED  BY <1>1, <1>2

(* The client sends on the stream that the server gave it.                 *)
LEMMA StreamIdKept ==
  ASSUME NEW n \in Nat, ClientAt(n), IInv, OnStreamId, UNCHANGED serverVars,
         Sendings \/ Receivings
  PROVE  OnStreamId'
<1>1. UNCHANGED purpose
  BY DEF Sendings, WriteC0C1, WriteC2, FastHandshake, ConnectApp,
         CreateStream, Play, Publish, FmlePublish, FmlePublishes, WritePacket,
         FmleUnpublish, SendsOnly, Sends, Receivings, DropsMessage, EndsWait,
         ReadPacket, OnAggregate, ReadPart, ReadS0S1S2, ReadFastHandshakeRes,
         SendFails, NothingArrives, Gets
<1>2. /\ cpc' = "created" => stream_id' = StreamId
      /\ (cpc' = "publishing" /\ purpose = "flash") => stream_id' = StreamId
  <2>1. CASE Sendings
    BY <2>1
    DEF Sendings, WriteC0C1, WriteC2, FastHandshake, ConnectApp, CreateStream,
        Play, Publish, FmlePublish, FmlePublishes, WritePacket, FmleUnpublish,
        SendsOnly, OnStreamId
  <2>2. CASE DropsMessage \/ ReadPacket \/ OnAggregate \/ ReadPart
                \/ ReadS0S1S2 \/ ReadFastHandshakeRes \/ SendFails
    BY <2>2
    DEF DropsMessage, ReadPacket, OnAggregate, ReadPart, ReadS0S1S2,
        ReadFastHandshakeRes, SendFails, OnStreamId
  <2>3. CASE EndsWait
    <3>1. /\ cpc \in DOMAIN Wanted /\ cpc' = After(toClient[1])
          /\ cpc = "creating" => stream_id' = StreamId
      BY <2>3, EndsWithResult
    <3>2. cpc' \in {"created", "publishing"} => cpc = "creating"
      BY <3>1 DEF Wanted, After
    <3> QED  BY <3>1, <3>2, <1>1
         DEF ClientAt, Wanted, After
  <2>4. CASE NothingArrives
    BY <2>4 DEF NothingArrives, AfterError, ClientAt
  <2> QED  BY <2>1, <2>2, <2>3, <2>4 DEF Receivings
<1>3. /\ toServer \in Seq(Message) /\ produced \in Nat
      /\ stream_id \in {0, StreamId}
      /\ \A i \in DOMAIN toServer : GoodStream(toServer[i])
  BY DEF IInv, Types, OnStreamId, GoodStream
<1>4. ASSUME NEW ms \in Seq(Message), toServer' = toServer \o ms,
             \A j \in 1..Len(ms) : GoodStream(ms[j])
      PROVE  \A i \in DOMAIN toServer' : GoodStream(toServer[i])'
  BY <1>1, <1>3, <1>4, KeepsStreams
<1>5. /\ \A k \in {"c0c1", "c2", "fastHs", "windowAck", "bufferLength",
                   "chunkSize"} :
             Plain(k) \in Message /\ GoodStream(Plain(k))
      /\ \A k \in {"connect", "createStream", "releaseStream", "FCPublish",
                   "FCUnpublish"}, t \in Nat :
             Call(k, t) \in Message /\ GoodStream(Call(k, t))
      /\ \A k \in {"play", "publish"} :
             Over(stream_id, k) \in Message /\ Over(stream_id, k).kind = k
                 /\ Over(stream_id, k).sid = stream_id
  <2>1. ASSUME NEW k \in {"c0c1", "c2", "fastHs", "windowAck",
                          "bufferLength", "chunkSize"}
        PROVE  Plain(k) \in Message /\ GoodStream(Plain(k))
    <3>1. k \in Kinds /\ k \notin {"play", "publish", "media"}
      BY DEF Kinds
    <3>2. Plain(k) \in Message /\ Plain(k).kind = k  BY <3>1, PlainMessages
    <3> QED  BY <3>1, <3>2 DEF GoodStream
  <2>2. ASSUME NEW k \in {"connect", "createStream", "releaseStream",
                          "FCPublish", "FCUnpublish"}, NEW t \in Nat
        PROVE  Call(k, t) \in Message /\ GoodStream(Call(k, t))
    <3>1. k \in Kinds /\ k \notin {"play", "publish", "media"}
      BY DEF Kinds
    <3>2. Call(k, t) \in Message /\ Call(k, t).kind = k
      BY <3>1, PlainMessages
    <3> QED  BY <3>1, <3>2 DEF GoodStream
  <2>3. ASSUME NEW k \in {"play", "publish"}
        PROVE  Over(stream_id, k) \in Message /\ Over(stream_id, k).kind = k
                   /\ Over(stream_id, k).sid = stream_id
    <3>1. k \in Kinds  BY DEF Kinds
    <3>2. Over(stream_id, k) \in Message /\ Over(stream_id, k).kind = k
      BY <1>3, <3>1, PlainMessages
    <3>3. Over(stream_id, k).sid = stream_id  BY DEF Over
    <3> QED  BY <3>2, <3>3
  <2> QED  BY <2>1, <2>2, <2>3
<1>6. \A i \in DOMAIN toServer' : GoodStream(toServer[i])'
  <2>1. CASE WriteC0C1 \/ WriteC2 \/ FastHandshake
    <3>1. PICK k \in {"c0c1", "c2", "fastHs"} :
              toServer' = toServer \o <<Plain(k)>>
      BY <2>1 DEF WriteC0C1, WriteC2, FastHandshake, SendsOnly, Sends
    <3> DEFINE ms == <<Plain(k)>>
    <3>2. ms \in Seq(Message) /\ \A j \in 1..Len(ms) : GoodStream(ms[j])
      BY <1>5 DEF GoodStream
    <3> HIDE DEF ms
    <3>3. toServer' = toServer \o ms  BY <3>1 DEF ms
    <3> QED  BY <1>4, <3>2, <3>3
  <2>2. CASE ConnectApp
    <3> DEFINE ms == <<Call("connect", 1), Plain("windowAck")>>
    <3>1. toServer' = toServer \o ms  BY <2>2 DEF ConnectApp, SendsOnly, Sends
    <3>2. ms \in Seq(Message) /\ \A j \in 1..Len(ms) : GoodStream(ms[j])
      BY <1>5 DEF GoodStream
    <3> HIDE DEF ms
    <3> QED  BY <1>4, <3>1, <3>2
  <2>3. CASE CreateStream
    <3> DEFINE ms == <<Call("createStream", 2)>>
    <3>1. toServer' = toServer \o ms  BY <2>3 DEF CreateStream, SendsOnly, Sends
    <3>2. ms \in Seq(Message) /\ \A j \in 1..Len(ms) : GoodStream(ms[j])
      BY <1>5 DEF GoodStream
    <3> HIDE DEF ms
    <3> QED  BY <1>4, <3>1, <3>2
  <2>4. CASE Play
    <3> DEFINE ms == <<Over(stream_id, "play"), Plain("bufferLength"),
                       Plain("chunkSize")>>
    <3>1. toServer' = toServer \o ms /\ stream_id = StreamId
      BY <2>4 DEF Play, SendsOnly, Sends, OnStreamId
    <3>2. ms \in Seq(Message) /\ \A j \in 1..Len(ms) : GoodStream(ms[j])
      BY <1>5, <3>1 DEF GoodStream
    <3> HIDE DEF ms
    <3> QED  BY <1>4, <3>1, <3>2
  <2>5. CASE Publish
    <3> DEFINE ms == <<Plain("chunkSize"), Over(stream_id, "publish")>>
    <3>1. toServer' = toServer \o ms /\ stream_id = StreamId
      BY <2>5 DEF Publish, SendsOnly, Sends, OnStreamId
    <3>2. ms \in Seq(Message) /\ \A j \in 1..Len(ms) : GoodStream(ms[j])
      BY <1>5, <3>1 DEF GoodStream
    <3> HIDE DEF ms
    <3> QED  BY <1>4, <3>1, <3>2
  <2>6. CASE FmlePublish
    <3> DEFINE ms == <<Call("releaseStream", 2), Call("FCPublish", 3),
                       Call("createStream", 4)>>
    <3>1. toServer' = toServer \o ms
      BY <2>6 DEF FmlePublish, Sends, CreateStreamTid
    <3>2. ms \in Seq(Message) /\ \A j \in 1..Len(ms) : GoodStream(ms[j])
      BY <1>5 DEF GoodStream
    <3> HIDE DEF ms
    <3> QED  BY <1>4, <3>1, <3>2
  <2>7. CASE FmlePublishes
    <3> DEFINE ms == <<Over(stream_id, "publish")>>
    <3>1. toServer' = toServer \o ms /\ purpose = "publish"
      BY <2>7 DEF FmlePublishes, SendsOnly, Sends, ClientAt
    <3>2. ms \in Seq(Message) /\ \A j \in 1..Len(ms) : GoodStream(ms[j])
      BY <1>5, <3>1 DEF GoodStream
    <3> HIDE DEF ms
    <3> QED  BY <1>4, <3>1, <3>2
  <2>8. CASE WritePacket
    <3> DEFINE m == Media(stream_id, produced + 1)
               ms == <<m>>
    <3>1. /\ toServer' = toServer \o ms
          /\ purpose = "publish" \/ stream_id = StreamId
      BY <2>8 DEF WritePacket, OnStreamId, ClientAt
    <3>2. m \in Message /\ m.sid = stream_id
      BY <1>3, StreamIdAssumption DEF Media, Message, Kinds
    <3> HIDE DEF m
    <3>3. ms \in Seq(Message) /\ \A j \in 1..Len(ms) : GoodStream(ms[j])
      BY <3>1, <3>2 DEF GoodStream
    <3> HIDE DEF ms
    <3> QED  BY <1>4, <3>1, <3>3
  <2>9. CASE FmleUnpublish
    <3> DEFINE ms == <<Call("FCUnpublish", 3)>>
    <3>1. toServer' = toServer \o ms  BY <2>9 DEF FmleUnpublish, Sends
    <3>2. ms \in Seq(Message) /\ \A j \in 1..Len(ms) : GoodStream(ms[j])
      BY <1>5 DEF GoodStream
    <3> HIDE DEF ms
    <3> QED  BY <1>4, <3>1, <3>2
  <2>10. CASE Receivings
    <3>1. toServer' = toServer
      BY <2>10 DEF Receivings, DropsMessage, EndsWait, ReadPacket, OnAggregate,
                   ReadPart, ReadS0S1S2, ReadFastHandshakeRes, SendFails,
                   NothingArrives, Gets, wireVars
    <3> QED  BY <1>1, <1>3, <3>1 DEF GoodStream
  <2> QED  BY <2>1, <2>2, <2>3, <2>4, <2>5, <2>6, <2>7, <2>8, <2>9, <2>10
           DEF Sendings
<1> QED  BY <1>1, <1>2, <1>6 DEF OnStreamId, GoodStream

(* The server takes messages and changes none of them.                     *)
LEMMA ServerKeepsStreams ==
  ASSUME toServer \in Seq(Message), OnStreamId, UNCHANGED clientVars,
         Takings \/ Sayings
  PROVE  OnStreamId'
<1>1. UNCHANGED <<purpose, cpc, stream_id>>  BY DEF clientVars
<1>2. toServer' = toServer \/ (toServer # << >> /\ toServer' = Tail(toServer))
  <2>1. CASE Takings
    BY <2>1
    DEF Takings, TakesC0C1, TakesC2, TakesFastHandshake, RefusesFastHandshake,
        TakesConnect, IdentifiesByCreateStream, IdentifiesPlay,
        IdentifiesFlashPublish, IdentifiesFmlePublish, TakesFCPublish,
        TakesCreateStream, TakesPublish, RefusesPublish, TakesMedia,
        TakesUnpublish, Ignores, Takes
  <2>2. CASE Sayings
    BY <2>2
    DEF Sayings, Accepts, Rejects, Redirects, RedirectTimesOut, StartPlay,
        StartFlashPublish, StartFmlePublish, ServesMedia, ServesAggregate,
        Pings, Closes, Answers
  <2> QED  BY <2>1, <2>2
<1>3. ASSUME NEW i \in DOMAIN toServer'
      PROVE  \E j \in DOMAIN toServer : toServer'[i] = toServer[j]
  <2>1. CASE toServer' = toServer  BY <2>1
  <2>2. CASE toServer # << >> /\ toServer' = Tail(toServer)
    <3>1. i + 1 \in DOMAIN toServer /\ toServer'[i] = toServer[i + 1]
      BY <2>2
    <3> QED  BY <3>1
  <2> QED  BY <1>2, <2>1, <2>2
<1>4. ASSUME NEW i \in DOMAIN toServer',
             toServer'[i].kind \in {"play", "publish", "media"},
             purpose' # "publish"
      PROVE  toServer'[i].sid = StreamId
  <2>1. PICK j \in DOMAIN toServer : toServer'[i] = toServer[j]  BY <1>3
  <2> QED  BY <1>1, <1>4, <2>1 DEF OnStreamId
<1> QED  BY <1>1, <1>4 DEF OnStreamId

-----------------------------------------------------------------------------
(* The inductive invariant: both ends are where they are in the script of  *)
(* what the client sends, and what is on its way back is true.             *)
SInv == IInv /\ InScript /\ Told /\ OnStreamId

(* Both ends are at the first line of the script at the start.             *)
LEMMA InitScript == Init => SInv
<1> SUFFICES ASSUME Init  PROVE SInv
  OBVIOUS
<1>1. IInv  BY InitInv
<1>2. /\ purpose \in {"play", "fast", "publish", "flash"}
      /\ cpc = "unshaken" /\ produced = 0 /\ spc = "shaking" /\ taken = << >>
      /\ toServer = << >> /\ toClient = << >>
  BY PurposeAssumption DEF Init, ClientInit, ServerInit, WireInit
<1>3. OnItsWay(0, 0)  BY <1>2 DEF OnItsWay
<1>4. Opening \in Nat  BY <1>2, ScriptLines
<1>5. ClientAt(0)  BY <1>2, <1>4, MediaAssumption DEF ClientAt
<1>6. ServerAt(0, 0)  BY <1>2, MediaAssumption DEF ServerAt, Unsettled
<1>7. InScript  BY <1>3, <1>5, <1>6 DEF InScript
<1>8. Told /\ OnStreamId
  BY <1>2 DEF Told, OnStreamId, PublishTellsOutcome
<1> QED  BY <1>1, <1>7, <1>8 DEF SInv

(* Every step keeps both ends in the script.                               *)
LEMMA NextScript ==
  ASSUME SInv, [Next]_vars
  PROVE  SInv'
<1>1. IInv'  BY NextInv DEF SInv
<1>2. PICK k, n \in Nat : OnItsWay(k, n) /\ ClientAt(n) /\ ServerAt(k, n)
  BY DEF SInv, InScript
<1>3. /\ toServer \in Seq(Message) /\ toClient \in Seq(Message)
      /\ produced \in Nat /\ served \in Nat /\ stream_id \in {0, StreamId}
      /\ IInv /\ Told /\ OnStreamId
  BY DEF SInv, IInv, Types
<1>4. CASE Client
  <2>1. /\ UNCHANGED <<serverVars, slow>> /\ UNCHANGED serverVars
        /\ Sendings \/ Receivings
        /\ NothingArrives => slow \/ ServerWaits
    <3>1. /\ UNCHANGED <<serverVars, slow>>
          /\ ClientStep \/ GivesUp
      BY <1>4 DEF Client
    <3>2. CASE GivesUp  BY <3>1, <3>2 DEF GivesUp, Receivings
    <3>3. CASE ClientStep
      <4>1. Sendings \/ Receivings
        BY <3>3 DEF ClientStep, Sendings, Receivings
      <4>2. NothingArrives => FALSE
        <5> SUFFICES ASSUME NothingArrives  PROVE FALSE
          OBVIOUS
        <5>1. /\ toClient = << >>
              /\ cpc \in {"connecting", "creating", "releasing", "confirming",
                          "shaking", "fast"}
          <6>1. DOMAIN Wanted =
                    {"connecting", "creating", "releasing", "confirming"}
            BY DEF Wanted
          <6> QED  BY <6>1 DEF NothingArrives, Waits, Expects
        <5> QED
          BY <3>3, <5>1
          DEF ClientStep, WriteC0C1, WriteC2, FastHandshake, ConnectApp,
              CreateStream, Play, Publish, FmlePublish, FmlePublishes,
              WritePacket, FmleUnpublish, SendFails, DropsMessage, EndsWait,
              ReadPacket, OnAggregate, ReadPart, ReadS0S1S2,
              ReadFastHandshakeRes, Gets
      <4> QED  BY <3>1, <4>1, <4>2
    <3> QED  BY <3>1, <3>2, <3>3
  <2>2. InScript'
    BY <1>2, <1>3, <2>1, SendsInScript, ReceivesInScript
  <2>3. Told'  BY <1>2, <1>3, <2>1, ClientTells
  <2>4. OnStreamId'  BY <1>2, <1>3, <2>1, StreamIdKept
  <2> QED  BY <1>1, <2>2, <2>3, <2>4 DEF SInv
<1>5. CASE Server \/ Unbidden
  <2>1. /\ UNCHANGED <<clientVars, slow>> /\ UNCHANGED clientVars
        /\ Takings \/ Sayings
    BY <1>5 DEF Server, ServerStep, Unbidden, Takings, Sayings
  <2>2. InScript'  BY <1>2, <1>3, <2>1, TakesInScript, SayingsInScript
  <2>3. Told'  BY <1>2, <1>3, <2>1, ServerTells
  <2>4. OnStreamId'  BY <1>3, <2>1, ServerKeepsStreams
  <2> QED  BY <1>1, <2>2, <2>3, <2>4 DEF SInv
<1>6. CASE UNCHANGED vars
  <2>1. /\ UNCHANGED <<purpose, cpc, produced, stream_id, toServer, toClient>>
        /\ UNCHANGED <<spc, role, taken, slow, closed>>
    BY <1>6 DEF vars, clientVars, serverVars, wireVars
  <2>2. OnItsWay(k, n)' /\ ClientAt(n)' /\ ServerAt(k, n)'
    BY <1>2, <2>1, SameScript DEF OnItsWay, ClientAt, ServerAt
  <2>3. InScript'  BY <2>2 DEF InScript
  <2>4. Told'  BY <1>3, <2>1 DEF Told, ToldOf, PublishTellsOutcome
  <2>5. OnStreamId'  BY <1>3, <2>1 DEF OnStreamId
  <2> QED  BY <1>1, <2>3, <2>4, <2>5 DEF SInv
<1> QED  BY <1>4, <1>5, <1>6 DEF Next

(* The server starts what the client came for, over the stream it gave,    *)
(* and a publish call tells how the server took it: for every set of       *)
(* purposes, every stream id and any amount of media and pings.            *)
THEOREM SessionsStartAsAsked == Spec => []StartsAsAsked
<1>1. Init => SInv  BY InitScript
<1>2. SInv /\ [Next]_vars => SInv'  BY NextScript
<1>3. SInv => StartsAsAsked
  <2> SUFFICES ASSUME SInv  PROVE StartsAsAsked
    OBVIOUS
  <2>1. PICK k, n \in Nat : OnItsWay(k, n) /\ ClientAt(n) /\ ServerAt(k, n)
    BY DEF SInv, InScript
  <2>2. /\ spc = "playing" => purpose \in {"play", "fast"}
        /\ spc = "publishing" => purpose \in {"publish", "flash"}
    BY <2>1 DEF ServerAt
  <2>3. ServesItsPurpose
    BY <2>2 DEF ServesItsPurpose, ToSet, SInv, OnStreamId
  <2> QED  BY <2>3 DEF StartsAsAsked, SInv, Told
<1> QED  BY <1>1, <1>2, <1>3, PTL DEF Spec

-----------------------------------------------------------------------------

Weight(m) ==
    IF m.kind = "media" THEN 1 ELSE IF m.kind = "aggregate" THEN 2 ELSE 0

(* The media among the messages q is that from piece n + 1 to the last     *)
(* one, in order: c[i] pieces have come before the i-th message.           *)
Counts(c, n, q, last) ==
    /\ c \in [1..Len(q) + 1 -> Nat]
    /\ c[1] = n /\ c[Len(q) + 1] = last
    /\ \A i, j \in 1..Len(q) + 1 : i <= j => c[i] <= c[j]
    /\ \A i \in 1..Len(q) :
           /\ c[i + 1] = c[i] + Weight(q[i])
           /\ q[i].kind \in MediaKinds => q[i].data = c[i] + 1

Following(n, q, last) == \E c : Counts(c, n, q, last)

-----------------------------------------------------------------------------
(* The first of the messages is received.                                  *)
LEMMA FollowingTail ==
  ASSUME NEW q \in Seq(Message), q # << >>, NEW n \in Nat, NEW last \in Nat,
         Following(n, q, last)
  PROVE  /\ Following(n + Weight(Head(q)), Tail(q), last)
         /\ n + Weight(Head(q)) <= last
         /\ Head(q).kind \in MediaKinds => Head(q).data = n + 1
<1>1. PICK c : Counts(c, n, q, last)  BY DEF Following
<1>2. /\ Head(q) = q[1] /\ Len(q) \in Nat /\ Len(q) >= 1 /\ 1 \in 1..Len(q)
      /\ Tail(q) \in Seq(Message) /\ Len(Tail(q)) = Len(q) - 1
      /\ \A i \in 1..Len(q) - 1 : Tail(q)[i] = q[i + 1]
  OBVIOUS
<1> DEFINE p == Tail(q)
           d == [i \in 1..Len(p) + 1 |-> c[i + 1]]
<1>3. /\ c \in [1..Len(q) + 1 -> Nat] /\ c[1] = n
      /\ c[2] = n + Weight(q[1])
      /\ q[1].kind \in MediaKinds => q[1].data = n + 1
  BY <1>1, <1>2 DEF Counts
<1>4. c[2] <= last
  BY <1>1, <1>2 DEF Counts
<1>5. Counts(d, n + Weight(q[1]), p, last)
  <2>1. d \in [1..Len(p) + 1 -> Nat]  BY <1>2, <1>3
  <2>2. d[1] = c[2] /\ d[Len(p) + 1] = last
    BY <1>1, <1>2 DEF Counts
  <2>3. ASSUME NEW i \in 1..Len(p) + 1, NEW j \in 1..Len(p) + 1, i <= j
        PROVE  d[i] <= d[j]
    <3>1. i + 1 \in 1..Len(q) + 1 /\ j + 1 \in 1..Len(q) + 1 /\ i + 1 <= j + 1
      BY <1>2, <2>3
    <3> QED  BY <1>1, <3>1 DEF Counts
  <2>4. ASSUME NEW i \in 1..Len(p)
        PROVE  /\ d[i + 1] = d[i] + Weight(p[i])
               /\ p[i].kind \in MediaKinds => p[i].data = d[i] + 1
    <3>1. PICK j \in 1..Len(q) : j = i + 1  BY <1>2
    <3>2. p[i] = q[j]  BY <1>2, <3>1
    <3>3. d[i] = c[j] /\ d[i + 1] = c[j + 1]  BY <1>2, <3>1
    <3> HIDE DEF p, d
    <3> QED  BY <1>1, <3>2, <3>3 DEF Counts
  <2> HIDE DEF d
  <2> QED  BY <1>3, <2>1, <2>2, <2>3, <2>4 DEF Counts
<1> HIDE DEF p, d
<1>6. Following(n + Weight(q[1]), p, last)  BY <1>5 DEF Following
<1> QED  BY <1>2, <1>3, <1>4, <1>6 DEF p

(* Messages that are no media are added.                                   *)
LEMMA FollowingQuiet ==
  ASSUME NEW q \in Seq(Message), NEW p \in Seq(Message), NEW n \in Nat,
         NEW last \in Nat, Following(n, q, last), Len(q) <= Len(p),
         \A i \in 1..Len(q) : p[i] = q[i],
         \A i \in 1..Len(p) : i > Len(q) => p[i].kind \notin MediaKinds
  PROVE  Following(n, p, last)
<1>1. PICK c : Counts(c, n, q, last)  BY DEF Following
<1> DEFINE d == [i \in 1..Len(p) + 1 |-> IF i <= Len(q) + 1 THEN c[i] ELSE last]
<1>2. Len(q) \in Nat /\ Len(p) \in Nat  OBVIOUS
<1>3. /\ c \in [1..Len(q) + 1 -> Nat] /\ c[1] = n /\ c[Len(q) + 1] = last
      /\ \A i, j \in 1..Len(q) + 1 : i <= j => c[i] <= c[j]
  BY <1>1 DEF Counts
<1>4. d \in [1..Len(p) + 1 -> Nat]  BY <1>2, <1>3
<1>5. d[1] = n /\ d[Len(p) + 1] = last  BY <1>2, <1>3
<1>6. ASSUME NEW i \in 1..Len(p) + 1, NEW j \in 1..Len(p) + 1, i <= j
      PROVE  d[i] <= d[j]
  <2>1. CASE j <= Len(q) + 1  BY <1>2, <1>3, <1>6, <2>1
  <2>2. CASE j > Len(q) + 1 /\ i <= Len(q) + 1
    <3>1. c[i] <= c[Len(q) + 1]  BY <1>2, <1>3, <2>2
    <3> QED  BY <1>3, <2>2, <3>1
  <2>3. CASE i > Len(q) + 1  BY <1>2, <1>6, <2>3
  <2> QED  BY <1>2, <2>1, <2>2, <2>3
<1>7. ASSUME NEW i \in 1..Len(p)
      PROVE  /\ d[i + 1] = d[i] + Weight(p[i])
             /\ p[i].kind \in MediaKinds => p[i].data = d[i] + 1
  <2>1. CASE i \in 1..Len(q)
    <3>1. p[i] = q[i] /\ d[i] = c[i] /\ d[i + 1] = c[i + 1]  BY <1>2, <2>1
    <3> HIDE DEF d
    <3> QED  BY <1>1, <2>1, <3>1 DEF Counts
  <2>2. CASE i > Len(q)
    <3>1. p[i].kind \notin MediaKinds  BY <2>2
    <3>2. Weight(p[i]) = 0  BY <3>1 DEF Weight, MediaKinds
    <3>3. d[i] = last /\ d[i + 1] = last
      <4>1. CASE i = Len(q) + 1  BY <1>2, <1>3, <4>1
      <4>2. CASE i > Len(q) + 1  BY <1>2, <4>2
      <4> QED  BY <1>2, <2>2, <4>1, <4>2
    <3> HIDE DEF d
    <3> QED  BY <3>1, <3>2, <3>3 DEF MediaKinds
  <2> QED  BY <1>2, <2>1, <2>2
<1> HIDE DEF d
<1>8. Counts(d, n, p, last)  BY <1>4, <1>5, <1>6, <1>7 DEF Counts
<1> QED  BY <1>8 DEF Following

(* The next piece is added, or an aggregate with the next two.             *)
LEMMA FollowingMedia ==
  ASSUME NEW q \in Seq(Message), NEW m \in Message, NEW n \in Nat,
         NEW last \in Nat, Following(n, q, last),
         m.kind \in MediaKinds, m.data = last + 1
  PROVE  Following(n, Append(q, m), last + Weight(m))
<1>1. PICK c : Counts(c, n, q, last)  BY DEF Following
<1> DEFINE p == Append(q, m)
           d == [i \in 1..Len(p) + 1 |->
                    IF i <= Len(q) + 1 THEN c[i] ELSE last + Weight(m)]
<1>2. /\ Len(q) \in Nat /\ Len(p) = Len(q) + 1 /\ p[Len(q) + 1] = m
      /\ \A i \in 1..Len(q) : p[i] = q[i]
  OBVIOUS
<1>3. /\ c \in [1..Len(q) + 1 -> Nat] /\ c[1] = n /\ c[Len(q) + 1] = last
      /\ \A i, j \in 1..Len(q) + 1 : i <= j => c[i] <= c[j]
  BY <1>1 DEF Counts
<1>0. Weight(m) \in {1, 2}  BY DEF Weight, MediaKinds
<1> HIDE DEF p
<1>4. d \in [1..Len(p) + 1 -> Nat]  BY <1>2, <1>3, <1>0
<1>5. d[1] = n /\ d[Len(p) + 1] = last + Weight(m)  BY <1>2, <1>3
<1>6. ASSUME NEW i \in 1..Len(p) + 1, NEW j \in 1..Len(p) + 1, i <= j
      PROVE  d[i] <= d[j]
  <2>1. CASE j <= Len(q) + 1  BY <1>2, <1>3, <1>6, <2>1
  <2>2. CASE j > Len(q) + 1 /\ i <= Len(q) + 1
    <3>1. c[i] <= c[Len(q) + 1] /\ c[i] \in Nat  BY <1>2, <1>3, <2>2
    <3>2. d[i] = c[i] /\ d[j] = last + Weight(m)  BY <1>2, <2>2
    <3> HIDE DEF d
    <3> QED  BY <1>3, <1>0, <3>1, <3>2
  <2>3. CASE i > Len(q) + 1
    <3>1. d[i] = last + Weight(m) /\ d[j] = last + Weight(m)
      BY <1>2, <1>6, <2>3
    <3> HIDE DEF d
    <3> QED  BY <1>0, <3>1
  <2> QED  BY <1>2, <2>1, <2>2, <2>3
<1>7. ASSUME NEW i \in 1..Len(p)
      PROVE  /\ d[i + 1] = d[i] + Weight(p[i])
             /\ p[i].kind \in MediaKinds => p[i].data = d[i] + 1
  <2>1. CASE i \in 1..Len(q)
    <3>1. p[i] = q[i] /\ d[i] = c[i] /\ d[i + 1] = c[i + 1]  BY <1>2, <2>1
    <3> HIDE DEF d
    <3> QED  BY <1>1, <2>1, <3>1 DEF Counts
  <2>2. CASE i = Len(q) + 1
    <3>1. p[i] = m /\ d[i] = last /\ d[i + 1] = last + Weight(m)
      BY <1>2, <1>3, <2>2
    <3> HIDE DEF d
    <3> QED  BY <3>1
  <2> QED  BY <1>2, <2>1, <2>2
<1> HIDE DEF d
<1>8. Counts(d, n, p, last + Weight(m))
  BY <1>4, <1>5, <1>6, <1>7 DEF Counts
<1> QED  BY <1>8 DEF Following, p

(* What is on its way is cut off somewhere.                                *)
LEMMA FollowingCut ==
  ASSUME NEW q \in Seq(Message), NEW n \in Nat, NEW last \in Nat,
         Following(n, q, last), NEW l \in 0..Len(q)
  PROVE  \E cut \in Nat : cut <= last /\ Following(n, SubSeq(q, 1, l), cut)
<1>1. PICK c : Counts(c, n, q, last)  BY DEF Following
<1> DEFINE p == SubSeq(q, 1, l)
           d == [i \in 1..l + 1 |-> c[i]]
<1>2. /\ Len(q) \in Nat /\ l \in Nat /\ l <= Len(q) /\ Len(p) = l
      /\ \A i \in 1..l : p[i] = q[i]
  OBVIOUS
<1>3. /\ c \in [1..Len(q) + 1 -> Nat] /\ c[1] = n /\ c[Len(q) + 1] = last
      /\ \A i, j \in 1..Len(q) + 1 : i <= j => c[i] <= c[j]
  BY <1>1 DEF Counts
<1>4. c[l + 1] \in Nat /\ c[l + 1] <= last  BY <1>2, <1>3
<1> HIDE DEF p
<1>5. /\ d \in [1..Len(p) + 1 -> Nat] /\ d[1] = n /\ d[Len(p) + 1] = c[l + 1]
      /\ \A i, j \in 1..Len(p) + 1 : i <= j => d[i] <= d[j]
  BY <1>2, <1>3
<1>6. ASSUME NEW i \in 1..Len(p)
      PROVE  /\ d[i + 1] = d[i] + Weight(p[i])
             /\ p[i].kind \in MediaKinds => p[i].data = d[i] + 1
  <2>1. p[i] = q[i] /\ d[i] = c[i] /\ d[i + 1] = c[i + 1] /\ i \in 1..Len(q)
    BY <1>2
  <2> HIDE DEF d
  <2> QED  BY <1>1, <2>1 DEF Counts
<1> HIDE DEF d
<1>7. Counts(d, n, p, c[l + 1])  BY <1>5, <1>6 DEF Counts
<1>8. Following(n, p, c[l + 1])  BY <1>7 DEF Following
<1> QED  BY <1>4, <1>8 DEF p

-----------------------------------------------------------------------------
(* Of media on its way it is known which of the pieces will lose its time: *)
(* the second of an aggregate whose clock is ahead.                        *)
Timed(m) ==
    m.kind \in MediaKinds =>
        /\ m.data + Weight(m) <= served + 1
        /\ m.data \notin ahead
        /\ m.kind = "aggregate" => (m.data + 1 \in ahead <=> m.base > m.data)

Clocked ==
    /\ ahead \subseteq 1..served
    /\ \A i \in 1..Len(toClient) : Timed(toClient[i])

(* Messages are received or lost, or others than media are added.          *)
LEMMA StaysClocked ==
  ASSUME Clocked, UNCHANGED <<served, ahead>>,
         \A i \in 1..Len(toClient') :
             \/ toClient'[i].kind \notin MediaKinds
             \/ \E j \in 1..Len(toClient) : toClient'[i] = toClient[j]
  PROVE  Clocked'
<1>1. ASSUME NEW i \in 1..Len(toClient')  PROVE Timed(toClient[i])'
  <2>1. CASE toClient'[i].kind \notin MediaKinds  BY <2>1 DEF Timed
  <2>2. CASE \E j \in 1..Len(toClient) : toClient'[i] = toClient[j]
    <3>1. PICK j \in 1..Len(toClient) : toClient'[i] = toClient[j]  BY <2>2
    <3>2. Timed(toClient[j])  BY DEF Clocked
    <3> QED  BY <3>1, <3>2 DEF Timed, Weight
  <2> QED  BY <2>1, <2>2
<1> QED  BY <1>1 DEF Clocked

(* What the client does.                                                   *)
LEMMA ClientClocked ==
  ASSUME IInv, Clocked, Client
  PROVE  Clocked'
<1>1. UNCHANGED <<served, ahead>>  BY DEF Client, serverVars
<1>2. toClient' = toClient \/ (toClient # << >> /\ toClient' = Tail(toClient))
  <2>1. CASE Sendings \/ SendFails \/ NothingArrives \/ ReadPart
    BY <2>1
    DEF Sendings, WriteC0C1, WriteC2, FastHandshake, ConnectApp, CreateStream,
        Play, Publish, FmlePublish, FmlePublishes, WritePacket, FmleUnpublish,
        SendsOnly, Sends, SendFails, NothingArrives, ReadPart, wireVars
  <2>2. CASE \/ ReadPacket \/ OnAggregate \/ DropsMessage \/ EndsWait
             \/ ReadS0S1S2 \/ ReadFastHandshakeRes
    BY <2>2 DEF ReadPacket, OnAggregate, DropsMessage, EndsWait, ReadS0S1S2,
                ReadFastHandshakeRes, Gets
  <2> QED  BY <2>1, <2>2 DEF Client, ClientStep, GivesUp, Sendings
<1>3. toClient \in Seq(Message)  BY DEF IInv, Types
<1>4. ASSUME NEW i \in 1..Len(toClient')
      PROVE  \E j \in 1..Len(toClient) : toClient'[i] = toClient[j]
  <2>1. CASE toClient' = toClient  BY <2>1
  <2>2. CASE toClient # << >> /\ toClient' = Tail(toClient)
    <3>1. i + 1 \in 1..Len(toClient) /\ toClient'[i] = toClient[i + 1]
      BY <1>3, <2>2
    <3> QED  BY <3>1
  <2> QED  BY <1>2, <2>1, <2>2
<1> QED  BY <1>1, <1>4, StaysClocked

(* Beside media the server adds no media and counts none.                  *)
LEMMA AddsQuietly ==
  ASSUME toClient \in Seq(Message), toServer \in Seq(Message),
         Takings \/ Sayings, ~(ServesMedia \/ ServesAggregate), ~Closes
  PROVE  UNCHANGED <<served, closed>> /\ Adds(Kinds \ MediaKinds)
<1>1. UNCHANGED <<served, closed>>
  <2>1. CASE Takings
    BY <2>1
    DEF Takings, TakesC0C1, TakesC2, TakesFastHandshake, RefusesFastHandshake,
        TakesConnect, IdentifiesByCreateStream, IdentifiesPlay,
        IdentifiesFlashPublish, IdentifiesFmlePublish, TakesFCPublish,
        TakesCreateStream, TakesPublish, RefusesPublish, TakesMedia,
        TakesUnpublish, Ignores, Takes
  <2>2. CASE Sayings
    BY <2>2
    DEF Sayings, Accepts, Rejects, Redirects, RedirectTimesOut, StartPlay,
        StartFlashPublish, StartFmlePublish, Pings, Answers
  <2> QED  BY <2>1, <2>2
<1>2. Adds(Kinds \ MediaKinds)
  <2>1. ASSUME NEW S, Adds(S), S \subseteq Kinds \ MediaKinds
        PROVE  Adds(Kinds \ MediaKinds)
    BY <2>1 DEF Adds
  <2>2. /\ Quiet \subseteq Kinds \ MediaKinds
        /\ Telling \ MediaKinds \subseteq Kinds \ MediaKinds
        /\ {"connectRes", "rejected", "publishRefused", "playReset",
            "playStart", "unpublishSuccess"} \subseteq Kinds \ MediaKinds
    BY DEF Quiet, Telling, MediaKinds, Kinds
  <2>3. CASE Accepts
    <3>1. Quiet \cup {"connectRes"} \subseteq Kinds \ MediaKinds  BY <2>2
    <3> QED  BY <2>1, <2>3, <3>1, AcceptsAdds
  <2>4. CASE Rejects \/ Redirects
    <3>1. {"rejected"} \subseteq Kinds \ MediaKinds  BY <2>2
    <3> QED  BY <2>1, <2>4, <3>1, RefusalsAdd
  <2>5. CASE RefusesPublish
    <3>1. {"publishRefused"} \subseteq Kinds \ MediaKinds  BY <2>2
    <3> QED  BY <2>1, <2>5, <3>1, RefusalsAdd
  <2>6. CASE StartPlay
    <3>1. Quiet \cup {"playReset", "playStart"} \subseteq Kinds \ MediaKinds
      BY <2>2
    <3> QED  BY <2>1, <2>6, <3>1, PlayAdds
  <2>7. CASE TakesUnpublish
    <3>1. Quiet \cup {"unpublishSuccess"} \subseteq Kinds \ MediaKinds
      BY <2>2
    <3> QED  BY <2>1, <2>7, <3>1, UnpublishAdds
  <2>8. CASE \/ TakesC0C1 \/ TakesC2 \/ TakesFastHandshake
             \/ RefusesFastHandshake \/ TakesConnect
             \/ IdentifiesByCreateStream \/ IdentifiesPlay
             \/ IdentifiesFlashPublish \/ IdentifiesFmlePublish
             \/ TakesFCPublish \/ TakesCreateStream \/ TakesPublish
             \/ TakesMedia \/ Ignores \/ RedirectTimesOut
             \/ StartFlashPublish \/ StartFmlePublish \/ Pings
    BY <2>1, <2>2, <2>8, OthersAdd
  <2> QED  BY <2>3, <2>4, <2>5, <2>6, <2>7, <2>8 DEF Takings, Sayings
<1> QED  BY <1>1, <1>2

(* It serves media of its own accord only.                                 *)
LEMMA AnswersServeNothing ==
  ASSUME IInv, Server
  PROVE  ~(ServesMedia \/ ServesAggregate)
<1>1. served \in Nat  BY DEF IInv, Types
<1>2. served' = served
  BY DEF Server, ServerStep, TakesC0C1, TakesC2, TakesFastHandshake,
         RefusesFastHandshake, TakesConnect, IdentifiesByCreateStream,
         IdentifiesPlay, IdentifiesFlashPublish, IdentifiesFmlePublish,
         TakesFCPublish, TakesCreateStream, TakesPublish, RefusesPublish,
         TakesMedia, TakesUnpublish, Ignores, Takes, Accepts, Rejects,
         Redirects, RedirectTimesOut, StartPlay, StartFlashPublish,
         StartFmlePublish, Answers
<1> QED  BY <1>1, <1>2 DEF ServesMedia, ServesAggregate

(* What the server serves is beyond all that is on its way.                *)
LEMMA ServesClocked ==
  ASSUME IInv, Clocked, ServesMedia \/ ServesAggregate, Unbidden
  PROVE  /\ Clocked' /\ \A i \in 1..served : TimeOf(i)' = TimeOf(i)
<1>1. toClient \in Seq(Message) /\ served \in Nat  BY DEF IInv, Types
<1>2. PICK m \in Message :
          /\ m.kind \in MediaKinds /\ m.data = served + 1
          /\ toClient' = Append(toClient, m) /\ served' = served + Weight(m)
          /\ IF m.kind = "aggregate" THEN ahead' = ahead \cup SecondIfAhead(m)
                                     ELSE ahead' = ahead
  <2>1. CASE ServesMedia
    <3> DEFINE m == Media(StreamId, served + 1)
    <3>1. m \in Message /\ m.kind = "media" /\ m.data = served + 1
      BY <1>1, StreamIdAssumption DEF Media, Message, Kinds
    <3>2. Weight(m) = 1 /\ m.kind \in MediaKinds
      BY <3>1 DEF Weight, MediaKinds
    <3>3. toClient' = Append(toClient, m) /\ served' = served + 1
      BY <2>1 DEF ServesMedia
    <3>4. ahead' = ahead
      <4>1. ~ServesAggregate
        BY <1>1, <2>1 DEF ServesMedia, ServesAggregate
      <4> QED  BY <4>1 DEF Unbidden
    <3> HIDE DEF m
    <3> QED  BY <3>1, <3>2, <3>3, <3>4
  <2>2. CASE ServesAggregate
    <3>1. PICK b \in 0..served + 1 + MaxAhead :
              toClient' = Append(toClient, Aggregate(StreamId, served + 1, b))
      BY <2>2 DEF ServesAggregate
    <3> DEFINE m == Aggregate(StreamId, served + 1, b)
    <3>2. m \in Message /\ m.kind = "aggregate" /\ m.data = served + 1
      BY <1>1, <3>1, StreamIdAssumption, ServedAssumption
      DEF Aggregate, Message, Kinds
    <3>3. Weight(m) = 2 /\ m.kind \in MediaKinds
      BY <3>2 DEF Weight, MediaKinds
    <3>4. toClient' = Append(toClient, m) /\ served' = served + 2
      BY <2>2, <3>1 DEF ServesAggregate
    <3>5. ahead' = ahead \cup SecondIfAhead(m)
      <4>1. Last(toClient') = m
        <5>1. \A x \in Message : Last(Append(toClient, x)) = x
          BY <1>1 DEF Last
        <5> HIDE DEF m
        <5> QED  BY <3>2, <3>4, <5>1
      <4>2. ~(ServesMedia \/ Pings \/ Closes)
        <5>1. ~ServesMedia  BY <1>1, <3>4 DEF ServesMedia
        <5>2. ~Pings  BY <1>1, <3>4 DEF Pings
        <5>3. ~Closes  BY <1>1, <3>4 DEF Closes, serverVars
        <5> QED  BY <5>1, <5>2, <5>3
      <4> HIDE DEF m
      <4> QED  BY <4>1, <4>2 DEF Unbidden
    <3> HIDE DEF m
    <3> QED  BY <3>2, <3>3, <3>4, <3>5
  <2> QED  BY <2>1, <2>2
<1>3. m.data \in Nat /\ m.base \in Nat  BY DEF Message
<1>4. Weight(m) = IF m.kind = "aggregate" THEN 2 ELSE 1
  BY <1>2 DEF Weight, MediaKinds
<1>5. ahead \subseteq 1..served  BY DEF Clocked
<1>6. \A x : x \in ahead' <=>
             \/ x \in ahead
             \/ m.kind = "aggregate" /\ m.base > m.data /\ x = m.data + 1
  BY <1>2 DEF SecondIfAhead
<1>7. ahead' \subseteq 1..served'
  <2> SUFFICES ASSUME NEW x \in ahead'  PROVE x \in 1..served'
    OBVIOUS
  <2>1. CASE x \in ahead
    <3>1. x \in 1..served  BY <1>5, <2>1
    <3> QED  BY <1>1, <1>2, <1>4, <3>1
  <2>2. CASE m.kind = "aggregate" /\ m.base > m.data /\ x = m.data + 1
    BY <1>1, <1>2, <1>4, <2>2
  <2> QED  BY <1>6, <2>1, <2>2
<1>8. \A x \in 1..(served + 1) : x \in ahead' <=> x \in ahead
  BY <1>1, <1>2, <1>6
<1>9. ASSUME NEW i \in 1..Len(toClient')  PROVE Timed(toClient[i])'
  <2>1. CASE i \in 1..Len(toClient)
    <3>1. toClient'[i] = toClient[i]  BY <1>1, <1>2, <2>1
    <3> DEFINE q == toClient[i]
    <3>2. q \in Message /\ Timed(q)  BY <1>1, <2>1 DEF Clocked
    <3>3. q.data \in Nat  BY <3>2 DEF Message
    <3> HIDE DEF q
    <3>4. CASE q.kind = "aggregate"
      <4>1. /\ Weight(q) = 2 /\ q.data + 2 <= served + 1 /\ q.data \notin ahead
            /\ q.data + 1 \in ahead <=> q.base > q.data
        BY <3>2, <3>4 DEF Timed, Weight, MediaKinds
      <4>2. /\ q.data \notin ahead'
            /\ q.data + 1 \in ahead' <=> q.data + 1 \in ahead
        BY <1>1, <1>2, <1>6, <3>3, <4>1
      <4>3. q.data + 2 <= served' + 1  BY <1>1, <1>2, <1>4, <3>3, <4>1
      <4>4. Timed(toClient[i])' <=>
               /\ q.data + 2 <= served' + 1 /\ q.data \notin ahead'
               /\ q.data + 1 \in ahead' <=> q.base > q.data
        BY <3>1, <3>4, <4>1 DEF Timed, q, MediaKinds, Weight
      <4> QED  BY <4>1, <4>2, <4>3, <4>4
    <3>5. CASE q.kind = "media"
      <4>1. Weight(q) = 1 /\ q.data + 1 <= served + 1 /\ q.data \notin ahead
        BY <3>2, <3>5 DEF Timed, Weight, MediaKinds
      <4>2. q.data \notin ahead'
        BY <1>1, <1>2, <1>6, <3>3, <4>1
      <4>3. q.data + 1 <= served' + 1  BY <1>1, <1>2, <1>4, <3>3, <4>1
      <4> QED
        BY <3>1, <3>5, <4>1, <4>2, <4>3 DEF Timed, q, MediaKinds, Weight
    <3>6. CASE q.kind \notin MediaKinds
      BY <3>1, <3>6 DEF Timed, q
    <3> QED  BY <3>4, <3>5, <3>6 DEF MediaKinds
  <2>2. CASE i = Len(toClient) + 1
    <3>1. toClient'[i] = m  BY <1>1, <1>2, <2>2
    <3>2. m.data + Weight(m) <= served' + 1  BY <1>1, <1>2, <1>4
    <3>3. m.data \notin ahead'
      BY <1>1, <1>2, <1>3, <1>5, <1>6
    <3>4. m.kind = "aggregate" => (m.data + 1 \in ahead' <=> m.base > m.data)
      BY <1>1, <1>2, <1>3, <1>5, <1>6
    <3> QED  BY <3>1, <3>2, <3>3, <3>4 DEF Timed, Weight
  <2> QED  BY <1>1, <1>2, <2>1, <2>2
<1>10. \A i \in 1..served : TimeOf(i)' = TimeOf(i)
  <2> SUFFICES ASSUME NEW i \in 1..served  PROVE TimeOf(i)' = TimeOf(i)
    OBVIOUS
  <2>1. i \in ahead' <=> i \in ahead  BY <1>1, <1>8
  <2> QED  BY <2>1 DEF TimeOf
<1> QED  BY <1>7, <1>9, <1>10 DEF Clocked

(* Every step.                                                             *)
LEMMA NextClocked ==
  ASSUME IInv, Clocked, [Next]_vars
  PROVE  Clocked'
<1>0. toClient \in Seq(Message) /\ toServer \in Seq(Message)
  BY DEF IInv, Types
<1>1. CASE Client  BY <1>1, ClientClocked
<1>2. CASE Unbidden /\ (ServesMedia \/ ServesAggregate)
  BY <1>2, ServesClocked
<1>3. CASE (Server \/ Unbidden) /\ ~(ServesMedia \/ ServesAggregate) /\ ~Closes
  <2>1. Takings \/ Sayings
    BY <1>3 DEF Server, ServerStep, Unbidden, Takings, Sayings
  <2>2. UNCHANGED <<served, closed>> /\ Adds(Kinds \ MediaKinds)
    BY <1>0, <1>3, <2>1, AddsQuietly
  <2>3. UNCHANGED ahead  BY <1>3 DEF Server, Unbidden
  <2>4. ASSUME NEW i \in 1..Len(toClient')
        PROVE  \/ toClient'[i].kind \notin MediaKinds
               \/ \E j \in 1..Len(toClient) : toClient'[i] = toClient[j]
    BY <1>0, <2>2 DEF Adds
  <2> QED  BY <2>2, <2>3, <2>4, StaysClocked
<1>4. CASE (Server \/ Unbidden) /\ ~(ServesMedia \/ ServesAggregate) /\ Closes
  <2>1. UNCHANGED <<served, ahead>>
    BY <1>4 DEF Server, Unbidden, Closes, serverVars
  <2>2. PICK l \in 0..Len(toClient) : toClient' = SubSeq(toClient, 1, l)
    BY <1>4 DEF Closes
  <2>3. ASSUME NEW i \in 1..Len(toClient')
        PROVE  \E j \in 1..Len(toClient) : toClient'[i] = toClient[j]
    <3>1. i \in 1..Len(toClient) /\ toClient'[i] = toClient[i]
      BY <1>0, <2>2
    <3> QED  BY <3>1
  <2> QED  BY <2>1, <2>3, StaysClocked
<1>5. CASE UNCHANGED vars
  <2>1. UNCHANGED <<served, ahead, toClient>>
    BY <1>5 DEF vars, serverVars, wireVars
  <2> QED  BY <2>1, StaysClocked
<1>6. Server => ~(ServesMedia \/ ServesAggregate)  BY AnswersServeNothing
<1> QED  BY <1>1, <1>2, <1>3, <1>4, <1>5, <1>6 DEF Next

-----------------------------------------------------------------------------
(* What was returned, what is left of an aggregate and what is on its way  *)
(* are the pieces that were sent, up to where the connection was cut off.  *)
Pieces == [piece : Nat, time : Nat]
Reached == Len(played) + Len(msgs)

Counted ==
    /\ dropped = 0
    /\ played \in Seq(Pieces) /\ msgs \in Seq(Pieces)
    /\ \A i \in 1..Len(played) : played[i] = Piece(i, TimeOf(i))
    /\ \A i \in 1..Len(msgs) :
           msgs[i] = Piece(Len(played) + i, TimeOf(Len(played) + i))
    /\ msgs # << >> => cpc = "playing"
    /\ Reached <= served
    /\ cpc # "failed" =>
           \E last \in 0..served :
               /\ ~closed => last = served
               /\ Following(Reached, toClient, last)

(* The client looks at the first message on its way, if it has not failed. *)
LEMMA FirstOnItsWay ==
  ASSUME IInv, Counted, cpc # "failed", toClient # << >>,
         UNCHANGED <<served, closed>>
  PROVE  /\ Head(toClient) \in Message
         /\ Reached + Weight(Head(toClient)) <= served
         /\ \E last \in 0..served' :
                /\ ~closed' => last = served'
                /\ Following(Reached + Weight(Head(toClient)), Tail(toClient),
                             last)
         /\ Head(toClient).kind \in MediaKinds =>
                Head(toClient).data = Reached + 1
<1>1. PICK last \in 0..served :
          /\ ~closed => last = served
          /\ Following(Reached, toClient, last)
  BY DEF Counted
<1>2. /\ toClient \in Seq(Message) /\ served \in Nat /\ Reached \in Nat
      /\ last \in Nat
  BY DEF IInv, Types, Counted, Reached
<1>3. /\ Following(Reached + Weight(Head(toClient)), Tail(toClient), last)
      /\ Reached + Weight(Head(toClient)) <= last
      /\ Head(toClient).kind \in MediaKinds => Head(toClient).data = Reached + 1
  BY <1>1, <1>2, FollowingTail
<1>4. Head(toClient) \in Message  BY <1>2
<1>5. Weight(Head(toClient)) \in Nat  BY DEF Weight
<1> QED  BY <1>1, <1>2, <1>3, <1>4, <1>5

(* A message that is no media is received, and nothing is returned.        *)
LEMMA PassesOver ==
  ASSUME IInv, Counted, cpc # "failed", toClient # << >>,
         toClient' = Tail(toClient), Head(toClient).kind \notin MediaKinds,
         UNCHANGED <<served, closed, ahead, dropped, played, msgs>>,
         msgs # << >> => cpc' = "playing"
  PROVE  Counted'
<1>0. \A i : TimeOf(i)' = TimeOf(i)  BY DEF TimeOf
<1>1. Weight(Head(toClient)) = 0  BY DEF Weight, MediaKinds
<1>2. Reached \in Nat /\ Reached' = Reached  BY DEF Counted, Reached
<1>3. PICK last \in 0..served' :
          /\ ~closed' => last = served'
          /\ Following(Reached + Weight(Head(toClient)), Tail(toClient), last)
  BY FirstOnItsWay
<1>4. Following(Reached', toClient', last)
  <2>1. Reached + Weight(Head(toClient)) = Reached'  BY <1>1, <1>2
  <2> QED  BY <1>3, <2>1
<1>5. \E l \in 0..served' : /\ ~closed' => l = served'
                            /\ Following(Reached', toClient', l)
  BY <1>3, <1>4
<1> QED  BY <1>0, <1>2, <1>5 DEF Counted

(* Nothing is received, and nothing returned.                              *)
LEMMA StaysCounted ==
  ASSUME Counted,
         UNCHANGED <<toClient, served, closed, ahead, dropped, played, msgs>>,
         msgs # << >> => cpc' = "playing", cpc' # "failed" => cpc # "failed"
  PROVE  Counted'
<1>0. \A i : TimeOf(i)' = TimeOf(i)  BY DEF TimeOf
<1>1. Reached' = Reached  BY DEF Reached
<1>2. cpc' # "failed" =>
          \E last \in 0..served' : /\ ~closed' => last = served'
                                   /\ Following(Reached', toClient', last)
  BY <1>1 DEF Counted
<1> QED  BY <1>0, <1>1, <1>2 DEF Counted

(* What the client sends, or fails to, touches no media it plays.          *)
LEMMA SendsCounted ==
  ASSUME Counted, UNCHANGED <<serverVars, ahead>>,
         Sendings \/ SendFails \/ NothingArrives
  PROVE  Counted'
<1>1. UNCHANGED <<toClient, served, closed, ahead, dropped, played, msgs>>
  BY DEF serverVars, Sendings, WriteC0C1, WriteC2, FastHandshake, ConnectApp,
         CreateStream, Play, Publish, FmlePublish, FmlePublishes, WritePacket,
         FmleUnpublish, SendsOnly, Sends, SendFails, NothingArrives, wireVars
<1>2. cpc \notin {"playing", "failed"}
  <2>1. DOMAIN Wanted = {"connecting", "creating", "releasing", "confirming"}
    BY DEF Wanted
  <2> QED
    BY <2>1
    DEF Sendings, WriteC0C1, WriteC2, FastHandshake, ConnectApp,
        CreateStream, Play, Publish, FmlePublish, FmlePublishes, WritePacket,
        FmleUnpublish, SendFails, NothingArrives, Waits, Expects
<1> QED  BY <1>1, <1>2, StaysCounted DEF Counted

(* ReadPacket returns a piece that came alone.                             *)
LEMMA ReadPacketCounted ==
  ASSUME IInv, Counted, Clocked, UNCHANGED <<serverVars, ahead>>, ReadPacket
  PROVE  Counted'
<1>0. \A i : TimeOf(i)' = TimeOf(i)  BY DEF TimeOf
<1> DEFINE m == Head(toClient)
<1>1. /\ cpc = "playing" /\ cpc' = cpc /\ msgs = << >> /\ toClient # << >>
      /\ toClient' = Tail(toClient) /\ m.kind # "aggregate"
      /\ played' = PlayedAfter(m)
      /\ UNCHANGED <<served, closed, dropped, msgs>>
  BY DEF ReadPacket, Gets, IsAggregate, serverVars
<1>2. CASE m.kind # "media"
  <2>1. played' = played  BY <1>1, <1>2 DEF PlayedAfter, IsMedia
  <2> QED  BY <1>1, <1>2, <2>1, PassesOver DEF MediaKinds
<1>3. CASE m.kind = "media"
  <2>1. /\ m.data = Reached + 1 /\ Weight(m) = 1
        /\ Reached + 1 <= served /\ m.data \in Nat
    BY <1>1, <1>3, FirstOnItsWay DEF Weight, MediaKinds, Message
  <2>2. /\ Len(played) \in Nat /\ Reached = Len(played)
    BY <1>1 DEF Counted, Reached
  <2>10. TimeOf(Len(played) + 1) = Len(played) + 1
    <3>1. Timed(m)
      <4>1. toClient \in Seq(Message)  BY DEF IInv, Types
      <4>2. 1 \in 1..Len(toClient) /\ m = toClient[1]  BY <1>1, <4>1
      <4> QED  BY <4>2 DEF Clocked
    <3>2. m.data \notin ahead  BY <1>3, <3>1 DEF Timed, MediaKinds
    <3> QED  BY <2>1, <2>2, <3>2 DEF TimeOf
  <2>3. played' = Append(played, Piece(Len(played) + 1, TimeOf(Len(played) + 1)))
    BY <1>1, <1>3, <2>1, <2>2, <2>10 DEF PlayedAfter, IsMedia
  <2>4. Piece(Len(played) + 1, TimeOf(Len(played) + 1)) \in Pieces
    BY <2>2, <2>10 DEF Piece, Pieces
  <2>5. /\ played' \in Seq(Pieces) /\ Len(played') = Len(played) + 1
        /\ \A i \in 1..Len(played') : played'[i] = Piece(i, TimeOf(i))
    <3> DEFINE x == Piece(Len(played) + 1, TimeOf(Len(played) + 1))
    <3>1. \A i \in 1..Len(played) : played[i] = Piece(i, TimeOf(i))
      BY DEF Counted
    <3>2. played \in Seq(Pieces)  BY DEF Counted
    <3> HIDE DEF x
    <3>3. /\ played' \in Seq(Pieces) /\ Len(played') = Len(played) + 1
          /\ \A i \in 1..Len(played) : played'[i] = played[i]
          /\ played'[Len(played) + 1] = x
      BY <2>2, <2>3, <2>4, <3>2 DEF x
    <3>4. ASSUME NEW i \in 1..Len(played')
          PROVE  played'[i] = Piece(i, TimeOf(i))
      <4>1. i \in 1..Len(played) \/ i = Len(played) + 1  BY <2>2, <3>3
      <4> QED  BY <3>1, <3>3, <4>1 DEF x
    <3> QED  BY <3>3, <3>4
  <2>6. Reached' = Reached + 1  BY <1>1, <2>2, <2>5 DEF Reached
  <2>7. PICK last \in 0..served' : /\ ~closed' => last = served'
                                   /\ Following(Reached + Weight(m),
                                                Tail(toClient), last)
    BY <1>1, FirstOnItsWay
  <2>8. Following(Reached', toClient', last)
    BY <1>1, <2>1, <2>6, <2>7
  <2>9. \E l \in 0..served' : /\ ~closed' => l = served'
                              /\ Following(Reached', toClient', l)
    BY <2>7, <2>8
  <2>11. \A i \in 1..Len(played') : played'[i] = Piece(i, TimeOf(i)')
    BY <1>0, <2>5
  <2> QED  BY <1>1, <2>1, <2>5, <2>6, <2>9, <2>11 DEF Counted
<1> QED  BY <1>2, <1>3

(* OnAggregate splits an aggregate in the next two pieces.                 *)
LEMMA AggregateCounted ==
  ASSUME IInv, Counted, Clocked, UNCHANGED <<serverVars, ahead>>, OnAggregate
  PROVE  Counted'
<1>0. \A i : TimeOf(i)' = TimeOf(i)  BY DEF TimeOf
<1> DEFINE m == Head(toClient)
<1>1. /\ cpc = "playing" /\ cpc' = cpc /\ msgs = << >> /\ toClient # << >>
      /\ toClient' = Tail(toClient) /\ m.kind = "aggregate"
      /\ msgs' = Parts(m)
      /\ UNCHANGED <<served, closed, dropped, played>>
  BY DEF OnAggregate, Gets, IsAggregate, serverVars
<1>2. /\ m.data = Reached + 1 /\ Weight(m) = 2
      /\ Reached + 2 <= served /\ m.data \in Nat /\ m.base \in Nat
  BY <1>1, FirstOnItsWay DEF Weight, MediaKinds, Message
<1>3. /\ Len(played) \in Nat /\ Reached = Len(played)
  BY <1>1 DEF Counted, Reached
<1>4. \E last \in 0..served' : /\ ~closed' => last = served'
                               /\ Following(Reached + Weight(m),
                                            Tail(toClient), last)
  BY <1>1, FirstOnItsWay
<1> HIDE DEF m
<1>9. /\ TimeOf(m.data) = m.data
      /\ TimeOf(m.data + 1) = IF m.base > m.data THEN m.data ELSE m.data + 1
  <2>1. Timed(m)
    <3>1. toClient \in Seq(Message)  BY DEF IInv, Types
    <3>2. 1 \in 1..Len(toClient) /\ m = toClient[1]  BY <1>1, <3>1 DEF m
    <3> QED  BY <3>2 DEF Clocked
  <2>2. m.data \notin ahead /\ (m.data + 1 \in ahead <=> m.base > m.data)
    BY <1>1, <2>1 DEF Timed, MediaKinds, m
  <2>3. m.data + 1 - 1 = m.data  BY <1>2
  <2>4. TimeOf(m.data) = m.data  BY <2>2 DEF TimeOf
  <2>5. CASE m.base > m.data
    <3>1. PICK k \in Nat : k = m.data + 1  BY <1>2
    <3>2. k \in ahead  BY <2>2, <2>5, <3>1
    <3>3. TimeOf(k) = k - 1  BY <3>2 DEF TimeOf
    <3>4. k - 1 = m.data  BY <1>2, <3>1
    <3> QED  BY <2>4, <2>5, <3>1, <3>3, <3>4
  <2>6. CASE ~(m.base > m.data)
    <3>1. TimeOf(m.data + 1) = m.data + 1  BY <2>2, <2>6 DEF TimeOf
    <3> QED  BY <2>4, <2>6, <3>1
  <2> QED  BY <2>5, <2>6
<1>5. /\ Parts(m) \in Seq(Pieces) /\ Len(Parts(m)) = 2
      /\ Parts(m)[1] = Piece(m.data, TimeOf(m.data))
      /\ Parts(m)[2] = Piece(m.data + 1, TimeOf(m.data + 1))
  <2> DEFINE delta == [i \in 0..1 |-> IF i = 0 \/ m.data - (m.base + 0) < 0
                                      THEN m.data - (m.base + i)
                                      ELSE m.data - (m.base + 0)]
             ps == [i \in 1..2 |-> Piece(m.data + i - 1,
                                         m.base + i - 1 + delta[i - 1])]
  <2>1. Parts(m) = ps  BY DEF Parts
  <2>2. /\ delta[0] = m.data - m.base
        /\ delta[1] = IF m.base > m.data THEN m.data - (m.base + 1)
                                         ELSE m.data - m.base
    BY <1>2
  <2> HIDE DEF delta
  <2>3. ps[1] = Piece(m.data, TimeOf(m.data))
    <3>1. m.base + 1 - 1 + delta[1 - 1] = m.data /\ m.data + 1 - 1 = m.data
      BY <1>2, <2>2
    <3> QED  BY <1>9, <3>1
  <2>4. ps[2] = Piece(m.data + 1, TimeOf(m.data + 1))
    <3>1. /\ m.base + 2 - 1 + delta[2 - 1] =
                 IF m.base > m.data THEN m.data ELSE m.data + 1
          /\ m.data + 2 - 1 = m.data + 1
      BY <1>2, <2>2
    <3> QED  BY <1>9, <3>1
  <2>5. /\ Piece(m.data, TimeOf(m.data)) \in Pieces
        /\ Piece(m.data + 1, TimeOf(m.data + 1)) \in Pieces
    BY <1>2, <1>9 DEF Piece, Pieces
  <2>6. DOMAIN ps = 1..2  OBVIOUS
  <2>7. \A i \in 1..2 : ps[i] = ps[1] \/ ps[i] = ps[2]
    <3>1. \A i \in 1..2 : i = 1 \/ i = 2  OBVIOUS
    <3> QED  BY <3>1
  <2>8. ps = [i \in 1..2 |-> ps[i]]  OBVIOUS
  <2> HIDE DEF ps
  <2>9. ps \in [1..2 -> Pieces]  BY <2>3, <2>4, <2>5, <2>7, <2>8
  <2>10. ps \in Seq(Pieces) /\ Len(ps) = 2
    <3>1. ps = <<ps[1], ps[2]>>  BY <2>9
    <3>2. PICK a, b \in Pieces : ps = <<a, b>>  BY <2>9, <3>1
    <3>3. <<a, b>> \in Seq(Pieces) /\ Len(<<a, b>>) = 2  OBVIOUS
    <3> QED  BY <3>2, <3>3
  <2> QED  BY <2>1, <2>3, <2>4, <2>10
<1>6. \A i \in 1..Len(msgs') :
          msgs'[i] = Piece(Len(played') + i, TimeOf(Len(played) + i)')
  <2> SUFFICES ASSUME NEW i \in 1..2
               PROVE  msgs'[i] = Piece(Len(played) + i, TimeOf(Len(played) + i))
    <3>1. /\ Len(played') = Len(played)
          /\ \A k : TimeOf(Len(played) + k)' = TimeOf(Len(played) + k)
      BY <1>1 DEF TimeOf
    <3> QED  BY <1>1, <1>5, <3>1
  <2>1. CASE i = 1  BY <1>1, <1>2, <1>3, <1>5, <2>1
  <2>2. CASE i = 2
    <3>1. m.data + 1 = Len(played) + i  BY <1>2, <1>3, <2>2
    <3>2. msgs'[i] = Piece(m.data + 1, TimeOf(m.data + 1))
      BY <1>1, <1>5, <2>2
    <3> QED  BY <3>1, <3>2
  <2> QED  BY <2>1, <2>2
<1>7. Reached' = Reached + 2  BY <1>1, <1>3, <1>5 DEF Reached
<1>8. \E l \in 0..served' : /\ ~closed' => l = served'
                            /\ Following(Reached', toClient', l)
  BY <1>1, <1>2, <1>4, <1>7
<1> QED  BY <1>0, <1>1, <1>2, <1>5, <1>6, <1>7, <1>8 DEF Counted

(* ReadPart returns what is left of an aggregate.                          *)
LEMMA ReadPartCounted ==
  ASSUME Counted, UNCHANGED <<serverVars, ahead>>, ReadPart
  PROVE  Counted'
<1>0. \A i : TimeOf(i)' = TimeOf(i)  BY DEF TimeOf
<1>1. /\ cpc = "playing" /\ cpc' = cpc /\ msgs # << >>
      /\ played' = Append(played, Head(msgs)) /\ msgs' = Tail(msgs)
      /\ UNCHANGED <<served, closed, dropped, toClient>>
  BY DEF ReadPart, wireVars, serverVars
<1>2. /\ Len(msgs) \in Nat /\ Len(msgs) >= 1 /\ Len(played) \in Nat
      /\ Head(msgs) = msgs[1]
      /\ msgs[1] = Piece(Len(played) + 1, TimeOf(Len(played) + 1))
      /\ msgs[1] \in Pieces
  BY <1>1 DEF Counted
<1>3. /\ played' \in Seq(Pieces) /\ Len(played') = Len(played) + 1
      /\ \A i \in 1..Len(played') : played'[i] = Piece(i, TimeOf(i))
  <2>1. /\ \A i \in 1..Len(played) : played[i] = Piece(i, TimeOf(i))
        /\ played \in Seq(Pieces)
    BY DEF Counted
  <2>2. /\ played' \in Seq(Pieces) /\ Len(played') = Len(played) + 1
        /\ \A i \in 1..Len(played) : played'[i] = played[i]
        /\ played'[Len(played) + 1] = msgs[1]
    BY <1>1, <1>2, <2>1
  <2>3. ASSUME NEW i \in 1..Len(played')  PROVE played'[i] = Piece(i, TimeOf(i))
    <3>1. i \in 1..Len(played) \/ i = Len(played) + 1  BY <1>2, <2>2
    <3> QED  BY <1>2, <2>1, <2>2, <3>1
  <2> QED  BY <2>2, <2>3
<1>4. /\ msgs' \in Seq(Pieces) /\ Len(msgs') = Len(msgs) - 1
      /\ \A i \in 1..Len(msgs') : msgs'[i] = msgs[i + 1]
  BY <1>1, <1>2 DEF Counted
<1>5. ASSUME NEW i \in 1..Len(msgs')
      PROVE  msgs'[i] = Piece(Len(played') + i, TimeOf(Len(played') + i))
  <2>1. i + 1 \in 1..Len(msgs)  BY <1>2, <1>4
  <2>2. msgs[i + 1] = Piece(Len(played) + (i + 1), TimeOf(Len(played) + (i + 1)))
    BY <2>1 DEF Counted
  <2>3. Len(played) + (i + 1) = Len(played') + i  BY <1>2, <1>3
  <2> QED  BY <1>4, <2>2, <2>3
<1>6. Reached' = Reached  BY <1>2, <1>3, <1>4 DEF Reached
<1>7. \E last \in 0..served' : /\ ~closed' => last = served'
                               /\ Following(Reached', toClient', last)
  BY <1>1, <1>6 DEF Counted
<1>8. /\ \A i \in 1..Len(played') : played'[i] = Piece(i, TimeOf(i)')
      /\ \A i \in 1..Len(msgs') :
             msgs'[i] = Piece(Len(played') + i, TimeOf(Len(played) + i)')
  <2>1. \A i : TimeOf(Len(played) + i)' = TimeOf(Len(played') + i)
    BY DEF TimeOf
  <2> QED  BY <1>0, <1>3, <1>5, <2>1
<1> QED  BY <1>1, <1>3, <1>4, <1>6, <1>7, <1>8 DEF Counted

(* No media comes to a client that waits: what its waits drop, and what    *)
(* ends them, is no media.                                                 *)
LEMMA WaitsCounted ==
  ASSUME IInv, Told, Counted, UNCHANGED <<serverVars, ahead>>,
         DropsMessage \/ EndsWait \/ ReadS0S1S2 \/ ReadFastHandshakeRes
  PROVE  Counted'
<1> DEFINE m == Head(toClient)
<1>0. \A i : TimeOf(i)' = TimeOf(i)  BY DEF TimeOf
<1>1. /\ toClient # << >> /\ toClient' = Tail(toClient)
      /\ UNCHANGED <<served, closed, played, msgs>>
  BY DEF DropsMessage, EndsWait, ReadS0S1S2, ReadFastHandshakeRes, Gets,
         serverVars
<1>2. /\ cpc \in {"connecting", "creating", "releasing", "confirming",
                  "shaking", "fast"}
      /\ ~ReadFastHandshakeRes => cpc # "fast"
  <2>1. DOMAIN Wanted = {"connecting", "creating", "releasing", "confirming"}
    BY DEF Wanted
  <2> QED  BY <2>1 DEF DropsMessage, EndsWait, ReadS0S1S2,
                       ReadFastHandshakeRes, Expects
<1>3. msgs = << >>  BY <1>2 DEF Counted
<1>4. cpc # "fast" => m.kind \notin MediaKinds
  <2>1. 1 \in DOMAIN toClient /\ m = toClient[1]  BY <1>1 DEF IInv, Types
  <2>2. ToldOf(m.kind)  BY <2>1 DEF Told
  <2> QED  BY <1>2, <2>2 DEF ToldOf
<1>5. dropped' = dropped
  BY <1>2, <1>4 DEF DropsMessage, EndsWait, ReadS0S1S2, ReadFastHandshakeRes,
                    IsMedia, IsAggregate, MediaKinds
<1>6. CASE m.kind \notin MediaKinds
  BY <1>1, <1>2, <1>3, <1>5, <1>6, PassesOver
<1>7. CASE m.kind \in MediaKinds
  <2>1. ReadFastHandshakeRes /\ cpc' = "failed"
    BY <1>2, <1>4, <1>7 DEF ReadFastHandshakeRes, MediaKinds
  <2>2. Reached' = Reached  BY <1>1 DEF Reached
  <2> QED  BY <1>0, <1>1, <1>3, <1>5, <2>1, <2>2 DEF Counted
<1> QED  BY <1>6, <1>7

-----------------------------------------------------------------------------
(* What the server adds beside media changes no count.                     *)
LEMMA QuietCounted ==
  ASSUME IInv, Counted, toClient' \in Seq(Message), NEW S, Adds(S),
         S \cap MediaKinds = {},
         UNCHANGED <<cpc, served, closed, ahead, dropped, played, msgs>>
  PROVE  Counted'
<1>0. \A i : TimeOf(i)' = TimeOf(i)  BY DEF TimeOf
<1>1. Reached' = Reached /\ Reached \in Nat  BY DEF Reached, Counted
<1>2. ASSUME cpc' # "failed"
      PROVE  \E last \in 0..served' : /\ ~closed' => last = served'
                                      /\ Following(Reached', toClient', last)
  <2>1. PICK last \in 0..served : /\ ~closed => last = served
                                  /\ Following(Reached, toClient, last)
    BY <1>2 DEF Counted
  <2>2. toClient \in Seq(Message) /\ last \in Nat  BY DEF IInv, Types
  <2>3. /\ Len(toClient) <= Len(toClient')
        /\ \A i \in 1..Len(toClient) : toClient'[i] = toClient[i]
        /\ \A i \in 1..Len(toClient') :
               i > Len(toClient) => toClient'[i].kind \notin MediaKinds
    BY DEF Adds
  <2>4. Following(Reached, toClient', last)
    BY <1>1, <2>1, <2>2, <2>3, FollowingQuiet
  <2>5. Following(Reached', toClient', last)  BY <1>1, <2>4
  <2> QED  BY <2>1, <2>5
<1> QED  BY <1>0, <1>1, <1>2 DEF Counted

(* What the server serves next is the next piece by number.                *)
LEMMA ServesCounted ==
  ASSUME IInv, Counted, Clocked, Unbidden, UNCHANGED clientVars,
         ServesMedia \/ ServesAggregate
  PROVE  Counted'
<1>1. /\ UNCHANGED <<cpc, dropped, played, msgs, closed>> /\ ~closed
  BY DEF clientVars, ServesMedia, ServesAggregate
<1>2. /\ toClient \in Seq(Message) /\ served \in Nat
      /\ Reached \in Nat /\ Reached' = Reached /\ Reached <= served
  BY <1>1 DEF IInv, Types, Counted, Reached
<1>3. PICK m \in Message :
          /\ m.kind \in MediaKinds /\ m.data = served + 1
          /\ toClient' = Append(toClient, m)
          /\ served' = served + Weight(m)
  <2>1. CASE ServesMedia
    <3> DEFINE m == Media(StreamId, served + 1)
    <3>1. m \in Message /\ m.kind = "media" /\ m.data = served + 1
      BY <1>2, StreamIdAssumption DEF Media, Message, Kinds
    <3>2. Weight(m) = 1 /\ m.kind \in MediaKinds
      BY <3>1 DEF Weight, MediaKinds
    <3>3. toClient' = Append(toClient, m) /\ served' = served + 1
      BY <2>1 DEF ServesMedia
    <3> HIDE DEF m
    <3> QED  BY <3>1, <3>2, <3>3
  <2>2. CASE ServesAggregate
    <3>1. PICK b \in 0..served + 1 + MaxAhead :
              toClient' = Append(toClient, Aggregate(StreamId, served + 1, b))
      BY <2>2 DEF ServesAggregate
    <3> DEFINE m == Aggregate(StreamId, served + 1, b)
    <3>2. m \in Message /\ m.kind = "aggregate" /\ m.data = served + 1
      BY <1>2, <3>1, StreamIdAssumption, ServedAssumption DEF Aggregate, Message, Kinds
    <3>3. Weight(m) = 2 /\ m.kind \in MediaKinds
      BY <3>2 DEF Weight, MediaKinds
    <3>4. toClient' = Append(toClient, m) /\ served' = served + 2
      BY <2>2, <3>1 DEF ServesAggregate
    <3> HIDE DEF m
    <3> QED  BY <3>2, <3>3, <3>4
  <2> QED  BY <2>1, <2>2
<1>4. Weight(m) \in Nat  BY DEF Weight
<1>5. ASSUME cpc' # "failed"
      PROVE  Following(Reached', toClient', served')
  <2>1. Following(Reached, toClient, served)  BY <1>1, <1>5 DEF Counted
  <2>2. Following(Reached, Append(toClient, m), served + Weight(m))
    BY <1>2, <1>3, <2>1, FollowingMedia
  <2> QED  BY <1>2, <1>3, <2>2
<1>6. served' \in 0..served' /\ Reached' <= served'  BY <1>2, <1>3, <1>4
<1>7. /\ \A i \in 1..Len(played) : played[i] = Piece(i, TimeOf(i)')
      /\ \A i \in 1..Len(msgs) :
             msgs[i] = Piece(Len(played) + i, TimeOf(Len(played) + i)')
  <2>1. \A i \in 1..served : TimeOf(i)' = TimeOf(i)  BY ServesClocked
  <2>2. Len(played) \in Nat /\ Len(msgs) \in Nat /\ Len(played) + Len(msgs) <= served
    BY <1>2 DEF Counted, Reached
  <2>3. ASSUME NEW i \in 1..Len(played)  PROVE played[i] = Piece(i, TimeOf(i)')
    <3>1. i \in 1..served  BY <1>2, <2>2
    <3>2. played[i] = Piece(i, TimeOf(i))  BY DEF Counted
    <3> QED  BY <2>1, <3>1, <3>2
  <2>4. ASSUME NEW i \in 1..Len(msgs)
        PROVE  msgs[i] = Piece(Len(played) + i, TimeOf(Len(played) + i)')
    <3>0. PICK k \in 1..served : k = Len(played) + i  BY <1>2, <2>2
    <3>2. msgs[i] = Piece(Len(played) + i, TimeOf(Len(played) + i))
      BY DEF Counted
    <3>3. TimeOf(k)' = TimeOf(k)  BY <2>1
    <3>4. TimeOf(Len(played) + i)' = TimeOf(k)'  BY <1>1, <3>0 DEF TimeOf
    <3> QED  BY <3>0, <3>2, <3>3, <3>4
  <2> QED  BY <2>3, <2>4
<1>8. /\ \A i \in 1..Len(played') : played'[i] = Piece(i, TimeOf(i)')
      /\ \A i \in 1..Len(msgs') :
             msgs'[i] = Piece(Len(played') + i, TimeOf(Len(played) + i)')
  BY <1>1, <1>7 DEF TimeOf
<1> QED  BY <1>1, <1>5, <1>6, <1>8 DEF Counted

(* Closing a session loses no piece that is counted.                       *)
LEMMA ClosesCounted ==
  ASSUME IInv, Counted, UNCHANGED <<clientVars, ahead>>, Closes
  PROVE  Counted'
<1>0. \A i : TimeOf(i)' = TimeOf(i)  BY DEF TimeOf
<1>1. PICK l \in 0..Len(toClient) : toClient' = SubSeq(toClient, 1, l)
  BY DEF Closes
<1>2. UNCHANGED <<cpc, dropped, played, msgs, served>> /\ closed'
  BY DEF clientVars, serverVars, Closes
<1>3. Reached' = Reached /\ Reached \in Nat  BY <1>2 DEF Reached, Counted
<1>4. ASSUME cpc' # "failed"
      PROVE  \E cut \in 0..served' : Following(Reached', toClient', cut)
  <2>1. PICK last \in 0..served : Following(Reached, toClient, last)
    BY <1>2, <1>4 DEF Counted
  <2>2. toClient \in Seq(Message) /\ last \in Nat /\ served \in Nat
    BY DEF IInv, Types
  <2>3. PICK cut \in Nat :
            cut <= last /\ Following(Reached, SubSeq(toClient, 1, l), cut)
    BY <1>3, <2>1, <2>2, FollowingCut
  <2>4. cut \in 0..served'  BY <1>2, <2>1, <2>2, <2>3
  <2> QED  BY <1>1, <1>3, <2>3, <2>4
<1> QED  BY <1>0, <1>2, <1>3, <1>4 DEF Counted

(* Every step of the server.                                               *)
LEMMA ServerCounted ==
  ASSUME IInv, toClient' \in Seq(Message), Counted, Clocked,
         UNCHANGED clientVars, Server \/ Unbidden
  PROVE  Counted'
<1>0. Takings \/ Sayings
  BY DEF Server, ServerStep, Unbidden, Takings, Sayings
<1>1. UNCHANGED <<cpc, dropped, played, msgs>>  BY DEF clientVars
<1>2. toClient \in Seq(Message) /\ toServer \in Seq(Message)
  BY DEF IInv, Types
<1>3. CASE ServesMedia \/ ServesAggregate
  BY <1>3, ServesCounted, AnswersServeNothing
<1>4. CASE Closes /\ ~(ServesMedia \/ ServesAggregate)
  <2>1. UNCHANGED <<clientVars, ahead>>
    <3>1. CASE Server  BY <3>1 DEF Server
    <3>2. CASE Unbidden  BY <1>4, <3>2 DEF Unbidden
    <3> QED  BY <3>1, <3>2
  <2> QED  BY <1>4, <2>1, ClosesCounted
<1>5. CASE ~(ServesMedia \/ ServesAggregate) /\ ~Closes
  <2>1. (Kinds \ MediaKinds) \cap MediaKinds = {}  OBVIOUS
  <2>2. UNCHANGED ahead
    <3>1. CASE Server  BY <3>1 DEF Server
    <3>2. CASE Unbidden  BY <1>5, <3>2 DEF Unbidden
    <3> QED  BY <3>1, <3>2
  <2>3. UNCHANGED <<served, closed>> /\ Adds(Kinds \ MediaKinds)
    BY <1>0, <1>2, <1>5, AddsQuietly
  <2> QED  BY <1>1, <2>1, <2>2, <2>3, QuietCounted
<1> QED  BY <1>3, <1>4, <1>5

-----------------------------------------------------------------------------
(* Together with the script the counts are inductive.                      *)
MInv == SInv /\ Counted /\ Clocked

(* No media is on its way at first.                                        *)
LEMMA InitMedia == Init => MInv
<1> SUFFICES ASSUME Init  PROVE MInv
  OBVIOUS
<1>1. SInv  BY InitScript
<1>2. /\ dropped = 0 /\ played = << >> /\ msgs = << >> /\ toClient = << >>
      /\ served = 0 /\ ahead = {}
  BY DEF Init, ClientInit, ServerInit, WireInit
<1>3. Reached = 0  BY <1>2 DEF Reached
<1>4. Counts([i \in 1..1 |-> 0], 0, << >>, 0)  BY DEF Counts
<1>5. Following(0, << >>, 0)  BY <1>4 DEF Following
<1>6. Following(Reached, toClient, 0)  BY <1>2, <1>3, <1>5
<1>7. Counted /\ Clocked  BY <1>2, <1>3, <1>6 DEF Counted, Clocked
<1> QED  BY <1>1, <1>7 DEF MInv

(* Every step keeps the media counted.                                     *)
LEMMA NextMedia ==
  ASSUME MInv, [Next]_vars
  PROVE  MInv'
<1>1. SInv'  BY NextScript DEF MInv
<1>2. /\ IInv /\ Told /\ Counted /\ Clocked /\ toClient' \in Seq(Message)
  BY <1>1 DEF MInv, SInv, IInv, Types
<1>6. Clocked'  BY <1>2, NextClocked
<1>3. CASE Client
  <2>1. UNCHANGED <<serverVars, ahead>>  BY <1>3 DEF Client
  <2>2. \/ Sendings \/ SendFails \/ NothingArrives
        \/ ReadPacket \/ OnAggregate \/ ReadPart
        \/ DropsMessage \/ EndsWait \/ ReadS0S1S2 \/ ReadFastHandshakeRes
    BY <1>3 DEF Client, ClientStep, GivesUp, Sendings
  <2>3. Counted'
    BY <1>2, <2>1, <2>2, SendsCounted, ReadPacketCounted, AggregateCounted,
       ReadPartCounted, WaitsCounted
  <2> QED  BY <1>1, <1>6, <2>3 DEF MInv
<1>4. CASE Server \/ Unbidden
  <2>1. UNCHANGED clientVars  BY <1>4 DEF Server, Unbidden
  <2>2. Counted'  BY <1>2, <1>4, <2>1, ServerCounted
  <2> QED  BY <1>1, <1>6, <2>2 DEF MInv
<1>5. CASE UNCHANGED vars
  <2>1. UNCHANGED <<toClient, served, closed, ahead, dropped, played, msgs, cpc>>
    BY <1>5 DEF vars, clientVars, serverVars, wireVars
  <2>2. Counted'  BY <1>2, <2>1, StaysCounted DEF Counted
  <2> QED  BY <1>1, <1>6, <2>2 DEF MInv
<1> QED  BY <1>3, <1>4, <1>5 DEF Next

(* What a publisher has been taken for is a prefix of what it sent, and    *)
(* all of it once nothing is on its way.                                   *)
LEMMA TakenInOrder ==
  ASSUME SInv
  PROVE  /\ IsPrefix(taken, Upto(produced))
         /\ toServer = << >> => taken = Upto(produced)
<1>1. PICK k, n \in Nat : OnItsWay(k, n) /\ ClientAt(n) /\ ServerAt(k, n)
  BY DEF SInv, InScript
<1>2. produced \in Nat  BY DEF SInv, IInv, Types
<1>3. /\ taken \in Seq(Nat) /\ Len(taken) \in Nat
      /\ \A i \in 1..Len(taken) : taken[i] = i
  BY <1>1 DEF ServerAt
<1>4. /\ Upto(produced) \in Seq(Nat) /\ Len(Upto(produced)) = produced
      /\ \A i \in 1..produced : Upto(produced)[i] = i
  BY <1>2 DEF Upto
<1>5. Len(taken) <= produced
  <2>1. CASE taken = << >>  BY <1>2, <2>1
  <2>2. CASE taken # << >>
    <3>1. /\ Len(taken) >= 1 /\ Len(taken) <= MaxMedia /\ Opening \in Nat
          /\ k >= Opening + Len(taken)
      BY <1>1, <1>3, <2>2, ScriptLines, MediaAssumption DEF ServerAt, ClientAt
    <3>2. n >= Opening + Len(taken)  BY <1>1, <3>1 DEF OnItsWay
    <3> QED  BY <1>1, <1>2, <1>3, <3>1, <3>2, MediaAssumption DEF ClientAt
  <2> QED  BY <2>1, <2>2
<1>6. toServer = << >> => Len(taken) = produced
  <2> SUFFICES ASSUME toServer = << >>  PROVE Len(taken) = produced
    OBVIOUS
  <2>1. k = n  BY <1>1 DEF OnItsWay
  <2>2. CASE produced = 0  BY <1>3, <1>5, <2>2
  <2>3. CASE produced > 0
    <3>1. /\ purpose \in {"publish", "flash"} /\ n >= Opening + produced
          /\ Opening \in {7, 8}
      BY <1>1, <2>3, ScriptLines DEF ClientAt
    <3>2. spc \in {"publishing", "identifying"}
      BY <1>1, <1>2, <2>1, <2>3, <3>1 DEF ServerAt, Unsettled
    <3>3. CASE spc = "publishing"
      BY <1>1, <1>2, <1>3, <2>1, <3>1, <3>3, MediaAssumption
      DEF ServerAt, ClientAt
    <3>4. CASE spc = "identifying"
      BY <1>1, <1>2, <1>3, <2>1, <2>3, <3>1, <3>4, MediaAssumption
      DEF ServerAt, ClientAt
    <3> QED  BY <3>2, <3>3, <3>4
  <2> QED  BY <1>2, <2>2, <2>3
<1>7. IsPrefix(taken, Upto(produced))
  BY <1>3, <1>4, <1>5 DEF IsPrefix
<1>8. Len(taken) = produced => taken = Upto(produced)
  BY <1>2, <1>3, <1>4
<1> QED  BY <1>6, <1>7, <1>8

(* No wait drops media, and what is received, by either end, is what was   *)
(* sent, whole and in order.  It keeps its time alone and in an aggregate, *)
(* except that the second piece of an aggregate whose clock is ahead, by   *)
(* however much, gets the time of the first: for every set of purposes,    *)
(* every stream id and any amount of media.                                *)
THEOREM SessionsCarryMediaWhole == Spec => []MediaIntact
<1>1. Init => MInv  BY InitMedia
<1>2. MInv /\ [Next]_vars => MInv'  BY NextMedia
<1>3. MInv => MediaIntact
  <2> SUFFICES ASSUME MInv  PROVE MediaIntact
    OBVIOUS
  <2>1. SInv /\ Counted /\ served \in Nat /\ toClient \in Seq(Message)
    BY DEF MInv, SInv, IInv, Types
  <2> DEFINE all == [i \in 1..served |-> Piece(i, TimeOf(i))]
  <2>2. /\ Len(played) \in Nat /\ played \in Seq(Pieces)
        /\ \A i \in 1..Len(played) : played[i] = Piece(i, TimeOf(i))
        /\ Len(played) <= served
    BY <2>1 DEF Counted, Reached
  <2>3. /\ Len(all) = served /\ \A i \in 1..served : all[i] = Piece(i, TimeOf(i))
    BY <2>1
  <2> HIDE DEF all
  <2>4. IsPrefix(played, all)
    <3>1. SubSeq(played, 1, Len(played)) = [i \in 1..Len(played) |-> played[i]]
      BY <2>2
    <3>2. SubSeq(all, 1, Len(played)) = [i \in 1..Len(played) |-> all[i]]
      BY <2>1, <2>2, <2>3
    <3> QED  BY <2>1, <2>2, <2>3, <3>1, <3>2 DEF IsPrefix
  <2>5. ASSUME ~closed, cpc = "playing", toClient = << >>, msgs = << >>
        PROVE  Len(played) = served
    <3>1. Following(Reached, toClient, served)  BY <2>1, <2>5 DEF Counted
    <3>2. PICK c : Counts(c, Reached, toClient, served)
      BY <3>1 DEF Following
    <3>3. c[1] = Reached /\ c[1] = served  BY <2>5, <3>2 DEF Counts
    <3> QED  BY <2>2, <2>5, <3>3 DEF Reached
  <2>6. dropped = 0  BY <2>1 DEF Counted
  <2> QED  BY <2>1, <2>4, <2>5, <2>6, TakenInOrder DEF MediaIntact, all
<1> QED  BY <1>1, <1>2, <1>3, PTL DEF Spec

-----------------------------------------------------------------------------
(* Answers.  What the server has answered, and what it still has to, is    *)
(* what the client asked for, in the order of the client's requests.       *)

(* The transaction ids of the requests, and of the results, among ms.      *)
Asking(ms) == TidsOf(RequestsIn(ms))
Answering(ms) == TidsOf(ResultsIn(ms))

(* The ids of messages are naturals, one for each.                         *)
LEMMA TidsType ==
  ASSUME NEW s \in Seq(Message)
  PROVE  TidsOf(s) \in Seq(Nat) /\ Len(TidsOf(s)) = Len(s)
<1>1. DOMAIN s = 1..Len(s) /\ Len(s) \in Nat  OBVIOUS
<1>2. \A i \in 1..Len(s) : s[i].tid \in Nat
  <2>1. \A m \in Message : m.tid \in Nat  BY DEF Message
  <2> QED  BY <2>1
<1>3. TidsOf(s) = [i \in 1..Len(s) |-> s[i].tid]  BY <1>1 DEF TidsOf
<1> QED  BY <1>1, <1>2, <1>3

(* The ids of messages joined are their ids joined.                        *)
LEMMA TidsConcat ==
  ASSUME NEW a \in Seq(Message), NEW b \in Seq(Message)
  PROVE  TidsOf(a \o b) = TidsOf(a) \o TidsOf(b)
<1> DEFINE c == a \o b
           x == TidsOf(c)
           y == TidsOf(a)
           z == TidsOf(b)
<1>1. /\ c \in Seq(Message) /\ Len(c) = Len(a) + Len(b)
      /\ \A i \in 1..Len(a) : c[i] = a[i]
      /\ \A i \in 1..Len(b) : c[Len(a) + i] = b[i]
      /\ Len(a) \in Nat /\ Len(b) \in Nat
  OBVIOUS
<1> HIDE DEF c
<1>2. /\ x \in Seq(Nat) /\ y \in Seq(Nat) /\ z \in Seq(Nat)
      /\ Len(x) = Len(c) /\ Len(y) = Len(a) /\ Len(z) = Len(b)
  BY <1>1, TidsType
<1>3. Len(x) = Len(y) + Len(z)  BY <1>1, <1>2
<1>4. ASSUME NEW i \in 1..Len(y)  PROVE  x[i] = y[i]
  <2>1. i \in 1..Len(c) /\ i \in 1..Len(a)  BY <1>1, <1>2
  <2>2. x[i] = c[i].tid /\ y[i] = a[i].tid  BY <1>1, <2>1 DEF TidsOf
  <2> QED  BY <1>1, <2>1, <2>2
<1>5. ASSUME NEW i \in 1..Len(z)  PROVE  x[Len(y) + i] = z[i]
  <2>1. Len(a) + i \in 1..Len(c) /\ i \in 1..Len(b)  BY <1>1, <1>2
  <2>2. x[Len(a) + i] = c[Len(a) + i].tid /\ z[i] = b[i].tid
    BY <1>1, <2>1 DEF TidsOf
  <2> QED  BY <1>1, <1>2, <2>1, <2>2
<1> HIDE DEF x, y, z
<1>6. x \in Seq(Nat) /\ y \in Seq(Nat) /\ z \in Seq(Nat)  BY <1>2
<1>7. \A i \in 1..Len(y) : x[i] = y[i]  BY <1>4
<1>8. \A i \in 1..Len(z) : x[Len(y) + i] = z[i]  BY <1>5
<1>9. x = y \o z
  <2> DEFINE S == Nat
  <2>1. x \in Seq(S) /\ y \in Seq(S) /\ z \in Seq(S)  BY <1>6
  <2> HIDE DEF S
  <2> QED  BY <1>3, <1>7, <1>8, <2>1, Joined
<1> QED  BY <1>9 DEF x, y, z, c

(* What Asking and Answering return.                                       *)
LEMMA AskingType ==
  ASSUME NEW s \in Seq(Message)
  PROVE  Asking(s) \in Seq(Nat) /\ Answering(s) \in Seq(Nat)
<1>1. RequestsIn(s) \in Seq(Message) /\ ResultsIn(s) \in Seq(Message)
  <2> DEFINE Q == {m \in Message : m.kind \in Requests}
             R == {m \in Message : m.kind \in Results}
  <2>1. Message \cap Q \subseteq Message /\ Message \cap R \subseteq Message
    OBVIOUS
  <2> HIDE DEF Q, R
  <2>2. Among(s, Q) \in Seq(Message \cap Q) /\ Among(s, R) \in Seq(Message \cap R)
    BY AmongType
  <2>3. Among(s, Q) \in Seq(Message) /\ Among(s, R) \in Seq(Message)
    BY <2>1, <2>2
  <2> QED  BY <2>3 DEF RequestsIn, ResultsIn, Q, R
<1> QED  BY <1>1, TidsType DEF Asking, Answering

(* The requests and the results among messages joined.                     *)
LEMMA AskingConcat ==
  ASSUME NEW a \in Seq(Message), NEW b \in Seq(Message)
  PROVE  /\ Asking(a \o b) = Asking(a) \o Asking(b)
         /\ Answering(a \o b) = Answering(a) \o Answering(b)
<1> DEFINE Q == {m \in Message : m.kind \in Requests}
           R == {m \in Message : m.kind \in Results}
<1>1. ASSUME NEW T
      PROVE  /\ Among(a \o b, T) = Among(a, T) \o Among(b, T)
             /\ Among(a, T) \in Seq(Message) /\ Among(b, T) \in Seq(Message)
  <2>1. Among(a, T) \in Seq(Message \cap T) /\ Among(b, T) \in Seq(Message \cap T)
    BY AmongType
  <2>2. Message \cap T \subseteq Message  OBVIOUS
  <2>3. Among(a, T) \in Seq(Message) /\ Among(b, T) \in Seq(Message)
    BY <2>1, <2>2
  <2> QED  BY <2>3, AmongConcat
<1>2. ASSUME NEW T
      PROVE  TidsOf(Among(a \o b, T)) = TidsOf(Among(a, T)) \o TidsOf(Among(b, T))
  <2> DEFINE x == Among(a, T)
             y == Among(b, T)
             z == Among(a \o b, T)
  <2>1. x \in Seq(Message) /\ y \in Seq(Message) /\ z = x \o y  BY <1>1
  <2> HIDE DEF x, y, z
  <2>2. TidsOf(x \o y) = TidsOf(x) \o TidsOf(y)  BY <2>1, TidsConcat
  <2>3. TidsOf(z) = TidsOf(x) \o TidsOf(y)  BY <2>1, <2>2
  <2> QED  BY <2>3 DEF x, y, z
<1>3. /\ TidsOf(Among(a \o b, Q)) = TidsOf(Among(a, Q)) \o TidsOf(Among(b, Q))
      /\ TidsOf(Among(a \o b, R)) = TidsOf(Among(a, R)) \o TidsOf(Among(b, R))
  BY <1>2
<1> QED  BY <1>3 DEF Asking, Answering, RequestsIn, ResultsIn

(* One message asks, or answers, once or not at all.                       *)
LEMMA AskingOne ==
  ASSUME NEW m \in Message
  PROVE  /\ Asking(<<m>>) = IF m.kind \in Requests THEN <<m.tid>> ELSE << >>
         /\ Answering(<<m>>) = IF m.kind \in Results THEN <<m.tid>> ELSE << >>
<1>1. TidsOf(<<m>>) = <<m.tid>> /\ TidsOf(<< >>) = << >>  BY DEF TidsOf
<1>2. /\ RequestsIn(<<m>>) = IF m.kind \in Requests THEN <<m>> ELSE << >>
      /\ ResultsIn(<<m>>) = IF m.kind \in Results THEN <<m>> ELSE << >>
  BY AmongOne DEF RequestsIn, ResultsIn
<1> QED  BY <1>1, <1>2 DEF Asking, Answering

(* What is received was asked first.                                       *)
LEMMA AskingHead ==
  ASSUME NEW s \in Seq(Message), s # << >>
  PROVE  Asking(s) = Asking(<<Head(s)>>) \o Asking(Tail(s))
<1> DEFINE h == <<Head(s)>>
           t == Tail(s)
<1>1. h \in Seq(Message) /\ t \in Seq(Message)  OBVIOUS
<1>2. s = h \o t
  <2>1. Len(s) = Len(h) + Len(t)  OBVIOUS
  <2>2. \A i \in 1..Len(h) : s[i] = h[i]  OBVIOUS
  <2>3. ASSUME NEW i \in 1..Len(t)  PROVE s[Len(h) + i] = t[i]
    <3>1. Len(h) = 1 /\ t[i] = s[i + 1]  OBVIOUS
    <3> QED  BY <3>1
  <2> HIDE DEF h, t
  <2> QED  BY <1>1, <2>1, <2>2, <2>3, Joined
<1> HIDE DEF h, t
<1>3. Asking(h \o t) = Asking(h) \o Asking(t)  BY <1>1, AskingConcat
<1> QED  BY <1>2, <1>3 DEF h, t

(* Messages of other kinds neither ask nor answer.                         *)
LEMMA NothingAmong ==
  ASSUME NEW T, NEW s \in Seq(Message), \A i \in DOMAIN s : s[i] \notin T
  PROVE  Among(s, T) = << >>
<1>1. Among(s, T) \in Seq({})
  <2> DEFINE S == Message \ T
  <2>1. s \in Seq(S)  OBVIOUS
  <2> HIDE DEF S
  <2>2. Among(s, T) \in Seq(S \cap T)  BY <2>1, AmongType
  <2>3. S \cap T = {}  BY DEF S
  <2> QED  BY <2>2, <2>3
<1> QED  BY <1>1

(* Messages that ask and answer nothing.                                   *)
LEMMA AskingNone ==
  ASSUME NEW s \in Seq(Message)
  PROVE  /\ (\A i \in DOMAIN s : s[i].kind \notin Requests) => Asking(s) = << >>
         /\ (\A i \in DOMAIN s : s[i].kind \notin Results) => Answering(s) = << >>
<1>0. TidsOf(<< >>) = << >>  BY DEF TidsOf
<1>1. ASSUME \A i \in DOMAIN s : s[i].kind \notin Requests
      PROVE  Asking(s) = << >>
  <2> DEFINE Q == {m \in Message : m.kind \in Requests}
  <2>1. \A i \in DOMAIN s : s[i] \notin Q  BY <1>1
  <2> HIDE DEF Q
  <2>2. Among(s, Q) = << >>  BY <2>1, NothingAmong
  <2> QED  BY <1>0, <2>2 DEF Asking, RequestsIn, Q
<1>2. ASSUME \A i \in DOMAIN s : s[i].kind \notin Results
      PROVE  Answering(s) = << >>
  <2> DEFINE Q == {m \in Message : m.kind \in Results}
  <2>1. \A i \in DOMAIN s : s[i] \notin Q  BY <1>2
  <2> HIDE DEF Q
  <2>2. Among(s, Q) = << >>  BY <2>1, NothingAmong
  <2> QED  BY <1>0, <2>2 DEF Answering, ResultsIn, Q
<1> QED  BY <1>1, <1>2

-----------------------------------------------------------------------------
(* Joining sequences of ids is associative.                                *)
LEMMA JoinsNat ==
  ASSUME NEW a \in Seq(Nat), NEW b \in Seq(Nat), NEW c \in Seq(Nat)
  PROVE  (a \o b) \o c = a \o (b \o c)
BY ConcatAssociative

(* A connect that the server has taken and not answered yet, or will never *)
(* answer because it redirects the client.                                 *)
Pending == IF spc \in {"deciding", "redirecting"} THEN <<1>> ELSE << >>
Done == answered \o Pending

(* Until the server leaves, a request that is not answered is still on its *)
(* way, or is the one that the server is deciding about.                   *)
Ordered ==
    /\ asked \in Seq(Nat) /\ answered \in Seq(Nat)
    /\ \E rest \in Seq(Nat) : asked = answered \o rest
    /\ spc # "leaving" => asked = Done \o Asking(toServer)

(* The types of what the order is stated over.                             *)
LEMMA DoneType ==
  ASSUME answered \in Seq(Nat)
  PROVE  Pending \in Seq(Nat) /\ Done \in Seq(Nat)
BY DEF Pending, Done

(* What a client sends is asked after all that it has asked before.        *)
LEMMA SendsOrdered ==
  ASSUME Ordered, toServer \in Seq(Message), NEW ms \in Seq(Message),
         toServer' = toServer \o ms, asked' = asked \o Asking(ms),
         UNCHANGED <<answered, spc>>
  PROVE  Ordered'
<1> DEFINE new == Asking(ms)
           old == Asking(toServer)
<1>1. new \in Seq(Nat) /\ old \in Seq(Nat)  BY AskingType
<1>2. Asking(toServer') = old \o new  BY AskingConcat
<1>3. Done' = Done /\ Done \in Seq(Nat)
  BY DoneType DEF Ordered, Done, Pending
<1> HIDE DEF new, old
<1>4. asked' = asked \o new  BY DEF new
<1>5. asked' \in Seq(Nat)  BY <1>1, <1>4 DEF Ordered
<1>6. \E rest \in Seq(Nat) : asked' = answered \o rest
  <2>1. PICK rest \in Seq(Nat) : asked = answered \o rest  BY DEF Ordered
  <2>2. answered \in Seq(Nat)  BY DEF Ordered
  <2>3. (answered \o rest) \o new = answered \o (rest \o new)
    BY <1>1, <2>1, <2>2, JoinsNat
  <2>4. rest \o new \in Seq(Nat)  BY <1>1, <2>1
  <2> QED  BY <1>4, <2>1, <2>3, <2>4
<1>7. spc # "leaving" => asked' = Done \o (old \o new)
  <2> SUFFICES ASSUME spc # "leaving"  PROVE asked' = Done \o (old \o new)
    OBVIOUS
  <2>1. asked = Done \o old  BY DEF Ordered, old
  <2> HIDE DEF Done
  <2>2. (Done \o old) \o new = Done \o (old \o new)
    BY <1>1, <1>3, JoinsNat
  <2> QED  BY <1>4, <2>1, <2>2
<1> QED  BY <1>2, <1>3, <1>5, <1>6, <1>7 DEF Ordered

(* The server goes on in the order it was asked in, or leaves.             *)
LEMMA GoesOnOrdered ==
  ASSUME Ordered, spc # "leaving", UNCHANGED asked, answered' \in Seq(Nat),
         NEW a \in Seq(Nat), toServer \in Seq(Message),
         toServer' \in Seq(Message),
         Asking(toServer) = a \o Asking(toServer'), Done' = Done \o a
  PROVE  Ordered'
<1> DEFINE left == Asking(toServer')
           was == Done
           now == Done'
           p == Pending'
<1>1. left \in Seq(Nat)  BY AskingType
<1>2. was \in Seq(Nat)  BY DoneType DEF Ordered
<1>3. p \in Seq(Nat)  BY DEF Pending
<1>4. now = answered' \o p /\ now = was \o a  BY DEF Done
<1>5. asked = was \o (a \o left)  BY DEF Ordered
<1>6. asked = now \o left
  <2> HIDE DEF left, was, now
  <2>1. (was \o a) \o left = was \o (a \o left)
    BY <1>1, <1>2, JoinsNat
  <2> QED  BY <1>4, <1>5, <2>1
<1>7. \E rest \in Seq(Nat) : asked = answered' \o rest
  <2> HIDE DEF left, was, now, p
  <2> DEFINE b == answered'
  <2>1. b \in Seq(Nat)  OBVIOUS
  <2> HIDE DEF b
  <2>2. (b \o p) \o left = b \o (p \o left)
    BY <1>1, <1>3, <2>1, JoinsNat
  <2>3. p \o left \in Seq(Nat)  BY <1>1, <1>3
  <2>4. asked = b \o (p \o left)  BY <1>4, <1>6, <2>2 DEF b
  <2> QED  BY <2>3, <2>4 DEF b
<1>8. asked' \in Seq(Nat)  BY DEF Ordered
<1> QED  BY <1>6, <1>7, <1>8 DEF Ordered

(* A message that is no request may be taken from the server's queue.      *)
LEMMA LeavesOrdered ==
  ASSUME Ordered, UNCHANGED <<asked, answered>>, spc' = "leaving"
  PROVE  Ordered'
BY DEF Ordered

(* A step that touches neither queue nor record keeps the order.           *)
LEMMA StaysOrdered ==
  ASSUME Ordered, UNCHANGED <<asked, answered, spc, toServer>>
  PROVE  Ordered'
BY DEF Ordered, Done, Pending

-----------------------------------------------------------------------------
(* Every step of the client.                                               *)
LEMMA ClientOrdered ==
  ASSUME Ordered, IInv, UNCHANGED serverVars,
         \/ Sendings \/ SendFails \/ NothingArrives
         \/ ReadPacket \/ OnAggregate \/ ReadPart
         \/ DropsMessage \/ EndsWait \/ ReadS0S1S2 \/ ReadFastHandshakeRes
  PROVE  Ordered'
<1>0. UNCHANGED <<answered, spc>> /\ toServer \in Seq(Message)
  BY DEF serverVars, IInv, Types
<1>1. ASSUME NEW ms \in Seq(Message), Sends(ms)
      PROVE  Ordered'
  <2>1. toServer' = toServer \o ms /\ asked' = asked \o Asking(ms)
    BY <1>1 DEF Sends, Asking
  <2> QED  BY <1>0, <2>1, SendsOrdered
<1>2. ASSUME NEW k \in Kinds
      PROVE  /\ Plain(k) \in Message
             /\ \A t \in Nat : Call(k, t) \in Message
             /\ Over(stream_id, k) \in Message
  BY PlainMessages DEF IInv, Types
<1>3. {"c0c1", "c2", "fastHs", "connect", "windowAck", "createStream", "play",
       "bufferLength", "chunkSize", "publish", "releaseStream", "FCPublish",
       "FCUnpublish"} \subseteq Kinds
  BY DEF Kinds
<1>4. CASE WriteC0C1
  <2>1. <<Plain("c0c1")>> \in Seq(Message)  BY <1>2, <1>3
  <2> QED  BY <1>1, <1>4, <2>1 DEF WriteC0C1, SendsOnly
<1>5. CASE WriteC2
  <2>1. <<Plain("c2")>> \in Seq(Message)  BY <1>2, <1>3
  <2> QED  BY <1>1, <1>5, <2>1 DEF WriteC2, SendsOnly
<1>6. CASE FastHandshake
  <2>1. <<Plain("fastHs")>> \in Seq(Message)  BY <1>2, <1>3
  <2> QED  BY <1>1, <1>6, <2>1 DEF FastHandshake, SendsOnly
<1>7. CASE ConnectApp
  <2>1. <<Call("connect", 1), Plain("windowAck")>> \in Seq(Message)
    BY <1>2, <1>3
  <2> QED  BY <1>1, <1>7, <2>1 DEF ConnectApp, SendsOnly
<1>8. CASE CreateStream
  <2>1. <<Call("createStream", 2)>> \in Seq(Message)  BY <1>2, <1>3
  <2> QED  BY <1>1, <1>8, <2>1 DEF CreateStream, SendsOnly
<1>9. CASE Play
  <2>1. <<Over(stream_id, "play"), Plain("bufferLength"), Plain("chunkSize")>>
           \in Seq(Message)
    BY <1>2, <1>3
  <2> QED  BY <1>1, <1>9, <2>1 DEF Play, SendsOnly
<1>10. CASE Publish
  <2>1. <<Plain("chunkSize"), Over(stream_id, "publish")>> \in Seq(Message)
    BY <1>2, <1>3
  <2> QED  BY <1>1, <1>10, <2>1 DEF Publish, SendsOnly
<1>11. CASE FmlePublish
  <2>1. <<Call("releaseStream", 2), Call("FCPublish", 3),
          Call("createStream", CreateStreamTid)>> \in Seq(Message)
    BY <1>2, <1>3 DEF CreateStreamTid
  <2> QED  BY <1>1, <1>11, <2>1 DEF FmlePublish
<1>12. CASE FmlePublishes
  <2>1. <<Over(stream_id, "publish")>> \in Seq(Message)  BY <1>2, <1>3
  <2> QED  BY <1>1, <1>12, <2>1 DEF FmlePublishes, SendsOnly
<1>13. CASE FmleUnpublish
  <2>1. <<Call("FCUnpublish", 3)>> \in Seq(Message)  BY <1>2, <1>3
  <2> QED  BY <1>1, <1>13, <2>1 DEF FmleUnpublish
<1>14. CASE WritePacket
  <2> DEFINE m == Media(stream_id, produced + 1)
  <2>1. m \in Message /\ m.kind = "media"
    BY StreamIdAssumption DEF Media, Message, Kinds, IInv, Types
  <2>2. toServer' = Append(toServer, m) /\ asked' = asked
    BY <1>14 DEF WritePacket
  <2> HIDE DEF m
  <2>3. toServer' = toServer \o <<m>> /\ <<m>> \in Seq(Message)
    BY <1>0, <2>1, <2>2, AppendIsConcat
  <2>4. Asking(<<m>>) = << >>
    BY <2>1, AskingOne DEF Requests, FMLEStart
  <2>5. asked' = asked \o Asking(<<m>>)
    <3>1. asked \in Seq(Nat)  BY DEF Ordered
    <3>2. asked \o << >> = asked  BY <3>1
    <3> QED  BY <2>2, <2>4, <3>2
  <2> QED  BY <1>0, <2>3, <2>5, SendsOrdered
<1>15. CASE \/ SendFails \/ NothingArrives
            \/ ReadPacket \/ OnAggregate \/ ReadPart
            \/ DropsMessage \/ EndsWait \/ ReadS0S1S2 \/ ReadFastHandshakeRes
  <2>1. UNCHANGED <<asked, toServer>>
    BY <1>15 DEF SendFails, NothingArrives, ReadPacket, OnAggregate, ReadPart,
       DropsMessage, EndsWait, ReadS0S1S2, ReadFastHandshakeRes, Gets, wireVars
  <2> QED  BY <1>0, <2>1, StaysOrdered
<1> QED  BY <1>4, <1>5, <1>6, <1>7, <1>8, <1>9, <1>10, <1>11, <1>12, <1>13,
            <1>14, <1>15 DEF Sendings

-----------------------------------------------------------------------------
(* What a wait of the server passes over asks for nothing.                 *)
LEMMA IgnoresNoRequest ==
  ASSUME SInv, UNCHANGED clientVars, Ignores
  PROVE  Request.kind \notin Requests
<1>1. PICK k, n \in Nat : OnItsWay(k, n) /\ ClientAt(n) /\ ServerAt(k, n)
  BY DEF SInv, InScript
<1>2. /\ Takes(Kinds \ Awaited[spc]) /\ spc \in DOMAIN Awaited
      /\ Request.kind \notin Awaited[spc]
  BY DEF Ignores, Takes, Request
<1>3. toServer \in Seq(Message) /\ toServer # << >>
  BY <1>2 DEF Takes, SInv, IInv, Types
<1>4. Request.kind = Line[k + 1] /\ k + 1 <= n
  <2>1. Len(toServer) >= 1 /\ Request = toServer[1]  BY <1>3 DEF Request
  <2>2. k + 1 <= n  BY <1>1, <2>1 DEF OnItsWay
  <2>3. k + 1 \in (k + 1)..n /\ (k + 1) - k = 1  BY <2>2
  <2>4. toServer[(k + 1) - k].kind = Line[k + 1]
    BY <1>1, <2>3 DEF OnItsWay
  <2> QED  BY <2>1, <2>2, <2>3, <2>4
<1>0. produced \in Nat  BY DEF SInv, IInv, Types
<1> USE ScriptLines, MediaAssumption, <1>0
<1>5. CASE spc \in {"connecting", "fc_publish", "create_stream", "publish"}
  BY <1>1, <1>2, <1>4, <1>5
  DEF ServerAt, Awaited, FMLEStart, ClientAt, Unsettled
<1>6. CASE spc = "redirecting"
  <2>1. k = 3 /\ n = 4  BY <1>1, <1>4, <1>6 DEF ServerAt, Unsettled
  <2>2. Line[4] = "windowAck"  BY <1>1, <2>1 DEF ClientAt
  <2> QED  BY <1>4, <2>1, <2>2 DEF Requests, FMLEStart
<1>7. CASE spc = "identifying"
  BY <1>1, <1>2, <1>4, <1>7
  DEF ServerAt, ClientAt, Awaited, FMLEStart, Requests, Unsettled
<1>8. CASE spc = "created"
  BY <1>1, <1>2, <1>4, <1>8
  DEF ServerAt, ClientAt, Awaited, FMLEStart, Requests, Unsettled
<1>9. CASE spc = "publishing"
  <2>1. k = Opening + Len(taken) /\ Opening \in Nat /\ k + 1 > Opening
    BY <1>1, <1>9 DEF ServerAt
  <2>2. Line[k + 1] \in {"media", "FCUnpublish"}  BY <2>1, MediaLines
  <2> QED  BY <2>2, <1>2, <1>4, <1>9 DEF Awaited
<1>10. CASE spc = "playing"
  BY <1>1, <1>4, <1>10
  DEF ServerAt, ClientAt, Requests, FMLEStart, Unsettled
<1>11. DOMAIN Awaited = {"connecting", "identifying", "created", "fc_publish",
                         "create_stream", "publish", "publishing", "playing",
                         "redirecting"}
  BY DEF Awaited
<1> QED  BY <1>2, <1>5, <1>6, <1>7, <1>8, <1>9, <1>10, <1>11

(* A message that asks for nothing is taken and nothing is answered.       *)
LEMMA TakesQuietly ==
  ASSUME Ordered, IInv, UNCHANGED <<asked, answered>>, NEW kinds, Takes(kinds),
         spc # "leaving", Request.kind \notin Requests,
         Pending' = Pending \/ spc' = "leaving"
  PROVE  Ordered'
<1>1. CASE spc' = "leaving"  BY <1>1, LeavesOrdered
<1>2. CASE Pending' = Pending
  <2>1. /\ toServer \in Seq(Message) /\ toServer # << >>
        /\ toServer' = Tail(toServer) /\ Request \in Message
    BY DEF Takes, IInv, Types, Request
  <2>2. toServer' \in Seq(Message)  BY <2>1
  <2>3. Asking(toServer) = Asking(<<Request>>) \o Asking(toServer')
    BY <2>1, AskingHead DEF Request
  <2>4. Asking(<<Request>>) = << >>  BY <2>1, AskingOne
  <2>5. Done' = Done /\ Done \in Seq(Nat)
    BY <1>2, DoneType DEF Done, Ordered
  <2>6. Done \o << >> = Done
    <3> HIDE DEF Done
    <3> QED  BY <2>5
  <2>7. << >> \in Seq(Nat) /\ answered' \in Seq(Nat)  BY DEF Ordered
  <2>8. Done' = Done \o << >>  BY <2>5, <2>6
  <2>9. Asking(toServer) = << >> \o Asking(toServer')  BY <2>3, <2>4
  <2> QED  BY <2>1, <2>2, <2>7, <2>8, <2>9, GoesOnOrdered
<1> QED  BY <1>1, <1>2

(* A request is taken and answered under its id.                           *)
LEMMA TakesAndAnswers ==
  ASSUME Ordered, IInv, UNCHANGED asked, NEW kinds, Takes(kinds),
         spc \notin {"leaving", "deciding", "redirecting"},
         spc' \notin {"leaving", "deciding", "redirecting"},
         Request.kind \in Requests, answered' = answered \o <<Request.tid>>
  PROVE  Ordered'
<1>1. /\ toServer \in Seq(Message) /\ toServer # << >>
      /\ toServer' = Tail(toServer) /\ Request \in Message
  BY DEF Takes, IInv, Types, Request
<1>2. toServer' \in Seq(Message)  BY <1>1
<1>3. Asking(toServer) = Asking(<<Request>>) \o Asking(toServer')
  BY <1>1, AskingHead DEF Request
<1>4. Asking(<<Request>>) = <<Request.tid>>  BY <1>1, AskingOne
<1> DEFINE a == <<Request.tid>>
<1>5. a \in Seq(Nat)  BY <1>1 DEF Message
<1>6. Pending = << >> /\ Pending' = << >>  BY DEF Pending
<1>7. Done = answered /\ Done' = answered' /\ answered \in Seq(Nat)
  <2>1. answered \in Seq(Nat)  BY DEF Ordered
  <2>2. answered \o a \in Seq(Nat)  BY <1>5, <2>1
  <2>3. answered' \in Seq(Nat)  BY <2>2
  <2> QED  BY <1>6, <2>1, <2>3 DEF Done
<1> HIDE DEF a
<1>8. Asking(toServer) = a \o Asking(toServer')  BY <1>3, <1>4 DEF a
<1>9. Done' = Done \o a /\ answered' \in Seq(Nat)
  BY <1>5, <1>7 DEF a
<1> QED  BY <1>1, <1>2, <1>5, <1>8, <1>9, GoesOnOrdered

(* The server says something without taking anything.                      *)
LEMMA SaysOrdered ==
  ASSUME Ordered, IInv, UNCHANGED <<asked, toServer>>, spc # "leaving",
         NEW b \in Seq(Nat), answered' = answered \o b,
         \/ Pending = b /\ Pending' = << >>
         \/ Pending' = Pending /\ b = << >>
         \/ b = << >> /\ spc' = "leaving"
  PROVE  Ordered'
<1>0. answered \in Seq(Nat) /\ Pending \in Seq(Nat) /\ Done \in Seq(Nat)
  BY DoneType DEF Ordered
<1>1. answered' \in Seq(Nat)
  <2>1. answered \o b \in Seq(Nat)  BY <1>0
  <2> QED  BY <2>1
<1>2. b = << >> => answered' = answered  BY <1>0
<1>3. CASE b = << >> /\ spc' = "leaving"  BY <1>2, <1>3, LeavesOrdered
<1>4. CASE Done' = Done
  <2>1. toServer \in Seq(Message)  BY DEF IInv, Types
  <2>2. << >> \in Seq(Nat) /\ Asking(toServer) \in Seq(Nat)
    BY <2>1, AskingType
  <2>3. Done' = Done \o << >>
    <3> HIDE DEF Done
    <3>1. Done \o << >> = Done  BY <1>0
    <3> QED  BY <1>4, <3>1
  <2>4. Asking(toServer) = << >> \o Asking(toServer')
    <3> DEFINE c == Asking(toServer)
    <3>1. c \in Seq(Nat)  BY <2>2
    <3> HIDE DEF c
    <3>2. << >> \o c = c  BY <3>1
    <3> QED  BY <3>2 DEF c
  <2> QED  BY <1>1, <2>1, <2>2, <2>3, <2>4, GoesOnOrdered
<1>5. CASE Pending = b /\ Pending' = << >>
  <2>1. answered' \o << >> = answered'  BY <1>1
  <2>2. Done' = Done  BY <1>5, <2>1 DEF Done
  <2> QED  BY <1>4, <2>2
<1>6. CASE Pending' = Pending /\ b = << >>
  <2>1. Done' = Done  BY <1>2, <1>6 DEF Done
  <2> QED  BY <1>4, <2>1
<1> QED  BY <1>3, <1>5, <1>6

(* Joining sequences of messages is associative.                           *)
LEMMA JoinsMessages ==
  ASSUME NEW x \in Seq(Message), NEW y \in Seq(Message)
  PROVE  /\ x \o y \in Seq(Message) /\ Len(x \o y) = Len(x) + Len(y)
         /\ \A i \in 1..Len(x) : (x \o y)[i] = x[i]
         /\ \A i \in 1..Len(y) : (x \o y)[Len(x) + i] = y[i]
OBVIOUS

(* Messages with one result among them answer one request.                 *)
LEMMA AnswersOnce ==
  ASSUME NEW ms \in Seq(Message), NEW j \in 1..Len(ms),
         ms[j].kind \in Results,
         \A i \in 1..Len(ms) : i # j => ms[i].kind \notin Results
  PROVE  Answering(ms) = <<ms[j].tid>>
<1> DEFINE a == SubSeq(ms, 1, j - 1)
           b == <<ms[j]>>
           c == SubSeq(ms, j + 1, Len(ms))
           d == b \o c
<1>1. /\ a \in Seq(Message) /\ Len(a) = j - 1
      /\ \A i \in 1..Len(a) : a[i] = ms[i]
  OBVIOUS
<1>2. b \in Seq(Message) /\ Len(b) = 1 /\ b[1] = ms[j]  OBVIOUS
<1>3. /\ c \in Seq(Message) /\ Len(c) = Len(ms) - j
      /\ \A i \in 1..Len(c) : c[i] = ms[j + i]
  OBVIOUS
<1> HIDE DEF a, b, c
<1>4. /\ d \in Seq(Message) /\ Len(d) = Len(ms) - j + 1
      /\ \A i \in 1..Len(d) : d[i] = ms[(j - 1) + i]
  <2>1. /\ d \in Seq(Message) /\ Len(d) = Len(b) + Len(c)
        /\ \A i \in 1..Len(b) : d[i] = b[i]
        /\ \A i \in 1..Len(c) : d[Len(b) + i] = c[i]
    BY <1>2, <1>3, JoinsMessages
  <2> HIDE DEF d
  <2>2. ASSUME NEW i \in 1..Len(d)  PROVE d[i] = ms[(j - 1) + i]
    <3>1. CASE i = 1
      <4>1. d[i] = b[1] /\ (j - 1) + i = j  BY <1>2, <2>1, <3>1
      <4> QED  BY <4>1, <1>2
    <3>2. CASE i # 1
      <4>1. i - 1 \in 1..Len(c) /\ j + (i - 1) = (j - 1) + i
        BY <1>2, <1>3, <2>1, <3>2
      <4>2. d[i] = c[i - 1]
        <5>1. d[Len(b) + (i - 1)] = c[i - 1]  BY <2>1, <4>1
        <5>2. Len(b) + (i - 1) = i  BY <1>2
        <5> QED  BY <5>1, <5>2
      <4>3. c[i - 1] = ms[j + (i - 1)]  BY <1>3, <4>1
      <4> QED  BY <4>1, <4>2, <4>3
    <3> QED  BY <3>1, <3>2
  <2> QED  BY <1>2, <1>3, <2>1, <2>2
<1> HIDE DEF d
<1>5. ms = a \o d
  <2>1. Len(ms) = Len(a) + Len(d)  BY <1>1, <1>4
  <2>2. \A i \in 1..Len(a) : ms[i] = a[i]  BY <1>1
  <2>3. \A i \in 1..Len(d) : ms[Len(a) + i] = d[i]  BY <1>1, <1>4
  <2> QED  BY <1>1, <1>4, <2>1, <2>2, <2>3, Joined
<1>6. Answering(a) = << >> /\ Answering(c) = << >>
  <2>1. \A i \in DOMAIN a : a[i].kind \notin Results
    <3>1. ASSUME NEW i \in DOMAIN a  PROVE a[i].kind \notin Results
      <4>1. i \in 1..Len(a) /\ i \in 1..Len(ms) /\ i # j  BY <1>1
      <4> QED  BY <1>1, <4>1
    <3> QED  BY <3>1
  <2>2. \A i \in DOMAIN c : c[i].kind \notin Results
    <3>1. ASSUME NEW i \in DOMAIN c  PROVE c[i].kind \notin Results
      <4>1. i \in 1..Len(c) /\ j + i \in 1..Len(ms) /\ j + i # j  BY <1>3
      <4> QED  BY <1>3, <4>1
    <3> QED  BY <3>1
  <2> QED  BY <1>1, <1>3, <2>1, <2>2, AskingNone
<1>7. Answering(b) = <<ms[j].tid>> /\ ms[j].tid \in Nat
  <2>1. ms[j] \in Message  OBVIOUS
  <2> QED  BY <2>1, AskingOne DEF b, Message
<1>8. Answering(ms) = Answering(a) \o Answering(d)
  BY <1>1, <1>4, <1>5, AskingConcat
<1>9. Answering(d) = Answering(b) \o Answering(c)
  BY <1>2, <1>3, AskingConcat DEF d
<1> DEFINE one == <<ms[j].tid>>
<1>10. one \in Seq(Nat)  BY <1>7
<1> HIDE DEF one
<1>11. one \o << >> = one /\ << >> \o one = one  BY <1>10
<1> QED  BY <1>6, <1>7, <1>8, <1>9, <1>11 DEF one

(* Every step of the server.                                               *)
LEMMA ServerTakesOrdered ==
  ASSUME SInv, Ordered, UNCHANGED clientVars, Takings
  PROVE  Ordered'
<1>0. /\ UNCHANGED asked /\ IInv /\ toServer \in Seq(Message)
      /\ answered \in Seq(Nat)
  BY DEF clientVars, SInv, IInv, Types, Ordered
<1> USE StreamIdAssumption
<1>1. ASSUME NEW kinds, NEW m \in Message, NEW next, Takes(kinds),
             SetsClient(<<m>>, next)
      PROVE  /\ spc' = next
             /\ m.kind \in Results => answered' = answered \o <<m.tid>>
             /\ m.kind \notin Results => answered' = answered
  <2>1. answered' = answered \o Answering(<<m>>) /\ spc' = next
    BY <1>1 DEF SetsClient, Answering
  <2>2. answered \o << >> = answered  BY <1>0
  <2> QED  BY <2>1, <2>2, AskingOne
<1>2. ASSUME NEW kinds, Takes(kinds)
      PROVE  Request \in Message /\ Request.kind \in kinds
  BY <1>0, <1>2 DEF Takes, Request
<1>3. CASE TakesC0C1
  <2>1. /\ Takes({"c0c1"}) /\ SetsClient(<<Plain("s0s1s2")>>, "reading_c2")
        /\ spc = "shaking"
    BY <1>3 DEF TakesC0C1
  <2>2. Plain("s0s1s2") \in Message /\ Plain("s0s1s2").kind \notin Results
    BY PlainMessages DEF Kinds, Results
  <2>3. spc' = "reading_c2" /\ answered' = answered  BY <1>1, <2>1, <2>2
  <2>4. Pending' = Pending /\ Request.kind \notin Requests
    BY <1>2, <2>1, <2>3 DEF Pending, Requests, FMLEStart
  <2> QED  BY <1>0, <2>1, <2>3, <2>4, TakesQuietly
<1>4. CASE TakesFastHandshake
  <2>1. PICK next \in {"identified", "playing"} :
           /\ Takes({"fastHs"}) /\ SetsClient(<<Plain("fastHsRes")>>, next)
           /\ spc = "shaking"
    BY <1>4 DEF TakesFastHandshake
  <2>2. Plain("fastHsRes") \in Message /\ Plain("fastHsRes").kind \notin Results
    BY PlainMessages DEF Kinds, Results
  <2>3. spc' = next /\ answered' = answered  BY <1>1, <2>1, <2>2
  <2>4. Pending' = Pending /\ Request.kind \notin Requests
    BY <1>2, <2>1, <2>3 DEF Pending, Requests, FMLEStart
  <2> QED  BY <1>0, <2>1, <2>3, <2>4, TakesQuietly
<1>5. CASE \/ TakesC2 \/ RefusesFastHandshake \/ IdentifiesPlay
           \/ IdentifiesFlashPublish \/ TakesMedia
  <2>1. PICK kinds : /\ Takes(kinds) /\ kinds \cap Requests = {}
                     /\ UNCHANGED answered /\ spc # "leaving"
                     /\ Pending' = Pending \/ spc' = "leaving"
    <3>1. CASE TakesC2
      BY <3>1 DEF TakesC2, Pending, Requests, FMLEStart
    <3>2. CASE RefusesFastHandshake
      BY <3>2 DEF RefusesFastHandshake, Pending, Requests, FMLEStart
    <3>3. CASE IdentifiesPlay
      BY <3>3 DEF IdentifiesPlay, PlayLevels, Pending, Requests, FMLEStart
    <3>4. CASE IdentifiesFlashPublish
      BY <3>4 DEF IdentifiesFlashPublish, Pending, Requests, FMLEStart
    <3>5. CASE TakesMedia
      BY <3>5 DEF TakesMedia, Pending, Requests, FMLEStart
    <3> QED  BY <1>5, <3>1, <3>2, <3>3, <3>4, <3>5
  <2>2. Request.kind \notin Requests  BY <1>2, <2>1
  <2> QED  BY <1>0, <2>1, <2>2, TakesQuietly
<1>6. CASE Ignores
  <2>1. /\ Takes(Kinds \ Awaited[spc]) /\ spc \in DOMAIN Awaited
        /\ UNCHANGED <<spc, answered>>
    BY <1>6 DEF Ignores
  <2>2. spc # "leaving"  BY <2>1 DEF Awaited
  <2>3. Pending' = Pending  BY <2>1 DEF Pending
  <2> QED  BY <1>0, <1>6, <2>1, <2>2, <2>3, IgnoresNoRequest, TakesQuietly
<1>7. CASE TakesConnect
  <2>1. /\ Takes({"connect"}) /\ spc = "connecting" /\ spc' = "deciding"
        /\ answered' = answered
    BY <1>7 DEF TakesConnect
  <2>2. /\ toServer # << >> /\ toServer' = Tail(toServer)
        /\ Request.kind = "connect" /\ Request \in Message
    <3>1. toServer # << >> /\ toServer' = Tail(toServer)
      BY <2>1 DEF Takes
    <3> QED  BY <1>2, <2>1, <3>1
  <2>3. Request.tid = 1
    <3>1. Request = toServer[1] /\ 1 \in DOMAIN toServer
      BY <1>0, <2>2 DEF Request
    <3>2. GoodRequest(Request)  BY <1>0, <3>1 DEF IInv
    <3>3. Request.tid \in Tids /\ "connect" \in Allowed(Request.tid)
      BY <2>2, <3>2 DEF GoodRequest, Sent, Requests
    <3> QED  BY <3>3 DEF Tids, Allowed
  <2>4. Asking(<<Request>>) = <<1>>
    BY <2>2, <2>3, AskingOne DEF Requests
  <2>5. Asking(toServer) = Asking(<<Request>>) \o Asking(toServer')
    BY <1>0, <2>2, AskingHead DEF Request
  <2>6. Pending = << >> /\ Pending' = <<1>>  BY <2>1 DEF Pending
  <2>7. Done = answered /\ Done' = answered \o <<1>>
    BY <1>0, <2>1, <2>6 DEF Done
  <2>8. Done' = Done \o <<1>>  BY <2>7
  <2>9. Asking(toServer) = <<1>> \o Asking(toServer')  BY <2>4, <2>5
  <2>10. <<1>> \in Seq(Nat) /\ toServer' \in Seq(Message)
        /\ answered' \in Seq(Nat) /\ spc # "leaving"
    BY <1>0, <2>1, <2>2
  <2> QED  BY <1>0, <2>8, <2>9, <2>10, GoesOnOrdered
<1>8. CASE IdentifiesByCreateStream \/ TakesCreateStream
  <2> DEFINE m == [Call("streamRes", Request.tid) EXCEPT !.data = StreamId]
  <2>1. PICK next \in {"created", "publish"} :
           /\ Takes({"createStream"}) /\ SetsClient(<<m>>, next)
           /\ spc \in {"identifying", "created", "create_stream"}
    BY <1>8 DEF IdentifiesByCreateStream, TakesCreateStream
  <2>2. Request \in Message /\ Request.kind \in Requests
    BY <1>2, <2>1 DEF Requests
  <2>3. m \in Message /\ m.kind \in Results /\ m.tid = Request.tid
    BY <2>2 DEF Message, Call, Kinds, Results
  <2> HIDE DEF m
  <2>4. spc' = next /\ answered' = answered \o <<Request.tid>>
    BY <1>1, <2>1, <2>3
  <2> QED  BY <1>0, <2>1, <2>2, <2>4, TakesAndAnswers
<1>9. CASE IdentifiesFmlePublish \/ TakesFCPublish
  <2> DEFINE m == Call("fmleRes", Request.tid)
  <2>1. PICK next \in {"identified", "create_stream"} :
           /\ Takes(FMLEStart) /\ SetsClient(<<m>>, next)
           /\ spc \in {"identifying", "fc_publish"}
    BY <1>9 DEF IdentifiesFmlePublish, TakesFCPublish, FmleAnswer
  <2>2. Request \in Message /\ Request.kind \in Requests
    BY <1>2, <2>1 DEF Requests
  <2>3. m \in Message /\ m.kind \in Results /\ m.tid = Request.tid
    BY <2>2 DEF Message, Call, Kinds, Results
  <2> HIDE DEF m
  <2>4. spc' = next /\ answered' = answered \o <<Request.tid>>
    BY <1>1, <2>1, <2>3
  <2> QED  BY <1>0, <2>1, <2>2, <2>4, TakesAndAnswers
<1>10. CASE TakesUnpublish
  <2> DEFINE m == [Call("fmleRes", Request.tid) EXCEPT !.sid = StreamId]
             first == Over(StreamId, "onFCUnpublish")
             last == Over(StreamId, "unpublishSuccess")
             ms == <<first, m, last>>
  <2>1. /\ Takes({"FCUnpublish"}) /\ SetsClient(ms, "identifying")
        /\ spc = "publishing"
    BY <1>10 DEF TakesUnpublish
  <2>2. Request \in Message /\ Request.kind \in Requests
    BY <1>2, <2>1 DEF Requests, FMLEStart
  <2>3. m \in Message /\ m.kind \in Results /\ m.tid = Request.tid
    BY <2>2 DEF Message, Call, Kinds, Results
  <2>4. /\ first \in Message /\ last \in Message
        /\ first.kind \notin Results /\ last.kind \notin Results
    BY PlainMessages DEF Kinds, Results
  <2> HIDE DEF m, first, last
  <2>5. /\ ms \in Seq(Message) /\ Len(ms) = 3
        /\ ms[1] = first /\ ms[2] = m /\ ms[3] = last
    BY <2>3, <2>4
  <2> HIDE DEF ms
  <2>6. \A i \in 1..Len(ms) : i # 2 => ms[i].kind \notin Results
    BY <2>4, <2>5
  <2>7. 2 \in 1..Len(ms) /\ ms[2].kind \in Results  BY <2>3, <2>5
  <2>8. Answering(ms) = <<ms[2].tid>>  BY <2>5, <2>6, <2>7, AnswersOnce
  <2>9. spc' = "identifying" /\ answered' = answered \o Answering(ms)
    BY <2>1 DEF SetsClient, Answering
  <2>10. answered' = answered \o <<Request.tid>>
    BY <2>3, <2>5, <2>8, <2>9
  <2> QED  BY <1>0, <2>1, <2>2, <2>9, <2>10, TakesAndAnswers
<1>11. CASE TakesPublish
  <2> DEFINE ms == <<Over(StreamId, "onFCPublish"),
                     Over(StreamId, "publishStart")>>
  <2>1. /\ Takes({"publish"}) /\ SetsClient(ms, "publishing")
        /\ spc = "publish"
    BY <1>11 DEF TakesPublish
  <2>2. /\ ms \in Seq(Message)
        /\ \A i \in DOMAIN ms : ms[i].kind \notin Results
    BY DEF Over, Message, Kinds, Results
  <2> HIDE DEF ms
  <2>3. Answering(ms) = << >>  BY <2>2, AskingNone
  <2>4. spc' = "publishing" /\ answered' = answered \o << >>
    BY <2>1, <2>3 DEF SetsClient, Answering
  <2>5. answered' = answered  BY <1>0, <2>4
  <2>6. Pending' = Pending /\ Request.kind \notin Requests
    BY <1>2, <2>1, <2>4 DEF Pending, Requests, FMLEStart
  <2> QED  BY <1>0, <2>1, <2>5, <2>6, TakesQuietly
<1>12. CASE RefusesPublish
  <2> DEFINE m == Over(StreamId, "publishRefused")
  <2>1. /\ Takes({"publish"}) /\ SetsClient(<<m>>, "leaving")
        /\ spc = "publish"
    BY <1>12 DEF RefusesPublish
  <2>2. m \in Message /\ m.kind \notin Results
    BY PlainMessages DEF Kinds, Results
  <2> HIDE DEF m
  <2>3. spc' = "leaving" /\ answered' = answered  BY <1>1, <2>1, <2>2
  <2> QED  BY <1>0, <2>3, LeavesOrdered
<1> QED  BY <1>3, <1>4, <1>5, <1>6, <1>7, <1>8, <1>9, <1>10, <1>11, <1>12
         DEF Takings

(* What the server says of itself answers nothing.                         *)
LEMMA ServerSaysOrdered ==
  ASSUME IInv, Ordered, UNCHANGED clientVars, Sayings
  PROVE  Ordered'
<1>0. UNCHANGED asked /\ answered \in Seq(Nat)  BY DEF clientVars, Ordered
<1>1. ASSUME NEW ms \in Seq(Message), NEW next, Answers(ms, next),
             \A i \in DOMAIN ms : ms[i].kind \notin Results,
             spc \in {"deciding", "redirecting", "identified"},
             spc = "deciding" => next \in {"leaving", "redirecting"},
             spc = "redirecting" => next = "leaving",
             spc = "identified" => next \in {"playing", "publishing",
                                             "fc_publish"}
      PROVE  Ordered'
  <2>1. Answering(ms) = << >>  BY <1>1, AskingNone
  <2>2. /\ spc' = next /\ UNCHANGED toServer
        /\ answered' = answered \o Answering(ms)
    BY <1>1 DEF Answers, SetsClient, Answering
  <2>3. \/ Pending' = Pending
        \/ spc' = "leaving"
    BY <1>1, <2>2 DEF Pending
  <2>4. << >> \in Seq(Nat) /\ answered' = answered \o << >> /\ spc # "leaving"
    BY <1>1, <2>1, <2>2
  <2> QED  BY <1>0, <2>2, <2>3, <2>4, SaysOrdered
<1>2. CASE Accepts
  <2>1. PICK done \in {<<Plain("onBWDone")>>, << >>} :
          Answers(<<Plain("windowAck"), Plain("peerBandwidth"),
                    Plain("chunkSize"), Call("connectRes", 1)>> \o done,
                  "identifying")
    BY <1>2 DEF Accepts
  <2> DEFINE settings == <<Plain("windowAck"), Plain("peerBandwidth"),
                           Plain("chunkSize"), Call("connectRes", 1)>>
  <2>2. /\ settings \in Seq(Message) /\ Len(settings) = 4
        /\ 4 \in 1..Len(settings)
        /\ settings[4].kind \in Results /\ settings[4].tid = 1
        /\ \A i \in 1..Len(settings) :
               i # 4 => settings[i].kind \notin Results
    BY DEF Plain, Call, Message, Kinds, Results
  <2>3. done \in Seq(Message) /\ Answering(done) = << >>
    <3>1. CASE done = << >>
      <4>1. << >> \in Seq(Message)
            /\ \A i \in DOMAIN << >> : << >>[i].kind \notin Results
        OBVIOUS
      <4> QED  BY <3>1, <4>1, AskingNone
    <3>2. CASE done = <<Plain("onBWDone")>>
      <4>1. Plain("onBWDone") \in Message /\ Plain("onBWDone").kind \notin Results
        BY PlainMessages DEF Kinds, Results
      <4>2. Answering(<<Plain("onBWDone")>>) = << >>  BY <4>1, AskingOne
      <4>3. <<Plain("onBWDone")>> \in Seq(Message)  BY <4>1
      <4> QED  BY <3>2, <4>2, <4>3
    <3> QED  BY <3>1, <3>2
  <2>4. Answers(settings \o done, "identifying") /\ spc = "deciding"
    BY <1>2, <2>1 DEF Accepts
  <2> HIDE DEF settings
  <2>5. Answering(settings) = <<1>>
    <3>1. Answering(settings) = <<settings[4].tid>>  BY <2>2, AnswersOnce
    <3> QED  BY <2>2, <3>1
  <2>6. Answering(settings \o done) = <<1>>
    <3>1. Answering(settings \o done) = <<1>> \o << >>
      BY <2>2, <2>3, <2>5, AskingConcat
    <3> QED  BY <3>1
  <2>7. /\ answered' = answered \o <<1>> /\ spc' = "identifying"
        /\ UNCHANGED toServer
    BY <2>4, <2>6 DEF Answers, SetsClient, Answering
  <2>8. Pending = <<1>> /\ Pending' = << >> /\ <<1>> \in Seq(Nat)
    BY <2>4, <2>7 DEF Pending
  <2> QED  BY <1>0, <2>4, <2>7, <2>8, SaysOrdered
<1>3. CASE Rejects \/ Redirects
  <2> DEFINE ms == <<Plain("rejected")>>
  <2>1. /\ ms \in Seq(Message)
        /\ \A i \in DOMAIN ms : ms[i].kind \notin Results
    BY DEF Plain, Message, Kinds, Results
  <2>2. PICK next \in {"leaving", "redirecting"} :
          Answers(ms, next) /\ spc = "deciding"
    BY <1>3 DEF Rejects, Redirects
  <2> HIDE DEF ms
  <2> QED  BY <1>1, <2>1, <2>2
<1>4. CASE RedirectTimesOut \/ StartFmlePublish
  <2>1. /\ << >> \in Seq(Message)
        /\ \A i \in DOMAIN << >> : << >>[i].kind \notin Results
    OBVIOUS
  <2>2. \/ Answers(<< >>, "leaving") /\ spc = "redirecting"
        \/ Answers(<< >>, "fc_publish") /\ spc = "identified"
    BY <1>4 DEF RedirectTimesOut, StartFmlePublish
  <2> QED  BY <1>1, <2>1, <2>2
<1>5. CASE StartPlay
  <2> DEFINE ms == <<Plain("streamBegin"), Over(StreamId, "playReset"),
                 Over(StreamId, "playStart"), Over(StreamId, "sampleAccess"),
                 Over(StreamId, "dataStart")>>
  <2>1. /\ ms \in Seq(Message)
        /\ \A i \in DOMAIN ms : ms[i].kind \notin Results
    BY StreamIdAssumption DEF Plain, Over, Message, Kinds, Results
  <2>2. Answers(ms, "playing") /\ spc = "identified"  BY <1>5 DEF StartPlay
  <2> HIDE DEF ms
  <2> QED  BY <1>1, <2>1, <2>2
<1>6. CASE StartFlashPublish
  <2> DEFINE ms == <<Over(StreamId, "publishStart")>>
  <2>1. /\ ms \in Seq(Message)
        /\ \A i \in DOMAIN ms : ms[i].kind \notin Results
    BY StreamIdAssumption DEF Over, Message, Kinds, Results
  <2>2. Answers(ms, "publishing") /\ spc = "identified"
    BY <1>6 DEF StartFlashPublish
  <2> HIDE DEF ms
  <2> QED  BY <1>1, <2>1, <2>2
<1>7. CASE ServesMedia \/ ServesAggregate \/ Pings \/ Closes
  <2>1. UNCHANGED <<answered, spc, toServer>>
    BY <1>7 DEF ServesMedia, ServesAggregate, Pings, Closes, serverVars
  <2> QED  BY <1>0, <2>1, StaysOrdered
<1> QED  BY <1>2, <1>3, <1>4, <1>5, <1>6, <1>7 DEF Sayings

-----------------------------------------------------------------------------
(* Together with the script the order is inductive.                        *)
OInv == SInv /\ Ordered

(* Nothing is asked or answered at first.                                  *)
LEMMA InitOrder == Init => OInv
<1> SUFFICES ASSUME Init  PROVE OInv
  OBVIOUS
<1>1. SInv  BY InitScript
<1>2. /\ asked = << >> /\ answered = << >> /\ toServer = << >>
      /\ spc = "shaking"
  BY DEF Init, ClientInit, ServerInit, WireInit
<1>3. << >> \in Seq(Nat) /\ << >> \o << >> = << >>  OBVIOUS
<1>4. Asking(<< >>) = << >>
  <2>1. << >> \in Seq(Message)
        /\ \A i \in DOMAIN << >> : << >>[i].kind \notin Requests
    OBVIOUS
  <2> QED  BY <2>1, AskingNone
<1>5. Done = << >>  BY <1>2, <1>3 DEF Done, Pending
<1>6. asked = answered \o << >>  BY <1>2, <1>3
<1>7. asked = Done \o Asking(toServer)  BY <1>2, <1>3, <1>4, <1>5
<1>8. Ordered  BY <1>2, <1>3, <1>6, <1>7 DEF Ordered
<1> QED  BY <1>1, <1>8 DEF OInv

(* Every step keeps the answers in the order of the requests.              *)
LEMMA NextOrder ==
  ASSUME OInv, [Next]_vars
  PROVE  OInv'
<1>1. SInv'  BY NextScript DEF OInv
<1>2. SInv /\ IInv /\ Ordered  BY DEF OInv, SInv
<1>3. CASE Client
  <2>1. UNCHANGED serverVars  BY <1>3 DEF Client
  <2>2. \/ Sendings \/ SendFails \/ NothingArrives
        \/ ReadPacket \/ OnAggregate \/ ReadPart
        \/ DropsMessage \/ EndsWait \/ ReadS0S1S2 \/ ReadFastHandshakeRes
    BY <1>3 DEF Client, ClientStep, GivesUp, Sendings
  <2>3. Ordered'  BY <1>2, <2>1, <2>2, ClientOrdered
  <2> QED  BY <1>1, <2>3 DEF OInv
<1>4. CASE Server \/ Unbidden
  <2>1. UNCHANGED clientVars /\ (Takings \/ Sayings)
    BY <1>4 DEF Server, ServerStep, Unbidden, Takings, Sayings
  <2>2. Ordered'  BY <1>2, <2>1, ServerTakesOrdered, ServerSaysOrdered
  <2> QED  BY <1>1, <2>2 DEF OInv
<1>5. CASE UNCHANGED vars
  <2>1. UNCHANGED <<asked, answered, spc, toServer>>
    BY <1>5 DEF vars, clientVars, serverVars, wireVars
  <2>2. Ordered'  BY <1>2, <2>1, StaysOrdered
  <2> QED  BY <1>1, <2>2 DEF OInv
<1> QED  BY <1>3, <1>4, <1>5 DEF Next

(* Once the server has started a client, only the end of publishing can be *)
(* unanswered.                                                             *)
LEMMA OnlyUnpublish ==
  ASSUME SInv, spc \in {"publishing", "playing"}, NEW i \in DOMAIN toServer,
         toServer[i].kind \in Requests
  PROVE  i = Len(toServer) /\ toServer[i].kind = "FCUnpublish"
<1>1. PICK k, n \in Nat : OnItsWay(k, n) /\ ClientAt(n) /\ ServerAt(k, n)
  BY DEF SInv, InScript
<1>0. produced \in Nat /\ toServer \in Seq(Message)
  BY DEF SInv, IInv, Types
<1>2. /\ Len(toServer) = n - k /\ i \in 1..(n - k)
      /\ i + k \in (k + 1)..n /\ (i + k) - k = i
  BY <1>0, <1>1 DEF OnItsWay
<1>3. toServer[i].kind = Line[i + k]
  <2>1. toServer[(i + k) - k].kind = Line[i + k]
    BY <1>1, <1>2 DEF OnItsWay
  <2> QED  BY <1>2, <2>1
<1>4. CASE spc = "playing"
  <2>1. Line[i + k] \in Requests  BY <1>3
  <2>2. \/ purpose = "play" /\ k \in 6..8
        \/ purpose = "fast" /\ k = 1
    BY <1>1, <1>4 DEF ServerAt
  <2>3. n <= Opening
    <3>1. produced = 0 /\ cpc # "unpublished"
      BY <1>0, <1>1, <2>2 DEF ClientAt
    <3> QED  BY <1>1, <2>2, <3>1, ScriptLines DEF ClientAt
  <2>4. purpose = "play" /\ i + k \in {7, 8}
    BY <1>2, <2>2, <2>3, ScriptLines
  <2>5. Line[i + k] \in {"bufferLength", "chunkSize"}  BY <2>4, ScriptLines
  <2> QED  BY <2>1, <2>5 DEF Requests, FMLEStart
<1>5. CASE spc = "publishing"
  <2>1. /\ k = Opening + Len(taken) /\ Opening \in Nat /\ Len(taken) \in Nat
        /\ i + k \in Nat /\ i + k > Opening
    <3>1. /\ k = Opening + Len(taken) /\ purpose \in {"publish", "flash"}
          /\ taken \in Seq(Nat)
      BY <1>1, <1>5 DEF ServerAt
    <3>2. Opening \in Nat /\ Len(taken) \in Nat  BY <3>1, ScriptLines
    <3>3. i \in Nat /\ i >= 1 /\ k \in Nat  BY <1>2
    <3>4. i + k \in Nat  BY <3>3
    <3>5. i + k > Opening
      <4>1. \A a, b, c \in Nat : a >= 1 => a + (b + c) > b  OBVIOUS
      <4> QED  BY <3>1, <3>2, <3>3, <4>1
    <3> QED  BY <3>1, <3>2, <3>4, <3>5
  <2>2. Line[i + k] = IF i + k <= Opening + MaxMedia THEN "media"
                      ELSE "FCUnpublish"
    BY <2>1, MediaLines
  <2>3. ~(i + k <= Opening + MaxMedia)
    BY <1>3, <2>2 DEF Requests, FMLEStart
  <2>4. n <= Opening + MaxMedia + 1
    BY <1>0, <1>1, <2>1, MediaAssumption DEF ClientAt
  <2>5. toServer[i].kind = "FCUnpublish"  BY <1>3, <2>2, <2>3
  <2>6. i + k = n
    <3>1. i + k <= n  BY <1>2
    <3>2. \A a, b, c \in Nat : ~(a <= b) /\ c <= b + 1 /\ a <= c => a = c
      OBVIOUS
    <3>3. Opening + MaxMedia \in Nat  BY <2>1, MediaAssumption
    <3> QED  BY <2>1, <2>3, <2>4, <3>1, <3>2, <3>3
  <2> QED  BY <1>2, <2>5, <2>6
<1> QED  BY <1>4, <1>5

(* Every request is answered once and in the order of the requests, and a  *)
(* started publisher or player has none left without an answer but the one *)
(* that ends its publishing: for every set of purposes, every stream id    *)
(* and any amount of media and pings.                                      *)
THEOREM RequestsAnsweredInOrder == Spec => []AnsweredInOrder
<1>1. Init => OInv  BY InitOrder
<1>2. OInv /\ [Next]_vars => OInv'  BY NextOrder
<1>3. OInv => AnsweredInOrder
  <2> SUFFICES ASSUME OInv  PROVE AnsweredInOrder
    OBVIOUS
  <2>0. SInv /\ Ordered /\ toServer \in Seq(Message)
    BY DEF OInv, SInv, IInv, Types
  <2>1. IsPrefix(answered, asked)
    <3>1. PICK rest \in Seq(Nat) : asked = answered \o rest
      BY <2>0 DEF Ordered
    <3>2. answered \in Seq(Nat)  BY <2>0 DEF Ordered
    <3> DEFINE all == answered \o rest
    <3>3. /\ all \in Seq(Nat) /\ Len(answered) \in Nat
          /\ Len(all) = Len(answered) + Len(rest)
          /\ \A i \in 1..Len(answered) : all[i] = answered[i]
      BY <3>1, <3>2
    <3> HIDE DEF all
    <3>4. Len(answered) <= Len(all)  BY <3>1, <3>3
    <3>5. SubSeq(answered, 1, Len(answered)) = SubSeq(all, 1, Len(answered))
      <4>1. SubSeq(answered, 1, Len(answered))
               = [i \in 1..Len(answered) |-> answered[i]]
        BY <3>2
      <4>2. SubSeq(all, 1, Len(answered)) = [i \in 1..Len(answered) |-> all[i]]
        BY <3>3, <3>4
      <4> QED  BY <3>3, <4>1, <4>2
    <3> QED  BY <3>1, <3>4, <3>5 DEF IsPrefix, all
  <2>2. ASSUME spc \in {"publishing", "playing"}
        PROVE  Len(asked) - Len(answered) \in
                  {0} \cup {1 : m \in {n \in ToSet(toServer) :
                                          n.kind = "FCUnpublish"}}
    <3> DEFINE left == Asking(toServer)
    <3>1. left \in Seq(Nat) /\ answered \in Seq(Nat)
      BY <2>0, AskingType DEF Ordered
    <3>2. Done = answered
      <4>1. Pending = << >>  BY <2>2 DEF Pending
      <4>2. answered \o << >> = answered  BY <3>1
      <4> QED  BY <4>1, <4>2 DEF Done
    <3>3. asked = answered \o left  BY <2>0, <2>2, <3>2 DEF Ordered
    <3> HIDE DEF left
    <3>4. Len(asked) - Len(answered) = Len(left)  BY <3>1, <3>3
    <3>5. CASE \A i \in DOMAIN toServer : toServer[i].kind \notin Requests
      <4>1. left = << >>  BY <2>0, <3>5, AskingNone DEF left
      <4> QED  BY <3>4, <4>1
    <3>6. CASE \E i \in DOMAIN toServer : toServer[i].kind \in Requests
      <4>1. PICK i \in DOMAIN toServer : toServer[i].kind \in Requests
        BY <3>6
      <4>2. i = Len(toServer) /\ toServer[i].kind = "FCUnpublish"
        BY <2>0, <2>2, <4>1, OnlyUnpublish
      <4>3. toServer[i] \in {n \in ToSet(toServer) : n.kind = "FCUnpublish"}
        BY <2>0, <4>1, <4>2 DEF ToSet
      <4>4. Len(left) = 1
        <5>1. PICK front \in Seq(Message), last \in Message :
                 toServer = Append(front, last)
          <6>1. toServer # << >>  BY <2>0, <4>1
          <6> QED  BY <2>0, <6>1, SequenceEmptyOrAppend
        <5>2. /\ Len(toServer) = Len(front) + 1 /\ Len(front) \in Nat
              /\ toServer[Len(toServer)] = last
              /\ \A j \in 1..Len(front) : toServer[j] = front[j]
          BY <5>1
        <5>3. \A j \in DOMAIN front : front[j].kind \notin Requests
          <6>1. ASSUME NEW j \in DOMAIN front, front[j].kind \in Requests
                PROVE  FALSE
            <7>1. j \in 1..Len(front) /\ j \in DOMAIN toServer
              BY <2>0, <5>2
            <7>2. toServer[j].kind \in Requests  BY <5>2, <6>1, <7>1
            <7>3. j = Len(toServer)  BY <2>0, <2>2, <7>1, <7>2, OnlyUnpublish
            <7> QED  BY <5>2, <7>1, <7>3
          <6> QED  BY <6>1
        <5>4. Asking(front) = << >>  BY <5>3, AskingNone
        <5>5. last.kind \in Requests  BY <4>1, <4>2, <5>2
        <5>6. Asking(<<last>>) = <<last.tid>>  BY <5>5, AskingOne
        <5>7. toServer = front \o <<last>> /\ <<last>> \in Seq(Message)
          BY <5>1, AppendIsConcat
        <5>8. left = << >> \o <<last.tid>>
          BY <5>4, <5>6, <5>7, AskingConcat DEF left
        <5> QED  BY <5>8
      <4> QED  BY <3>4, <4>3, <4>4
    <3> QED  BY <3>5, <3>6
  <2> QED  BY <2>1, <2>2 DEF AnsweredInOrder
<1> QED  BY <1>1, <1>2, <1>3, PTL DEF Spec
=============================================================================
