------------------------------- MODULE Session -------------------------------
(***************************************************************************)
(* The client of ClientSession.tla and the server of ServerSession.tla     *)
(* over one connection.                                                    *)
(***************************************************************************)
EXTENDS ClientSession, ServerSession

VARIABLES
    slow,            \* answers may take longer than the client's timeout
    ahead            \* history: the pieces that were sent as second parts of
                     \* aggregates whose clock was ahead

vars == <<clientVars, serverVars, wireVars, slow, ahead>>

Init ==
    /\ ClientInit /\ ServerInit /\ WireInit
    /\ slow \in BOOLEAN /\ ahead = {}

(* A wait ends without a message when the connection is closed or the      *)
(* timeout strikes, which with a quick server only happens when the server *)
(* has nothing to say.                                                     *)
GivesUp == NothingArrives /\ (slow \/ ServerWaits)

SecondIfAhead(m) == IF m.base > m.data THEN {m.data + 1} ELSE {}

Client == (ClientStep \/ GivesUp) /\ UNCHANGED <<serverVars, slow, ahead>>
Server == ServerStep /\ UNCHANGED <<clientVars, slow, ahead>>
Unbidden ==
    /\ \/ ServesAggregate /\ ahead' = ahead \cup SecondIfAhead(Last(toClient'))
       \/ (ServesMedia \/ Pings \/ Closes) /\ UNCHANGED ahead
    /\ UNCHANGED <<clientVars, slow>>

(* Closes is fair where the server has decided to leave.                   *)
Leaves == spc = "leaving" /\ Closes /\ UNCHANGED <<clientVars, slow, ahead>>

Next == Client \/ Server \/ Unbidden

Spec ==
    /\ Init /\ [][Next]_vars
    /\ WF_vars(Client) /\ WF_vars(Server) /\ WF_vars(Leaves)

-----------------------------------------------------------------------------

(* Whatever arrives from this server while the client waits, a result that *)
(* comes late or behind other messages included, decodes: results are      *)
(* looked up under transaction ids that were recorded when they were sent, *)
(* and never under one that another command has taken since.               *)
NoUnknownResponse == fault = "none"

(* Every request is answered once and in the order of the requests, and a  *)
(* publisher that the server has started has none left unanswered.         *)
AnsweredInOrder ==
    /\ IsPrefix(answered, asked)
    /\ spc \in {"publishing", "playing"} =>
          Len(asked) - Len(answered) \in
              {0} \cup {1 : m \in {n \in ToSet(toServer) :
                                      n.kind = "FCUnpublish"}}

(* The server starts what the client came for, and over which stream a     *)
(* player and a flash publisher send is what the server told them.         *)
ServesItsPurpose ==
    /\ spc = "playing" => purpose \in {"play", "fast"}
    /\ spc = "publishing" => purpose \in {"publish", "flash"}
    /\ \A m \in ToSet(toServer) :
          m.kind \in {"play", "publish", "media"} /\ purpose # "publish" =>
              m.sid = StreamId

(* expect_message drops no media: none comes before the client has made    *)
(* all its waits.  What is received is what was sent, in order, and        *)
(* nothing is lost while the connection holds.  Pieces that come in an     *)
(* aggregate are given as if they had come alone: in their place and with  *)
(* their times, unless its own clock is ahead: then the second piece gets  *)
(* the time of the first (srs_rtmp_on_aggregate).                          *)
Upto(n) == [i \in 1..n |-> i]
TimeOf(i) == IF i \in ahead THEN i - 1 ELSE i

MediaIntact ==
    /\ dropped = 0
    /\ IsPrefix(played, [i \in 1..served |-> Piece(i, TimeOf(i))])
    /\ IsPrefix(taken, Upto(produced))
    /\ (~closed /\ toServer = << >>) => taken = Upto(produced)
    /\ (~closed /\ cpc = "playing" /\ toClient = << >> /\ msgs = << >>) =>
          Len(played) = served

(* With a server that answers in time and a connection that holds, a       *)
(* publish call that returns success has been accepted; and it only fails  *)
(* with a refusal if the server refused.                                   *)
PublishTellsOutcome ==
    /\ (cpc = "publishing" /\ purpose = "publish" /\ ~slow /\ ~closed) =>
          spc = "publishing"
    /\ cpc = "refused" => spc = "leaving"

(* What a client asked for is what the server starts, and what the client  *)
(* is told of it is true.                                                  *)
StartsAsAsked == ServesItsPurpose /\ PublishTellsOutcome

(* "create a stream, then play/publish data over this stream": media goes  *)
(* out over the stream that createStream gave.                             *)
PublishesOnItsStream ==
    \A m \in ToSet(toServer) : m.kind = "media" => m.sid = StreamId

(* No call waits for ever, whatever the server decides to do.              *)
CallsReturn == Waits ~> ~Waits

(* A session that was set up on the client's side is set up on the         *)
(* server's, unless the connection breaks.                                 *)
BothStart ==
    cpc = "playing" ~> (spc = "playing" \/ closed)

(* Every wait of a session ends, and what one end has set up the other     *)
(* gets to as well.                                                        *)
SessionsGoOn == CallsReturn /\ BothStart
=============================================================================
