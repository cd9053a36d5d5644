--------------------------- MODULE MessageChannel ---------------------------
(***************************************************************************)
(* What the chunk layer promises to the layers above it: a reliable FIFO   *)
(* channel of whole messages.  Messages count as sent when their last      *)
(* chunk is written, which orders the messages of all chunk streams.       *)
(***************************************************************************)
EXTENDS Naturals, Sequences

CONSTANT Message          \* the messages that may be sent

VARIABLES
    sent,                 \* all messages sent, oldest first
    received              \* all messages handed to the receiving caller

channelVars == <<sent, received>>

Init == sent = << >> /\ received = << >>

(* One call may complete several messages.                                 *)
Send ==
    /\ Len(sent') > Len(sent)
    /\ SubSeq(sent', 1, Len(sent)) = sent
    /\ \A i \in (Len(sent) + 1)..Len(sent') : sent'[i] \in Message
    /\ UNCHANGED received

Receive ==
    /\ Len(received) < Len(sent)
    /\ received' = Append(received, sent[Len(received) + 1])
    /\ UNCHANGED sent

Next == Send \/ Receive

Spec == Init /\ [][Next]_channelVars
=============================================================================
