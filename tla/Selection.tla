------------------------------- MODULE Selection -------------------------------
(***************************************************************************)
(* What is picked out of a sequence, and what becomes of it when a step is *)
(* made with each of its elements in turn.                                 *)
(***************************************************************************)
EXTENDS Integers, Sequences

(* The elements of s that are in T, in their order.                        *)
Among(s, T) ==
    LET upto[i \in 0..Len(s)] ==
            IF i = 0 THEN << >>
            ELSE IF s[i] \in T THEN Append(upto[i - 1], s[i]) ELSE upto[i - 1]
    IN  upto[Len(s)]

(* A step is a function of what there is so far and of the next element.   *)
Accumulated(step, base, s) ==
    LET upto[i \in 0..Len(s)] == IF i = 0 THEN base ELSE step[<<upto[i - 1], s[i]>>]
    IN  upto[Len(s)]
=============================================================================
