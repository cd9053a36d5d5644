------------------------------ MODULE SrsBuffer ------------------------------
(* SrsBuffer: the cursor over a block of bytes every codec of the program   *)
(* reads and writes with. Bytes whose value nobody looks at are opaque: a    *)
(* number above 255 that says which byte of which field it is.               *)
EXTENDS Integers, Sequences, SequencesExt, Functions

\* What is written: integers in network order, and opaque fields.
Write1(n) == <<n % 256>>
Write2(n) == <<(n \div 256) % 256, n % 256>>
Write3(n) == <<(n \div 65536) % 256>> \o Write2(n)
Write4(n) == <<(n \div 16777216) % 256>> \o Write3(n)
Opaque(id, w) == [i \in 1..w |-> 1000 * id + i]

\* A reader: the block b, the cursor p, the fields read so far, and how the
\* reading goes. "abort" is the failed assertion of a read that asked nobody.
Reader(bytes) == [b |-> bytes, p |-> 0, e |-> "ok", r |-> <<>>]
Going(s) == s.e = "ok"
Left(s) == Len(s.b) - s.p
Empty(s) == s.p >= Len(s.b)
Fail(s) == [s EXCEPT !.e = "refused"]
\* The error return after every call: what follows is done while it goes on.
Then(s, Step(_)) == IF Going(s) THEN Step(s) ELSE s

\* if (!stream->require(n)) return an error
Require(s, n) == IF Going(s) /\ n > Left(s) THEN Fail(s) ELSE s
\* any other condition a decoder returns an error for
Check(s, ok) == IF Going(s) /\ ~ok THEN Fail(s) ELSE s

\* srs_assert(require(n)), then the cursor moves
Peek(s, n) == SubSeq(s.b, s.p + 1, s.p + n)
Read(s, f, n) ==
    IF ~Going(s) THEN s
    ELSE IF n > Left(s) THEN [s EXCEPT !.e = "abort"]
    ELSE [s EXCEPT !.p = @ + n, !.r = [g \in {f} |-> Peek(s, n)] @@ @]
\* skip() asserts nothing: the cursor may leave the block
Skip(s, n) == IF Going(s) THEN [s EXCEPT !.p = @ + n] ELSE s

\* A field that is not read from the block but decided by the decoder.
Set(s, f, v) == IF Going(s) THEN [s EXCEPT !.r = [g \in {f} |-> v] @@ @] ELSE s

\* The signed integer of some bytes; bytes of another field are no number.
Junk == 1000000
AsInt(bytes) ==
    IF \E i \in DOMAIN bytes : bytes[i] > 255 THEN Junk
    ELSE FoldLeft(LAMBDA n, x : 256 * n + x,
                  IF bytes # <<>> /\ bytes[1] > 127 THEN -1 ELSE 0, bytes)

\* One byte kept in an uint8_t
AsByte(bytes) == bytes[1]

\* Mutant: the field is read at once.
Unchecked(s, f, n) == Read(s, f, n)

\* A field of an n byte integer that is required before it is read.
Checked(s, f, n) == Read(Require(s, n), f, n)
=============================================================================
