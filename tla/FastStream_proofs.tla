-------------------------- MODULE FastStream_proofs --------------------------
(***************************************************************************)
(* Proofs about the receive buffer of FastStream.tla, for every size of    *)
(* the buffer and every set of requests.                                   *)
(***************************************************************************)
EXTENDS FastStream, TLAPS

(* The inductive invariant: the offsets stay in the allocation, the unread *)
(* bytes and the last slice are in place, and grow() has room to read.     *)
IInv ==
    /\ TypeOK
    /\ UnreadIntact
    /\ SliceIntact
    /\ RoomToRead
    /\ GrantIsBacked

(* Every request is for at least one byte (srs_assert in grow()).          *)
LEMMA SizesPositive == AllSizes \subseteq Nat \ {0}
  BY RequestAssumption, UndoAssumption DEF AllSizes

(* The phases only ever name the four parts of a chunk.                    *)
LEMMA PhasesClosed ==
  ASSUME NEW ph \in Phases
  PROVE  Wanted(ph) \subseteq AllSizes /\ Follows(ph) \subseteq Phases
  BY DEF Phases, Wanted, AllSizes, Follows

(* A new SrsFastStream satisfies the invariant: nothing is buffered.       *)
LEMMA InitInv == BufferInit => IInv
  BY BufferSizeAssumption
  DEF BufferInit, Phases, IInv, TypeOK, UnreadIntact, SliceIntact, RoomToRead, GrantIsBacked

(* grow() answered from the buffer changes no byte.                        *)
LEMMA GrowHasEnoughInv ==
  ASSUME IInv, NEW r \in AllSizes, GrowHasEnough(r)
  PROVE  IInv'
  BY SizesPositive
  DEF IInv, TypeOK, UnreadIntact, SliceIntact, RoomToRead, GrantIsBacked,
      GrowHasEnough, exists

(* grow() that starts reading in place has the room it needs.              *)
LEMMA GrowInPlaceInv ==
  ASSUME IInv, NEW r \in AllSizes, GrowInPlace(r)
  PROVE  IInv'
  BY SizesPositive, BufferSizeAssumption
  DEF IInv, TypeOK, UnreadIntact, SliceIntact, RoomToRead, GrantIsBacked,
      GrowInPlace, exists, free

(* grow() that resets an empty buffer loses nothing.                       *)
LEMMA GrowResetInv ==
  ASSUME IInv, NEW r \in AllSizes, GrowReset(r)
  PROVE  IInv'
  BY SizesPositive, BufferSizeAssumption
  DEF IInv, TypeOK, UnreadIntact, SliceIntact, RoomToRead, GrantIsBacked,
      GrowReset, GrowFails, Phases, exists, free

(* The memmove of grow() carries the unread bytes, in order, to offset 0.  *)
LEMMA MoveLeftKeeps ==
  ASSUME TypeOK, UnreadIntact
  PROVE  /\ MoveLeft(buf) \in [0..(MaxSize - 1) -> Nat]
         /\ \A i \in 0..(exists - 1) : MoveLeft(buf)[i] = taken + i + 1
<1>1. MoveLeft(buf) \in [0..(MaxSize - 1) -> Nat]
  <2>1. ASSUME NEW i \in 0..(MaxSize - 1), i < exists
        PROVE  p + i \in 0..(MaxSize - 1)
    BY <2>1, BufferSizeAssumption DEF TypeOK, exists
  <2> QED  BY <2>1 DEF TypeOK, MoveLeft
<1>2. ASSUME NEW i \in 0..(exists - 1)
      PROVE  MoveLeft(buf)[i] = taken + i + 1
  <2>1. /\ i \in 0..(MaxSize - 1) /\ i < exists
        /\ p + i \in p..(end - 1)
    BY BufferSizeAssumption DEF TypeOK, exists
  <2>2. MoveLeft(buf)[i] = buf[p + i]
    BY <2>1 DEF TypeOK, MoveLeft
  <2>3. buf[p + i] = taken + ((p + i) - p) + 1
    BY <2>1 DEF UnreadIntact
  <2> QED  BY <2>1, <2>2, <2>3 DEF TypeOK
<1> QED  BY <1>1, <1>2

(* grow() that compacts the buffer keeps every unread byte.                *)
LEMMA GrowMoveInv ==
  ASSUME IInv, NEW r \in AllSizes, GrowMove(r)
  PROVE  IInv'
<1>0. /\ TypeOK /\ UnreadIntact
      /\ r \in Nat \ {0} /\ exists \in Nat /\ exists < nb_buffer
      /\ nb_buffer \in Nat
  BY SizesPositive, BufferSizeAssumption DEF IInv, TypeOK, GrowMove, exists
<1>1. /\ MoveLeft(buf) \in [0..(MaxSize - 1) -> Nat]
      /\ \A i \in 0..(exists - 1) : MoveLeft(buf)[i] = taken + i + 1
  BY <1>0, MoveLeftKeeps
<1>2. TypeOK'
  BY <1>0, <1>1 DEF TypeOK, GrowMove, GrowFails, Phases
<1>3. UnreadIntact'
  <2>1. /\ p' = 0 /\ end' = exists /\ taken' = taken /\ received' = received
        /\ buf' = MoveLeft(buf)
    BY DEF GrowMove
  <2>2. received = taken + exists
    BY <1>0 DEF UnreadIntact, exists
  <2>3. \A i \in 0..(exists - 1) : buf'[i] = taken' + (i - 0) + 1
    BY <1>0, <1>1, <2>1 DEF TypeOK
  <2> QED  BY <1>0, <2>1, <2>2, <2>3 DEF UnreadIntact, TypeOK
<1>4. SliceIntact'
  BY <1>0 DEF SliceIntact, GrowMove, TypeOK
<1>5. RoomToRead' /\ GrantIsBacked'
  BY <1>0 DEF RoomToRead, GrantIsBacked, GrowMove, GrowFails, exists, free, TypeOK
<1> QED  BY <1>2, <1>3, <1>4, <1>5 DEF IInv

(* One read() of the loop appends the next n bytes of the stream.          *)
LEMMA ReadSomeInv ==
  ASSUME IInv, NEW n \in 1..MaxSize, ReadSome(n)
  PROVE  IInv'
<1>0. TypeOK /\ UnreadIntact /\ SliceIntact /\ RoomToRead
  BY DEF IInv
<1>1. TypeOK'
  BY <1>0, BufferSizeAssumption DEF TypeOK, ReadSome, free
<1>2. UnreadIntact'
  <2>1. received' = taken' + (end' - p')
    BY <1>0, BufferSizeAssumption DEF TypeOK, UnreadIntact, ReadSome
  <2>2. ASSUME NEW i \in p'..(end' - 1)
        PROVE  buf'[i] = taken' + (i - p') + 1
    <3>1. /\ i \in 0..(MaxSize - 1) /\ i \in Nat /\ p' = p /\ taken' = taken
          /\ p <= i /\ i < end + n /\ n \in Nat
      BY <1>0, BufferSizeAssumption DEF TypeOK, ReadSome, free
    <3>2. CASE i < end
      <4>1. buf'[i] = buf[i]
        BY <1>0, <3>1, <3>2 DEF TypeOK, ReadSome
      <4>2. i \in p..(end - 1)
        BY <1>0, <3>1, <3>2 DEF TypeOK
      <4> QED  BY <4>1, <4>2, <3>1, <1>0 DEF UnreadIntact
    <3>3. CASE i >= end
      <4>1. buf'[i] = received + (i - end) + 1
        BY <1>0, <3>1, <3>3 DEF TypeOK, ReadSome
      <4>2. received = taken + (end - p)
        BY <1>0 DEF UnreadIntact
      <4> QED  BY <4>1, <4>2, <3>1, <1>0 DEF TypeOK
    <3> QED  BY <3>1, <3>2, <3>3, <1>0 DEF TypeOK
  <2> QED  BY <2>1, <2>2 DEF UnreadIntact
<1>3. SliceIntact'
  <2>1. /\ slice' = slice /\ p' = p /\ taken' = taken
    BY DEF ReadSome
  <2>2. ASSUME NEW i \in (p - slice)..(p - 1)
        PROVE  buf'[i] = buf[i]
    BY <1>0, BufferSizeAssumption DEF TypeOK, SliceIntact, ReadSome
  <2> QED  BY <1>0, <2>1, <2>2 DEF SliceIntact
<1>4. RoomToRead' /\ GrantIsBacked'
  BY <1>0, BufferSizeAssumption DEF TypeOK, RoomToRead, GrantIsBacked, ReadSome, free
<1> QED  BY <1>1, <1>2, <1>3, <1>4 DEF IInv

(* A failed read keeps the bytes that had arrived.                          *)
LEMMA ReadFailInv ==
  ASSUME IInv, ReadFail
  PROVE  IInv'
  BY DEF IInv, TypeOK, UnreadIntact, SliceIntact, RoomToRead, GrantIsBacked,
         ReadFail, GrowFails, Phases

(* Consuming a granted request turns its bytes into the current slice.     *)
LEMMA ReadSliceInv ==
  ASSUME IInv, ReadSlice
  PROVE  IInv'
<1>0. TypeOK /\ UnreadIntact /\ SliceIntact /\ GrantIsBacked
  BY DEF IInv
<1>1. required \in Nat /\ required <= end - p
  BY <1>0 DEF TypeOK, GrantIsBacked, ReadSlice
<1>2. TypeOK'
  BY <1>0, <1>1, PhasesClosed DEF TypeOK, ReadSlice
<1>3. UnreadIntact'
  BY <1>0, <1>1 DEF TypeOK, UnreadIntact, ReadSlice
<1>4. SliceIntact'
  BY <1>0, <1>1 DEF TypeOK, UnreadIntact, SliceIntact, ReadSlice
<1>5. RoomToRead' /\ GrantIsBacked'
  BY DEF RoomToRead, GrantIsBacked, ReadSlice
<1> QED  BY <1>2, <1>3, <1>4, <1>5 DEF IInv

(* skip(-4) makes the bytes of the slice unread again.                     *)
LEMMA SkipBackInv ==
  ASSUME IInv, SkipBack
  PROVE  IInv'
<1>0. TypeOK /\ UnreadIntact /\ SliceIntact
  BY DEF IInv
<1>1. /\ Undo \in Nat /\ slice = Undo /\ Undo <= p /\ Undo <= taken
  BY <1>0, UndoAssumption DEF SkipBack, SliceIntact
<1>2. TypeOK'
  BY <1>0, <1>1 DEF TypeOK, SkipBack
<1>3. UnreadIntact'
  <2>1. received' = taken' + (end' - p')
    BY <1>0, <1>1 DEF TypeOK, UnreadIntact, SkipBack
  <2>2. ASSUME NEW i \in p'..(end' - 1)
        PROVE  buf'[i] = taken' + (i - p') + 1
    <3>1. /\ buf' = buf /\ p' = p - Undo /\ taken' = taken - Undo
          /\ i \in (p - Undo)..(end - 1)
      BY DEF SkipBack
    <3>2. CASE i < p
      BY <1>0, <1>1, <3>1, <3>2 DEF TypeOK, SliceIntact
    <3>3. CASE i >= p
      BY <1>0, <1>1, <3>1, <3>3 DEF TypeOK, UnreadIntact
    <3> QED  BY <1>0, <1>1, <3>1, <3>2, <3>3 DEF TypeOK
  <2> QED  BY <2>1, <2>2 DEF UnreadIntact
<1>4. SliceIntact'
  BY <1>0, <1>1 DEF TypeOK, SliceIntact, SkipBack
<1>5. RoomToRead' /\ GrantIsBacked'
  BY DEF RoomToRead, GrantIsBacked, SkipBack
<1> QED  BY <1>2, <1>3, <1>4, <1>5 DEF IInv

(* set_buffer enlarges the allocation around the unread bytes.             *)
LEMMA SetBufferInv ==
  ASSUME IInv, NEW n \in Resizes, SetBuffer(n)
  PROVE  IInv'
  BY ResizeAssumption, BufferSizeAssumption
  DEF IInv, TypeOK, UnreadIntact, SliceIntact, RoomToRead, GrantIsBacked,
      SetBuffer, Lesser

(* Every step of the buffer preserves the invariant.                       *)
LEMMA NextInv == IInv /\ [BufferNext]_bufferVars => IInv'
<1> SUFFICES ASSUME IInv, [BufferNext]_bufferVars PROVE IInv'
  OBVIOUS
<1>1. ASSUME NEW r \in AllSizes, GrowAbort(r) PROVE IInv'
  BY <1>1 DEF IInv, TypeOK, UnreadIntact, SliceIntact, RoomToRead,
              GrantIsBacked, GrowAbort
<1>2. ASSUME NEW r \in AllSizes, Grow(r) PROVE IInv'
  BY <1>1, <1>2, GrowHasEnoughInv, GrowInPlaceInv, GrowResetInv, GrowMoveInv
  DEF Grow
<1>3. CASE UNCHANGED bufferVars
  BY <1>3 DEF bufferVars, IInv, TypeOK, UnreadIntact, SliceIntact, RoomToRead,
              GrantIsBacked
<1>4. ASSUME NEW r \in Wanted(phase), Grow(r) PROVE IInv'
  BY <1>2, <1>4, PhasesClosed DEF IInv, TypeOK
<1> QED
  BY <1>3, <1>4, ReadSomeInv, ReadFailInv, ReadSliceInv, SkipBackInv,
     SetBufferInv
  DEF BufferNext

(* The invariant holds in every state of the buffer.                       *)
LEMMA InvHolds == BufferSpec => []IInv
  BY InitInv, NextInv, PTL DEF BufferSpec

(* Offsets never leave the allocation: no read or memmove writes beyond it. *)
THEOREM BufferTypeCorrect == BufferSpec => []TypeOK
<1>1. IInv => TypeOK  BY DEF IInv
<1> QED  BY <1>1, InvHolds, PTL

(* No byte of the stream is lost, repeated, reordered or overwritten       *)
(* between the socket and the protocol, whatever the sizes of the reads,   *)
(* failures of the socket and reallocations.                               *)
THEOREM UnreadBytesIntact == BufferSpec => []UnreadIntact
<1>1. IInv => UnreadIntact  BY DEF IInv
<1> QED  BY <1>1, InvHolds, PTL

(* A slice handed out stays usable until the next grow() that reads.       *)
THEOREM SliceStaysIntact == BufferSpec => []SliceIntact
<1>1. IInv => SliceIntact  BY DEF IInv
<1> QED  BY <1>1, InvHolds, PTL

(* grow() never asks the socket for zero bytes.                            *)
THEOREM GrowHasRoomToRead == BufferSpec => []RoomToRead
<1>1. IInv => RoomToRead  BY DEF IInv
<1> QED  BY <1>1, InvHolds, PTL

(* A granted request can be sliced without tripping srs_assert.            *)
THEOREM GrantsAreBacked == BufferSpec => []GrantIsBacked
<1>1. IInv => GrantIsBacked  BY DEF IInv
<1> QED  BY <1>1, InvHolds, PTL

(* The bytes given out and those still unread are the stream.              *)
THEOREM BytesStayIntact == BufferSpec => []BytesIntact
<1>1. IInv => BytesIntact  BY DEF IInv, BytesIntact
<1> QED  BY <1>1, InvHolds, PTL

(* grow() reads where there is room and grants what has arrived.            *)
THEOREM RequestsAlwaysMet == BufferSpec => []RequestsAreMet
<1>1. IInv => RequestsAreMet  BY DEF IInv, RequestsAreMet
<1> QED  BY <1>1, InvHolds, PTL

(* When no request exceeds the initial buffer, the assertion of grow()     *)
(* cannot fail.                                                            *)
THEOREM NoAbortWithinBuffer ==
  ASSUME \A r \in AllSizes : r <= DefaultSize
  PROVE  BufferSpec => []NoAbort
<1>1. BufferInit => NoAbort
  BY DEF BufferInit, NoAbort
<1>2. IInv /\ NoAbort /\ [BufferNext]_bufferVars => NoAbort'
  <2> SUFFICES ASSUME IInv, NoAbort, [BufferNext]_bufferVars PROVE NoAbort'
    OBVIOUS
  <2>1. ASSUME NEW r \in AllSizes, GrowAbort(r) PROVE FALSE
    BY <2>1, SizesPositive, BufferSizeAssumption
    DEF GrowAbort, IInv, TypeOK, exists, free
  <2>2. ASSUME NEW r \in AllSizes, Grow(r) PROVE NoAbort'
    BY <2>1, <2>2
    DEF Grow, GrowHasEnough, GrowInPlace, GrowReset, GrowMove, GrowFails,
        NoAbort
  <2>3. CASE UNCHANGED bufferVars
    BY <2>3 DEF bufferVars, NoAbort
  <2>4. ASSUME NEW r \in Wanted(phase), Grow(r) PROVE NoAbort'
    BY <2>2, <2>4, PhasesClosed DEF IInv, TypeOK
  <2> QED
    BY <2>3, <2>4
    DEF BufferNext, NoAbort, ReadSome, ReadFail, GrowFails, ReadSlice, SkipBack,
        SetBuffer
<1> QED  BY <1>1, <1>2, InvHolds, PTL DEF BufferSpec

(* What is buffered is un-read only by the skip(-4) behind an extended     *)
(* timestamp, and set_buffer never shrinks the allocation.                 *)
THEOREM UnreadsOnlyUndo == BufferSpec => UnreadOnlyUndo
<1> DEFINE Kept == /\ nb_buffer' >= nb_buffer
                   /\ taken' < taken => taken' = taken - Undo /\ slice = Undo
<1>1. IInv /\ [BufferNext]_bufferVars => [Kept]_bufferVars
  <2> SUFFICES ASSUME IInv, BufferNext PROVE Kept
    OBVIOUS
  <2>1. ASSUME NEW r \in Wanted(phase), Grow(r) PROVE Kept
    BY <2>1
    DEF Grow, GrowHasEnough, GrowInPlace, GrowReset, GrowMove, GrowAbort,
        IInv, TypeOK
  <2>2. ASSUME NEW n \in 1..MaxSize, ReadSome(n) PROVE Kept
    BY <2>2 DEF ReadSome, IInv, TypeOK
  <2>3. CASE ReadFail
    BY <2>3 DEF ReadFail, IInv, TypeOK
  <2>4. CASE ReadSlice
    BY <2>4 DEF ReadSlice, IInv, TypeOK
  <2>5. CASE SkipBack
    BY <2>5 DEF SkipBack, IInv, TypeOK
  <2>6. ASSUME NEW n \in Resizes, SetBuffer(n) PROVE Kept
    BY <2>6, BufferSizeAssumption, ResizeAssumption DEF SetBuffer, Lesser, IInv, TypeOK
  <2> QED  BY <2>1, <2>2, <2>3, <2>4, <2>5, <2>6 DEF BufferNext
<1> QED  BY <1>1, InvHolds, PTL DEF BufferSpec, UnreadOnlyUndo
=============================================================================
