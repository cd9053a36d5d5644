----------------------------- MODULE FastStream -----------------------------
(***************************************************************************)
(* The receive buffer of the RTMP protocol stack, SrsFastStream            *)
(* (src/libs/protocol/rtmp.cpp:30424-30575), driven the way SrsProtocol    *)
(* drives it: grow(n) until n bytes are buffered, then read_slice(n).      *)
(*                                                                         *)
(* A byte is named by its position in the peer's byte stream (1, 2, ...),  *)
(* so that a lost, repeated or overwritten byte is visible.  Buffer        *)
(* offsets replace the pointers: p and end are distances from buffer.      *)
(***************************************************************************)
EXTENDS Integers

CONSTANTS
    DefaultSize,   \* SRS_DEFAULT_RECV_BUFFER_SIZE: size malloc'ed at first
    MaxSize,       \* SRS_MAX_SOCKET_BUFFER: what set_buffer may reach
    BasicSizes,    \* what read_basic_header asks grow() for: 1 or 2 bytes
    HeaderSizes,   \* what read_message_header asks for: 11, 7 or 3 bytes
    PayloadSizes,  \* what read_message_payload asks for: up to a chunk size
    Undo,          \* the 4 bytes of an extended timestamp, which skip(-4) may
                   \* give back after they were read
    Resizes,       \* the sizes set_buffer is called with
    TotalBytes     \* bound: how many bytes the peer ever sends

ASSUME BufferSizeAssumption ==
    /\ DefaultSize \in Nat \ {0}
    /\ MaxSize \in Nat
    /\ DefaultSize <= MaxSize
ASSUME RequestAssumption ==
    BasicSizes \cup HeaderSizes \cup PayloadSizes \subseteq Nat \ {0}
ASSUME UndoAssumption ==
    Undo \in Nat \ {0} /\ Undo \notin BasicSizes \cup HeaderSizes
ASSUME ResizeAssumption == Resizes \subseteq Nat
ASSUME TotalAssumption == TotalBytes \in Nat

VARIABLES
    buf,        \* offset -> stream position of the byte stored there, 0 none
    nb_buffer,  \* bytes allocated
    p,          \* offset of the next byte to consume
    end,        \* offset after the last byte received
    pc,         \* where the caller is: idle, reading (in grow), granted, ...
    phase,      \* which part of a chunk the caller asks for next
    required,   \* required_size of the grow() under way or granted
    slice,      \* length of the last slice while its bytes are still usable
    received,    \* how many bytes the socket delivered so far
    taken       \* how many bytes the caller consumed so far

bufferVars ==
    <<buf, nb_buffer, p, end, pc, phase, required, slice, received, taken>>

exists == end - p                    \* nb_exists_bytes
free   == nb_buffer - end            \* nb_free_space

Lesser(a, b) == IF a < b THEN a ELSE b

(* The order in which recv_interlaced_message reads the parts of a chunk.  *)
Phases == {"basic", "header", "ext", "payload"}

Wanted(ph) ==
    CASE ph = "basic"   -> BasicSizes
      [] ph = "header"  -> HeaderSizes
      [] ph = "ext"     -> {Undo}
      [] ph = "payload" -> PayloadSizes

AllSizes == BasicSizes \cup HeaderSizes \cup PayloadSizes \cup {Undo}

Follows(ph) ==
    CASE ph = "basic"   -> Phases          \* 2 and 3 byte forms, fmt 3
      [] ph = "header"  -> Phases \ {"header"}
      [] ph = "ext"     -> {"payload", "basic"}
      [] ph = "payload" -> {"basic"}

-----------------------------------------------------------------------------
BufferInit ==
    /\ buf = [i \in 0..(MaxSize - 1) |-> 0]
    /\ nb_buffer = DefaultSize
    /\ p = 0 /\ end = 0
    /\ pc = "idle" /\ phase = "basic" /\ required = 0
    /\ slice = 0
    /\ received = 0 /\ taken = 0

(* Mutants, each a plausible slip in the definition it replaces.           *)
InPlaceIgnoringConsumed(r) ==     \* counts the consumed bytes as free space
    /\ pc = "idle" /\ exists < r
    /\ nb_buffer - exists >= r - exists
    /\ pc' = "reading" /\ required' = r /\ slice' = 0
    /\ UNCHANGED <<buf, nb_buffer, p, end, phase, received, taken>>
MoveFromStart(b) ==               \* memmove whose source is buffer, not p
    [i \in DOMAIN b |-> b[i]]

(* grow() finds the bytes already there and returns at once.               *)
GrowHasEnough(r) ==
    /\ pc = "idle" /\ exists >= r
    /\ pc' = "granted" /\ required' = r
    /\ UNCHANGED <<buf, nb_buffer, p, end, phase, slice, received, taken>>

(* grow() has room behind end: it goes straight to the read loop.          *)
GrowInPlace(r) ==
    /\ pc = "idle" /\ exists < r
    /\ free >= r - exists
    /\ pc' = "reading" /\ required' = r /\ slice' = 0
    /\ UNCHANGED <<buf, nb_buffer, p, end, phase, received, taken>>

(* grow() returns an error and the protocol gives up the chunk: the next   *)
(* call, if any, starts over with a basic header.                          *)
GrowFails == pc' = "idle" /\ required' = 0 /\ phase' = "basic"

(* grow() finds no room and nothing unread: both pointers go back to the   *)
(* start.  If the request exceeds the whole buffer it reports overflow.    *)
GrowReset(r) ==
    /\ pc = "idle" /\ exists < r
    /\ free < r - exists
    /\ exists = 0
    /\ p' = 0 /\ end' = 0 /\ slice' = 0
    /\ IF nb_buffer < r
       THEN GrowFails                          \* ERROR_READER_BUFFER_OVERFLOW
       ELSE pc' = "reading" /\ required' = r /\ phase' = phase
    /\ UNCHANGED <<buf, nb_buffer, received, taken>>

(* grow() finds no room and moves the unread bytes to the start (memmove), *)
(* after asserting that they do not fill the buffer.                       *)
MoveLeft(b) ==
    [i \in DOMAIN b |-> IF i < exists THEN b[p + i] ELSE b[i]]

GrowMove(r) ==
    /\ pc = "idle" /\ exists < r
    /\ free < r - exists
    /\ exists > 0 /\ exists < nb_buffer
    /\ buf' = MoveLeft(buf)
    /\ p' = 0 /\ end' = exists /\ slice' = 0
    /\ IF nb_buffer < r
       THEN GrowFails                          \* ERROR_READER_BUFFER_OVERFLOW
       ELSE pc' = "reading" /\ required' = r /\ phase' = phase
    /\ UNCHANGED <<nb_buffer, received, taken>>

(* srs_assert(nb_exists_bytes < nb_buffer) fails and the process aborts.   *)
GrowAbort(r) ==
    /\ pc = "idle" /\ exists < r
    /\ free < r - exists
    /\ exists >= nb_buffer
    /\ pc' = "aborted"
    /\ UNCHANGED <<buf, nb_buffer, p, end, phase, required, slice, received,
                   taken>>

(* One reader->read(end, nb_free_space) of the loop returns n bytes.       *)
ReadSome(n) ==
    /\ pc = "reading"
    /\ n <= free
    /\ received + n <= TotalBytes
    /\ buf' = [i \in DOMAIN buf |->
                  IF i >= end /\ i < end + n THEN received + (i - end) + 1
                                             ELSE buf[i]]
    /\ end' = end + n
    /\ received' = received + n
    /\ pc' = IF end + n - p < required THEN "reading" ELSE "granted"
    /\ UNCHANGED <<nb_buffer, p, phase, required, slice, taken>>

(* The read fails (timeout, reset, end of stream): grow() returns the      *)
(* error and keeps what earlier reads of the same call brought in.         *)
ReadFail ==
    /\ pc = "reading"
    /\ GrowFails
    /\ UNCHANGED <<buf, nb_buffer, p, end, slice, received, taken>>

(* read_slice(required) or read_1byte: the caller takes what it asked for, *)
(* and which part of the chunk comes next depends on its contents.         *)
ReadSlice ==
    /\ pc = "granted"
    /\ phase' \in Follows(phase)
    /\ p' = p + required
    /\ taken' = taken + required
    /\ slice' = required
    /\ pc' = "idle" /\ required' = 0
    /\ UNCHANGED <<buf, nb_buffer, end, received>>

(* skip(-4): the four bytes just read as an extended timestamp turn out to *)
(* be payload, and the protocol gives them back before it reads payload.   *)
SkipBack ==
    /\ pc = "idle" /\ phase = "payload" /\ slice = Undo
    /\ p' = p - Undo
    /\ taken' = taken - Undo
    /\ slice' = 0
    /\ UNCHANGED <<buf, nb_buffer, end, pc, phase, required, received>>

(* set_buffer: only ever grows the allocation, up to MaxSize; realloc      *)
(* keeps the bytes and their offsets but invalidates the caller's slice.   *)
SetBuffer(n) ==
    /\ pc = "idle"
    /\ Lesser(n, MaxSize) > nb_buffer
    /\ nb_buffer' = Lesser(n, MaxSize)
    /\ slice' = 0
    /\ UNCHANGED <<buf, p, end, pc, phase, required, received, taken>>

Grow(r) ==
    \/ GrowHasEnough(r)
    \/ GrowInPlace(r)
    \/ GrowReset(r)
    \/ GrowMove(r)
    \/ GrowAbort(r)

BufferNext ==
    \/ \E r \in Wanted(phase) : Grow(r)
    \/ \E n \in 1..MaxSize : ReadSome(n)
    \/ ReadFail
    \/ ReadSlice
    \/ SkipBack
    \/ \E n \in Resizes : SetBuffer(n)

BufferSpec == BufferInit /\ [][BufferNext]_bufferVars

-----------------------------------------------------------------------------
(* Type invariant: offsets stay inside the allocation.                     *)
TypeOK ==
    /\ nb_buffer \in DefaultSize..MaxSize
    /\ buf \in [0..(MaxSize - 1) -> Nat]
    /\ p \in Nat /\ end \in Nat
    /\ p <= end /\ end <= nb_buffer
    /\ pc \in {"idle", "reading", "granted", "aborted"}
    /\ phase \in Phases
    /\ required \in Nat
    /\ slice \in Nat
    /\ received \in Nat /\ taken \in Nat

(* What is unread is exactly the stream after the last byte consumed, in   *)
(* order, with no byte lost, repeated or overwritten, across moves,        *)
(* partial reads, failed reads, reallocations and skip(-4).                *)
UnreadIntact ==
    /\ received = taken + (end - p)
    /\ \A i \in p..(end - 1) : buf[i] = taken + (i - p) + 1

(* The last slice handed out may be used until the next grow() that reads: *)
(* its bytes are still in place right before p (memcpy in                  *)
(* read_message_payload and skip(-4) in read_message_header rely on it).   *)
SliceIntact ==
    /\ slice <= p /\ slice <= taken
    /\ \A i \in (p - slice)..(p - 1) : buf[i] = taken - (p - i) + 1

(* The loop of grow() never calls read() with no free space, which would   *)
(* return 0 and be taken for the end of the stream: while it reads, the    *)
(* bytes still missing fit behind end.                                     *)
RoomToRead ==
    pc = "reading" => /\ end - p < required
                      /\ required - (end - p) <= nb_buffer - end

(* A granted request is really buffered.                                   *)
GrantIsBacked == pc = "granted" => required <= end - p

(* What the caller gets is the stream, and stays it as long as it is used. *)
BytesIntact == UnreadIntact /\ SliceIntact

(* A request of grow() is met: nothing is read without room for it, and    *)
(* what is granted has arrived.                                             *)
RequestsAreMet == RoomToRead /\ GrantIsBacked

(* srs_assert(nb_exists_bytes < nb_buffer) of grow() never fails, whatever *)
(* is asked for: a request that cannot be met is an error, not an abort.   *)
NoAbort == pc # "aborted"

(* The buffer never shrinks, and bytes are only ever un-read by the one    *)
(* skip(-4) that directly follows the read of an extended timestamp.       *)
UnreadOnlyUndo ==
    [][/\ nb_buffer' >= nb_buffer
       /\ taken' < taken => taken' = taken - Undo /\ slice = Undo]_bufferVars
=============================================================================
