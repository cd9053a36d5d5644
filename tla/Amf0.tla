-------------------------------- MODULE Amf0 --------------------------------
(* AMF0 values: their size, how they are written and how they are read. A   *)
(* value is a pair of its marker and its content: bytes for a number, a      *)
(* boolean, a string or a date, a sequence of values for a strict array, and *)
(* a sequence of name and value pairs for an object or an ecma array.        *)
EXTENDS SrsBuffer

NumberMark == 0
BooleanMark == 1
StringMark == 2
ObjectMark == 3
NullMark == 5
UndefinedMark == 6
EcmaArrayMark == 8
ObjectEndMark == 9
StrictArrayMark == 10
DateMark == 11

Number(bytes) == <<NumberMark, bytes>>
Boolean(b) == <<BooleanMark, <<IF b THEN 1 ELSE 0>>>>
Str(bytes) == <<StringMark, bytes>>
Object(props) == <<ObjectMark, props>>
Null == <<NullMark, <<>>>>
Undefined == <<UndefinedMark, <<>>>>
EcmaArray(props) == <<EcmaArrayMark, props>>
ObjectEnd == <<ObjectEndMark, <<>>>>
StrictArray(elems) == <<StrictArrayMark, elems>>
Date(bytes) == <<DateMark, bytes>>
IsObject(v) == v[1] = ObjectMark

SumOf(numbers) == FoldLeft(LAMBDA x, y : x + y, 0, numbers)

-----------------------------------------------------------------------------
(* SrsAmf0Size and total_size *)
SizeUtf8(bytes) == 2 + Len(bytes)
SizeStr(bytes) == 1 + SizeUtf8(bytes)
SizeNumber == 1 + 8
\* Mutant: the time zone behind a date is not counted.
DateWithoutZone == 1 + 8
SizeDate == 1 + 8 + 2
SizeNull == 1
SizeBoolean == 1 + 1
SizeObjectEof == 2 + 1

RECURSIVE TotalSize(_)
SizeProps(props) ==
    SumOf([i \in DOMAIN props |-> SizeUtf8(props[i][1]) + TotalSize(props[i][2])])
TotalSize(v) ==
    CASE v[1] = NumberMark -> SizeNumber
      [] v[1] = BooleanMark -> SizeBoolean
      [] v[1] = StringMark -> SizeStr(v[2])
      [] v[1] = DateMark -> SizeDate
      [] v[1] \in {NullMark, UndefinedMark} -> SizeNull
      [] v[1] = ObjectEndMark -> SizeObjectEof
      [] v[1] = ObjectMark -> 1 + SizeProps(v[2]) + SizeObjectEof
      [] v[1] = EcmaArrayMark -> 1 + 4 + SizeProps(v[2]) + SizeObjectEof
      [] v[1] = StrictArrayMark ->
           1 + 4 + SumOf([i \in DOMAIN v[2] |-> TotalSize(v[2][i])])

-----------------------------------------------------------------------------
(* Writing *)
WriteUtf8(bytes) == Write2(Len(bytes)) \o bytes
WriteStr(bytes) == Write1(StringMark) \o WriteUtf8(bytes)
WriteNumber(bytes) == Write1(NumberMark) \o bytes
WriteNull == Write1(NullMark)
WriteUndefined == Write1(UndefinedMark)
WriteBoolean(v) == Write1(BooleanMark) \o v[2]
WriteObjectEof == Write2(0) \o Write1(ObjectEndMark)

\* The count of an ecma array is the one that was read or none: set() adds a
\* property without counting it. A strict array counts what append() adds.
RECURSIVE WriteAny(_)
WriteProps(props) ==
    FlattenSeq([i \in DOMAIN props |-> WriteUtf8(props[i][1]) \o WriteAny(props[i][2])])
    \o WriteObjectEof
WriteAny(v) ==
    CASE v[1] \in {NumberMark, BooleanMark} -> Write1(v[1]) \o v[2]
      [] v[1] = StringMark -> WriteStr(v[2])
      [] v[1] = DateMark -> Write1(DateMark) \o v[2] \o Write2(0)
      [] v[1] \in {NullMark, UndefinedMark} -> Write1(v[1])
      [] v[1] = ObjectEndMark -> WriteObjectEof
      [] v[1] = ObjectMark -> Write1(ObjectMark) \o WriteProps(v[2])
      [] v[1] = EcmaArrayMark -> Write1(EcmaArrayMark) \o Write4(0) \o WriteProps(v[2])
      [] v[1] = StrictArrayMark ->
           Write1(StrictArrayMark) \o Write4(Len(v[2]))
             \o FlattenSeq([i \in DOMAIN v[2] |-> WriteAny(v[2][i])])

-----------------------------------------------------------------------------
(* Reading. A read returns the reader and the value, in its field "v".      *)
ValueOf(s) == s.r["v"]
Marker(s, m) == Then(Checked(s, "m", 1), LAMBDA t : Check(t, t.r["m"] = <<m>>))

\* Mutant: a string takes what is left when it is cut.
ReadUtf8Left(s, old) ==
    Then(Checked(s, "n", 2), LAMBDA t :
        LET n == AsInt(t.r["n"]) IN
        IF n <= 0 THEN Set(t, "v", old) ELSE Checked(t, "v", IF n < Left(t) THEN n ELSE Left(t)))

\* The length is signed: from 2^15 on the string reads as empty and its bytes
\* are taken for what comes next. An empty string leaves the old value.
ReadUtf8(s, old) ==
    Then(Checked(s, "n", 2), LAMBDA t :
        IF AsInt(t.r["n"]) <= 0 THEN Set(t, "v", old) ELSE Checked(t, "v", AsInt(t.r["n"])))
ReadStr(s, old) == ReadUtf8(Marker(s, StringMark), old)
ReadNumber(s) == Checked(Marker(s, NumberMark), "v", 8)
ReadBoolean(s) == Checked(Marker(s, BooleanMark), "v", 1)
ReadNull(s) == Marker(s, NullMark)
ReadUndefined(s) == Marker(s, UndefinedMark)
ReadDate(s) == Checked(Checked(Marker(s, DateMark), "v", 8), "zone", 2)
IsObjectEof(s) == Going(s) /\ Left(s) >= 3 /\ Peek(s, 3) = WriteObjectEof
ReadObjectEof(s) ==
    Marker(Then(Checked(s, "z", 2), LAMBDA t : Check(t, t.r["z"] = <<0, 0>>)), ObjectEndMark)

\* SrsUnSortedHashtable::set: a name that is set again moves to the end.
SetProperty(props, name, value) ==
    Append(SelectSeq(props, LAMBDA p : p[1] # name), <<name, value>>)

\* SrsAmf0Any::discovery looks at the marker, read() takes it again. The loops
\* of the containers end at the end of the block as well as at their own end.
RECURSIVE ReadAny(_), ReadProps(_, _), ReadElems(_, _, _)
ReadProps(s, props) ==
    IF ~Going(s) \/ Empty(s) THEN Set(s, "v", props)
    ELSE IF IsObjectEof(s) THEN Set(ReadObjectEof(s), "v", props)
    ELSE Then(ReadUtf8(s, <<>>), LAMBDA key :
             Then(ReadAny(key), LAMBDA e :
                 ReadProps(e, SetProperty(props, ValueOf(key), ValueOf(e)))))
ReadElems(s, n, elems) ==
    IF ~Going(s) \/ Empty(s) \/ n <= 0 THEN Set(s, "v", elems)
    ELSE Then(ReadAny(s), LAMBDA e : ReadElems(e, n - 1, Append(elems, ValueOf(e))))
Tagged(m, s) == Then(s, LAMBDA t : Set(t, "v", <<m, ValueOf(t)>>))
ReadObject(s, props) == Tagged(ObjectMark, ReadProps(Marker(s, ObjectMark), props))
ReadEcmaArray(s) ==
    Tagged(EcmaArrayMark, ReadProps(Checked(Marker(s, EcmaArrayMark), "n", 4), <<>>))
ReadStrictArray(s) ==
    Tagged(StrictArrayMark,
           Then(Checked(Marker(s, StrictArrayMark), "n", 4),
                LAMBDA t : ReadElems(t, AsInt(t.r["n"]), <<>>)))
ReadAny(s) ==
    IF ~Going(s) THEN s
    ELSE IF IsObjectEof(s) THEN Set(ReadObjectEof(s), "v", ObjectEnd)
    ELSE IF Left(s) < 1 THEN Fail(s)
    ELSE LET m == Peek(s, 1)[1] IN
         CASE m = NumberMark -> Tagged(m, ReadNumber(s))
           [] m = BooleanMark -> Tagged(m, ReadBoolean(s))
           [] m = StringMark -> Tagged(m, ReadStr(s, <<>>))
           [] m = ObjectMark -> ReadObject(s, <<>>)
           [] m = NullMark -> Set(ReadNull(s), "v", Null)
           [] m = UndefinedMark -> Set(ReadUndefined(s), "v", Undefined)
           [] m = EcmaArrayMark -> ReadEcmaArray(s)
           [] m = StrictArrayMark -> ReadStrictArray(s)
           [] m = DateMark -> Tagged(m, ReadDate(s))
           [] OTHER -> Fail(s)
=============================================================================
