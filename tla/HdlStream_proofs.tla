--------------------------- MODULE HdlStream_proofs ---------------------------
(***************************************************************************)
(* Proofs about an HTTP-FLV stream, for every script, every piece that the *)
(* server writes, every way that the wire parts them and any number of     *)
(* timeouts: its tags come whole and in order up to where the client takes *)
(* payload for a header or a size, it does so only after a timeout, and    *)
(* the end is the end.                                                     *)
(* At the end, the mux: that a request goes to the handler of the most     *)
(* particular tree, whatever was registered and in whatever order.         *)
(***************************************************************************)
EXTENDS HdlStream, Selection_proofs

(* What may be on the wire.                                                *)
Signs == [is : {"CR", "LF", "text", "FLV", "stream id", "field"}]
HeaderUnits == [is : {"headers"}, code : Nat, chunked : BOOLEAN, length : Int]
SizeUnits == [is : {"size"}, n : Nat]
PreviousUnits == [is : {"previous"}, size : Nat]
TagUnits == [is : {"tag"}, type : STRING \ {NoTag.type}, size : Nat, time : Nat]
DataUnits == [is : {"data"}, of : Nat, part : Nat]
Unit == Signs \cup HeaderUnits \cup SizeUnits \cup PreviousUnits \cup TagUnits \cup DataUnits

(* The units that are not read yet, the whole body, how much of it is      *)
(* written, and what the headers say.                                      *)
Unread == buf \o wire
Content == IF status \in {0, OK} THEN Body(sent) ELSE Text
Done == Len(Content) - Len(pending)
Code == IF status = 0 THEN OK ELSE status
Chunked == status # 0 /\ InChunks

Seen == {AsSeen(t) : t \in Tags}

Types ==
    /\ buf \in Seq(Unit) /\ wire \in Seq(Unit) /\ pending \in Seq(Unit)
    /\ got \in Seq(Unit) /\ sent \in Seq(Tags) /\ messages \in Seq(Seen)
    /\ open \in BOOLEAN /\ torn \in BOOLEAN /\ headerSent \in BOOLEAN
    /\ isEof \in BOOLEAN /\ inEnd \in BOOLEAN
    /\ status \in {0, OK, 302, 404} /\ contentLength \in Nat \cup {-1}
    /\ written \in Nat /\ total \in Nat /\ nbLeft \in Nat /\ timeouts \in Nat /\ tag.size \in Nat
    /\ served \in {"idle", "serving", "plain", "done", "failed"}

(* The server, and what it has yet to write.                               *)
Writing ==
    /\ phase = "idle" => served = "idle" /\ open
    /\ served = "idle" => status = 0 /\ sent = << >>
    /\ served = "plain" => status = 0
    /\ served = "serving" => status # 0
    /\ status = 0 => InChunks /\ ~headerSent
    /\ ~headerSent => written = 0
    /\ status \in {302, 404} => ~InChunks
    /\ Len(pending) <= Len(Content)
    /\ \A i \in 1..Len(pending) : pending[i] = Content[Done + i]
    /\ served = "serving" => written = Done /\ (~InChunks => written <= contentLength)
    /\ served = "serving" /\ pending = << >> => headerSent
    /\ served = "done" => pending = << >>

-----------------------------------------------------------------------------
(* A sequence of units begins with the h units of headers that say m.      *)
Opening(u, h, m) ==
    \A i \in 1..Len(u) :
        /\ i = 1 => u[i] = [is |-> "headers", code |-> m.code, chunked |-> m.chunked, length |-> m.length]
        /\ 1 < i /\ i < h - 3 => u[i].is = "field"
        /\ i \in {h - 3, h - 1} => u[i] = Line[1]
        /\ i \in {h - 2, h} => u[i] = Line[2]

(* What is unread begins with the headers, if they are not parsed yet.     *)
Said == [code |-> Code, chunked |-> Chunked, length |-> contentLength]
Ahead(h, u) ==
    \/ h = 0 /\ msg = Said
    \/ /\ h >= 5 /\ msg = NoMsg
       /\ open => Len(u) >= h
       /\ Opening(u, h, Said)

(* Without chunks the rest is the body from where the reader is.           *)
Raw(h, u) ==
    /\ ~Chunked
    /\ \A i \in Nat : h < i /\ i <= Len(u) => u[i] = Content[total + i - h]
    /\ total + Len(u) - h <= Len(Content) /\ total <= Len(Content)
    /\ ~InChunks => total + Len(u) - h <= contentLength /\ total <= contentLength
    /\ open /\ served \in {"serving", "plain"} => total + Len(u) - h = Done
    /\ nbLeft = 0 /\ ~inEnd
    /\ isEof => ~InChunks /\ total >= contentLength

(* With chunks each unit leads a reader from one state to the next: what   *)
(* is to come, how much of the chunk is left, and how much of the body b   *)
(* it has.  The last chunk comes only after e units of the body.           *)
State == [mode : {"head", "size", "sizeCR", "data", "end", "endCR", "last", "lastCR", "eof"},
          left : Nat, at : Nat]
At(mode, left, at) == [mode |-> mode, left |-> left, at |-> at]
Step(b, e, s, u, t) ==
    \/ /\ s.mode = "head" /\ u.is = "size" /\ u.n \in Nat
       /\ u.n = 0 => s.at = e
       /\ t = At("size", u.n, s.at)
    \/ s.mode = "size" /\ u = Line[1] /\ t = At("sizeCR", s.left, s.at)
    \/ s.mode = "sizeCR" /\ u = Line[2] /\ t = At(IF s.left = 0 THEN "last" ELSE "data", s.left, s.at)
    \/ /\ s.mode = "data" /\ s.left > 0 /\ s.at < Len(b) /\ u = b[s.at + 1]
       /\ t = At(IF s.left = 1 THEN "end" ELSE "data", s.left - 1, s.at + 1)
    \/ s.mode = "end" /\ u = Line[1] /\ t = At("endCR", 0, s.at)
    \/ s.mode = "endCR" /\ u = Line[2] /\ t = At("head", 0, s.at)
    \/ s.mode = "last" /\ u = Line[1] /\ t = At("lastCR", 0, s.at)
    \/ s.mode = "lastCR" /\ u = Line[2] /\ t = At("eof", 0, s.at)
Path(b, e, u, h, c) ==
    /\ c \in [Nat -> State]
    /\ \A i \in Nat : h <= i /\ i < Len(u) => Step(b, e, c[i], u[i + 1], c[i + 1])
Way(b, e, u, h, s, t) ==
    \E c \in [Nat -> State] : Path(b, e, u, h, c) /\ c[h] = s /\ c[Len(u)] = t

(* The reader is in that state: after a timeout in a chunk it may take the *)
(* chunk for less than it is.                                              *)
Reader(s) ==
    /\ s.at = total /\ s.at <= Len(Content)
    /\ \/ s.mode = "head" /\ ~inEnd /\ nbLeft = 0 /\ ~isEof
       \/ s.mode = "data" /\ ~isEof /\ s.left > 0 /\ nbLeft <= s.left /\ inEnd = (nbLeft = 0)
                          /\ (nbLeft < s.left => torn)
       \/ s.mode = "end" /\ inEnd /\ nbLeft = 0 /\ ~isEof
       \/ s.mode = "last" /\ inEnd /\ nbLeft = 0 /\ isEof /\ served = "done" /\ s.at = Len(Content)
       \/ s.mode = "eof" /\ ~inEnd /\ nbLeft = 0 /\ isEof /\ served = "done" /\ s.at = Len(Content)

End == IF served = "done" THEN Len(Content) ELSE -1
Chunks(h, u, s, t) ==
    /\ Chunked
    /\ Way(Content, End, u, h, s, t)
    /\ open => t.mode = IF served = "done" THEN "eof" ELSE "head"
    /\ open /\ served = "serving" => t.at = Done
    /\ Reader(s)

(* Or it has lost its place in the chunks: no more of the body is read.    *)
Stray ==
    /\ msg.chunked /\ torn /\ ~inEnd /\ nbLeft = 0
    /\ isEof \/ ((open => Unread # << >>) /\ (Unread # << >> => Unread[1].is # "size"))

(* Nothing is there yet.                                                   *)
Nothing ==
    /\ Unread = << >> /\ msg = NoMsg
    /\ open => ~headerSent /\ served \notin {"plain", "done"}

(* The units u are what the reader has yet to read.                        *)
Rest(h, u) == Raw(h, u) \/ \E s, t \in State : Chunks(h, u, s, t)
Lay(u) == \E h \in Nat : Ahead(h, u) /\ Rest(h, u)

Layout ==
    /\ msg \in {NoMsg, Said}
    /\ msg = NoMsg => total = 0 /\ nbLeft = 0 /\ ~isEof /\ ~inEnd
    /\ served = "idle" \/ (status # 0 /\ ~headerSent) => Nothing
    /\ \/ Nothing
       \/ Stray
       \/ Lay(Unread)

-----------------------------------------------------------------------------
(* Where the tags of a script begin in its body.                           *)
Shape(s, f) ==
    LET b == Body(s)
    IN  /\ f \in [1..Len(s) + 1 -> Nat]
        /\ f[1] = 2 /\ f[Len(s) + 1] = Len(b)
        /\ \A i \in 1..Len(s) : f[i + 1] = f[i] + s[i].size + 3
        /\ \A i, j \in 1..Len(s) + 1 : i < j => f[i] < f[j]
        /\ b[1] = FlvHeader[1] /\ b[2] = FlvHeader[2]
        /\ \A i \in 1..Len(s) :
              /\ b[f[i] + 1] = WriteTag(s[i])[1]
              /\ b[f[i] + 2] = [is |-> "stream id"]
              /\ \A k \in 1..s[i].size : b[f[i] + 2 + k] = [is |-> "data", of |-> s[i].id, part |-> k]
              /\ b[f[i + 1]].is = "previous"
        /\ \A p \in 1..Len(b) :
              /\ b[p].is \in {"FLV", "previous", "tag", "stream id", "data"}
              /\ b[p].is = "FLV" => p = 1
              /\ b[p].is = "tag" => \E i \in 1..Len(s) : p = f[i] + 1

Starts == CHOOSE f : Shape(sent, f)

(* What is to be given of the first n tags of a script, and what is given  *)
(* of them: all, as long as no timeout tore a tag and another one hid that. *)
Media(s, n) == Among(SubSeq(s, 1, n), MediaOf(s))
Due(s, n) == [i \in DOMAIN Media(s, n) |-> AsSeen(Media(s, n)[i])]
Picked(ms, q) ==
    \E at \in [DOMAIN ms -> DOMAIN q] :
        /\ \A i \in DOMAIN ms : ms[i] = q[at[i]]
        /\ \A i, j \in DOMAIN ms : i < j => at[i] < at[j]
Whole == ~torn \/ timeouts <= 1
Given(n) ==
    /\ n \in 0..Len(sent)
    /\ Picked(messages, Due(sent, n))
    /\ Whole => messages = Due(sent, n)

(* The tag at hand is the i-th.                                            *)
HasTag(i, data) ==
    tag = [type |-> sent[i].type, size |-> sent[i].size,
           time |-> IF sent[i].type \in {"audio", "video"} THEN sent[i].time % Half ELSE 0, data |-> data]

Begin == total - Len(got)
Aligned ==
    \/ phase \in {"flv", "flv previous"} /\ Begin = (IF phase = "flv" THEN 0 ELSE 1) /\ Given(0)
    \/ \E i \in 1..Len(sent) + 1 : phase = "tag" /\ Begin = Starts[i] /\ Given(i - 1)
    \/ \E i \in 1..Len(sent) :
          /\ phase = "data" /\ Begin = Starts[i] + 2
          /\ HasTag(i, << >>) /\ Given(i - 1)
    \/ \E i \in 1..Len(sent) :
          /\ phase = "previous" /\ Begin = Starts[i + 1] - 1
          /\ HasTag(i, AsSeen(sent[i]).data) /\ Given(i - 1)
Torn ==
    /\ torn /\ timeouts > 0
    /\ \/ /\ phase = "flv" /\ Given(0) /\ Begin > 0
       \/ /\ phase = "tag" /\ \E i \in 1..Len(sent) : Starts[i] < Begin /\ Given(i - 1)
          /\ Begin < Len(Content) => Content[Begin + 1].is # "tag"
       \/ phase \in {"flv", "tag"} /\ Stray /\ got = << >> /\ \E i \in 0..Len(sent) : Given(i)

Place ==
    /\ timeouts = 0 => ~torn
    /\ msg = NoMsg => got = << >> /\ messages = << >>
    /\ phase \in {"idle", "headers"} => msg = NoMsg
    /\ InFull =>
          /\ msg # NoMsg /\ Code = OK
          /\ Begin >= 0 /\ total <= Len(Content) /\ Len(got) <= Want
          /\ \A k \in 1..Len(got) : got[k] = Content[Begin + k]
          /\ Aligned \/ Torn
    /\ \E i \in 0..Len(sent) : Given(i)
    /\ Ended \/ InFull \/ phase \in {"idle", "headers"}

-----------------------------------------------------------------------------
(* The units that are written are units.                                   *)
LEMMA UnitOf ==
  /\ \A sign \in {"CR", "LF", "text", "FLV", "stream id", "field"} : [is |-> sign] \in Unit
  /\ \A code \in Nat, chunked \in BOOLEAN, length \in Int :
        [is |-> "headers", code |-> code, chunked |-> chunked, length |-> length] \in Unit
  /\ \A n \in Nat : [is |-> "size", n |-> n] \in Unit
  /\ \A size \in Nat : [is |-> "previous", size |-> size] \in Unit
  /\ \A type \in STRING \ {NoTag.type}, size \in Nat, time \in Nat :
        [is |-> "tag", type |-> type, size |-> size, time |-> time] \in Unit
  /\ \A id \in Nat, part \in Nat : [is |-> "data", of |-> id, part |-> part] \in Unit
<1>1. \A sign \in {"CR", "LF", "text", "FLV", "stream id", "field"} : [is |-> sign] \in Signs
  BY DEF Signs
<1>2. \A code \in Nat, chunked \in BOOLEAN, length \in Int :
        [is |-> "headers", code |-> code, chunked |-> chunked, length |-> length] \in HeaderUnits
  BY DEF HeaderUnits
<1>3. \A n \in Nat : [is |-> "size", n |-> n] \in SizeUnits
  BY DEF SizeUnits
<1>4. \A size \in Nat : [is |-> "previous", size |-> size] \in PreviousUnits
  BY DEF PreviousUnits
<1>5. \A type \in STRING \ {NoTag.type}, size \in Nat, time \in Nat :
        [is |-> "tag", type |-> type, size |-> size, time |-> time] \in TagUnits
  BY DEF TagUnits
<1>6. \A id \in Nat, part \in Nat : [is |-> "data", of |-> id, part |-> part] \in DataUnits
  BY DEF DataUnits
<1> QED BY <1>1, <1>2, <1>3, <1>4, <1>5, <1>6 DEF Unit

(* Two units are a sequence.                                               *)
LEMMA TwoUnits ==
  ASSUME NEW S, NEW x \in S, NEW y \in S
  PROVE  <<x, y>> \in Seq(S) /\ Len(<<x, y>>) = 2 /\ <<x, y>>[1] = x /\ <<x, y>>[2] = y
OBVIOUS

(* The elements of two sequences joined.                                   *)
LEMMA Concat ==
  ASSUME NEW S, NEW s \in Seq(S), NEW t \in Seq(S)
  PROVE  /\ s \o t \in Seq(S) /\ Len(s \o t) = Len(s) + Len(t)
         /\ Len(s) \in Nat /\ Len(t) \in Nat
         /\ \A i \in 1..Len(s) : (s \o t)[i] = s[i]
         /\ \A i \in 1..Len(t) : (s \o t)[Len(s) + i] = t[i]
OBVIOUS

(* The elements of a sequence with one more.                               *)
LEMMA Appended ==
  ASSUME NEW S, NEW s \in Seq(S), NEW x \in S
  PROVE  /\ Append(s, x) \in Seq(S) /\ Len(Append(s, x)) = Len(s) + 1 /\ Len(s) \in Nat
         /\ \A i \in 1..Len(s) : Append(s, x)[i] = s[i]
         /\ Append(s, x)[Len(s) + 1] = x
OBVIOUS

(* A tag has a header, a stream id, its data and its size.                 *)
LEMMA WriteTagUnits ==
  ASSUME NEW x \in Tags
  PROVE  /\ WriteTag(x) \in Seq(Unit) /\ Len(WriteTag(x)) = x.size + 3
         /\ WriteTag(x)[1] = [is |-> "tag", type |-> x.type, size |-> x.size,
                              time |-> IF x.type \in {"audio", "video"} THEN x.time % Half ELSE 0]
         /\ WriteTag(x)[2] = [is |-> "stream id"]
         /\ \A k \in 1..x.size : WriteTag(x)[2 + k] = [is |-> "data", of |-> x.id, part |-> k]
         /\ WriteTag(x)[x.size + 3].is = "previous"
<1> DEFINE time == IF x.type \in {"audio", "video"} THEN x.time % Half ELSE 0
           a == << [is |-> "tag", type |-> x.type, size |-> x.size, time |-> time], [is |-> "stream id"] >>
           d == [i \in 1..x.size |-> [is |-> "data", of |-> x.id, part |-> i]]
           p == << [is |-> "previous", size |-> x.size + TagHeaderUnits] >>
<1>1. x.size \in Nat /\ x.id \in Nat /\ time \in Nat /\ x.type \in STRING \ {NoTag.type}
  BY HalfAssumption DEF Tags
<1>2. a \in Seq(Unit) /\ Len(a) = 2 /\ a[2] = [is |-> "stream id"]
      /\ a[1] = [is |-> "tag", type |-> x.type, size |-> x.size, time |-> time]
  <2>1. [is |-> "tag", type |-> x.type, size |-> x.size, time |-> time] \in Unit
    <3> HIDE DEF time
    <3> QED BY <1>1, UnitOf
  <2>2. [is |-> "stream id"] \in Unit
    BY UnitOf
  <2> HIDE DEF time
  <2> QED BY <2>1, <2>2, TwoUnits
<1>3. d \in Seq(Unit) /\ Len(d) = x.size /\ \A k \in 1..x.size : d[k] = [is |-> "data", of |-> x.id, part |-> k]
  <2>1. ASSUME NEW i \in 1..x.size PROVE [is |-> "data", of |-> x.id, part |-> i] \in Unit
    <3>1. i \in Nat
      BY <1>1
    <3> QED BY <1>1, <3>1, UnitOf
  <2> QED BY <1>1, <2>1
<1>4. p \in Seq(Unit) /\ Len(p) = 1 /\ p[1].is = "previous"
  <2>1. [is |-> "previous", size |-> x.size + TagHeaderUnits] \in Unit
    <3>1. x.size + TagHeaderUnits \in Nat
      BY <1>1 DEF TagHeaderUnits
    <3> QED BY <3>1, UnitOf
  <2> QED BY <2>1
<1>5. WriteTag(x) = (a \o d) \o p
  BY DEF WriteTag, TimeWritten
<1>6. \A k \in 1..x.size : 2 + k \in 1..x.size + 2 /\ (2 + k) - 2 = k
  BY <1>1
<1> HIDE DEF a, d, p, time
<1> DEFINE b == a \o d
<1>7. /\ b \in Seq(Unit) /\ Len(b) = x.size + 2 /\ b[1] = a[1] /\ b[2] = a[2]
      /\ \A k \in 1..x.size : b[2 + k] = d[k]
  <2>1. /\ b \in Seq(Unit) /\ Len(b) = Len(a) + Len(d)
        /\ \A i \in 1..Len(a) : b[i] = a[i]
        /\ \A i \in 1..Len(d) : b[Len(a) + i] = d[i]
    <3>1. a \in Seq(Unit) /\ d \in Seq(Unit)
      BY <1>2, <1>3
    <3> QED BY <3>1, Concat
  <2> HIDE DEF b
  <2>2. \A k \in 1..x.size : b[2 + k] = d[k]
    BY <1>2, <1>3, <2>1
  <2>3. Len(b) = x.size + 2 /\ 1 \in 1..Len(a) /\ 2 \in 1..Len(a)
    <3>1. Len(a) = 2 /\ Len(d) = x.size /\ Len(b) = Len(a) + Len(d) /\ x.size \in Nat
      BY <1>1, <1>2, <1>3, <2>1
    <3> QED BY <3>1
  <2> QED BY <2>1, <2>2, <2>3
<1> HIDE DEF b
<1>8. /\ b \o p \in Seq(Unit) /\ Len(b \o p) = x.size + 3
      /\ \A k \in 1..x.size + 2 : (b \o p)[k] = b[k]
      /\ (b \o p)[x.size + 3] = p[1]
  <2> DEFINE c == b \o p
  <2>1. /\ c \in Seq(Unit) /\ Len(c) = Len(b) + Len(p)
        /\ \A i \in 1..Len(b) : c[i] = b[i]
        /\ \A i \in 1..Len(p) : c[Len(b) + i] = p[i]
    <3>1. b \in Seq(Unit) /\ p \in Seq(Unit)
      BY <1>4, <1>7
    <3> QED BY <3>1, Concat
  <2> HIDE DEF c
  <2>2. x.size + 3 = Len(b) + 1 /\ 1 \in 1..Len(p)
    BY <1>1, <1>4, <1>7
  <2>3. c[Len(b) + 1] = p[1]
    BY <2>1, <2>2
  <2>4. c \in Seq(Unit) /\ Len(c) = x.size + 3 /\ \A k \in 1..x.size + 2 : c[k] = b[k]
    BY <1>4, <1>7, <2>1, <2>2
  <2>5. c[x.size + 3] = p[1]
    BY <2>2, <2>3
  <2> QED BY <2>4, <2>5 DEF c
<1>9. 1 \in 1..x.size + 2 /\ 2 \in 1..x.size + 2
  BY <1>1
<1> DEFINE c == b \o p
<1>10. WriteTag(x) = c
  BY <1>5 DEF b
<1>11. /\ c \in Seq(Unit) /\ Len(c) = x.size + 3
       /\ \A k \in 1..x.size + 2 : c[k] = b[k]
       /\ c[x.size + 3] = p[1]
  BY <1>8
<1> HIDE DEF c
<1>12. ASSUME NEW k \in 1..x.size PROVE c[2 + k] = [is |-> "data", of |-> x.id, part |-> k]
  BY <1>3, <1>6, <1>7, <1>11
<1>13. c[1] = a[1] /\ c[2] = a[2]
  BY <1>7, <1>9, <1>11
<1> QED BY <1>2, <1>4, <1>10, <1>11, <1>12, <1>13 DEF time

(* The body of no tags is the FLV header.                                  *)
LEMMA BodyEmpty ==
  /\ Body(<< >>) = FlvHeader /\ FlvHeader \in Seq(Unit) /\ Len(FlvHeader) = 2
  /\ FlvHeader[1].is = "FLV" /\ FlvHeader[2].is = "previous"
<1>1. FlvHeader \in Seq(Unit) /\ Len(FlvHeader) = 2
      /\ FlvHeader[1].is = "FLV" /\ FlvHeader[2].is = "previous"
  <2>1. [is |-> "FLV"] \in Unit /\ [is |-> "previous", size |-> 0] \in Unit
    BY UnitOf
  <2> QED BY <2>1, TwoUnits DEF FlvHeader
<1>2. [i \in DOMAIN << >> |-> WriteTag(<< >>[i])] = << >>
  OBVIOUS
<1>3. FlvHeader \o << >> = FlvHeader
  BY <1>1
<1> QED BY <1>1, <1>2, <1>3, FlattenEmpty DEF Body

(* One more tag comes behind the body.                                     *)
LEMMA BodyAppend ==
  ASSUME NEW s \in Seq(Tags), NEW x \in Tags
  PROVE  Body(Append(s, x)) = Body(s) \o WriteTag(x) /\ Body(s) \in Seq(Unit)
<1> DEFINE t == Append(s, x)
           m == [i \in DOMAIN s |-> WriteTag(s[i])]
           n == [i \in DOMAIN t |-> WriteTag(t[i])]
<1>1. /\ t \in Seq(Tags) /\ Len(t) = Len(s) + 1 /\ t[Len(t)] = x /\ Len(s) \in Nat
      /\ \A i \in 1..Len(s) : t[i] = s[i] /\ s[i] \in Tags
  OBVIOUS
<1>2. WriteTag(x) \in Seq(Unit) /\ \A i \in 1..Len(s) : WriteTag(s[i]) \in Seq(Unit)
  BY <1>1, WriteTagUnits
<1>3. m \in Seq(Seq(Unit)) /\ Len(m) = Len(s)
  BY <1>1, <1>2
<1>4. n = Append(m, WriteTag(x))
  <2> DEFINE o == Append(m, WriteTag(x))
  <2> HIDE DEF m
  <2>1. /\ o \in Seq(Seq(Unit)) /\ Len(o) = Len(s) + 1 /\ o[Len(s) + 1] = WriteTag(x)
        /\ \A i \in 1..Len(s) : o[i] = m[i]
    <3> DEFINE w == WriteTag(x)
    <3>1. w \in Seq(Unit)
      BY <1>2
    <3> HIDE DEF w
    <3>2. /\ Append(m, w) \in Seq(Seq(Unit)) /\ Len(Append(m, w)) = Len(m) + 1
          /\ \A i \in 1..Len(m) : Append(m, w)[i] = m[i]
          /\ Append(m, w)[Len(m) + 1] = w
      <4>1. m \in Seq(Seq(Unit))
        BY <1>3
      <4> HIDE <1>1, <1>2, <1>3
      <4> QED BY <3>1, <4>1, Appended
    <3> QED BY <1>3, <3>2 DEF w
  <2>2. \A i \in 1..Len(s) : m[i] = WriteTag(s[i])
    BY DEF m
  <2> HIDE DEF t
  <2>3. n \in Seq(Seq(Unit)) /\ Len(n) = Len(s) + 1
    BY <1>1, <1>2
  <2>4. ASSUME NEW i \in 1..Len(s) + 1 PROVE n[i] = o[i]
    <3>1. n[i] = WriteTag(t[i])
      BY <1>1
    <3>2. CASE i \in 1..Len(s)
      <4>1. t[i] = s[i] /\ o[i] = m[i] /\ m[i] = WriteTag(s[i])
        BY <1>1, <2>1, <2>2, <3>2
      <4> QED BY <3>1, <4>1
    <3>3. CASE i = Len(s) + 1
      <4>1. t[i] = x /\ o[i] = WriteTag(x)
        BY <1>1, <2>1, <3>3
      <4> QED BY <3>1, <4>1
    <3>4. i \in 1..Len(s) \/ i = Len(s) + 1
      BY <1>1
    <3> QED BY <3>2, <3>3, <3>4
  <2> HIDE DEF n, o
  <2>5. n = o
    BY <2>1, <2>3, <2>4, SeqEqual
  <2> QED BY <2>5 DEF o
<1>5. FlattenSeq(n) = FlattenSeq(m) \o WriteTag(x) /\ FlattenSeq(m) \in Seq(Unit)
  <2> HIDE DEF m
  <2> QED BY <1>2, <1>3, <1>4, FlattenAppend, FlattenType
<1>6. Body(t) = FlvHeader \o FlattenSeq(n) /\ Body(s) = FlvHeader \o FlattenSeq(m)
  BY DEF Body
<1> HIDE DEF m, n
<1>7. FlvHeader \o (FlattenSeq(m) \o WriteTag(x)) = (FlvHeader \o FlattenSeq(m)) \o WriteTag(x)
  BY <1>2, <1>5, BodyEmpty, ConcatAssociative
<1>8. FlvHeader \o FlattenSeq(m) \in Seq(Unit)
  BY <1>5, BodyEmpty
<1> QED BY <1>5, <1>6, <1>7, <1>8

(* The body of a script has its shape.                                     *)
LEMMA BodyShape ==
  ASSUME NEW s \in Seq(Tags)
  PROVE  Body(s) \in Seq(Unit) /\ Len(Body(s)) >= 2 /\ \E f : Shape(s, f)
<1> DEFINE Q(q) == Body(q) \in Seq(Unit) /\ Len(Body(q)) >= 2 /\ \E f : Shape(q, f)
           P == {q \in Seq(Tags) : Q(q)}
<1>1. << >> \in P
  <2> DEFINE f == [i \in 1..1 |-> 2]
             b == Body(<< >>)
             e == << >>
  <2>1. /\ b \in Seq(Unit) /\ Len(b) = 2 /\ b[1] = FlvHeader[1] /\ b[2] = FlvHeader[2]
        /\ b[1].is = "FLV" /\ b[2].is = "previous"
    BY BodyEmpty
  <2>2. e \in Seq(Tags) /\ Len(e) = 0
    OBVIOUS
  <2>3. /\ f \in [1..Len(e) + 1 -> Nat] /\ f[1] = 2 /\ f[Len(e) + 1] = Len(b)
        /\ \A i, j \in 1..Len(e) + 1 : ~(i < j)
        /\ 1..Len(e) = {}
    BY <2>1, <2>2
  <2>4. \A p \in 1..Len(b) : p = 1 \/ p = 2
    <3> DEFINE n == Len(b)
    <3>1. n = 2
      BY <2>1
    <3> HIDE DEF n
    <3>2. \A p \in 1..n : p = 1 \/ p = 2
      BY <3>1
    <3> QED BY <3>2 DEF n
  <2> HIDE DEF f, e
  <2>5. Shape(e, f)
    <3>1. b = Body(e)
      BY DEF e
    <3> HIDE DEF b
    <3> QED BY <2>1, <2>2, <2>3, <2>4, <3>1 DEF Shape
  <2> QED BY <2>1, <2>2, <2>5 DEF e
<1>2. ASSUME NEW q \in P, NEW x \in Tags PROVE Append(q, x) \in P
  <2> DEFINE t == Append(q, x)
             b == Body(q)
             w == WriteTag(x)
             c == Body(t)
             m == Len(q)
  <2>1. PICK f : Shape(q, f)
    OBVIOUS
  <2>2. /\ t \in Seq(Tags) /\ Len(t) = m + 1 /\ m \in Nat
        /\ \A i \in 1..m : t[i] = q[i]
        /\ t[m + 1] = x
        /\ \A i \in 1..m : q[i].size \in Nat
    <3>1. \A i \in 1..m : q[i] \in Tags
      OBVIOUS
    <3>2. \A i \in 1..m : q[i].size \in Nat
      BY <3>1 DEF Tags
    <3> QED BY <3>2
  <2>3. /\ w \in Seq(Unit) /\ Len(w) = x.size + 3 /\ x.size \in Nat
        /\ w[1] = WriteTag(x)[1] /\ w[1].is = "tag"
        /\ w[2] = [is |-> "stream id"] /\ w[2].is = "stream id"
        /\ \A k \in 1..x.size : w[2 + k] = [is |-> "data", of |-> x.id, part |-> k]
        /\ \A k \in 1..x.size : w[2 + k].is = "data"
        /\ w[x.size + 3].is = "previous"
    <3>1. x.size \in Nat
      BY DEF Tags
    <3> HIDE DEF w
    <3>4. /\ w \in Seq(Unit) /\ Len(w) = x.size + 3
          /\ w[2] = [is |-> "stream id"]
          /\ \A k \in 1..x.size : w[2 + k] = [is |-> "data", of |-> x.id, part |-> k]
          /\ w[x.size + 3].is = "previous"
          /\ w[1] = [is |-> "tag", type |-> x.type, size |-> x.size,
                      time |-> IF x.type \in {"audio", "video"} THEN x.time % Half ELSE 0]
      BY WriteTagUnits DEF w
    <3>2. ASSUME NEW k \in 1..x.size PROVE w[2 + k].is = "data"
      <4>1. w[2 + k] = [is |-> "data", of |-> x.id, part |-> k]
        BY <3>4
      <4>2. [is |-> "data", of |-> x.id, part |-> k].is = "data"
        OBVIOUS
      <4> QED BY <4>1, <4>2
    <3>3. w[1].is = "tag" /\ w[2].is = "stream id"
      <4>1. w[2] = [is |-> "stream id"]
        BY <3>4
      <4>2. w[1] = [is |-> "tag", type |-> x.type, size |-> x.size,
                    time |-> IF x.type \in {"audio", "video"} THEN x.time % Half ELSE 0]
        BY <3>4
      <4>3. w[1].is = "tag"
        BY ONLY <4>2
      <4>4. w[2].is = "stream id"
        <5>1. [is |-> "stream id"].is = "stream id"
          OBVIOUS
        <5> QED BY ONLY <4>1, <5>1
      <4> QED BY <4>3, <4>4
    <3> QED BY <3>1, <3>2, <3>3, <3>4 DEF w
  <2>4. b \in Seq(Unit) /\ Len(b) >= 2 /\ c = b \o w
    BY BodyAppend
  <2> HIDE DEF w, c
  <2> DEFINE n == Len(b)
             z == x.size
  <2>5. /\ c \in Seq(Unit) /\ Len(c) = n + z + 3 /\ n \in Nat /\ n >= 2 /\ z \in Nat
        /\ \A k \in 1..n : c[k] = b[k]
        /\ \A k \in 1..z + 3 : c[n + k] = w[k]
    <3>1. w \in Seq(Unit) /\ Len(w) = z + 3 /\ z \in Nat
      BY <2>3
    <3>2. b \in Seq(Unit) /\ n >= 2 /\ c = b \o w
      BY <2>4
    <3> HIDE DEF b, z
    <3>3. /\ b \o w \in Seq(Unit) /\ Len(b \o w) = Len(b) + Len(w) /\ Len(b) \in Nat
          /\ \A k \in 1..Len(b) : (b \o w)[k] = b[k]
          /\ \A k \in 1..Len(w) : (b \o w)[Len(b) + k] = w[k]
      <4>1. b \in Seq(Unit) /\ w \in Seq(Unit)
        BY <3>1, <3>2
      <4> QED BY ONLY <4>1, Concat
    <3> QED BY ONLY <3>1, <3>2, <3>3
  <2> DEFINE g == [i \in 1..m + 2 |-> IF i <= m + 1 THEN f[i] ELSE n + z + 3]
  <2>6. /\ f \in [1..m + 1 -> Nat] /\ f[1] = 2 /\ f[m + 1] = n
        /\ \A i \in 1..m : f[i + 1] = f[i] + q[i].size + 3
        /\ \A i, j \in 1..m + 1 : i < j => f[i] < f[j]
    BY <2>1 DEF Shape
  <2>7. /\ b[1] = FlvHeader[1] /\ b[2] = FlvHeader[2]
        /\ \A i \in 1..m :
              /\ b[f[i] + 1] = WriteTag(q[i])[1]
              /\ b[f[i] + 2] = [is |-> "stream id"]
              /\ \A k \in 1..q[i].size : b[f[i] + 2 + k] = [is |-> "data", of |-> q[i].id, part |-> k]
              /\ b[f[i + 1]].is = "previous"
    BY <2>1 DEF Shape
  <2>8. \A p \in 1..n :
              /\ b[p].is \in {"FLV", "previous", "tag", "stream id", "data"}
              /\ b[p].is = "FLV" => p = 1
              /\ b[p].is = "tag" => \E i \in 1..m : p = f[i] + 1
    BY <2>1 DEF Shape
  <2> HIDE DEF b, t, m, n, z
  <2>20. m \in Nat /\ n \in Nat /\ n >= 2 /\ z \in Nat /\ Len(c) = n + z + 3
    BY <2>2, <2>5
  <2>9. /\ g \in [1..m + 2 -> Nat] /\ g[m + 2] = n + z + 3
        /\ \A i \in 1..m + 1 : g[i] = f[i]
    BY <2>20, <2>6
  <2> HIDE DEF g
  <2>21. /\ \A i \in 1..m : t[i] = q[i] /\ q[i].size \in Nat
        /\ t[m + 1] = x
    BY <2>2
  <2>10. ASSUME NEW i \in 1..m + 1 PROVE g[i + 1] = g[i] + t[i].size + 3
    <3>1. CASE i \in 1..m
      <4>1. i \in 1..m + 1 /\ i + 1 \in 1..m + 1
        BY <2>20, <3>1
      <4>2. g[i] = f[i] /\ g[i + 1] = f[i + 1]
        BY <2>9, <4>1
      <4> QED BY <2>21, <2>6, <3>1, <4>2
    <3>2. CASE i = m + 1
      <4>1. g[i + 1] = n + z + 3 /\ g[i] = n /\ t[i] = x
        <5>1. i + 1 = m + 2
          BY <2>20, <3>2
        <5> QED BY <2>21, <2>6, <2>9, <3>2, <5>1
      <4> QED BY <4>1 DEF z
    <3>3. i \in 1..m \/ i = m + 1
      BY <2>20
    <3> QED BY <3>1, <3>2, <3>3
  <2>11. ASSUME NEW i \in 1..m + 2, NEW j \in 1..m + 2, i < j PROVE g[i] < g[j]
    <3>1. i \in 1..m + 1 /\ g[i] = f[i] /\ f[i] \in Nat
      BY <2>20, <2>6, <2>9, <2>11
    <3>2. CASE j \in 1..m + 1
      BY <2>6, <2>9, <2>11, <3>1, <3>2
    <3>3. CASE j = m + 2
      <4>1. f[i] <= n
        <5>1. m + 1 \in 1..m + 1 /\ (i < m + 1 \/ i = m + 1)
          BY <2>20, <3>1
        <5>2. f[m + 1] = n /\ f[m + 1] \in Nat
          BY <2>6, <5>1
        <5> QED BY <2>6, <3>1, <5>1, <5>2
      <4> QED BY <2>20, <2>9, <3>1, <3>3, <4>1
    <3>4. j \in 1..m + 1 \/ j = m + 2
      BY <2>20
    <3> QED BY <3>2, <3>3, <3>4
  <2>12. ASSUME NEW i \in 1..m
         PROVE  /\ f[i] \in Nat /\ f[i] + q[i].size + 3 <= n /\ q[i].size \in Nat
                /\ f[i + 1] \in 1..n
    <3>1. f[i + 1] = f[i] + q[i].size + 3 /\ f[i] \in Nat /\ f[i + 1] \in Nat /\ q[i].size \in Nat
      <4>1. i \in 1..m + 1 /\ i + 1 \in 1..m + 1
        BY <2>20
      <4> QED BY <2>21, <2>6, <4>1
    <3>2. i + 1 \in 1..m + 1 /\ m + 1 \in 1..m + 1 /\ (i + 1 < m + 1 \/ i = m)
      BY <2>20
    <3>3. f[i + 1] <= n
      BY <2>20, <2>6, <3>1, <3>2
    <3> QED BY <3>1, <3>3
  <2>13. ASSUME NEW i \in 1..m + 1
         PROVE  /\ c[g[i] + 1] = WriteTag(t[i])[1]
                /\ c[g[i] + 2] = [is |-> "stream id"]
                /\ \A k \in 1..t[i].size : c[g[i] + 2 + k] = [is |-> "data", of |-> t[i].id, part |-> k]
                /\ c[g[i + 1]].is = "previous"
    <3>1. CASE i \in 1..m
      <4>1. t[i] = q[i] /\ g[i] = f[i] /\ g[i + 1] = f[i + 1]
        <5>1. i \in 1..m + 1 /\ i + 1 \in 1..m + 1
          BY <2>20, <3>1
        <5> QED BY <2>21, <2>9, <3>1, <5>1
      <4>2. /\ f[i] + 1 \in 1..n /\ f[i] + 2 \in 1..n /\ f[i + 1] \in 1..n
            /\ \A k \in 1..q[i].size : f[i] + 2 + k \in 1..n
        <5>1. /\ f[i] \in Nat /\ f[i] + q[i].size + 3 <= n /\ q[i].size \in Nat
              /\ f[i + 1] \in 1..n
          BY <2>12, <3>1
        <5> DEFINE u == f[i]
                   v == q[i].size
        <5>2. u \in Nat /\ v \in Nat /\ u + v + 3 <= n
          BY <5>1
        <5> HIDE DEF u, v
        <5>3. u + 1 \in 1..n /\ u + 2 \in 1..n /\ \A k \in 1..v : u + 2 + k \in 1..n
          BY <2>20, <5>2
        <5> QED BY <5>1, <5>3 DEF u, v
      <4>3. /\ b[f[i] + 1] = WriteTag(q[i])[1]
            /\ b[f[i] + 2] = [is |-> "stream id"]
            /\ \A k \in 1..q[i].size : b[f[i] + 2 + k] = [is |-> "data", of |-> q[i].id, part |-> k]
            /\ b[f[i + 1]].is = "previous"
        BY <2>7, <3>1
      <4>4. /\ c[f[i] + 1] = b[f[i] + 1] /\ c[f[i] + 2] = b[f[i] + 2] /\ c[f[i + 1]] = b[f[i + 1]]
            /\ \A k \in 1..q[i].size : c[f[i] + 2 + k] = b[f[i] + 2 + k]
        BY <2>5, <4>2
      <4>5. c[g[i] + 1] = WriteTag(t[i])[1] /\ c[g[i] + 2] = [is |-> "stream id"]
        BY ONLY <4>1, <4>3, <4>4
      <4>6. \A k \in 1..t[i].size : c[g[i] + 2 + k] = [is |-> "data", of |-> t[i].id, part |-> k]
        <5>1. /\ \A k \in 1..q[i].size : c[f[i] + 2 + k] = b[f[i] + 2 + k]
              /\ \A k \in 1..q[i].size : b[f[i] + 2 + k] = [is |-> "data", of |-> q[i].id, part |-> k]
          BY <4>3, <4>4
        <5>2. \A k \in 1..q[i].size : c[f[i] + 2 + k] = [is |-> "data", of |-> q[i].id, part |-> k]
          BY ONLY <5>1
        <5>3. t[i] = q[i] /\ g[i] = f[i]
          BY <4>1
        <5> HIDE DEF t, g
        <5> QED BY ONLY <5>2, <5>3
      <4>7. c[g[i + 1]].is = "previous"
        BY ONLY <4>1, <4>3, <4>4
      <4> QED BY <4>5, <4>6, <4>7
    <3>2. CASE i = m + 1
      <4>1. t[i] = x /\ g[i] = n /\ g[i + 1] = n + (z + 3)
        <5>1. i + 1 = m + 2 /\ n + (z + 3) = n + z + 3 /\ m + 1 \in 1..m + 1
          BY <2>20, <3>2
        <5> QED BY <2>21, <2>6, <2>9, <3>2, <5>1
      <4>2. /\ c[n + 1] = w[1] /\ c[n + 2] = w[2] /\ c[n + (z + 3)] = w[z + 3]
            /\ \A k \in 1..z : c[n + (2 + k)] = w[2 + k]
        <5>1. /\ 1 \in 1..z + 3 /\ 2 \in 1..z + 3 /\ z + 3 \in 1..z + 3
              /\ \A k \in 1..z : 2 + k \in 1..z + 3
          BY <2>20
        <5> QED BY <2>5, <5>1
      <4>3. \A k \in 1..z : n + (2 + k) = n + 2 + k
        BY <2>20
      <4>4. \A k \in 1..z : c[n + 2 + k] = [is |-> "data", of |-> x.id, part |-> k]
        BY <2>3, <4>2, <4>3 DEF z
      <4>5. c[n + 1] = WriteTag(x)[1] /\ c[n + 2] = [is |-> "stream id"] /\ c[n + (z + 3)].is = "previous"
        BY <2>3, <4>2 DEF z
      <4> QED BY <4>1, <4>4, <4>5 DEF z
    <3>3. i \in 1..m \/ i = m + 1
      BY <2>20
    <3> QED BY <3>1, <3>2, <3>3
  <2>14. ASSUME NEW p \in 1..Len(c)
         PROVE  /\ c[p].is \in {"FLV", "previous", "tag", "stream id", "data"}
                /\ c[p].is = "FLV" => p = 1
                /\ c[p].is = "tag" => \E i \in 1..m + 1 : p = g[i] + 1
    <3>1. CASE p \in 1..n
      <4>1. c[p] = b[p]
        BY <2>5, <3>1
      <4>2. \A i \in 1..m : i \in 1..m + 1 /\ g[i] = f[i]
        BY <2>20, <2>9
      <4>3. /\ b[p].is \in {"FLV", "previous", "tag", "stream id", "data"}
            /\ b[p].is = "FLV" => p = 1
            /\ b[p].is = "tag" => \E i \in 1..m : p = f[i] + 1
        BY <2>8, <3>1
      <4>4. b[p].is = "tag" => \E i \in 1..m + 1 : p = g[i] + 1
        BY <4>2, <4>3
      <4> HIDE DEF b
      <4> QED BY <4>1, <4>3, <4>4
    <3>2. CASE p \notin 1..n
      <4> DEFINE k == p - n
      <4>1. k \in 1..z + 3 /\ p = n + k
        BY <2>20, <3>2
      <4> HIDE DEF k
      <4>2. c[p] = w[k]
        BY <2>5, <4>1
      <4>3. k = 1 \/ k = 2 \/ k = z + 3 \/ (k - 2 \in 1..z /\ k = 2 + (k - 2))
        BY <2>20, <4>1
      <4>4. w[k].is \in {"previous", "tag", "stream id", "data"} /\ (w[k].is = "tag" => k = 1)
        <5>1. CASE k = 1
          BY <2>3, <5>1 DEF z
        <5>2. CASE k = 2
          BY <2>3, <5>2 DEF z
        <5>3. CASE k = z + 3
          BY <2>3, <5>3 DEF z
        <5>4. CASE k - 2 \in 1..z /\ k = 2 + (k - 2)
          <6>1. w[2 + (k - 2)].is = "data"
            BY <2>3, <5>4 DEF z
          <6> QED BY <5>4, <6>1
        <5> QED BY <4>3, <5>1, <5>2, <5>3, <5>4
      <4>5. m + 1 \in 1..m + 1 /\ g[m + 1] = n
        BY <2>20, <2>6, <2>9
      <4> QED BY <4>1, <4>2, <4>4, <4>5
    <3> QED BY <3>1, <3>2
  <2>15. c[1] = FlvHeader[1] /\ c[2] = FlvHeader[2] /\ Len(c) >= 2 /\ g[1] = 2 /\ g[m + 2] = Len(c)
    <3>1. 1 \in 1..n /\ 2 \in 1..n /\ 1 \in 1..m + 1
      BY <2>20
    <3>2. c[1] = FlvHeader[1] /\ c[2] = FlvHeader[2]
      BY <2>5, <2>7, <3>1
    <3>3. g[1] = 2 /\ g[m + 2] = Len(c) /\ Len(c) >= 2
      BY <2>20, <2>6, <2>9, <3>1
    <3> QED BY <3>2, <3>3
  <2>16. Shape(t, g)
    <3>1. c = Body(t) /\ Len(t) = m + 1 /\ m + 1 + 1 = m + 2 /\ Len(t) + 1 = m + 2
      BY <2>2, <2>20 DEF c
    <3>2. /\ g \in [1..Len(t) + 1 -> Nat] /\ g[1] = 2 /\ g[Len(t) + 1] = Len(c)
          /\ \A i \in 1..Len(t) : g[i + 1] = g[i] + t[i].size + 3
          /\ \A i, j \in 1..Len(t) + 1 : i < j => g[i] < g[j]
      BY <2>9, <2>10, <2>11, <2>15, <3>1
    <3>3. \A i \in 1..Len(t) :
              /\ c[g[i] + 1] = WriteTag(t[i])[1]
              /\ c[g[i] + 2] = [is |-> "stream id"]
              /\ \A k \in 1..t[i].size : c[g[i] + 2 + k] = [is |-> "data", of |-> t[i].id, part |-> k]
              /\ c[g[i + 1]].is = "previous"
      BY <2>13, <3>1
    <3>4. \A p \in 1..Len(c) :
              /\ c[p].is \in {"FLV", "previous", "tag", "stream id", "data"}
              /\ c[p].is = "FLV" => p = 1
              /\ c[p].is = "tag" => \E i \in 1..Len(t) : p = g[i] + 1
      BY <2>14, <3>1
    <3>5. c[1] = FlvHeader[1] /\ c[2] = FlvHeader[2]
      BY <2>15
    <3> HIDE DEF c
    <3> QED BY <3>1, <3>2, <3>3, <3>4, <3>5 DEF Shape
  <2>17. Body(t) \in Seq(Unit) /\ Len(Body(t)) >= 2
    BY <2>5, <2>15 DEF c
  <2> QED BY <2>2, <2>16, <2>17 DEF t
<1>3. P = Seq(Tags)
  <2>1. P \in SUBSET Seq(Tags) OBVIOUS
  <2> HIDE DEF P
  <2> QED BY <1>1, <1>2, <2>1, SeqInduction
<1>4. s \in P
  <2> HIDE DEF P
  <2> QED BY <1>3
<1> QED BY <1>4

(* The tags of what was sent begin where that says.                        *)
LEMMA StartsShape ==
  ASSUME sent \in Seq(Tags)
  PROVE  Shape(sent, Starts)
BY BodyShape DEF Starts

-----------------------------------------------------------------------------
(* What is to be given of no tags, and of one tag more.                    *)
LEMMA MediaNext ==
  ASSUME NEW s \in Seq(Tags)
  PROVE  /\ Media(s, 0) = << >>
         /\ Media(s, Len(s)) = Among(s, MediaOf(s))
         /\ \A n \in 0..Len(s) : Media(s, n) \in Seq(Tags)
         /\ \A n \in 1..Len(s) :
               Media(s, n) = IF s[n].type \in TagTypes THEN Append(Media(s, n - 1), s[n])
                             ELSE Media(s, n - 1)
<1> DEFINE T == MediaOf(s)
<1>1. Media(s, 0) = << >>
  <2>1. SubSeq(s, 1, 0) = << >>
    OBVIOUS
  <2> QED BY <2>1, AmongEmpty DEF Media
<1>2. SubSeq(s, 1, Len(s)) = s
  OBVIOUS
<1>3. ASSUME NEW n \in 0..Len(s) PROVE Media(s, n) \in Seq(Tags)
  <2>1. SubSeq(s, 1, n) \in Seq(Tags)
    OBVIOUS
  <2>2. Among(SubSeq(s, 1, n), T) \in Seq(Tags \cap T)
    BY <2>1, AmongType
  <2> HIDE DEF T
  <2>3. Among(SubSeq(s, 1, n), T) \in Seq(Tags)
    BY <2>2
  <2> QED BY <2>3 DEF Media, T
<1>4. ASSUME NEW n \in 1..Len(s)
      PROVE  Media(s, n) = IF s[n].type \in TagTypes THEN Append(Media(s, n - 1), s[n])
                           ELSE Media(s, n - 1)
  <2> DEFINE p == SubSeq(s, 1, n - 1)
  <2>1. p \in Seq(Tags) /\ Len(p) = n - 1 /\ s[n] \in Tags
    OBVIOUS
  <2>2. SubSeq(s, 1, n) = Append(p, s[n])
    OBVIOUS
  <2>3. s[n] \in T <=> s[n].type \in TagTypes
    <3>1. s[n] \in Range(s)
      BY DEF Range
    <3> QED BY <3>1 DEF MediaOf
  <2> HIDE DEF p, T
  <2>4. Among(Append(p, s[n]), T) = IF s[n] \in T THEN Append(Among(p, T), s[n]) ELSE Among(p, T)
    <3> DEFINE x == s[n]
    <3>1. p \in Seq(Tags) /\ x \in Tags
      BY <2>1
    <3> HIDE DEF x
    <3>2. Among(Append(p, x), T) = IF x \in T THEN Append(Among(p, T), x) ELSE Among(p, T)
      BY <3>1, AmongAppend
    <3> QED BY <3>2 DEF x
  <2> QED BY <2>2, <2>3, <2>4 DEF Media, T, p
<1> QED BY <1>1, <1>2, <1>3, <1>4 DEF Media

(* The same for what is given of them.                                     *)
LEMMA DueNext ==
  ASSUME NEW s \in Seq(Tags)
  PROVE  /\ Due(s, 0) = << >>
         /\ \A n \in 0..Len(s) : Due(s, n) \in Seq(Seen)
         /\ \A n \in 1..Len(s) :
               Due(s, n) = IF s[n].type \in TagTypes THEN Append(Due(s, n - 1), AsSeen(s[n]))
                           ELSE Due(s, n - 1)
<1>1. Due(s, 0) = << >>
  BY MediaNext DEF Due
<1>2. ASSUME NEW n \in 0..Len(s) PROVE Due(s, n) \in Seq(Seen) /\ Len(Due(s, n)) = Len(Media(s, n))
  <2> DEFINE m == Media(s, n)
  <2>1. m \in Seq(Tags)
    BY MediaNext
  <2>2. \A i \in 1..Len(m) : AsSeen(m[i]) \in Seen
    BY <2>1 DEF Seen
  <2>3. Due(s, n) = [i \in 1..Len(m) |-> AsSeen(m[i])]
    BY <2>1 DEF Due
  <2> HIDE DEF m
  <2>4. Len(m) \in Nat
    BY <2>1
  <2> QED BY <2>2, <2>3, <2>4 DEF m
<1>3. ASSUME NEW n \in 1..Len(s), s[n].type \in TagTypes
      PROVE  Due(s, n) = Append(Due(s, n - 1), AsSeen(s[n]))
  <2> DEFINE m == Media(s, n - 1)
             x == AsSeen(s[n])
             d == Due(s, n - 1)
             e == Due(s, n)
  <2>0. n - 1 \in 0..Len(s) /\ n \in 0..Len(s) /\ s[n] \in Tags
    OBVIOUS
  <2>1. /\ m \in Seq(Tags) /\ Media(s, n) = Append(m, s[n])
        /\ d \in Seq(Seen) /\ Len(d) = Len(m)
        /\ e \in Seq(Seen) /\ Len(e) = Len(Media(s, n))
    BY <1>2, <1>3, <2>0, MediaNext
  <2>2. /\ \A i \in 1..Len(m) : d[i] = AsSeen(m[i])
        /\ \A i \in 1..Len(Media(s, n)) : e[i] = AsSeen(Media(s, n)[i])
    <3>1. DOMAIN Media(s, n) = 1..Len(Media(s, n)) /\ DOMAIN m = 1..Len(m)
      <4>1. Media(s, n) \in Seq(Tags) /\ m \in Seq(Tags)
        BY <2>0, MediaNext
      <4> QED BY <4>1
    <3> QED BY <3>1 DEF Due
  <2>3. /\ Len(Media(s, n)) = Len(m) + 1 /\ Len(m) \in Nat
        /\ \A i \in 1..Len(m) : Media(s, n)[i] = m[i]
        /\ Media(s, n)[Len(m) + 1] = s[n]
    BY <2>0, <2>1, Appended
  <2>4. x \in Seen
    BY <2>0 DEF Seen
  <2> HIDE DEF m, x, d, e
  <2>5. /\ Append(d, x) \in Seq(Seen) /\ Len(Append(d, x)) = Len(m) + 1
        /\ \A i \in 1..Len(m) : Append(d, x)[i] = d[i]
        /\ Append(d, x)[Len(m) + 1] = x
    BY <2>1, <2>4, Appended
  <2>6. ASSUME NEW i \in 1..Len(m) + 1 PROVE e[i] = Append(d, x)[i]
    <3>1. e[i] = AsSeen(Media(s, n)[i])
      BY <2>2, <2>3
    <3>2. CASE i \in 1..Len(m)
      <4>1. Media(s, n)[i] = m[i] /\ d[i] = AsSeen(m[i])
        BY <2>2, <2>3, <3>2
      <4> QED BY <2>5, <3>1, <3>2, <4>1
    <3>3. CASE i = Len(m) + 1
      BY <2>3, <2>5, <3>1, <3>3 DEF x
    <3>4. i \in 1..Len(m) \/ i = Len(m) + 1
      <4>1. Len(m) \in Nat
        BY <2>3
      <4> QED BY <4>1
    <3> QED BY <3>2, <3>3, <3>4
  <2>7. e = Append(d, x)
    BY <2>1, <2>3, <2>5, <2>6, SeqEqual
  <2> QED BY <2>7 DEF d, e, x
<1>4. ASSUME NEW n \in 1..Len(s), s[n].type \notin TagTypes
      PROVE  Due(s, n) = Due(s, n - 1)
  BY <1>4, MediaNext DEF Due
<1> QED BY <1>1, <1>2, <1>3, <1>4

(* What is given of fewer tags is the beginning.                           *)
LEMMA DuePrefix ==
  ASSUME NEW s \in Seq(Tags), NEW n \in 0..Len(s), NEW m \in 0..n
  PROVE  /\ Due(s, m) \in Seq(Seen) /\ Due(s, n) \in Seq(Seen)
         /\ Len(Due(s, m)) <= Len(Due(s, n))
         /\ \A i \in 1..Len(Due(s, m)) : Due(s, m)[i] = Due(s, n)[i]
<1> DEFINE Q(k) == k <= Len(s) => /\ Len(Due(s, m)) <= Len(Due(s, k))
                                  /\ \A i \in 1..Len(Due(s, m)) : Due(s, m)[i] = Due(s, k)[i]
           N == {k \in Nat : Q(k)}
           P == {d \in Nat : m + d \in N}
<1>0. m \in Nat /\ n \in Nat /\ Len(s) \in Nat /\ m <= n /\ n <= Len(s)
  OBVIOUS
<1>1. 0 \in P
  <2>1. Due(s, m) \in Seq(Seen) /\ m + 0 = m
    BY <1>0, DueNext
  <2>2. Len(Due(s, m)) \in Nat
    BY <2>1
  <2> QED BY <2>1, <2>2
<1>2. ASSUME NEW d \in P PROVE d + 1 \in P
  <2> DEFINE k == m + d
             e == Due(s, m)
             f == Due(s, k)
             g == Due(s, k + 1)
  <2>1. d \in Nat /\ k \in Nat /\ Q(k)
    BY <1>0
  <2>0. k + 1 = m + (d + 1) /\ d + 1 \in Nat /\ k + 1 \in Nat
    BY <1>0, <2>1
  <2> SUFFICES ASSUME k + 1 <= Len(s) PROVE Q(k + 1)
    <3>1. k + 1 \in N => d + 1 \in P
      BY <2>0
    <3>2. Q(k + 1) => k + 1 \in N
      BY <2>0
    <3> HIDE DEF Q, P
    <3> QED BY <3>1, <3>2 DEF Q
  <2>2. k \in 0..Len(s) /\ k + 1 \in 1..Len(s) /\ (k + 1) - 1 = k
    BY <1>0, <2>1
  <2>3. /\ e \in Seq(Seen) /\ f \in Seq(Seen)
        /\ g = f \/ g = Append(f, AsSeen(s[k + 1]))
    BY <1>0, <2>2, DueNext
  <2>4. AsSeen(s[k + 1]) \in Seen
    <3>1. s[k + 1] \in Tags
      BY <2>2
    <3> QED BY <3>1 DEF Seen
  <2>5. Len(e) <= Len(f) /\ \A i \in 1..Len(e) : e[i] = f[i]
    BY <2>1, <2>2
  <2> HIDE DEF e, f, g
  <2> DEFINE x == AsSeen(s[k + 1])
  <2>6. /\ Len(e) \in Nat /\ Len(f) \in Nat /\ Len(g) \in Nat
        /\ Len(g) >= Len(f) /\ \A i \in 1..Len(f) : g[i] = f[i]
    <3>1. e \in Seq(Seen) /\ f \in Seq(Seen) /\ x \in Seen /\ (g = f \/ g = Append(f, x))
      BY <2>3, <2>4
    <3> HIDE DEF x
    <3>2. Len(e) \in Nat /\ Len(f) \in Nat
      BY ONLY <3>1
    <3>3. CASE g = f
      BY <3>2, <3>3
    <3>4. CASE g = Append(f, x)
      <4>1. Len(Append(f, x)) = Len(f) + 1 /\ \A i \in 1..Len(f) : Append(f, x)[i] = f[i]
        BY ONLY <3>1, Appended
      <4>2. Len(f) + 1 \in Nat /\ Len(f) + 1 >= Len(f)
        BY ONLY <3>2
      <4> QED BY <3>2, <3>4, <4>1, <4>2
    <3> QED BY <3>1, <3>3, <3>4
  <2>8. Len(e) <= Len(g) /\ \A i \in 1..Len(e) : e[i] = g[i]
    BY <2>5, <2>6
  <2> QED BY <2>8 DEF e, g
<1>3. P = Nat
  <2>1. P \in SUBSET Nat OBVIOUS
  <2> HIDE DEF P
  <2> QED BY <1>1, <1>2, <2>1, Induction
<1>4. n - m \in P
  <2> HIDE DEF P
  <2> QED BY <1>0, <1>3
<1>5. Q(n)
  <2>1. m + (n - m) = n
    BY <1>0
  <2> HIDE DEF Q
  <2> QED BY <1>4, <2>1
<1> QED BY <1>0, <1>5, DueNext

(* What is picked stays so when more is to be picked from.                 *)
LEMMA PickedMore ==
  ASSUME NEW ms \in Seq(Seen), NEW q \in Seq(Seen), NEW r \in Seq(Seen), Picked(ms, q),
         Len(q) <= Len(r), \A i \in 1..Len(q) : q[i] = r[i]
  PROVE  Picked(ms, r)
<1>1. PICK at \in [DOMAIN ms -> DOMAIN q] :
          /\ \A i \in DOMAIN ms : ms[i] = q[at[i]]
          /\ \A i, j \in DOMAIN ms : i < j => at[i] < at[j]
  BY DEF Picked
<1>2. DOMAIN q = 1..Len(q) /\ DOMAIN r = 1..Len(r) /\ Len(q) \in Nat /\ Len(r) \in Nat
  OBVIOUS
<1>3. at \in [DOMAIN ms -> DOMAIN r]
  BY <1>1, <1>2
<1>4. \A i \in DOMAIN ms : ms[i] = r[at[i]]
  BY <1>1, <1>2
<1> QED BY <1>1, <1>3, <1>4 DEF Picked

(* One more is picked as it comes.                                         *)
LEMMA PickedAppend ==
  ASSUME NEW ms \in Seq(Seen), NEW q \in Seq(Seen), NEW x \in Seen, Picked(ms, q)
  PROVE  Picked(Append(ms, x), Append(q, x))
<1> DEFINE m == Len(ms)
           n == Len(q)
           ns == Append(ms, x)
           r == Append(q, x)
<1>1. PICK at \in [DOMAIN ms -> DOMAIN q] :
          /\ \A i \in DOMAIN ms : ms[i] = q[at[i]]
          /\ \A i, j \in DOMAIN ms : i < j => at[i] < at[j]
  BY DEF Picked
<1>2. /\ DOMAIN ms = 1..m /\ DOMAIN q = 1..n /\ m \in Nat /\ n \in Nat
      /\ DOMAIN ns = 1..m + 1 /\ DOMAIN r = 1..n + 1
      /\ \A i \in 1..m : ns[i] = ms[i]
      /\ \A i \in 1..n : r[i] = q[i]
      /\ ns[m + 1] = x /\ r[n + 1] = x
  OBVIOUS
<1> HIDE DEF m, n, ns, r
<1> DEFINE to == [i \in 1..m + 1 |-> IF i <= m THEN at[i] ELSE n + 1]
<1>3. \A i \in 1..m : at[i] \in 1..n
  BY <1>1, <1>2
<1>4. to \in [1..m + 1 -> 1..n + 1] /\ to[m + 1] = n + 1 /\ \A i \in 1..m : to[i] = at[i]
  BY <1>2, <1>3
<1> HIDE DEF to
<1>5. ASSUME NEW i \in 1..m + 1 PROVE ns[i] = r[to[i]]
  <2>1. CASE i \in 1..m
    <3>1. ns[i] = ms[i] /\ ms[i] = q[at[i]] /\ r[at[i]] = q[at[i]] /\ to[i] = at[i]
      BY <1>1, <1>2, <1>3, <1>4, <2>1
    <3> QED BY <3>1
  <2>2. CASE i = m + 1
    BY <1>2, <1>4, <2>2
  <2> QED BY <1>2, <2>1, <2>2
<1>6. ASSUME NEW i \in 1..m + 1, NEW j \in 1..m + 1, i < j PROVE to[i] < to[j]
  <2>1. i \in 1..m /\ to[i] = at[i] /\ at[i] \in 1..n
    BY <1>2, <1>3, <1>4, <1>6
  <2>2. CASE j \in 1..m
    BY <1>1, <1>2, <1>4, <1>6, <2>1, <2>2
  <2>3. CASE j = m + 1
    BY <1>2, <1>4, <2>1, <2>3
  <2> QED BY <1>2, <2>2, <2>3
<1>7. Picked(ns, r)
  BY <1>2, <1>4, <1>5, <1>6 DEF Picked
<1> QED BY <1>7 DEF ns, r

(* Nothing is given of nothing.                                            *)
LEMMA PickedNone ==
  ASSUME NEW s \in Seq(Tags)
  PROVE  Due(s, 0) = << >> /\ Picked(<< >>, Due(s, 0)) /\ 0 \in 0..Len(s)
<1>1. Due(s, 0) = << >> /\ 0 \in 0..Len(s)
  BY DueNext
<1> DEFINE e == << >>
<1>2. Picked(e, e)
  <2> DEFINE at == [i \in 1..0 |-> 0]
  <2>1. DOMAIN e = 1..0 /\ at \in [1..0 -> 1..0] /\ 1..0 = {}
    OBVIOUS
  <2> HIDE DEF e, at
  <2> QED BY <2>1 DEF Picked
<1> QED BY <1>1, <1>2

(* What is given stays so.                                                 *)
LEMMA GivenKept ==
  ASSUME NEW n, Given(n), UNCHANGED <<messages, sent>>, Whole' => Whole
  PROVE  Given(n)'
<1> HIDE DEF Whole
<1> QED BY DEF Given

(* The next tag is left out: it is not to be given.                        *)
LEMMA GivenOther ==
  ASSUME NEW n \in 1..Len(sent), sent \in Seq(Tags), Given(n - 1),
         sent[n].type \notin TagTypes
  PROVE  Given(n)
BY DueNext DEF Given

(* The next tag is given.                                                  *)
LEMMA GivenNext ==
  ASSUME NEW n \in 1..Len(sent), sent \in Seq(Tags), messages \in Seq(Seen), Given(n - 1),
         sent[n].type \in TagTypes, messages' = Append(messages, AsSeen(sent[n])),
         UNCHANGED sent, Whole' => Whole
  PROVE  Given(n)'
<1>1. /\ Due(sent, n) = Append(Due(sent, n - 1), AsSeen(sent[n]))
      /\ Due(sent, n - 1) \in Seq(Seen)
  BY DueNext
<1>2. AsSeen(sent[n]) \in Seen
  BY DEF Seen
<1>3. Picked(messages, Due(sent, n - 1)) /\ (Whole => messages = Due(sent, n - 1))
  BY DEF Given
<1>4. Picked(messages', Due(sent, n))
  BY <1>1, <1>2, <1>3, PickedAppend
<1> HIDE DEF Whole
<1>5. Whole' => messages' = Due(sent, n)
  BY <1>1, <1>3
<1>6. n \in 0..Len(sent)
  OBVIOUS
<1> QED BY <1>4, <1>5, <1>6 DEF Given

(* A tag that is skipped leaves what was given in order.                   *)
LEMMA GivenLater ==
  ASSUME NEW n \in 0..Len(sent), NEW m \in 0..n, sent \in Seq(Tags), messages \in Seq(Seen),
         Given(m), UNCHANGED <<messages, sent>>, ~Whole'
  PROVE  Given(n)'
<1>1. Picked(messages, Due(sent, n))
  <2>1. Picked(messages, Due(sent, m))
    BY DEF Given
  <2> QED BY <2>1, DuePrefix, PickedMore
<1> HIDE DEF Whole
<1> QED BY <1>1 DEF Given

(* What is given is in order, and all of it as long as it is whole.        *)
LEMMA GivenInOrder ==
  ASSUME NEW n, sent \in Seq(Tags), messages \in Seq(Seen), Given(n)
  PROVE  TagsInOrder
<1> DEFINE m == Len(sent)
           d == Due(sent, n)
<1>1. n \in 0..m /\ m \in 0..m
  BY DEF Given
<1>2. Delivered = Due(sent, m)
  BY MediaNext DEF Delivered, Due
<1>3. /\ d \in Seq(Seen) /\ Delivered \in Seq(Seen) /\ Len(d) <= Len(Delivered)
      /\ \A i \in 1..Len(d) : d[i] = Delivered[i]
  <2>1. /\ d \in Seq(Seen) /\ Due(sent, m) \in Seq(Seen) /\ Len(d) <= Len(Due(sent, m))
        /\ \A i \in 1..Len(d) : d[i] = Due(sent, m)[i]
    BY <1>1, DuePrefix
  <2> QED BY <1>2, <2>1
<1> HIDE DEF d
<1>4. Picked(messages, d) /\ (Whole => messages = d)
  BY DEF Given, d
<1>5. Picked(messages, Delivered)
  BY <1>3, <1>4, PickedMore
<1>6. Whole => IsPrefix(messages, Delivered)
  <2>1. IsPrefix(d, Delivered)
    <3>1. SubSeq(d, 1, Len(d)) = d
      BY <1>3
    <3>2. SubSeq(Delivered, 1, Len(d)) = d
      <4> DEFINE e == SubSeq(Delivered, 1, Len(d))
      <4>1. e \in Seq(Seen) /\ Len(e) = Len(d) /\ \A i \in 1..Len(d) : e[i] = d[i]
        BY <1>3
      <4> HIDE DEF e
      <4>2. e = d
        BY <1>3, <4>1, SeqEqual
      <4> QED BY <4>2 DEF e
    <3> QED BY <1>3, <3>1, <3>2 DEF IsPrefix
  <2> QED BY <1>4, <2>1
<1> QED BY <1>5, <1>6 DEF TagsInOrder, Picked, Whole

-----------------------------------------------------------------------------
(* What is unread is what is in the buffer and then what is on the wire.   *)
LEMMA UnreadUnits ==
  ASSUME buf \in Seq(Unit), wire \in Seq(Unit)
  PROVE  /\ Unread \in Seq(Unit) /\ Len(Unread) = Len(buf) + Len(wire)
         /\ Len(buf) \in Nat /\ Len(wire) \in Nat /\ Len(Unread) \in Nat
         /\ \A i \in 1..Len(buf) : Unread[i] = buf[i]
         /\ \A i \in 1..Len(wire) : Unread[Len(buf) + i] = wire[i]
BY Concat DEF Unread

(* Units are taken from the buffer.                                        *)
LEMMA UnreadTaken ==
  ASSUME buf \in Seq(Unit), wire \in Seq(Unit), NEW k \in 0..Len(buf),
         buf' = After(k), UNCHANGED wire
  PROVE  /\ buf' \in Seq(Unit) /\ Unread' \in Seq(Unit)
         /\ Len(Unread') = Len(Unread) - k /\ Len(Unread') \in Nat
         /\ \A i \in 1..Len(Unread') : Unread'[i] = Unread[i + k]
<1>1. /\ buf' \in Seq(Unit) /\ Len(buf') = Len(buf) - k
      /\ \A i \in 1..Len(buf') : buf'[i] = buf[i + k]
  BY DEF After
<1>2. /\ Unread' \in Seq(Unit) /\ Len(Unread') = Len(buf') + Len(wire)
      /\ \A i \in 1..Len(buf') : Unread'[i] = buf'[i]
      /\ \A i \in 1..Len(wire) : Unread'[Len(buf') + i] = wire[i]
  <2>1. Unread' = buf' \o wire
    BY DEF Unread
  <2> DEFINE b == buf'
  <2>2. b \in Seq(Unit)
    BY <1>1
  <2> HIDE DEF b
  <2>3. /\ b \o wire \in Seq(Unit) /\ Len(b \o wire) = Len(b) + Len(wire)
        /\ \A i \in 1..Len(b) : (b \o wire)[i] = b[i]
        /\ \A i \in 1..Len(wire) : (b \o wire)[Len(b) + i] = wire[i]
    BY <2>2, Concat
  <2> QED BY <2>1, <2>3 DEF b
<1>3. /\ Len(Unread) = Len(buf) + Len(wire)
      /\ \A i \in 1..Len(buf) : Unread[i] = buf[i]
      /\ \A i \in 1..Len(wire) : Unread[Len(buf) + i] = wire[i]
  BY UnreadUnits
<1>4. Len(buf) \in Nat /\ Len(wire) \in Nat /\ k \in Nat /\ k <= Len(buf)
  OBVIOUS
<1>5. ASSUME NEW i \in 1..Len(Unread') PROVE Unread'[i] = Unread[i + k]
  <2>1. CASE i \in 1..Len(buf')
    <3>1. i + k \in 1..Len(buf)
      BY <1>1, <1>4, <2>1
    <3> QED BY <1>1, <1>2, <1>3, <2>1, <3>1
  <2>2. CASE i \notin 1..Len(buf')
    <3> DEFINE j == i - Len(buf')
    <3>1. j \in 1..Len(wire) /\ i = Len(buf') + j /\ i + k = Len(buf) + j
      BY <1>1, <1>2, <1>4, <2>2
    <3> HIDE DEF j
    <3> QED BY <1>2, <1>3, <3>1
  <2> QED BY <2>1, <2>2
<1>6. Len(Unread') = Len(Unread) - k /\ Len(Unread') \in Nat
  BY <1>1, <1>2, <1>3, <1>4
<1> QED BY <1>1, <1>2, <1>5, <1>6

(* Units arrive.                                                           *)
LEMMA UnreadArrives ==
  ASSUME buf \in Seq(Unit), wire \in Seq(Unit), NEW n, Receive(n)
  PROVE  buf' \in Seq(Unit) /\ wire' \in Seq(Unit) /\ Unread' = Unread
<1> DEFINE p == SubSeq(wire, 1, n)
           q == SubSeq(wire, n + 1, Len(wire))
<1>1. n \in 1..Len(wire)
  <2>1. Len(wire) \in Nat /\ Len(buf) \in Nat /\ Cap \in Nat
    BY CapAssumption
  <2> QED BY <2>1 DEF Receive, Lesser
<1>2. buf' = buf \o p /\ wire' = q
  BY DEF Receive
<1>3. p \in Seq(Unit) /\ q \in Seq(Unit) /\ wire = p \o q
  <2>1. /\ p \in Seq(Unit) /\ Len(p) = n /\ \A i \in 1..n : p[i] = wire[i]
        /\ q \in Seq(Unit) /\ Len(q) = Len(wire) - n
        /\ \A i \in 1..Len(wire) - n : q[i] = wire[n + i]
    BY <1>1
  <2> HIDE DEF p, q
  <2>2. wire = p \o q
    <3>1. /\ Len(wire) = Len(p) + Len(q)
          /\ \A i \in 1..Len(p) : wire[i] = p[i]
          /\ \A i \in 1..Len(q) : wire[Len(p) + i] = q[i]
      BY <1>1, <2>1
    <3>2. p \in Seq(Unit) /\ q \in Seq(Unit)
      BY <2>1
    <3> QED BY <3>1, <3>2, Joined
  <2> QED BY <2>1, <2>2
<1> HIDE DEF p, q
<1>4. (buf \o p) \o q = buf \o (p \o q)
  BY <1>3, ConcatAssociative
<1>5. buf \o p \in Seq(Unit)
  BY <1>3, Concat
<1> QED BY <1>2, <1>3, <1>4, <1>5 DEF Unread

(* Units are sent.                                                         *)
LEMMA UnreadSent ==
  ASSUME buf \in Seq(Unit), wire \in Seq(Unit), NEW x \in Seq(Unit),
         UNCHANGED buf, wire' = wire \o x
  PROVE  /\ wire' \in Seq(Unit) /\ Unread' \in Seq(Unit)
         /\ Len(Unread') = Len(Unread) + Len(x) /\ Len(x) \in Nat /\ Len(Unread) \in Nat
         /\ \A i \in 1..Len(Unread) : Unread'[i] = Unread[i]
         /\ \A i \in 1..Len(x) : Unread'[Len(Unread) + i] = x[i]
<1>1. wire' \in Seq(Unit)
  BY Concat
<1>2. Unread' = Unread \o x
  BY ConcatAssociative DEF Unread
<1>3. Unread \in Seq(Unit)
  BY UnreadUnits
<1> HIDE DEF Unread
<1> QED BY <1>1, <1>2, <1>3, Concat

(* What is on the wire may be lost.                                        *)
LEMMA UnreadLost ==
  ASSUME buf \in Seq(Unit), wire \in Seq(Unit), UNCHANGED buf, wire' \in {wire, << >>}
  PROVE  /\ wire' \in Seq(Unit) /\ Unread' \in Seq(Unit)
         /\ Len(Unread') <= Len(Unread) /\ Len(Unread') \in Nat /\ Len(Unread) \in Nat
         /\ \A i \in 1..Len(Unread') : Unread'[i] = Unread[i]
<1>1. CASE wire' = wire
  BY <1>1, UnreadUnits DEF Unread
<1>2. CASE wire' = << >>
  <2>1. Unread' = buf /\ wire' \in Seq(Unit)
    BY <1>2 DEF Unread
  <2> QED BY <2>1, UnreadUnits
<1> QED BY <1>1, <1>2

-----------------------------------------------------------------------------
(* The whole body is units, and there is some.                             *)
LEMMA ContentUnits ==
  ASSUME Types
  PROVE  /\ Content \in Seq(Unit) /\ Len(Content) \in Nat \ {0} /\ Done \in Int
         /\ Text \in Seq(Unit) /\ Len(Text) = 1
<1>1. Text \in Seq(Unit) /\ Len(Text) = 1
  <2>1. [is |-> "text"] \in Unit
    BY UnitOf
  <2> QED BY <2>1 DEF Text
<1>2. Body(sent) \in Seq(Unit) /\ Len(Body(sent)) >= 2
  BY BodyShape DEF Types
<1>3. Content \in Seq(Unit) /\ Len(Content) >= 1
  <2>1. Len(Body(sent)) >= 1
    BY <1>2
  <2>2. Content = Body(sent) \/ Content = Text
    BY DEF Content
  <2>3. CASE Content = Body(sent)
    BY <1>2, <2>1, <2>3
  <2>4. CASE Content = Text
    <3>1. Len(Text) >= 1
      BY <1>1
    <3> QED BY <1>1, <2>4, <3>1
  <2> QED BY <2>2, <2>3, <2>4
<1>4. pending \in Seq(Unit)
  BY DEF Types
<1> QED BY <1>1, <1>3, <1>4 DEF Done

(* What is written next is the next of the body, and the rest follows it.  *)
LEMMA PendingNext ==
  ASSUME Types, Writing, NEW n \in Nat \ {0}, n <= Len(pending), Sent(n),
         UNCHANGED <<status, sent>>
  PROVE  /\ pending' \in Seq(Unit) /\ Len(pending') = Len(pending) - n /\ Len(pending) \in Nat
         /\ Content' = Content /\ Done' = Done + n /\ Done \in Nat /\ Done + n <= Len(Content)
         /\ Len(pending') <= Len(Content)
         /\ \A i \in 1..Len(pending') : pending'[i] = Content[Done' + i]
         /\ Piece(n) \in Seq(Unit) /\ Len(Piece(n)) = n
         /\ \A i \in 1..n : Piece(n)[i] = Content[Done + i]
<1>1. pending \in Seq(Unit) /\ Len(pending) \in Nat
  BY DEF Types
<1>2. Content \in Seq(Unit) /\ Len(Content) \in Nat /\ Content' = Content
  BY ContentUnits DEF Content
<1>3. Len(pending) <= Len(Content) /\ \A i \in 1..Len(pending) : pending[i] = Content[Done + i]
  BY DEF Writing
<1>4. /\ pending' \in Seq(Unit) /\ Len(pending') = Len(pending) - n
      /\ \A i \in 1..Len(pending') : pending'[i] = pending[n + i]
  BY <1>1 DEF Sent
<1>5. Done' = Done + n /\ Done \in Nat /\ Done + n <= Len(Content)
  BY <1>1, <1>2, <1>3, <1>4 DEF Done
<1>6. ASSUME NEW i \in 1..Len(pending') PROVE pending'[i] = Content[Done' + i]
  <2>1. n + i \in 1..Len(pending) /\ Done + (n + i) = Done' + i
    BY <1>1, <1>4, <1>5
  <2> QED BY <1>3, <1>4, <2>1
<1>7. /\ Piece(n) \in Seq(Unit) /\ Len(Piece(n)) = n
      /\ \A i \in 1..n : Piece(n)[i] = pending[i]
  BY <1>1 DEF Piece
<1>8. \A i \in 1..n : Piece(n)[i] = Content[Done + i]
  BY <1>1, <1>3, <1>7
<1> QED BY <1>1, <1>2, <1>3, <1>4, <1>5, <1>6, <1>7, <1>8

-----------------------------------------------------------------------------
(* The end of a line.                                                      *)
LEMMA LineUnits ==
  /\ Line \in Seq(Unit) /\ Len(Line) = 2
  /\ Line[1] = [is |-> "CR"] /\ Line[2] = [is |-> "LF"]
  /\ Line[1].is = "CR" /\ Line[2].is = "LF" /\ Line[1] # Line[2]
<1>1. [is |-> "CR"] \in Unit /\ [is |-> "LF"] \in Unit
  BY UnitOf
<1>2. Line \in Seq(Unit) /\ Len(Line) = 2 /\ Line[1] = [is |-> "CR"] /\ Line[2] = [is |-> "LF"]
  BY <1>1, TwoUnits DEF Line
<1>3. [is |-> "CR"].is = "CR" /\ [is |-> "LF"].is = "LF"
  OBVIOUS
<1> QED BY <1>2, <1>3

(* A sequence of headers opens a response.                                 *)
LEMMA OpeningOf ==
  ASSUME NEW m, NEW f \in Seq(Unit), NEW x \in Unit,
         x = [is |-> "headers", code |-> m.code, chunked |-> m.chunked, length |-> m.length],
         \A i \in 1..Len(f) : f[i].is = "field"
  PROVE  LET u == <<x>> \o f \o Line \o Line
         IN  u \in Seq(Unit) /\ Len(u) = Len(f) + 5 /\ Opening(u, Len(f) + 5, m)
<1> DEFINE n == Len(f)
           a == <<x>> \o f
           b == a \o Line
           u == b \o Line
<1>1. a \in Seq(Unit) /\ Len(a) = n + 1 /\ n \in Nat /\ a[1] = x /\ \A i \in 1..n : a[i + 1] = f[i]
  OBVIOUS
<1> HIDE DEF n, a
<1>2. /\ b \in Seq(Unit) /\ Len(b) = n + 3 /\ \A i \in 1..n + 1 : b[i] = a[i]
      /\ b[n + 2] = Line[1] /\ b[n + 3] = Line[2]
  <2>1. /\ b \in Seq(Unit) /\ Len(b) = Len(a) + Len(Line)
        /\ \A i \in 1..Len(a) : b[i] = a[i]
        /\ \A i \in 1..Len(Line) : b[Len(a) + i] = Line[i]
    <3>1. a \in Seq(Unit) /\ Line \in Seq(Unit)
      BY <1>1, LineUnits
    <3> QED BY ONLY <3>1, Concat
  <2>2. Len(Line) = 2 /\ 1 \in 1..Len(Line) /\ 2 \in 1..Len(Line) /\ (n + 1) + 1 = n + 2 /\ (n + 1) + 2 = n + 3
    BY <1>1, LineUnits
  <2> HIDE DEF b
  <2> QED BY <1>1, <2>1, <2>2
<1> HIDE DEF b
<1>3. /\ u \in Seq(Unit) /\ Len(u) = n + 5 /\ \A i \in 1..n + 3 : u[i] = b[i]
      /\ u[n + 4] = Line[1] /\ u[n + 5] = Line[2]
  <2>1. /\ u \in Seq(Unit) /\ Len(u) = Len(b) + Len(Line)
        /\ \A i \in 1..Len(b) : u[i] = b[i]
        /\ \A i \in 1..Len(Line) : u[Len(b) + i] = Line[i]
    <3>1. b \in Seq(Unit) /\ Line \in Seq(Unit)
      BY <1>2, LineUnits
    <3> QED BY ONLY <3>1, Concat
  <2>2. Len(Line) = 2 /\ 1 \in 1..Len(Line) /\ 2 \in 1..Len(Line) /\ (n + 3) + 1 = n + 4 /\ (n + 3) + 2 = n + 5
    BY <1>1, LineUnits
  <2> HIDE DEF u
  <2> QED BY <1>1, <1>2, <2>1, <2>2
<1> HIDE DEF u
<1>4. u[1] = x /\ u[n + 2] = Line[1] /\ u[n + 3] = Line[2]
  <2>1. 1 \in 1..n + 1 /\ 1 \in 1..n + 3 /\ n + 2 \in 1..n + 3 /\ n + 3 \in 1..n + 3
    BY <1>1
  <2> QED BY <1>1, <1>2, <1>3, <2>1
<1>5. ASSUME NEW i \in 1..n + 5, 1 < i, i < (n + 5) - 3 PROVE u[i].is = "field"
  <2> DEFINE j == i - 1
  <2>1. j \in 1..n /\ j + 1 = i /\ i \in 1..n + 1 /\ i \in 1..n + 3
    BY <1>1, <1>5
  <2> HIDE DEF j
  <2>2. u[i] = f[j]
    BY <1>1, <1>2, <1>3, <2>1
  <2> QED BY <2>1, <2>2 DEF n
<1>6. (n + 5) - 3 = n + 2 /\ (n + 5) - 1 = n + 4 /\ (n + 5) - 2 = n + 3
  BY <1>1
<1>7. Opening(u, n + 5, m)
  BY <1>3, <1>4, <1>5, <1>6 DEF Opening
<1> QED BY <1>3, <1>7 DEF a, b, n, u

(* So do the headers of a response writer.                                 *)
LEMMA HeadersOpen ==
  ASSUME NEW code \in Nat, NEW chunked \in BOOLEAN, NEW length \in Int,
         NEW m, m = [code |-> code, chunked |-> chunked, length |-> length]
  PROVE  /\ Headers(code, chunked, length) \in Seq(Unit) /\ Len(Headers(code, chunked, length)) = 5
         /\ Opening(Headers(code, chunked, length), 5, m)
<1> DEFINE x == [is |-> "headers", code |-> code, chunked |-> chunked, length |-> length]
           f == << >>
           u == <<x>> \o f \o Line \o Line
<1>1. x \in Unit
  BY UnitOf
<1>2. m.code = code /\ m.chunked = chunked /\ m.length = length
  OBVIOUS
<1>3. x = [is |-> "headers", code |-> m.code, chunked |-> m.chunked, length |-> m.length]
  BY <1>2
<1>4. Headers(code, chunked, length) = <<x>> \o Line \o Line
  BY DEF Headers
<1>5. f \in Seq(Unit) /\ Len(f) = 0 /\ 1..Len(f) = {}
  OBVIOUS
<1>6. <<x>> \o f = <<x>>
  BY <1>1
<1> HIDE DEF x, f
<1>7. u \in Seq(Unit) /\ Len(u) = Len(f) + 5 /\ Opening(u, Len(f) + 5, m)
  BY <1>1, <1>3, <1>5, OpeningOf
<1>8. Len(f) + 5 = 5
  BY <1>5
<1>9. u = Headers(code, chunked, length)
  BY <1>4, <1>6
<1> QED BY <1>7, <1>8, <1>9

(* So do longer ones.                                                      *)
LEMMA LongHeadersOpen ==
  ASSUME NEW code \in Nat, NEW n \in Nat,
         NEW m, m = [code |-> code, chunked |-> FALSE, length |-> -1]
  PROVE  /\ LongHeaders(code, n) \in Seq(Unit) /\ Len(LongHeaders(code, n)) = n + 5
         /\ Opening(LongHeaders(code, n), n + 5, m)
<1> DEFINE x == [is |-> "headers", code |-> code, chunked |-> FALSE, length |-> -1]
           f == [i \in 1..n |-> [is |-> "field"]]
           u == <<x>> \o f \o Line \o Line
<1>1. x \in Unit
  <2>1. FALSE \in BOOLEAN /\ -1 \in Int
    OBVIOUS
  <2> QED BY <2>1, UnitOf
<1>2. m.code = code /\ m.chunked = FALSE /\ m.length = -1
  OBVIOUS
<1>3. x = [is |-> "headers", code |-> m.code, chunked |-> m.chunked, length |-> m.length]
  BY <1>2
<1>4. LongHeaders(code, n) = u
  BY DEF LongHeaders
<1>5. f \in Seq(Unit) /\ Len(f) = n /\ \A i \in 1..Len(f) : f[i].is = "field"
  <2>1. [is |-> "field"] \in Unit
    BY UnitOf
  <2>2. [is |-> "field"].is = "field"
    OBVIOUS
  <2>3. f \in Seq(Unit) /\ Len(f) = n
    BY <2>1
  <2>4. \A i \in 1..n : f[i] = [is |-> "field"]
    OBVIOUS
  <2> HIDE DEF f
  <2> QED BY <2>2, <2>3, <2>4
<1> HIDE DEF x, f, u
<1>6. u \in Seq(Unit) /\ Len(u) = n + 5 /\ Opening(u, n + 5, m)
  BY <1>1, <1>3, <1>5, OpeningOf DEF u
<1> QED BY <1>4, <1>6

(* What follows the headers leaves them, and so does what is lost.         *)
LEMMA OpeningKept ==
  ASSUME NEW h \in Nat, h >= 5, NEW m, NEW u \in Seq(Unit), NEW v \in Seq(Unit), Opening(u, h, m),
         Len(v) <= Len(u) \/ h <= Len(u),
         \A i \in 1..Len(u) : i <= Len(v) => v[i] = u[i]
  PROVE  Opening(v, h, m)
<1>1. ASSUME NEW i \in 1..Len(v), i = 1 \/ (1 < i /\ i < h - 3) \/ i \in {h - 3, h - 1} \/ i \in {h - 2, h}
      PROVE  i \in 1..Len(u) /\ v[i] = u[i]
  <2>1. Len(u) \in Nat /\ Len(v) \in Nat /\ i <= h
    BY <1>1
  <2>2. i \in 1..Len(u) /\ i <= Len(v)
    BY <2>1
  <2> QED BY <2>2
<1> QED BY <1>1 DEF Opening

-----------------------------------------------------------------------------
(* A state of a reader of chunks.                                          *)
LEMMA AtState ==
  ASSUME NEW mode \in {"head", "size", "sizeCR", "data", "end", "endCR", "last", "lastCR", "eof"},
         NEW left \in Nat, NEW at \in Nat
  PROVE  /\ At(mode, left, at) \in State
         /\ At(mode, left, at).mode = mode /\ At(mode, left, at).left = left /\ At(mode, left, at).at = at
BY DEF At, State

(* A way through fewer units.                                              *)
LEMMA WayLess ==
  ASSUME NEW b, NEW e \in Int, NEW f \in Int, e = -1 \/ f = e,
         NEW u \in Seq(Unit), NEW v \in Seq(Unit), NEW h \in Nat, NEW s, NEW t, Way(b, e, u, h, s, t),
         Len(v) <= Len(u), \A i \in 1..Len(v) : v[i] = u[i]
  PROVE  \E r \in State : Way(b, f, v, h, s, r) /\ (Len(v) = Len(u) => r = t)
<1>1. Len(u) \in Nat /\ Len(v) \in Nat
  OBVIOUS
<1>2. PICK c \in [Nat -> State] : Path(b, e, u, h, c) /\ c[h] = s /\ c[Len(u)] = t
  BY DEF Way
<1>3. ASSUME NEW i \in Nat, h <= i, i < Len(v) PROVE Step(b, f, c[i], v[i + 1], c[i + 1])
  <2>1. i < Len(u) /\ v[i + 1] = u[i + 1]
    <3>1. i < Len(u)
      BY <1>1, <1>3
    <3>2. i + 1 \in 1..Len(v)
      BY <1>1, <1>3
    <3> QED BY <3>1, <3>2
  <2>2. Step(b, e, c[i], v[i + 1], c[i + 1])
    BY <1>2, <1>3, <2>1 DEF Path
  <2>3. c[i].at \in Nat
    BY DEF State
  <2>4. c[i].at = e => c[i].at = f
    BY <2>3
  <2> QED BY <2>2, <2>4 DEF Step
<1>4. Path(b, f, v, h, c)
  BY <1>3 DEF Path
<1>5. c[Len(v)] \in State /\ Way(b, f, v, h, s, c[Len(v)])
  BY <1>1, <1>2, <1>4 DEF Way
<1> QED BY <1>2, <1>5

(* The way from the k-th unit on.                                          *)
LEMMA WayShift ==
  ASSUME NEW b, NEW e, NEW u \in Seq(Unit), NEW v \in Seq(Unit), NEW h \in Nat, NEW c, NEW s, NEW t,
         Path(b, e, u, h, c), NEW k \in Nat, h <= k, k <= Len(u), s = c[k], t = c[Len(u)],
         Len(v) = Len(u) - k, \A i \in 1..Len(v) : v[i] = u[i + k]
  PROVE  Way(b, e, v, 0, s, t)
<1> DEFINE d == [i \in Nat |-> c[i + k]]
<1>1. c \in [Nat -> State] /\ d \in [Nat -> State] /\ \A i \in Nat : d[i] = c[i + k]
  BY DEF Path
<1> HIDE DEF d
<1>2. ASSUME NEW i \in Nat, i < Len(v) PROVE Step(b, e, d[i], v[i + 1], d[i + 1])
  <2>1. Len(u) \in Nat /\ i + k \in Nat /\ h <= i + k /\ i + k < Len(u) /\ i + 1 \in 1..Len(v)
        /\ (i + k) + 1 = (i + 1) + k
    BY <1>2
  <2>2. Step(b, e, c[i + k], u[(i + k) + 1], c[(i + k) + 1])
    BY <2>1 DEF Path
  <2>3. v[i + 1] = u[(i + k) + 1]
    <3>1. v[i + 1] = u[(i + 1) + k]
      BY <2>1
    <3> QED BY <2>1, <3>1
  <2>4. d[i] = c[i + k]
    BY <1>1
  <2>5. d[i + 1] = c[(i + k) + 1]
    <3>1. i + 1 \in Nat
      OBVIOUS
    <3>2. d[i + 1] = c[(i + 1) + k]
      BY <1>1, <3>1
    <3> QED BY <2>1, <3>2
  <2> QED BY <2>2, <2>3, <2>4, <2>5
<1>3. Path(b, e, v, 0, d)
  BY <1>1, <1>2 DEF Path
<1>4. d[0] = s /\ d[Len(v)] = t
  <2>1. 0 + k = k /\ Len(v) + k = Len(u) /\ Len(v) \in Nat
    OBVIOUS
  <2> QED BY <1>1, <2>1
<1> QED BY <1>1, <1>3, <1>4 DEF Way

(* Two ways joined.                                                        *)
LEMMA WayJoin ==
  ASSUME NEW b, NEW e, NEW u \in Seq(Unit), NEW x \in Seq(Unit), NEW h \in Nat, h <= Len(u),
         NEW r, NEW s, NEW t, Way(b, e, u, h, r, s), Way(b, e, x, 0, s, t)
  PROVE  Way(b, e, u \o x, h, r, t)
<1> DEFINE n == Len(u)
           v == u \o x
<1>a. PICK c \in [Nat -> State] : Path(b, e, u, h, c) /\ c[h] = r /\ c[Len(u)] = s
  BY DEF Way
<1>b. PICK d \in [Nat -> State] : Path(b, e, x, 0, d) /\ d[0] = s /\ d[Len(x)] = t
  BY DEF Way
<1> DEFINE f == [i \in Nat |-> IF i <= n THEN c[i] ELSE d[i - n]]
<1>1. /\ v \in Seq(Unit) /\ Len(v) = n + Len(x) /\ n \in Nat /\ Len(x) \in Nat
      /\ \A i \in 1..n : v[i] = u[i]
      /\ \A i \in 1..Len(x) : v[n + i] = x[i]
  BY Concat
<1> HIDE DEF n, v
<1>3. ASSUME NEW i \in Nat, ~(i <= n) PROVE i - n \in Nat
  BY <1>1, <1>3
<1>4. f \in [Nat -> State]
  BY <1>3
<1>5. \A i \in Nat : f[i] = IF i <= n THEN c[i] ELSE d[i - n]
  OBVIOUS
<1> HIDE DEF f
<1>6. ASSUME NEW i \in Nat PROVE f[n + i] = d[i]
  <2>1. n + i \in Nat /\ (n + i) - n = i /\ (n + i <= n => i = 0 /\ n + i = n)
    BY <1>1
  <2>2. d[0] = c[n]
    BY <1>a, <1>b DEF n
  <2> QED BY <1>5, <2>1, <2>2
<1>7. ASSUME NEW i \in Nat, h <= i, i < Len(v) PROVE Step(b, e, f[i], v[i + 1], f[i + 1])
  <2>1. CASE i < n
    <3>1. i <= n /\ i + 1 <= n /\ i + 1 \in Nat /\ i + 1 \in 1..n
      BY <1>1, <2>1
    <3>2. f[i] = c[i] /\ f[i + 1] = c[i + 1] /\ v[i + 1] = u[i + 1]
      BY <1>1, <1>5, <3>1
    <3>3. Step(b, e, c[i], u[i + 1], c[i + 1])
      BY <1>7, <1>a, <2>1 DEF Path, n
    <3> QED BY <3>2, <3>3
  <2>2. CASE ~(i < n)
    <3> DEFINE j == i - n
    <3>1. j \in Nat /\ j < Len(x) /\ i = n + j /\ i + 1 = n + (j + 1) /\ j + 1 \in 1..Len(x) /\ j + 1 \in Nat
          /\ 0 <= j
      BY <1>1, <1>7, <2>2
    <3> HIDE DEF j
    <3>2. f[i] = d[j] /\ f[i + 1] = d[j + 1] /\ v[i + 1] = x[j + 1]
      BY <1>1, <1>6, <3>1
    <3>3. Step(b, e, d[j], x[j + 1], d[j + 1])
      BY <1>b, <3>1 DEF Path
    <3> QED BY <3>2, <3>3
  <2> QED BY <2>1, <2>2
<1>8. Path(b, e, v, h, f)
  BY <1>4, <1>7 DEF Path
<1>9. f[h] = r
  <2>1. h <= n
    BY DEF n
  <2> QED BY <1>5, <1>a, <2>1
<1>10. f[Len(v)] = t
  BY <1>1, <1>6, <1>b
<1>11. Way(b, e, v, h, r, t)
  BY <1>4, <1>8, <1>9, <1>10 DEF Way
<1> QED BY <1>11 DEF v

(* The way through the line of a chunk's size.                             *)
LEMMA WaySize ==
  ASSUME NEW b, NEW e \in Int, NEW s \in State, s.mode = "head", NEW n \in Nat,
         n = 0 => s.at = e
  PROVE  /\ SizeLine(n) \in Seq(Unit) /\ Len(SizeLine(n)) = 3
         /\ Way(b, e, SizeLine(n), 0, s, At(IF n = 0 THEN "last" ELSE "data", n, s.at))
<1> DEFINE z == [is |-> "size", n |-> n]
           x == SizeLine(n)
           s1 == At("size", n, s.at)
           s2 == At("sizeCR", n, s.at)
           s3 == At(IF n = 0 THEN "last" ELSE "data", n, s.at)
<1>1. z \in Unit /\ z.is = "size" /\ z.n = n
  BY UnitOf
<1>2. s.at \in Nat
  BY DEF State
<1>3. /\ s1 \in State /\ s1.mode = "size" /\ s1.left = n /\ s1.at = s.at
      /\ s2 \in State /\ s2.mode = "sizeCR" /\ s2.left = n /\ s2.at = s.at
      /\ s3 \in State
  <2>1. s1 \in State /\ s1.mode = "size" /\ s1.left = n /\ s1.at = s.at
    BY <1>2, AtState
  <2>2. s2 \in State /\ s2.mode = "sizeCR" /\ s2.left = n /\ s2.at = s.at
    BY <1>2, AtState
  <2>3. s3 \in State
    BY <1>2, AtState
  <2> QED BY <2>1, <2>2, <2>3
<1>4. x \in Seq(Unit) /\ Len(x) = 3 /\ x[1] = z /\ x[2] = Line[1] /\ x[3] = Line[2]
  <2>1. x = <<z>> \o Line
    BY DEF SizeLine
  <2>2. Line \in Seq(Unit) /\ Len(Line) = 2
    BY LineUnits
  <2> HIDE DEF z
  <2> DEFINE w == <<z>>
  <2>3. w \in Seq(Unit) /\ Len(w) = 1 /\ w[1] = z
    BY <1>1
  <2> HIDE DEF w, x
  <2>4. /\ w \o Line \in Seq(Unit) /\ Len(w \o Line) = Len(w) + Len(Line)
        /\ \A i \in 1..Len(w) : (w \o Line)[i] = w[i]
        /\ \A i \in 1..Len(Line) : (w \o Line)[Len(w) + i] = Line[i]
    <3>1. w \in Seq(Unit) /\ Line \in Seq(Unit)
      BY <2>2, <2>3
    <3> QED BY ONLY <3>1, Concat
  <2>5. /\ 1 \in 1..Len(w) /\ 1 \in 1..Len(Line) /\ 2 \in 1..Len(Line)
        /\ Len(w) + 1 = 2 /\ Len(w) + 2 = 3 /\ Len(w) + Len(Line) = 3
    <3>1. Len(w) = 1 /\ Len(Line) = 2
      BY <2>2, <2>3
    <3> QED BY ONLY <3>1
  <2>6. x = w \o Line
    BY <2>1 DEF w
  <2> QED BY <2>3, <2>4, <2>5, <2>6
<1> DEFINE d == [i \in Nat |-> IF i = 0 THEN s ELSE IF i = 1 THEN s1 ELSE IF i = 2 THEN s2 ELSE s3]
<1> HIDE DEF z, x, s1, s2, s3
<1>5. d \in [Nat -> State] /\ d[0] = s /\ d[1] = s1 /\ d[2] = s2 /\ d[3] = s3
  BY <1>3
<1> HIDE DEF d
<1>6. Step(b, e, s, x[1], s1)
  BY <1>1, <1>4 DEF Step, s1
<1>7. Step(b, e, s1, x[2], s2)
  BY <1>3, <1>4 DEF Step, s2
<1>8. Step(b, e, s2, x[3], s3)
  BY <1>3, <1>4 DEF Step, s3
<1>9. ASSUME NEW i \in Nat, i < Len(x) PROVE Step(b, e, d[i], x[i + 1], d[i + 1])
  <2>1. i = 0 \/ i = 1 \/ i = 2
    BY <1>4, <1>9
  <2>2. CASE i = 0
    <3>1. i + 1 = 1
      BY <2>2
    <3> QED BY <1>5, <1>6, <2>2, <3>1
  <2>3. CASE i = 1
    <3>1. i + 1 = 2
      BY <2>3
    <3> QED BY <1>5, <1>7, <2>3, <3>1
  <2>4. CASE i = 2
    <3>1. i + 1 = 3
      BY <2>4
    <3> QED BY <1>5, <1>8, <2>4, <3>1
  <2> QED BY <2>1, <2>2, <2>3, <2>4
<1>10. Path(b, e, x, 0, d)
  BY <1>5, <1>9 DEF Path
<1>11. Way(b, e, x, 0, s, s3)
  BY <1>4, <1>5, <1>10 DEF Way
<1> QED BY <1>4, <1>11 DEF x, s3

(* The way through the end of a line.                                      *)
LEMMA WayLine ==
  ASSUME NEW b, NEW e, NEW s \in State, s.mode \in {"end", "last"}
  PROVE  Way(b, e, Line, 0, s, At(IF s.mode = "end" THEN "head" ELSE "eof", 0, s.at))
<1> DEFINE s1 == At(IF s.mode = "end" THEN "endCR" ELSE "lastCR", 0, s.at)
           s2 == At(IF s.mode = "end" THEN "head" ELSE "eof", 0, s.at)
           d == [i \in Nat |-> IF i = 0 THEN s ELSE IF i = 1 THEN s1 ELSE s2]
<1>1. s.at \in Nat
  BY DEF State
<1>2. /\ s1 \in State /\ s1.mode = (IF s.mode = "end" THEN "endCR" ELSE "lastCR") /\ s1.at = s.at
      /\ s2 \in State
  <2>1. s1 \in State /\ s1.mode = (IF s.mode = "end" THEN "endCR" ELSE "lastCR") /\ s1.at = s.at
    BY <1>1, AtState
  <2>2. s2 \in State
    BY <1>1, AtState
  <2> QED BY <2>1, <2>2
<1> HIDE DEF s1, s2
<1>3. d \in [Nat -> State] /\ d[0] = s /\ d[1] = s1 /\ d[2] = s2
  BY <1>2
<1> HIDE DEF d
<1>4. Step(b, e, s, Line[1], s1)
  BY DEF Step, s1
<1>5. Step(b, e, s1, Line[2], s2)
  BY <1>2 DEF Step, s2
<1>0. Len(Line) = 2
  BY LineUnits
<1>6. ASSUME NEW i \in Nat, i < Len(Line) PROVE Step(b, e, d[i], Line[i + 1], d[i + 1])
  <2>1. i = 0 \/ i = 1
    BY <1>0, <1>6
  <2>2. CASE i = 0
    <3>1. i + 1 = 1
      BY <2>2
    <3> QED BY <1>3, <1>4, <2>2, <3>1
  <2>3. CASE i = 1
    <3>1. i + 1 = 2
      BY <2>3
    <3> QED BY <1>3, <1>5, <2>3, <3>1
  <2> QED BY <2>1, <2>2, <2>3
<1>7. Path(b, e, Line, 0, d)
  BY <1>3, <1>6 DEF Path
<1>8. Way(b, e, Line, 0, s, s2)
  BY <1>0, <1>3, <1>7 DEF Way
<1> QED BY <1>8 DEF s2

(* The way through the data of a chunk.                                    *)
LEMMA WayThroughData ==
  ASSUME NEW b \in Seq(Unit), NEW e, NEW at \in Nat, NEW x \in Seq(Unit), x # << >>,
         at + Len(x) <= Len(b), \A i \in 1..Len(x) : x[i] = b[at + i]
  PROVE  Way(b, e, x, 0, At("data", Len(x), at), At("end", 0, at + Len(x)))
<1> DEFINE n == Len(x)
           s(i) == At(IF i < n THEN "data" ELSE "end", IF i < n THEN n - i ELSE 0, at + i)
           d == [i \in Nat |-> s(i)]
<1>1. n \in Nat /\ n > 0
  OBVIOUS
<1> HIDE DEF n
<1>2. ASSUME NEW i \in Nat
      PROVE  /\ s(i) \in State /\ s(i).at = at + i
             /\ s(i).mode = (IF i < n THEN "data" ELSE "end")
             /\ s(i).left = (IF i < n THEN n - i ELSE 0)
  <2> DEFINE mode == IF i < n THEN "data" ELSE "end"
             left == IF i < n THEN n - i ELSE 0
  <2>1. at + i \in Nat /\ left \in Nat
    BY <1>1
  <2>2. mode \in {"head", "size", "sizeCR", "data", "end", "endCR", "last", "lastCR", "eof"}
    OBVIOUS
  <2> HIDE DEF mode, left
  <2>3. /\ At(mode, left, at + i) \in State
        /\ At(mode, left, at + i).mode = mode /\ At(mode, left, at + i).left = left
        /\ At(mode, left, at + i).at = at + i
    BY ONLY <2>1, <2>2, AtState
  <2> QED BY <2>3 DEF mode, left
<1>3. d \in [Nat -> State] /\ \A i \in Nat : d[i] = s(i)
  <2> HIDE DEF s
  <2> QED BY <1>2
<1> HIDE DEF d
<1>4. ASSUME NEW i \in Nat, i < n PROVE Step(b, e, d[i], x[i + 1], d[i + 1])
  <2> DEFINE p == s(i)
             t == s(i + 1)
  <2>1. p.mode = "data" /\ p.left = n - i /\ p.at = at + i
    <3> HIDE DEF s
    <3> QED BY <1>2, <1>4
  <2>2. t = At(IF p.left = 1 THEN "end" ELSE "data", p.left - 1, p.at + 1)
    <3> HIDE DEF p
    <3>1. /\ i + 1 < n <=> p.left # 1
          /\ i + 1 < n => n - (i + 1) = p.left - 1
          /\ ~(i + 1 < n) => p.left - 1 = 0
          /\ at + (i + 1) = p.at + 1
      BY <1>1, <1>4, <2>1
    <3>2. CASE i + 1 < n
      <4>1. t = At("data", n - (i + 1), at + (i + 1))
        BY <3>2
      <4> QED BY <3>1, <3>2, <4>1
    <3>3. CASE ~(i + 1 < n)
      <4>1. t = At("end", 0, at + (i + 1))
        BY <3>3
      <4> QED BY <3>1, <3>3, <4>1
    <3> QED BY <3>2, <3>3
  <2> HIDE DEF p, t, s
  <2>3. x[i + 1] = b[p.at + 1]
    <3>1. i + 1 \in 1..n /\ at + (i + 1) = p.at + 1
      BY <1>1, <1>4, <2>1
    <3>2. x[i + 1] = b[at + (i + 1)]
      BY <3>1 DEF n
    <3> QED BY <3>1, <3>2
  <2>4. p.left > 0 /\ p.at < Len(b)
    <3>1. Len(b) \in Nat /\ at + n <= Len(b)
      BY DEF n
    <3> QED BY <1>1, <1>4, <2>1, <3>1
  <2>5. Step(b, e, p, x[i + 1], t)
    BY <2>1, <2>2, <2>3, <2>4 DEF Step
  <2>6. d[i] = p /\ d[i + 1] = t
    <3>1. i + 1 \in Nat
      OBVIOUS
    <3> QED BY <1>3, <3>1 DEF p, t
  <2> QED BY <2>5, <2>6
<1>5. d[0] = At("data", n, at) /\ d[n] = At("end", 0, at + n)
  <2>1. d[0] = s(0) /\ d[n] = s(n)
    <3> HIDE DEF s
    <3> QED BY <1>1, <1>3
  <2>2. 0 < n /\ n - 0 = n /\ at + 0 = at /\ ~(n < n)
    BY <1>1
  <2> QED BY <2>1, <2>2
<1>6. Path(b, e, x, 0, d)
  BY <1>3, <1>4 DEF Path, n
<1>7. Way(b, e, x, 0, At("data", n, at), At("end", 0, at + n))
  BY <1>3, <1>5, <1>6 DEF Way, n
<1> QED BY <1>7 DEF n

(* A chunk leads from one chunk to the next.                               *)
LEMMA WayFramed ==
  ASSUME NEW b \in Seq(Unit), NEW e \in Int, NEW s \in State, s.mode = "head",
         NEW x \in Seq(Unit), x # << >>,
         s.at + Len(x) <= Len(b), \A i \in 1..Len(x) : x[i] = b[s.at + i]
  PROVE  /\ Framed(x) \in Seq(Unit) /\ Len(Framed(x)) = Len(x) + 5
         /\ Way(b, e, Framed(x), 0, s, At("head", 0, s.at + Len(x)))
<1> DEFINE n == Len(x)
           z == SizeLine(n)
           y == z \o x
           w == y \o Line
           at == s.at
           r == At("data", n, at)
           t == At("end", 0, at + n)
<1>1. n \in Nat /\ n # 0 /\ at \in Nat
  BY DEF State
<1>2. z \in Seq(Unit) /\ Len(z) = 3 /\ Way(b, e, z, 0, s, r)
  <2>1. e \in Int /\ s \in State /\ s.mode = "head" /\ n \in Nat /\ (n = 0 => s.at = e) /\ n # 0
    BY <1>1
  <2> HIDE DEF n
  <2>2. /\ SizeLine(n) \in Seq(Unit) /\ Len(SizeLine(n)) = 3
        /\ Way(b, e, SizeLine(n), 0, s, At(IF n = 0 THEN "last" ELSE "data", n, s.at))
    BY ONLY <2>1, WaySize
  <2> QED BY <2>1, <2>2
<1>4. Way(b, e, x, 0, r, t)
  <2>1. /\ b \in Seq(Unit) /\ at \in Nat /\ x \in Seq(Unit) /\ x # << >>
        /\ at + Len(x) <= Len(b) /\ \A i \in 1..Len(x) : x[i] = b[at + i]
    BY <1>1
  <2> HIDE DEF at
  <2> QED BY <2>1, WayThroughData
<1> HIDE DEF z, r
<1>5. Way(b, e, y, 0, s, t)
  <2>1. z \in Seq(Unit) /\ x \in Seq(Unit) /\ 0 \in Nat /\ 0 <= Len(z)
    BY <1>2
  <2> HIDE DEF t, n
  <2> QED BY <1>2, <1>4, <2>1, WayJoin
<1>6. y \in Seq(Unit) /\ Len(y) = 3 + n
  <2>1. z \in Seq(Unit) /\ x \in Seq(Unit)
    BY <1>2
  <2>2. z \o x \in Seq(Unit) /\ Len(z \o x) = Len(z) + Len(x)
    BY ONLY <2>1, Concat
  <2> QED BY <1>2, <2>2
<1>7. t \in State /\ t.mode = "end" /\ t.at = at + n
  <2>1. at + n \in Nat
    BY <1>1
  <2> HIDE DEF n, at
  <2> QED BY <2>1, AtState
<1> HIDE DEF y, t
<1>8. Way(b, e, Line, 0, t, At("head", 0, t.at))
  <2>1. t \in State /\ t.mode \in {"end", "last"}
    BY <1>7
  <2>2. Way(b, e, Line, 0, t, At(IF t.mode = "end" THEN "head" ELSE "eof", 0, t.at))
    BY ONLY <2>1, WayLine
  <2> QED BY <1>7, <2>2
<1>0. Line \in Seq(Unit) /\ Len(Line) = 2
  BY LineUnits
<1>9. Way(b, e, w, 0, s, At("head", 0, t.at))
  <2> DEFINE q == At("head", 0, t.at)
  <2>1. y \in Seq(Unit) /\ 0 \in Nat /\ 0 <= Len(y)
    BY <1>1, <1>6
  <2> HIDE DEF q
  <2>2. Way(b, e, Line, 0, t, q)
    BY <1>8 DEF q
  <2>3. Way(b, e, w, 0, s, q)
    BY <1>0, <1>5, <2>1, <2>2, WayJoin
  <2> QED BY <2>3 DEF q
<1>10. w \in Seq(Unit) /\ Len(w) = n + 5
  <2>2. y \o Line \in Seq(Unit) /\ Len(y \o Line) = Len(y) + Len(Line)
    BY <1>0, <1>6, Concat
  <2> QED BY <1>0, <1>1, <1>6, <2>2
<1>11. Framed(x) = w
  BY DEF Framed, w, y, z
<1> QED BY <1>7, <1>9, <1>10, <1>11

(* The last chunk leads to the end.                                        *)
LEMMA WayEnd ==
  ASSUME NEW b, NEW e \in Int, NEW s \in State, s.mode = "head", s.at = e
  PROVE  /\ EndOfChunks \in Seq(Unit) /\ Len(EndOfChunks) = 5
         /\ Way(b, e, EndOfChunks, 0, s, At("eof", 0, s.at))
<1> DEFINE z == SizeLine(0)
           w == z \o Line
           at == s.at
           t == At("last", 0, at)
           q == At("eof", 0, at)
<1>1. at \in Nat
  BY DEF State
<1>2. z \in Seq(Unit) /\ Len(z) = 3 /\ Way(b, e, z, 0, s, t)
  <2> DEFINE n == 0
  <2>1. e \in Int /\ s \in State /\ s.mode = "head" /\ n \in Nat /\ (n = 0 => s.at = e) /\ n = 0
    OBVIOUS
  <2> HIDE DEF n
  <2>2. /\ SizeLine(n) \in Seq(Unit) /\ Len(SizeLine(n)) = 3
        /\ Way(b, e, SizeLine(n), 0, s, At(IF n = 0 THEN "last" ELSE "data", n, s.at))
    BY ONLY <2>1, WaySize
  <2> QED BY <2>1, <2>2
<1>7. t \in State /\ t.mode = "last" /\ t.at = at
  <2> HIDE DEF at
  <2> QED BY <1>1, AtState
<1> HIDE DEF z, t
<1>8. Way(b, e, Line, 0, t, q)
  <2>1. t \in State /\ t.mode \in {"end", "last"}
    BY <1>7
  <2>2. Way(b, e, Line, 0, t, At(IF t.mode = "end" THEN "head" ELSE "eof", 0, t.at))
    BY ONLY <2>1, WayLine
  <2> QED BY <1>7, <2>2
<1>0. Line \in Seq(Unit) /\ Len(Line) = 2
  BY LineUnits
<1> HIDE DEF q
<1>9. Way(b, e, w, 0, s, q)
  <2>1. 0 \in Nat /\ 0 <= Len(z)
    BY <1>2
  <2> QED BY <1>0, <1>2, <1>8, <2>1, WayJoin
<1>10. w \in Seq(Unit) /\ Len(w) = 5
  <2>2. z \o Line \in Seq(Unit) /\ Len(z \o Line) = Len(z) + Len(Line)
    BY <1>0, <1>2, Concat
  <2> QED BY <1>0, <1>2, <2>2
<1>11. EndOfChunks = w
  BY DEF EndOfChunks, z
<1> QED BY <1>9, <1>10, <1>11 DEF q

(* A state is its parts.                                                   *)
LEMMA StateAt ==
  ASSUME NEW s \in State
  PROVE  s = At(s.mode, s.left, s.at) /\ s.left \in Nat /\ s.at \in Nat
BY DEF State, At

(* A reader finds a size between two chunks, and a line after it.          *)
LEMMA WayHead ==
  ASSUME NEW b, NEW e, NEW u \in Seq(Unit), NEW s \in State, NEW t, Way(b, e, u, 0, s, t), s.mode = "head"
  PROVE  /\ Len(u) >= 1 => u[1].is = "size" /\ u[1].n \in Nat /\ (u[1].n = 0 => s.at = e)
         /\ Len(u) >= 2 => u[2] = Line[1]
         /\ Len(u) >= 3 => u[3] = Line[2]
         /\ \A v \in Seq(Unit) :
               Len(u) >= 3 /\ Len(v) = Len(u) - 3 /\ (\A i \in 1..Len(v) : v[i] = u[i + 3])
                 => Way(b, e, v, 0, At(IF u[1].n = 0 THEN "last" ELSE "data", u[1].n, s.at), t)
<1>1. PICK c \in [Nat -> State] : Path(b, e, u, 0, c) /\ c[0] = s /\ c[Len(u)] = t
  BY DEF Way
<1>2. Len(u) \in Nat /\ 0 + 1 = 1 /\ 1 + 1 = 2 /\ 2 + 1 = 3
  OBVIOUS
<1>3. ASSUME Len(u) >= 1
      PROVE  /\ u[1].is = "size" /\ u[1].n \in Nat /\ (u[1].n = 0 => s.at = e)
             /\ c[1] = At("size", u[1].n, s.at)
  <2>1. Step(b, e, c[0], u[1], c[1])
    BY <1>1, <1>2, <1>3 DEF Path
  <2> QED BY <1>1, <2>1 DEF Step
<1>4. ASSUME Len(u) >= 2
      PROVE  u[2] = Line[1] /\ c[2] = At("sizeCR", u[1].n, s.at)
  <2>1. Step(b, e, c[1], u[2], c[2])
    BY <1>1, <1>2, <1>4 DEF Path
  <2>2. c[1].mode = "size" /\ c[1].left = u[1].n /\ c[1].at = s.at
    BY <1>2, <1>3, <1>4 DEF At
  <2> QED BY <2>1, <2>2 DEF Step
<1>5. ASSUME Len(u) >= 3
      PROVE  u[3] = Line[2] /\ c[3] = At(IF u[1].n = 0 THEN "last" ELSE "data", u[1].n, s.at)
  <2>1. Step(b, e, c[2], u[3], c[3])
    BY <1>1, <1>2, <1>5 DEF Path
  <2>2. c[2].mode = "sizeCR" /\ c[2].left = u[1].n /\ c[2].at = s.at
    BY <1>2, <1>4, <1>5 DEF At
  <2> QED BY <2>1, <2>2 DEF Step
<1>6. ASSUME NEW v \in Seq(Unit), Len(u) >= 3, Len(v) = Len(u) - 3, \A i \in 1..Len(v) : v[i] = u[i + 3]
      PROVE  Way(b, e, v, 0, At(IF u[1].n = 0 THEN "last" ELSE "data", u[1].n, s.at), t)
  <2> DEFINE r == At(IF u[1].n = 0 THEN "last" ELSE "data", u[1].n, s.at)
  <2>1. r = c[3] /\ t = c[Len(u)] /\ 0 <= 3 /\ 3 <= Len(u) /\ 3 \in Nat /\ 0 \in Nat
    BY <1>1, <1>5, <1>6
  <2> HIDE DEF r
  <2>2. Way(b, e, v, 0, r, t)
    BY <1>1, <1>6, <2>1, WayShift
  <2> QED BY <2>2 DEF r
<1> QED BY <1>2, <1>3, <1>4, <1>5, <1>6

(* It passes the line that ends a chunk.                                   *)
LEMMA WayEnds ==
  ASSUME NEW b, NEW e, NEW u \in Seq(Unit), NEW s \in State, NEW t, Way(b, e, u, 0, s, t),
         s.mode \in {"end", "last"}, Len(u) >= 2,
         NEW v \in Seq(Unit), Len(v) = Len(u) - 2, \A i \in 1..Len(v) : v[i] = u[i + 2]
  PROVE  Way(b, e, v, 0, At(IF s.mode = "end" THEN "head" ELSE "eof", 0, s.at), t)
<1>1. PICK c \in [Nat -> State] : Path(b, e, u, 0, c) /\ c[0] = s /\ c[Len(u)] = t
  BY DEF Way
<1>2. Len(u) \in Nat /\ 0 + 1 = 1 /\ 1 + 1 = 2 /\ 0 < Len(u) /\ 1 < Len(u) /\ 0 \in Nat /\ 1 \in Nat
  OBVIOUS
<1>3. c[1] = At(IF s.mode = "end" THEN "endCR" ELSE "lastCR", 0, s.at)
  <2>1. Step(b, e, c[0], u[1], c[1])
    BY <1>1, <1>2 DEF Path
  <2> QED BY <1>1, <2>1 DEF Step
<1>4. c[2] = At(IF s.mode = "end" THEN "head" ELSE "eof", 0, s.at)
  <2>1. Step(b, e, c[1], u[2], c[2])
    BY <1>1, <1>2 DEF Path
  <2>2. c[1].mode = (IF s.mode = "end" THEN "endCR" ELSE "lastCR") /\ c[1].at = s.at
    BY <1>3 DEF At
  <2> QED BY <2>1, <2>2 DEF Step
<1> DEFINE r == At(IF s.mode = "end" THEN "head" ELSE "eof", 0, s.at)
<1>5. r = c[2] /\ t = c[Len(u)] /\ 0 <= 2 /\ 2 <= Len(u) /\ 2 \in Nat /\ 0 \in Nat
  BY <1>1, <1>4
<1> HIDE DEF r
<1>6. Way(b, e, v, 0, r, t)
  BY <1>1, <1>5, WayShift
<1> QED BY <1>6 DEF r

(* In a chunk it finds the body from where it is.                          *)
LEMMA WayData ==
  ASSUME NEW b \in Seq(Unit), NEW e, NEW u \in Seq(Unit), NEW s \in State, NEW t, Way(b, e, u, 0, s, t),
         s.mode = "data", s.left > 0, s.at <= Len(b), NEW k \in Nat, k <= Len(u), k <= s.left,
         NEW v \in Seq(Unit), Len(v) = Len(u) - k, \A i \in 1..Len(v) : v[i] = u[i + k]
  PROVE  /\ s.at + k <= Len(b) /\ \A i \in 1..k : u[i] = b[s.at + i]
         /\ Way(b, e, v, 0, At(IF k = s.left THEN "end" ELSE "data", s.left - k, s.at + k), t)
<1>1. PICK c \in [Nat -> State] : Path(b, e, u, 0, c) /\ c[0] = s /\ c[Len(u)] = t
  BY DEF Way
<1>2. Len(u) \in Nat /\ s.left \in Nat /\ s.at \in Nat /\ Len(b) \in Nat
  BY StateAt
<1> DEFINE Q(i) == i <= k => /\ c[i].mode = (IF i = s.left THEN "end" ELSE "data")
                             /\ c[i].left = s.left - i /\ c[i].at = s.at + i /\ s.at + i <= Len(b)
           P == {i \in Nat : Q(i)}
<1>3. 0 \in P
  BY <1>1, <1>2
<1>4. ASSUME NEW i \in Nat, i < k, Q(i) PROVE Q(i + 1) /\ u[i + 1] = b[s.at + (i + 1)]
  <2>1. /\ c[i].mode = "data" /\ c[i].left = s.left - i /\ c[i].at = s.at + i
        /\ i < s.left /\ i < Len(u)
    BY <1>2, <1>4
  <2>2. Step(b, e, c[i], u[i + 1], c[i + 1])
    BY <1>1, <2>1 DEF Path
  <2>3. /\ c[i].at < Len(b) /\ u[i + 1] = b[c[i].at + 1]
        /\ c[i + 1] = At(IF c[i].left = 1 THEN "end" ELSE "data", c[i].left - 1, c[i].at + 1)
    BY <2>1, <2>2 DEF Step
  <2>4. /\ c[i + 1].mode = (IF c[i].left = 1 THEN "end" ELSE "data")
        /\ c[i + 1].left = c[i].left - 1 /\ c[i + 1].at = c[i].at + 1
    BY <2>3 DEF At
  <2>5. /\ c[i].left = 1 <=> i + 1 = s.left
        /\ c[i].left - 1 = s.left - (i + 1) /\ c[i].at + 1 = s.at + (i + 1)
        /\ s.at + (i + 1) <= Len(b)
    <3> DEFINE left == c[i].left
               at == c[i].at
               n == Len(b)
               l == s.left
               a == s.at
    <3>1. /\ left = l - i /\ at = a + i /\ at < n /\ n \in Nat /\ l \in Nat /\ a \in Nat
          /\ i \in Nat
      BY <1>2, <2>1, <2>3
    <3> HIDE DEF left, at, n, l, a
    <3>2. /\ left = 1 <=> i + 1 = l
          /\ left - 1 = l - (i + 1) /\ at + 1 = a + (i + 1)
          /\ a + (i + 1) <= n
      BY ONLY <3>1
    <3> QED BY <3>2 DEF left, at, n, l, a
  <2> QED BY <2>3, <2>4, <2>5
<1>5. ASSUME NEW i \in P PROVE i + 1 \in P
  <2>1. i \in Nat /\ i + 1 \in Nat /\ Q(i)
    OBVIOUS
  <2>2. Q(i + 1)
    <3>1. CASE i < k
      <4> HIDE DEF Q
      <4> QED BY <1>4, <2>1, <3>1
    <3>2. CASE ~(i < k)
      BY <2>1, <3>2
    <3> QED BY <3>1, <3>2
  <2> HIDE DEF Q
  <2> QED BY <2>1, <2>2
<1>6. P = Nat
  <2>1. P \in SUBSET Nat
    OBVIOUS
  <2> HIDE DEF P
  <2> QED BY <1>3, <1>5, <2>1, Induction
<1>7. \A i \in Nat : Q(i)
  <2> HIDE DEF Q
  <2> QED BY <1>6
<1>8. \A i \in 1..k : u[i] = b[s.at + i]
  <2> SUFFICES ASSUME NEW i \in 1..k PROVE u[i] = b[s.at + i]
    OBVIOUS
  <2> DEFINE j == i - 1
  <2>1. j \in Nat /\ j < k /\ j + 1 = i
    OBVIOUS
  <2> HIDE DEF j, Q
  <2>2. u[j + 1] = b[s.at + (j + 1)]
    BY <1>4, <1>7, <2>1
  <2> QED BY <2>1, <2>2
<1> DEFINE r == At(IF k = s.left THEN "end" ELSE "data", s.left - k, s.at + k)
<1>9. r = c[k] /\ s.at + k <= Len(b)
  <2>1. /\ c[k].mode = (IF k = s.left THEN "end" ELSE "data")
        /\ c[k].left = s.left - k /\ c[k].at = s.at + k /\ s.at + k <= Len(b)
    BY <1>7
  <2>2. c[k] = At(c[k].mode, c[k].left, c[k].at)
    BY StateAt
  <2> QED BY <2>1, <2>2
<1> HIDE DEF r, Q
<1>10. Way(b, e, v, 0, r, t)
  <2>1. t = c[Len(u)] /\ 0 <= k /\ 0 \in Nat
    BY <1>1
  <2> QED BY <1>1, <1>9, <2>1, WayShift
<1> QED BY <1>8, <1>9, <1>10 DEF r

(* It finds no size in a chunk or where one ends.                          *)
LEMMA WayNoSize ==
  ASSUME NEW b, NEW e, NEW u \in Seq(Unit), NEW s \in State, NEW t, Way(b, e, u, 0, s, t),
         \A p \in 1..Len(b) : b[p].is # "size", Len(b) \in Nat,
         s.mode \in {"data", "end", "last"}
  PROVE  /\ u # << >> => u[1].is # "size"
         /\ t.mode \in {"head", "eof"} => u # << >>
         /\ s.mode = "data" =>
               /\ Len(u) >= 3 => u[3].is # "size"
               /\ t.mode \in {"head", "eof"} => Len(u) >= 3
<1>1. PICK c \in [Nat -> State] : Path(b, e, u, 0, c) /\ c[0] = s /\ c[Len(u)] = t
  BY DEF Way
<1>2. Len(u) \in Nat /\ 0 + 1 = 1 /\ 1 + 1 = 2 /\ 2 + 1 = 3 /\ (u # << >> <=> Len(u) > 0)
  OBVIOUS
<1>3. ASSUME NEW p \in State, NEW x, NEW q, Step(b, e, p, x, q), p.mode # "head"
      PROVE  x.is # "size"
  <2>1. x = Line[1] \/ x = Line[2] \/ (p.at < Len(b) /\ x = b[p.at + 1])
    BY <1>3 DEF Step
  <2>2. CASE x = Line[1] \/ x = Line[2]
    BY <2>2, LineUnits
  <2>3. CASE p.at < Len(b) /\ x = b[p.at + 1]
    <3>1. p.at + 1 \in 1..Len(b)
      BY <2>3, StateAt
    <3> QED BY <2>3, <3>1
  <2> QED BY <2>1, <2>2, <2>3
<1>4. ASSUME Len(u) >= 1 PROVE Step(b, e, c[0], u[1], c[1])
  BY <1>1, <1>2, <1>4 DEF Path
<1>5. ASSUME Len(u) >= 2 PROVE Step(b, e, c[1], u[2], c[2])
  BY <1>1, <1>2, <1>5 DEF Path
<1>6. ASSUME Len(u) >= 3 PROVE Step(b, e, c[2], u[3], c[3])
  BY <1>1, <1>2, <1>6 DEF Path
<1>7. u # << >> => u[1].is # "size"
  BY <1>1, <1>2, <1>3, <1>4
<1>8. t.mode \in {"head", "eof"} => u # << >>
  BY <1>1, <1>2
<1>9. ASSUME s.mode = "data" PROVE Len(u) >= 1 => c[1].mode \in {"data", "end"}
  <2>1. ASSUME Len(u) >= 1 PROVE c[1].mode \in {"data", "end"}
    <3>1. c[1] = At(IF s.left = 1 THEN "end" ELSE "data", s.left - 1, s.at + 1)
      BY <1>1, <1>4, <1>9, <2>1 DEF Step
    <3> QED BY <3>1 DEF At
  <2> QED BY <2>1
<1>10. ASSUME s.mode = "data" PROVE Len(u) >= 2 => c[2].mode \in {"data", "end", "endCR"}
  <2>1. ASSUME Len(u) >= 2 PROVE c[2].mode \in {"data", "end", "endCR"}
    <3>1. c[1].mode \in {"data", "end"}
      BY <1>2, <1>9, <1>10, <2>1
    <3>2. \/ c[2] = At(IF c[1].left = 1 THEN "end" ELSE "data", c[1].left - 1, c[1].at + 1)
          \/ c[2] = At("endCR", 0, c[1].at)
      BY <1>5, <2>1, <3>1 DEF Step
    <3> QED BY <3>2 DEF At
  <2> QED BY <2>1
<1>11. ASSUME s.mode = "data", Len(u) >= 3 PROVE u[3].is # "size"
  <2>1. c[2].mode # "head"
    BY <1>2, <1>10, <1>11
  <2> QED BY <1>3, <1>6, <1>11, <2>1
<1>12. ASSUME s.mode = "data", t.mode \in {"head", "eof"} PROVE Len(u) >= 3
  <2>1. Len(u) # 0
    BY <1>1, <1>12
  <2>2. Len(u) # 1
    <3>1. ASSUME Len(u) = 1 PROVE FALSE
      BY <1>1, <1>2, <1>9, <1>12, <3>1
    <3> QED BY <3>1
  <2>3. Len(u) # 2
    <3>1. ASSUME Len(u) = 2 PROVE FALSE
      BY <1>1, <1>2, <1>10, <1>12, <3>1
    <3> QED BY <3>1
  <2> DEFINE n == Len(u)
  <2>4. n \in Nat /\ n # 0 /\ n # 1 /\ n # 2
    BY <1>2, <2>1, <2>2, <2>3
  <2> HIDE DEF n
  <2>5. n >= 3
    BY ONLY <2>4
  <2> QED BY <2>5 DEF n
<1> QED BY <1>7, <1>8, <1>11, <1>12

-----------------------------------------------------------------------------
(* The least of some numbers.                                              *)
LEMMA Least ==
  ASSUME NEW S \in SUBSET Nat, S # {}
  PROVE  LET n == CHOOSE i \in S : \A j \in S : i <= j IN n \in S /\ \A j \in S : n <= j
BY LeastNat

(* Two units of a buffer that are the end of a line.                       *)
LEMMA TwoOfBuf ==
  ASSUME buf \in Seq(Unit), NEW i \in 1..(Len(buf) - 1)
  PROVE  SubSeq(buf, i, i + 1) = Line <=> buf[i] = Line[1] /\ buf[i + 1] = Line[2]
<1> DEFINE x == SubSeq(buf, i, i + 1)
<1>1. x \in Seq(Unit) /\ Len(x) = 2 /\ x[1] = buf[i] /\ x[2] = buf[i + 1]
  <2>1. /\ i \in 1..Len(buf) /\ i + 1 \in 1..Len(buf) /\ (i + 1) - i + 1 = 2
        /\ i + 1 - 1 = i /\ i + 2 - 1 = i + 1
    OBVIOUS
  <2> QED BY <2>1
<1>2. Line \in Seq(Unit) /\ Len(Line) = 2
  BY LineUnits
<1> HIDE DEF x
<1>3. ASSUME x[1] = Line[1], x[2] = Line[2] PROVE x = Line
  <2>1. \A k \in 1..Len(x) : x[k] = Line[k]
    <3>1. \A k \in 1..Len(x) : k = 1 \/ k = 2
      BY <1>1
    <3> QED BY <1>3, <3>1
  <2> QED BY <1>1, <1>2, <2>1, SeqEqual
<1> QED BY <1>1, <1>3 DEF x

(* The four that end the headers.                                          *)
LEMMA FourOfBuf ==
  ASSUME buf \in Seq(Unit), NEW i \in 4..Len(buf)
  PROVE  SubSeq(buf, i - 3, i) = Line \o Line <=>
            buf[i - 3] = Line[1] /\ buf[i - 2] = Line[2] /\ buf[i - 1] = Line[1] /\ buf[i] = Line[2]
<1> DEFINE x == SubSeq(buf, i - 3, i)
           y == Line \o Line
<1>1. x \in Seq(Unit) /\ Len(x) = 4 /\ x[1] = buf[i - 3] /\ x[2] = buf[i - 2] /\ x[3] = buf[i - 1] /\ x[4] = buf[i]
  <2>1. i - 3 \in 1..Len(buf) /\ i \in 1..Len(buf) /\ i - (i - 3) + 1 = 4
        /\ (i - 3) + 1 - 1 = i - 3 /\ (i - 3) + 2 - 1 = i - 2 /\ (i - 3) + 3 - 1 = i - 1 /\ (i - 3) + 4 - 1 = i
    OBVIOUS
  <2> QED BY <2>1
<1>2. y \in Seq(Unit) /\ Len(y) = 4 /\ y[1] = Line[1] /\ y[2] = Line[2] /\ y[3] = Line[1] /\ y[4] = Line[2]
  <2>1. Line \in Seq(Unit) /\ Len(Line) = 2
    BY LineUnits
  <2>2. /\ y \in Seq(Unit) /\ Len(y) = Len(Line) + Len(Line)
        /\ \A k \in 1..Len(Line) : y[k] = Line[k]
        /\ \A k \in 1..Len(Line) : y[Len(Line) + k] = Line[k]
    <3>1. Line \in Seq(Unit)
      BY <2>1
    <3> QED BY ONLY <3>1, Concat
  <2>3. 1 \in 1..Len(Line) /\ 2 \in 1..Len(Line) /\ Len(Line) + 1 = 3 /\ Len(Line) + 2 = 4
    BY <2>1
  <2> HIDE DEF y
  <2> QED BY <2>1, <2>2, <2>3
<1> HIDE DEF x, y
<1>3. ASSUME x[1] = Line[1], x[2] = Line[2], x[3] = Line[1], x[4] = Line[2] PROVE x = y
  <2>1. \A k \in 1..Len(x) : x[k] = y[k]
    <3>1. \A k \in 1..Len(x) : k = 1 \/ k = 2 \/ k = 3 \/ k = 4
      BY <1>1
    <3> QED BY <1>2, <1>3, <3>1
  <2> QED BY <1>1, <1>2, <2>1, SeqEqual
<1>4. x = y <=> buf[i - 3] = Line[1] /\ buf[i - 2] = Line[2] /\ buf[i - 1] = Line[1] /\ buf[i] = Line[2]
  BY <1>1, <1>2, <1>3
<1> QED BY <1>4 DEF x, y

(* The end of the headers that is found is their end.                      *)
LEMMA HeadersFound ==
  ASSUME buf \in Seq(Unit), wire \in Seq(Unit), NEW h \in Nat, h >= 5, NEW m,
         Opening(Unread, h, m), HeadersIn
  PROVE  /\ h <= Len(buf)
         /\ h = CHOOSE i \in HeaderEnds : \A j \in HeaderEnds : i <= j
         /\ buf[1].code = m.code /\ buf[1].chunked = m.chunked /\ buf[1].length = m.length
<1>1. /\ Len(buf) \in Nat /\ Len(Unread) \in Nat /\ Len(buf) <= Len(Unread)
      /\ \A i \in 1..Len(buf) : i \in 1..Len(Unread) /\ Unread[i] = buf[i]
  <2>1. /\ Len(Unread) = Len(buf) + Len(wire) /\ Len(buf) \in Nat /\ Len(wire) \in Nat
        /\ \A i \in 1..Len(buf) : Unread[i] = buf[i]
    BY UnreadUnits
  <2> QED BY <2>1
<1>2. \A i \in 1..Len(buf) :
        /\ i = 1 => buf[i] = [is |-> "headers", code |-> m.code, chunked |-> m.chunked, length |-> m.length]
        /\ 1 < i /\ i < h - 3 => buf[i].is = "field"
        /\ i \in {h - 3, h - 1} => buf[i] = Line[1]
        /\ i \in {h - 2, h} => buf[i] = Line[2]
  BY <1>1 DEF Opening
<1>3. ASSUME NEW i \in HeaderEnds PROVE i >= h /\ i <= Len(buf) /\ i \in Nat
  <2>1. i \in 4..Len(buf) /\ i - 3 \in 1..Len(buf) /\ i \in Nat
    BY <1>1 DEF HeaderEnds
  <2>2. buf[i - 3] = Line[1]
    BY <2>1, FourOfBuf DEF HeaderEnds
  <2>3. buf[i - 3].is = "CR"
    BY <2>2, LineUnits
  <2>4. CASE i < h
    <3>1. i - 3 = 1 \/ (1 < i - 3 /\ i - 3 < h - 3)
      BY <2>1, <2>4
    <3>2. CASE i - 3 = 1
      <4>1. buf[1] = [is |-> "headers", code |-> m.code, chunked |-> m.chunked, length |-> m.length]
        BY <1>2, <2>1, <3>2
      <4>2. [is |-> "headers", code |-> m.code, chunked |-> m.chunked, length |-> m.length].is = "headers"
        OBVIOUS
      <4>3. buf[1].is = "headers"
        BY ONLY <4>1, <4>2
      <4> QED BY <2>3, <3>2, <4>3
    <3>3. CASE 1 < i - 3 /\ i - 3 < h - 3
      BY <1>2, <2>1, <2>3, <3>3
    <3> QED BY <3>1, <3>2, <3>3
  <2> QED BY <2>1, <2>4
<1>4. PICK j \in HeaderEnds : TRUE
  BY DEF HeadersIn
<1>5. h <= Len(buf) /\ h \in HeaderEnds
  <2>1. h <= Len(buf)
    BY <1>1, <1>3, <1>4
  <2>2. h \in 4..Len(buf) /\ h - 3 \in 1..Len(buf) /\ h - 2 \in 1..Len(buf) /\ h - 1 \in 1..Len(buf) /\ h \in 1..Len(buf)
    BY <1>1, <2>1
  <2>3. buf[h - 3] = Line[1] /\ buf[h - 2] = Line[2] /\ buf[h - 1] = Line[1] /\ buf[h] = Line[2]
    BY <1>2, <2>2
  <2>4. SubSeq(buf, h - 3, h) = Line \o Line
    BY <2>2, <2>3, FourOfBuf
  <2> QED BY <2>1, <2>2, <2>4 DEF HeaderEnds
<1> DEFINE n == CHOOSE i \in HeaderEnds : \A k \in HeaderEnds : i <= k
<1>6. n \in HeaderEnds /\ \A k \in HeaderEnds : n <= k
  <2>1. HeaderEnds \in SUBSET Nat /\ HeaderEnds # {}
    BY <1>3, <1>5
  <2> QED BY <2>1, Least
<1> HIDE DEF n
<1>7. n = h
  <2>1. n \in Nat /\ n >= h /\ n <= h
    BY <1>3, <1>5, <1>6
  <2> QED BY <2>1
<1>8. buf[1] = [is |-> "headers", code |-> m.code, chunked |-> m.chunked, length |-> m.length]
  <2>1. 1 \in 1..Len(buf)
    BY <1>1, <1>5
  <2> QED BY <1>2, <2>1
<1>9. buf[1].code = m.code /\ buf[1].chunked = m.chunked /\ buf[1].length = m.length
  BY ONLY <1>8
<1> QED BY <1>5, <1>7, <1>9 DEF n

(* The first line of the buffer.                                           *)
LEMMA LineAt ==
  ASSUME buf \in Seq(Unit)
  PROVE  \/ LineLength = 0
         \/ \E i \in 1..(Len(buf) - 1) :
               /\ LineLength = i + 1 /\ buf[i] = Line[1] /\ buf[i + 1] = Line[2]
               /\ \A j \in 1..(Len(buf) - 1) : buf[j] = Line[1] /\ buf[j + 1] = Line[2] => i <= j
<1> DEFINE ends == {i \in 1..(Len(buf) - 1) : SubSeq(buf, i, i + 1) = Line}
           n == CHOOSE i \in ends : \A j \in ends : i <= j
<1>1. LineLength = IF ends = {} THEN 0 ELSE 1 + n
  BY DEF LineLength
<1>2. CASE ends = {}
  BY <1>1, <1>2
<1>3. CASE ends # {}
  <2>1. ends \in SUBSET Nat
    OBVIOUS
  <2>2. n \in ends /\ \A j \in ends : n <= j
    <3> HIDE DEF ends
    <3> QED BY <1>3, <2>1, Least
  <2> HIDE DEF n
  <2>3. n \in 1..(Len(buf) - 1) /\ SubSeq(buf, n, n + 1) = Line
    BY <2>2
  <2>4. buf[n] = Line[1] /\ buf[n + 1] = Line[2]
    BY <2>3, TwoOfBuf
  <2>5. ASSUME NEW j \in 1..(Len(buf) - 1), buf[j] = Line[1] /\ buf[j + 1] = Line[2] PROVE n <= j
    <3>1. SubSeq(buf, j, j + 1) = Line
      BY <2>5, TwoOfBuf
    <3> QED BY <2>2, <3>1
  <2>6. LineLength = n + 1
    <3>1. 1 + n = n + 1
      BY <2>3
    <3> QED BY <1>1, <1>3, <3>1
  <2> QED BY <2>3, <2>4, <2>5, <2>6
<1> QED BY <1>2, <1>3

(* The line of a size is the size and the end of the line.                 *)
LEMMA LineOfSize ==
  ASSUME buf \in Seq(Unit), LineLength # 0
  PROVE  /\ Len(buf) >= 2 /\ LineLength \in Nat /\ LineLength <= Len(buf)
         /\ LineLength = 2 => buf[1] = Line[1]
         /\ buf[1].is = "size" /\ buf[2] = Line[1] /\ (Len(buf) >= 3 => buf[3] = Line[2])
               => LineLength = 3
<1>1. PICK i \in 1..(Len(buf) - 1) :
         /\ LineLength = i + 1 /\ buf[i] = Line[1] /\ buf[i + 1] = Line[2]
         /\ \A j \in 1..(Len(buf) - 1) : buf[j] = Line[1] /\ buf[j + 1] = Line[2] => i <= j
  BY LineAt
<1>2. Len(buf) \in Nat /\ i \in Nat /\ i >= 1 /\ i + 1 <= Len(buf)
  OBVIOUS
<1>3. Len(buf) >= 2 /\ LineLength \in Nat /\ LineLength <= Len(buf)
  BY <1>1, <1>2
<1>4. LineLength = 2 => buf[1] = Line[1]
  <2>1. i + 1 = 2 => i = 1
    BY <1>2
  <2> QED BY <1>1, <2>1
<1>5. ASSUME buf[1].is = "size", buf[2] = Line[1], Len(buf) >= 3 => buf[3] = Line[2]
      PROVE  LineLength = 3
  <2>1. i # 1
    <3>1. Line[1].is = "CR"
      BY LineUnits
    <3> QED BY <1>1, <1>5, <3>1
  <2>2. Len(buf) >= 3 /\ 2 \in 1..(Len(buf) - 1) /\ 2 + 1 = 3
    BY <1>2, <2>1
  <2>3. i <= 2
    BY <1>1, <1>5, <2>2
  <2>4. i = 2
    BY <1>2, <2>1, <2>3
  <2>5. i + 1 = 3
    BY <2>4
  <2> QED BY <1>1, <2>5
<1> QED BY <1>3, <1>4, <1>5

-----------------------------------------------------------------------------
(* The sizes that are read are sizes.                                      *)
LEMMA UnitSizes ==
  ASSUME NEW x \in Unit
  PROVE  /\ x.is = "size" => x.n \in Nat
         /\ x.is = "tag" => x.size \in Nat /\ x.type # NoTag.type
<1>1. CASE x \in Signs
  BY <1>1 DEF Signs
<1>2. CASE x \in HeaderUnits
  BY <1>2 DEF HeaderUnits
<1>3. CASE x \in SizeUnits
  BY <1>3 DEF SizeUnits
<1>4. CASE x \in PreviousUnits
  BY <1>4 DEF PreviousUnits
<1>5. CASE x \in TagUnits
  BY <1>5 DEF TagUnits
<1>6. CASE x \in DataUnits
  BY <1>6 DEF DataUnits
<1> QED BY <1>1, <1>2, <1>3, <1>4, <1>5, <1>6 DEF Unit

(* What the headers say.                                                   *)
LEMMA SaidType ==
  ASSUME Types
  PROVE  /\ Said \in [code : Nat, chunked : BOOLEAN, length : Int]
         /\ Said.code = Code /\ Said.chunked = Chunked /\ Said.length = contentLength
         /\ Said # NoMsg /\ Code \in Nat \ {0} /\ (Chunked => contentLength = -1)
         /\ NoMsg.chunked = FALSE /\ NoMsg.length = -1 /\ NoMsg.code = 0
<1>1. Code \in Nat \ {0}
  BY DEF Types, Code, OK
<1>2. Chunked \in BOOLEAN /\ contentLength \in Int /\ (Chunked => contentLength = -1)
  BY DEF Types, Chunked, InChunks
<1>3. NoMsg.chunked = FALSE /\ NoMsg.length = -1 /\ NoMsg.code = 0
  BY DEF NoMsg
<1>4. Said.code = Code /\ Said.chunked = Chunked /\ Said.length = contentLength
  BY DEF Said
<1>5. Said \in [code : Nat, chunked : BOOLEAN, length : Int]
  BY <1>1, <1>2 DEF Said
<1>6. Said # NoMsg
  BY <1>1, <1>3, <1>4
<1> QED BY <1>1, <1>2, <1>3, <1>4, <1>5, <1>6

(* Once the headers are parsed, what is unread is the rest of the body.    *)
LEMMA LayoutParsed ==
  ASSUME Types, Layout, msg # NoMsg
  PROVE  /\ msg = Said /\ served # "idle" /\ (status = 0 \/ headerSent)
         /\ Stray \/ Rest(0, Unread)
<1>1. msg = Said /\ ~Nothing
  BY DEF Layout, Nothing
<1>2. served # "idle" /\ (status = 0 \/ headerSent)
  BY <1>1 DEF Layout
<1>3. ASSUME Lay(Unread) PROVE Rest(0, Unread)
  <2>1. PICK h \in Nat : Ahead(h, Unread) /\ Rest(h, Unread)
    BY <1>3 DEF Lay
  <2>2. h = 0
    BY <2>1 DEF Ahead
  <2> QED BY <2>1, <2>2
<1> QED BY <1>1, <1>2, <1>3 DEF Layout

(* And the other way round, after a step.                                  *)
LEMMA LayoutKept ==
  ASSUME msg' = Said', msg' # NoMsg, served' # "idle", status' = 0 \/ headerSent',
         Stray' \/ Rest(0, Unread)'
  PROVE  Layout'
<1>1. Rest(0, Unread)' => Lay(Unread)'
  <2>1. Ahead(0, Unread)'
    BY DEF Ahead
  <2>2. ASSUME Rest(0, Unread)' PROVE Lay(Unread)'
    <3>1. 0 \in Nat /\ Ahead(0, Unread)' /\ Rest(0, Unread)'
      BY <2>1, <2>2
    <3> QED BY <3>1 DEF Lay
  <2> QED BY <2>2
<1> QED BY <1>1 DEF Layout

(* No unit of the body is taken for the size of a chunk.                   *)
LEMMA ContentNoSize ==
  ASSUME Types
  PROVE  \A p \in 1..Len(Content) : Content[p].is # "size"
<1>1. CASE status \in {0, OK}
  <2>1. Shape(sent, Starts)
    BY StartsShape DEF Types
  <2>2. \A p \in 1..Len(Body(sent)) : Body(sent)[p].is \in {"FLV", "previous", "tag", "stream id", "data"}
    BY <2>1 DEF Shape
  <2> QED BY <1>1, <2>2 DEF Content
<1>2. CASE status \notin {0, OK}
  <2>1. Content = Text /\ Len(Text) = 1 /\ Text[1].is = "text"
    BY <1>2 DEF Content, Text
  <2>2. \A p \in 1..1 : p = 1
    OBVIOUS
  <2> QED BY <2>1, <2>2
<1> QED BY <1>1, <1>2

(* The length in the headers is a number.                                  *)
LEMMA LayoutLength ==
  ASSUME Types, Layout
  PROVE  msg.length \in Int
<1>1. msg = NoMsg \/ msg = Said
  BY DEF Layout
<1>2. CASE msg = NoMsg
  <2>1. -1 \in Int
    OBVIOUS
  <2> QED BY <1>2, <2>1, SaidType
<1>3. CASE msg = Said
  BY <1>3, SaidType
<1> QED BY <1>1, <1>2, <1>3

(* How many units are read of the body.                                    *)
LEMMA SomeBounds ==
  ASSUME Types, msg.length \in Int, NEW n \in Int, ReadSome(n)
  PROVE  /\ Some(n) \in 1..Len(buf) /\ Some(n) <= n
         /\ msg.chunked => Some(n) <= nbLeft
         /\ ~msg.chunked /\ msg.length # -1 => total + Some(n) <= msg.length
<1>1. msg.length \in Int
  OBVIOUS
<1>2. nbLeft \in Nat /\ total \in Nat /\ Len(buf) \in Nat
  BY DEF Types
<1>3. Some(n) > 0 /\ InBody
  BY DEF ReadSome
<1>4. CASE msg.chunked
  <2>1. Some(n) = Lesser(Lesser(n, nbLeft), Len(buf))
    <3>1. ~ByLength
      BY <1>4 DEF ByLength
    <3> QED BY <1>4, <3>1 DEF Some
  <2> QED BY <1>1, <1>2, <1>3, <1>4, <2>1 DEF Lesser
<1>5. CASE ~msg.chunked /\ msg.length # -1
  <2>1. ByLength
    BY <1>3, <1>5 DEF InBody, InChunk, ByLength
  <2>2. Some(n) = Lesser(Lesser(n, msg.length - total), Len(buf))
    BY <1>5, <2>1 DEF Some, LengthLeft, Remaining
  <2> QED BY <1>1, <1>2, <1>3, <1>5, <2>2 DEF Lesser
<1>6. CASE ~msg.chunked /\ msg.length = -1
  <2>1. Some(n) = Lesser(n, Len(buf))
    BY <1>6 DEF Some, ByLength
  <2> QED BY <1>1, <1>2, <1>3, <1>6, <2>1 DEF Lesser
<1> QED BY <1>1, <1>4, <1>5, <1>6

-----------------------------------------------------------------------------
(* The server does nothing.                                                *)
Still == UNCHANGED <<open, status, headerSent, contentLength, written, served, pending, sent>>

(* What was written and what of it is left stay.                           *)
LEMMA StillSame ==
  ASSUME Still
  PROVE  /\ Content' = Content /\ End' = End /\ Chunked' = Chunked /\ Said' = Said /\ Done' = Done
         /\ Code' = Code /\ InChunks' = InChunks /\ Starts' = Starts
         /\ open' = open /\ served' = served /\ status' = status /\ headerSent' = headerSent
         /\ contentLength' = contentLength /\ sent' = sent
BY DEF Still, Content, End, Chunked, Said, Done, Code, InChunks, Starts

(* It has then nothing else to write.                                      *)
LEMMA WritingKept ==
  ASSUME Writing, Still, phase' # "idle"
  PROVE  Writing'
<1>1. Content' = Content /\ Done' = Done /\ InChunks' = InChunks
  BY StillSame
<1> QED BY <1>1 DEF Writing, Still

(* Units of a body without chunks are read.                                *)
LEMMA RawTaken ==
  ASSUME Types, Still, NEW h \in Nat, NEW k \in Nat, h <= k, k <= Len(Unread), Raw(h, Unread),
         Unread \in Seq(Unit), Unread' \in Seq(Unit), Len(Unread') = Len(Unread) - k,
         \A i \in 1..Len(Unread') : Unread'[i] = Unread[i + k],
         total' = total + (k - h), nbLeft' = 0, ~inEnd', isEof' => ~InChunks /\ total' >= contentLength
  PROVE  Raw(0, Unread)'
<1> DEFINE n == Len(Unread)
           m == Len(Unread')
           c == Len(Content)
<1>1. n \in Nat /\ m \in Nat /\ m = n - k /\ c \in Nat /\ total \in Nat /\ Done \in Int
  BY ContentUnits DEF Types
<1>2. /\ ~Chunked
      /\ \A i \in Nat : h < i /\ i <= n => Unread[i] = Content[total + i - h]
      /\ total + n - h <= c /\ total <= c
      /\ ~InChunks => total + n - h <= contentLength /\ total <= contentLength
      /\ open /\ served \in {"serving", "plain"} => total + n - h = Done
  BY DEF Raw
<1>3. contentLength \in Int
  BY DEF Types
<1> HIDE DEF n, m, c
<1>4. ASSUME NEW i \in Nat, 0 < i, i <= m PROVE Unread'[i] = Content[total' + i - 0]
  <2>1. i \in 1..m /\ i + k \in Nat /\ h < i + k /\ i + k <= n /\ total + (i + k) - h = total' + i - 0
    BY <1>1, <1>4
  <2>2. Unread'[i] = Unread[i + k]
    BY <2>1 DEF m
  <2> QED BY <1>2, <2>1, <2>2
<1>5. total' + m - 0 = total + n - h
  BY <1>1
<1>6. total' <= total + n - h
  BY <1>1 DEF n
<1>7. /\ total' + m - 0 <= c /\ total' <= c
      /\ ~InChunks => total' + m - 0 <= contentLength /\ total' <= contentLength
      /\ open /\ served \in {"serving", "plain"} => total' + m - 0 = Done
  <2> DEFINE o == total' + m - 0
             q == total + n - h
  <2>1. o = q /\ total' <= q /\ q \in Int /\ total' \in Int
    BY <1>1, <1>5, <1>6
  <2>2. q <= c /\ (~InChunks => q <= contentLength) /\ (open /\ served \in {"serving", "plain"} => q = Done)
    BY <1>2
  <2> HIDE DEF o, q
  <2>3. o <= c /\ total' <= c /\ (~InChunks => o <= contentLength /\ total' <= contentLength)
    BY <1>1, <1>3, <2>1, <2>2
  <2>4. open /\ served \in {"serving", "plain"} => o = Done
    BY <2>1, <2>2
  <2> QED BY <2>3, <2>4 DEF o
<1>8. /\ Content' = Content /\ Done' = Done /\ Chunked' = Chunked /\ InChunks' = InChunks
      /\ open' = open /\ served' = served /\ contentLength' = contentLength
  BY StillSame
<1> QED BY <1>2, <1>4, <1>7, <1>8 DEF Raw, n, m, c

(* The way behind the headers.                                             *)
LEMMA WayFrom ==
  ASSUME NEW b, NEW e, NEW u \in Seq(Unit), NEW v \in Seq(Unit), NEW h \in Nat, h <= Len(u),
         NEW s, NEW t, Way(b, e, u, h, s, t),
         Len(v) = Len(u) - h, \A i \in 1..Len(v) : v[i] = u[i + h]
  PROVE  Way(b, e, v, 0, s, t)
<1>1. PICK c \in [Nat -> State] : Path(b, e, u, h, c) /\ c[h] = s /\ c[Len(u)] = t
  BY DEF Way
<1>2. h <= h /\ s = c[h] /\ t = c[Len(u)]
  BY <1>1
<1> QED BY <1>1, <1>2, WayShift

(* The response is parsed.                                                 *)
LEMMA LayoutParses ==
  ASSUME Types, Layout, ParseMessage, Still, UNCHANGED torn
  PROVE  /\ Layout' /\ buf' \in Seq(Unit) /\ msg' = Said /\ msg' # NoMsg /\ total = 0
         /\ ~Nothing
<1>0. /\ msg = NoMsg /\ HeadersIn /\ UNCHANGED <<nbLeft, total, isEof, inEnd, wire>>
      /\ msg' = [code |-> buf[1].code, chunked |-> buf[1].chunked, length |-> buf[1].length]
      /\ buf' = After(CHOOSE i \in HeaderEnds : \A j \in HeaderEnds : i <= j)
  BY DEF ParseMessage, bodyVars, wireVars
<1>1. buf \in Seq(Unit) /\ wire \in Seq(Unit) /\ Unread \in Seq(Unit)
  BY UnreadUnits DEF Types
<1>2. ~Nothing
  <2>1. Unread # << >>
    <3>1. Len(buf) \in Nat /\ Len(buf) # 0
      BY <1>0, <1>1 DEF HeadersIn, HeaderEnds
    <3>2. Len(Unread) = Len(buf) + Len(wire) /\ Len(wire) \in Nat
      BY <1>1, UnreadUnits
    <3>3. Len(Unread) # 0
      BY <3>1, <3>2
    <3> QED BY <3>3
  <2> QED BY <2>1 DEF Nothing
<1>3. ~Stray
  BY <1>0, SaidType DEF Stray
<1>4. PICK h \in Nat : Ahead(h, Unread) /\ Rest(h, Unread)
  BY <1>2, <1>3 DEF Layout, Lay
<1>5. h >= 5 /\ Opening(Unread, h, Said)
  BY <1>0, <1>4, SaidType DEF Ahead
<1>6. /\ h <= Len(buf) /\ buf' = After(h) /\ msg' = Said
  <2>1. /\ h <= Len(buf)
        /\ h = CHOOSE i \in HeaderEnds : \A j \in HeaderEnds : i <= j
        /\ buf[1].code = Said.code /\ buf[1].chunked = Said.chunked /\ buf[1].length = Said.length
    BY <1>0, <1>1, <1>5, HeadersFound
  <2>2. Said = [code |-> Said.code, chunked |-> Said.chunked, length |-> Said.length]
    BY SaidType
  <2> QED BY <1>0, <2>1, <2>2
<1>7. /\ buf' \in Seq(Unit) /\ Unread' \in Seq(Unit) /\ Len(Unread') = Len(Unread) - h
      /\ \A i \in 1..Len(Unread') : Unread'[i] = Unread[i + h]
      /\ h <= Len(Unread)
  <2>1. h \in 0..Len(buf)
    BY <1>6
  <2>2. h <= Len(Unread)
    <3>1. Len(Unread) = Len(buf) + Len(wire) /\ Len(wire) \in Nat /\ Len(buf) \in Nat
      BY <1>1, UnreadUnits
    <3> QED BY <1>6, <3>1
  <2> QED BY <1>0, <1>1, <1>6, <2>1, <2>2, UnreadTaken
<1>8. total = 0 /\ nbLeft = 0 /\ ~isEof /\ ~inEnd
  BY <1>0 DEF Layout
<1>9. Rest(0, Unread)'
  <2>1. CASE Raw(h, Unread)
    <3>1. total' = total + (h - h) /\ h <= h
      BY <1>0, <1>8
    <3>2. Raw(0, Unread)'
      BY <1>0, <1>1, <1>7, <1>8, <2>1, <3>1, RawTaken
    <3> QED BY <3>2 DEF Rest
  <2>2. CASE \E s, t \in State : Chunks(h, Unread, s, t)
    <3>1. PICK s \in State, t \in State : Chunks(h, Unread, s, t)
      BY <2>2
    <3>2. Way(Content, End, Unread, h, s, t)
      BY <3>1 DEF Chunks
    <3>3. Way(Content, End, Unread', 0, s, t)
      BY <1>1, <1>7, <3>2, WayFrom
    <3>4. Chunks(0, Unread, s, t)'
      <4>1. Reader(s)'
        <5>1. Reader(s)
          BY <3>1 DEF Chunks
        <5> QED BY <1>0, <5>1, StillSame DEF Reader
      <4> QED BY <3>1, <3>3, <4>1, StillSame DEF Chunks
    <3> QED BY <3>4 DEF Rest
  <2> QED BY <1>4, <2>1, <2>2 DEF Rest
<1>10. served # "idle" /\ (status = 0 \/ headerSent)
  BY <1>2 DEF Layout
<1>11. Layout'
  <2>1. msg' = Said' /\ msg' # NoMsg /\ served' # "idle" /\ (status' = 0 \/ headerSent')
    BY <1>6, <1>10, StillSame, SaidType
  <2> QED BY <1>9, <2>1, LayoutKept
<1>12. msg' # NoMsg
  BY <1>6, SaidType
<1> QED BY <1>2, <1>6, <1>7, <1>8, <1>11, <1>12

(* The buffer is the beginning of what is unread.                          *)
LEMMA BufFirst ==
  ASSUME Types
  PROVE  /\ buf \in Seq(Unit) /\ wire \in Seq(Unit) /\ Unread \in Seq(Unit)
         /\ Len(buf) \in Nat /\ Len(Unread) \in Nat /\ Len(buf) <= Len(Unread)
         /\ \A i \in 1..Len(buf) : Unread[i] = buf[i]
<1>1. /\ Unread \in Seq(Unit) /\ Len(Unread) = Len(buf) + Len(wire)
      /\ Len(buf) \in Nat /\ Len(wire) \in Nat /\ Len(Unread) \in Nat
      /\ \A i \in 1..Len(buf) : Unread[i] = buf[i]
  BY UnreadUnits DEF Types
<1> QED BY <1>1 DEF Types

(* At a size that is there the reader has not lost its place.              *)
LEMMA AtSize ==
  ASSUME Types, Layout, msg # NoMsg, NewChunk
  PROVE  /\ Stray => buf = << >> \/ buf[1].is # "size"
         /\ ~Stray => \E s, t \in State : Chunks(0, Unread, s, t) /\ s.mode = "head"
<1>0. msg = Said /\ (Stray \/ Rest(0, Unread)) /\ msg.chunked = Chunked
  BY LayoutParsed, SaidType
<1>1. ASSUME Stray PROVE buf = << >> \/ buf[1].is # "size"
  <2> SUFFICES ASSUME buf # << >> PROVE buf[1].is # "size"
    OBVIOUS
  <2>1. 1 \in 1..Len(buf) /\ Unread # << >>
    <3>1. Len(buf) # 0
      BY BufFirst
    <3>2. 1 \in 1..Len(buf) /\ Len(Unread) # 0
      BY <3>1, BufFirst
    <3> QED BY <3>2
  <2>2. Unread[1].is # "size"
    BY <1>1, <2>1 DEF Stray, NewChunk, Reading
  <2> QED BY <2>1, <2>2, BufFirst
<1>2. ASSUME ~Stray PROVE \E s, t \in State : Chunks(0, Unread, s, t) /\ s.mode = "head"
  <2>1. PICK s \in State, t \in State : Chunks(0, Unread, s, t)
    BY <1>0, <1>2 DEF Rest, Raw, NewChunk
  <2>2. Reader(s)
    BY <2>1 DEF Chunks
  <2>3. s.mode = "head"
    <3>1. ~isEof /\ ~inEnd /\ nbLeft = 0
      BY DEF NewChunk, Reading, AllRead, Types
    <3> QED BY <2>2, <3>1 DEF Reader
  <2> QED BY <2>1, <2>3
<1> QED BY <1>1, <1>2

(* A chunk begins.                                                         *)
LEMMA LayoutChunkHeader ==
  ASSUME Types, Layout, msg # NoMsg, ChunkHeader, Still, UNCHANGED torn
  PROVE  Layout' /\ buf' \in Seq(Unit) /\ nbLeft' \in Nat /\ isEof' \in BOOLEAN /\ inEnd' \in BOOLEAN /\ ~Stray
<1>0. /\ NewChunk /\ LineLength > 2 /\ buf[1].is = "size"
      /\ nbLeft' = buf[1].n /\ isEof' = (buf[1].n = 0) /\ inEnd' = (buf[1].n = 0)
      /\ buf' = After(LineLength) /\ UNCHANGED <<msg, total, wire>>
  BY DEF ChunkHeader, BeginChunk, wireVars
<1>1. /\ msg = Said /\ served # "idle" /\ (status = 0 \/ headerSent)
  BY LayoutParsed
<1>2. LineLength # 0
  BY <1>0
<1>3. Len(buf) >= 2 /\ LineLength \in Nat /\ LineLength <= Len(buf)
  BY <1>2, BufFirst, LineOfSize
<1>4. ~Stray
  <2>1. buf # << >>
    BY <1>3
  <2> QED BY <1>0, <2>1, AtSize
<1>5. PICK s \in State, t \in State : Chunks(0, Unread, s, t) /\ s.mode = "head"
  BY <1>0, <1>4, AtSize
<1>6. Way(Content, End, Unread, 0, s, t) /\ Reader(s)
  BY <1>5 DEF Chunks
<1> DEFINE x == Unread[1]
           r == At(IF x.n = 0 THEN "last" ELSE "data", x.n, s.at)
<1>7. /\ Len(Unread) >= 1 => x.is = "size" /\ x.n \in Nat /\ (x.n = 0 => s.at = End)
      /\ Len(Unread) >= 2 => Unread[2] = Line[1]
      /\ Len(Unread) >= 3 => Unread[3] = Line[2]
      /\ \A v \in Seq(Unit) :
            Len(Unread) >= 3 /\ Len(v) = Len(Unread) - 3 /\ (\A i \in 1..Len(v) : v[i] = Unread[i + 3])
              => Way(Content, End, v, 0, r, t)
  <2>1. Unread \in Seq(Unit)
    BY BufFirst
  <2> HIDE DEF Unread
  <2> QED BY <1>5, <1>6, <2>1, WayHead
<1>8. /\ buf[1] = Unread[1] /\ buf[2] = Line[1] /\ (Len(buf) >= 3 => buf[3] = Line[2])
      /\ Len(Unread) >= 2
  <2>1. Len(Unread) >= 2 /\ (Len(buf) >= 3 => Len(Unread) >= 3)
    BY <1>3, BufFirst
  <2>2. 1 \in 1..Len(buf) /\ 2 \in 1..Len(buf) /\ (Len(buf) >= 3 => 3 \in 1..Len(buf))
    BY <1>3, BufFirst
  <2>3. Unread[1] = buf[1] /\ Unread[2] = buf[2] /\ (Len(buf) >= 3 => Unread[3] = buf[3])
    BY <2>2, BufFirst
  <2>4. Unread[2] = Line[1] /\ (Len(Unread) >= 3 => Unread[3] = Line[2])
    <3> HIDE DEF x, r, Unread
    <3> QED BY <1>7, <2>1
  <2> HIDE DEF Unread
  <2> QED BY <2>1, <2>3, <2>4
<1>9. LineLength = 3
  BY <1>0, <1>2, <1>8, BufFirst, LineOfSize
<1>10. /\ buf' \in Seq(Unit) /\ Unread' \in Seq(Unit) /\ Len(Unread') = Len(Unread) - 3
       /\ \A i \in 1..Len(Unread') : Unread'[i] = Unread[i + 3]
  <2>1. 3 \in 0..Len(buf) /\ buf' = After(3) /\ UNCHANGED wire
    BY <1>0, <1>3, <1>9, BufFirst
  <2> QED BY <2>1, BufFirst, UnreadTaken
<1>11. /\ x.is = "size" /\ x.n \in Nat /\ (x.n = 0 => s.at = End)
       /\ Way(Content, End, Unread', 0, r, t)
  <2>1. Len(Unread) >= 1 /\ Len(Unread) >= 3
    BY <1>3, <1>9, BufFirst
  <2> DEFINE v == Unread'
             u == Unread
  <2>2. v \in Seq(Unit) /\ Len(v) = Len(u) - 3 /\ \A i \in 1..Len(v) : v[i] = u[i + 3]
    BY <1>10
  <2>3. Way(Content, End, v, 0, r, t)
    <3> HIDE DEF x, r, v, u
    <3>1. u = Unread
      BY DEF u
    <3> QED BY <1>7, <2>1, <2>2, <3>1
  <2> QED BY <1>7, <2>1, <2>3
<1>12. r \in State /\ r.mode = (IF x.n = 0 THEN "last" ELSE "data") /\ r.left = x.n /\ r.at = s.at
  <2> DEFINE mode == IF x.n = 0 THEN "last" ELSE "data"
             n == x.n
  <2>1. mode \in {"head", "size", "sizeCR", "data", "end", "endCR", "last", "lastCR", "eof"}
    OBVIOUS
  <2>2. n \in Nat /\ s.at \in Nat
    BY <1>11, StateAt
  <2> HIDE DEF mode, n
  <2>3. /\ At(mode, n, s.at) \in State
        /\ At(mode, n, s.at).mode = mode /\ At(mode, n, s.at).left = n /\ At(mode, n, s.at).at = s.at
    BY <2>1, <2>2, AtState
  <2> QED BY <2>3 DEF mode, n
<1>13. s.at = total /\ s.at <= Len(Content) /\ nbLeft' = x.n /\ isEof' = (x.n = 0) /\ inEnd' = (x.n = 0)
  BY <1>0, <1>6, <1>8 DEF Reader
<1> HIDE DEF x, r
<1>14. PICK q \in State : q = r
  BY <1>12
<1>15. /\ q.mode = (IF x.n = 0 THEN "last" ELSE "data") /\ q.left = x.n /\ q.at = total
       /\ Way(Content, End, Unread', 0, q, t)
  BY <1>11, <1>12, <1>13, <1>14
<1>16. Reader(q)'
  <2>1. q.at = total' /\ q.at <= Len(Content')
    BY <1>0, <1>13, <1>15, StillSame
  <2>2. CASE x.n = 0
    <3>1. s.at \in Nat /\ s.at = End
      BY <1>11, <2>2, StateAt
    <3>2. served = "done" /\ s.at = Len(Content)
      BY <3>1 DEF End
    <3>3. q.mode = "last" /\ inEnd' /\ nbLeft' = 0 /\ isEof' /\ served' = "done" /\ q.at = Len(Content')
      BY <1>13, <1>15, <2>2, <3>2, StillSame
    <3> QED BY <2>1, <3>3 DEF Reader
  <2>3. CASE x.n # 0
    <3>1. q.mode = "data" /\ nbLeft' = q.left /\ q.left \in Nat
      BY <1>11, <1>13, <1>15, <2>3
    <3>2. q.left > 0 /\ nbLeft' <= q.left /\ nbLeft' # 0 /\ ~(nbLeft' < q.left)
      BY <1>13, <2>3, <3>1
    <3>3. ~isEof' /\ inEnd' = (nbLeft' = 0)
      BY <1>13, <2>3, <3>2
    <3> QED BY <2>1, <3>1, <3>2, <3>3 DEF Reader
  <2> QED BY <2>2, <2>3
<1>17. Chunks(0, Unread, q, t)'
  BY <1>5, <1>15, <1>16, StillSame DEF Chunks
<1>18. Layout'
  <2>1. msg' = Said' /\ msg' # NoMsg /\ served' # "idle" /\ (status' = 0 \/ headerSent')
    BY <1>0, <1>1, StillSame
  <2>2. Rest(0, Unread)'
    BY <1>17 DEF Rest
  <2> QED BY <2>1, <2>2, LayoutKept
<1>19. nbLeft' \in Nat /\ isEof' \in BOOLEAN /\ inEnd' \in BOOLEAN
  BY <1>11, <1>13
<1> QED BY <1>4, <1>10, <1>18, <1>19

(* The layout is that of what is unread, and of what the reader counts.    *)
LEMMA LayoutSame ==
  ASSUME Layout, Still, Unread' = Unread, UNCHANGED <<torn, msg, nbLeft, total, isEof, inEnd>>
  PROVE  Layout'
<1>1. Nothing => Nothing'
  BY StillSame DEF Nothing
<1>2. Stray => Stray'
  BY StillSame DEF Stray
<1>3. ASSUME NEW h \in Nat, Ahead(h, Unread) PROVE Ahead(h, Unread)'
  BY <1>3, StillSame DEF Ahead
<1>4. ASSUME NEW h \in Nat, Rest(h, Unread) PROVE Rest(h, Unread)'
  <2>1. CASE Raw(h, Unread)
    <3>1. Raw(h, Unread)'
      BY <2>1, StillSame DEF Raw
    <3> QED BY <3>1 DEF Rest
  <2>2. CASE \E s, t \in State : Chunks(h, Unread, s, t)
    <3>1. PICK s \in State, t \in State : Chunks(h, Unread, s, t)
      BY <2>2
    <3>2. Reader(s)'
      <4>1. Reader(s)
        BY <3>1 DEF Chunks
      <4> QED BY <4>1, StillSame DEF Reader
    <3>3. Chunks(h, Unread, s, t)'
      BY <3>1, <3>2, StillSame DEF Chunks
    <3> QED BY <3>3 DEF Rest
  <2> QED BY <1>4, <2>1, <2>2 DEF Rest
<1>5. Lay(Unread) => Lay(Unread)'
  <2> SUFFICES ASSUME Lay(Unread) PROVE Lay(Unread)'
    OBVIOUS
  <2>1. PICK h \in Nat : Ahead(h, Unread) /\ Rest(h, Unread)
    BY DEF Lay
  <2>2. Ahead(h, Unread)' /\ Rest(h, Unread)'
    BY <1>3, <1>4, <2>1
  <2> QED BY <2>2 DEF Lay
<1> QED BY <1>1, <1>2, <1>5, StillSame DEF Layout

(* Once the headers are parsed they stay so.                               *)
LEMMA LayoutStays ==
  ASSUME Types, Layout, msg # NoMsg, Still, UNCHANGED msg, Stray' \/ Rest(0, Unread)'
  PROVE  Layout'
<1>1. msg = Said /\ served # "idle" /\ (status = 0 \/ headerSent)
  BY LayoutParsed
<1>2. msg' = Said' /\ msg' # NoMsg /\ served' # "idle" /\ (status' = 0 \/ headerSent')
  BY <1>1, StillSame
<1> QED BY <1>2, LayoutKept

(* A reader that read on is in the next state of the way.                  *)
LEMMA ChunksTaken ==
  ASSUME Still, NEW s \in State, NEW t \in State, Chunks(0, Unread, s, t),
         NEW q \in State, Way(Content, End, Unread', 0, q, t), Reader(q)'
  PROVE  Rest(0, Unread)'
<1>1. Chunks(0, Unread, q, t)'
  BY StillSame DEF Chunks
<1> QED BY <1>1 DEF Rest

(* A chunk ends.                                                           *)
LEMMA LayoutChunkEnd ==
  ASSUME Types, Layout, msg # NoMsg, ChunkEnd, Still, UNCHANGED torn
  PROVE  Layout' /\ buf' \in Seq(Unit) /\ ~Stray
<1>0. /\ inEnd /\ Len(buf) >= 2 /\ buf' = After(2) /\ ~inEnd'
      /\ UNCHANGED <<msg, nbLeft, total, isEof, wire>>
  BY DEF ChunkEnd, wireVars
<1>1. msg = Said /\ msg.chunked = Chunked /\ (Stray \/ Rest(0, Unread))
  BY LayoutParsed, SaidType
<1>2. ~Stray
  BY <1>0 DEF Stray
<1>3. PICK s \in State, t \in State : Chunks(0, Unread, s, t)
  BY <1>0, <1>1, <1>2 DEF Rest, Raw
<1>4. Way(Content, End, Unread, 0, s, t) /\ Reader(s) /\ Chunked /\ (open => t.mode \in {"head", "eof"})
  BY <1>3 DEF Chunks
<1>5. /\ buf' \in Seq(Unit) /\ Unread' \in Seq(Unit) /\ Len(Unread') = Len(Unread) - 2
      /\ \A i \in 1..Len(Unread') : Unread'[i] = Unread[i + 2]
  <2>1. 2 \in 0..Len(buf)
    BY <1>0, BufFirst
  <2> QED BY <1>0, <2>1, BufFirst, UnreadTaken
<1>6. nbLeft = 0 /\ s.mode \in {"data", "end", "last"}
  BY <1>0, <1>4 DEF Reader, Types
<1>7. CASE s.mode \in {"end", "last"}
  <2> DEFINE r == At(IF s.mode = "end" THEN "head" ELSE "eof", 0, s.at)
  <2>1. Way(Content, End, Unread', 0, r, t)
    <3>1. Len(Unread) >= 2 /\ Unread \in Seq(Unit)
      BY <1>0, BufFirst
    <3> DEFINE u == Unread
               v == Unread'
    <3>2. u \in Seq(Unit) /\ v \in Seq(Unit) /\ Len(u) >= 2 /\ Len(v) = Len(u) - 2 /\ \A i \in 1..Len(v) : v[i] = u[i + 2]
      BY <1>5, <3>1
    <3>3. Way(Content, End, u, 0, s, t)
      BY <1>4
    <3> HIDE DEF u, v
    <3>4. Way(Content, End, v, 0, r, t)
      BY <1>7, <3>2, <3>3, WayEnds
    <3> QED BY <3>4 DEF v
  <2>2. r \in State /\ r.mode = (IF s.mode = "end" THEN "head" ELSE "eof") /\ r.at = s.at
    <3> DEFINE mode == IF s.mode = "end" THEN "head" ELSE "eof"
    <3>1. mode \in {"head", "size", "sizeCR", "data", "end", "endCR", "last", "lastCR", "eof"}
      OBVIOUS
    <3> HIDE DEF mode
    <3>2. At(mode, 0, s.at) \in State /\ At(mode, 0, s.at).mode = mode /\ At(mode, 0, s.at).at = s.at
      BY <3>1, StateAt, AtState
    <3> QED BY <3>2 DEF mode
  <2> HIDE DEF r
  <2>3. PICK q \in State : q = r
    BY <2>2
  <2>4. Reader(q)'
    <3>1. q.at = total' /\ q.at <= Len(Content') /\ nbLeft' = 0 /\ ~inEnd'
      BY <1>0, <1>4, <1>6, <2>2, <2>3, StillSame DEF Reader
    <3>2. CASE s.mode = "end"
      <4>1. q.mode = "head" /\ ~isEof'
        BY <1>0, <1>4, <2>2, <2>3, <3>2 DEF Reader
      <4> QED BY <3>1, <4>1 DEF Reader
    <3>3. CASE s.mode = "last"
      <4>1. q.mode = "eof" /\ isEof' /\ served' = "done" /\ q.at = Len(Content')
        BY <1>0, <1>4, <2>2, <2>3, <3>3, StillSame DEF Reader
      <4> QED BY <3>1, <4>1 DEF Reader
    <3> QED BY <1>7, <3>2, <3>3
  <2>5. Rest(0, Unread)'
    BY <1>3, <2>1, <2>3, <2>4, ChunksTaken
  <2> QED BY <1>0, <1>2, <1>5, <2>5, LayoutStays
<1>8. CASE s.mode = "data"
  <2>1. /\ Len(Unread) >= 3 => Unread[3].is # "size"
        /\ t.mode \in {"head", "eof"} => Len(Unread) >= 3
    BY <1>4, <1>8, BufFirst, ContentUnits, ContentNoSize, WayNoSize
  <2>2. torn /\ ~isEof
    BY <1>4, <1>6, <1>8 DEF Reader
  <2>3. open' => Unread' # << >>
    <3> SUFFICES ASSUME open PROVE Unread' # << >>
      BY StillSame
    <3>1. Len(Unread) >= 3 /\ Len(Unread) \in Nat
      BY <1>4, <2>1, BufFirst
    <3>2. Len(Unread') # 0
      BY <1>5, <3>1
    <3> QED BY <3>2
  <2>4. Unread' # << >> => Unread'[1].is # "size"
    <3> SUFFICES ASSUME Unread' # << >> PROVE Unread'[1].is # "size"
      OBVIOUS
    <3> DEFINE n == Len(Unread')
               m == Len(Unread)
    <3>0. n # 0 /\ n = m - 2
      BY <1>5
    <3>1. n \in Nat /\ n # 0 /\ m \in Nat /\ n = m - 2
      BY <1>5, <3>0, BufFirst
    <3> HIDE DEF n, m
    <3>2. 1 \in 1..n /\ m >= 3 /\ 1 + 2 = 3
      BY <3>1
    <3>3. Unread'[1] = Unread[1 + 2]
      BY <1>5, <3>2 DEF n
    <3> QED BY <2>1, <3>2, <3>3 DEF m
  <2>5. Stray'
    BY <1>0, <1>1, <1>4, <1>6, <2>2, <2>3, <2>4 DEF Stray
  <2> QED BY <1>0, <1>2, <1>5, <2>5, LayoutStays
<1> QED BY <1>6, <1>7, <1>8

(* The length is read.                                                     *)
LEMMA LayoutEndOfLength ==
  ASSUME Types, Layout, msg # NoMsg, EndOfLength, Still, UNCHANGED torn
  PROVE  Layout'
<1>0. /\ ~msg.chunked /\ msg.length # -1 /\ msg.length - total <= 0
      /\ isEof' /\ UNCHANGED <<buf, wire, msg, nbLeft, total, inEnd>>
  BY DEF EndOfLength, ByLength, LengthLeft, Remaining, wireVars
<1>1. /\ msg = Said /\ msg.chunked = Chunked /\ msg.length = contentLength /\ (Stray \/ Rest(0, Unread))
  BY LayoutParsed, SaidType
<1>2. Raw(0, Unread)
  BY <1>0, <1>1 DEF Stray, Rest, Chunks
<1>3. Unread' = Unread /\ Unread \in Seq(Unit) /\ Len(Unread) \in Nat
  BY <1>0, BufFirst DEF Unread
<1>4. nbLeft = 0 /\ ~inEnd /\ ~InChunks /\ total >= contentLength
  <2>1. contentLength \in Int /\ total \in Nat
    BY DEF Types
  <2>2. total >= contentLength
    BY <1>0, <1>1, <2>1
  <2> QED BY <1>0, <1>1, <1>2, <2>2 DEF Raw, InChunks
<1>5. InChunks' = InChunks /\ contentLength' = contentLength
  BY StillSame
<1>6. /\ 0 \in Nat /\ 0 <= 0 /\ 0 <= Len(Unread) /\ Len(Unread') = Len(Unread) - 0
      /\ \A i \in 1..Len(Unread') : Unread'[i] = Unread[i + 0]
      /\ total' = total + (0 - 0)
  <2>1. total \in Nat
    BY DEF Types
  <2> QED BY <1>0, <1>3, <2>1
<1>7. Raw(0, Unread)'
  BY <1>0, <1>2, <1>3, <1>4, <1>5, <1>6, RawTaken
<1>8. Rest(0, Unread)'
  BY <1>7 DEF Rest
<1> QED BY <1>0, <1>8, LayoutStays

(* A part of the body is read, from where the reader is.                   *)
LEMMA LayoutReadBody ==
  ASSUME Types, Layout, msg # NoMsg, NEW n \in Int, ReadSome(n), Still, UNCHANGED torn
  PROVE  /\ Layout' /\ buf' \in Seq(Unit) /\ ~Stray
         /\ nbLeft' \in Nat /\ total' \in Nat /\ isEof' \in BOOLEAN /\ inEnd' \in BOOLEAN
         /\ total' = total + Some(n) /\ total' <= Len(Content)
         /\ Some(n) \in 1..Len(buf) /\ Some(n) <= n
         /\ \A i \in 1..Some(n) : buf[i] = Content[total + i]
<1> DEFINE k == Some(n)
<1>0. /\ InBody /\ buf' = After(k) /\ total' = total + k
      /\ nbLeft' = (IF msg.chunked THEN nbLeft - k ELSE nbLeft)
      /\ inEnd' = (msg.chunked /\ nbLeft = k)
      /\ isEof' = (~msg.chunked /\ msg.length # -1 /\ total + k >= msg.length)
      /\ UNCHANGED <<msg, wire>>
  BY DEF ReadSome, wireVars
<1>1. k \in 1..Len(buf) /\ k <= n /\ (msg.chunked => k <= nbLeft)
  BY SomeBounds, LayoutLength
<1>2. /\ msg = Said /\ msg.chunked = Chunked /\ msg.length = contentLength /\ (Stray \/ Rest(0, Unread))
  BY LayoutParsed, SaidType
<1>3. ~Stray
  BY <1>0 DEF InBody, InChunk, ByLength, Reading, AllRead, Stray, Types
<1> HIDE DEF k
<1>4. /\ buf' \in Seq(Unit) /\ Unread' \in Seq(Unit) /\ Len(Unread') = Len(Unread) - k
      /\ \A i \in 1..Len(Unread') : Unread'[i] = Unread[i + k]
  <2>1. k \in 0..Len(buf)
    BY <1>1, BufFirst
  <2> QED BY <1>0, <2>1, BufFirst, UnreadTaken
<1>5. k \in Nat /\ k > 0 /\ k <= Len(Unread) /\ 0 \in Nat /\ total \in Nat /\ nbLeft \in Nat
      /\ \A i \in 1..k : buf[i] = Unread[i]
  BY <1>1, BufFirst DEF Types
<1>6. CASE ~Chunked
  <2>1. Raw(0, Unread)
    BY <1>2, <1>3, <1>6 DEF Rest, Chunks
  <2>2. nbLeft = 0 /\ ~inEnd
    BY <2>1 DEF Raw
  <2>3. nbLeft' = 0 /\ ~inEnd' /\ total' = total + (k - 0) /\ 0 <= k
    <3>1. nbLeft' = 0 /\ ~inEnd'
      BY <1>0, <1>2, <1>6, <2>2
    <3>2. total' = total + (k - 0) /\ 0 <= k
      BY <1>0, <1>5
    <3> QED BY <3>1, <3>2
  <2>4. isEof' => ~InChunks' /\ total' >= contentLength'
    BY <1>0, <1>2, StillSame DEF InChunks
  <2>5. Raw(0, Unread)'
    <3>1. Unread \in Seq(Unit)
      BY BufFirst
    <3>2. isEof' => ~InChunks /\ total' >= contentLength
      BY <2>4, StillSame
    <3> QED BY <1>4, <1>5, <2>1, <2>3, <3>1, <3>2, RawTaken
  <2>6. \A i \in 1..k : buf[i] = Content[total + i]
    <3> SUFFICES ASSUME NEW i \in 1..k PROVE buf[i] = Content[total + i]
      OBVIOUS
    <3>1. i \in Nat /\ 0 < i /\ i <= Len(Unread) /\ total + i - 0 = total + i
      BY <1>5, BufFirst
    <3>2. Unread[i] = Content[total + i - 0]
      BY <2>1, <3>1 DEF Raw
    <3> QED BY <1>5, <3>1, <3>2
  <2>7. total' <= Len(Content)
    BY <2>5, StillSame DEF Raw
  <2>8. Rest(0, Unread)'
    BY <2>5 DEF Rest
  <2>9. isEof' \in BOOLEAN /\ inEnd' \in BOOLEAN /\ nbLeft' \in Nat /\ total' \in Nat
    <3>1. isEof' \in BOOLEAN /\ inEnd' \in BOOLEAN
      BY <1>0
    <3>2. nbLeft' \in Nat /\ total' \in Nat
      BY <1>5, <2>3
    <3> QED BY <3>1, <3>2
  <2>10. Layout'
    BY <1>0, <2>8, LayoutStays
  <2> QED BY <1>0, <1>1, <1>3, <1>4, <2>6, <2>7, <2>9, <2>10 DEF k
<1>7. CASE Chunked
  <2>1. PICK s \in State, t \in State : Chunks(0, Unread, s, t)
    BY <1>2, <1>3, <1>7 DEF Rest, Raw
  <2>2. Way(Content, End, Unread, 0, s, t) /\ Reader(s)
    BY <2>1 DEF Chunks
  <2>3. nbLeft > 0 /\ k <= nbLeft /\ msg.chunked
    BY <1>0, <1>1, <1>2, <1>5, <1>7 DEF InBody, InChunk, ByLength, AllRead
  <2>4. /\ s.mode = "data" /\ s.left > 0 /\ nbLeft <= s.left /\ (nbLeft < s.left => torn)
        /\ s.at = total /\ s.at <= Len(Content)
    BY <2>2, <2>3 DEF Reader
  <2>5. s.left \in Nat /\ s.at \in Nat /\ k <= s.left
    <3>1. s.left \in Nat /\ s.at \in Nat
      BY StateAt
    <3> QED BY <1>5, <2>3, <2>4, <3>1
  <2> DEFINE r == At(IF k = s.left THEN "end" ELSE "data", s.left - k, s.at + k)
  <2>6. /\ s.at + k <= Len(Content) /\ \A i \in 1..k : Unread[i] = Content[s.at + i]
        /\ Way(Content, End, Unread', 0, r, t)
    <3> DEFINE u == Unread
               v == Unread'
               b == Content
    <3>1. /\ u \in Seq(Unit) /\ v \in Seq(Unit) /\ b \in Seq(Unit)
          /\ Len(v) = Len(u) - k /\ (\A i \in 1..Len(v) : v[i] = u[i + k])
          /\ k <= Len(u) /\ s.at <= Len(b)
      BY <1>4, <1>5, <2>4, BufFirst, ContentUnits
    <3>2. Way(b, End, u, 0, s, t)
      BY <2>2
    <3> HIDE DEF u, v, b
    <3>3. /\ s.at + k <= Len(b) /\ \A i \in 1..k : u[i] = b[s.at + i]
          /\ Way(b, End, v, 0, r, t)
      <4>1. k \in Nat /\ s \in State /\ s.mode = "data" /\ s.left > 0 /\ k <= s.left
        BY <1>5, <2>4, <2>5
      <4> HIDE DEF k
      <4> QED BY ONLY <3>1, <3>2, <4>1, WayData
    <3> QED BY <3>3 DEF u, v, b
  <2>7. /\ r \in State /\ r.mode = (IF k = s.left THEN "end" ELSE "data")
        /\ r.left = s.left - k /\ r.at = s.at + k
    <3> DEFINE mode == IF k = s.left THEN "end" ELSE "data"
               left == s.left - k
               at == s.at + k
    <3>1. mode \in {"head", "size", "sizeCR", "data", "end", "endCR", "last", "lastCR", "eof"}
      OBVIOUS
    <3>2. left \in Nat /\ at \in Nat
      BY <1>5, <2>5
    <3> HIDE DEF mode, left, at
    <3>3. /\ At(mode, left, at) \in State /\ At(mode, left, at).mode = mode
          /\ At(mode, left, at).left = left /\ At(mode, left, at).at = at
      BY <3>1, <3>2, AtState
    <3> QED BY <3>3 DEF mode, left, at
  <2> HIDE DEF r
  <2>8. PICK q \in State : q = r
    BY <2>7
  <2>9. Reader(q)'
    <3>1. /\ q.at = total' /\ q.at <= Len(Content') /\ ~isEof'
          /\ inEnd' = (nbLeft = k) /\ nbLeft' = nbLeft - k /\ q.left = s.left - k
      BY <1>0, <2>3, <2>4, <2>6, <2>7, <2>8, StillSame
    <3>2. CASE k = s.left
      <4>1. q.mode = "end" /\ nbLeft = k
        BY <1>5, <2>3, <2>4, <2>5, <2>7, <2>8, <3>2
      <4>2. nbLeft' = 0 /\ inEnd'
        <5>1. inEnd'
          BY <3>1, <4>1
        <5>2. nbLeft' = nbLeft - k
          BY <3>1
        <5>3. nbLeft' = 0
          BY ONLY <1>5, <4>1, <5>2
        <5> QED BY <5>1, <5>3
      <4> QED BY <3>1, <4>1, <4>2 DEF Reader
    <3>3. CASE k # s.left
      <4>1. q.mode = "data"
        BY <2>7, <2>8, <3>3
      <4>2. /\ q.left > 0 /\ nbLeft' <= q.left /\ (inEnd' <=> nbLeft' = 0)
            /\ (nbLeft' < q.left => nbLeft < s.left)
        <5> DEFINE a == q.left
                   z == s.left
        <5>1. /\ nbLeft' = nbLeft - k /\ a = z - k /\ k <= z /\ k # z /\ z \in Nat /\ k <= nbLeft /\ nbLeft <= z
              /\ k \in Nat /\ nbLeft \in Nat
          BY <1>5, <2>3, <2>4, <2>5, <3>1, <3>3
        <5> HIDE DEF a, z
        <5>2. a > 0 /\ nbLeft' <= a /\ (nbLeft = k <=> nbLeft' = 0) /\ (nbLeft' < a => nbLeft < z)
          BY ONLY <5>1
        <5>3. inEnd' <=> nbLeft = k
          BY <3>1
        <5> QED BY <5>2, <5>3 DEF a, z
      <4>3. inEnd' = (nbLeft' = 0) /\ (nbLeft' < q.left => torn')
        BY <2>4, <3>1, <4>2
      <4> QED BY <3>1, <4>1, <4>2, <4>3 DEF Reader
    <3> QED BY <3>2, <3>3
  <2>10. Rest(0, Unread)'
    BY <2>1, <2>6, <2>8, <2>9, ChunksTaken
  <2>11. Layout'
    BY <1>0, <2>10, LayoutStays
  <2>12. isEof' \in BOOLEAN /\ inEnd' \in BOOLEAN /\ nbLeft' \in Nat /\ total' \in Nat
    <3>1. isEof' \in BOOLEAN /\ inEnd' \in BOOLEAN
      BY <1>0
    <3>2. nbLeft' \in Nat /\ total' \in Nat
      BY <1>0, <1>5, <2>3
    <3> QED BY <3>1, <3>2
  <2>13. total' <= Len(Content) /\ \A i \in 1..k : buf[i] = Content[total + i]
    BY <1>0, <1>5, <2>4, <2>6
  <2> QED BY <1>0, <1>1, <1>3, <1>4, <2>11, <2>12, <2>13 DEF k
<1> QED BY <1>6, <1>7

(* After a timeout in a chunk the reader takes it for less than it is.     *)
LEMMA LayoutFailRead ==
  ASSUME Types, Layout, NEW n \in Nat, FailRead(n), Still,
         torn' \in BOOLEAN, torn \/ inEnd \/ InChunk => torn'
  PROVE  /\ Layout' /\ nbLeft' \in Nat /\ Unread' = Unread
         /\ inEnd \/ Stray => Stray'
<1>0. /\ nbLeft' = (IF InChunk THEN nbLeft - Lesser(nbLeft, n) ELSE nbLeft) /\ inEnd' = FALSE
      /\ UNCHANGED <<buf, msg, total, isEof, wire>>
  BY DEF FailRead, wireVars
<1>1. Unread' = Unread /\ nbLeft \in Nat
  BY <1>0 DEF Unread, Types
<1>2. nbLeft' \in Nat /\ nbLeft' <= nbLeft /\ (~InChunk => nbLeft' = nbLeft)
  BY <1>0, <1>1 DEF Lesser
<1>3. InChunk => msg.chunked /\ ~isEof /\ ~inEnd /\ nbLeft # 0
  BY <1>1 DEF InChunk, Reading, AllRead
<1>4. ASSUME Stray PROVE Stray'
  <2>1. msg.chunked /\ torn /\ nbLeft = 0 /\ (isEof \/ ((open => Unread # << >>) /\ (Unread # << >> => Unread[1].is # "size")))
    BY <1>4 DEF Stray
  <2>2. nbLeft' = 0 /\ torn'
    BY <1>2, <1>3, <2>1
  <2> QED BY <1>0, <1>1, <2>1, <2>2, StillSame DEF Stray
<1>5. CASE msg = NoMsg
  <2>1. ~inEnd /\ ~msg.chunked
    BY <1>5, SaidType DEF Layout
  <2>2. nbLeft' = nbLeft /\ inEnd' = inEnd /\ ~Stray
    <3>1. nbLeft' = nbLeft
      BY <1>2, <1>3, <2>1
    <3>2. inEnd' = inEnd /\ ~Stray
      BY <1>0, <2>1 DEF Types, Stray
    <3> QED BY <3>1, <3>2
  <2>3. Nothing => Nothing'
    BY <1>0, <1>1, StillSame DEF Nothing
  <2>4. Lay(Unread) => Lay(Unread)'
    <3> SUFFICES ASSUME Lay(Unread) PROVE Lay(Unread)'
      OBVIOUS
    <3>1. PICK h \in Nat : Ahead(h, Unread) /\ Rest(h, Unread)
      BY DEF Lay
    <3>2. Ahead(h, Unread)'
      BY <1>0, <1>1, <3>1, StillSame DEF Ahead
    <3>3. CASE Raw(h, Unread)
      <4>1. Raw(h, Unread)'
        BY <1>0, <1>1, <2>2, <3>3, StillSame DEF Raw
      <4> QED BY <3>2, <4>1 DEF Lay, Rest
    <3>4. CASE \E s, t \in State : Chunks(h, Unread, s, t)
      <4>1. PICK s \in State, t \in State : Chunks(h, Unread, s, t)
        BY <3>4
      <4>2. Reader(s)'
        <5>1. Reader(s) /\ (torn => torn')
          BY <4>1 DEF Chunks
        <5> QED BY <1>0, <2>2, <5>1, StillSame DEF Reader
      <4>3. Chunks(h, Unread, s, t)'
        BY <1>1, <4>1, <4>2, StillSame DEF Chunks
      <4>4. Rest(h, Unread)'
        BY <4>3 DEF Rest
      <4> QED BY <3>2, <4>4 DEF Lay
    <3> QED BY <3>1, <3>3, <3>4 DEF Rest
  <2>5. Layout'
    BY <1>0, <2>1, <2>2, <2>3, <2>4, StillSame DEF Layout
  <2> QED BY <1>1, <1>2, <1>4, <2>1, <2>5
<1>6. CASE msg # NoMsg
  <2>1. /\ msg = Said /\ msg.chunked = Chunked /\ (Stray \/ Rest(0, Unread))
    BY <1>6, LayoutParsed, SaidType
  <2>2. CASE Stray
    <3>1. Layout' /\ Stray'
      BY <1>0, <1>4, <1>6, <2>2, LayoutStays
    <3> QED BY <1>1, <1>2, <3>1
  <2>3. CASE Raw(0, Unread)
    <3>1. ~InChunk /\ ~inEnd /\ ~Stray
      BY <1>3, <2>1, <2>3 DEF Raw, Stray
    <3>2. Raw(0, Unread)'
      BY <1>0, <1>1, <1>2, <2>3, <3>1, StillSame DEF Raw
    <3>3. Layout'
      BY <1>0, <1>6, <3>2, LayoutStays DEF Rest
    <3> QED BY <1>1, <1>2, <3>1, <3>3
  <2>4. CASE \E s, t \in State : Chunks(0, Unread, s, t)
    <3>1. PICK s \in State, t \in State : Chunks(0, Unread, s, t)
      BY <2>4
    <3>2. /\ Way(Content, End, Unread, 0, s, t) /\ Reader(s) /\ msg.chunked
          /\ (open => t.mode \in {"head", "eof"})
      BY <2>1, <3>1 DEF Chunks
    <3>3. CASE s.mode \in {"data", "end", "last"} /\ nbLeft' = 0
      <4>1. /\ Unread # << >> => Unread[1].is # "size"
            /\ t.mode \in {"head", "eof"} => Unread # << >>
        BY <3>2, <3>3, BufFirst, ContentUnits, ContentNoSize, WayNoSize
      <4>2. torn'
        <5>1. inEnd \/ InChunk
          BY <1>1, <3>2, <3>3 DEF Reader, InChunk, Reading, AllRead
        <5> QED BY <5>1
      <4>3. Stray'
        BY <1>0, <1>1, <3>2, <3>3, <4>1, <4>2, StillSame DEF Stray
      <4>4. Layout'
        BY <1>0, <1>6, <4>3, LayoutStays
      <4> QED BY <1>1, <1>2, <4>3, <4>4
    <3>4. CASE s.mode = "data" /\ nbLeft' # 0
      <4>1. ~inEnd /\ InChunk /\ ~isEof /\ s.left > 0 /\ nbLeft <= s.left /\ s.at = total /\ s.at <= Len(Content)
        <5>1. nbLeft # 0
          <6>1. nbLeft' \in Nat /\ nbLeft' <= nbLeft /\ nbLeft' # 0 /\ nbLeft \in Nat
            BY <1>1, <1>2, <3>4
          <6> QED BY ONLY <6>1
        <5>2. /\ ~inEnd /\ ~isEof /\ s.left > 0 /\ nbLeft <= s.left /\ s.at = total /\ s.at <= Len(Content)
          BY <3>2, <3>4, <5>1 DEF Reader
        <5>3. ~(nbLeft <= 0)
          BY <1>1, <5>1
        <5> QED BY <3>2, <5>2, <5>3 DEF InChunk, Reading, AllRead
      <4>2. nbLeft' <= s.left /\ inEnd' = (nbLeft' = 0) /\ torn' /\ s.at = total' /\ s.at <= Len(Content')
        <5>1. s.left \in Nat
          BY StateAt
        <5>2. nbLeft' <= s.left
          BY <1>1, <1>2, <4>1, <5>1
        <5>3. inEnd' = (nbLeft' = 0)
          BY <1>0, <3>4
        <5>4. torn'
          BY <4>1
        <5>5. s.at = total' /\ s.at <= Len(Content')
          BY <1>0, <4>1, StillSame
        <5> QED BY <5>2, <5>3, <5>4, <5>5
      <4>3. Reader(s)'
        BY <1>0, <3>4, <4>1, <4>2 DEF Reader
      <4>4. Chunks(0, Unread, s, t)'
        BY <1>1, <3>1, <4>3, StillSame DEF Chunks
      <4>5. Layout'
        BY <1>0, <1>6, <4>4, LayoutStays DEF Rest
      <4> QED BY <1>1, <1>2, <1>4, <4>1, <4>5
    <3>5. CASE s.mode \in {"head", "eof"}
      <4>1. nbLeft = 0 /\ ~inEnd
        BY <3>2, <3>5 DEF Reader
      <4>2. nbLeft' = 0 /\ inEnd' = inEnd
        <5>1. nbLeft' = nbLeft
          BY <1>2, <1>3, <4>1
        <5>2. inEnd' = inEnd
          BY <1>0, <4>1 DEF Types
        <5> QED BY <4>1, <5>1, <5>2
      <4>3. Reader(s)'
        BY <1>0, <3>2, <3>5, <4>1, <4>2, StillSame DEF Reader
      <4>4. Chunks(0, Unread, s, t)'
        BY <1>1, <3>1, <4>3, StillSame DEF Chunks
      <4>5. Layout'
        BY <1>0, <1>6, <4>4, LayoutStays DEF Rest
      <4> QED BY <1>1, <1>2, <1>4, <4>1, <4>5
    <3>6. s.mode \in {"data", "end", "last"} /\ s.mode # "data" => nbLeft' = 0
      BY <1>1, <1>2, <3>2 DEF Reader
    <3>7. s.mode \in {"head", "eof", "data", "end", "last"}
      BY <3>2 DEF Reader
    <3> QED BY <3>3, <3>4, <3>5, <3>6, <3>7
  <2> QED BY <2>1, <2>2, <2>3, <2>4 DEF Rest
<1> QED BY <1>5, <1>6

-----------------------------------------------------------------------------
(* The client does nothing.                                                *)
Waits == UNCHANGED <<buf, msg, nbLeft, total, isEof, inEnd, torn>>

(* What has to be parsed yet stays in front of what is sent.               *)
LEMMA AheadSent ==
  ASSUME Types, NEW u \in Seq(Unit), NEW x \in Seq(Unit), NEW h \in Nat, Ahead(h, u), open,
         Unread' = u \o x, Waits, UNCHANGED <<status, contentLength>>
  PROVE  Ahead(h, Unread)' /\ h <= Len(u)
<1> DEFINE v == u \o x
<1>1. /\ v \in Seq(Unit) /\ Len(v) = Len(u) + Len(x) /\ Len(u) \in Nat /\ Len(x) \in Nat
      /\ \A i \in 1..Len(u) : v[i] = u[i]
  BY Concat
<1> HIDE DEF v
<1>2. msg' = msg /\ Said' = Said /\ Unread' = v
  BY DEF Waits, Said, Code, Chunked, InChunks, v
<1>3. CASE h = 0
  <2>1. msg' = Said'
    BY <1>2, <1>3 DEF Ahead
  <2>2. Ahead(h, Unread)'
    BY <1>3, <2>1 DEF Ahead
  <2> QED BY <1>1, <1>3, <2>2
<1>4. CASE h # 0
  <2>1. h >= 5 /\ msg = NoMsg /\ h <= Len(u) /\ Opening(u, h, Said)
    BY <1>4 DEF Ahead
  <2>2. h <= Len(v) /\ \A i \in 1..Len(u) : i <= Len(v) => v[i] = u[i]
    BY <1>1, <2>1
  <2> DEFINE m == Said
  <2>3. Opening(v, h, m)
    <3>1. Opening(u, h, m)
      BY <2>1
    <3> HIDE DEF m
    <3> QED BY <1>1, <2>1, <2>2, <3>1, OpeningKept
  <2>4. Len(Unread') >= h /\ Opening(Unread', h, Said')
    BY <1>1, <1>2, <2>2, <2>3
  <2>5. Ahead(h, Unread)'
    BY <1>2, <2>1, <2>4 DEF Ahead
  <2> QED BY <2>1, <2>5
<1> QED BY <1>3, <1>4

(* Without chunks more of the body comes, or no more.                      *)
LEMMA LayRaw ==
  ASSUME Types, NEW u \in Seq(Unit), NEW x \in Seq(Unit), Lay(u), ~Chunked,
         open, served \in {"serving", "plain"}, Unread' = u \o x,
         Done + Len(x) <= Len(Content), ~InChunks => Done + Len(x) <= contentLength,
         \A i \in 1..Len(x) : x[i] = Content[Done + i],
         served' \in {"serving", "plain"} => Done' = Done + Len(x),
         Content' = Content, Waits, UNCHANGED <<status, contentLength>>
  PROVE  Lay(Unread)'
<1>1. PICK h \in Nat : Ahead(h, u) /\ Rest(h, u)
  BY DEF Lay
<1>2. Ahead(h, Unread)' /\ h <= Len(u)
  BY <1>1, AheadSent
<1>3. Raw(h, u)
  BY <1>1 DEF Rest, Chunks
<1> DEFINE v == u \o x
           m == Len(u)
           n == Len(x)
           o == total + m - h
           w == o + n
<1>4. /\ v \in Seq(Unit) /\ Len(v) = m + n /\ m \in Nat /\ n \in Nat
      /\ \A i \in 1..m : v[i] = u[i]
      /\ \A i \in 1..n : v[m + i] = x[i]
  BY Concat
<1>5. total \in Nat /\ Done \in Int /\ contentLength \in Int
  BY ContentUnits DEF Types
<1>6. o = Done
  BY <1>3 DEF Raw
<1>7. total + Len(v) - h = w /\ w = Done + n /\ w \in Int
  <2>1. Len(v) = m + n /\ m \in Nat /\ n \in Nat /\ h \in Nat /\ total \in Nat
    BY <1>4, <1>5
  <2> HIDE DEF v, m, n
  <2>2. total + Len(v) - h = w /\ w \in Int
    BY <2>1
  <2> QED BY <1>6, <2>2
<1>8. ASSUME NEW i \in Nat, h < i, i <= m + n PROVE v[i] = Content[total + i - h]
  <2>1. CASE i <= m
    <3>1. i \in 1..m
      BY <1>4, <1>8, <2>1
    <3>2. u[i] = Content[total + i - h]
      BY <1>3, <1>8, <2>1 DEF Raw
    <3> QED BY <1>4, <3>1, <3>2
  <2>2. CASE ~(i <= m)
    <3> DEFINE j == i - m
    <3>1. j \in 1..n /\ m + j = i
      BY <1>4, <1>8, <2>2
    <3>2. Done + j = total + i - h
      <4>1. o + j = total + i - h
        BY <1>4, <1>5, <3>1
      <4> QED BY <1>6, <4>1
    <3> HIDE DEF j
    <3>3. v[m + j] = x[j] /\ x[j] = Content[Done + j]
      BY <1>4, <3>1
    <3> QED BY <3>1, <3>2, <3>3
  <2> QED BY <2>1, <2>2
<1>9. /\ nbLeft' = nbLeft /\ inEnd' = inEnd /\ isEof' = isEof /\ total' = total /\ ~Chunked'
      /\ contentLength' = contentLength /\ InChunks' = InChunks /\ Unread' = v
  BY DEF Waits, Chunked, InChunks
<1>10. Raw(h, Unread)'
  <2>1. \A i \in Nat : h < i /\ i <= Len(v) => v[i] = Content[total + i - h]
    BY <1>4, <1>8
  <2>2. w <= Len(Content) /\ total <= Len(Content)
    BY <1>3, <1>7 DEF Raw
  <2>3. ~InChunks => w <= contentLength /\ total <= contentLength
    BY <1>3, <1>7 DEF Raw
  <2>4. open' /\ served' \in {"serving", "plain"} => w = Done'
    BY <1>7
  <2>5. nbLeft = 0 /\ ~inEnd /\ (isEof => ~InChunks /\ total >= contentLength)
    BY <1>3 DEF Raw
  <2>6. total' + Len(Unread') - h = w
    BY <1>7, <1>9
  <2> HIDE DEF v, w
  <2> QED BY <1>9, <2>1, <2>2, <2>3, <2>4, <2>5, <2>6 DEF Raw
<1> QED BY <1>2, <1>10 DEF Lay, Rest

(* With chunks one more comes, or the last.                                *)
LEMMA LayChunk ==
  ASSUME Types, NEW u \in Seq(Unit), NEW x \in Seq(Unit), Lay(u), Chunked, open, served = "serving",
         Unread' = u \o x, UNCHANGED <<open, status, contentLength>>, Content' = Content, Waits,
         NEW n \in Nat, NEW mode \in {"head", "eof"},
         mode = "head" => served' = "serving" /\ Done' = Done + n,
         mode = "eof" => served' = "done",
         \A q \in State : q.mode = "head" /\ q.at = Done
             => Way(Content, End', x, 0, q, At(mode, 0, q.at + n))
  PROVE  Lay(Unread)'
<1>1. PICK h \in Nat : Ahead(h, u) /\ Rest(h, u)
  BY DEF Lay
<1>2. Ahead(h, Unread)' /\ h <= Len(u)
  BY <1>1, AheadSent
<1>3. PICK s \in State, t \in State : Chunks(h, u, s, t)
  BY <1>1 DEF Rest, Raw
<1>4. /\ Way(Content, End, u, h, s, t) /\ Reader(s) /\ t.mode = "head" /\ t.at = Done /\ End = -1
  BY <1>3 DEF Chunks, End
<1>5. Chunked' /\ Reader(s)'
  <2>1. s.mode \notin {"last", "eof"}
    BY <1>4 DEF Reader
  <2> QED BY <1>4, <2>1 DEF Waits, Chunked, InChunks, Reader
<1> DEFINE q == At(mode, 0, t.at + n)
<1>6. q \in State /\ q.mode = mode /\ q.at = Done + n
  <2> DEFINE at == t.at + n
  <2>1. at \in Nat /\ 0 \in Nat
    BY StateAt
  <2>2. mode \in {"head", "size", "sizeCR", "data", "end", "endCR", "last", "lastCR", "eof"}
    OBVIOUS
  <2> HIDE DEF at
  <2>3. At(mode, 0, at) \in State /\ At(mode, 0, at).mode = mode /\ At(mode, 0, at).at = at
    BY ONLY <2>1, <2>2, AtState
  <2> QED BY <1>4, <2>3 DEF at
<1>7. Way(Content, End', x, 0, t, q)
  BY <1>4
<1> HIDE DEF q
<1>8. PICK r \in State : r = q
  BY <1>6
<1> DEFINE b == Content
           f == End'
           e == End
<1>9. e \in Int /\ f \in Int /\ e = -1 /\ Way(b, e, u, h, s, t) /\ Way(b, f, x, 0, t, r)
  BY <1>4, <1>7, <1>8, ContentUnits DEF End
<1>10. Way(b, f, u \o x, h, s, r)
  <2> HIDE DEF b, e, f
  <2>1. Len(u) <= Len(u) /\ \A i \in 1..Len(u) : u[i] = u[i]
    OBVIOUS
  <2>2. \E p \in State : Way(b, f, u, h, s, p) /\ (Len(u) = Len(u) => p = t)
    BY <1>9, <2>1, WayLess
  <2>3. Way(b, f, u, h, s, t)
    BY <2>2
  <2> QED BY <1>2, <1>9, <2>3, WayJoin
<1>11. Chunks(h, Unread, s, r)'
  <2>1. r.mode = mode /\ r.at = Done + n
    BY <1>6, <1>8
  <2>2. Way(Content', End', Unread', h, s, r)
    BY <1>10
  <2>3. r.mode = IF served' = "done" THEN "eof" ELSE "head"
    BY <2>1
  <2>4. served' = "serving" => r.at = Done'
    BY <2>1
  <2> QED BY <1>5, <2>2, <2>3, <2>4 DEF Chunks
<1> QED BY <1>2, <1>11 DEF Lay, Rest

(* What is sent is read after what there is.                               *)
LEMMA UnreadMore ==
  ASSUME Types, NEW x \in Seq(Unit), UNCHANGED buf, wire' = wire \o x
  PROVE  Unread' = Unread \o x /\ wire' \in Seq(Unit)
<1>1. wire' \in Seq(Unit)
  BY Concat DEF Types
<1>2. (buf \o wire) \o x = buf \o (wire \o x)
  BY DEF Types
<1> QED BY <1>1, <1>2 DEF Unread

(* A reader that has lost its place has no use for more.                   *)
LEMMA StraySent ==
  ASSUME Types, Stray, open, NEW x \in Seq(Unit), Unread' = Unread \o x, Waits
  PROVE  Stray'
<1>1. Unread \in Seq(Unit) /\ Len(Unread) \in Nat
  BY BufFirst
<1>2. CASE isEof
  BY <1>2 DEF Stray, Waits
<1>3. CASE ~isEof
  <2>1. Unread # << >> /\ Unread[1].is # "size"
    BY <1>3 DEF Stray
  <2> DEFINE u == Unread
             v == u \o x
  <2>2. u \in Seq(Unit) /\ u # << >> /\ Unread' = v /\ u = Unread
    BY <1>1, <2>1
  <2> HIDE DEF u
  <2>3. /\ v \in Seq(Unit) /\ Len(v) = Len(u) + Len(x) /\ Len(u) \in Nat /\ Len(x) \in Nat
        /\ \A i \in 1..Len(u) : v[i] = u[i]
    BY <2>2, Concat
  <2>4. Len(u) # 0 /\ 1 \in 1..Len(u)
    <3>1. Len(u) # 0
      BY <2>2
    <3> QED BY <2>3, <3>1
  <2> HIDE DEF v
  <2>5. v # << >> /\ v[1] = u[1]
    <3>1. Len(v) # 0
      BY <2>3, <2>4
    <3> QED BY <2>3, <2>4, <3>1
  <2> QED BY <2>1, <2>2, <2>5 DEF Stray, Waits
<1> QED BY <1>2, <1>3

(* The headers are in front of what the server writes first.               *)
LEMMA Headed ==
  ASSUME Types, Writing, Layout, open, served = "serving"
  PROVE  /\ Heading \in Seq(Unit) /\ Unread \o Heading \in Seq(Unit)
         /\ Stray \/ Lay(Unread \o Heading)
<1>1. Unread \in Seq(Unit) /\ << >> \in Seq(Unit) /\ Unread \o << >> = Unread
  BY BufFirst
<1>2. CASE headerSent
  <2>1. Heading = << >> /\ ~Nothing
    BY <1>2 DEF Heading, Nothing
  <2> QED BY <1>1, <2>1 DEF Layout
<1>3. CASE ~headerSent
  <2>1. status # 0 /\ written = 0 /\ written = Done /\ Nothing /\ (~InChunks => written <= contentLength)
    BY <1>3 DEF Writing, Layout
  <2>2. Unread = << >> /\ msg = NoMsg /\ total = 0 /\ nbLeft = 0 /\ ~isEof /\ ~inEnd
    BY <2>1 DEF Nothing, Layout
  <2> DEFINE u == Heading
             m == Said
  <2>3. /\ status \in Nat /\ InChunks \in BOOLEAN /\ contentLength \in Int /\ Done \in Int
        /\ Code = status /\ Chunked = InChunks
    BY <2>1, ContentUnits DEF Types, OK, InChunks, Code, Chunked
  <2>4. u \in Seq(Unit) /\ Len(u) = 5 /\ Opening(u, 5, m)
    <3>1. u = Headers(status, InChunks, contentLength)
      BY <1>3 DEF Heading
    <3>2. m = [code |-> status, chunked |-> InChunks, length |-> contentLength]
      BY <2>3 DEF Said
    <3> HIDE DEF u, m
    <3> QED BY <2>3, <3>1, <3>2, HeadersOpen
  <2>5. Unread \o u = u
    <3> HIDE DEF u
    <3> QED BY <2>2, <2>4
  <2>6. Ahead(5, u)
    <3>1. 5 >= 5 /\ (open => Len(u) >= 5)
      BY <2>4
    <3> QED BY <2>2, <2>4, <3>1 DEF Ahead
  <2>7. Len(Content) \in Nat
    BY ContentUnits
  <2> HIDE DEF u, m
  <2>8. CASE ~InChunks
    <3>1. \A i \in Nat : ~(5 < i /\ i <= Len(u))
      BY <2>4
    <3>2. total + Len(u) - 5 = 0 /\ total = 0 /\ Done = 0
      BY <2>1, <2>2, <2>4
    <3>3. 0 <= Len(Content) /\ 0 <= contentLength
      BY <2>1, <2>7, <2>8
    <3>4. Raw(5, u)
      BY <2>2, <2>3, <2>8, <3>1, <3>2, <3>3 DEF Raw
    <3>5. Lay(u)
      BY <2>6, <3>4 DEF Lay, Rest
    <3> QED BY <2>4, <2>5, <3>5 DEF u
  <2>9. CASE InChunks
    <3> DEFINE q == At("head", 0, 0)
    <3>1. q \in State /\ q.mode = "head" /\ q.at = 0
      BY AtState
    <3> HIDE DEF q
    <3>2. PICK s \in State : s = q
      BY <3>1
    <3>3. Way(Content, End, u, 5, s, s)
      <4> DEFINE c == [i \in Nat |-> s]
      <4>1. c \in [Nat -> State] /\ c[5] = s /\ c[Len(u)] = s
        BY <2>4
      <4>2. Path(Content, End, u, 5, c)
        <5>1. \A i \in Nat : ~(5 <= i /\ i < Len(u))
          BY <2>4
        <5> HIDE DEF c
        <5> QED BY <4>1, <5>1 DEF Path
      <4> HIDE DEF c
      <4> QED BY <4>1, <4>2 DEF Way
    <3>4. Reader(s)
      BY <2>2, <2>7, <3>1, <3>2 DEF Reader
    <3>5. Chunks(5, u, s, s)
      BY <2>1, <2>3, <2>9, <3>1, <3>2, <3>3, <3>4 DEF Chunks
    <3>6. Lay(u)
      BY <2>6, <3>5 DEF Lay, Rest
    <3> QED BY <2>4, <2>5, <3>6 DEF u
  <2> QED BY <2>8, <2>9
<1> QED BY <1>2, <1>3

(* The layout when the server has sent more.                               *)
LEMMA LayoutSent ==
  ASSUME Types, Layout, Waits, served # "idle", served' # "idle", UNCHANGED <<status, contentLength>>,
         status = 0 \/ headerSent', Stray' \/ Lay(Unread)'
  PROVE  Layout'
<1>1. /\ msg \in {NoMsg, Said}
      /\ msg = NoMsg => total = 0 /\ nbLeft = 0 /\ ~isEof /\ ~inEnd
  BY DEF Layout
<1>2. Said' = Said /\ UNCHANGED <<msg, nbLeft, total, isEof, inEnd>>
  BY DEF Waits, Said, Code, Chunked, InChunks
<1> QED BY <1>1, <1>2 DEF Layout

(* What the server has to write after it wrote a piece.                    *)
LEMMA WritingSent ==
  ASSUME Types, Writing, NEW n \in Nat \ {0}, n <= Len(pending), Sent(n), served = "serving",
         UNCHANGED <<status, sent, contentLength, phase>>, headerSent', written' = written + n,
         served' \in {"serving", "failed"},
         served' = "serving" /\ ~InChunks => written + n <= contentLength
  PROVE  Writing'
<1>1. /\ Len(pending') = Len(pending) - n /\ Len(pending) \in Nat
      /\ Content' = Content /\ Done' = Done + n /\ Done \in Nat /\ Done + n <= Len(Content)
      /\ Len(pending') <= Len(Content)
      /\ \A i \in 1..Len(pending') : pending'[i] = Content[Done' + i]
  BY PendingNext
<1>2. InChunks' = InChunks /\ phase' # "idle" /\ status # 0 /\ status' = status
  BY DEF Writing, InChunks
<1>3. written' = Done' /\ (served' = "serving" /\ ~InChunks' => written' <= contentLength')
  BY <1>1, <1>2 DEF Writing
<1>4. status' \in {302, 404} => ~InChunks'
  BY <1>2 DEF Writing
<1> QED BY <1>1, <1>2, <1>3, <1>4 DEF Writing

(* The types are kept by what the server does.                             *)
LEMMA TypesSent ==
  ASSUME Types, ClientIdle, wire' \in Seq(Unit), pending' \in Seq(Unit), sent' \in Seq(Tags),
         open' \in BOOLEAN, headerSent' \in BOOLEAN,
         status' \in {0, OK, 302, 404}, contentLength' \in Nat \cup {-1}, written' \in Nat,
         served' \in {"idle", "serving", "plain", "done", "failed"}
  PROVE  Types'
BY DEF Types, ClientIdle, readerVars, clientVars

(* A chunk with the next piece is sent.                                    *)
LEMMA FramedSent ==
  ASSUME Types, Writing, NEW n \in Nat \ {0}, n <= Len(pending), Sent(n), InChunks, Waits,
         open, served = "serving", served' = "serving", UNCHANGED <<open, status, contentLength, sent>>
  PROVE  /\ Framed(Piece(n)) \in Seq(Unit)
         /\ \A u \in Seq(Unit) : Lay(u) /\ Unread' = u \o Framed(Piece(n)) => Lay(Unread)'
<1> DEFINE data == Piece(n)
           x == Framed(data)
<1>1. /\ Content' = Content /\ Done' = Done + n /\ Done \in Nat /\ Chunked
      /\ Done + n <= Len(Content) /\ data \in Seq(Unit) /\ Len(data) = n
      /\ \A i \in 1..n : data[i] = Content[Done + i]
  BY PendingNext DEF Writing, Chunked
<1> HIDE DEF data
<1>2. data # << >>
  BY <1>1
<1>3. ASSUME NEW q \in State, q.mode = "head", q.at = Done
      PROVE  x \in Seq(Unit) /\ Way(Content, End', x, 0, q, At("head", 0, q.at + n))
  <2> DEFINE b == Content
             e == End'
  <2>1. b \in Seq(Unit) /\ e \in Int
    BY <1>1, ContentUnits DEF End
  <2>2. q.at + Len(data) <= Len(b) /\ \A i \in 1..Len(data) : data[i] = b[q.at + i]
    BY <1>1, <1>3
  <2> HIDE DEF b, e
  <2>3. x \in Seq(Unit) /\ Way(b, e, x, 0, q, At("head", 0, q.at + Len(data)))
    BY <1>2, <1>1, <1>3, <2>1, <2>2, WayFramed
  <2> QED BY <1>1, <2>3 DEF b, e
<1>4. x \in Seq(Unit)
  <2> DEFINE at == Done
  <2>1. at \in Nat /\ 0 \in Nat
    BY <1>1
  <2> HIDE DEF at
  <2>2. At("head", 0, at) \in State /\ At("head", 0, at).mode = "head" /\ At("head", 0, at).at = at
    BY ONLY <2>1, AtState
  <2> HIDE DEF x
  <2> QED BY <1>3, <2>2 DEF at
<1> HIDE DEF x
<1>5. ASSUME NEW u \in Seq(Unit), Lay(u), Unread' = u \o x PROVE Lay(Unread)'
  BY <1>1, <1>3, <1>4, <1>5, LayChunk
<1> QED BY <1>4, <1>5 DEF x, data

(* A piece of the body is written.                                         *)
LEMMA WriteBodyKeeps ==
  ASSUME Types, Writing, Layout, NEW n \in Nat \ {0}, WriteBody(n)
  PROVE  Types' /\ Writing' /\ Layout' /\ (Stray => Stray')
<1> DEFINE data == Piece(n)
           x == CASE InChunks -> Chunk(data) [] Exceeds(Len(data)) -> << >> [] OTHER -> data
<1>0. /\ open /\ served = "serving" /\ n <= Len(pending) /\ status # 0 /\ Sent(n)
      /\ wire' = wire \o Heading \o x /\ headerSent' = TRUE /\ written' = written + Len(data)
      /\ served' = (IF Exceeds(n) THEN "failed" ELSE served)
      /\ ClientIdle /\ UNCHANGED <<open, status, contentLength, sent>>
  BY DEF WriteBody, Sending, Write
<1>1. Waits /\ UNCHANGED <<buf, phase>>
  BY <1>0 DEF ClientIdle, readerVars, clientVars, Waits
<1>2. /\ pending' \in Seq(Unit) /\ Content' = Content /\ Done' = Done + n /\ Done \in Nat
      /\ Done + n <= Len(Content) /\ data \in Seq(Unit) /\ Len(data) = n
      /\ \A i \in 1..n : data[i] = Content[Done + i]
  BY <1>0, PendingNext
<1>3. Heading \in Seq(Unit) /\ Unread \o Heading \in Seq(Unit) /\ (Stray \/ Lay(Unread \o Heading))
  BY <1>0, Headed
<1>4. written = Done /\ Chunked = InChunks
  BY <1>0 DEF Writing, Chunked, InChunks
<1>5. served' \in {"serving", "failed"} /\ (served' = "serving" /\ ~InChunks => written + n <= contentLength)
  <2>1. written \in Nat /\ contentLength \in Int
    BY DEF Types
  <2> QED BY <1>0, <2>1 DEF Exceeds, Exceeded
<1> HIDE DEF data
<1>6. ASSUME x \in Seq(Unit), Lay(Unread \o Heading) /\ Unread' = (Unread \o Heading) \o x => Lay(Unread)'
      PROVE  Types' /\ Writing' /\ Layout' /\ (Stray => Stray')
  <2> DEFINE y == Heading \o x
  <2>1. y \in Seq(Unit) /\ wire' = wire \o y
    <3> HIDE DEF x
    <3>1. wire \in Seq(Unit) /\ x \in Seq(Unit)
      BY <1>6 DEF Types
    <3>2. (wire \o Heading) \o x = wire \o (Heading \o x)
      BY ONLY <1>3, <3>1
    <3>3. Heading \o x \in Seq(Unit)
      BY ONLY <1>3, <3>1
    <3> QED BY <1>0, <3>2, <3>3
  <2> HIDE DEF x, y
  <2>2. Unread' = Unread \o y /\ wire' \in Seq(Unit)
    BY <1>1, <2>1, UnreadMore
  <2>3. Unread \o y = (Unread \o Heading) \o x
    <3>1. Unread \in Seq(Unit)
      BY BufFirst
    <3> QED BY <1>3, <1>6, <3>1, ConcatAssociative DEF y
  <2>4. Stray => Stray'
    BY <1>0, <1>1, <2>1, <2>2, StraySent
  <2>5. Layout'
    <3>1. Stray' \/ Lay(Unread)'
      BY <1>3, <1>6, <2>2, <2>3, <2>4
    <3> QED BY <1>0, <1>1, <1>5, <3>1, LayoutSent
  <2>6. Writing'
    BY <1>0, <1>1, <1>2, <1>5, WritingSent
  <2>7. Types'
    <3>1. /\ sent' \in Seq(Tags) /\ open' \in BOOLEAN /\ headerSent' \in BOOLEAN /\ written' \in Nat
          /\ status' \in {0, OK, 302, 404} /\ contentLength' \in Nat \cup {-1}
      BY <1>0, <1>2 DEF Types
    <3> QED BY <1>0, <1>2, <1>5, <2>2, <3>1, TypesSent
  <2> QED BY <2>4, <2>5, <2>6, <2>7
<1> DEFINE u == Unread \o Heading
<1>7. CASE InChunks
  <2>1. x = Framed(data) /\ served' = "serving"
    BY <1>0, <1>7 DEF Chunk, Exceeds, Exceeded
  <2>2. /\ Framed(data) \in Seq(Unit)
        /\ \A w \in Seq(Unit) : Lay(w) /\ Unread' = w \o Framed(data) => Lay(Unread)'
    BY <1>0, <1>1, <1>7, <2>1, FramedSent DEF data
  <2>3. ASSUME Lay(u), Unread' = u \o x PROVE Lay(Unread)'
    <3>1. u \in Seq(Unit)
      BY <1>3
    <3> HIDE DEF x, u
    <3> QED BY <2>1, <2>2, <2>3, <3>1
  <2> QED BY <1>6, <2>1, <2>2, <2>3
<1>8. CASE ~InChunks
  <2>1. x \in Seq(Unit) /\ \A i \in 1..Len(x) : x[i] = Content[Done + i]
    BY <1>2, <1>8
  <2>2. Done + Len(x) <= contentLength /\ Done + Len(x) <= Len(Content)
        /\ (served' = "serving" => Done' = Done + Len(x))
    <3>1. CASE Exceeds(n)
      <4>1. Len(x) = 0 /\ served' = "failed"
        BY <1>0, <1>2, <1>8, <3>1
      <4>2. Done <= contentLength /\ Done <= Len(Content)
        <5>1. Done <= contentLength
          BY <1>0, <1>4, <1>8 DEF Writing
        <5>2. Len(Content) \in Nat
          BY ContentUnits
        <5> QED BY <1>2, <5>1, <5>2
      <4> HIDE DEF x
      <4> QED BY <1>2, <4>1, <4>2
    <3>2. CASE ~Exceeds(n)
      <4>1. x = data /\ served' = "serving" /\ Done + n <= contentLength
        BY <1>0, <1>2, <1>4, <1>5, <1>8, <3>2
      <4> QED BY <1>2, <4>1
    <3> QED BY <3>1, <3>2
  <2>3. ASSUME Lay(u), Unread' = u \o x PROVE Lay(Unread)'
    <3>1. u \in Seq(Unit) /\ ~Chunked /\ served \in {"serving", "plain"} /\ (served' \in {"serving", "plain"} => served' = "serving")
      BY <1>0, <1>3, <1>4, <1>5, <1>8
    <3> HIDE DEF x, u
    <3> QED BY <1>0, <1>1, <1>2, <2>1, <2>2, <2>3, <3>1, LayRaw
  <2> QED BY <1>6, <2>1, <2>3
<1> QED BY <1>7, <1>8

(* Pieces are written as one.                                              *)
LEMMA WritevBodyKeeps ==
  ASSUME Types, Writing, Layout, headerSent, NEW n \in Nat \ {0}, WritevBody(n)
  PROVE  Types' /\ Writing' /\ Layout' /\ (Stray => Stray')
<1> DEFINE data == Piece(1) \o SubSeq(pending, 2, n)
<1>0. /\ open /\ served = "serving" /\ headerSent /\ n <= Len(pending) /\ 1 < n /\ status # 0 /\ InChunks /\ Sent(n)
      /\ wire' = wire \o Framed(data) /\ written' = written + Len(data)
      /\ ClientIdle /\ UNCHANGED <<open, headerSent, status, contentLength, served, sent>>
  BY DEF WritevBody, Sending, Writev, Chunk
<1>1. Waits /\ UNCHANGED <<buf, phase>>
  BY <1>0 DEF ClientIdle, readerVars, clientVars, Waits
<1>2. data = Piece(n)
  <2>1. pending \in Seq(Unit) /\ Len(pending) \in Nat
    BY DEF Types
  <2> QED BY <1>0, <2>1 DEF Piece
<1> HIDE DEF data
<1>3. pending' \in Seq(Unit) /\ Len(data) = n
  BY <1>0, <1>2, PendingNext
<1>4. /\ Framed(data) \in Seq(Unit)
      /\ \A u \in Seq(Unit) : Lay(u) /\ Unread' = u \o Framed(data) => Lay(Unread)'
  BY <1>0, <1>1, <1>2, FramedSent
<1>5. Unread' = Unread \o Framed(data) /\ wire' \in Seq(Unit)
  BY <1>0, <1>1, <1>4, UnreadMore
<1>6. Stray \/ Lay(Unread)
  BY <1>0 DEF Layout, Nothing
<1>7. Stray => Stray'
  BY <1>0, <1>1, <1>4, <1>5, StraySent
<1>8. Layout'
  <2>1. Unread \in Seq(Unit)
    BY BufFirst
  <2>2. Stray' \/ Lay(Unread)'
    BY <1>4, <1>5, <1>6, <1>7, <2>1
  <2> QED BY <1>0, <1>1, <2>2, LayoutSent
<1>9. Writing'
  BY <1>0, <1>1, <1>3, WritingSent
<1>10. Types'
  <2>1. /\ sent' \in Seq(Tags) /\ open' \in BOOLEAN /\ headerSent' \in BOOLEAN /\ written' \in Nat
        /\ status' \in {0, OK, 302, 404} /\ contentLength' \in Nat \cup {-1}
        /\ served' \in {"idle", "serving", "plain", "done", "failed"}
    BY <1>0, <1>3 DEF Types
  <2> QED BY <1>0, <1>3, <1>5, <2>1, TypesSent
<1> QED BY <1>7, <1>8, <1>9, <1>10

(* The server is through with a body.                                      *)
LEMMA FinishKeeps ==
  ASSUME Types, Writing, Layout, Finish
  PROVE  Types' /\ Writing' /\ Layout' /\ (Stray => Stray')
<1> DEFINE x == IF InChunks THEN EndOfChunks ELSE Heading
<1>0. /\ open /\ served = "serving" /\ pending = << >> /\ status # 0
      /\ wire' = wire \o x /\ headerSent' = (headerSent \/ ~InChunks) /\ served' = "done"
      /\ ClientIdle /\ UNCHANGED <<open, status, contentLength, written, pending, sent>>
  BY DEF Finish, FinalRequest
<1>1. Waits /\ UNCHANGED <<buf, phase>>
  BY <1>0 DEF ClientIdle, readerVars, clientVars, Waits
<1>2. headerSent /\ headerSent'
  BY <1>0 DEF Writing
<1>3. Stray \/ Lay(Unread)
  BY <1>0, <1>2 DEF Layout, Nothing
<1>4. /\ Content' = Content /\ Done' = Done /\ Done = Len(Content) /\ Done \in Nat /\ Chunked = InChunks /\ InChunks' = InChunks
  <2>1. Len(pending) = 0 /\ Len(Content) \in Nat
    BY <1>0, ContentUnits
  <2> QED BY <1>0, <2>1 DEF Content, Done, Chunked, InChunks
<1>5. Unread \in Seq(Unit)
  BY BufFirst
<1>6. x \in Seq(Unit) /\ (Lay(Unread) /\ Unread' = Unread \o x => Lay(Unread)')
  <2>1. CASE InChunks
    <3>1. x = EndOfChunks /\ Chunked
      BY <1>4, <2>1
    <3>2. End' = Done
      BY <1>0, <1>4 DEF End
    <3>3. ASSUME NEW q \in State, q.mode = "head", q.at = Done
          PROVE  x \in Seq(Unit) /\ Way(Content, End', x, 0, q, At("eof", 0, q.at + 0))
      <4> DEFINE b == Content
                 e == End'
      <4>1. e \in Int /\ q.at = e /\ q.at + 0 = q.at
        BY <1>4, <3>2, <3>3
      <4> HIDE DEF b, e
      <4>2. EndOfChunks \in Seq(Unit) /\ Way(b, e, EndOfChunks, 0, q, At("eof", 0, q.at))
        BY <3>3, <4>1, WayEnd
      <4> HIDE DEF x
      <4> QED BY <3>1, <4>1, <4>2 DEF b, e
    <3>4. x \in Seq(Unit)
      <4> DEFINE at == Done
      <4>1. at \in Nat /\ 0 \in Nat
        BY <1>4
      <4> HIDE DEF at
      <4>2. At("head", 0, at) \in State /\ At("head", 0, at).mode = "head" /\ At("head", 0, at).at = at
        BY ONLY <4>1, AtState
      <4> HIDE DEF x
      <4> QED BY <3>3, <4>2 DEF at
    <3> HIDE DEF x
    <3>5. ASSUME Lay(Unread), Unread' = Unread \o x PROVE Lay(Unread)'
      <4>1. 0 \in Nat /\ "eof" \in {"head", "eof"} /\ "eof" # "head"
        OBVIOUS
      <4>2. \A q \in State : q.mode = "head" /\ q.at = Done => Way(Content, End', x, 0, q, At("eof", 0, q.at + 0))
        BY <3>3
      <4> QED BY <1>0, <1>1, <1>4, <1>5, <3>1, <3>4, <3>5, <4>1, <4>2, LayChunk
    <3> QED BY <3>4, <3>5
  <2>2. CASE ~InChunks
    <3>1. x = << >>
      BY <1>2, <2>2 DEF Heading
    <3> HIDE DEF x
    <3>2. x \in Seq(Unit) /\ Len(x) = 0
      BY <3>1
    <3>3. ASSUME Lay(Unread), Unread' = Unread \o x PROVE Lay(Unread)'
      <4>1. /\ Done + Len(x) <= Len(Content) /\ (~InChunks => Done + Len(x) <= contentLength)
            /\ \A i \in 1..Len(x) : x[i] = Content[Done + i]
        <5>1. Done <= contentLength
          BY <1>0, <2>2 DEF Writing
        <5>2. Done + Len(x) = Done
          BY <1>4, <3>2
        <5>3. Done <= Len(Content)
          BY <1>4
        <5> QED BY <3>2, <5>1, <5>2, <5>3
      <4>2. ~Chunked /\ served \in {"serving", "plain"} /\ served' \notin {"serving", "plain"}
        BY <1>0, <1>4, <2>2
      <4> QED BY <1>0, <1>1, <1>4, <1>5, <3>2, <3>3, <4>1, <4>2, LayRaw
    <3> QED BY <3>2, <3>3
  <2> QED BY <2>1, <2>2
<1> HIDE DEF x
<1>7. Unread' = Unread \o x /\ wire' \in Seq(Unit)
  BY <1>0, <1>1, <1>6, UnreadMore
<1>8. Stray => Stray'
  BY <1>0, <1>1, <1>6, <1>7, StraySent
<1>9. Layout'
  <2>1. Stray' \/ Lay(Unread)'
    BY <1>3, <1>6, <1>7, <1>8
  <2> QED BY <1>0, <1>1, <1>2, <2>1, LayoutSent
<1>10. Writing'
  BY <1>0, <1>1, <1>2, <1>4 DEF Writing
<1>11. Types'
  <2>1. /\ sent' \in Seq(Tags) /\ open' \in BOOLEAN /\ headerSent' \in BOOLEAN /\ written' \in Nat
        /\ status' \in {0, OK, 302, 404} /\ contentLength' \in Nat \cup {-1} /\ pending' \in Seq(Unit)
        /\ served' \in {"idle", "serving", "plain", "done", "failed"}
    BY <1>0 DEF Types
  <2> QED BY <1>0, <1>7, <2>1, TypesSent
<1> QED BY <1>8, <1>9, <1>10, <1>11

(* The body of a script is a sequence of units.                            *)
LEMMA BodyUnits ==
  ASSUME NEW script \in Scripts
  PROVE  script \in Seq(Tags) /\ Body(script) \in Seq(Unit) /\ Len(Body(script)) >= 2
BY BodyShape, ScriptsAssumption

(* A request is answered.                                                  *)
LEMMA ServeHttpKeeps ==
  ASSUME Types, Writing, Layout, ServeHttp
  PROVE  Types' /\ Writing' /\ Layout'
<1>0. /\ open /\ served = "idle" /\ phase # "idle" /\ served' = "serving" /\ ClientIdle
      /\ (\E code \in {302, 404} : ServeText(code)) \/ ServeStream \/ ServeFile
  BY DEF ServeHttp, Serving
<1>1. Waits /\ UNCHANGED <<buf, phase>>
  BY <1>0 DEF ClientIdle, readerVars, clientVars, Waits
<1>2. /\ status = 0 /\ ~headerSent /\ written = 0 /\ Nothing /\ sent = << >>
      /\ Unread = << >> /\ msg = NoMsg /\ total = 0 /\ nbLeft = 0 /\ ~isEof /\ ~inEnd
  BY <1>0 DEF Writing, Layout, Nothing
<1> DEFINE Answered ==
      /\ status' \in {OK, 302, 404} /\ contentLength' \in Nat \cup {-1}
      /\ (status' \in {302, 404} => contentLength' # -1)
      /\ pending' \in Seq(Unit) /\ sent' \in Seq(Tags) /\ pending' = Content' /\ Len(pending') > 0
      /\ UNCHANGED <<headerSent, written, wire, open>>
<1>3. Answered
  <2>1. ASSUME NEW code \in {302, 404}, ServeText(code) PROVE Answered
    <3>1. /\ status' = code /\ contentLength' = Len(Text) /\ pending' = Text
          /\ UNCHANGED <<headerSent, written, wire, open, sent>>
      BY <2>1 DEF ServeText, WriteHeader, wireVars
    <3>2. Text \in Seq(Unit) /\ Len(Text) = 1
      BY ContentUnits
    <3>3. Content' = Text
      BY <3>1 DEF Content, OK
    <3> QED BY <3>1, <3>2, <3>3 DEF Types
  <2>2. ASSUME NEW script \in Scripts, NEW length \in Nat \cup {-1},
               WriteHeader(OK, length), pending' = Body(script), sent' = script
        PROVE  Answered
    <3>1. status' = OK /\ contentLength' = length /\ UNCHANGED <<headerSent, written, wire, open>>
      BY <2>2 DEF WriteHeader, wireVars
    <3>2. Content' = Body(script)
      BY <2>2, <3>1 DEF Content
    <3>3. OK \notin {302, 404}
      BY DEF OK
    <3> QED BY <2>2, <3>1, <3>2, <3>3, BodyUnits
  <2>3. CASE ServeStream
    <3>1. PICK script \in Scripts : pending' = Body(script) /\ sent' = script /\ WriteHeader(OK, -1)
      BY <2>3 DEF ServeStream
    <3>2. -1 \in Nat \cup {-1}
      OBVIOUS
    <3> QED BY <2>2, <3>1, <3>2
  <2>4. CASE ServeFile
    <3>1. PICK script \in Scripts : \E l \in {0, Len(Body(script)) - 1, Len(Body(script))} :
             pending' = Body(script) /\ sent' = script /\ WriteHeader(OK, l)
      BY <2>4 DEF ServeFile
    <3>a. PICK length \in {0, Len(Body(script)) - 1, Len(Body(script))} :
             pending' = Body(script) /\ sent' = script /\ WriteHeader(OK, length)
      BY <3>1
    <3>2. length \in Nat \cup {-1}
      <4> DEFINE n == Len(Body(script))
      <4>1. n \in Nat /\ n >= 2
        BY BodyUnits
      <4> HIDE DEF n
      <4>2. length \in {0, n - 1, n}
        BY DEF n
      <4> QED BY <4>1, <4>2
    <3> QED BY <2>2, <3>a, <3>2
  <2> QED BY <1>0, <2>1, <2>3, <2>4
<1>4. Done' = 0 /\ Unread' = << >>
  <2>1. Len(Content') \in Nat
    BY <1>3
  <2>2. Done' = Len(Content') - Len(Content')
    BY <1>3 DEF Done
  <2> QED BY <1>1, <1>2, <1>3, <2>1, <2>2 DEF Unread
<1>5. Layout'
  <2>1. Nothing'
    BY <1>0, <1>1, <1>2, <1>3, <1>4 DEF Nothing, Waits
  <2> QED BY <1>1, <1>2, <2>1 DEF Layout, Waits
<1>6. Writing'
  <2>1. phase' # "idle" /\ status' # 0 /\ ~headerSent' /\ written' = 0 /\ written' = Done'
    BY <1>0, <1>1, <1>2, <1>3, <1>4 DEF OK
  <2>2. status' \in {302, 404} => ~InChunks'
    BY <1>3 DEF InChunks
  <2>3. ~InChunks' => written' <= contentLength'
    BY <1>3, <2>1 DEF InChunks
  <2>4. Len(pending') <= Len(Content') /\ pending' # << >>
    BY <1>3
  <2>5. \A i \in 1..Len(pending') : pending'[i] = Content'[Done' + i]
    BY <1>3, <1>4
  <2> QED BY <1>0, <2>1, <2>2, <2>3, <2>4, <2>5 DEF Writing
<1>7. Types'
  <2>1. wire' \in Seq(Unit) /\ open' \in BOOLEAN /\ headerSent' \in BOOLEAN /\ written' \in Nat
    BY <1>3 DEF Types
  <2> QED BY <1>0, <1>3, <2>1, TypesSent
<1> QED BY <1>5, <1>6, <1>7

(* Another server answers.                                                 *)
LEMMA ServeOtherKeeps ==
  ASSUME Types, Writing, Layout, ServeOther
  PROVE  Types' /\ Writing' /\ Layout'
<1>0. /\ open /\ served = "idle" /\ phase # "idle" /\ served' = "plain" /\ ClientIdle
      /\ UNCHANGED <<open, status, headerSent, contentLength, written>>
  BY DEF ServeOther, Serving, writerVars
<1>1. PICK fields \in {0, Cap} : wire' = LongHeaders(OK, fields)
  BY DEF ServeOther
<1>2. PICK script \in Scripts : pending' = Body(script) /\ sent' = script
  BY DEF ServeOther
<1>3. Waits /\ UNCHANGED <<buf, phase>>
  BY <1>0 DEF ClientIdle, readerVars, clientVars, Waits
<1>4. /\ status = 0 /\ ~headerSent /\ written = 0 /\ InChunks /\ contentLength = -1
      /\ Unread = << >> /\ msg = NoMsg /\ total = 0 /\ nbLeft = 0 /\ ~isEof /\ ~inEnd
  BY <1>0 DEF Writing, Layout, Nothing, InChunks
<1>5. /\ script \in Seq(Tags) /\ pending' \in Seq(Unit) /\ Len(pending') >= 2 /\ Content' = pending'
  BY <1>0, <1>2, <1>4, BodyUnits DEF Content
<1>6. Done' = 0 /\ Len(Content') \in Nat /\ Len(pending') \in Nat
  <2>1. Len(Content') \in Nat
    BY <1>5
  <2>2. Done' = Len(Content') - Len(Content')
    BY <1>5 DEF Done
  <2> QED BY <1>5, <2>1, <2>2
<1> DEFINE m == Said'
           u == LongHeaders(OK, fields)
           h == fields + 5
<1>7. /\ wire' \in Seq(Unit) /\ Unread' = wire' /\ Len(wire') = h /\ h \in Nat /\ h >= 5
      /\ Opening(wire', h, m)
  <2>1. m = [code |-> OK, chunked |-> FALSE, length |-> -1]
    BY <1>0, <1>4 DEF Said, Code, Chunked
  <2>2. OK \in Nat /\ fields \in Nat
    BY CapAssumption DEF OK
  <2>3. u \in Seq(Unit) /\ Len(u) = h /\ Opening(u, h, m)
    <3> HIDE DEF m
    <3> QED BY <2>1, <2>2, LongHeadersOpen
  <2>4. buf = << >>
    <3>1. Len(Unread) = 0 /\ Len(Unread) = Len(buf) + Len(wire) /\ Len(buf) \in Nat /\ Len(wire) \in Nat
      BY <1>4, UnreadUnits DEF Types
    <3>2. Len(buf) = 0
      BY ONLY <3>1
    <3> QED BY <3>2 DEF Types
  <2>5. Unread' = wire'
    <3>1. << >> \o u = u
      <4> HIDE DEF u
      <4> QED BY <2>3
    <3> QED BY <1>1, <1>3, <2>4, <3>1 DEF Unread
  <2> QED BY <1>1, <2>2, <2>3, <2>5
<1>8. Lay(Unread)'
  <2>1. Ahead(h, Unread)'
    <3>1. Len(Unread') >= h /\ Opening(Unread', h, Said')
      BY <1>7
    <3> HIDE DEF h, m
    <3> QED BY <1>3, <1>4, <1>7, <3>1 DEF Ahead, Waits
  <2>2. Raw(h, Unread)'
    <3>1. ~Chunked' /\ InChunks'
      BY <1>0, <1>4 DEF Chunked, InChunks
    <3>2. total' = 0 /\ nbLeft' = 0 /\ ~isEof' /\ ~inEnd'
      BY <1>3, <1>4 DEF Waits
    <3> HIDE DEF h, m
    <3>3. \A i \in Nat : ~(h < i /\ i <= Len(Unread'))
      BY <1>7
    <3>4. total' + Len(Unread') - h = 0
      BY <1>7, <3>2
    <3>5. 0 <= Len(Content')
      BY <1>6
    <3> QED BY <1>6, <3>1, <3>2, <3>3, <3>4, <3>5 DEF Raw
  <2> HIDE DEF h
  <2>3. Rest(h, Unread)'
    BY <2>2 DEF Rest
  <2> QED BY <1>7, <2>1, <2>3 DEF Lay
<1>9. Layout'
  <2>1. msg' = NoMsg /\ total' = 0 /\ nbLeft' = 0 /\ ~isEof' /\ ~inEnd' /\ served' # "idle" /\ status' = 0
    BY <1>0, <1>3, <1>4 DEF Waits
  <2> QED BY <1>8, <2>1 DEF Layout
<1>10. Writing'
  <2>1. /\ phase' # "idle" /\ served' = "plain" /\ status' = 0 /\ ~headerSent' /\ written' = 0 /\ InChunks'
    BY <1>0, <1>3, <1>4 DEF InChunks
  <2>2. Len(pending') <= Len(Content')
    BY <1>5, <1>6
  <2>3. \A i \in 1..Len(pending') : pending'[i] = Content'[Done' + i]
    BY <1>5, <1>6
  <2> QED BY <2>1, <2>2, <2>3 DEF Writing
<1>11. Types'
  <2>1. /\ open' \in BOOLEAN /\ headerSent' \in BOOLEAN /\ written' \in Nat /\ sent' \in Seq(Tags)
        /\ status' \in {0, OK, 302, 404} /\ contentLength' \in Nat \cup {-1}
    BY <1>0, <1>2, <1>5 DEF Types
  <2> QED BY <1>0, <1>5, <1>7, <2>1, TypesSent
<1> QED BY <1>9, <1>10, <1>11

(* Another server sends a piece.                                           *)
LEMMA SendOtherKeeps ==
  ASSUME Types, Writing, Layout, NEW n \in Nat \ {0}, SendOther(n)
  PROVE  Types' /\ Writing' /\ Layout' /\ (Stray => Stray')
<1> DEFINE x == Piece(n)
<1>0. /\ open /\ served = "plain" /\ n <= Len(pending) /\ wire' = wire \o x /\ Sent(n) /\ ClientIdle
      /\ UNCHANGED <<open, status, headerSent, contentLength, written, served, sent>>
  BY DEF SendOther, writerVars
<1>1. Waits /\ UNCHANGED <<buf, phase>>
  BY <1>0 DEF ClientIdle, readerVars, clientVars, Waits
<1>2. /\ pending' \in Seq(Unit) /\ Content' = Content /\ Done' = Done + n /\ Done \in Nat
      /\ Done + n <= Len(Content) /\ Len(pending') <= Len(Content)
      /\ \A i \in 1..Len(pending') : pending'[i] = Content[Done' + i]
      /\ x \in Seq(Unit) /\ Len(x) = n /\ \A i \in 1..n : x[i] = Content[Done + i]
  BY <1>0, PendingNext
<1>3. status = 0 /\ InChunks /\ ~headerSent /\ ~Chunked /\ written = 0
  BY <1>0 DEF Writing, Chunked
<1> HIDE DEF x
<1>4. Unread' = Unread \o x /\ wire' \in Seq(Unit) /\ Unread \in Seq(Unit)
  BY <1>0, <1>1, <1>2, BufFirst, UnreadMore
<1>5. Lay(Unread) /\ ~Stray
  <2>1. ~Nothing
    BY <1>0 DEF Nothing
  <2>2. ~Stray
    <3>1. msg.chunked => msg = Said /\ Said.chunked
      BY SaidType DEF Layout
    <3>2. Said.chunked = Chunked
      BY SaidType
    <3> QED BY <1>3, <3>1, <3>2 DEF Stray
  <2> QED BY <2>1, <2>2 DEF Layout
<1>6. Lay(Unread)'
  <2>1. /\ Done + Len(x) <= Len(Content) /\ \A i \in 1..Len(x) : x[i] = Content[Done + i]
        /\ Done' = Done + Len(x)
    BY <1>2
  <2> QED BY <1>0, <1>1, <1>2, <1>3, <1>4, <1>5, <2>1, LayRaw
<1>7. Layout'
  BY <1>0, <1>1, <1>3, <1>6, LayoutSent
<1>8. Writing'
  <2>1. InChunks' /\ phase' # "idle" /\ served' = "plain" /\ status' = 0 /\ ~headerSent' /\ written' = 0
    BY <1>0, <1>1, <1>3 DEF InChunks, Writing
  <2> QED BY <1>2, <2>1 DEF Writing
<1>9. Types'
  <2>1. /\ sent' \in Seq(Tags) /\ open' \in BOOLEAN /\ headerSent' \in BOOLEAN /\ written' \in Nat
        /\ status' \in {0, OK, 302, 404} /\ contentLength' \in Nat \cup {-1}
        /\ served' \in {"idle", "serving", "plain", "done", "failed"}
    BY <1>0 DEF Types
  <2> QED BY <1>0, <1>2, <1>4, <2>1, TypesSent
<1> QED BY <1>5, <1>7, <1>8, <1>9

(* The connection ends.                                                    *)
LEMMA CloseKeeps ==
  ASSUME Types, Writing, Layout, Close
  PROVE  Types' /\ Writing' /\ Layout' /\ (Stray => Stray')
<1>0. /\ open /\ phase # "idle" /\ open' = FALSE /\ wire' \in {wire, << >>} /\ ClientIdle
      /\ UNCHANGED <<status, headerSent, contentLength, written, pending, sent>>
  BY DEF Close, writerVars
<1>1. Waits /\ UNCHANGED <<buf, phase>>
  BY <1>0 DEF ClientIdle, readerVars, clientVars, Waits
<1>2. /\ served' \in {"done", "failed"} /\ (served = "done" => served' = "done")
      /\ (served' = "done" => served = "done" \/ (served = "plain" /\ pending = << >>))
  BY DEF Close
<1>3. /\ wire' \in Seq(Unit) /\ Unread' \in Seq(Unit)
      /\ Len(Unread') <= Len(Unread) /\ Len(Unread') \in Nat /\ Len(Unread) \in Nat
      /\ \A i \in 1..Len(Unread') : Unread'[i] = Unread[i]
  BY <1>0, <1>1, UnreadLost DEF Types
<1>4. Unread \in Seq(Unit)
  BY BufFirst
<1>5. Content' = Content /\ Done' = Done /\ Code' = Code /\ Chunked' = Chunked /\ InChunks' = InChunks /\ Said' = Said
  BY <1>0 DEF Content, Done, Code, Chunked, InChunks, Said
<1>6. UNCHANGED <<msg, nbLeft, total, isEof, inEnd, torn>>
  BY <1>1 DEF Waits
<1>7. Nothing => Nothing'
  <2> SUFFICES ASSUME Nothing PROVE Nothing'
    OBVIOUS
  <2>1. Unread' = << >>
    <3>1. Len(Unread) = 0
      BY DEF Nothing
    <3>2. Len(Unread') = 0
      BY <1>3, <3>1
    <3> QED BY <1>3, <3>2
  <2> QED BY <1>0, <1>6, <2>1 DEF Nothing
<1>8. Stray => Stray'
  <2> SUFFICES ASSUME Stray PROVE Stray'
    OBVIOUS
  <2>1. ~isEof /\ Unread' # << >> => Unread'[1].is # "size"
    <3> SUFFICES ASSUME ~isEof, Unread' # << >> PROVE Unread'[1].is # "size"
      OBVIOUS
    <3>0. Len(Unread') # 0
      BY <1>3
    <3>1. 1 \in 1..Len(Unread') /\ Len(Unread) # 0
      BY <1>3, <3>0
    <3>2. Unread'[1] = Unread[1] /\ Unread # << >>
      BY <1>3, <3>1
    <3> QED BY <3>2 DEF Stray
  <2> QED BY <1>0, <1>6, <2>1 DEF Stray
<1>9. Lay(Unread) => Lay(Unread)'
  <2> SUFFICES ASSUME Lay(Unread) PROVE Lay(Unread)'
    OBVIOUS
  <2>1. PICK h \in Nat : Ahead(h, Unread) /\ Rest(h, Unread)
    BY DEF Lay
  <2>2. Ahead(h, Unread)'
    <3>1. CASE h = 0
      <4>1. msg' = Said'
        BY <1>5, <1>6, <2>1, <3>1 DEF Ahead
      <4> QED BY <3>1, <4>1 DEF Ahead
    <3>2. CASE h # 0
      <4>1. h >= 5 /\ msg = NoMsg /\ Opening(Unread, h, Said)
        BY <2>1, <3>2 DEF Ahead
      <4> DEFINE u == Unread
                 v == Unread'
                 m == Said
      <4>2. u \in Seq(Unit) /\ v \in Seq(Unit) /\ Len(v) <= Len(u) /\ Opening(u, h, m)
            /\ \A i \in 1..Len(u) : i <= Len(v) => v[i] = u[i]
        BY <1>3, <1>4, <4>1
      <4> HIDE DEF u, v, m
      <4>3. Opening(v, h, m)
        BY <4>1, <4>2, OpeningKept
      <4>4. Opening(Unread', h, Said')
        BY <1>5, <4>3 DEF v, m
      <4> QED BY <1>0, <1>6, <4>1, <4>4 DEF Ahead
    <3> QED BY <3>1, <3>2
  <2>3. CASE Raw(h, Unread)
    <3> DEFINE n == Len(Unread)
               k == Len(Unread')
    <3>1. /\ total + n - h <= Len(Content) /\ total <= Len(Content)
          /\ ~InChunks => total + n - h <= contentLength /\ total <= contentLength
          /\ ~Chunked /\ nbLeft = 0 /\ ~inEnd /\ (isEof => ~InChunks /\ total >= contentLength)
      BY <2>3 DEF Raw
    <3>2. k <= n /\ k \in Nat /\ n \in Nat /\ total \in Nat /\ contentLength \in Int /\ Len(Content) \in Nat
      BY <1>3, ContentUnits DEF Types
    <3>3. ASSUME NEW i \in Nat, h < i, i <= k PROVE Unread'[i] = Content[total + i - h]
      <4>1. i \in 1..k /\ i <= n
        BY <3>2, <3>3
      <4> QED BY <1>3, <2>3, <3>3, <4>1 DEF Raw
    <3>4. total + k - h <= Len(Content) /\ (~InChunks => total + k - h <= contentLength)
      <4> DEFINE c == Len(Content)
      <4>1. c \in Nat /\ total + n - h <= c /\ (~InChunks => total + n - h <= contentLength)
        BY <3>1, <3>2
      <4> HIDE DEF c, n, k
      <4>2. total + k - h <= total + n - h /\ total + k - h \in Int /\ total + n - h \in Int
        BY <3>2
      <4>3. total + k - h <= c /\ (~InChunks => total + k - h <= contentLength)
        BY <3>2, <4>1, <4>2
      <4> QED BY <4>3 DEF c
    <3>5. Raw(h, Unread)'
      BY <1>0, <1>5, <1>6, <3>1, <3>3, <3>4 DEF Raw
    <3> QED BY <2>2, <3>5 DEF Lay, Rest
  <2>4. CASE \E s, t \in State : Chunks(h, Unread, s, t)
    <3>1. PICK s \in State, t \in State : Chunks(h, Unread, s, t)
      BY <2>4
    <3>2. /\ Chunked /\ Way(Content, End, Unread, h, s, t) /\ Reader(s)
      BY <3>1 DEF Chunks
    <3>3. served' = "done" <=> served = "done"
      BY <1>2, <3>2 DEF Writing, Chunked
    <3>4. End' = End
      BY <1>5, <3>3 DEF End
    <3>5. Reader(s)'
      BY <1>5, <1>6, <3>2, <3>3 DEF Reader
    <3>6. \E r \in State : Way(Content, End, Unread', h, s, r)
      <4> DEFINE u == Unread
                 v == Unread'
                 b == Content
                 e == End
      <4>1. u \in Seq(Unit) /\ v \in Seq(Unit) /\ Len(v) <= Len(u) /\ Way(b, e, u, h, s, t)
            /\ (\A i \in 1..Len(v) : v[i] = u[i]) /\ e \in Int
        BY <1>3, <1>4, <3>2, ContentUnits DEF End
      <4> HIDE DEF u, v, b, e
      <4>2. \E r \in State : Way(b, e, v, h, s, r) /\ (Len(v) = Len(u) => r = t)
        BY <4>1, WayLess
      <4> QED BY <4>2 DEF b, e, v
    <3>7. PICK r \in State : Way(Content, End, Unread', h, s, r)
      BY <3>6
    <3>8. Chunks(h, Unread, s, r)'
      BY <1>0, <1>5, <3>2, <3>4, <3>5, <3>7 DEF Chunks
    <3> QED BY <2>2, <3>8 DEF Lay, Rest
  <2> QED BY <2>1, <2>3, <2>4 DEF Rest
<1>10. Layout'
  BY <1>0, <1>2, <1>5, <1>6, <1>7, <1>8, <1>9 DEF Layout
<1>11. Writing'
  BY <1>0, <1>1, <1>2, <1>5 DEF Writing
<1>12. Types'
  <2>1. /\ sent' \in Seq(Tags) /\ open' \in BOOLEAN /\ headerSent' \in BOOLEAN /\ written' \in Nat
        /\ status' \in {0, OK, 302, 404} /\ contentLength' \in Nat \cup {-1} /\ pending' \in Seq(Unit)
        /\ served' \in {"idle", "serving", "plain", "done", "failed"}
    BY <1>0, <1>2 DEF Types
  <2> QED BY <1>0, <1>3, <2>1, TypesSent
<1> QED BY <1>8, <1>10, <1>11, <1>12

(* Registrations and the call of play do nothing to the connection.        *)
LEMMA PlayKeeps ==
  ASSUME Types, Writing, Layout, NEW r, Register(r) \/ Play(r)
  PROVE  Types' /\ Writing' /\ Layout'
<1>1. /\ UNCHANGED <<buf, wire, open, msg, nbLeft, total, isEof, inEnd, torn, got, tag, messages, timeouts>>
      /\ UNCHANGED <<status, headerSent, contentLength, written, served, pending, sent>>
      /\ phase = "idle"
  BY DEF Register, Play, Unsent, ClientIdle, wireVars, writerVars, readerVars, clientVars, serverVars, MuxIdle, Goto
<1>2. Still /\ Unread' = Unread
  BY <1>1 DEF Still, Unread
<1>3. Layout'
  BY <1>1, <1>2, LayoutSame
<1>4. Types'
  BY <1>1 DEF Types
<1>5. Writing'
  <2>1. Content' = Content /\ Done' = Done /\ InChunks' = InChunks
    BY <1>2, StillSame
  <2>2. served = "idle" /\ open
    BY <1>1 DEF Writing
  <2> QED BY <1>1, <2>1, <2>2 DEF Writing
<1> QED BY <1>3, <1>4, <1>5

(* At first nothing is written, and nothing is unread.                     *)
LEMMA LayoutInit ==
  ASSUME Init
  PROVE  Types /\ Writing /\ Layout
<1>1. /\ wire = << >> /\ open = TRUE /\ buf = << >> /\ msg = NoMsg /\ nbLeft = 0 /\ total = 0
      /\ isEof = FALSE /\ inEnd = FALSE /\ status = 0 /\ headerSent = FALSE /\ contentLength = -1
      /\ written = 0 /\ phase = "idle" /\ got = << >> /\ tag = NoTag /\ messages = << >> /\ torn = FALSE
      /\ timeouts = 0 /\ served = "idle" /\ pending = << >> /\ sent = << >>
  BY DEF Init, WriterInit, ClientInit, ReaderInit
<1>2. Types
  <2>1. buf \in Seq(Unit) /\ wire \in Seq(Unit) /\ pending \in Seq(Unit) /\ got \in Seq(Unit)
    BY <1>1
  <2>2. sent \in Seq(Tags) /\ messages \in Seq(Seen)
    BY <1>1
  <2>3. contentLength \in Nat \cup {-1} /\ status \in {0, OK, 302, 404}
    BY <1>1
  <2>4. tag.size \in Nat
    BY <1>1 DEF NoTag
  <2>5. /\ open \in BOOLEAN /\ torn \in BOOLEAN /\ headerSent \in BOOLEAN /\ isEof \in BOOLEAN /\ inEnd \in BOOLEAN
        /\ served \in {"idle", "serving", "plain", "done", "failed"}
    BY <1>1
  <2>6. written \in Nat /\ total \in Nat /\ nbLeft \in Nat /\ timeouts \in Nat
    BY <1>1
  <2> QED BY <2>1, <2>2, <2>3, <2>4, <2>5, <2>6 DEF Types
<1>3. Writing
  <2>1. Len(pending) = 0 /\ Len(Content) \in Nat
    BY <1>1, <1>2, ContentUnits
  <2>2. \A i \in 1..Len(pending) : FALSE
    BY <2>1
  <2>3. InChunks /\ Len(pending) <= Len(Content)
    BY <1>1, <2>1 DEF InChunks
  <2> QED BY <1>1, <2>2, <2>3 DEF Writing
<1>4. Layout
  <2>1. Unread = << >>
    BY <1>1 DEF Unread
  <2>2. Nothing
    BY <1>1, <2>1 DEF Nothing
  <2> QED BY <1>1, <2>2 DEF Layout
<1> QED BY <1>2, <1>3, <1>4

-----------------------------------------------------------------------------
(* A client that is where a part begins stays there.                       *)
LEMMA AlignedKept ==
  ASSUME UNCHANGED <<phase, tag, sent>>, Begin' = Begin, Starts' = Starts,
         \A i : Given(i) => Given(i)', Aligned
  PROVE  Aligned'
<1>1. CASE phase \in {"flv", "flv previous"} /\ Begin = (IF phase = "flv" THEN 0 ELSE 1) /\ Given(0)
  BY <1>1 DEF Aligned
<1>2. CASE \E i \in 1..Len(sent) + 1 : phase = "tag" /\ Begin = Starts[i] /\ Given(i - 1)
  <2>1. PICK i \in 1..Len(sent) + 1 : phase = "tag" /\ Begin = Starts[i] /\ Given(i - 1)
    BY <1>2
  <2>2. phase' = "tag" /\ Begin' = Starts'[i] /\ Given(i - 1)' /\ i \in 1..Len(sent') + 1
    BY <2>1
  <2> QED BY <2>2 DEF Aligned
<1>3. CASE \E i \in 1..Len(sent) : phase = "data" /\ Begin = Starts[i] + 2 /\ HasTag(i, << >>) /\ Given(i - 1)
  <2>1. PICK i \in 1..Len(sent) : phase = "data" /\ Begin = Starts[i] + 2 /\ HasTag(i, << >>) /\ Given(i - 1)
    BY <1>3
  <2>2. /\ phase' = "data" /\ Begin' = Starts'[i] + 2 /\ Given(i - 1)' /\ i \in 1..Len(sent')
        /\ HasTag(i, << >>)'
    BY <2>1 DEF HasTag
  <2> QED BY <2>2 DEF Aligned
<1>4. CASE \E i \in 1..Len(sent) :
             phase = "previous" /\ Begin = Starts[i + 1] - 1 /\ HasTag(i, AsSeen(sent[i]).data) /\ Given(i - 1)
  <2>1. PICK i \in 1..Len(sent) :
             phase = "previous" /\ Begin = Starts[i + 1] - 1 /\ HasTag(i, AsSeen(sent[i]).data) /\ Given(i - 1)
    BY <1>4
  <2>2. /\ phase' = "previous" /\ Begin' = Starts'[i + 1] - 1 /\ Given(i - 1)' /\ i \in 1..Len(sent')
        /\ HasTag(i, AsSeen(sent[i]).data)'
    BY <2>1 DEF HasTag
  <2> QED BY <2>2 DEF Aligned
<1> QED BY <1>1, <1>2, <1>3, <1>4 DEF Aligned

(* What the client has of the body is not disturbed by the server.         *)
LEMMA PlaceServer ==
  ASSUME Types, Place, ClientIdle, sent' \in Seq(Tags),
         msg # NoMsg => UNCHANGED <<status, sent>> /\ (Stray => Stray')
  PROVE  Place'
<1>1. UNCHANGED <<total, got, phase, tag, messages, torn, timeouts, msg>>
  BY DEF ClientIdle, readerVars, clientVars
<1>2. CASE msg = NoMsg
  <2>1. messages' = << >> /\ got' = << >> /\ ~InFull'
    BY <1>1, <1>2 DEF Place, InFull
  <2>2. Given(0)'
    BY <2>1, PickedNone DEF Given
  <2>3. \E i \in 0..Len(sent') : Given(i)'
    BY <2>2, PickedNone
  <2> QED BY <1>1, <1>2, <2>1, <2>3 DEF Place, InFull, Ended
<1>3. CASE msg # NoMsg
  <2>1. UNCHANGED <<status, sent>> /\ (Stray => Stray')
    BY <1>3
  <2>2. Content' = Content /\ Code' = Code /\ Begin' = Begin /\ Starts' = Starts /\ Want' = Want /\ InFull' = InFull
    BY <1>1, <2>1 DEF Content, Code, Begin, Starts, Want, InFull
  <2>3. \A i : Given(i) => Given(i)'
    <3> SUFFICES ASSUME NEW i, Given(i) PROVE Given(i)'
      OBVIOUS
    <3>1. Whole' = Whole
      BY <1>1 DEF Whole
    <3> QED BY <1>1, <2>1, <3>1, GivenKept
  <2>4. Aligned => Aligned'
    BY <1>1, <2>1, <2>2, <2>3, AlignedKept
  <2>5. Torn => Torn'
    BY <1>1, <2>1, <2>2, <2>3 DEF Torn
  <2>6. \E i \in 0..Len(sent') : Given(i)'
    BY <2>1, <2>3 DEF Place
  <2> QED BY <1>1, <1>3, <2>2, <2>4, <2>5, <2>6 DEF Place, Ended
<1> QED BY <1>2, <1>3

(* Nor by reading on.                                                      *)
LEMMA PlaceReads ==
  ASSUME Types, Place, Still, UNCHANGED <<phase, tag, messages, torn, timeouts, msg>>,
         Begin' = Begin, Stray => Stray' /\ UNCHANGED got,
         (UNCHANGED <<total, got>>) \/
            (/\ InFull /\ total' <= Len(Content) /\ Len(got') <= Want
             /\ \A k \in 1..Len(got') : got'[k] = Content[Begin + k])
  PROVE  Place'
<1>1. Content' = Content /\ Code' = Code /\ Starts' = Starts /\ sent' = sent /\ Want' = Want /\ InFull' = InFull
  BY StillSame DEF Want, InFull
<1>2. \A i : Given(i) => Given(i)'
  <2> SUFFICES ASSUME NEW i, Given(i) PROVE Given(i)'
    OBVIOUS
  <2>1. Whole' = Whole
    BY DEF Whole
  <2> QED BY <1>1, <2>1, GivenKept
<1>3. Aligned => Aligned'
  BY <1>1, <1>2, AlignedKept
<1>4. Torn => Torn'
  BY <1>1, <1>2 DEF Torn
<1>5. \E i \in 0..Len(sent') : Given(i)'
  BY <1>1, <1>2 DEF Place
<1>6. InFull => msg # NoMsg
  BY DEF Place
<1>7. InFull' => /\ total' <= Len(Content') /\ Len(got') <= Want' /\ Begin' >= 0
                 /\ \A k \in 1..Len(got') : got'[k] = Content'[Begin' + k]
  BY <1>1 DEF Place
<1>8. msg = NoMsg => UNCHANGED got
  BY <1>6
<1> QED BY <1>1, <1>3, <1>4, <1>5, <1>7, <1>8 DEF Place, Ended

(* The client ends, or has read the headers.                               *)
LEMMA PlaceEnds ==
  ASSUME Types, Place, Still, UNCHANGED <<messages, torn, timeouts>>, got' \in {got, << >>},
         phase' \in {"stopped", "aborted"}, msg' = msg \/ msg' # NoMsg
  PROVE  Place'
<1>1. sent' = sent
  BY StillSame
<1>2. \E i \in 0..Len(sent') : Given(i)'
  <2>1. PICK i \in 0..Len(sent) : Given(i)
    BY DEF Place
  <2>2. Whole' = Whole
    BY DEF Whole
  <2>3. Given(i)'
    BY <1>1, <2>1, <2>2, GivenKept
  <2> QED BY <1>1, <2>3
<1>3. ~InFull' /\ Ended' /\ phase' \notin {"idle", "headers"}
  BY DEF InFull, Ended
<1> QED BY <1>2, <1>3 DEF Place

(* Where the tags are in the body.                                         *)
LEMMA TagAt ==
  ASSUME Types, Code = OK, NEW i \in 1..Len(sent)
  PROVE  /\ sent[i] \in Tags /\ sent[i].size \in Nat /\ Starts[i] \in Nat /\ Starts[i + 1] \in Nat
         /\ Starts[i + 1] = Starts[i] + sent[i].size + 3 /\ Starts[i + 1] <= Len(Content)
         /\ Content[Starts[i] + 1].is = "tag" /\ Content[Starts[i] + 1].type = sent[i].type
         /\ Content[Starts[i] + 1].size = sent[i].size
         /\ Content[Starts[i] + 1].time = IF sent[i].type \in {"audio", "video"} THEN sent[i].time % Half ELSE 0
         /\ \A k \in 1..sent[i].size :
               Content[Starts[i] + 2 + k] = [is |-> "data", of |-> sent[i].id, part |-> k]
<1> DEFINE f == Starts
           b == Content
           n == Len(sent)
<1>1. Content = Body(sent)
  BY DEF Types, Code, Content
<1>2. /\ f \in [1..n + 1 -> Nat] /\ f[n + 1] = Len(b) /\ f[i + 1] = f[i] + sent[i].size + 3
      /\ \A j, k \in 1..n + 1 : j < k => f[j] < f[k]
      /\ b[f[i] + 1] = WriteTag(sent[i])[1]
      /\ \A k \in 1..sent[i].size : b[f[i] + 2 + k] = [is |-> "data", of |-> sent[i].id, part |-> k]
  <2>1. Shape(sent, Starts)
    BY StartsShape DEF Types
  <2>2. f \in [1..n + 1 -> Nat] /\ f[n + 1] = Len(b) /\ \A j, k \in 1..n + 1 : j < k => f[j] < f[k]
    BY ONLY <1>1, <2>1 DEF Shape
  <2>3. f[i + 1] = f[i] + sent[i].size + 3 /\ b[f[i] + 1] = WriteTag(sent[i])[1]
    BY <1>1, <2>1 DEF Shape
  <2>4. \A k \in 1..sent[i].size : b[f[i] + 2 + k] = [is |-> "data", of |-> sent[i].id, part |-> k]
    BY <1>1, <2>1 DEF Shape
  <2> QED BY <2>2, <2>3, <2>4
<1>3. sent[i] \in Tags /\ n \in Nat /\ i \in Nat /\ i <= n /\ i >= 1
  BY DEF Types
<1>4. sent[i].size \in Nat
  BY <1>3 DEF Tags
<1>5. i \in 1..n + 1 /\ i + 1 \in 1..n + 1 /\ n + 1 \in 1..n + 1 /\ (i + 1 < n + 1 \/ i + 1 = n + 1)
  BY <1>3
<1> HIDE DEF f, b, n
<1>6. f[i] \in Nat /\ f[i + 1] \in Nat /\ f[i + 1] <= Len(b)
  <2>1. f[i] \in Nat /\ f[i + 1] \in Nat /\ f[n + 1] \in Nat
    BY <1>2, <1>5
  <2>2. f[i + 1] < f[n + 1] \/ f[i + 1] = f[n + 1]
    BY <1>2, <1>5
  <2>3. f[i + 1] <= f[n + 1]
    BY <2>1, <2>2
  <2> QED BY <1>2, <2>1, <2>3
<1> DEFINE x == sent[i]
           time == IF x.type \in {"audio", "video"} THEN x.time % Half ELSE 0
<1>7. WriteTag(x)[1] = [is |-> "tag", type |-> x.type, size |-> x.size, time |-> time]
  <2> HIDE DEF x
  <2>1. x \in Tags
    BY <1>3 DEF x
  <2> QED BY <2>1, WriteTagUnits
<1> HIDE DEF time
<1>8. /\ WriteTag(x)[1].is = "tag" /\ WriteTag(x)[1].type = x.type
      /\ WriteTag(x)[1].size = x.size /\ WriteTag(x)[1].time = time
  BY ONLY <1>7
<1> QED BY <1>2, <1>3, <1>4, <1>6, <1>8 DEF f, b, time

(* In the middle of a tag none begins.                                     *)
LEMMA NoTagWithin ==
  ASSUME Types, Code = OK, NEW i \in 1..Len(sent), NEW p \in Nat, Starts[i] < p, p < Starts[i + 1]
  PROVE  p < Len(Content) => Content[p + 1].is # "tag"
<1> SUFFICES ASSUME p < Len(Content), Content[p + 1].is = "tag" PROVE FALSE
  OBVIOUS
<1> DEFINE f == Starts
           b == Content
           n == Len(sent)
<1>1. Content = Body(sent) /\ Len(b) \in Nat /\ n \in Nat
  BY ContentUnits DEF Types, Code, Content
<1>2. /\ f \in [1..n + 1 -> Nat] /\ (\A j, k \in 1..n + 1 : j < k => f[j] < f[k])
      /\ \A q \in 1..Len(b) : b[q].is = "tag" => \E j \in 1..n : q = f[j] + 1
  BY <1>1, StartsShape DEF Shape, Types
<1>3. p + 1 \in 1..Len(b) /\ b[p + 1].is = "tag"
  BY <1>1
<1> HIDE DEF b
<1>4. PICK j \in 1..n : p + 1 = f[j] + 1
  BY <1>2, <1>3
<1>5. i \in 1..n + 1 /\ i + 1 \in 1..n + 1 /\ j \in 1..n + 1 /\ (j < i \/ j = i \/ j = i + 1 \/ i + 1 < j)
  BY <1>1
<1> HIDE DEF f, n
<1>6. f[i] \in Nat /\ f[i + 1] \in Nat /\ f[j] \in Nat /\ p = f[j]
  <2>1. f[i] \in Nat /\ f[i + 1] \in Nat /\ f[j] \in Nat
    BY <1>2, <1>5
  <2> QED BY <1>4, <2>1
<1>7. f[i] < f[j] /\ f[j] < f[i + 1]
  BY <1>6 DEF f
<1>8. (j < i => f[j] < f[i]) /\ (i + 1 < j => f[i + 1] < f[j])
  BY <1>2, <1>5
<1> QED BY <1>5, <1>6, <1>7, <1>8

(* A call is made again, or is begun, with nothing read yet.               *)
LEMMA PlaceGoes ==
  ASSUME Types, Place, Still, InFull, UNCHANGED <<msg, total>>, got' = << >>, tag'.size \in Nat,
         timeouts' = 0 => ~torn',
         phase' \in {"flv", "flv previous", "tag", "data", "previous"},
         Aligned' \/ Torn', \E i \in 0..Len(sent) : Given(i)'
  PROVE  Place'
<1>1. Content' = Content /\ Code' = Code /\ sent' = sent
  BY StillSame
<1>2. msg # NoMsg /\ Code = OK /\ total <= Len(Content) /\ total \in Nat
  BY DEF Place, Types
<1>3. Len(got') = 0
  OBVIOUS
<1>4. Begin' = total
  <2>1. total' = total
    OBVIOUS
  <2>2. total - 0 = total
    BY ONLY <1>2
  <2> QED BY <1>3, <2>1, <2>2 DEF Begin
<1>5. Begin' >= 0 /\ Len(got') <= Want' /\ \A k \in 1..Len(got') : got'[k] = Content'[Begin' + k]
  <2>1. Want' \in Nat
    BY DEF Want, TagHeaderUnits
  <2> DEFINE w == Want'
  <2>2. 0 <= w /\ total >= 0 /\ \A k \in 1..0 : FALSE
    <3>1. w \in Nat /\ total \in Nat
      BY <1>2, <2>1
    <3> HIDE DEF w
    <3> QED BY ONLY <3>1
  <2> QED BY <1>3, <1>4, <2>2 DEF w
<1>6. InFull' /\ ~(phase' \in {"idle", "headers"})
  BY DEF InFull
<1> QED BY <1>1, <1>2, <1>3, <1>5, <1>6 DEF Place

(* A part of the FLV is complete.                                          *)
LEMMA PlaceComplete ==
  ASSUME Types, Place, Still, Complete, ~astray, phase = "tag" => got[1].is = "tag"
  PROVE  Place' /\ messages' \in Seq(Seen) /\ tag'.size \in Nat
<1>0. /\ InFull /\ Left = 0 /\ Want > 0 /\ got' = << >>
      /\ UNCHANGED <<buf, msg, nbLeft, total, isEof, inEnd, wire, open, torn, timeouts>>
  BY DEF Complete, readerVars, wireVars
<1>1. /\ msg # NoMsg /\ Code = OK /\ Begin >= 0 /\ total <= Len(Content)
      /\ \A k \in 1..Len(got) : got[k] = Content[Begin + k]
      /\ Aligned \/ Torn
  BY <1>0 DEF Place
<1> DEFINE n == Len(got)
           b == Begin
<1>2. /\ n = Want /\ n \in Nat /\ b \in Int /\ total = b + n /\ Begin' = b + n /\ total \in Nat /\ b \in Nat
  <2>1. n \in Nat /\ total \in Nat /\ b = total - n /\ b >= 0
    BY <1>1 DEF Types, Begin
  <2>2. Want \in Int /\ Want - n = 0
    <3>1. Want \in Nat
      BY DEF Want, TagHeaderUnits, Types
    <3> QED BY <1>0, <3>1 DEF Left
  <2>3. Len(got') = 0 /\ Begin' = total - Len(got')
    <3>1. Len(got') = 0
      BY <1>0
    <3> QED BY <1>0, <3>1 DEF Begin
  <2> HIDE DEF n, b
  <2> QED BY <2>1, <2>2, <2>3
<1> HIDE DEF n, b
<1>3. ASSUME NEW i, Given(i), UNCHANGED messages PROVE Given(i)'
  <2>1. Whole' = Whole /\ sent' = sent
    BY <1>0, StillSame DEF Whole
  <2> QED BY <1>3, <2>1, GivenKept
<1>4. /\ sent' = sent /\ Starts' = Starts /\ Content = Body(sent) /\ Shape(sent, Starts)
      /\ Len(sent) \in Nat /\ Len(Content) \in Nat
  BY <1>1, StillSame, StartsShape, ContentUnits DEF Types, Code, Content
<1>5. timeouts' = 0 => ~torn'
  BY <1>0 DEF Place
<1>6. ASSUME phase' \in {"stopped", "aborted"}, UNCHANGED messages PROVE Place'
  BY <1>0, <1>6, PlaceEnds
<1>7. ASSUME phase' \in {"flv", "flv previous", "tag", "data", "previous"}, tag'.size \in Nat,
             Aligned' \/ Torn', \E i \in 0..Len(sent) : Given(i)'
      PROVE  Place'
  BY <1>0, <1>5, <1>7, PlaceGoes
<1>8. n >= 1 => got[1] = Content[b + 1] /\ b + 1 \in 1..Len(Content)
  <2> SUFFICES ASSUME n >= 1 PROVE got[1] = Content[b + 1] /\ b + 1 \in 1..Len(Content)
    OBVIOUS
  <2>1. 1 \in 1..n
    BY <1>2
  <2>2. got[1] = Content[Begin + 1]
    BY <1>1, <2>1 DEF n
  <2>3. b + 1 <= Len(Content)
    BY <1>1, <1>2, <1>4
  <2> QED BY <1>2, <1>4, <2>2, <2>3 DEF b
<1>9. n # 0 => got # << >>
  BY DEF n
<1>10. CASE phase = "flv"
  <2>1. /\ IF got[1].is = "FLV" THEN phase' = "flv previous" /\ UNCHANGED result ELSE phase' = "stopped" /\ result' = "flv"
        /\ UNCHANGED <<tag, messages>>
    BY <1>10 DEF Complete, Goto, Stop
  <2>2. n = 1
    BY <1>2, <1>10 DEF Want
  <2>3. CASE got[1].is = "FLV"
    <3>1. phase' = "flv previous" /\ UNCHANGED messages
      BY <2>1, <2>3
    <3>2. b = 0 /\ Given(0)
      <4>1. Content[b + 1].is = "FLV"
        BY <1>8, <2>2, <2>3
      <4>2. b + 1 = 1
        <5>1. \A p \in 1..Len(Content) : Content[p].is = "FLV" => p = 1
          BY <1>4 DEF Shape
        <5>2. b + 1 \in 1..Len(Content)
          BY <1>8, <2>2
        <5> QED BY <4>1, <5>1, <5>2
      <4>3. ~Torn \/ (Given(0) /\ Begin > 0)
        BY <1>9, <1>10, <2>2 DEF Torn
      <4>4. Aligned => Given(0)
        BY <1>10 DEF Aligned
      <4> QED BY <1>1, <1>2, <4>2, <4>3, <4>4 DEF b
    <3>3. Begin' = 1 /\ Given(0)'
      <4>1. Given(0)'
        BY <1>3, <2>1, <3>1, <3>2
      <4>2. Begin' = b + 1 /\ b = 0
        BY <1>2, <2>2, <3>2
      <4> QED BY <4>1, <4>2
    <3>4. Aligned'
      BY <3>1, <3>3 DEF Aligned
    <3>5. Given(0)' /\ 0 \in 0..Len(sent)
      BY <1>4, <3>3
    <3>6. tag' = tag /\ tag.size \in Nat /\ messages \in Seq(Seen)
      BY <2>1 DEF Types
    <3> QED BY <1>7, <3>1, <3>4, <3>5, <3>6
  <2>4. CASE got[1].is # "FLV"
    <3>1. phase' = "stopped" /\ tag' = tag /\ messages' = messages /\ tag.size \in Nat /\ messages \in Seq(Seen)
      BY <2>1, <2>4 DEF Types
    <3> QED BY <1>6, <3>1
  <2> QED BY <2>3, <2>4
<1>11. CASE phase = "flv previous"
  <2>1. phase' = "tag" /\ UNCHANGED <<tag, messages>>
    BY <1>11 DEF Complete, Goto
  <2>2. n = 1
    BY <1>2, <1>11 DEF Want
  <2>3. ~Torn
    BY <1>11 DEF Torn
  <2>4. b = 1 /\ Given(0)
    BY <1>1, <1>11, <2>3 DEF Aligned, b
  <2>5. Begin' = 2 /\ Given(0)'
    BY <1>2, <1>3, <2>1, <2>2, <2>4
  <2>6. Starts'[1] = 2 /\ 1 \in 1..Len(sent') + 1
    <3>1. Starts[1] = 2
      BY <1>4 DEF Shape
    <3> QED BY <1>4, <3>1
  <2>7. Aligned'
    <3>1. 1 - 1 = 0
      OBVIOUS
    <3>2. phase' = "tag" /\ Begin' = Starts'[1] /\ Given(1 - 1)' /\ 1 \in 1..Len(sent') + 1
      BY <2>1, <2>5, <2>6, <3>1
    <3> QED BY <3>2 DEF Aligned
  <2>8. Given(0)' /\ 0 \in 0..Len(sent) /\ tag' = tag /\ tag.size \in Nat /\ messages \in Seq(Seen)
    BY <1>4, <2>1, <2>5 DEF Types
  <2> QED BY <1>7, <2>1, <2>7, <2>8
<1>12. CASE phase = "tag"
  <2>2. n = 2
    BY <1>2, <1>12 DEF Want, TagHeaderUnits
  <2>3. CASE got[1].is = "tag"
    <3>1. /\ phase' = "data" /\ UNCHANGED messages
          /\ tag' = [type |-> got[1].type, size |-> got[1].size, time |-> got[1].time, data |-> << >>]
      BY <1>12, <2>3 DEF Complete, Goto
    <3>2. ~Torn
      <4>1. Begin < Len(Content)
        BY <1>1, <1>2, <1>4, <2>2 DEF b
      <4>2. Content[Begin + 1].is = "tag"
        BY <1>8, <2>2, <2>3 DEF b
      <4> QED BY <1>9, <1>12, <2>2, <4>1, <4>2 DEF Torn
    <3>3. PICK i \in 1..Len(sent) + 1 : b = Starts[i] /\ Given(i - 1)
      BY <1>1, <1>12, <3>2 DEF Aligned, b
    <3>4. i \in 1..Len(sent)
      <4>1. i # Len(sent) + 1
        <5>1. Starts[Len(sent) + 1] = Len(Content)
          BY <1>4 DEF Shape
        <5> QED BY <1>1, <1>2, <1>4, <2>2, <3>3, <5>1
      <4> QED BY <1>4, <4>1
    <3>5. /\ sent[i].size \in Nat /\ got[1].type = sent[i].type /\ got[1].size = sent[i].size
          /\ got[1].time = IF sent[i].type \in {"audio", "video"} THEN sent[i].time % Half ELSE 0
      <4>1. got[1] = Content[Starts[i] + 1]
        BY <1>8, <2>2, <3>3
      <4>2. /\ sent[i].size \in Nat
            /\ Content[Starts[i] + 1].type = sent[i].type /\ Content[Starts[i] + 1].size = sent[i].size
            /\ Content[Starts[i] + 1].time = IF sent[i].type \in {"audio", "video"} THEN sent[i].time % Half ELSE 0
        BY <1>1, <3>4, TagAt
      <4> QED BY <4>1, <4>2
    <3>6. HasTag(i, << >>)'
      BY <1>4, <3>1, <3>5 DEF HasTag
    <3>7. Begin' = Starts'[i] + 2 /\ Given(i - 1)'
      BY <1>2, <1>3, <1>4, <2>2, <3>1, <3>3
    <3>8. Aligned'
      BY <1>4, <3>1, <3>4, <3>6, <3>7 DEF Aligned
    <3>9. i - 1 \in 0..Len(sent) /\ tag'.size \in Nat /\ messages \in Seq(Seen)
      BY <1>4, <3>1, <3>4, <3>5 DEF Types
    <3> QED BY <1>7, <3>1, <3>7, <3>8, <3>9
  <2> QED BY <1>12, <2>3
<1>13. CASE phase = "data"
  <2>1. phase' = "previous" /\ tag' = [tag EXCEPT !.data = got] /\ UNCHANGED messages
    BY <1>13 DEF Complete, Goto
  <2>2. n = tag.size
    BY <1>2, <1>13 DEF Want
  <2>3. ~Torn
    BY <1>13 DEF Torn
  <2>4. PICK i \in 1..Len(sent) : b = Starts[i] + 2 /\ HasTag(i, << >>) /\ Given(i - 1)
    BY <1>1, <1>13, <2>3 DEF Aligned, b
  <2> DEFINE d == [k \in 1..sent[i].size |-> [is |-> "data", of |-> sent[i].id, part |-> k]]
             time == IF sent[i].type \in {"audio", "video"} THEN sent[i].time % Half ELSE 0
  <2>5. tag = [type |-> sent[i].type, size |-> sent[i].size, time |-> time, data |-> << >>]
    BY <2>4 DEF HasTag
  <2>6. /\ sent[i].size \in Nat /\ Starts[i] \in Nat /\ Starts[i + 1] = Starts[i] + sent[i].size + 3
        /\ \A k \in 1..sent[i].size : Content[Starts[i] + 2 + k] = [is |-> "data", of |-> sent[i].id, part |-> k]
    BY <1>1, TagAt
  <2>7. n = sent[i].size
    BY <2>2, <2>5
  <2>8. got = d
    <3>1. got \in Seq(Unit) /\ Len(got) = sent[i].size
      BY <2>7 DEF Types, n
    <3>2. \A k \in 1..Len(got) : got[k] = d[k]
      <4> SUFFICES ASSUME NEW k \in 1..Len(got) PROVE got[k] = d[k]
        OBVIOUS
      <4>1. k \in 1..sent[i].size
        BY <3>1
      <4>2. got[k] = Content[Starts[i] + 2 + k]
        BY <1>1, <2>4 DEF b
      <4> QED BY <2>6, <4>1, <4>2
    <3>3. d = [k \in 1..Len(got) |-> d[k]]
      BY <3>1
    <3>4. got = [k \in 1..Len(got) |-> got[k]]
      BY <3>1
    <3> HIDE DEF d
    <3> QED BY <3>2, <3>3, <3>4
  <2>9. AsSeen(sent[i]).data = d
    BY DEF AsSeen
  <2> HIDE DEF d, time
  <2>10. tag' = [type |-> sent[i].type, size |-> sent[i].size, time |-> time, data |-> d]
    BY <2>1, <2>5, <2>8
  <2>11. HasTag(i, AsSeen(sent[i]).data)'
    BY <1>4, <2>9, <2>10 DEF HasTag, time
  <2>12. Begin' = Starts'[i + 1] - 1 /\ Given(i - 1)'
    <3>1. b + n = Starts[i + 1] - 1
      BY <2>4, <2>6, <2>7
    <3> QED BY <1>2, <1>3, <1>4, <2>1, <2>4, <3>1
  <2>13. Aligned'
    BY <1>4, <2>1, <2>11, <2>12 DEF Aligned
  <2>14. i - 1 \in 0..Len(sent) /\ tag'.size \in Nat /\ messages \in Seq(Seen)
    BY <1>4, <2>6, <2>10 DEF Types
  <2> QED BY <1>7, <2>1, <2>12, <2>13, <2>14
<1>14. CASE phase = "previous"
  <2>1. /\ tag' = NoTag
        /\ IF Known(tag.type)
           THEN phase' = "tag" /\ messages' = Append(messages, Message)
           ELSE phase' \in {"tag", "stopped"} /\ UNCHANGED messages
    BY <1>14 DEF Complete, Goto, Stop, Give
  <2>2. n = 1
    BY <1>2, <1>14 DEF Want
  <2>3. ~Torn
    BY <1>14 DEF Torn
  <2>4. PICK i \in 1..Len(sent) : b = Starts[i + 1] - 1 /\ HasTag(i, AsSeen(sent[i]).data) /\ Given(i - 1)
    BY <1>1, <1>14, <2>3 DEF Aligned, b
  <2>5. /\ tag.type = sent[i].type /\ tag.data = AsSeen(sent[i]).data
        /\ tag.time = IF sent[i].type \in {"audio", "video"} THEN sent[i].time % Half ELSE 0
    BY <2>4 DEF HasTag
  <2>6. Message = AsSeen(sent[i])
    <3>1. AsSeen(sent[i]).data = [k \in 1..sent[i].size |-> [is |-> "data", of |-> sent[i].id, part |-> k]]
      BY DEF AsSeen
    <3> QED BY <2>5, <3>1 DEF Message, AsSeen
  <2>7. Begin' = Starts'[i + 1]
    <3>1. Starts[i + 1] \in Nat
      BY <1>1, TagAt
    <3> QED BY <1>2, <1>4, <2>2, <2>4, <3>1
  <2>8. tag'.size \in Nat
    BY <2>1 DEF NoTag
  <2>9. i + 1 \in 1..Len(sent) + 1 /\ (i + 1) - 1 = i /\ i \in 0..Len(sent)
    BY <1>4
  <2>10. ASSUME phase' = "tag", Given(i)' PROVE Place'
    <3>1. phase' = "tag" /\ Begin' = Starts'[i + 1] /\ Given((i + 1) - 1)' /\ i + 1 \in 1..Len(sent') + 1
      BY <1>4, <2>7, <2>9, <2>10
    <3>2. Aligned'
      BY <3>1 DEF Aligned
    <3> QED BY <1>7, <2>8, <2>9, <2>10, <3>2
  <2>11. sent \in Seq(Tags) /\ messages \in Seq(Seen) /\ sent[i] \in Tags
    BY DEF Types
  <2>12. CASE Known(tag.type)
    <3>1. sent[i].type \in TagTypes
      BY <2>5, <2>12 DEF Known, IsMedia
    <3>2. Whole' = Whole
      BY <1>0 DEF Whole
    <3>3. Given(i)'
      BY <1>4, <2>1, <2>4, <2>6, <2>11, <2>12, <3>1, <3>2, GivenNext
    <3>4. messages' \in Seq(Seen)
      <4>1. Message \in Seen
        BY <2>6, <2>11 DEF Seen
      <4> QED BY <2>1, <2>11, <2>12, <4>1
    <3> QED BY <2>1, <2>8, <2>10, <2>12, <3>3, <3>4
  <2>13. CASE ~Known(tag.type)
    <3>1. sent[i].type \notin TagTypes
      BY <2>5, <2>13 DEF Known, IsMedia
    <3>2. Given(i)
      BY <2>4, <2>11, <3>1, GivenOther
    <3>3. phase' \in {"tag", "stopped"} /\ UNCHANGED messages
      BY <2>1, <2>13
    <3>4. Given(i)'
      BY <1>3, <3>2, <3>3
    <3>5. Place'
      BY <1>6, <2>10, <3>3, <3>4
    <3> QED BY <2>8, <2>11, <3>3, <3>5
  <2> QED BY <2>12, <2>13
<1> QED BY <1>0, <1>10, <1>11, <1>12, <1>13, <1>14 DEF InFull

(* A read times out: what the call has is lost, and the call is made again *)
(* from where the reader is, or is not.                                    *)
LEMMA PlaceTimeout ==
  ASSUME Types, Place, Layout, Still, Timeout
  PROVE  /\ Place' /\ Layout' /\ nbLeft' \in Nat /\ torn' \in BOOLEAN /\ timeouts' \in Nat
         /\ UNCHANGED <<buf, wire, open, msg, total, isEof, messages>> /\ inEnd' = FALSE
         /\ tag'.size \in Nat /\ got' = << >> /\ phase' # "idle"
<1>0. /\ Waiting /\ timeouts' = timeouts + 1 /\ FailRead(Left) /\ got' = << >> /\ tag' = NoTag
      /\ torn' = (torn \/ got # << >> \/ phase \in {"flv previous", "data", "previous"} \/ inEnd \/ InChunk)
      /\ phase' = "stopped" \/ (InFull /\ phase' = Again)
      /\ UNCHANGED <<messages, buf, msg, total, isEof, wire, open>> /\ inEnd' = FALSE
  BY DEF Timeout, Stop, Goto, FailRead, wireVars
<1>1. timeouts \in Nat /\ total \in Nat /\ got \in Seq(Unit) /\ Len(got) \in Nat /\ torn \in BOOLEAN
  BY DEF Types
<1>2. timeouts' \in Nat /\ timeouts' > 0 /\ (timeouts > 0 => ~(timeouts' <= 1))
  <2>1. timeouts' = timeouts + 1
    BY <1>0
  <2> QED BY ONLY <1>1, <2>1
<1>3. torn' \in BOOLEAN /\ (torn \/ inEnd \/ InChunk => torn')
  BY <1>0
<1>4. Whole' => Whole
  <2>1. timeouts = 0 => ~torn
    BY DEF Place
  <2>2. timeouts = 0 \/ timeouts > 0
    BY <1>1
  <2> QED BY <1>2, <1>3, <2>1, <2>2 DEF Whole
<1>5. sent' = sent /\ Content' = Content /\ Starts' = Starts
  BY StillSame
<1>6. ASSUME NEW i, Given(i) PROVE Given(i)'
  BY <1>0, <1>4, <1>5, <1>6, GivenKept
<1>7. \E i \in 0..Len(sent) : Given(i)'
  BY <1>6 DEF Place
<1>8. Left \in Nat
  <2>1. CASE InFull
    <3>1. Want \in Nat
      BY DEF Want, TagHeaderUnits, Types
    <3>2. Len(got) <= Want
      BY <2>1 DEF Place
    <3> QED BY <1>1, <3>1, <3>2 DEF Left
  <2>2. CASE ~InFull
    <3>1. phase = "headers"
      BY <1>0, <2>2 DEF Waiting, Calling
    <3>2. Want = 1 /\ Len(got) = 0
      <4>1. Want = 1
        BY <3>1 DEF Want
      <4>2. got = << >>
        BY <3>1 DEF Place
      <4> QED BY <4>1, <4>2
    <3> QED BY <3>2 DEF Left
  <2> QED BY <2>1, <2>2
<1>9. Layout' /\ nbLeft' \in Nat /\ Unread' = Unread /\ (inEnd \/ Stray => Stray')
  BY <1>0, <1>3, <1>8, LayoutFailRead
<1>10. NoTag.size = 0 /\ tag'.size \in Nat
  BY <1>0 DEF NoTag
<1>11. phase' # "idle"
  BY <1>0 DEF Again
<1>12. ASSUME phase' = "stopped" PROVE Place'
  <2>1. msg' = NoMsg => got' = << >> /\ messages' = << >>
    BY <1>0 DEF Place
  <2>2. ~InFull' /\ Ended' /\ phase' \notin {"idle", "headers"}
    BY <1>12 DEF InFull, Ended
  <2>3. timeouts' # 0
    BY <1>2
  <2> QED BY <1>5, <1>7, <2>1, <2>2, <2>3 DEF Place
<1>13. ASSUME InFull, phase' = Again, Aligned' \/ Torn' PROVE Place'
  <2>1. phase' \in {"flv", "flv previous", "tag", "data", "previous"}
    BY <1>13 DEF Again
  <2>2. timeouts' # 0
    BY <1>2
  <2> QED BY <1>0, <1>7, <1>10, <1>13, <2>1, <2>2, PlaceGoes
<1>14. ASSUME InFull, phase' = Again PROVE Aligned' \/ Torn'
  <2>1. /\ Code = OK /\ Begin >= 0 /\ total <= Len(Content) /\ Len(got) <= Want /\ (Aligned \/ Torn)
    BY <1>14 DEF Place
  <2>2. phase' = (IF phase \in {"flv", "flv previous"} THEN "flv" ELSE "tag")
    BY <1>14 DEF Again
  <2> DEFINE n == Len(got)
             b == Begin
  <2>3. /\ n \in Nat /\ b \in Nat /\ total = b + n /\ Begin' = b + n /\ (got = << >> <=> n = 0)
    <3>1. n \in Nat /\ total \in Nat /\ b = total - n /\ b >= 0 /\ (got = << >> <=> n = 0)
      BY <1>1, <2>1 DEF Begin
    <3>2. Begin' = total - 0
      <4>1. Len(got') = 0 /\ total' = total
        BY <1>0
      <4> QED BY <4>1 DEF Begin
    <3> HIDE DEF n, b
    <3> QED BY <3>1, <3>2
  <2>4. n <= Want
    BY <2>1
  <2> HIDE DEF n, b
  <2>5. ASSUME phase' = "tag", torn', NEW i \in 1..Len(sent), Starts[i] < Begin', Given(i - 1),
               Begin' < Len(Content) => Content[Begin' + 1].is # "tag"
        PROVE  Torn'
    <3>1. phase' = "tag" /\ torn' /\ timeouts' > 0 /\ i \in 1..Len(sent') /\ Starts'[i] < Begin' /\ Given(i - 1)'
          /\ (Begin' < Len(Content') => Content'[Begin' + 1].is # "tag")
      BY <1>2, <1>5, <1>6, <2>5
    <3> QED BY <3>1 DEF Torn
  <2>6. ASSUME phase' = "tag", torn', NEW i \in 1..Len(sent), Starts[i] < Begin', Begin' < Starts[i + 1], Given(i - 1)
        PROVE  Torn'
    <3>1. Begin' \in Nat
      BY <2>3
    <3>2. Begin' < Len(Content) => Content[Begin' + 1].is # "tag"
      <4> DEFINE p == Begin'
      <4>1. p \in Nat /\ Starts[i] < p /\ p < Starts[i + 1]
        BY <2>6, <3>1
      <4> HIDE DEF p
      <4>2. p < Len(Content) => Content[p + 1].is # "tag"
        BY <2>1, <4>1, NoTagWithin
      <4> QED BY <4>2 DEF p
    <3> QED BY <2>5, <2>6, <3>2
  <2>7. CASE inEnd \/ Stray
    <3>1. Stray' /\ torn'
      BY <1>9, <2>7 DEF Stray
    <3>2. phase' \in {"flv", "tag"} /\ got' = << >> /\ timeouts' > 0 /\ \E i \in 0..Len(sent') : Given(i)'
      BY <1>0, <1>2, <1>5, <1>7, <2>2
    <3> QED BY <3>1, <3>2 DEF Torn
  <2>8. ASSUME ~inEnd, ~Stray PROVE Left > 0 \/ Want = 0
    BY <1>0, <1>14, <2>8 DEF Waiting, Calling, InFull
  <2>9. CASE ~inEnd /\ ~Stray /\ Aligned
    <3>1. CASE phase \in {"flv", "flv previous"}
      <4>1. b = (IF phase = "flv" THEN 0 ELSE 1) /\ Given(0) /\ phase' = "flv"
        BY <2>2, <2>9, <3>1 DEF Aligned, b
      <4>2. CASE phase = "flv" /\ got = << >>
        <5>1. Begin' = 0 /\ Given(0)'
          <6>1. b = 0 /\ n = 0
            BY <2>3, <4>1, <4>2
          <6> QED BY <1>6, <2>3, <4>1, <6>1
        <5> QED BY <4>1, <5>1 DEF Aligned
      <4>3. CASE phase = "flv previous" \/ got # << >>
        <5>1. torn'
          BY <1>0, <4>3
        <5>2. Begin' > 0
          <6>1. b >= 1 \/ n >= 1
            <7>1. b = 1 \/ n # 0
              BY <2>3, <3>1, <4>1, <4>3
            <7>2. b \in Nat /\ n \in Nat
              BY <2>3
            <7> QED BY ONLY <7>1, <7>2
          <6> QED BY <2>3, <6>1
        <5> QED BY <1>2, <1>6, <4>1, <5>1, <5>2 DEF Torn
      <4> QED BY <3>1, <4>2, <4>3
    <3>2. CASE phase = "tag"
      <4>1. PICK i \in 1..Len(sent) + 1 : b = Starts[i] /\ Given(i - 1)
        BY <2>9, <3>2 DEF Aligned, b
      <4>2. phase' = "tag"
        BY <2>2, <3>2
      <4>3. CASE got = << >>
        <5>1. Begin' = Starts'[i] /\ Given(i - 1)' /\ i \in 1..Len(sent') + 1
          <6>1. n = 0
            BY <2>3, <4>3
          <6> QED BY <1>5, <1>6, <2>3, <4>1, <6>1
        <5> QED BY <4>2, <5>1 DEF Aligned
      <4>4. CASE got # << >>
        <5>1. n >= 1 /\ n <= 2 /\ torn'
          <6>1. Want = 2
            BY <3>2 DEF Want, TagHeaderUnits
          <6>2. n <= 2
            BY <2>4, <6>1
          <6>3. n >= 1
            <7>1. n \in Nat /\ n # 0
              BY <2>3, <4>4
            <7> QED BY ONLY <7>1
          <6> QED BY <1>0, <4>4, <6>2, <6>3
        <5>2. i \in 1..Len(sent)
          <6>1. i # Len(sent) + 1
            <7>1. Starts[Len(sent) + 1] = Len(Content) /\ Len(Content) \in Nat
              BY <2>1, StartsShape, ContentUnits DEF Shape, Types, Code, Content
            <7> QED BY <2>1, <2>3, <4>1, <5>1, <7>1
          <6> QED BY <6>1 DEF Types
        <5>3. Starts[i] < Begin' /\ Begin' < Starts[i + 1]
          <6>1. Starts[i] \in Nat /\ Starts[i + 1] = Starts[i] + sent[i].size + 3 /\ sent[i].size \in Nat
            BY <2>1, <5>2, TagAt
          <6>2. Begin' = Starts[i] + n /\ n \in Nat /\ n >= 1 /\ n <= 2
            BY <2>3, <4>1, <5>1
          <6>3. Starts[i] < Starts[i] + n /\ Starts[i] + n < Starts[i + 1]
            BY ONLY <6>1, <6>2
          <6> QED BY <6>2, <6>3
        <5> QED BY <2>6, <4>1, <4>2, <5>1, <5>2, <5>3
      <4> QED BY <4>3, <4>4
    <3>3. CASE phase = "data"
      <4>1. PICK i \in 1..Len(sent) : b = Starts[i] + 2 /\ HasTag(i, << >>) /\ Given(i - 1)
        BY <2>9, <3>3 DEF Aligned, b
      <4>2. phase' = "tag" /\ torn'
        BY <1>0, <2>2, <3>3
      <4>3. Starts[i] < Begin' /\ Begin' < Starts[i + 1]
        <5>1. Starts[i] \in Nat /\ Starts[i + 1] = Starts[i] + sent[i].size + 3 /\ sent[i].size \in Nat
          BY <2>1, TagAt
        <5>2. Want = sent[i].size
          BY <3>3, <4>1 DEF Want, HasTag
        <5>3. Begin' = Starts[i] + 2 + n /\ n \in Nat /\ n <= sent[i].size
          BY <2>3, <2>4, <4>1, <5>2
        <5>4. Starts[i] < Starts[i] + 2 + n /\ Starts[i] + 2 + n < Starts[i + 1]
          BY ONLY <5>1, <5>3
        <5> QED BY <5>3, <5>4
      <4> QED BY <2>6, <4>1, <4>2, <4>3
    <3>4. CASE phase = "previous"
      <4>1. PICK i \in 1..Len(sent) : b = Starts[i + 1] - 1 /\ Given(i - 1)
        BY <2>9, <3>4 DEF Aligned, b
      <4>2. phase' = "tag" /\ torn'
        BY <1>0, <2>2, <3>4
      <4>3. n = 0
        <5>1. Want = 1
          BY <3>4 DEF Want
        <5>2. Left > 0
          BY <2>8, <2>9, <5>1
        <5>3. Left = 1 - n
          BY <5>1 DEF Left, n
        <5> QED BY <2>3, <5>2, <5>3
      <4>4. Starts[i] < Begin' /\ Begin' < Starts[i + 1]
        <5>1. Starts[i] \in Nat /\ Starts[i + 1] = Starts[i] + sent[i].size + 3 /\ sent[i].size \in Nat
          BY <2>1, TagAt
        <5> QED BY <2>3, <4>1, <4>3, <5>1
      <4> QED BY <2>6, <4>1, <4>2, <4>4
    <3> QED BY <1>14, <3>1, <3>2, <3>3, <3>4 DEF InFull
  <2>10. CASE ~inEnd /\ ~Stray /\ Torn
    <3>1. torn /\ timeouts > 0 /\ torn'
      BY <1>3, <2>10 DEF Torn
    <3>2. CASE phase = "flv" /\ Given(0) /\ Begin > 0
      <4>1. Begin' > 0
        <5>1. b > 0
          BY <3>2 DEF b
        <5> QED BY <2>3, <5>1
      <4>2. phase' = "flv"
        BY <2>2, <3>2
      <4> QED BY <1>2, <1>6, <3>1, <3>2, <4>1, <4>2 DEF Torn
    <3>3. CASE phase = "tag" /\ \E i \in 1..Len(sent) : Starts[i] < Begin /\ Given(i - 1)
      <4>1. PICK i \in 1..Len(sent) : Starts[i] < b /\ Given(i - 1)
        BY <3>3 DEF b
      <4>2. phase' = "tag"
        BY <2>2, <3>3
      <4>3. Starts[i] \in Nat /\ Starts[i] < Begin'
        <5>1. Starts[i] \in Nat
          BY <2>1, TagAt
        <5> QED BY <2>3, <4>1, <5>1
      <4>4. CASE Begin' < Len(Content) => Content[Begin' + 1].is # "tag"
        BY <2>5, <3>1, <4>1, <4>2, <4>3, <4>4
      <4>5. CASE Begin' < Len(Content) /\ Content[Begin' + 1].is = "tag"
        <5> DEFINE p == Begin'
        <5>1. p \in Nat /\ p < Len(Content) /\ Content[p + 1].is = "tag" /\ Starts[i] < p
          BY <2>3, <4>3, <4>5
        <5>2. /\ Len(Content) \in Nat /\ Len(sent) \in Nat /\ sent \in Seq(Tags) /\ messages \in Seq(Seen)
              /\ Content = Body(sent) /\ Shape(sent, Starts)
          BY <2>1, StartsShape, ContentUnits DEF Types, Code, Content
        <5> HIDE DEF p
        <5>3. PICK j \in 1..Len(sent) : p + 1 = Starts[j] + 1
          <6>1. \A q \in 1..Len(Content) : Content[q].is = "tag" => \E j \in 1..Len(sent) : q = Starts[j] + 1
            BY <5>2 DEF Shape
          <6>2. p + 1 \in 1..Len(Content)
            BY <5>1, <5>2
          <6> QED BY <5>1, <6>1, <6>2
        <5>4. p = Starts[j]
          <6>1. Starts[j] \in Nat
            BY <2>1, TagAt
          <6> QED BY <5>1, <5>3, <6>1
        <5>5. i < j
          <6>1. \A k, l \in 1..Len(sent) + 1 : k < l => Starts[k] < Starts[l]
            BY <5>2 DEF Shape
          <6>2. i \in 1..Len(sent) + 1 /\ j \in 1..Len(sent) + 1 /\ (i < j \/ i = j \/ j < i)
            BY <5>2
          <6>3. Starts[j] \in Nat /\ Starts[i] < Starts[j]
            BY <2>1, <5>1, <5>4, TagAt
          <6>4. j < i => Starts[j] < Starts[i]
            BY <6>1, <6>2
          <6> QED BY <4>3, <6>2, <6>3, <6>4
        <5>6. ~Whole'
          BY <1>2, <3>1 DEF Whole
        <5>7. i - 1 \in 0..j - 1 /\ j - 1 \in 0..Len(sent) /\ j \in 1..Len(sent) + 1
          BY <5>2, <5>5
        <5>8. Given(j - 1)'
          BY <1>0, <1>5, <4>1, <5>2, <5>6, <5>7, GivenLater
        <5>9. phase' = "tag" /\ Begin' = Starts'[j] /\ Given(j - 1)' /\ j \in 1..Len(sent') + 1
          BY <1>5, <4>2, <5>4, <5>7, <5>8 DEF p
        <5> QED BY <5>9 DEF Aligned
      <4> QED BY <4>4, <4>5
    <3> QED BY <2>10, <3>2, <3>3 DEF Torn
  <2> QED BY <2>1, <2>7, <2>9, <2>10
<1> QED BY <1>0, <1>2, <1>3, <1>9, <1>10, <1>11, <1>12, <1>13, <1>14

(* The headers of the response are parsed.                                 *)
LEMMA PlaceResponse ==
  ASSUME Types, Place, Layout, Still, ReadResponse, UNCHANGED torn
  PROVE  Place' /\ Layout' /\ buf' \in Seq(Unit)
<1>1. /\ phase = "headers" /\ ParseMessage /\ msg = NoMsg
      /\ (IF msg'.code = 200 THEN phase' = "flv" ELSE phase' = "stopped")
      /\ UNCHANGED <<got, tag, messages, torn, timeouts, nbLeft, total, isEof, inEnd>>
  BY DEF ReadResponse, ParseMessage, Goto, Stop, bodyVars
<1>2. Layout' /\ buf' \in Seq(Unit) /\ msg' = Said /\ msg' # NoMsg /\ total = 0
  BY <1>1, LayoutParses
<1>3. CASE msg'.code # 200
  <2>1. phase' = "stopped"
    BY <1>1, <1>3
  <2> QED BY <1>1, <1>2, <2>1, PlaceEnds
<1>4. CASE msg'.code = 200
  <2>1. phase' = "flv" /\ got = << >> /\ messages = << >>
    BY <1>1, <1>4 DEF Place
  <2>2. Code = OK
    BY <1>2, <1>4, SaidType DEF OK
  <2>3. Code' = Code /\ Content' = Content /\ sent' = sent /\ sent \in Seq(Tags) /\ Len(Content) \in Nat
    BY StillSame, ContentUnits DEF Types
  <2>4. Given(0)
    BY <2>1, <2>3, PickedNone DEF Given
  <2>5. Whole' = Whole
    BY <1>1 DEF Whole
  <2>6. Given(0)'
    BY <1>1, <2>3, <2>4, <2>5, GivenKept
  <2>7. total' = 0 /\ Len(got') = 0 /\ Begin' = 0
    <3>1. total' = 0 /\ got' = << >>
      BY <1>1, <1>2, <2>1
    <3>2. Len(got') = 0
      BY <3>1
    <3>3. Begin' = 0 - 0
      BY <3>1, <3>2 DEF Begin
    <3> QED BY <3>1, <3>2, <3>3
  <2>8. Aligned'
    BY <2>1, <2>6, <2>7 DEF Aligned
  <2>9. Want' = 1
    BY <2>1 DEF Want
  <2>10. 0 \in 0..Len(sent)
    BY <2>3
  <2>11. Begin' >= 0 /\ total' <= Len(Content') /\ Len(got') <= Want' /\ \A k \in 1..Len(got') : FALSE
    BY <2>3, <2>7, <2>9
  <2>12. timeouts' = 0 => ~torn'
    BY <1>1 DEF Place
  <2>13. InFull' /\ phase' \notin {"idle", "headers"}
    BY <2>1 DEF InFull
  <2> QED BY <1>2, <2>2, <2>3, <2>6, <2>8, <2>10, <2>11, <2>12, <2>13 DEF Place
<1> QED BY <1>2, <1>3, <1>4

(* What the client may change.                                             *)
LEMMA TypesRead ==
  ASSUME Types, Still, buf' \in Seq(Unit), wire' \in Seq(Unit), got' \in Seq(Unit),
         messages' \in Seq(Seen), torn' \in BOOLEAN, isEof' \in BOOLEAN, inEnd' \in BOOLEAN,
         total' \in Nat, nbLeft' \in Nat, timeouts' \in Nat, tag'.size \in Nat
  PROVE  Types'
BY DEF Types, Still

(* A read of the client that takes nothing of the body.                    *)
LEMMA ReadKeeps ==
  ASSUME Types, Place, Still, UNCHANGED <<clientVars, msg, total>>, Stray => Stray',
         buf' \in Seq(Unit), wire' \in Seq(Unit), isEof' \in BOOLEAN, inEnd' \in BOOLEAN, nbLeft' \in Nat
  PROVE  Types' /\ Place'
<1>1. UNCHANGED <<phase, got, tag, messages, result, torn, timeouts>>
  BY DEF clientVars
<1>2. Begin' = Begin
  BY <1>1 DEF Begin
<1>3. Place'
  BY <1>1, <1>2, PlaceReads
<1>4. /\ got' \in Seq(Unit) /\ messages' \in Seq(Seen) /\ torn' \in BOOLEAN /\ total' \in Nat
      /\ timeouts' \in Nat /\ tag'.size \in Nat
  BY <1>1 DEF Types
<1> QED BY <1>3, <1>4, TypesRead

(* The client reads a part of the body.                                    *)
LEMMA ReadBodyKeeps ==
  ASSUME Types, Place, Layout, Still, ReadBody
  PROVE  Types' /\ Place' /\ Layout'
<1> DEFINE m == Some(Left)
           p == SubSeq(buf, 1, m)
           n == Len(got)
<1>1. /\ InFull /\ ReadSome(Left) /\ got' = got \o p
      /\ UNCHANGED <<phase, tag, messages, torn, timeouts, msg, wire>>
  BY DEF ReadBody, Calling, ReadSome, wireVars
<1>2. /\ msg # NoMsg /\ Begin >= 0 /\ Len(got) <= Want
      /\ \A k \in 1..Len(got) : got[k] = Content[Begin + k]
  BY <1>1 DEF Place
<1>3. n \in Nat /\ total \in Nat /\ got \in Seq(Unit) /\ buf \in Seq(Unit) /\ n <= Want /\ Want \in Nat
  BY <1>2 DEF Types, Want, TagHeaderUnits
<1>4. Left = Want - n /\ Left \in Int
  BY <1>3 DEF Left
<1>5. /\ Layout' /\ buf' \in Seq(Unit) /\ ~Stray
      /\ nbLeft' \in Nat /\ total' \in Nat /\ isEof' \in BOOLEAN /\ inEnd' \in BOOLEAN
      /\ total' = total + m /\ total' <= Len(Content)
      /\ m \in 1..Len(buf) /\ m <= Left
      /\ \A i \in 1..m : buf[i] = Content[total + i]
  BY <1>1, <1>2, <1>4, LayoutReadBody
<1>6. p \in Seq(Unit) /\ Len(p) = m /\ m \in Nat /\ \A i \in 1..m : p[i] = buf[i]
  <2>1. m \in 1..Len(buf)
    BY <1>5
  <2> HIDE DEF m
  <2> QED BY <1>3, <2>1
<1> HIDE DEF m, p
<1>7. /\ got' \in Seq(Unit) /\ Len(got') = n + m
      /\ \A i \in 1..n : got'[i] = got[i]
      /\ \A i \in 1..m : got'[n + i] = p[i]
  <2>1. got \in Seq(Unit) /\ p \in Seq(Unit)
    BY <1>3, <1>6
  <2>2. /\ got \o p \in Seq(Unit) /\ Len(got \o p) = Len(got) + Len(p)
        /\ \A i \in 1..Len(got) : (got \o p)[i] = got[i]
        /\ \A i \in 1..Len(p) : (got \o p)[Len(got) + i] = p[i]
    BY ONLY <2>1, Concat
  <2> QED BY <1>1, <1>6, <2>2
<1> DEFINE b == Begin
<1>8. b = total - n /\ b \in Int
  BY <1>3 DEF Begin
<1>9. Begin' = b
  <2>1. Begin' = (total + m) - (n + m)
    BY <1>5, <1>7 DEF Begin
  <2> HIDE DEF n, b
  <2> QED BY <1>3, <1>6, <1>8, <2>1
<1> HIDE DEF n, b
<1>10. Len(got') <= Want
  BY <1>3, <1>4, <1>5, <1>6, <1>7
<1>11. \A k \in 1..Len(got') : got'[k] = Content[b + k]
  <2> SUFFICES ASSUME NEW k \in 1..Len(got') PROVE got'[k] = Content[b + k]
    OBVIOUS
  <2>1. CASE k <= n
    <3>1. k \in 1..n
      BY <1>3, <1>7, <2>1
    <3>2. got[k] = Content[Begin + k]
      BY <1>2, <3>1 DEF n
    <3> QED BY <1>7, <3>1, <3>2 DEF b
  <2>2. CASE k > n
    <3>1. k - n \in 1..m /\ n + (k - n) = k /\ total + (k - n) = b + k
      BY <1>3, <1>6, <1>7, <1>8, <2>2
    <3>2. got'[n + (k - n)] = p[k - n]
      BY <1>7, <3>1
    <3>3. p[k - n] = buf[k - n]
      BY <1>6, <3>1
    <3>4. buf[k - n] = Content[total + (k - n)]
      BY <1>5, <3>1
    <3> QED BY <3>1, <3>2, <3>3, <3>4
  <2>3. k <= n \/ k > n
    BY <1>3, <1>7
  <2> QED BY <2>1, <2>2, <2>3
<1>12. Place'
  BY <1>1, <1>5, <1>9, <1>10, <1>11, PlaceReads DEF b
<1>13. /\ wire' \in Seq(Unit) /\ messages' \in Seq(Seen) /\ torn' \in BOOLEAN
       /\ timeouts' \in Nat /\ tag'.size \in Nat
  BY <1>1 DEF Types
<1> QED BY <1>5, <1>7, <1>12, <1>13, TypesRead

(* The client changes nothing of the server, and has not come to its end.  *)
LEMMA ClientAlone ==
  ASSUME Client \/ ClientTimeout
  PROVE  Still /\ phase' # "idle" /\ (InFull \/ phase = "headers")
<1>1. (ClientStep \/ Timeout) /\ ServerIdle
  BY DEF Client, ClientTimeout
<1>2. open' = open
  BY <1>1 DEF ClientStep, ReadResponse, ReadChunkHeader, ReadMisread, ReadChunkEnd, ReadEndOfLength, ReadBody,
     Failing, Complete, Closed, ReceiveSome, Timeout, ParseMessage, ChunkHeader, MisreadChunk, BeginChunk,
     ChunkEnd, EndOfLength, ReadSome, Receive, FailRead, wireVars
<1>3. Still
  BY <1>1, <1>2 DEF Still, ServerIdle, writerVars, serverVars
<1>4. phase' # "idle" /\ (InFull \/ phase = "headers")
  BY <1>1 DEF ClientStep, ReadResponse, ReadChunkHeader, ReadMisread, ReadChunkEnd, ReadEndOfLength, ReadBody,
     Failing, Complete, Closed, ReceiveSome, Timeout, Calling, InFull, Waiting, Goto, Stop, Again, clientVars
<1> QED BY <1>3, <1>4

(* Every step of the client that takes nothing for what it is not.         *)
LEMMA ClientKeeps ==
  ASSUME Types, Writing, Layout, Place, ~astray, ~astray', Client \/ ClientTimeout
  PROVE  Types' /\ Writing' /\ Layout' /\ Place'
<1>1. ClientStep \/ Timeout
  BY DEF Client, ClientTimeout
<1>2. Still /\ phase' # "idle"
  BY ClientAlone
<1>3. Still
  BY <1>2
<1>4. InFull => msg # NoMsg /\ phase # "idle"
  BY DEF Place, InFull
<1>5. phase' # "idle" /\ open' = open
  BY <1>2, StillSame
<1>6. Writing'
  BY <1>2, WritingKept
<1>7. /\ buf \in Seq(Unit) /\ wire \in Seq(Unit) /\ got \in Seq(Unit) /\ messages \in Seq(Seen)
      /\ torn \in BOOLEAN /\ isEof \in BOOLEAN /\ inEnd \in BOOLEAN
      /\ total \in Nat /\ nbLeft \in Nat /\ timeouts \in Nat /\ tag.size \in Nat
  BY DEF Types
<1>8. ASSUME UNCHANGED <<readerVars, wireVars, got, tag, messages, torn, timeouts>>,
             phase' \in {"stopped", "aborted"}
      PROVE  Types' /\ Layout' /\ Place'
  <2>1. UNCHANGED <<buf, msg, nbLeft, total, isEof, inEnd, wire, open, got, tag, messages, torn, timeouts>>
    BY <1>8 DEF readerVars, wireVars
  <2>2. Unread' = Unread
    BY <2>1 DEF Unread
  <2> QED BY <1>3, <1>7, <1>8, <2>1, <2>2, LayoutSame, PlaceEnds, TypesRead
<1>9. CASE ReadResponse
  <2>1. UNCHANGED <<got, tag, messages, torn, timeouts, nbLeft, total, isEof, inEnd, wire>>
    BY <1>9 DEF ReadResponse, ParseMessage, bodyVars, wireVars
  <2> QED BY <1>3, <1>6, <1>7, <1>9, <2>1, PlaceResponse, TypesRead
<1>10. CASE ReadChunkHeader
  <2>1. InFull /\ ChunkHeader /\ UNCHANGED <<clientVars, msg, total, torn, wire>>
    BY <1>10 DEF ReadChunkHeader, ChunkHeader, BeginChunk, Calling, clientVars, wireVars
  <2>2. Layout' /\ buf' \in Seq(Unit) /\ nbLeft' \in Nat /\ isEof' \in BOOLEAN /\ inEnd' \in BOOLEAN /\ ~Stray
    BY <1>3, <1>4, <2>1, LayoutChunkHeader
  <2> QED BY <1>3, <1>6, <1>7, <2>1, <2>2, ReadKeeps
<1>11. CASE ReadChunkEnd
  <2>1. InFull /\ ChunkEnd /\ UNCHANGED <<clientVars, msg, total, torn, wire, nbLeft, isEof>> /\ inEnd' = FALSE
    BY <1>11 DEF ReadChunkEnd, ChunkEnd, clientVars, wireVars
  <2>2. Layout' /\ buf' \in Seq(Unit) /\ ~Stray
    BY <1>3, <1>4, <2>1, LayoutChunkEnd
  <2> QED BY <1>3, <1>6, <1>7, <2>1, <2>2, ReadKeeps
<1>12. CASE ReadEndOfLength
  <2>1. InFull /\ EndOfLength /\ UNCHANGED <<clientVars, buf, msg, total, torn, wire, nbLeft, inEnd>> /\ isEof' = TRUE
    BY <1>12 DEF ReadEndOfLength, EndOfLength, Calling, clientVars, wireVars
  <2>2. Layout'
    BY <1>3, <1>4, <2>1, LayoutEndOfLength
  <2>3. ~Stray
    BY <2>1 DEF EndOfLength, ByLength, Stray
  <2> QED BY <1>3, <1>6, <1>7, <2>1, <2>2, <2>3, ReadKeeps
<1>13. CASE ReadBody
  BY <1>3, <1>6, <1>13, ReadBodyKeeps
<1>14. CASE Failing
  BY <1>6, <1>8, <1>14 DEF Failing, Stop, Goto
<1>15. CASE Complete
  <2>1. UNCHANGED <<buf, msg, nbLeft, total, isEof, inEnd, wire, torn, timeouts>> /\ got' = << >>
    BY <1>15 DEF Complete, readerVars, wireVars
  <2>2. Unread' = Unread
    BY <2>1 DEF Unread
  <2>3. Layout'
    BY <1>3, <2>1, <2>2, LayoutSame
  <2>4. Place' /\ messages' \in Seq(Seen) /\ tag'.size \in Nat
    <3>1. phase = "tag" => got[1].is = "tag"
      BY <1>15 DEF Complete
    <3> QED BY <1>3, <1>15, <3>1, PlaceComplete
  <2>5. got' \in Seq(Unit)
    BY <2>1
  <2> QED BY <1>3, <1>6, <1>7, <2>1, <2>3, <2>4, <2>5, TypesRead
<1>16. CASE Closed
  BY <1>6, <1>8, <1>16 DEF Closed, Stop
<1>17. CASE \E n \in Arrivals : ReceiveSome(n)
  <2>1. PICK n \in Arrivals : ReceiveSome(n)
    BY <1>17
  <2>2. Receive(n) /\ UNCHANGED <<clientVars, msg, nbLeft, total, isEof, inEnd, torn>>
    BY <2>1 DEF ReceiveSome, Receive, bodyVars, clientVars
  <2>3. buf' \in Seq(Unit) /\ wire' \in Seq(Unit) /\ Unread' = Unread
    BY <1>7, <2>2, UnreadArrives
  <2>4. Layout'
    BY <1>3, <2>2, <2>3, LayoutSame
  <2>5. Stray => Stray'
    BY <1>5, <2>2, <2>3 DEF Stray
  <2> QED BY <1>3, <1>6, <1>7, <2>2, <2>3, <2>4, <2>5, ReadKeeps
<1>18. CASE Timeout
  <2>1. /\ Place' /\ Layout' /\ nbLeft' \in Nat /\ torn' \in BOOLEAN /\ timeouts' \in Nat
        /\ UNCHANGED <<buf, wire, open, msg, total, isEof, messages>> /\ inEnd' = FALSE
        /\ tag'.size \in Nat /\ got' = << >>
    BY <1>3, <1>18, PlaceTimeout
  <2>2. got' \in Seq(Unit)
    BY <2>1
  <2> QED BY <1>3, <1>6, <1>7, <2>1, <2>2, TypesRead
<1>19. ~ReadMisread
  BY DEF ReadMisread
<1> QED BY <1>1, <1>9, <1>10, <1>11, <1>12, <1>13, <1>14, <1>15, <1>16, <1>17, <1>18, <1>19 DEF ClientStep

(* A step of the server on a response with headers.                        *)
LEMMA ServerLays ==
  ASSUME Types, Writing, Layout, Server \/ Close, headerSent \/ ~\E n \in Pieces : WritevBody(n)
  PROVE  /\ Types' /\ Writing' /\ Layout' /\ ClientIdle
         /\ msg # NoMsg => /\ UNCHANGED <<status, sent>> /\ (Stray => Stray')
                           /\ (served = "done" => served' = "done")
<1>1. ClientIdle
  BY DEF Server, Close, ServeHttp, Finish, ServeOther, WriteBody, WritevBody, SendOther
<1>2. served = "idle" => msg = NoMsg
  BY DEF Layout, Nothing
<1>5. CASE ServeHttp
  <2>1. msg = NoMsg
    BY <1>2, <1>5 DEF ServeHttp, Serving
  <2>2. Types' /\ Writing' /\ Layout'
    BY <1>5, ServeHttpKeeps
  <2> QED BY <1>1, <2>1, <2>2
<1>6. CASE ServeOther
  <2>1. msg = NoMsg
    BY <1>2, <1>6 DEF ServeOther, Serving
  <2>2. Types' /\ Writing' /\ Layout'
    BY <1>6, ServeOtherKeeps
  <2> QED BY <1>1, <2>1, <2>2
<1>7. CASE Finish
  <2>1. UNCHANGED <<status, sent>> /\ served = "serving"
    BY <1>7 DEF Finish, FinalRequest
  <2>2. Types' /\ Writing' /\ Layout' /\ (Stray => Stray')
    BY <1>7, FinishKeeps
  <2> QED BY <1>1, <2>1, <2>2
<1>8. ASSUME NEW n \in Pieces, WriteBody(n) \/ WritevBody(n) \/ SendOther(n)
      PROVE  /\ Types' /\ Writing' /\ Layout' /\ (Stray => Stray')
             /\ UNCHANGED <<status, sent>> /\ served # "done"
  <2>1. n \in Nat \ {0}
    BY PiecesAssumption
  <2>2. UNCHANGED <<status, sent>> /\ served # "done"
    BY <1>8 DEF WriteBody, WritevBody, SendOther, Sending, Write, Writev, writerVars
  <2>3. Types' /\ Writing' /\ Layout' /\ (Stray => Stray')
    BY <1>8, <2>1, WriteBodyKeeps, WritevBodyKeeps, SendOtherKeeps
  <2> QED BY <2>2, <2>3
<1>9. CASE Close
  <2>1. UNCHANGED <<status, sent>> /\ (served = "done" => served' = "done")
    BY <1>9 DEF Close, writerVars
  <2>2. Types' /\ Writing' /\ Layout' /\ (Stray => Stray')
    BY <1>9, CloseKeeps
  <2> QED BY <1>1, <2>1, <2>2
<1> QED BY <1>1, <1>5, <1>6, <1>7, <1>8, <1>9 DEF Server

(* What the client has stays, too.                                         *)
LEMMA ServerKeeps ==
  ASSUME Types, Writing, Layout, Place, Server \/ Close, headerSent \/ ~\E n \in Pieces : WritevBody(n)
  PROVE  /\ Types' /\ Writing' /\ Layout' /\ Place' /\ ClientIdle
         /\ msg # NoMsg => UNCHANGED sent /\ (served = "done" => served' = "done")
<1>1. /\ Types' /\ Writing' /\ Layout' /\ ClientIdle
      /\ msg # NoMsg => /\ UNCHANGED <<status, sent>> /\ (Stray => Stray')
                        /\ (served = "done" => served' = "done")
  BY ServerLays
<1>2. sent' \in Seq(Tags)
  BY <1>1 DEF Types
<1>3. Place'
  BY <1>1, <1>2, PlaceServer
<1> QED BY <1>1, <1>3

(* The client asks for its stream, or a handler is registered before.      *)
LEMMA AskKeeps ==
  ASSUME Types, Writing, Layout, Place, NEW r, Register(r) \/ Play(r)
  PROVE  Types' /\ Writing' /\ Layout' /\ Place' /\ phase' \in {"idle", "headers"} /\ UNCHANGED result
         /\ phase = "idle"
<1>1. /\ UNCHANGED <<msg, got, messages, torn, timeouts, sent, result>>
      /\ phase = "idle" /\ phase' \in {"idle", "headers"}
  BY DEF Register, Play, ClientIdle, readerVars, clientVars, serverVars, Goto
<1>2. Types' /\ Writing' /\ Layout'
  BY PlayKeeps
<1>3. Whole' = Whole
  BY <1>1 DEF Whole
<1>4. \E i \in 0..Len(sent') : Given(i)'
  <2>1. PICK i \in 0..Len(sent) : Given(i)
    BY DEF Place
  <2>2. Given(i)'
    BY <1>1, <1>3, <2>1, GivenKept
  <2> QED BY <1>1, <2>1, <2>2
<1>5. msg' = NoMsg /\ got' = << >> /\ messages' = << >> /\ (timeouts' = 0 => ~torn')
  BY <1>1 DEF Place
<1>6. ~InFull'
  BY <1>1 DEF InFull
<1> QED BY <1>1, <1>2, <1>4, <1>5, <1>6 DEF Place

(* When all of the body is read, and the call at hand wants more, every    *)
(* tag was given.                                                          *)
LEMMA AllGiven ==
  ASSUME Types, Place, Calling, ~torn, total = Len(Content)
  PROVE  messages = Delivered
<1>1. InFull /\ (Left > 0 \/ Want = 0)
  BY DEF Calling
<1>2. Code = OK /\ Begin >= 0 /\ Len(got) <= Want /\ Aligned
  BY <1>1 DEF Place, Torn
<1> DEFINE n == Len(got)
           b == Begin
           s == Len(sent)
<1>3. n \in Nat /\ Want \in Nat /\ b \in Nat /\ b + n = Len(Content) /\ n <= Want /\ (n < Want \/ Want = 0)
  <2>1. n \in Nat /\ total \in Nat /\ Want \in Nat
    BY DEF Types, Want, TagHeaderUnits
  <2>2. b = total - n /\ Left = Want - n /\ b >= 0 /\ n <= Want
    BY <1>2 DEF Begin, Left
  <2> HIDE DEF n, b
  <2> QED BY <1>1, <2>1, <2>2
<1>4. /\ s \in Nat /\ Content = Body(sent) /\ Len(Content) >= 2 /\ sent \in Seq(Tags)
      /\ Starts[s + 1] = Len(Content) /\ Len(Content) \in Nat
  <2>1. Content = Body(sent) /\ sent \in Seq(Tags)
    BY <1>2 DEF Types, Code, Content
  <2>2. Len(Content) >= 2 /\ Len(Content) \in Nat
    BY <2>1, BodyShape, ContentUnits
  <2>3. Starts[s + 1] = Len(Content) /\ s \in Nat
    <3>1. Shape(sent, Starts)
      BY <2>1, StartsShape
    <3>2. Starts[Len(sent) + 1] = Len(Content)
      BY <2>1, <3>1 DEF Shape
    <3>3. Len(sent) \in Nat
      BY <2>1
    <3> QED BY <3>2, <3>3
  <2> QED BY <2>1, <2>2, <2>3
<1>5. \A i \in 1..s : /\ Starts[i] \in Nat /\ sent[i].size \in Nat
                      /\ Starts[i + 1] = Starts[i] + sent[i].size + 3 /\ Starts[i + 1] <= Len(Content)
  BY <1>2, TagAt
<1> HIDE DEF n, b, s
<1>6. ~(phase \in {"flv", "flv previous"})
  <2> SUFFICES ASSUME phase \in {"flv", "flv previous"} PROVE FALSE
    OBVIOUS
  <2>1. b \in {0, 1}
    BY <1>2 DEF Aligned, b
  <2>2. Want = 1
    BY DEF Want
  <2>3. n = 0
    BY ONLY <1>3, <2>2
  <2>4. b + 0 >= 2
    BY <1>3, <1>4, <2>3
  <2> QED BY ONLY <2>1, <2>4
<1>7. phase # "data"
  <2> SUFFICES ASSUME phase = "data" PROVE FALSE
    OBVIOUS
  <2>1. PICK i \in 1..s : b = Starts[i] + 2 /\ HasTag(i, << >>)
    BY <1>2 DEF Aligned, b, s
  <2>2. Want = sent[i].size
    BY <2>1 DEF Want, HasTag
  <2>3. /\ Starts[i] \in Nat /\ sent[i].size \in Nat /\ b = Starts[i] + 2
        /\ Starts[i] + sent[i].size + 3 <= Len(Content) /\ Len(Content) \in Nat
    BY <1>4, <1>5, <2>1
  <2>4. n <= sent[i].size /\ n \in Nat /\ b + n = Len(Content)
    BY <1>3, <2>2
  <2> QED BY ONLY <2>3, <2>4
<1>8. phase # "previous"
  <2> SUFFICES ASSUME phase = "previous" PROVE FALSE
    OBVIOUS
  <2>1. PICK i \in 1..s : b = Starts[i + 1] - 1
    BY <1>2 DEF Aligned, b, s
  <2>2. Want = 1
    BY DEF Want
  <2>3. /\ Starts[i + 1] \in Nat /\ b = Starts[i + 1] - 1
        /\ Starts[i + 1] <= Len(Content) /\ Len(Content) \in Nat
    <3>1. Starts[i] \in Nat /\ sent[i].size \in Nat /\ Starts[i + 1] = Starts[i] + sent[i].size + 3
      BY <1>5
    <3>2. Starts[i + 1] \in Nat
      BY ONLY <3>1
    <3> QED BY <1>4, <1>5, <2>1, <3>2
  <2>4. n = 0
    BY ONLY <1>3, <2>2
  <2>5. b + 0 = Len(Content)
    BY <1>3, <2>4
  <2> QED BY ONLY <2>3, <2>5
<1>9. phase = "tag"
  BY <1>1, <1>6, <1>7, <1>8 DEF InFull
<1>10. PICK i \in 1..s + 1 : b = Starts[i] /\ Given(i - 1)
  BY <1>2, <1>9 DEF Aligned, b, s
<1>11. i = s + 1
  <2> SUFFICES ASSUME i # s + 1 PROVE FALSE
    OBVIOUS
  <2>1. i \in 1..s
    BY <1>4
  <2>2. Want = 2
    BY <1>9 DEF Want, TagHeaderUnits
  <2>3. /\ Starts[i] \in Nat /\ sent[i].size \in Nat /\ b = Starts[i]
        /\ Starts[i] + sent[i].size + 3 <= Len(Content) /\ Len(Content) \in Nat
    BY <1>4, <1>5, <1>10, <2>1
  <2>4. n < 2 /\ n \in Nat
    BY ONLY <1>3, <2>2
  <2>5. b + n = Len(Content)
    BY <1>3
  <2> QED BY ONLY <2>3, <2>4, <2>5
<1>12. i - 1 = s
  BY <1>4, <1>11
<1>13. messages = Due(sent, Len(sent))
  <2>1. Given(Len(sent))
    BY <1>10, <1>12 DEF s
  <2>2. Whole
    BY DEF Whole
  <2> QED BY <2>1, <2>2 DEF Given
<1>14. Media(sent, Len(sent)) = Among(sent, MediaOf(sent))
  BY <1>4, MediaNext
<1> QED BY <1>13, <1>14 DEF Due, Delivered

-----------------------------------------------------------------------------
(* Why the client stops.                                                   *)
Told ==
    /\ result # "none" => phase = "stopped"
    /\ result = "eof" => msg # NoMsg
    /\ FailsForAReason
    /\ EofAtEnd

(* The end of the response is the end of the body.                         *)
LEMMA EndOfBody ==
  ASSUME Types, Layout, Place, Calling, isEof, ~inEnd, ~torn
  PROVE  IF msg.chunked THEN served = "done" /\ messages = Delivered
         ELSE total = msg.length /\ (total = Len(Body(sent)) => messages = Delivered)
<1>1. InFull
  BY DEF Calling
<1>2. msg # NoMsg /\ Code = OK
  BY <1>1 DEF Place
<1>3. ~Stray
  BY DEF Stray
<1>4. msg = Said /\ Rest(0, Unread) /\ msg.chunked = Chunked /\ msg.length = contentLength
  BY <1>2, <1>3, LayoutParsed, SaidType
<1>5. Content = Body(sent)
  BY <1>2 DEF Types, Code, Content
<1>6. total = Len(Content) => messages = Delivered
  BY AllGiven
<1>7. CASE Chunked
  <2>1. PICK s \in State, t \in State : Chunks(0, Unread, s, t)
    BY <1>4, <1>7 DEF Rest, Raw
  <2>2. Reader(s)
    BY <2>1 DEF Chunks
  <2>3. served = "done" /\ total = Len(Content)
    BY <2>2 DEF Reader
  <2> QED BY <1>2, <1>4, <1>6, <1>7, <2>3
<1>8. CASE ~Chunked
  <2>1. Raw(0, Unread)
    BY <1>4, <1>8 DEF Rest, Chunks
  <2>2. ~InChunks /\ total >= contentLength /\ total <= contentLength
    BY <2>1 DEF Raw
  <2>3. total = contentLength
    BY <2>2 DEF Types
  <2> QED BY <1>2, <1>4, <1>5, <1>6, <1>8, <2>3
<1> QED BY <1>7, <1>8

(* What a chunk begins with is its size, unless the client is astray.      *)
LEMMA SizeIsThere ==
  ASSUME Types, Layout, msg # NoMsg, EmptyChunkHeader \/ NoChunkHeader
  PROVE  torn
<1> SUFFICES ASSUME ~torn PROVE FALSE
  OBVIOUS
<1>1. NewChunk /\ (LineLength = 2 \/ (LineLength > 2 /\ buf[1].is # "size"))
  BY DEF EmptyChunkHeader, NoChunkHeader
<1>2. LineLength # 0
  BY <1>1
<1>3. Len(buf) >= 2 /\ (LineLength = 2 => buf[1] = Line[1])
  BY <1>2, BufFirst, LineOfSize
<1>4. ~Stray
  BY DEF Stray
<1>5. PICK s \in State, t \in State : Chunks(0, Unread, s, t) /\ s.mode = "head"
  BY <1>1, <1>4, AtSize
<1>6. Way(Content, End, Unread, 0, s, t)
  BY <1>5 DEF Chunks
<1>7. Unread \in Seq(Unit) /\ 1 <= Len(Unread) /\ Unread[1] = buf[1]
  <2>1. 1 \in 1..Len(buf) /\ Len(Unread) >= 1
    <3>1. Len(buf) \in Nat /\ Len(Unread) \in Nat /\ Len(buf) <= Len(Unread)
      BY BufFirst
    <3> QED BY ONLY <1>3, <3>1
  <2> QED BY <2>1, BufFirst
<1>8. Unread[1].is = "size"
  <2>1. Len(Unread) >= 1 => Unread[1].is = "size"
    BY <1>5, <1>6, <1>7, WayHead
  <2> QED BY <1>7, <2>1
<1>9. Line[1].is # "size"
  BY LineUnits
<1> QED BY <1>1, <1>3, <1>7, <1>8, <1>9

(* An assertion fails only when nothing is asked for.                      *)
LEMMA AssertsOnEmpty ==
  ASSUME Types, msg.length \in Int, Calling, Asserts(Left), Len(got) <= Want,
         phase = "data" => tag.type # "none"
  PROVE  tag.type # "none" /\ tag.size = 0
<1>1. InFull /\ (Left > 0 \/ Want = 0)
  BY DEF Calling
<1>2. Len(got) <= Want
  OBVIOUS
<1>3. Len(got) \in Nat /\ Want \in Nat /\ nbLeft \in Nat /\ total \in Nat /\ Len(buf) \in Nat
  BY DEF Types, Want, TagHeaderUnits
<1>4. Left = Want - Len(got)
  BY DEF Left
<1>5. Left \in Nat
  BY <1>2, <1>3, <1>4
<1>6. InBody /\ ((msg.chunked /\ nbLeft = 0) \/ (buf # << >> /\ Some(Left) = 0))
  BY DEF Asserts
<1>7. msg.chunked => nbLeft > 0
  BY <1>3, <1>6 DEF InBody, InChunk, ByLength, AllRead
<1>8. buf # << >> /\ Some(Left) = 0
  BY <1>6, <1>7
<1>9. Len(buf) > 0
  <2>1. Len(buf) # 0
    BY <1>8 DEF Types
  <2> QED BY <1>3, <2>1
<1>10. Left = 0
  <2> DEFINE l == Left
  <2>1. \A m \in Nat : Lesser(m, Len(buf)) = 0 => m = 0
    BY <1>3, <1>9 DEF Lesser
  <2>2. CASE msg.chunked
    <3>1. Lesser(Lesser(l, nbLeft), Len(buf)) = 0
      BY <1>8, <2>2 DEF Some, ByLength
    <3>2. l \in Nat /\ nbLeft \in Nat /\ nbLeft > 0
      BY <1>3, <1>5, <1>7, <2>2
    <3> HIDE DEF l
    <3>3. Lesser(l, nbLeft) \in Nat
      BY ONLY <3>2 DEF Lesser
    <3>4. Lesser(l, nbLeft) = 0
      BY <2>1, <3>1, <3>3
    <3>5. l = 0
      BY ONLY <3>2, <3>4 DEF Lesser
    <3> QED BY <3>5 DEF l
  <2>3. CASE ~msg.chunked /\ ByLength
    <3>1. LengthLeft > 0 /\ LengthLeft \in Int
      <4>1. LengthLeft > 0
        BY <1>6, <2>3 DEF InBody, InChunk, ByLength
      <4>2. LengthLeft \in Int
        <5> QED BY <1>3 DEF LengthLeft, Remaining
      <4> QED BY <4>1, <4>2
    <3>2. Lesser(l, LengthLeft) \in Nat
      BY <1>5, <3>1 DEF Lesser
    <3>3. Lesser(Lesser(l, LengthLeft), Len(buf)) = 0
      BY <1>8, <2>3 DEF Some
    <3>4. Lesser(l, LengthLeft) = 0
      BY <2>1, <3>2, <3>3
    <3> QED BY <1>5, <3>1, <3>4 DEF Lesser
  <2>4. CASE ~msg.chunked /\ ~ByLength
    <3>1. Lesser(l, Len(buf)) = 0
      BY <1>8, <2>4 DEF Some
    <3> QED BY <1>5, <2>1, <3>1
  <2> QED BY <2>2, <2>3, <2>4
<1>11. Want = 0
  BY <1>1, <1>10
<1>12. phase = "data" /\ tag.size = 0
  BY <1>11 DEF Want, TagHeaderUnits
<1> QED BY <1>12

(* The tag at hand has a type.                                             *)
LEMMA HasAType ==
  ASSUME Types, Place, phase = "data"
  PROVE  tag.type # "none"
<1>1. Aligned
  BY DEF Place, InFull, Torn
<1>2. PICK i \in 1..Len(sent) : HasTag(i, << >>)
  BY <1>1 DEF Aligned
<1>3. tag.type = sent[i].type
  BY <1>2 DEF HasTag
<1>4. sent[i].type # NoTag.type
  <2>1. sent \in Seq(Tags)
    BY DEF Types
  <2>2. sent[i] \in Tags
    BY <2>1
  <2> QED BY <2>2 DEF Tags
<1> QED BY <1>3, <1>4 DEF NoTag

(* A part of the FLV that is not what it should be was torn.               *)
LEMMA PartIsThere ==
  ASSUME Types, Place, InFull, Left = 0, Want > 0, phase = "flv" => got[1].is # "FLV",
         phase = "tag" => got[1].is # "tag", phase \in {"flv", "tag"}
  PROVE  torn
<1> SUFFICES ASSUME ~torn PROVE FALSE
  OBVIOUS
<1>1. /\ Code = OK /\ Begin >= 0 /\ total <= Len(Content) /\ Aligned
      /\ \A k \in 1..Len(got) : got[k] = Content[Begin + k]
  BY DEF Place, Torn
<1>2. Len(got) = Want /\ Len(got) \in Nat /\ Want \in Nat
  <2>1. Len(got) \in Nat /\ Want \in Nat
    BY DEF Types, Want, TagHeaderUnits
  <2>2. Want - Len(got) = 0
    BY DEF Left
  <2> QED BY ONLY <2>1, <2>2
<1>3. got[1] = Content[Begin + 1]
  <2>1. 1 \in 1..Len(got)
    BY <1>2
  <2> QED BY <1>1, <2>1
<1>4. /\ Content = Body(sent) /\ Shape(sent, Starts) /\ Len(Content) \in Nat /\ Len(sent) \in Nat
  BY <1>1, StartsShape, ContentUnits DEF Types, Code, Content
<1>5. phase # "flv"
  <2> SUFFICES ASSUME phase = "flv" PROVE FALSE
    OBVIOUS
  <2>1. Begin = 0
    BY <1>1 DEF Aligned
  <2>2. Content[1] = FlvHeader[1]
    BY <1>4 DEF Shape
  <2>3. got[1] = Content[1]
    BY <1>3, <2>1
  <2> QED BY <2>2, <2>3, BodyEmpty
<1>6. phase = "tag"
  BY <1>5
<1>7. PICK i \in 1..Len(sent) + 1 : Begin = Starts[i]
  BY <1>1, <1>6 DEF Aligned
<1>8. i \in 1..Len(sent)
  <2>1. i # Len(sent) + 1
    <3> SUFFICES ASSUME i = Len(sent) + 1 PROVE FALSE
      OBVIOUS
    <3>1. Begin = Len(Content)
      BY <1>4, <1>7 DEF Shape
    <3>2. total - Len(got) = Len(Content) /\ total \in Nat
      BY <3>1 DEF Begin, Types
    <3>3. total <= Len(Content) /\ Len(got) > 0 /\ Len(got) \in Nat /\ Len(Content) \in Nat
      BY <1>1, <1>2, <1>4
    <3> QED BY ONLY <3>2, <3>3
  <2> QED BY <1>4, <2>1
<1>9. Content[Starts[i] + 1].is = "tag"
  BY <1>1, <1>8, TagAt
<1> QED BY <1>3, <1>6, <1>7, <1>9

(* Other ends say nothing.                                                 *)
LEMMA ToldOther ==
  ASSUME result' \notin {"eof", "chunk", "flv"}, phase' # "aborted",
         result' = "none" \/ phase' = "stopped", ~astray', strays' = << >>
  PROVE  Told'
BY DEF Told, FailsForAReason, KeepsItsPlace, AbortsOnEmptyTag, EofAtEnd

(* What the client gives before it is astray is no stray.                  *)
LEMMA StraysKept ==
  ASSUME Client \/ ClientTimeout, ~astray
  PROVE  strays' = strays
<1>1. ClientStep \/ Timeout
  BY DEF Client, ClientTimeout
<1>2. CASE Complete
  <2>1. CASE phase = "previous"
    BY <1>2, <2>1 DEF Complete, Give
  <2>2. CASE phase # "previous"
    <3>1. phase \in {"flv", "flv previous", "tag", "data"}
      BY <1>2, <2>2 DEF Complete, InFull
    <3>2. phase = "tag" => UNCHANGED strays
      BY <1>2 DEF Complete, strayVars
    <3>3. phase \in {"flv", "flv previous", "data"} => UNCHANGED strayVars
      BY <1>2 DEF Complete
    <3> QED BY <3>1, <3>2, <3>3 DEF strayVars
  <2> QED BY <2>1, <2>2
<1>3. CASE ReadMisread
  BY <1>3 DEF ReadMisread
<1>4. CASE ~Complete /\ ~ReadMisread
  BY <1>1, <1>4 DEF ClientStep, ReadResponse, ReadChunkHeader, ReadChunkEnd, ReadEndOfLength, ReadBody,
     Failing, Closed, ReceiveSome, Timeout, clientVars, strayVars
<1> QED BY <1>2, <1>3, <1>4

(* The client stops for the reason that it gives.                          *)
LEMMA ClientTold ==
  ASSUME Types, Layout, Place, Told, Client \/ ClientTimeout, ~astray, ~astray', strays = << >>
  PROVE  Told'
<1>1. (ClientStep \/ Timeout) /\ UNCHANGED <<served, sent>>
  BY DEF Client, ClientTimeout, ServerIdle, serverVars
<1>2. InFull \/ phase = "headers"
  BY ClientAlone
<1>0. strays' = << >>
  BY StraysKept
<1>3. result = "none" /\ phase \notin {"stopped", "aborted", "idle"}
  BY <1>2 DEF Told, InFull
<1>4. ASSUME UNCHANGED clientVars PROVE Told'
  <2>1. UNCHANGED <<phase, result>>
    BY <1>4 DEF clientVars
  <2> QED BY <1>0, <1>3, <2>1, ToldOther
<1>5. ASSUME UNCHANGED result, phase' # "aborted" PROVE Told'
  BY <1>0, <1>3, <1>5, ToldOther
<1>6. ASSUME NEW e, e \notin {"eof", "chunk", "flv"}, Stop(e) PROVE Told'
  BY <1>0, <1>6, ToldOther DEF Stop
<1>7. CASE ReadResponse
  <2>1. Goto("flv") \/ Stop("not available")
    BY <1>7 DEF ReadResponse
  <2> QED BY <1>5, <1>6, <2>1 DEF Goto
<1>8. CASE ReadChunkHeader \/ ReadChunkEnd \/ ReadEndOfLength \/ \E n \in Arrivals : ReceiveSome(n)
  BY <1>4, <1>8 DEF ReadChunkHeader, ReadChunkEnd, ReadEndOfLength, ReceiveSome
<1>9. CASE ReadBody
  BY <1>3, <1>5, <1>9 DEF ReadBody
<1>10. CASE Timeout
  <2>1. Stop("timeout") \/ (UNCHANGED result /\ phase' = Again)
    BY <1>10 DEF Timeout, Goto
  <2> QED BY <1>5, <1>6, <2>1 DEF Again
<1>11. CASE Closed
  <2>1. Stop("closed")
    BY <1>11 DEF Closed
  <2> QED BY <1>6, <2>1
<1>12. CASE Complete
  <2>1. InFull /\ Left = 0 /\ Want > 0 /\ UNCHANGED <<torn, msg>>
    BY <1>12 DEF Complete, readerVars
  <2>2. CASE phase = "flv" /\ got[1].is # "FLV"
    <3>1. Stop("flv")
      BY <1>12, <2>2 DEF Complete
    <3>2. torn'
      BY <2>1, <2>2, PartIsThere
    <3> QED BY <1>0, <3>1, <3>2 DEF Stop, Told, FailsForAReason, KeepsItsPlace, AbortsOnEmptyTag, EofAtEnd
  <2>3. ~(phase = "tag" /\ got[1].is # "tag")
    BY <1>12 DEF Complete
  <2>4. CASE ~(phase = "flv" /\ got[1].is # "FLV")
    <3>1. (UNCHANGED result /\ phase' \in {"flv previous", "tag", "data", "previous"}) \/ Stop("tag type")
      BY <1>12, <2>1, <2>3, <2>4 DEF Complete, Goto, InFull
    <3> QED BY <1>5, <1>6, <3>1
  <2> QED BY <2>2, <2>4
<1>13. CASE Failing
  <2>1. UNCHANGED <<torn, msg, total, messages, tag>>
    BY <1>13 DEF Failing, readerVars
  <2>2. InFull => msg # NoMsg
    BY DEF Place
  <2>3. CASE Calling /\ isEof /\ ~inEnd /\ Stop("eof")
    <3>1. msg # NoMsg
      BY <2>2, <2>3 DEF Calling
    <3>2. EofAtEnd'
      <4>1. ~torn => IF msg.chunked THEN served = "done" /\ messages = Delivered
                     ELSE total = msg.length /\ (total = Len(Body(sent)) => messages = Delivered)
        BY <2>3, EndOfBody
      <4>2. Delivered' = Delivered /\ Body(sent)' = Body(sent)
        BY <1>1 DEF Delivered
      <4> QED BY <1>1, <2>1, <4>1, <4>2 DEF EofAtEnd
    <3> QED BY <1>0, <2>1, <2>3, <3>1, <3>2 DEF Stop, Told, FailsForAReason, KeepsItsPlace, AbortsOnEmptyTag
  <2>4. CASE Calling /\ (EmptyChunkHeader \/ NegativeChunk) /\ Stop("chunk")
    <3>1. torn'
      BY <2>1, <2>2, <2>4, SizeIsThere DEF Calling, NegativeChunk
    <3> QED BY <1>0, <2>4, <3>1 DEF Stop, Told, FailsForAReason, KeepsItsPlace, AbortsOnEmptyTag, EofAtEnd
  <2>6. CASE Calling /\ Asserts(Left) /\ Goto("aborted")
    <3>1. tag'.type # "none" /\ tag'.size = 0
      <4>1. InFull /\ msg.length \in Int
        BY <2>6, LayoutLength DEF Calling
      <4>2. Len(got) <= Want
        BY <4>1 DEF Place
      <4> QED BY <2>1, <2>6, <4>1, <4>2, HasAType, AssertsOnEmpty
    <3> QED BY <1>0, <1>3, <2>6, <3>1 DEF Goto, Told, FailsForAReason, KeepsItsPlace, AbortsOnEmptyTag, EofAtEnd
  <2>7. CASE Waiting /\ Overflows /\ Stop("overflow")
    BY <1>6, <2>7
  <2> QED BY <1>13, <2>3, <2>4, <2>6, <2>7 DEF Failing
<1>14. ~ReadMisread
  BY DEF ReadMisread
<1> QED BY <1>0, <1>1, <1>14, <1>7, <1>8, <1>9, <1>10, <1>11, <1>12, <1>13 DEF ClientStep

(* What it stopped for stays so, whatever the server does.                 *)
LEMMA ServerTold ==
  ASSUME Told, ClientIdle, msg # NoMsg => UNCHANGED sent /\ (served = "done" => served' = "done")
  PROVE  Told'
<1>1. UNCHANGED <<msg, total, phase, tag, messages, result, torn, astray, strays>>
  BY DEF ClientIdle, readerVars, clientVars, strayVars
<1>2. EofAtEnd'
  <2> SUFFICES ASSUME result = "eof", ~torn PROVE EofAtEnd'
    BY <1>1 DEF EofAtEnd
  <2>1. sent' = sent /\ (served = "done" => served' = "done") /\ EofAtEnd
    BY DEF Told
  <2>2. Delivered' = Delivered /\ Body(sent)' = Body(sent)
    BY <2>1 DEF Delivered
  <2> QED BY <1>1, <2>1, <2>2 DEF EofAtEnd
<1>3. FailsForAReason'
  BY <1>1 DEF Told, FailsForAReason, KeepsItsPlace, AbortsOnEmptyTag
<1> QED BY <1>1, <1>2, <1>3 DEF Told

-----------------------------------------------------------------------------
(* A client that is where it should be.                                    *)
Sound == Writing /\ Layout /\ Place /\ Told /\ ~astray /\ strays = << >>

(* One that took for a header or for a size what is none: what it gave     *)
(* before stays, and a length is still the length of what comes.           *)
Adrift ==
    /\ astray /\ torn /\ msg # NoMsg /\ served # "idle" /\ phase \notin {"idle", "headers"}
    /\ \E i \in 0..Len(sent) : Given(i)
    /\ InFull => Len(got) <= Want
    /\ phase = "data" => tag.type # "none"
    /\ AbortsOnEmptyTag
    /\ msg.chunked => msg.length = -1
    /\ ~msg.chunked => Writing /\ Layout

(* One that waits for headers behind a chunk that came before them.        *)
Bare ==
    /\ msg = NoMsg /\ phase \in {"headers", "stopped", "aborted"} /\ served # "idle"
    /\ messages = << >> /\ ~astray /\ result # "eof" /\ FailsForAReason
    /\ open => Unread # << >>
    /\ Unread # << >> => Unread[1].is # "headers"

(* What the server may change, whatever is on the wire: it goes on behind  *)
(* what is unread, or some of that is lost.                                *)
LEMMA ServerTypes ==
  ASSUME Types, served # "idle", Server \/ Close
  PROVE  /\ Types' /\ ClientIdle /\ UNCHANGED sent /\ served' # "idle" /\ open
         /\ Unread # << >> /\ Unread' # << >> => Unread'[1] = Unread[1]
         /\ open' /\ Unread # << >> => Unread' # << >>
<1> DEFINE StartKept == /\ Unread # << >> /\ Unread' # << >> => Unread'[1] = Unread[1]
                        /\ open' /\ Unread # << >> => Unread' # << >>
<1>1. ClientIdle /\ open /\ UNCHANGED sent /\ served' \in {"serving", "plain", "done", "failed"}
  BY DEF Server, Close, ServeHttp, Serving, Finish, ServeOther, WriteBody, WritevBody, SendOther, Sending, Types
<1>2. UNCHANGED buf
  BY <1>1 DEF ClientIdle, readerVars
<1>3. /\ buf \in Seq(Unit) /\ wire \in Seq(Unit) /\ pending \in Seq(Unit) /\ sent' \in Seq(Tags)
      /\ Unread \in Seq(Unit) /\ Len(pending) \in Nat
  BY <1>1, BufFirst DEF Types
<1>4. ASSUME NEW x \in Seq(Unit), wire' = wire \o x, pending' \in Seq(Unit), open' \in BOOLEAN,
             headerSent' \in BOOLEAN, written' \in Nat, UNCHANGED <<status, contentLength>>
      PROVE  Types' /\ StartKept
  <2>1. Unread' = Unread \o x /\ wire' \in Seq(Unit)
    BY <1>2, <1>4, UnreadMore
  <2>2. Types'
    <3>1. status' \in {0, OK, 302, 404} /\ contentLength' \in Nat \cup {-1}
      BY <1>4 DEF Types
    <3> QED BY <1>1, <1>3, <1>4, <2>1, <3>1, TypesSent
  <2> DEFINE u == Unread
             v == Unread'
  <2>3. u \in Seq(Unit) /\ v = u \o x
    BY <1>3, <2>1
  <2> HIDE DEF u, v
  <2>4. u # << >> => v # << >> /\ v[1] = u[1]
    <3> SUFFICES ASSUME u # << >> PROVE v # << >> /\ v[1] = u[1]
      OBVIOUS
    <3>1. Len(u) # 0 /\ Len(u) \in Nat
      BY <2>3
    <3>2. 1 \in 1..Len(u)
      BY <3>1
    <3>3. Len(v) = Len(u) + Len(x) /\ v[1] = u[1] /\ Len(x) \in Nat
      BY <2>3, <3>2, Concat
    <3>4. Len(v) # 0
      BY <3>1, <3>3
    <3> QED BY <3>3, <3>4
  <2> QED BY <2>2, <2>4 DEF u, v
<1>5. Heading \in Seq(Unit)
  <2>1. CASE headerSent
    BY <2>1 DEF Heading
  <2>2. CASE ~headerSent
    <3>1. status \in Nat /\ InChunks \in BOOLEAN /\ contentLength \in Int
      BY DEF Types, OK, InChunks
    <3>2. Headers(status, InChunks, contentLength) \in Seq(Unit)
      BY <3>1, HeadersOpen
    <3> QED BY <2>2, <3>2 DEF Heading
  <2> QED BY <2>1, <2>2 DEF Types
<1>6. ASSUME NEW k \in Nat PROVE SizeLine(k) \in Seq(Unit)
  <2>1. [is |-> "size", n |-> k] \in Unit
    BY UnitOf
  <2> DEFINE z == [is |-> "size", n |-> k]
  <2> HIDE DEF z
  <2>2. << z >> \in Seq(Unit) /\ Line \in Seq(Unit)
    BY <2>1, LineUnits DEF z
  <2>3. << z >> \o Line \in Seq(Unit)
    BY <2>2, Concat
  <2> QED BY <2>3 DEF SizeLine, z
<1>7. ASSUME NEW d \in Seq(Unit) PROVE Framed(d) \in Seq(Unit)
  <2>1. Len(d) \in Nat /\ Line \in Seq(Unit)
    BY LineUnits
  <2>2. SizeLine(Len(d)) \in Seq(Unit)
    BY <1>6, <2>1
  <2>3. SizeLine(Len(d)) \o d \in Seq(Unit)
    BY <2>2, Concat
  <2>4. (SizeLine(Len(d)) \o d) \o Line \in Seq(Unit)
    BY <2>1, <2>3, Concat
  <2> QED BY <2>4 DEF Framed
<1>8. ASSUME NEW n \in Nat, n <= Len(pending)
      PROVE  /\ Piece(n) \in Seq(Unit) /\ Len(Piece(n)) = n
             /\ SubSeq(pending, n + 1, Len(pending)) \in Seq(Unit)
  BY <1>3, <1>8 DEF Piece
<1>9. CASE Finish
  <2> DEFINE x == IF InChunks THEN EndOfChunks ELSE Heading
  <2>1. /\ wire' = wire \o x /\ headerSent' = (headerSent \/ ~InChunks)
        /\ UNCHANGED <<open, status, contentLength, written, pending>>
    BY <1>9 DEF Finish, FinalRequest
  <2>2. EndOfChunks \in Seq(Unit)
    <3>1. SizeLine(0) \in Seq(Unit) /\ Line \in Seq(Unit)
      BY <1>6, LineUnits
    <3> QED BY <3>1, Concat DEF EndOfChunks
  <2>3. x \in Seq(Unit)
    BY <1>5, <2>2
  <2>4. open' \in BOOLEAN /\ headerSent' \in BOOLEAN /\ written' \in Nat /\ pending' \in Seq(Unit)
    BY <1>3, <2>1 DEF Types, InChunks
  <2> HIDE DEF x
  <2> QED BY <1>1, <1>4, <2>1, <2>3, <2>4
<1>10. ASSUME NEW n \in Pieces, WriteBody(n) PROVE Types' /\ StartKept
  <2>1. n \in Nat /\ n <= Len(pending)
    BY <1>10, PiecesAssumption DEF WriteBody
  <2> DEFINE x == CASE InChunks -> Chunk(Piece(n)) [] Exceeds(Len(Piece(n))) -> << >> [] OTHER -> Piece(n)
  <2>2. /\ wire' = wire \o Heading \o x /\ headerSent' = TRUE /\ written' = written + Len(Piece(n))
        /\ pending' = SubSeq(pending, n + 1, Len(pending)) /\ UNCHANGED <<open, status, contentLength>>
    BY <1>10 DEF WriteBody, Write, Sent
  <2>3. Piece(n) \in Seq(Unit) /\ Len(Piece(n)) = n /\ pending' \in Seq(Unit)
    BY <1>8, <2>1, <2>2
  <2>4. x \in Seq(Unit)
    <3>1. Chunk(Piece(n)) \in Seq(Unit) /\ << >> \in Seq(Unit)
      BY <1>7, <2>3 DEF Chunk
    <3> QED BY <2>3, <3>1
  <2>5. Heading \o x \in Seq(Unit) /\ wire' = wire \o (Heading \o x)
    <3> HIDE DEF x
    <3>1. Heading \o x \in Seq(Unit)
      BY <1>5, <2>4, Concat
    <3>2. (wire \o Heading) \o x = wire \o (Heading \o x)
      BY <1>3, <1>5, <2>4
    <3> QED BY <2>2, <3>1, <3>2
  <2>6. open' \in BOOLEAN /\ headerSent' \in BOOLEAN /\ written' \in Nat
    BY <2>1, <2>2, <2>3 DEF Types
  <2> HIDE DEF x
  <2> QED BY <1>4, <2>2, <2>3, <2>5, <2>6
<1>11. ASSUME NEW n \in Pieces, WritevBody(n) PROVE Types' /\ StartKept
  <2>1. n \in Nat /\ n <= Len(pending) /\ 1 < n
    BY <1>11, PiecesAssumption DEF WritevBody
  <2> DEFINE d == Piece(1) \o SubSeq(pending, 2, n)
             x == Framed(d)
  <2>2. /\ wire' = wire \o x /\ written' = written + Len(d) /\ pending' = SubSeq(pending, n + 1, Len(pending))
        /\ UNCHANGED <<open, status, contentLength, headerSent>>
    BY <1>11 DEF WritevBody, Writev, Sent, Chunk
  <2>3. d \in Seq(Unit) /\ Len(d) \in Nat
    <3>1. Piece(1) \in Seq(Unit) /\ SubSeq(pending, 2, n) \in Seq(Unit)
      BY <1>3, <1>8, <2>1
    <3> QED BY <3>1, Concat
  <2> HIDE DEF d
  <2>4. x \in Seq(Unit)
    BY <1>7, <2>3
  <2>5. open' \in BOOLEAN /\ headerSent' \in BOOLEAN /\ written' \in Nat /\ pending' \in Seq(Unit)
    BY <1>8, <2>1, <2>2, <2>3 DEF Types
  <2> HIDE DEF x
  <2> QED BY <1>4, <2>2, <2>4, <2>5
<1>12. ASSUME NEW n \in Pieces, SendOther(n) PROVE Types' /\ StartKept
  <2>1. n \in Nat /\ n <= Len(pending) /\ wire' = wire \o Piece(n) /\ pending' = SubSeq(pending, n + 1, Len(pending))
        /\ UNCHANGED <<open, status, headerSent, contentLength, written>>
    BY <1>12, PiecesAssumption DEF SendOther, Sent, writerVars
  <2>2. Piece(n) \in Seq(Unit) /\ pending' \in Seq(Unit)
    BY <1>8, <2>1
  <2>3. open' \in BOOLEAN /\ headerSent' \in BOOLEAN /\ written' \in Nat
    BY <2>1 DEF Types
  <2> QED BY <1>4, <2>1, <2>2, <2>3
<1>13. CASE Close
  <2>1. /\ open' = FALSE /\ wire' \in {wire, << >>} /\ UNCHANGED <<status, headerSent, contentLength, written, pending>>
    BY <1>13 DEF Close, writerVars
  <2>2. /\ wire' \in Seq(Unit) /\ Unread' \in Seq(Unit)
        /\ Len(Unread') <= Len(Unread) /\ Len(Unread') \in Nat /\ Len(Unread) \in Nat
        /\ \A i \in 1..Len(Unread') : Unread'[i] = Unread[i]
    BY <1>2, <1>3, <2>1, UnreadLost
  <2>3. Unread' # << >> => Unread'[1] = Unread[1]
    <3>1. Unread' # << >> => Len(Unread') # 0
      BY <2>2
    <3>2. Len(Unread') # 0 => 1 \in 1..Len(Unread')
      BY <2>2
    <3> QED BY <2>2, <3>1, <3>2
  <2>4. Types'
    <3>1. /\ status' \in {0, OK, 302, 404} /\ contentLength' \in Nat \cup {-1} /\ pending' \in Seq(Unit)
          /\ headerSent' \in BOOLEAN /\ written' \in Nat /\ open' \in BOOLEAN
      BY <2>1 DEF Types
    <3> QED BY <1>1, <1>3, <2>2, <3>1, TypesSent
  <2> QED BY <1>1, <2>1, <2>3, <2>4
<1>14. ~ServeHttp /\ ~ServeOther
  BY DEF ServeHttp, ServeOther, Serving
<1> QED BY <1>1, <1>9, <1>10, <1>11, <1>12, <1>13, <1>14 DEF Server

(* A read of n units gives some of them, and a failed one counts no more   *)
(* than there are.                                                         *)
LEMMA LineTaken ==
  ASSUME Types, LineLength > 2
  PROVE  After(LineLength) \in Seq(Unit) /\ buf[1] \in Unit
<1>1. LineLength # 0 /\ buf \in Seq(Unit)
  BY DEF Types
<1>2. Len(buf) >= 2 /\ LineLength \in Nat /\ LineLength <= Len(buf) /\ Len(buf) \in Nat
  BY <1>1, LineOfSize
<1> DEFINE k == LineLength
<1> HIDE DEF k
<1>3. k \in Nat /\ k <= Len(buf) /\ After(k) \in Seq(Unit)
  BY <1>1, <1>2 DEF After, k
<1>4. buf[1] \in Unit
  BY <1>1, <1>2
<1> QED BY <1>3, <1>4 DEF k

(* An adrift client changes within the types, and gives nothing of what    *)
(* counts; a part of what it reads is no longer than it is to be.          *)
LEMMA AdriftReads ==
  ASSUME Types, Adrift, Client \/ ClientTimeout
  PROVE  /\ Types' /\ UNCHANGED <<msg, messages>> /\ astray' /\ torn'
         /\ phase' \notin {"idle", "headers"} /\ (InFull' => Len(got') <= Want')
         /\ phase' = "data" => tag'.type # "none"
         /\ AbortsOnEmptyTag'
         /\ Whole' => Whole
<1>1. ClientStep \/ Timeout
  BY DEF Client, ClientTimeout
<1>2. Still /\ InFull
  BY ClientAlone DEF Adrift
<1>3. /\ astray /\ torn /\ msg # NoMsg /\ Len(got) <= Want /\ (phase = "data" => tag.type # "none")
      /\ phase # "headers" /\ phase # "aborted"
  BY <1>2 DEF Adrift, InFull
<1>4. msg.length \in Int
  <2>1. CASE msg.chunked
    <3>1. msg.length = -1
      BY <2>1 DEF Adrift
    <3> QED BY <3>1
  <2>2. CASE ~msg.chunked
    BY <2>2, LayoutLength DEF Adrift
  <2> QED BY <2>1, <2>2
<1>5. /\ buf \in Seq(Unit) /\ wire \in Seq(Unit) /\ got \in Seq(Unit) /\ messages \in Seq(Seen)
      /\ torn \in BOOLEAN /\ isEof \in BOOLEAN /\ inEnd \in BOOLEAN
      /\ total \in Nat /\ nbLeft \in Nat /\ timeouts \in Nat /\ tag.size \in Nat
      /\ Len(got) \in Nat /\ Len(buf) \in Nat /\ Want \in Nat
  BY DEF Types, Want, TagHeaderUnits
<1>6. Left \in Nat /\ Left = Want - Len(got)
  BY <1>3, <1>5 DEF Left
<1> DEFINE Goal == /\ Types' /\ UNCHANGED <<msg, messages>> /\ astray' /\ torn'
                   /\ phase' \notin {"idle", "headers"} /\ (InFull' => Len(got') <= Want')
                   /\ phase' = "data" => tag'.type # "none"
                   /\ AbortsOnEmptyTag'
                   /\ Whole' => Whole
(* Only the reader changes. *)
<1>7. ASSUME UNCHANGED <<phase, got, tag, messages, torn, timeouts, msg>>, astray',
             buf' \in Seq(Unit), wire' \in Seq(Unit), isEof' \in BOOLEAN, inEnd' \in BOOLEAN,
             total' \in Nat, nbLeft' \in Nat
      PROVE  Goal
  <2>1. Types'
    BY <1>2, <1>5, <1>7, TypesRead
  <2>2. Len(got') <= Want'
    BY <1>3, <1>7 DEF Want
  <2>3. Whole' = Whole
    BY <1>7 DEF Whole
  <2>4. AbortsOnEmptyTag'
    BY <1>3, <1>7 DEF AbortsOnEmptyTag
  <2>5. phase' \notin {"idle", "headers"}
    BY <1>2, <1>7 DEF InFull
  <2> QED BY <1>3, <1>7, <2>1, <2>2, <2>3, <2>4, <2>5
(* It stops. *)
<1>8. ASSUME UNCHANGED <<readerVars, wireVars, got, tag, messages, torn, timeouts, strayVars>>,
             phase' = "stopped" \/ (phase' = "aborted" /\ tag.type # "none" /\ tag.size = 0)
      PROVE  Goal
  <2>1. UNCHANGED <<buf, msg, nbLeft, total, isEof, inEnd, wire, astray>>
    BY <1>8 DEF readerVars, wireVars, strayVars
  <2>2. Types'
    BY <1>2, <1>5, <1>8, <2>1, TypesRead
  <2>3. ~InFull' /\ phase' \notin {"idle", "headers", "data"}
    BY <1>8 DEF InFull
  <2>4. Whole' = Whole
    BY <1>8 DEF Whole
  <2>5. AbortsOnEmptyTag'
    BY <1>8 DEF AbortsOnEmptyTag
  <2> QED BY <1>3, <1>8, <2>1, <2>2, <2>3, <2>4, <2>5
<1>9. CASE ReadChunkHeader
  <2>1. LineLength > 2 /\ buf[1].is = "size" /\ BeginChunk(buf[1].n) /\ UNCHANGED clientVars
    BY <1>9 DEF ReadChunkHeader, ChunkHeader
  <2>2. After(LineLength) \in Seq(Unit) /\ buf[1].n \in Nat
    BY <2>1, LineTaken, UnitSizes
  <2>3. /\ UNCHANGED <<phase, got, tag, messages, torn, timeouts, astray, msg, total, wire>>
        /\ nbLeft' = buf[1].n /\ buf' = After(LineLength) /\ isEof' \in BOOLEAN /\ inEnd' \in BOOLEAN
    BY <2>1 DEF BeginChunk, clientVars, strayVars, wireVars
  <2> QED BY <1>3, <1>5, <1>7, <2>2, <2>3
<1>10. CASE ReadMisread
  <2>1. PICK n \in Misread : n >= 0 /\ BeginChunk(n)
    BY <1>10 DEF ReadMisread, MisreadChunk
  <2>2. n \in Nat /\ LineLength > 2
    <3>1. n \in Int
      BY MisreadAssumption
    <3>2. n \in Nat
      BY <2>1, <3>1
    <3> QED BY <1>10, <3>2 DEF ReadMisread, MisreadChunk, NoChunkHeader
  <2>3. After(LineLength) \in Seq(Unit)
    BY <2>2, LineTaken
  <2>4. /\ UNCHANGED <<phase, got, tag, messages, torn, timeouts, msg, total, wire>> /\ astray'
        /\ nbLeft' = n /\ buf' = After(LineLength) /\ isEof' \in BOOLEAN /\ inEnd' \in BOOLEAN
    BY <1>10, <2>1 DEF ReadMisread, BeginChunk, wireVars
  <2> QED BY <1>3, <1>5, <1>7, <2>2, <2>3, <2>4
<1>11. CASE ReadChunkEnd
  <2>1. Len(buf) >= 2 /\ buf' = After(2) /\ UNCHANGED <<clientVars, msg, nbLeft, total, isEof, wire>> /\ inEnd' = FALSE
    BY <1>11 DEF ReadChunkEnd, ChunkEnd, wireVars
  <2>2. After(2) \in Seq(Unit)
    BY <1>5, <2>1 DEF After
  <2>3. UNCHANGED <<phase, got, tag, messages, torn, timeouts, astray>>
    BY <2>1 DEF clientVars, strayVars
  <2> QED BY <1>3, <1>5, <1>7, <2>1, <2>2, <2>3
<1>12. CASE ReadEndOfLength
  <2>1. UNCHANGED <<clientVars, buf, msg, nbLeft, total, inEnd, wire>> /\ isEof' = TRUE
    BY <1>12 DEF ReadEndOfLength, EndOfLength, wireVars
  <2>2. UNCHANGED <<phase, got, tag, messages, torn, timeouts, astray>>
    BY <2>1 DEF clientVars, strayVars
  <2> QED BY <1>3, <1>5, <1>7, <2>1, <2>2
<1>13. CASE ReadBody
  <2> DEFINE m == Some(Left)
             x == SubSeq(buf, 1, m)
  <2>1. /\ ReadSome(Left) /\ got' = got \o x /\ UNCHANGED <<phase, tag, messages, torn, timeouts, astray>>
    BY <1>13 DEF ReadBody, strayVars
  <2>2. m \in 1..Len(buf) /\ m <= Left /\ (msg.chunked => m <= nbLeft)
    BY <1>4, <1>6, <2>1, SomeBounds
  <2>3. /\ buf' = After(m) /\ total' = total + m /\ nbLeft' = (IF msg.chunked THEN nbLeft - m ELSE nbLeft)
        /\ inEnd' = (msg.chunked /\ nbLeft = m) /\ UNCHANGED <<msg, wire>>
        /\ isEof' = (~msg.chunked /\ msg.length # -1 /\ total + m >= msg.length)
    BY <2>1 DEF ReadSome, wireVars
  <2> HIDE DEF m
  <2>4. x \in Seq(Unit) /\ Len(x) = m /\ buf' \in Seq(Unit)
    BY <1>5, <2>2, <2>3 DEF After
  <2> HIDE DEF x
  <2>5. got' \in Seq(Unit) /\ Len(got') = Len(got) + m
    BY <1>5, <2>1, <2>4, Concat
  <2>6. total' \in Nat /\ nbLeft' \in Nat
    BY <1>5, <2>2, <2>3
  <2>7. inEnd' \in BOOLEAN /\ isEof' \in BOOLEAN
    BY <2>3
  <2>8. Types'
    BY <1>2, <1>5, <2>1, <2>3, <2>4, <2>5, <2>6, <2>7, TypesRead
  <2>9. Len(got') <= Want'
    <3>1. Want' = Want
      BY <2>1 DEF Want
    <3> QED BY <1>5, <1>6, <2>2, <2>5, <3>1
  <2>10. Whole' = Whole
    BY <2>1 DEF Whole
  <2>11. AbortsOnEmptyTag'
    BY <1>3, <2>1 DEF AbortsOnEmptyTag
  <2>12. phase' \notin {"idle", "headers"}
    BY <1>2, <2>1 DEF InFull
  <2> QED BY <1>3, <2>1, <2>3, <2>8, <2>9, <2>10, <2>11, <2>12
<1>14. CASE Failing
  <2>1. UNCHANGED <<readerVars, wireVars, got, tag, messages, torn, timeouts, strayVars>>
    BY <1>14 DEF Failing
  <2>2. (Calling /\ Asserts(Left) /\ phase' = "aborted") \/ phase' = "stopped"
    BY <1>14 DEF Failing, Stop, Goto
  <2>3. Calling /\ Asserts(Left) => tag.type # "none" /\ tag.size = 0
    BY <1>3, <1>4, AssertsOnEmpty
  <2> QED BY <1>8, <2>1, <2>2, <2>3
<1>15. CASE Complete
  <2>1. /\ Left = 0 /\ Want > 0 /\ got' = << >> /\ UNCHANGED <<readerVars, wireVars, torn, timeouts>>
    BY <1>15 DEF Complete
  <2>2. UNCHANGED <<buf, msg, nbLeft, total, isEof, inEnd, wire>>
    BY <2>1 DEF readerVars, wireVars
  <2>3. got[1] \in Unit
    <3>1. Len(got) > 0
      BY <1>5, <1>6, <2>1
    <3> QED BY <1>5, <3>1
  <2>4. /\ messages' = messages /\ astray'
        /\ phase' \in {"stopped", "flv previous", "tag", "data", "previous"}
        /\ tag'.size \in Nat /\ (phase' = "data" => tag'.type # "none")
    <3>1. CASE phase = "flv"
      BY <1>3, <1>5, <1>15, <3>1 DEF Complete, Goto, Stop, strayVars
    <3>2. CASE phase = "flv previous"
      BY <1>3, <1>5, <1>15, <3>2 DEF Complete, Goto, strayVars
    <3>3. CASE phase = "tag" /\ got[1].is = "tag"
      <4>1. /\ phase' = "data" /\ UNCHANGED <<messages, astray>>
            /\ tag' = [type |-> got[1].type, size |-> got[1].size, time |-> got[1].time, data |-> << >>]
        BY <1>15, <3>3 DEF Complete, Goto, strayVars
      <4>2. tag'.size \in Nat /\ tag'.type # "none"
        BY <2>3, <3>3, <4>1, UnitSizes DEF NoTag
      <4> QED BY <1>3, <4>1, <4>2
    <3>4. CASE phase = "tag" /\ got[1].is # "tag"
      <4>1. phase' = "data" /\ UNCHANGED messages /\ astray' /\ tag' \in BadTags
        BY <1>15, <3>4 DEF Complete, Goto
      <4>2. tag'.size \in Nat /\ tag'.type # "none"
        BY <4>1, BadTagsAssumption DEF NoTag
      <4> QED BY <4>1, <4>2
    <3>5. CASE phase = "data"
      <4>1. phase' = "previous" /\ tag' = [tag EXCEPT !.data = got] /\ UNCHANGED <<messages, astray>>
        BY <1>15, <3>5 DEF Complete, Goto, strayVars
      <4>2. tag'.size \in Nat
        BY <1>5, <4>1
      <4> QED BY <1>3, <4>1, <4>2
    <3>6. CASE phase = "previous"
      <4>1. tag' = NoTag /\ phase' \in {"tag", "stopped"} /\ UNCHANGED <<messages, astray>>
        BY <1>3, <1>15, <3>6 DEF Complete, Goto, Stop, Give
      <4>2. tag'.size \in Nat
        BY <4>1 DEF NoTag
      <4> QED BY <1>3, <4>1, <4>2
    <3> QED BY <1>2, <3>1, <3>2, <3>3, <3>4, <3>5, <3>6 DEF InFull
  <2>5. Types'
    <3>1. /\ got' \in Seq(Unit) /\ messages' \in Seq(Seen) /\ torn' \in BOOLEAN /\ timeouts' \in Nat
      <4>1. got' \in Seq(Unit)
        BY <2>1
      <4>2. messages' = messages
        BY <2>4
      <4>3. torn' = torn /\ timeouts' = timeouts
        BY <2>1
      <4> QED BY <1>5, <4>1, <4>2, <4>3
    <3>2. /\ buf' \in Seq(Unit) /\ wire' \in Seq(Unit) /\ isEof' \in BOOLEAN /\ inEnd' \in BOOLEAN
          /\ total' \in Nat /\ nbLeft' \in Nat
      BY <1>5, <2>2
    <3> QED BY <1>2, <2>4, <3>1, <3>2, TypesRead
  <2>6. Len(got') <= Want'
    <3>1. Want' \in Nat
      BY <2>4 DEF Want, TagHeaderUnits
    <3>2. Len(got') = 0
      BY <2>1
    <3> QED BY <3>1, <3>2
  <2>7. Whole' = Whole
    BY <2>1 DEF Whole
  <2>8. AbortsOnEmptyTag'
    BY <2>4 DEF AbortsOnEmptyTag
  <2> QED BY <1>3, <2>1, <2>2, <2>4, <2>5, <2>6, <2>7, <2>8
<1>16. CASE Closed
  BY <1>8, <1>16 DEF Closed, Stop
<1>17. CASE \E n \in Arrivals : ReceiveSome(n)
  <2>1. PICK n \in Arrivals : ReceiveSome(n)
    BY <1>17
  <2>2. Receive(n) /\ UNCHANGED <<clientVars, msg, nbLeft, total, isEof, inEnd>>
    BY <2>1 DEF ReceiveSome, Receive, bodyVars
  <2>3. buf' \in Seq(Unit) /\ wire' \in Seq(Unit)
    BY <1>5, <2>2, UnreadArrives
  <2>4. UNCHANGED <<phase, got, tag, messages, torn, timeouts, astray>>
    BY <2>2 DEF clientVars, strayVars
  <2> QED BY <1>3, <1>5, <1>7, <2>2, <2>3, <2>4
<1>18. CASE Timeout
  <2>1. /\ timeouts' = timeouts + 1 /\ FailRead(Left) /\ got' = << >> /\ tag' = NoTag
        /\ torn' = (torn \/ got # << >> \/ phase \in {"flv previous", "data", "previous"} \/ inEnd \/ InChunk)
        /\ UNCHANGED <<messages, strayVars>> /\ phase' \in {"stopped", "flv", "tag"}
    BY <1>18 DEF Timeout, Stop, Goto, Again
  <2>2. /\ nbLeft' = (IF InChunk THEN nbLeft - Lesser(nbLeft, Left) ELSE nbLeft) /\ inEnd' = FALSE
        /\ UNCHANGED <<buf, msg, total, isEof, wire>>
    BY <2>1 DEF FailRead, wireVars
  <2>3. nbLeft' \in Nat
    BY <1>5, <1>6, <2>2 DEF Lesser
  <2>4. torn' /\ torn' \in BOOLEAN /\ timeouts' \in Nat /\ tag'.size \in Nat
    <3>1. torn' /\ torn' \in BOOLEAN
      BY <1>3, <2>1
    <3>2. timeouts \in Nat /\ timeouts' = timeouts + 1
      BY <1>5, <2>1
    <3>3. timeouts' \in Nat
      BY ONLY <3>2
    <3>4. NoTag.size = 0
      BY DEF NoTag
    <3>5. tag' = NoTag
      BY <2>1
    <3> QED BY <3>1, <3>3, <3>4, <3>5
  <2>5. Types'
    <3>1. got' \in Seq(Unit) /\ messages' \in Seq(Seen)
      <4>1. got' \in Seq(Unit)
        <5>1. got' = << >>
          BY <2>1
        <5> QED BY <5>1
      <4>2. messages' = messages
        BY <2>1
      <4> QED BY <1>5, <4>1, <4>2
    <3>2. /\ buf' \in Seq(Unit) /\ wire' \in Seq(Unit) /\ isEof' \in BOOLEAN /\ inEnd' \in BOOLEAN
          /\ total' \in Nat
      BY <1>5, <2>2
    <3> QED BY <1>2, <2>3, <2>4, <3>1, <3>2, TypesRead
  <2>6. Len(got') <= Want'
    <3>1. Want' \in Nat
      BY <2>1, <2>4 DEF Want, TagHeaderUnits
    <3>2. Len(got') = 0
      BY <2>1
    <3> QED BY <3>1, <3>2
  <2>7. Whole' => Whole
    <3>1. timeouts' <= 1 => timeouts <= 1
      <4>1. timeouts \in Nat /\ timeouts' = timeouts + 1
        BY <1>5, <2>1
      <4> QED BY ONLY <4>1
    <3> QED BY <2>4, <3>1 DEF Whole
  <2>8. AbortsOnEmptyTag'
    BY <2>1 DEF AbortsOnEmptyTag
  <2>9. astray'
    BY <1>3, <2>1 DEF strayVars
  <2> QED BY <2>1, <2>2, <2>4, <2>5, <2>6, <2>7, <2>8, <2>9
<1>19. ~ReadResponse
  BY <1>3 DEF ReadResponse
<1> QED BY <1>1, <1>9, <1>10, <1>11, <1>12, <1>13, <1>14, <1>15, <1>16, <1>17, <1>18, <1>19 DEF ClientStep

(* The client stays adrift.                                                *)
LEMMA AdriftKeeps ==
  ASSUME Types, Adrift, Client \/ ClientTimeout
  PROVE  Types' /\ Adrift'
<1>1. /\ Types' /\ UNCHANGED <<msg, messages>> /\ astray' /\ torn'
      /\ phase' \notin {"idle", "headers"} /\ (InFull' => Len(got') <= Want')
      /\ phase' = "data" => tag'.type # "none"
      /\ AbortsOnEmptyTag'
      /\ Whole' => Whole
  BY AdriftReads
<1>2. Still /\ InFull
  BY ClientAlone DEF Adrift
<1>3. sent' = sent /\ served' = served
  BY <1>2, StillSame
<1>4. \E i \in 0..Len(sent') : Given(i)'
  <2>1. PICK i \in 0..Len(sent) : Given(i)
    BY DEF Adrift
  <2>2. Given(i)'
    BY <1>1, <1>3, <2>1, GivenKept
  <2> QED BY <1>3, <2>1, <2>2
<1>5. ASSUME ~msg.chunked PROVE Writing' /\ Layout'
  <2>1. Writing /\ Layout /\ msg # NoMsg /\ torn
    BY <1>5 DEF Adrift
  <2>2. Writing'
    BY <1>1, <1>2, <2>1, WritingKept
  <2>3. torn' = torn
    BY <1>1, <2>1 DEF Types
  <2>4. ClientStep \/ Timeout
    BY DEF Client, ClientTimeout
  <2>5. Layout'
    <3>1. ASSUME UNCHANGED <<buf, wire, msg, nbLeft, total, isEof, inEnd>> PROVE Layout'
      <4>1. Unread' = Unread
        BY <3>1 DEF Unread
      <4> QED BY <1>2, <2>1, <2>3, <3>1, <4>1, LayoutSame
    <3>2. CASE ReadChunkEnd
      BY <1>2, <2>1, <2>3, <3>2, LayoutChunkEnd DEF ReadChunkEnd
    <3>3. CASE ReadEndOfLength
      BY <1>2, <2>1, <2>3, <3>3, LayoutEndOfLength DEF ReadEndOfLength
    <3>4. CASE ReadBody
      <4>1. ReadSome(Left)
        BY <3>4 DEF ReadBody
      <4>2. Left \in Int
        <5>1. Want \in Nat /\ Len(got) \in Nat
          BY DEF Types, Want, TagHeaderUnits
        <5> QED BY <5>1 DEF Left
      <4> QED BY <1>2, <2>1, <2>3, <4>1, <4>2, LayoutReadBody
    <3>5. CASE Failing
      BY <3>1, <3>5 DEF Failing, readerVars, wireVars
    <3>6. CASE Complete
      BY <3>1, <3>6 DEF Complete, readerVars, wireVars
    <3>7. CASE Closed
      BY <3>1, <3>7 DEF Closed, readerVars, wireVars
    <3>8. CASE \E n \in Arrivals : ReceiveSome(n)
      <4>1. PICK n \in Arrivals : ReceiveSome(n)
        BY <3>8
      <4>2. Receive(n) /\ UNCHANGED <<msg, nbLeft, total, isEof, inEnd>>
        BY <4>1 DEF ReceiveSome, Receive, bodyVars
      <4>3. Unread' = Unread
        BY <4>2, UnreadArrives DEF Types
      <4> QED BY <1>2, <2>1, <2>3, <4>2, <4>3, LayoutSame
    <3>9. CASE Timeout
      <4>1. FailRead(Left)
        BY <3>9 DEF Timeout
      <4>2. Left \in Nat
        <5>1. Want \in Nat /\ Len(got) \in Nat /\ Len(got) <= Want
          BY <1>2 DEF Types, Want, TagHeaderUnits, Adrift
        <5> QED BY <5>1 DEF Left
      <4>3. torn' \in BOOLEAN
        BY <1>1 DEF Types
      <4> QED BY <1>1, <1>2, <2>1, <4>1, <4>2, <4>3, LayoutFailRead
    <3>10. ~ReadChunkHeader /\ ~ReadMisread
      BY <1>5 DEF ReadChunkHeader, ReadMisread, ChunkHeader, MisreadChunk, NoChunkHeader, NewChunk
    <3>11. ~ReadResponse
      BY <2>1 DEF ReadResponse, ParseMessage
    <3> QED BY <2>4, <3>2, <3>3, <3>4, <3>5, <3>6, <3>7, <3>8, <3>9, <3>10, <3>11 DEF ClientStep
  <2> QED BY <2>2, <2>5
<1>6. /\ msg # NoMsg /\ served # "idle" /\ (msg.chunked => msg.length = -1)
  BY DEF Adrift
<1> QED BY <1>1, <1>3, <1>4, <1>5, <1>6 DEF Adrift

(* Whatever the server does.                                               *)
LEMMA AdriftServed ==
  ASSUME Types, Adrift, Server \/ Close
  PROVE  Types' /\ Adrift'
<1>0. /\ astray /\ torn /\ msg # NoMsg /\ served # "idle" /\ phase \notin {"idle", "headers"}
      /\ InFull => Len(got) <= Want
      /\ phase = "data" => tag.type # "none"
      /\ AbortsOnEmptyTag /\ (msg.chunked => msg.length = -1) /\ (~msg.chunked => Writing /\ Layout)
  BY DEF Adrift
<1>1. Types' /\ ClientIdle /\ UNCHANGED sent /\ served' # "idle"
  BY <1>0, ServerTypes
<1>2. UNCHANGED <<phase, got, tag, messages, torn, timeouts, astray, msg>>
  BY <1>1 DEF ClientIdle, readerVars, clientVars, strayVars
<1>3. \E i \in 0..Len(sent') : Given(i)'
  <2>1. PICK i \in 0..Len(sent) : Given(i)
    BY DEF Adrift
  <2>2. Whole' = Whole
    BY <1>2 DEF Whole
  <2>3. Given(i)'
    BY <1>1, <1>2, <2>1, <2>2, GivenKept
  <2> QED BY <1>1, <2>1, <2>3
<1>4. ASSUME ~msg.chunked PROVE Writing' /\ Layout'
  <2>1. Writing /\ Layout
    BY <1>0, <1>4
  <2>2. headerSent \/ ~\E n \in Pieces : WritevBody(n)
    <3>1. status = 0 \/ headerSent
      BY <1>0, <2>1, LayoutParsed
    <3>2. \A n \in Pieces : WritevBody(n) => status # 0
      BY DEF WritevBody, Writev
    <3> QED BY <3>1, <3>2
  <2> QED BY <2>1, <2>2, ServerLays
<1>5. AbortsOnEmptyTag' /\ (InFull' => Len(got') <= Want')
  BY <1>0, <1>2 DEF AbortsOnEmptyTag, InFull, Want
<1> QED BY <1>0, <1>1, <1>2, <1>3, <1>4, <1>5 DEF Adrift

(* A client goes adrift only when a timeout took something of what it read. *)
LEMMA GoesAdrift ==
  ASSUME Types, Sound, Client \/ ClientTimeout, astray'
  PROVE  Types' /\ Adrift'
<1>0. Writing /\ Layout /\ Place /\ Told /\ ~astray
  BY DEF Sound
<1>1. ClientStep \/ Timeout
  BY DEF Client, ClientTimeout
<1>2. Still /\ phase' # "idle"
  BY ClientAlone
<1>3. ReadMisread \/ (Complete /\ phase = "tag" /\ got[1].is # "tag")
  <2>1. CASE Complete
    <3>1. CASE phase = "previous"
      BY <1>0, <2>1, <3>1 DEF Complete
    <3>2. CASE phase \in {"flv", "flv previous", "data"}
      BY <1>0, <2>1, <3>2 DEF Complete, strayVars
    <3>3. CASE phase = "tag" /\ got[1].is = "tag"
      BY <1>0, <2>1, <3>3 DEF Complete, strayVars
    <3> QED BY <2>1, <3>1, <3>2, <3>3 DEF Complete, InFull
  <2>2. CASE ~Complete /\ ~ReadMisread
    BY <1>0, <1>1, <2>2 DEF ClientStep, ReadResponse, ReadChunkHeader, ReadChunkEnd, ReadEndOfLength, ReadBody,
       Failing, Closed, ReceiveSome, Timeout, clientVars, strayVars
  <2> QED BY <2>1, <2>2
<1>4. InFull
  BY <1>3 DEF ReadMisread, Complete, Calling
<1>5. msg # NoMsg /\ Len(got) <= Want
  BY <1>0, <1>4 DEF Place
<1>6. msg = Said /\ served # "idle" /\ msg.chunked = Chunked /\ (msg.chunked => msg.length = -1)
  BY <1>0, <1>5, LayoutParsed, SaidType
<1>7. sent' = sent /\ served' = served
  BY <1>2, StillSame
<1>8. UNCHANGED <<messages, torn, timeouts, msg>>
  BY <1>3 DEF ReadMisread, MisreadChunk, BeginChunk, Complete, readerVars
<1>9. \E i \in 0..Len(sent') : Given(i)'
  <2>1. PICK i \in 0..Len(sent) : Given(i)
    BY <1>0 DEF Place
  <2>2. Whole' = Whole
    BY <1>8 DEF Whole
  <2>3. Given(i)'
    BY <1>7, <1>8, <2>1, <2>2, GivenKept
  <2> QED BY <1>7, <2>1, <2>3
<1>10. /\ buf \in Seq(Unit) /\ wire \in Seq(Unit) /\ got \in Seq(Unit) /\ messages \in Seq(Seen)
       /\ torn \in BOOLEAN /\ isEof \in BOOLEAN /\ inEnd \in BOOLEAN
       /\ total \in Nat /\ nbLeft \in Nat /\ timeouts \in Nat /\ tag.size \in Nat
  BY DEF Types
<1>11. CASE ReadMisread
  <2>1. PICK n \in Misread : n >= 0 /\ BeginChunk(n)
    BY <1>11 DEF ReadMisread, MisreadChunk
  <2>2. n \in Nat /\ LineLength > 2 /\ NoChunkHeader /\ msg.chunked
    <3>1. n \in Int
      BY MisreadAssumption
    <3>2. n \in Nat
      BY <2>1, <3>1
    <3> QED BY <1>11, <3>2 DEF ReadMisread, MisreadChunk, NoChunkHeader, NewChunk
  <2>3. After(LineLength) \in Seq(Unit)
    BY <2>2, LineTaken
  <2>4. torn
    BY <1>0, <1>5, <2>2, SizeIsThere
  <2>5. /\ UNCHANGED <<phase, got, tag, total, wire>> /\ nbLeft' = n /\ buf' = After(LineLength)
        /\ isEof' \in BOOLEAN /\ inEnd' \in BOOLEAN
    BY <1>11, <2>1 DEF ReadMisread, BeginChunk, wireVars
  <2>6. Types'
    BY <1>2, <1>8, <1>10, <2>2, <2>3, <2>5, TypesRead
  <2>7. phase' = "data" => tag'.type # "none"
    BY <1>0, <2>5, HasAType
  <2>8. AbortsOnEmptyTag'
    BY <1>4, <2>5 DEF AbortsOnEmptyTag, InFull
  <2>9. Len(got') <= Want'
    BY <1>5, <2>5 DEF Want
  <2>10. phase' \notin {"idle", "headers"}
    BY <1>4, <2>5 DEF InFull
  <2> QED BY <1>5, <1>6, <1>7, <1>8, <1>9, <2>2, <2>4, <2>6, <2>7, <2>8, <2>9, <2>10 DEF Adrift
<1>12. CASE Complete /\ phase = "tag" /\ got[1].is # "tag"
  <2>1. /\ Left = 0 /\ Want > 0 /\ got' = << >> /\ phase' = "data" /\ tag' \in BadTags
        /\ UNCHANGED <<buf, nbLeft, total, isEof, inEnd, wire>>
    BY <1>12 DEF Complete, Goto, readerVars, wireVars
  <2>2. torn
    BY <1>0, <1>4, <1>12, <2>1, PartIsThere
  <2>3. tag'.size \in Nat /\ tag'.type # "none"
    BY <2>1, BadTagsAssumption DEF NoTag
  <2>4. got' \in Seq(Unit)
    <3>1. got' = << >>
      BY <2>1
    <3> QED BY <3>1
  <2>5. Types'
    BY <1>2, <1>8, <1>10, <2>1, <2>3, <2>4, TypesRead
  <2>6. Layout'
    <3>1. Unread' = Unread
      BY <2>1 DEF Unread
    <3> QED BY <1>0, <1>2, <1>8, <2>1, <3>1, LayoutSame
  <2>7. Writing'
    BY <1>0, <1>2, WritingKept
  <2>8. Len(got') <= Want'
    <3>1. Want' \in Nat
      BY <2>3 DEF Want, TagHeaderUnits
    <3>2. Len(got') = 0
      BY <2>1
    <3> QED BY <3>1, <3>2
  <2>9. AbortsOnEmptyTag'
    BY <2>1 DEF AbortsOnEmptyTag
  <2> QED BY <1>5, <1>6, <1>7, <1>8, <1>9, <2>1, <2>2, <2>3, <2>5, <2>6, <2>7, <2>8, <2>9 DEF Adrift
<1> QED BY <1>3, <1>11, <1>12

(* A chunk that comes before the headers of its response.                  *)
LEMMA GoesBare ==
  ASSUME Types, Sound, ~headerSent, NEW n \in Pieces, WritevBody(n)
  PROVE  Types' /\ Bare'
<1>0. Writing /\ Layout /\ Place /\ Told /\ ~astray
  BY DEF Sound
<1>1. /\ open /\ served = "serving" /\ status # 0 /\ UNCHANGED served
      /\ wire' = wire \o Framed(Piece(1) \o SubSeq(pending, 2, n))
  BY DEF WritevBody, Sending, Writev, Chunk
<1>2. Nothing /\ Unread = << >> /\ msg = NoMsg
  BY <1>0, <1>1 DEF Layout, Nothing
<1>3. Server /\ served # "idle"
  BY <1>1 DEF Server
<1>4. Types' /\ ClientIdle /\ served' # "idle"
  BY <1>3, ServerTypes
<1>5. UNCHANGED <<phase, got, tag, messages, torn, result, astray, strays, msg>>
  BY <1>4 DEF ClientIdle, readerVars, clientVars, strayVars
<1>6. messages = << >> /\ phase \in {"headers", "stopped", "aborted"} /\ result # "eof"
  <2>1. phase # "idle"
    BY <1>0, <1>1 DEF Writing
  <2> QED BY <1>0, <1>2, <2>1 DEF Place, Told, Ended
<1>7. FailsForAReason'
  BY <1>0, <1>5 DEF Told, FailsForAReason, KeepsItsPlace, AbortsOnEmptyTag
<1>8. Unread' # << >> /\ Unread'[1].is # "headers"
  <2>1. buf = << >>
    <3>1. Len(Unread) = 0 /\ Len(Unread) = Len(buf) + Len(wire) /\ Len(buf) \in Nat /\ Len(wire) \in Nat
      BY <1>2, UnreadUnits DEF Types
    <3>2. Len(buf) = 0
      BY ONLY <3>1
    <3> QED BY <3>2 DEF Types
  <2>2. wire = << >>
    <3>1. Len(Unread) = 0 /\ Len(Unread) = Len(buf) + Len(wire) /\ Len(buf) \in Nat /\ Len(wire) \in Nat
      BY <1>2, UnreadUnits DEF Types
    <3>2. Len(wire) = 0
      BY ONLY <3>1
    <3> QED BY <3>2 DEF Types
  <2> DEFINE d == Piece(1) \o SubSeq(pending, 2, n)
             z == [is |-> "size", n |-> Len(d)]
             x == Framed(d)
  <2>3. d \in Seq(Unit) /\ Len(d) \in Nat
    <3>1. pending \in Seq(Unit) /\ n \in Nat /\ n <= Len(pending) /\ 1 < n
      BY PiecesAssumption DEF Types, WritevBody
    <3>2. Piece(1) \in Seq(Unit) /\ SubSeq(pending, 2, n) \in Seq(Unit)
      BY <3>1 DEF Piece
    <3> QED BY <3>2, Concat
  <2> HIDE DEF d
  <2>4. z \in Unit /\ z.is = "size"
    BY <2>3, UnitOf
  <2> HIDE DEF z
  <2>5. x = ((<< z >> \o Line) \o d) \o Line
    BY DEF Framed, SizeLine, z, x
  <2>6. << z >> \in Seq(Unit) /\ Len(<< z >>) = 1 /\ << z >>[1] = z /\ Line \in Seq(Unit)
    BY <2>4, LineUnits
  <2> HIDE DEF x
  <2>7. x # << >> /\ x[1] = z
    <3> DEFINE a == << z >>
               b == a \o Line
               c == b \o d
    <3>0. a \in Seq(Unit) /\ Len(a) = 1 /\ a[1] = z /\ 1 \in 1..1
      BY <2>6
    <3> HIDE DEF a
    <3>1. b \in Seq(Unit) /\ Len(b) = Len(a) + Len(Line) /\ b[1] = z /\ Len(Line) = 2
      <4>1. Line \in Seq(Unit) /\ Len(Line) = 2
        BY <2>6, LineUnits
      <4>2. /\ a \o Line \in Seq(Unit) /\ Len(a \o Line) = Len(a) + Len(Line)
            /\ \A i \in 1..Len(a) : (a \o Line)[i] = a[i]
        BY ONLY <3>0, <4>1, Concat
      <4>3. 1 \in 1..Len(a)
        BY ONLY <3>0
      <4> HIDE DEF Line
      <4>4. (a \o Line)[1] = z
        BY ONLY <3>0, <4>2, <4>3
      <4> QED BY <4>1, <4>2, <4>4
    <3> HIDE DEF b
    <3>2. c \in Seq(Unit) /\ Len(c) = Len(b) + Len(d) /\ c[1] = z
      <4>0. b \in Seq(Unit) /\ d \in Seq(Unit)
        BY <2>3, <3>1
      <4>1. /\ b \o d \in Seq(Unit) /\ Len(b \o d) = Len(b) + Len(d)
            /\ \A i \in 1..Len(b) : (b \o d)[i] = b[i]
        BY ONLY <4>0, Concat
      <4>2. 1 \in 1..Len(b)
        BY ONLY <3>0, <3>1
      <4>3. (b \o d)[1] = z
        BY ONLY <3>1, <4>1, <4>2
      <4> QED BY <4>1, <4>3
    <3> HIDE DEF c
    <3>3. Len(c) >= 3
      <4>1. Len(a) = 1 /\ Len(Line) = 2 /\ Len(b) = Len(a) + Len(Line)
        BY <3>0, <3>1
      <4>2. Len(d) \in Nat /\ Len(c) = Len(b) + Len(d)
        BY <2>3, <3>2
      <4> QED BY ONLY <4>1, <4>2
    <3>4. x = c \o Line
      BY <2>5 DEF a, b, c
    <3>5. x \in Seq(Unit) /\ Len(x) = Len(c) + Len(Line) /\ x[1] = z
      <4>0. c \in Seq(Unit) /\ Line \in Seq(Unit)
        BY <2>6, <3>2
      <4>1. /\ c \o Line \in Seq(Unit) /\ Len(c \o Line) = Len(c) + Len(Line)
            /\ \A i \in 1..Len(c) : (c \o Line)[i] = c[i]
        BY ONLY <4>0, Concat
      <4>2. 1 \in 1..Len(c)
        BY ONLY <2>3, <3>0, <3>1, <3>2, <3>3
      <4>3. (c \o Line)[1] = z
        BY ONLY <3>2, <4>1, <4>2
      <4> QED BY <3>4, <4>1, <4>3
    <3>6. Len(x) # 0
      BY <3>1, <3>3, <3>5, <3>2
    <3> QED BY <3>5, <3>6
  <2>8. Unread' = x
    <3>1. wire' = x /\ x \in Seq(Unit)
      <4>1. x \in Seq(Unit)
        <5>1. << z >> \o Line \in Seq(Unit)
          BY <2>6, Concat
        <5>2. (<< z >> \o Line) \o d \in Seq(Unit)
          BY <2>3, <5>1, Concat
        <5> QED BY <2>5, <2>6, <5>2, Concat
      <4> QED BY <1>1, <2>2, <4>1 DEF d, x
    <3>2. buf' = << >>
      BY <1>4, <2>1 DEF ClientIdle, readerVars
    <3> QED BY <3>1, <3>2 DEF Unread
  <2> QED BY <2>4, <2>7, <2>8
<1> QED BY <1>0, <1>2, <1>4, <1>5, <1>6, <1>7, <1>8 DEF Bare

(* The client goes on to wait for headers.                                 *)
LEMMA BareKeeps ==
  ASSUME Types, Bare, Client \/ ClientTimeout
  PROVE  Types' /\ Bare'
<1>0. /\ msg = NoMsg /\ phase \in {"headers", "stopped", "aborted"} /\ served # "idle"
      /\ messages = << >> /\ ~astray /\ result # "eof" /\ FailsForAReason
      /\ (open => Unread # << >>) /\ (Unread # << >> => Unread[1].is # "headers")
  BY DEF Bare
<1>1. ClientStep \/ Timeout
  BY DEF Client, ClientTimeout
<1>2. Still /\ phase = "headers" /\ ~InFull
  BY <1>0, ClientAlone DEF InFull
<1>3. served' = served /\ open' = open
  BY <1>2, StillSame
<1>4. /\ buf \in Seq(Unit) /\ wire \in Seq(Unit) /\ got \in Seq(Unit) /\ messages \in Seq(Seen)
      /\ torn \in BOOLEAN /\ isEof \in BOOLEAN /\ inEnd \in BOOLEAN
      /\ total \in Nat /\ nbLeft \in Nat /\ timeouts \in Nat /\ tag.size \in Nat
  BY DEF Types
<1>5. ~ReadResponse
  <2> SUFFICES ASSUME HeadersIn PROVE FALSE
    BY DEF ReadResponse, ParseMessage
  <2>1. HeaderEnds # {} /\ buf[1].is = "headers"
    BY DEF HeadersIn
  <2>2. 1 \in 1..Len(buf)
    <3>1. PICK i \in 4..Len(buf) : TRUE
      BY <2>1 DEF HeaderEnds
    <3> QED BY <1>4, <3>1
  <2>3. Unread[1] = buf[1] /\ Unread # << >>
    <3>1. Unread[1] = buf[1] /\ Len(Unread) # 0
      <4>1. Len(buf) <= Len(Unread) /\ Len(buf) \in Nat /\ Len(Unread) \in Nat
        BY BufFirst
      <4>2. Len(Unread) # 0
        BY <2>2, <4>1
      <4> QED BY <2>2, <4>2, BufFirst
    <3> QED BY <3>1
  <2> QED BY <1>0, <2>1, <2>3
<1>6. ASSUME UNCHANGED <<msg, messages, astray, strays, tag>>, Unread' = Unread,
             phase' \in {"headers", "stopped"}, torn => torn',
             result' = result \/ result' \notin {"eof", "chunk", "flv"}
      PROVE  Bare'
  <2>1. FailsForAReason'
    BY <1>0, <1>6 DEF FailsForAReason, KeepsItsPlace, AbortsOnEmptyTag
  <2> QED BY <1>0, <1>3, <1>6, <2>1 DEF Bare
<1>7. CASE Waiting /\ Overflows /\ Stop("overflow") /\ Failing
  <2>1. UNCHANGED <<buf, msg, nbLeft, total, isEof, inEnd, wire, got, tag, messages, torn, timeouts, astray, strays>>
    BY <1>7 DEF Failing, readerVars, wireVars, strayVars
  <2>2. Unread' = Unread
    BY <2>1 DEF Unread
  <2>3. Types'
    BY <1>2, <1>4, <2>1, TypesRead
  <2> QED BY <1>6, <1>7, <2>1, <2>2, <2>3 DEF Stop
<1>8. CASE Closed
  <2>1. UNCHANGED <<buf, msg, nbLeft, total, isEof, inEnd, wire, got, tag, messages, torn, timeouts, astray, strays>>
    BY <1>8 DEF Closed, readerVars, wireVars, strayVars
  <2>2. Unread' = Unread
    BY <2>1 DEF Unread
  <2>3. Types'
    BY <1>2, <1>4, <2>1, TypesRead
  <2> QED BY <1>6, <1>8, <2>1, <2>2, <2>3 DEF Closed, Stop
<1>9. CASE \E n \in Arrivals : ReceiveSome(n)
  <2>1. PICK n \in Arrivals : ReceiveSome(n)
    BY <1>9
  <2>2. Receive(n) /\ UNCHANGED <<clientVars, msg, nbLeft, total, isEof, inEnd>>
    BY <2>1 DEF ReceiveSome, Receive, bodyVars
  <2>3. buf' \in Seq(Unit) /\ wire' \in Seq(Unit) /\ Unread' = Unread
    BY <1>4, <2>2, UnreadArrives
  <2>4. UNCHANGED <<phase, got, tag, messages, result, torn, timeouts, astray, strays>>
    BY <2>2 DEF clientVars, strayVars
  <2>5. Types'
    BY <1>2, <1>4, <2>2, <2>3, <2>4, TypesRead
  <2> QED BY <1>2, <1>6, <2>2, <2>3, <2>4, <2>5
<1>10. CASE Timeout
  <2>1. /\ timeouts' = timeouts + 1 /\ FailRead(Left) /\ got' = << >> /\ tag' = NoTag
        /\ torn' = (torn \/ got # << >> \/ phase \in {"flv previous", "data", "previous"} \/ inEnd \/ InChunk)
        /\ UNCHANGED <<messages, astray, strays>> /\ Stop("timeout")
    BY <1>2, <1>10 DEF Timeout, strayVars
  <2>2. ~InChunk
    BY <1>0 DEF InChunk, NoMsg
  <2>3. nbLeft' = nbLeft /\ inEnd' = FALSE /\ UNCHANGED <<buf, msg, total, isEof, wire>>
    BY <2>1, <2>2 DEF FailRead, wireVars
  <2>4. Unread' = Unread
    BY <2>3 DEF Unread
  <2>5. torn' \in BOOLEAN /\ (torn => torn')
    BY <2>1
  <2>6. timeouts' \in Nat
    <3>1. timeouts \in Nat /\ timeouts' = timeouts + 1
      BY <1>4, <2>1
    <3> QED BY ONLY <3>1
  <2>7. got' \in Seq(Unit)
    <3>1. got' = << >>
      BY <2>1
    <3> QED BY <3>1
  <2>8. tag'.size \in Nat
    <3>1. tag' = NoTag /\ NoTag.size = 0
      BY <2>1 DEF NoTag
    <3> QED BY <3>1
  <2>9. messages' \in Seq(Seen)
    BY <1>4, <2>1
  <2>10. Types'
    BY <1>2, <1>4, <2>3, <2>5, <2>6, <2>7, <2>8, <2>9, TypesRead
  <2>11. FailsForAReason'
    BY <1>0, <2>1, <2>5 DEF FailsForAReason, KeepsItsPlace, AbortsOnEmptyTag, Stop
  <2> QED BY <1>0, <1>3, <2>1, <2>3, <2>4, <2>10, <2>11 DEF Bare, Stop
<1>11. /\ ~ReadChunkHeader /\ ~ReadMisread /\ ~ReadChunkEnd /\ ~ReadEndOfLength /\ ~ReadBody /\ ~Complete
       /\ (Failing => Waiting /\ Overflows /\ Stop("overflow"))
  BY <1>2 DEF ReadChunkHeader, ReadMisread, ReadChunkEnd, ReadEndOfLength, ReadBody, Complete, Failing, Calling
<1> QED BY <1>1, <1>5, <1>7, <1>8, <1>9, <1>10, <1>11 DEF ClientStep

(* The server writes on behind the chunk.                                  *)
LEMMA BareServed ==
  ASSUME Types, Bare, Server \/ Close
  PROVE  Types' /\ Bare'
<1>0. /\ msg = NoMsg /\ phase \in {"headers", "stopped", "aborted"} /\ served # "idle"
      /\ messages = << >> /\ ~astray /\ result # "eof" /\ FailsForAReason
      /\ (open => Unread # << >>) /\ (Unread # << >> => Unread[1].is # "headers")
  BY DEF Bare
<1>1. /\ Types' /\ ClientIdle /\ served' # "idle" /\ open
      /\ Unread # << >> /\ Unread' # << >> => Unread'[1] = Unread[1]
      /\ open' /\ Unread # << >> => Unread' # << >>
  BY <1>0, ServerTypes
<1>2. UNCHANGED <<phase, tag, messages, torn, result, astray, strays, msg>>
  BY <1>1 DEF ClientIdle, readerVars, clientVars, strayVars
<1>3. FailsForAReason'
  BY <1>0, <1>2 DEF FailsForAReason, KeepsItsPlace, AbortsOnEmptyTag
<1> QED BY <1>0, <1>1, <1>2, <1>3 DEF Bare

-----------------------------------------------------------------------------
(* The inductive invariant. What is unread follows from what was written,  *)
(* and what was given from what was read, until the client goes astray or  *)
(* the response is without headers.                                        *)
IInv == Types /\ (Sound \/ Adrift \/ Bare)

(* It holds before anything is asked for.                                  *)
LEMMA IInvInit == Init => IInv
<1> SUFFICES ASSUME Init PROVE IInv
  OBVIOUS
<1>1. Types /\ Writing /\ Layout
  BY LayoutInit
<1>2. /\ phase = "idle" /\ got = << >> /\ messages = << >> /\ msg = NoMsg /\ sent = << >>
      /\ result = "none" /\ torn = FALSE /\ timeouts = 0 /\ astray = FALSE /\ strays = << >>
  BY DEF Init, ClientInit, ReaderInit
<1>3. Given(0)
  <2>1. sent \in Seq(Tags)
    BY <1>2
  <2>2. Due(sent, 0) = << >> /\ Picked(<< >>, Due(sent, 0)) /\ 0 \in 0..Len(sent)
    BY <2>1, PickedNone
  <2> QED BY <1>2, <2>2 DEF Given
<1>4. 0 \in 0..Len(sent)
  BY <1>2
<1>5. Place
  BY <1>2, <1>3, <1>4 DEF Place, InFull
<1>6. Told
  BY <1>2 DEF Told, FailsForAReason, KeepsItsPlace, AbortsOnEmptyTag, EofAtEnd
<1>7. Sound
  BY <1>1, <1>2, <1>5, <1>6 DEF Sound
<1> QED BY <1>1, <1>7 DEF IInv

(* Every step of the server keeps it, or writes a chunk without headers.   *)
LEMMA SoundServed ==
  ASSUME Types, Sound, Server \/ Close
  PROVE  Types' /\ (Sound \/ Bare)'
<1>1. Writing /\ Layout /\ Place /\ Told /\ ~astray /\ strays = << >>
  BY DEF Sound
<1>2. CASE headerSent \/ ~\E n \in Pieces : WritevBody(n)
  <2>1. /\ Types' /\ Writing' /\ Layout' /\ Place' /\ ClientIdle
        /\ msg # NoMsg => UNCHANGED sent /\ (served = "done" => served' = "done")
    BY <1>1, <1>2, ServerKeeps
  <2>2. Told'
    BY <1>1, <2>1, ServerTold
  <2>3. UNCHANGED <<astray, strays>>
    BY <2>1 DEF ClientIdle, clientVars, strayVars
  <2>4. Sound'
    BY <1>1, <2>1, <2>2, <2>3 DEF Sound
  <2> QED BY <2>1, <2>4
<1>3. CASE ~headerSent /\ \E n \in Pieces : WritevBody(n)
  <2>1. PICK n \in Pieces : WritevBody(n)
    BY <1>3
  <2> QED BY <1>3, <2>1, GoesBare
<1> QED BY <1>2, <1>3

(* Every step of the client keeps it, or it goes astray.                   *)
LEMMA SoundClient ==
  ASSUME Types, Sound, Client \/ ClientTimeout
  PROVE  Types' /\ (Sound \/ Adrift)'
<1>1. Writing /\ Layout /\ Place /\ Told /\ ~astray /\ strays = << >>
  BY DEF Sound
<1>2. CASE astray'
  BY <1>2, GoesAdrift
<1>3. CASE ~astray'
  <2>1. Types' /\ Writing' /\ Layout' /\ Place'
    BY <1>1, <1>3, ClientKeeps
  <2>2. Told'
    BY <1>1, <1>3, ClientTold
  <2>3. strays' = << >>
    BY <1>1, <1>3, StraysKept
  <2>4. Sound'
    BY <1>3, <2>1, <2>2, <2>3 DEF Sound
  <2> QED BY <2>1, <2>4
<1> QED BY <1>2, <1>3

(* A step of nobody keeps it.                                              *)
LEMMA NothingMoves ==
  ASSUME IInv, UNCHANGED vars
  PROVE  IInv'
<1>1. /\ UNCHANGED <<wire, open, status, headerSent, contentLength, written, buf, msg, nbLeft, total, isEof, inEnd>>
      /\ UNCHANGED <<phase, got, tag, messages, result, torn, timeouts, astray, strays>>
      /\ UNCHANGED <<registered, request, served, pending, sent>>
      /\ UNCHANGED writerVars /\ UNCHANGED clientVars
  BY DEF vars, wireVars, writerVars, readerVars, clientVars, strayVars, serverVars
<1>2. Unread' = Unread
  BY <1>1 DEF Unread
<1>3. Still
  BY <1>1 DEF Still
<1>4. Types'
  BY <1>1 DEF IInv, Types
<1>5. ASSUME Writing PROVE Writing'
  BY <1>1, <1>5 DEF Writing, Content, Done, InChunks
<1>6. ASSUME Layout PROVE Layout'
  BY <1>1, <1>2, <1>3, <1>6, LayoutSame
<1>7. CASE Sound
  <2>1. Writing /\ Layout /\ Place /\ Told /\ ~astray /\ strays = << >>
    BY <1>7 DEF Sound
  <2>2. ClientIdle
    BY <1>1 DEF ClientIdle, readerVars
  <2>3. Stray => Stray'
    BY <1>1, <1>2 DEF Stray
  <2>4. sent' \in Seq(Tags)
    BY <1>4 DEF Types
  <2>5. Place'
    BY <1>1, <2>1, <2>2, <2>3, <2>4, PlaceServer DEF IInv
  <2>6. Told'
    BY <1>1, <2>1, <2>2, ServerTold
  <2> QED BY <1>1, <1>4, <1>5, <1>6, <2>1, <2>5, <2>6 DEF IInv, Sound
<1>8. CASE Adrift
  <2>1. \E i \in 0..Len(sent') : Given(i)'
    <3>1. PICK i \in 0..Len(sent) : Given(i)
      BY <1>8 DEF Adrift
    <3>2. Whole' = Whole
      BY <1>1 DEF Whole
    <3>3. Given(i)'
      BY <1>1, <3>1, <3>2, GivenKept
    <3> QED BY <1>1, <3>1, <3>3
  <2>2. InFull' = InFull /\ Want' = Want
    BY <1>1 DEF InFull, Want
  <2>3. AbortsOnEmptyTag'
    BY <1>1, <1>8 DEF Adrift, AbortsOnEmptyTag
  <2>4. Adrift'
    BY <1>1, <1>5, <1>6, <1>8, <2>1, <2>2, <2>3 DEF Adrift
  <2> QED BY <1>4, <2>4 DEF IInv
<1>9. CASE Bare
  <2>1. FailsForAReason'
    BY <1>1, <1>9 DEF Bare, FailsForAReason, KeepsItsPlace, AbortsOnEmptyTag
  <2>2. Bare'
    BY <1>1, <1>2, <1>9, <2>1 DEF Bare
  <2> QED BY <1>4, <2>2 DEF IInv
<1> QED BY <1>7, <1>8, <1>9 DEF IInv

(* Every step of the server, of the client and of the wire keeps it.       *)
LEMMA IInvNext == IInv /\ [Next]_vars => IInv'
<1> SUFFICES ASSUME IInv, [Next]_vars PROVE IInv'
  OBVIOUS
<1>1. Types /\ (Sound \/ Adrift \/ Bare)
  BY DEF IInv
<1>2. CASE \E r : Register(r) \/ Play(r)
  <2>1. phase = "idle"
    BY <1>2 DEF Register, Play
  <2>2. Sound
    BY <1>1, <2>1 DEF Adrift, Bare
  <2>3. Writing /\ Layout /\ Place /\ Told /\ ~astray /\ strays = << >>
    BY <2>2 DEF Sound
  <2>4. /\ Types' /\ Writing' /\ Layout' /\ Place'
        /\ phase' \in {"idle", "headers"} /\ UNCHANGED result
    BY <1>1, <1>2, <2>3, AskKeeps
  <2>5. UNCHANGED <<astray, strays>>
    BY <1>2 DEF Register, Play, ClientIdle, clientVars, strayVars
  <2>6. result' = "none"
    BY <2>1, <2>3, <2>4 DEF Told
  <2>7. Told'
    BY <2>3, <2>4, <2>5, <2>6, ToldOther
  <2> QED BY <2>3, <2>4, <2>5, <2>7 DEF IInv, Sound
<1>3. CASE Server \/ Close
  BY <1>1, <1>3, SoundServed, AdriftServed, BareServed DEF IInv
<1>4. CASE Client \/ ClientTimeout
  BY <1>1, <1>4, SoundClient, AdriftKeeps, BareKeeps DEF IInv
<1>5. CASE UNCHANGED vars
  BY <1>5, NothingMoves
<1> QED BY <1>2, <1>3, <1>4, <1>5 DEF Next

(* So it holds in every state.                                             *)
LEMMA IInvAlways == Spec => []IInv
<1>1. Init => IInv
  BY IInvInit
<1>2. IInv /\ [Next]_vars => IInv'
  BY IInvNext
<1> QED BY <1>1, <1>2, PTL DEF Spec

(* The messages that recv_message gives before the client goes astray are  *)
(* the audio, video and script tags that were sent, whole and in order,    *)
(* and none is left out but where a second timeout hides what a first one  *)
(* tore.                                                                   *)
THEOREM StreamInOrder == Spec => []TagsInOrder
<1>1. IInv => TagsInOrder
  <2> SUFFICES ASSUME IInv PROVE TagsInOrder
    OBVIOUS
  <2>1. sent \in Seq(Tags) /\ messages \in Seq(Seen)
    BY DEF IInv, Types
  <2>2. \E n \in 0..Len(sent) : Given(n)
    <3>1. CASE Sound \/ Adrift
      BY <3>1 DEF Sound, Place, Adrift
    <3>2. CASE Bare
      <4>1. messages = << >>
        BY <3>2 DEF Bare
      <4>2. Due(sent, 0) = << >> /\ Picked(<< >>, Due(sent, 0)) /\ 0 \in 0..Len(sent)
        BY <2>1, PickedNone
      <4>3. Given(0)
        BY <4>1, <4>2 DEF Given
      <4> QED BY <4>2, <4>3
    <3> QED BY <3>1, <3>2 DEF IInv
  <2>3. PICK n \in 0..Len(sent) : Given(n)
    BY <2>2
  <2> QED BY <2>1, <2>3, GivenInOrder
<1> QED BY <1>1, IInvAlways, PTL

(* The client is told that the response ended only when it did.            *)
THEOREM StreamEndsAtEnd == Spec => []EofAtEnd
<1>1. IInv => EofAtEnd
  <2>1. ASSUME Sound PROVE EofAtEnd
    BY <2>1 DEF Sound, Told
  <2>2. ASSUME Adrift \/ Bare PROVE EofAtEnd
    BY <2>2 DEF Adrift, Bare, EofAtEnd
  <2> QED BY <2>1, <2>2 DEF IInv
<1> QED BY <1>1, IInvAlways, PTL

(* The client takes payload for a header or a size, gives what nobody      *)
(* sent, finds a bad chunk or a bad FLV header only after a timeout that   *)
(* tore it, and fails an assertion only on a tag without data, or on what  *)
(* it took for one.                                                        *)
THEOREM StreamFailsForAReason == Spec => []FailsForAReason
<1>1. IInv => FailsForAReason
  <2>1. ASSUME Sound \/ Bare PROVE FailsForAReason
    BY <2>1 DEF Sound, Told, Bare
  <2>2. ASSUME Adrift PROVE FailsForAReason
    BY <2>2 DEF Adrift, FailsForAReason, KeepsItsPlace
  <2> QED BY <2>1, <2>2 DEF IInv
<1> QED BY <1>1, IInvAlways, PTL

(* Nothing is behind a body with a length that was promised.               *)
THEOREM StreamEndsAtItsLength == Spec => []NothingBehindTheBody
<1>1. IInv => NothingBehindTheBody
  <2> SUFFICES ASSUME IInv, msg.length # -1 PROVE total + Len(buf) + Len(wire) <= msg.length
    BY DEF NothingBehindTheBody
  <2>1. Types /\ NoMsg.length = -1
    BY DEF IInv, NoMsg
  <2>2. msg # NoMsg
    BY <2>1
  <2>3. Layout
    BY <2>2 DEF IInv, Sound, Adrift, Bare
  <2>4. msg = Said /\ (Stray \/ Rest(0, Unread)) /\ msg.length = contentLength /\ msg.chunked = Chunked
    BY <2>1, <2>2, <2>3, LayoutParsed, SaidType
  <2>5. ~InChunks /\ ~Chunked
    BY <2>4 DEF InChunks, Chunked
  <2>6. Raw(0, Unread)
    BY <2>4, <2>5 DEF Stray, Rest, Chunks
  <2>7. total + Len(Unread) - 0 <= contentLength
    BY <2>5, <2>6 DEF Raw
  <2>8. Len(Unread) = Len(buf) + Len(wire) /\ Len(buf) \in Nat /\ Len(wire) \in Nat
    BY <2>1, UnreadUnits DEF Types
  <2>9. total \in Nat /\ contentLength \in Int
    BY <2>1 DEF Types
  <2> QED BY <2>4, <2>7, <2>8, <2>9
<1> QED BY <1>1, IInvAlways, PTL

-----------------------------------------------------------------------------
(* The mux. What has a stream is what was registered, and gives it under   *)
(* its own pattern; what took its place leads to the tree behind it.       *)
Handlers ==
    \A p \in DOMAIN entries :
       \/ entries[p].handler.serves \in {"live", "file"} /\ entries[p].handler.to = p
       \/ entries[p].handler.serves = "redirect"
MuxHolds ==
    /\ registered \in Seq(Registrations) /\ IsPath(request)
    /\ Patterns \subseteq DOMAIN entries /\ \A p \in DOMAIN entries : IsPath(p)
    /\ vhosts = {p.host : p \in Patterns} \ {""}
    /\ Handlers

(* Nothing is registered at the begin.                                     *)
LEMMA MuxBegins == Init => MuxHolds
<1> SUFFICES ASSUME Init PROVE MuxHolds
  OBVIOUS
<1>1. registered = << >> /\ entries = << >> /\ vhosts = {} /\ request = NoRequest
  BY DEF Init, MuxInit
<1>2. IsPath(request)
  <2>1. << >> \in Seq(STRING)
    OBVIOUS
  <2> QED BY <1>1, <2>1 DEF NoRequest, IsPath
<1>3. Patterns = {} /\ DOMAIN entries = {} /\ registered \in Seq(Registrations)
  BY <1>1 DEF Patterns
<1> QED BY <1>1, <1>2, <1>3 DEF MuxHolds, Handlers

(* The patterns, with one more.                                            *)
LEMMA PatternsGrow ==
  ASSUME registered \in Seq(Registrations), NEW r \in Registrations,
         registered' = Append(registered, r)
  PROVE  Patterns' = Patterns \cup {r.pattern} /\ registered' \in Seq(Registrations)
<1> DEFINE n == Len(registered)
           more == Append(registered, r)
<1>1. /\ n \in Nat /\ DOMAIN registered = 1..n /\ DOMAIN more = 1..(n + 1)
      /\ more[n + 1] = r /\ \A i \in 1..n : more[i] = registered[i]
      /\ more \in Seq(Registrations)
  OBVIOUS
<1> HIDE DEF n, more
<1>2. Patterns' = {more[i].pattern : i \in 1..(n + 1)}
  BY <1>1 DEF Patterns, more
<1>3. Patterns = {registered[i].pattern : i \in 1..n}
  BY <1>1 DEF Patterns
<1>4. 1..(n + 1) = 1..n \cup {n + 1}
  BY <1>1
<1>5. {more[i].pattern : i \in 1..(n + 1)} = {registered[i].pattern : i \in 1..n} \cup {r.pattern}
  BY <1>1, <1>4
<1> QED BY <1>1, <1>2, <1>3, <1>5 DEF more

(* The root of a tree is a path.                                           *)
LEMMA RootIsPath == ASSUME NEW p, IsPath(p) PROVE IsPath(Root(p))
<1> DEFINE q == [host |-> p.host, parts |-> p.parts, slash |-> FALSE]
<1>1. Root(p) = q /\ p.parts \in Seq(STRING)
  BY DEF Root, IsPath
<1>2. q.host = p.host /\ q.parts = p.parts /\ q.slash = FALSE
  OBVIOUS
<1>3. IsPath(q)
  BY <1>1, <1>2 DEF IsPath
<1> QED BY <1>1, <1>3

(* A registration keeps it: what it puts at the root of a tree is a        *)
(* redirect, and no pattern goes away.                                     *)
LEMMA RegisterHolds ==
  ASSUME MuxHolds, NEW r \in Registrations, Register(r)
  PROVE  MuxHolds'
<1>1. request' = request /\ IsPath(request)
  BY DEF Register, serverVars, MuxHolds
<1>2. CASE UNCHANGED <<muxVars, registered>>
  BY <1>1, <1>2 DEF MuxHolds, Handlers, Patterns, muxVars
<1>3. CASE Handle(r.pattern, [serves |-> r.serves, to |-> r.pattern]) /\ registered' = Append(registered, r)
  <2> DEFINE q == r.pattern
             h == [serves |-> r.serves, to |-> q]
             moved == {root \in {Root(q)} :
                         IsTree(q) /\ (root \notin DOMAIN entries \/ IsExplicit(root))}
  <2>1. /\ entries' = [p \in DOMAIN entries \cup {q} \cup moved |->
              IF p \in moved THEN [handler |-> Redirect(q), explicit |-> FALSE]
              ELSE IF p = q THEN [handler |-> h, explicit |-> TRUE] ELSE entries[p]]
        /\ vhosts' = IF q.host = "" THEN vhosts ELSE vhosts \cup {q.host}
    BY <1>3 DEF Handle
  <2>2. IsPath(q) /\ r.serves \in {"live", "file"}
    BY RegistrationsAssumption, RequestsAssumption
  <2>3. \A p \in moved : IsPath(p)
    <3>1. IsPath(Root(q))
      BY <2>2, RootIsPath
    <3> QED BY <3>1
  <2>4. Redirect(q).serves = "redirect" /\ h.serves \in {"live", "file"} /\ h.to = q
    BY <2>2 DEF Redirect
  <2>5. Patterns' = Patterns \cup {q} /\ registered' \in Seq(Registrations)
    BY <1>3, PatternsGrow DEF MuxHolds
  <2> HIDE DEF q, h, moved
  <2>6. /\ Patterns \subseteq DOMAIN entries /\ \A p \in DOMAIN entries : IsPath(p)
        /\ vhosts = {p.host : p \in Patterns} \ {""} /\ Handlers
    BY DEF MuxHolds
  <2>7. DOMAIN entries' = DOMAIN entries \cup {q} \cup moved
    BY <2>1
  <2>8. Patterns' \subseteq DOMAIN entries' /\ \A p \in DOMAIN entries' : IsPath(p)
    BY <2>2, <2>3, <2>5, <2>6, <2>7
  <2>9. vhosts' = {p.host : p \in Patterns'} \ {""}
    <3>1. {p.host : p \in Patterns \cup {q}} = {p.host : p \in Patterns} \cup {q.host}
      OBVIOUS
    <3> QED BY <2>1, <2>5, <2>6, <3>1
  <2>10. Handlers'
    <3>1. ASSUME NEW p \in DOMAIN entries'
          PROVE  \/ entries'[p].handler.serves \in {"live", "file"} /\ entries'[p].handler.to = p
                 \/ entries'[p].handler.serves = "redirect"
      <4>1. CASE p \in moved
        <5>1. entries'[p].handler = Redirect(q)
          BY <2>1, <2>7, <4>1
        <5> QED BY <2>4, <5>1
      <4>2. CASE p \notin moved /\ p = q
        <5>1. entries'[p].handler = h
          BY <2>1, <2>7, <4>2
        <5> QED BY <2>4, <4>2, <5>1
      <4>3. CASE p \notin moved /\ p # q
        <5>1. p \in DOMAIN entries /\ entries'[p] = entries[p]
          BY <2>1, <2>7, <3>1, <4>3
        <5> QED BY <2>6, <5>1 DEF Handlers
      <4> QED BY <4>1, <4>2, <4>3
    <3> QED BY <3>1 DEF Handlers
  <2> QED BY <1>1, <2>5, <2>8, <2>9, <2>10 DEF MuxHolds
<1>4. UNCHANGED <<muxVars, registered>> \/
         (Handle(r.pattern, [serves |-> r.serves, to |-> r.pattern]) /\ registered' = Append(registered, r))
  BY DEF Register, HandleDuplicate
<1> QED BY <1>2, <1>3, <1>4

(* No other step touches the mux.                                          *)
LEMMA MuxKept == MuxHolds /\ [Next]_vars => MuxHolds'
<1> SUFFICES ASSUME MuxHolds, [Next]_vars PROVE MuxHolds'
  OBVIOUS
<1>1. ASSUME NEW r \in Requests, Play(r) PROVE MuxHolds'
  <2>1. IsPath(request') /\ UNCHANGED <<muxVars, registered>>
    BY <1>1, RequestsAssumption DEF Play, MuxIdle
  <2> QED BY <2>1 DEF MuxHolds, Handlers, Patterns, muxVars, IsPath
<1>2. CASE UNCHANGED <<muxVars, registered, request>>
  BY <1>2 DEF MuxHolds, Handlers, Patterns, muxVars
<1>3. CASE Server \/ Close
  <2>1. UNCHANGED <<muxVars, registered, request>>
    BY <1>3 DEF Server, ServeHttp, Finish, ServeOther, WriteBody, WritevBody, SendOther, Close, MuxIdle
  <2> QED BY <1>2, <2>1
<1>4. CASE Client \/ ClientTimeout
  <2>1. UNCHANGED <<muxVars, registered, request>>
    BY <1>4 DEF Client, ClientTimeout, ServerIdle, serverVars
  <2> QED BY <1>2, <2>1
<1>5. CASE UNCHANGED vars
  <2>1. UNCHANGED <<muxVars, registered, request>>
    BY <1>5 DEF vars, serverVars
  <2> QED BY <1>2, <2>1
<1> QED BY <1>1, <1>3, <1>4, <1>5, RegisterHolds DEF Next

(* A pattern that a request is covered by matches the path it is taken for.*)
LEMMA CoveredMatches ==
  ASSUME MuxHolds, NEW p \in Patterns, p.host = PathOf(request).host, Covers(p, request)
  PROVE  p \in DOMAIN entries /\ PathMatch(p, PathOf(request))
<1>1. /\ IsPath(request) /\ p \in DOMAIN entries /\ IsPath(p)
  BY DEF MuxHolds
<1> DEFINE path == PathOf(request)
<1>2. path.parts = request.parts /\ path.slash = request.slash /\ IsPath(path)
  BY <1>1 DEF PathOf, IsPath
<1>3. path.host = p.host
  OBVIOUS
<1> HIDE DEF path
<1>4. CASE p.slash
  <2>1. IsPrefix(p.parts, path.parts) /\ (p.parts # path.parts \/ path.slash)
    BY <1>2, <1>4 DEF Covers
  <2>2. p.parts \in Seq(STRING) /\ path.parts \in Seq(STRING)
    BY <1>1, <1>2 DEF IsPath
  <2>3. Len(path.parts) > Len(p.parts) \/ path.slash
    <3> DEFINE s == p.parts
               t == path.parts
    <3>1. Len(s) <= Len(t) /\ SubSeq(s, 1, Len(s)) = SubSeq(t, 1, Len(s))
      BY <2>1 DEF IsPrefix
    <3> HIDE DEF s, t
    <3>2. s \in Seq(STRING) /\ t \in Seq(STRING)
      BY <2>2 DEF s, t
    <3>3. Len(s) = Len(t) => s = t
      <4>1. SubSeq(s, 1, Len(s)) = s /\ SubSeq(t, 1, Len(t)) = t
        BY <3>2
      <4> QED BY <3>1, <4>1
    <3>4. Len(s) \in Nat /\ Len(t) \in Nat
      BY <3>2
    <3>5. Len(t) > Len(s) \/ s = t
      BY <3>1, <3>3, <3>4
    <3> QED BY <2>1, <3>5 DEF s, t
  <2> QED BY <1>1, <1>3, <1>4, <2>1, <2>3 DEF PathMatch, Within, path
<1>5. CASE ~p.slash
  <2>1. p.parts = path.parts /\ ~path.slash
    BY <1>2, <1>5 DEF Covers
  <2>2. p = path
    <3>1. p = [host |-> p.host, parts |-> p.parts, slash |-> p.slash]
      BY <1>1 DEF IsPath
    <3>2. path = [host |-> path.host, parts |-> path.parts, slash |-> path.slash]
      BY <1>2 DEF IsPath
    <3>3. p.slash = FALSE /\ path.slash = FALSE
      BY <1>1, <1>2, <1>5, <2>1 DEF IsPath
    <3> QED BY <1>3, <2>1, <3>1, <3>2, <3>3
  <2> QED BY <1>1, <1>3, <1>5, <2>2 DEF PathMatch, Within, path
<1> QED BY <1>4, <1>5

(* What the length of a path says of the number of its parts.              *)
LEMMA LengthRange ==
  ASSUME NEW p, IsPath(p)
  PROVE  /\ Len(p.parts) \in Nat /\ Length(p) \in Nat
         /\ Length(p) <= 2 * Len(p.parts) + 1
         /\ p.slash => Length(p) = 2 * Len(p.parts) + 1
<1> DEFINE n == Len(p.parts)
<1>1. n \in Nat
  BY DEF IsPath
<1>2. CASE p.slash
  <2>1. Length(p) = 2 * n + 1
    BY <1>2 DEF Length
  <2> HIDE DEF n
  <2>2. Length(p) \in Nat /\ Length(p) <= 2 * n + 1
    BY <1>1, <2>1
  <2> QED BY <1>1, <2>1, <2>2 DEF n
<1>3. CASE ~p.slash
  <2>1. Length(p) = 2 * n + 0
    BY <1>3 DEF Length
  <2> HIDE DEF n
  <2>2. Length(p) \in Nat /\ Length(p) <= 2 * n + 1
    BY <1>1, <2>1
  <2> QED BY <1>1, <1>3, <2>2 DEF n
<1> QED BY <1>2, <1>3

(* Of two lengths, as numbers.                                             *)
LEMMA LengthAtMost ==
  ASSUME NEW a \in Nat, NEW b \in Nat, NEW l \in Nat, a <= b, l <= 2 * a + 1
  PROVE  l <= 2 * b + 1
OBVIOUS
LEMMA LengthsOrder ==
  ASSUME NEW a \in Nat, NEW b \in Nat, NEW l \in Nat, NEW m \in Nat,
         l = 2 * a + 1, m <= 2 * b + 1, l <= m
  PROVE  a <= b
OBVIOUS

(* The longest of the patterns that match a path: there is one, since none *)
(* is longer than the path.                                                *)
LEMMA LongestOf ==
  ASSUME NEW path, IsPath(path), NEW ps, ps # {}, \A p \in ps : IsPath(p),
         \A p \in ps : PathMatch(p, path)
  PROVE  BestOf(ps) \in ps /\ \A q \in ps : Length(q) <= Length(BestOf(ps))
<1>1. \A p : IsPath(p) => Length(p) \in Nat /\ Len(p.parts) \in Nat
  BY LengthRange
<1> DEFINE most == 2 * Len(path.parts) + 1
<1>2. most \in Nat
  <2>1. Len(path.parts) \in Nat
    BY <1>1
  <2> QED BY <2>1
<1>3. ASSUME NEW p \in ps PROVE Length(p) <= most
  <2>1. IsPath(p) /\ Len(p.parts) \in Nat /\ Len(path.parts) \in Nat
    BY <1>1
  <2>2. Len(p.parts) <= Len(path.parts)
    BY <2>1 DEF PathMatch, Within, IsPrefix
  <2>3. Length(p) \in Nat /\ Length(p) <= 2 * Len(p.parts) + 1
    BY <2>1, LengthRange
  <2>4. Length(p) <= 2 * Len(path.parts) + 1
    BY <2>1, <2>2, <2>3, LengthAtMost
  <2> QED BY <2>4
<1> HIDE DEF most
<1> DEFINE D == {most - Length(p) : p \in ps}
<1>4. D \subseteq Nat /\ D # {}
  <2>1. ASSUME NEW p \in ps PROVE most - Length(p) \in Nat
    BY <1>1, <1>2, <1>3
  <2> QED BY <2>1
<1>5. PICK d \in D : \A e \in D : d <= e
  BY <1>4, LeastNat
<1>6. PICK best \in ps : d = most - Length(best)
  OBVIOUS
<1>7. ASSUME NEW q \in ps PROVE Length(q) <= Length(best)
  <2>1. d <= most - Length(q)
    BY <1>5
  <2>2. Length(q) \in Nat /\ Length(best) \in Nat
    BY <1>1
  <2> QED BY <1>2, <1>6, <2>1, <2>2
<1>8. \E p \in ps : \A q \in ps : Length(q) <= Length(p)
  BY <1>7
<1> QED BY <1>8 DEF BestOf

(* What a request is answered by.                                          *)
LEMMA Matched ==
  ASSUME MuxHolds, NEW ps, ps = {p \in DOMAIN entries : PathMatch(p, PathOf(request))}
  PROVE  /\ ps = {} => Match(request) = NotFound
         /\ ps # {} => /\ BestOf(ps) \in ps /\ Match(request) = entries[BestOf(ps)].handler
                       /\ \A q \in ps : Length(q) <= Length(BestOf(ps))
                       /\ Match(request).serves # "nothing"
                       /\ Match(request).serves # "redirect" => Match(request).to = BestOf(ps)
<1>1. IsPath(PathOf(request))
  BY DEF MuxHolds, PathOf, IsPath
<1>2. \A p \in ps : IsPath(p)
  BY DEF MuxHolds
<1>3. ps = {} => Match(request) = NotFound
  BY DEF Match
<1>4. ASSUME ps # {}
      PROVE  /\ BestOf(ps) \in ps /\ Match(request) = entries[BestOf(ps)].handler
             /\ \A q \in ps : Length(q) <= Length(BestOf(ps))
             /\ Match(request).serves # "nothing"
             /\ Match(request).serves # "redirect" => Match(request).to = BestOf(ps)
  <2>1. BestOf(ps) \in ps /\ \A q \in ps : Length(q) <= Length(BestOf(ps))
    BY <1>1, <1>2, <1>4, LongestOf
  <2>2. Match(request) = entries[BestOf(ps)].handler
    BY <1>4 DEF Match
  <2> DEFINE b == BestOf(ps)
  <2> HIDE DEF b
  <2>3. b \in DOMAIN entries
    BY <2>1 DEF b
  <2>4. \/ entries[b].handler.serves \in {"live", "file"} /\ entries[b].handler.to = b
        \/ entries[b].handler.serves = "redirect"
    BY <2>3 DEF MuxHolds, Handlers
  <2> QED BY <2>1, <2>2, <2>4 DEF b
<1> QED BY <1>3, <1>4

(* A request that is not found is covered by no pattern of its host.       *)
LEMMA AnsweredByItsHost ==
  ASSUME MuxHolds, ServeHttp, status' = 404
  PROVE  LET host == IF \E p \in Patterns : p.host = request.host THEN request.host ELSE ""
         IN \A p \in Patterns : p.host = host => ~Covers(p, request)
<1> DEFINE ps == {p \in DOMAIN entries : PathMatch(p, PathOf(request))}
           host == IF \E p \in Patterns : p.host = request.host THEN request.host ELSE ""
<1>1. Match(request) = NotFound \/ Match(request).serves = "nothing"
  BY DEF ServeHttp, ServeText, ServeStream, ServeFile, WriteHeader, OK
<1>2. ps = {}
  <2>1. Match(request).serves = "nothing"
    BY <1>1 DEF NotFound
  <2> HIDE DEF ps
  <2> QED BY <2>1, Matched DEF ps
<1>3. PathOf(request).host = host
  <2>1. IsPath(request) /\ vhosts = {p.host : p \in Patterns} \ {""}
    BY DEF MuxHolds
  <2>2. [request EXCEPT !.host = ""].host = ""
    BY <2>1 DEF IsPath
  <2> QED BY <2>1, <2>2 DEF PathOf
<1>4. ASSUME NEW p \in Patterns, p.host = host, Covers(p, request) PROVE FALSE
  <2>1. p \in DOMAIN entries /\ PathMatch(p, PathOf(request))
    BY <1>3, <1>4, CoveredMatches
  <2> QED BY <1>2, <2>1
<1> QED BY <1>4

(* A stream comes from the longest tree that the request is in.            *)
LEMMA StreamOfTheLongest ==
  ASSUME MuxHolds, ServeHttp, status' = OK
  PROVE  LET own == Match(request).to
         IN \A p \in Patterns :
              p.host = own.host /\ p.slash /\ Covers(p, request) => Len(p.parts) <= Len(own.parts)
<1> DEFINE ps == {p \in DOMAIN entries : PathMatch(p, PathOf(request))}
           own == Match(request).to
<1>1. Match(request).serves # "nothing" /\ Match(request).serves # "redirect"
  BY DEF ServeHttp, ServeText, ServeStream, ServeFile, WriteHeader, OK, NotFound
<1>2. ps # {}
  <2> HIDE DEF ps
  <2>1. NotFound.serves = "nothing"
    BY DEF NotFound
  <2> QED BY <1>1, <2>1, Matched DEF ps
<1>3. own \in ps /\ \A q \in ps : Length(q) <= Length(own)
  <2> HIDE DEF ps
  <2> QED BY <1>1, <1>2, Matched DEF ps
<1> HIDE DEF own
<1>4. ASSUME NEW p \in Patterns, p.host = own.host, p.slash, Covers(p, request)
      PROVE  Len(p.parts) <= Len(own.parts)
  <2>1. own.host = PathOf(request).host
    BY <1>3 DEF PathMatch, Within
  <2>2. p \in ps
    BY <1>4, <2>1, CoveredMatches
  <2>3. Length(p) <= Length(own) /\ IsPath(p) /\ IsPath(own)
    BY <1>3, <2>2 DEF MuxHolds
  <2>4. /\ Len(p.parts) \in Nat /\ Length(p) \in Nat
        /\ Length(p) = 2 * Len(p.parts) + 1
    BY <1>4, <2>3, LengthRange
  <2>5. /\ Len(own.parts) \in Nat /\ Length(own) \in Nat
        /\ Length(own) <= 2 * Len(own.parts) + 1
    BY <2>3, LengthRange
  <2> QED BY <2>3, <2>4, <2>5, LengthsOrder
<1> QED BY <1>4 DEF own

(* The mux finds for each request the handler of the most particular tree, *)
(* whatever was registered, and in whatever order.                         *)
THEOREM MuxFindsItsHandler == Spec => FindsItsHandler
<1>1. Spec => []MuxHolds
  BY MuxBegins, MuxKept, PTL DEF Spec
<1>2. MuxHolds /\ [Next]_vars =>
        [ServeHttp /\ status' = 404 =>
           LET host == IF \E p \in Patterns : p.host = request.host THEN request.host ELSE ""
           IN \A p \in Patterns : p.host = host => ~Covers(p, request)]_vars
  BY AnsweredByItsHost
<1>3. MuxHolds /\ [Next]_vars =>
        [ServeHttp /\ status' = OK =>
           LET own == Match(request).to
           IN \A p \in Patterns :
                p.host = own.host /\ p.slash /\ Covers(p, request) => Len(p.parts) <= Len(own.parts)]_vars
  BY StreamOfTheLongest
<1>4. Spec => PatternsAnswer
  BY <1>1, <1>2, PTL DEF Spec, PatternsAnswer
<1>5. Spec => MostParticular
  BY <1>1, <1>3, PTL DEF Spec, MostParticular
<1> QED BY <1>4, <1>5 DEF FindsItsHandler
=============================================================================
