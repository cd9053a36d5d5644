---------------------------- MODULE Selection_proofs ----------------------------
(***************************************************************************)
(* Proofs about what is picked out of a sequence, about what a step made   *)
(* with each element ends in (Accumulated), and about sequences            *)
(* joined into one (FlattenSeq).  The library's induction theorems take a  *)
(* predicate, which the provers cannot instantiate; here induction is over *)
(* a set, from the least element of its complement.                        *)
(***************************************************************************)
EXTENDS Selection, SequencesExt, SequenceTheorems, WellFoundedInduction, TLAPS

(* A set of naturals that is not empty has a least element.                *)
LEMMA LeastNat ==
  ASSUME NEW S \in SUBSET Nat, S # {}
  PROVE  \E n \in S : \A m \in S : n <= m
<1> DEFINE R == OpToRel(<, Nat)
<1>1. IsWellFoundedOn(R, Nat)
  BY NatLessThanWellFounded
<1>2. \A x, y \in Nat : x < y => <<x, y>> \in R
  BY DEF OpToRel
<1> HIDE DEF R
<1>3. PICK n \in S : \A m \in S : ~(<<m, n>> \in R)
  BY <1>1, WFMin
<1>4. \A m \in S : ~(m < n)
  BY <1>2, <1>3
<1> QED BY <1>4

(* Induction over the naturals, for a set in place of a predicate.         *)
LEMMA Induction ==
  ASSUME NEW P \in SUBSET Nat, 0 \in P,
         \A n \in P : n + 1 \in P
  PROVE  P = Nat
<1> SUFFICES ASSUME NEW S, S = Nat \ P, S # {} PROVE FALSE
  OBVIOUS
<1>1. PICK n \in S : \A m \in S : n <= m
  BY LeastNat
<1>2. n # 0 /\ n - 1 \in Nat /\ n - 1 \notin S
  BY <1>1
<1>3. n - 1 \in P /\ n = (n - 1) + 1
  BY <1>1, <1>2
<1> QED BY <1>1, <1>3

(* Induction over sequences that grow at the end.                          *)
LEMMA SeqInduction ==
  ASSUME NEW S, NEW P \in SUBSET Seq(S), << >> \in P,
         \A s \in P, x \in S : Append(s, x) \in P
  PROVE  P = Seq(S)
<1> DEFINE N == {n \in Nat : \A s \in Seq(S) : Len(s) = n => s \in P}
<1>1. 0 \in N
  OBVIOUS
<1>2. ASSUME NEW n \in N PROVE n + 1 \in N
  <2> SUFFICES ASSUME NEW s \in Seq(S), Len(s) = n + 1 PROVE s \in P
    OBVIOUS
  <2>0. s # << >>
    OBVIOUS
  <2>1. PICK p \in Seq(S), x \in S : s = Append(p, x)
    BY <2>0, SequenceEmptyOrAppend
  <2>2. Len(p) = n
    BY <2>1
  <2> QED BY <2>1, <2>2
<1>3. N = Nat
  <2>1. N \in SUBSET Nat OBVIOUS
  <2> HIDE DEF N
  <2> QED BY <1>1, <1>2, <2>1, Induction
<1>4. ASSUME NEW s \in Seq(S) PROVE Len(s) \in N
  <2> HIDE DEF N
  <2> QED BY <1>3
<1> QED BY <1>4

(* Joining sequences is associative.                                       *)
LEMMA Joined ==
  ASSUME NEW R, NEW x \in Seq(R), NEW y \in Seq(R), NEW z \in Seq(R),
         Len(x) = Len(y) + Len(z),
         \A i \in 1..Len(y) : x[i] = y[i],
         \A i \in 1..Len(z) : x[Len(y) + i] = z[i]
  PROVE  x = y \o z
<1> DEFINE w == y \o z
<1>1. w \in Seq(R) /\ Len(w) = Len(x) /\ Len(y) \in Nat /\ Len(z) \in Nat
  OBVIOUS
<1>2. ASSUME NEW i \in 1..Len(x) PROVE x[i] = w[i]
  <2>1. CASE i <= Len(y)
    BY <1>1, <2>1
  <2>2. CASE ~(i <= Len(y))
    <3>1. i - Len(y) \in 1..Len(z) /\ Len(y) + (i - Len(y)) = i
      BY <1>1, <2>2
    <3>2. w[i] = z[i - Len(y)]
      BY <1>1, <2>2
    <3> QED BY <3>1, <3>2
  <2> QED BY <2>1, <2>2
<1> HIDE DEF w
<1>3. x = w
  BY <1>1, <1>2, SeqEqual
<1> QED BY <1>3 DEF w

IsUpto(u, s, T) ==
  u = [i \in 0..Len(s) |-> 
            IF i = 0 THEN << >>
            ELSE IF s[i] \in T THEN Append(u[i - 1], s[i]) ELSE u[i - 1]]

(* The function Among is built from exists: every step has a value.        *)
LEMMA UptoExists ==
  ASSUME NEW S, NEW T
  PROVE  \A s \in Seq(S) : \E u \in [0..Len(s) -> Seq(S \cap T)] : IsUpto(u, s, T)
<1> DEFINE P == {n \in Nat : \A s \in Seq(S) : Len(s) = n =>
                   \E u \in [0..n -> Seq(S \cap T)] : IsUpto(u, s, T)}
<1>1. 0 \in P
  <2> SUFFICES ASSUME NEW s \in Seq(S), Len(s) = 0
               PROVE  \E u \in [0..0 -> Seq(S \cap T)] : IsUpto(u, s, T)
    OBVIOUS
  <2> DEFINE u == [i \in 0..0 |-> << >>]
  <2>1. u \in [0..0 -> Seq(S \cap T)]
    OBVIOUS
  <2>2. IsUpto(u, s, T)
    BY DEF IsUpto
  <2> QED BY <2>1, <2>2
<1>2. ASSUME NEW n \in P PROVE n + 1 \in P
  <2> SUFFICES ASSUME NEW s \in Seq(S), Len(s) = n + 1
               PROVE  \E u \in [0..n + 1 -> Seq(S \cap T)] : IsUpto(u, s, T)
    OBVIOUS
  <2> DEFINE p == SubSeq(s, 1, n)
  <2>0. n \in Nat OBVIOUS
  <2>1. p \in Seq(S) /\ Len(p) = n /\ \A i \in 1..n : p[i] = s[i]
    BY <2>0
  <2>2. PICK u \in [0..n -> Seq(S \cap T)] : IsUpto(u, p, T)
    <3> HIDE DEF p
    <3> QED BY <2>1
  <2> DEFINE last == IF s[n + 1] \in T THEN Append(u[n], s[n + 1]) ELSE u[n]
             v == [i \in 0..n + 1 |-> IF i <= n THEN u[i] ELSE last]
  <2>3. s[n + 1] \in S /\ u[n] \in Seq(S \cap T)
    BY <2>0
  <2>4. last \in Seq(S \cap T)
    BY <2>3
  <2>5. v \in [0..n + 1 -> Seq(S \cap T)]
    <3> HIDE DEF last
    <3> QED BY <2>0, <2>4
  <2>6. IsUpto(v, s, T)
    <3>1. ASSUME NEW i \in 0..n + 1
          PROVE  v[i] = IF i = 0 THEN << >>
            ELSE IF s[i] \in T THEN Append(v[i - 1], s[i]) ELSE v[i - 1]
      <4>1. CASE i = 0
        <5>1. u[0] = << >>
          BY <2>0, <2>1, <2>2 DEF IsUpto
        <5> QED BY <5>1, <4>1, <2>0
      <4>2. CASE i \in 1..n
        <5>1. u[i] = IF p[i] \in T THEN Append(u[i - 1], p[i]) ELSE u[i - 1]
          <6> HIDE DEF p
          <6>1. i \in 0..Len(p) /\ i # 0
            BY <4>2, <2>0, <2>1
          <6>2. u = [j \in 0..Len(p) |->
                       IF j = 0 THEN << >>
                       ELSE IF p[j] \in T THEN Append(u[j - 1], p[j]) ELSE u[j - 1]]
            BY <2>2 DEF IsUpto
          <6> QED BY <6>1, <6>2
        <5>2. v[i] = u[i] /\ v[i - 1] = u[i - 1] /\ p[i] = s[i]
          BY <4>2, <2>0, <2>1
        <5> QED BY <5>1, <5>2, <4>2
      <4>3. CASE i = n + 1
        <5>1. v[i] = last /\ v[i - 1] = u[n]
          BY <4>3, <2>0
        <5> QED BY <5>1, <4>3, <2>0
      <4> QED BY <4>1, <4>2, <4>3, <2>0
    <3>2. DOMAIN v = 0..n + 1
      OBVIOUS
    <3> HIDE DEF v
    <3> QED BY <3>1, <3>2, <2>5 DEF IsUpto
  <2> QED BY <2>5, <2>6
<1>3. P = Nat
  <2>1. P \in SUBSET Nat OBVIOUS
  <2> HIDE DEF P
  <2> QED BY <1>1, <1>2, <2>1, Induction
<1> SUFFICES ASSUME NEW s \in Seq(S)
             PROVE  \E u \in [0..Len(s) -> Seq(S \cap T)] : IsUpto(u, s, T)
  OBVIOUS
<1>4. Len(s) \in P
  <2> HIDE DEF P
  <2> QED BY <1>3
<1> QED BY <1>4

(* Among is the last value of that function.                               *)
LEMMA AmongUpto ==
  ASSUME NEW S, NEW T, NEW s \in Seq(S)
  PROVE  \E u : /\ DOMAIN u = 0..Len(s) /\ IsUpto(u, s, T) /\ Among(s, T) = u[Len(s)]
<1> DEFINE w == CHOOSE u : IsUpto(u, s, T)
<1>1. \E u : IsUpto(u, s, T)
  BY UptoExists
<1>2. IsUpto(w, s, T)
  BY <1>1
<1>3. Among(s, T) = w[Len(s)]
  BY DEF Among, IsUpto
<1>4. DOMAIN w = 0..Len(s)
  <2> HIDE DEF w
  <2> QED BY <1>2 DEF IsUpto
<1> QED BY <1>2, <1>3, <1>4

(* Only one function takes these steps.                                    *)
LEMMA UptoUnique ==
  ASSUME NEW S, NEW T, NEW s \in Seq(S), NEW t \in Seq(S), NEW u, NEW v,
         Len(s) <= Len(t), \A i \in 1..Len(s) : s[i] = t[i],
         IsUpto(u, s, T), IsUpto(v, t, T)
  PROVE  u[Len(s)] = v[Len(s)]
<1> DEFINE P == {n \in Nat : n <= Len(s) => u[n] = v[n]}
<1>1. 0 \in P
  BY DEF IsUpto
<1>2. ASSUME NEW n \in P PROVE n + 1 \in P
  <2> SUFFICES ASSUME n + 1 <= Len(s) PROVE u[n + 1] = v[n + 1]
    OBVIOUS
  <2>1. /\ n \in Nat /\ n <= Len(s) /\ u[n] = v[n] /\ n + 1 \in 0..Len(s) /\ n + 1 \in 0..Len(t)
        /\ s[n + 1] = t[n + 1] /\ (n + 1) - 1 = n /\ n + 1 # 0
    OBVIOUS
  <2>2. u[n + 1] = IF s[n + 1] \in T THEN Append(u[n], s[n + 1]) ELSE u[n]
    BY <2>1 DEF IsUpto
  <2>3. v[n + 1] = IF t[n + 1] \in T THEN Append(v[n], t[n + 1]) ELSE v[n]
    BY <2>1 DEF IsUpto
  <2> QED BY <2>1, <2>2, <2>3
<1>3. P = Nat
  <2>1. P \in SUBSET Nat OBVIOUS
  <2> HIDE DEF P
  <2> QED BY <1>1, <1>2, <2>1, Induction
<1>4. Len(s) \in P
  <2> HIDE DEF P
  <2> QED BY <1>3
<1> QED BY <1>4

(* Nothing is picked out of the empty sequence.                            *)
LEMMA AmongEmpty ==
  ASSUME NEW T
  PROVE  Among(<< >>, T) = << >>
<1>1. << >> \in Seq({}) /\ Len(<< >>) = 0
  OBVIOUS
<1>2. PICK u : /\ DOMAIN u = 0..Len(<< >>) /\ IsUpto(u, << >>, T)
               /\ Among(<< >>, T) = u[Len(<< >>)]
  BY <1>1, AmongUpto
<1> QED BY <1>1, <1>2 DEF IsUpto

(* One more element is picked, or it is not.                               *)
LEMMA AmongAppend ==
  ASSUME NEW S, NEW T, NEW s \in Seq(S), NEW x \in S
  PROVE  Among(Append(s, x), T)
             = IF x \in T THEN Append(Among(s, T), x) ELSE Among(s, T)
<1> DEFINE t == Append(s, x)
<1>1. t \in Seq(S) /\ Len(t) = Len(s) + 1 /\ t[Len(t)] = x /\ Len(s) \in Nat
      /\ \A i \in 1..Len(s) : s[i] = t[i]
  OBVIOUS
<1> HIDE DEF t
<1>2. PICK u : IsUpto(u, s, T) /\ Among(s, T) = u[Len(s)]
  BY AmongUpto
<1>3. PICK v : IsUpto(v, t, T) /\ Among(t, T) = v[Len(t)]
  BY <1>1, AmongUpto
<1>4. u[Len(s)] = v[Len(s)]
  BY <1>1, <1>2, <1>3, UptoUnique
<1>5. v[Len(t)] = IF x \in T THEN Append(v[Len(s)], x) ELSE v[Len(s)]
  <2>1. Len(t) \in 0..Len(t) /\ Len(t) # 0 /\ Len(t) - 1 = Len(s)
    BY <1>1
  <2>2. v = [j \in 0..Len(t) |->
               IF j = 0 THEN << >>
               ELSE IF t[j] \in T THEN Append(v[j - 1], t[j]) ELSE v[j - 1]]
    BY <1>3 DEF IsUpto
  <2>3. v[Len(t)] = IF t[Len(t)] \in T THEN Append(v[Len(t) - 1], t[Len(t)])
                    ELSE v[Len(t) - 1]
    BY <2>1, <2>2
  <2> QED BY <1>1, <2>1, <2>3
<1> QED BY <1>2, <1>3, <1>4, <1>5 DEF t

(* What is picked are elements of the sequence that are in the set.        *)
LEMMA AmongType ==
  ASSUME NEW S, NEW T, NEW s \in Seq(S)
  PROVE  Among(s, T) \in Seq(S \cap T)
<1>1. PICK u : IsUpto(u, s, T) /\ Among(s, T) = u[Len(s)]
  BY AmongUpto
<1>2. PICK v \in [0..Len(s) -> Seq(S \cap T)] : IsUpto(v, s, T)
  BY UptoExists
<1>3. u[Len(s)] = v[Len(s)]
  BY <1>1, <1>2, UptoUnique
<1> QED BY <1>1, <1>2, <1>3

(* What is picked of a sequence.                                           *)
LEMMA AmongIn ==
  ASSUME NEW S, NEW T, NEW s \in Seq(S)
  PROVE  Among(s, T) \in Seq(S)
<1> DEFINE a == Among(s, T)
<1>1. a \in Seq(S \cap T)
  BY AmongType
<1> HIDE DEF a
<1> QED BY <1>1 DEF a

(* What is among the elements of a kind.                                   *)
LEMMA AmongHas ==
  ASSUME NEW S, NEW T, NEW s \in Seq(S)
  PROVE  Range(Among(s, T)) = Range(s) \cap T
<1> DEFINE P == {q \in Seq(S) : Range(Among(q, T)) = Range(q) \cap T}
<1>1. <<>> \in P
  <2>1. Range(<<>>) = {}
    BY DEF Range
  <2> QED BY <2>1, AmongEmpty
<1>2. ASSUME NEW q \in P, NEW x \in S PROVE Append(q, x) \in P
  <2>1. q \in Seq(S) /\ Append(q, x) \in Seq(S) /\ Range(Among(q, T)) = Range(q) \cap T
    OBVIOUS
  <2>2. Among(Append(q, x), T) = IF x \in T THEN Append(Among(q, T), x) ELSE Among(q, T)
    BY <2>1, AmongAppend
  <2>3. Among(q, T) \in Seq(S)
    BY <2>1, AmongIn
  <2>4. \A r \in Seq(S) : Range(Append(r, x)) = Range(r) \cup {x}
    <3> SUFFICES ASSUME NEW r \in Seq(S) PROVE Range(Append(r, x)) = Range(r) \cup {x}
      OBVIOUS
    <3>1. DOMAIN Append(r, x) = 1..(Len(r) + 1) /\ DOMAIN r = 1..Len(r) /\ Append(r, x)[Len(r) + 1] = x
      OBVIOUS
    <3>2. \A i \in 1..Len(r) : Append(r, x)[i] = r[i]
      OBVIOUS
    <3>3. Len(r) + 1 \in 1..(Len(r) + 1) /\ \A i \in 1..(Len(r) + 1) : i \in 1..Len(r) \/ i = Len(r) + 1
      OBVIOUS
    <3>4. \A i \in 1..Len(r) : i \in 1..(Len(r) + 1)
      OBVIOUS
    <3> QED BY <3>1, <3>2, <3>3, <3>4 DEF Range
  <2>5. Range(Append(q, x)) = Range(q) \cup {x}
    BY <2>1, <2>4
  <2>6. x \in T => Range(Append(Among(q, T), x)) = Range(Among(q, T)) \cup {x}
    BY <2>3, <2>4
  <2>7. Range(Among(Append(q, x), T)) = Range(Append(q, x)) \cap T
    BY <2>1, <2>2, <2>5, <2>6
  <2> QED BY <2>1, <2>7
<1>3. P = Seq(S)
  <2>1. P \in SUBSET Seq(S) OBVIOUS
  <2> HIDE DEF P
  <2> QED BY <1>1, <1>2, <2>1, SeqInduction
<1>4. s \in P
  <2> HIDE DEF P
  <2> QED BY <1>3
<1> QED BY <1>4

(* Something of a kind is among what is picked by it.                      *)
LEMMA AmongSome ==
  ASSUME NEW S, NEW T, NEW s \in Seq(S), NEW i \in 1..Len(s), s[i] \in T
  PROVE  Among(s, T) # <<>>
<1> DEFINE P == {q \in Seq(S) : (\E j \in 1..Len(q) : q[j] \in T) => Among(q, T) # <<>>}
<1>1. <<>> \in P
  OBVIOUS
<1>2. ASSUME NEW q \in P, NEW x \in S PROVE Append(q, x) \in P
  <2>1. q \in Seq(S) /\ Append(q, x) \in Seq(S)
    OBVIOUS
  <2>2. Among(Append(q, x), T) = IF x \in T THEN Append(Among(q, T), x) ELSE Among(q, T)
    BY <2>1, AmongAppend
  <2>3. ASSUME NEW j \in 1..Len(Append(q, x)), Append(q, x)[j] \in T PROVE Among(Append(q, x), T) # <<>>
    <3>1. CASE x \in T
      <4>1. Among(q, T) \in Seq(S \cap T)
        BY <2>1, AmongType
      <4>2. Append(Among(q, T), x) # <<>>
        BY <4>1, <3>1
      <4> QED BY <2>2, <3>1, <4>2
    <3>2. CASE x \notin T
      <4>1. j \in 1..Len(q) /\ q[j] \in T
        BY <2>1, <2>3, <3>2
      <4>2. Among(q, T) # <<>>
        BY <4>1
      <4> QED BY <2>2, <3>2, <4>2
    <3> QED BY <3>1, <3>2
  <2> QED BY <2>1, <2>3
<1>3. P = Seq(S)
  <2>1. P \in SUBSET Seq(S) OBVIOUS
  <2> HIDE DEF P
  <2> QED BY <1>1, <1>2, <2>1, SeqInduction
<1>4. s \in P
  <2> HIDE DEF P
  <2> QED BY <1>3
<1> QED BY <1>4

(* What is picked out of two sequences joined is what is picked out of     *)
(* each.                                                                   *)
LEMMA AmongConcat ==
  ASSUME NEW S, NEW T, NEW s \in Seq(S), NEW t \in Seq(S)
  PROVE  Among(s \o t, T) = Among(s, T) \o Among(t, T)
<1> DEFINE P == {q \in Seq(S) : Among(s \o q, T) = Among(s, T) \o Among(q, T)}
<1>1. << >> \in P
  <2>1. s \o << >> = s /\ << >> \in Seq(S)
    OBVIOUS
  <2>2. Among(s, T) \in Seq(S \cap T)
    BY AmongType
  <2> QED BY <2>1, <2>2, AmongEmpty
<1>2. ASSUME NEW q \in P, NEW x \in S PROVE Append(q, x) \in P
  <2> DEFINE r == s \o q
             a == Among(s, T)
             b == Among(q, T)
  <2>1. r \in Seq(S) /\ s \o Append(q, x) = Append(r, x) /\ Append(q, x) \in Seq(S)
    OBVIOUS
  <2>2. a \in Seq(S) /\ b \in Seq(S) /\ Among(r, T) = a \o b
    <3>1. Among(s, T) \in Seq(S \cap T) /\ Among(q, T) \in Seq(S \cap T)
      BY AmongType
    <3> QED BY <3>1
  <2> HIDE DEF r
  <2>3. Among(Append(r, x), T) = IF x \in T THEN Append(Among(r, T), x) ELSE Among(r, T)
    BY <2>1, AmongAppend
  <2>4. Among(Append(q, x), T) = IF x \in T THEN Append(b, x) ELSE b
    BY AmongAppend
  <2> HIDE DEF a, b
  <2>5. Append(a \o b, x) = a \o Append(b, x)
    <3> HIDE DEF P
    <3>1. a \in Seq(S) /\ b \in Seq(S)
      BY <2>2
    <3>2. (a \o b) \o <<x>> = a \o (b \o <<x>>)
      BY <3>1, ConcatAssociative
    <3>3. Append(a \o b, x) = (a \o b) \o <<x>>
      <4> DEFINE c == a \o b
      <4>1. c \in Seq(S)
        BY <3>1
      <4> HIDE DEF c
      <4>2. Append(c, x) = c \o <<x>>
        BY <4>1, AppendIsConcat
      <4> QED BY <4>2 DEF c
    <3>4. Append(b, x) = b \o <<x>>
      BY <3>1, AppendIsConcat
    <3> QED BY <3>2, <3>3, <3>4
  <2>6. Among(Append(r, x), T) = a \o Among(Append(q, x), T)
    BY <2>2, <2>3, <2>4, <2>5
  <2> QED BY <2>1, <2>6 DEF a
<1>3. P = Seq(S)
  <2>1. P \in SUBSET Seq(S) OBVIOUS
  <2> HIDE DEF P
  <2> QED BY <1>1, <1>2, <2>1, SeqInduction
<1>4. t \in P
  <2> HIDE DEF P
  <2> QED BY <1>3
<1> QED BY <1>4

(* What is picked out of one element.                                      *)
LEMMA AmongOne ==
  ASSUME NEW T, NEW x
  PROVE  Among(<<x>>, T) = IF x \in T THEN <<x>> ELSE << >>
<1> DEFINE S == {x}
           e == << >>
           one == <<x>>
<1>1. x \in S /\ e \in Seq(S) /\ one = Append(e, x)
  OBVIOUS
<1>2. Among(e, T) = << >>
  BY AmongEmpty
<1> HIDE DEF S, e, one
<1>3. Among(Append(e, x), T) = IF x \in T THEN Append(Among(e, T), x) ELSE Among(e, T)
  BY <1>1, AmongAppend
<1>4. Append(<< >>, x) = <<x>>
  OBVIOUS
<1> QED BY <1>1, <1>2, <1>3, <1>4 DEF one

(* A sequence of one element is the empty one with it appended.            *)
LEMMA Single ==
  ASSUME NEW S, NEW b \in Seq(S), Len(b) = 1
  PROVE  b # << >> /\ Head(b) = b[1] /\ b[1] \in S /\ b = <<b[1]>>
<1>1. b # << >>
  OBVIOUS
<1>2. Head(b) = b[1] /\ b[1] \in S
  BY <1>1
<1>3. b = <<b[1]>>
  <2> DEFINE c == <<b[1]>>
  <2>1. c \in Seq(S) /\ Len(c) = 1 /\ c[1] = b[1]
    BY <1>2
  <2> HIDE DEF c
  <2>2. b = c
    BY <2>1, SeqEqual
  <2> QED BY <2>2 DEF c
<1> QED BY <1>1, <1>2, <1>3

(* A sequence of two elements is two of one joined.                        *)
LEMMA Pair ==
  ASSUME NEW x, NEW y
  PROVE  Append(<<x>>, y) = <<x, y>>
<1> DEFINE S == {x, y}
           a == <<x>>
           one == <<y>>
           c == <<x, y>>
<1>1. a \in Seq(S) /\ one \in Seq(S) /\ c \in Seq(S) /\ y \in S
  OBVIOUS
<1>2. /\ Len(a) = 1 /\ a[1] = x /\ Len(one) = 1 /\ one[1] = y
      /\ Len(c) = 2 /\ c[1] = x /\ c[2] = y
  OBVIOUS
<1> HIDE DEF a, one, c, S
<1>3. c = a \o one
  <2>1. Len(c) = Len(a) + Len(one)
    BY <1>2
  <2>2. \A i \in 1..Len(a) : c[i] = a[i]
    BY <1>2
  <2>3. \A i \in 1..Len(one) : c[Len(a) + i] = one[i]
    BY <1>2
  <2> QED BY <1>1, <2>1, <2>2, <2>3, Joined
<1>4. Append(a, y) = a \o one
  BY <1>1, AppendIsConcat DEF one
<1> QED BY <1>3, <1>4 DEF a, c

(* What is picked out of two elements.                                     *)
LEMMA AmongTwo ==
  ASSUME NEW T, NEW x, NEW y
  PROVE  Among(<<x, y>>, T) =
             IF x \in T THEN (IF y \in T THEN <<x, y>> ELSE <<x>>)
                        ELSE (IF y \in T THEN <<y>> ELSE << >>)
<1> DEFINE S == {x, y}
           a == <<x>>
           both == <<x, y>>
<1>1. a \in Seq(S) /\ y \in S /\ both = Append(a, y)
  OBVIOUS
<1>2. Among(a, T) = IF x \in T THEN <<x>> ELSE << >>
  BY AmongOne
<1> HIDE DEF S, a, both
<1>3. Among(Append(a, y), T) = IF y \in T THEN Append(Among(a, T), y) ELSE Among(a, T)
  BY <1>1, AmongAppend
<1>4. Append(<< >>, y) = <<y>>
  OBVIOUS
<1>5. Append(<<x>>, y) = <<x, y>>
  BY Pair
<1> QED BY <1>1, <1>2, <1>3, <1>4, <1>5 DEF both

-----------------------------------------------------------------------------
(* What FlattenSeq builds is a function, too.                              *)
IsFlat(u, ss) ==
  u = [i \in 1..Len(ss) |-> IF i = 1 THEN ss[i] ELSE u[i - 1] \o ss[i]]

(* That function exists.                                                   *)
LEMMA FlatExists ==
  ASSUME NEW S
  PROVE  \A ss \in Seq(Seq(S)) : \E u \in [1..Len(ss) -> Seq(S)] : IsFlat(u, ss)
<1> DEFINE P == {n \in Nat : \A ss \in Seq(Seq(S)) : Len(ss) = n =>
                   \E u \in [1..n -> Seq(S)] : IsFlat(u, ss)}
<1>1. 0 \in P
  <2> SUFFICES ASSUME NEW ss \in Seq(Seq(S)), Len(ss) = 0
               PROVE  \E u \in [1..0 -> Seq(S)] : IsFlat(u, ss)
    OBVIOUS
  <2> DEFINE u == [i \in 1..0 |-> << >>]
  <2>1. u \in [1..0 -> Seq(S)] /\ IsFlat(u, ss)
    BY DEF IsFlat
  <2> QED BY <2>1
<1>2. ASSUME NEW n \in P PROVE n + 1 \in P
  <2> SUFFICES ASSUME NEW ss \in Seq(Seq(S)), Len(ss) = n + 1
               PROVE  \E u \in [1..n + 1 -> Seq(S)] : IsFlat(u, ss)
    OBVIOUS
  <2> DEFINE p == SubSeq(ss, 1, n)
  <2>0. n \in Nat OBVIOUS
  <2>1. p \in Seq(Seq(S)) /\ Len(p) = n /\ \A i \in 1..n : p[i] = ss[i]
    BY <2>0
  <2>2. PICK u \in [1..n -> Seq(S)] : IsFlat(u, p)
    <3> HIDE DEF p
    <3> QED BY <2>1
  <2> DEFINE last == IF n = 0 THEN ss[1] ELSE u[n] \o ss[n + 1]
             v == [i \in 1..n + 1 |-> IF i <= n THEN u[i] ELSE last]
  <2>3. ss[n + 1] \in Seq(S) /\ (n # 0 => u[n] \in Seq(S))
    BY <2>0
  <2>4. last \in Seq(S)
    BY <2>0, <2>3
  <2>5. v \in [1..n + 1 -> Seq(S)]
    <3> HIDE DEF last
    <3> QED BY <2>0, <2>4
  <2>6. \A i \in 1..n : u[i] = IF i = 1 THEN p[i] ELSE u[i - 1] \o p[i]
    <3> HIDE DEF p
    <3>1. u = [i \in 1..n |-> IF i = 1 THEN p[i] ELSE u[i - 1] \o p[i]]
      BY <2>1, <2>2 DEF IsFlat
    <3> QED BY <3>1
  <2>7. ASSUME NEW i \in 1..n + 1
        PROVE  v[i] = IF i = 1 THEN ss[i] ELSE v[i - 1] \o ss[i]
    <3>1. CASE i \in 1..n
      <4>1. v[i] = u[i] /\ p[i] = ss[i] /\ (i # 1 => v[i - 1] = u[i - 1])
        BY <3>1, <2>0, <2>1
      <4> QED BY <4>1, <3>1, <2>6
    <3>2. CASE i = n + 1
      <4>1. v[i] = last /\ (n # 0 => v[i - 1] = u[n]) /\ (n = 0 <=> i = 1)
        BY <3>2, <2>0
      <4> QED BY <4>1, <3>2, <2>0
    <3> QED BY <3>1, <3>2, <2>0
  <2>8. DOMAIN v = 1..n + 1
    OBVIOUS
  <2> HIDE DEF v
  <2>9. IsFlat(v, ss)
    BY <2>5, <2>7, <2>8 DEF IsFlat
  <2> QED BY <2>5, <2>9
<1>3. P = Nat
  <2>1. P \in SUBSET Nat OBVIOUS
  <2> HIDE DEF P
  <2> QED BY <1>1, <1>2, <2>1, Induction
<1> SUFFICES ASSUME NEW ss \in Seq(Seq(S))
             PROVE  \E u \in [1..Len(ss) -> Seq(S)] : IsFlat(u, ss)
  OBVIOUS
<1>4. Len(ss) \in P
  <2> HIDE DEF P
  <2> QED BY <1>3
<1> QED BY <1>4

(* There is only one, even over the sequences that another one goes on     *)
(* from.                                                                   *)
LEMMA FlatUnique ==
  ASSUME NEW S, NEW ss \in Seq(Seq(S)), NEW tt \in Seq(Seq(S)), NEW u, NEW v,
         Len(ss) <= Len(tt), \A i \in 1..Len(ss) : ss[i] = tt[i],
         IsFlat(u, ss), IsFlat(v, tt), Len(ss) # 0
  PROVE  u[Len(ss)] = v[Len(ss)]
<1> DEFINE P == {n \in Nat : n \in 1..Len(ss) => u[n] = v[n]}
<1>1. 0 \in P
  OBVIOUS
<1>2. ASSUME NEW n \in P PROVE n + 1 \in P
  <2> SUFFICES ASSUME n + 1 \in 1..Len(ss) PROVE u[n + 1] = v[n + 1]
    OBVIOUS
  <2>1. /\ n \in Nat /\ n + 1 \in 1..Len(tt) /\ ss[n + 1] = tt[n + 1] /\ (n + 1) - 1 = n
        /\ n # 0 => u[n] = v[n]
        /\ n = 0 <=> n + 1 = 1
    OBVIOUS
  <2>2. u[n + 1] = IF n = 0 THEN ss[n + 1] ELSE u[n] \o ss[n + 1]
    BY <2>1 DEF IsFlat
  <2>3. v[n + 1] = IF n = 0 THEN tt[n + 1] ELSE v[n] \o tt[n + 1]
    BY <2>1 DEF IsFlat
  <2> QED BY <2>1, <2>2, <2>3
<1>3. P = Nat
  <2>1. P \in SUBSET Nat OBVIOUS
  <2> HIDE DEF P
  <2> QED BY <1>1, <1>2, <2>1, Induction
<1>4. Len(ss) \in P
  <2> HIDE DEF P
  <2> QED BY <1>3
<1> QED BY <1>4

(* FlattenSeq is the last value of that function.                          *)
LEMMA FlattenFlat ==
  ASSUME NEW S, NEW ss \in Seq(Seq(S)), Len(ss) # 0
  PROVE  \E u : u \in [1..Len(ss) -> Seq(S)] /\ IsFlat(u, ss) /\ FlattenSeq(ss) = u[Len(ss)]
<1> DEFINE w == CHOOSE u : IsFlat(u, ss)
<1>1. PICK u \in [1..Len(ss) -> Seq(S)] : IsFlat(u, ss)
  BY FlatExists
<1>2. IsFlat(w, ss)
  BY <1>1
<1>3. FlattenSeq(ss) = w[Len(ss)]
  BY DEF FlattenSeq, IsFlat
<1> HIDE DEF w
<1>4. Len(ss) \in 1..Len(ss)
  OBVIOUS
<1>5. u[Len(ss)] = w[Len(ss)]
  BY <1>1, <1>2, <1>4, FlatUnique
<1> QED BY <1>1, <1>3, <1>5

(* Nothing flattened is nothing.                                           *)
LEMMA FlattenEmpty ==
  FlattenSeq(<< >>) = << >>
BY DEF FlattenSeq

(* Sequences flattened are a sequence.                                     *)
LEMMA FlattenType ==
  ASSUME NEW S, NEW ss \in Seq(Seq(S))
  PROVE  FlattenSeq(ss) \in Seq(S)
<1>1. CASE Len(ss) = 0
  <2>1. ss = << >> /\ << >> \in Seq(S)
    BY <1>1
  <2> QED BY <2>1, FlattenEmpty
<1>2. CASE Len(ss) # 0
  <2>1. PICK u : u \in [1..Len(ss) -> Seq(S)] /\ FlattenSeq(ss) = u[Len(ss)]
    BY <1>2, FlattenFlat
  <2>2. Len(ss) \in 1..Len(ss)
    BY <1>2
  <2>3. u[Len(ss)] \in Seq(S)
    BY <2>1, <2>2
  <2> QED BY <2>1, <2>3
<1> QED BY <1>1, <1>2

(* One more sequence comes behind the others.                              *)
LEMMA FlattenAppend ==
  ASSUME NEW S, NEW ss \in Seq(Seq(S)), NEW x \in Seq(S)
  PROVE  FlattenSeq(Append(ss, x)) = FlattenSeq(ss) \o x
<1> DEFINE tt == Append(ss, x)
<1>1. /\ tt \in Seq(Seq(S)) /\ Len(tt) = Len(ss) + 1 /\ tt[Len(tt)] = x /\ Len(ss) \in Nat
      /\ \A i \in 1..Len(ss) : ss[i] = tt[i]
  OBVIOUS
<1> HIDE DEF tt
<1>2. PICK v : v \in [1..Len(tt) -> Seq(S)] /\ IsFlat(v, tt) /\ FlattenSeq(tt) = v[Len(tt)]
  BY <1>1, FlattenFlat
<1>3. v[Len(tt)] = IF Len(tt) = 1 THEN tt[Len(tt)] ELSE v[Len(tt) - 1] \o tt[Len(tt)]
  <2>1. Len(tt) \in 1..Len(tt)
    BY <1>1
  <2>2. v = [i \in 1..Len(tt) |-> IF i = 1 THEN tt[i] ELSE v[i - 1] \o tt[i]]
    BY <1>2 DEF IsFlat
  <2> QED BY <2>1, <2>2
<1>4. CASE Len(ss) = 0
  <2>1. ss = << >> /\ FlattenSeq(tt) = x
    BY <1>1, <1>2, <1>3, <1>4
  <2>2. << >> \o x = x
    OBVIOUS
  <2> QED BY <2>1, <2>2, FlattenEmpty DEF tt
<1>5. CASE Len(ss) # 0
  <2>1. PICK u : u \in [1..Len(ss) -> Seq(S)] /\ IsFlat(u, ss) /\ FlattenSeq(ss) = u[Len(ss)]
    BY <1>5, FlattenFlat
  <2>2. Len(ss) \in 1..Len(ss) /\ Len(ss) <= Len(tt)
    BY <1>1, <1>5
  <2>3. u[Len(ss)] = v[Len(ss)]
    BY <1>1, <1>2, <1>5, <2>1, <2>2, FlatUnique
  <2>4. Len(tt) # 1 /\ Len(tt) - 1 = Len(ss)
    BY <1>1, <1>5
  <2> QED BY <1>1, <1>2, <1>3, <2>1, <2>2, <2>3, <2>4 DEF tt
<1> QED BY <1>4, <1>5

(* Joined sequences flattened are each flattened and joined.               *)
LEMMA FlattenConcat ==
  ASSUME NEW S, NEW ss \in Seq(Seq(S)), NEW tt \in Seq(Seq(S))
  PROVE  FlattenSeq(ss \o tt) = FlattenSeq(ss) \o FlattenSeq(tt)
<1> DEFINE B == Seq(S)
           P == {qq \in Seq(B) :
                   FlattenSeq(ss \o qq) = FlattenSeq(ss) \o FlattenSeq(qq)}
<1>0. \A a, b, c \in B : (a \o b) \o c = a \o (b \o c) /\ a \o << >> = a
  OBVIOUS
<1>t. \A qq \in Seq(B) : FlattenSeq(qq) \in B
  BY FlattenType
<1>1. << >> \in P
  <2>1. ss \o << >> = ss /\ << >> \in Seq(B)
    OBVIOUS
  <2>2. FlattenSeq(ss) \o << >> = FlattenSeq(ss)
    BY <1>0, <1>t
  <2> QED BY <2>1, <2>2, FlattenEmpty
<1>2. ASSUME NEW qq \in P, NEW x \in B PROVE Append(qq, x) \in P
  <2> DEFINE rr == ss \o qq
  <2>0. qq \in Seq(B) /\ ss \in Seq(B)
    OBVIOUS
  <2>1. rr \in Seq(B) /\ ss \o Append(qq, x) = Append(rr, x)
        /\ Append(qq, x) \in Seq(B) /\ qq \in Seq(B)
    <3> HIDE DEF B, P
    <3>1. rr \in Seq(B) /\ Append(qq, x) \in Seq(B)
      BY <2>0
    <3>2. ss \o Append(qq, x) = Append(rr, x)
      BY <2>0
    <3> QED BY <2>0, <3>1, <3>2
  <2>2. FlattenSeq(rr) = FlattenSeq(ss) \o FlattenSeq(qq)
    OBVIOUS
  <2> HIDE DEF rr, P
  <2>3. FlattenSeq(Append(rr, x)) = FlattenSeq(rr) \o x
    BY <2>1, FlattenAppend
  <2>4. FlattenSeq(Append(qq, x)) = FlattenSeq(qq) \o x
    BY <2>1, FlattenAppend
  <2>5. (FlattenSeq(ss) \o FlattenSeq(qq)) \o x
            = FlattenSeq(ss) \o (FlattenSeq(qq) \o x)
    <3>1. FlattenSeq(ss) \in B /\ FlattenSeq(qq) \in B
      BY <1>t, <2>1
    <3> QED BY <1>0, <3>1
  <2>6. FlattenSeq(ss \o Append(qq, x))
            = FlattenSeq(ss) \o FlattenSeq(Append(qq, x))
    BY <2>1, <2>2, <2>3, <2>4, <2>5
  <2> QED BY <2>1, <2>6 DEF P
<1>3. P = Seq(B)
  <2>1. P \in SUBSET Seq(B) OBVIOUS
  <2> HIDE DEF P, B
  <2> QED BY <1>1, <1>2, <2>1, SeqInduction
<1>4. tt \in P
  <2> HIDE DEF P
  <2> QED BY <1>3
<1> QED BY <1>4

(* A single sequence flattened is itself.                                  *)
LEMMA FlattenOne ==
  ASSUME NEW S, NEW x \in Seq(S)
  PROVE  FlattenSeq(<<x>>) = x
<1> DEFINE B == Seq(S)
           e == << >>
           one == <<x>>
<1>1. e \in Seq(B) /\ one = Append(e, x)
  OBVIOUS
<1> HIDE DEF one, e
<1>2. FlattenSeq(Append(e, x)) = FlattenSeq(e) \o x
  BY <1>1, FlattenAppend
<1>3. FlattenSeq(e) = << >>
  BY FlattenEmpty DEF e
<1>4. << >> \o x = x
  OBVIOUS
<1> QED BY <1>1, <1>2, <1>3, <1>4 DEF one

(* The parts of a joined sequence.                                         *)
LEMMA JoinParts ==
  ASSUME NEW S, NEW s \in Seq(S), NEW t \in Seq(S)
  PROVE  /\ s \o t \in Seq(S) /\ Len(s \o t) = Len(s) + Len(t)
         /\ \A i \in 1..Len(s) : (s \o t)[i] = s[i]
         /\ \A i \in 1..Len(t) : (s \o t)[Len(s) + i] = t[i]
<1>1. s \o t \in Seq(S) /\ Len(s \o t) = Len(s) + Len(t)
      /\ \A i \in 1..Len(s) : (s \o t)[i] = s[i]
  OBVIOUS
<1>2. \A i \in 1..Len(t) : (s \o t)[Len(s) + i] = t[i]
  OBVIOUS
<1> QED BY <1>1, <1>2

(* Two elements behind a sequence.                                         *)
LEMMA JoinTwo ==
  ASSUME NEW S, NEW vs \in Seq(S), NEW a \in S, NEW b \in S
  PROVE  /\ vs \o <<a, b>> \in Seq(S) /\ Len(vs \o <<a, b>>) = Len(vs) + 2
         /\ \A i \in 1..Len(vs) : (vs \o <<a, b>>)[i] = vs[i]
         /\ (vs \o <<a, b>>)[Len(vs) + 1] = a
         /\ (vs \o <<a, b>>)[Len(vs) + 2] = b
<1>1. ASSUME NEW t \in Seq(S), Len(t) = 2
      PROVE  /\ vs \o t \in Seq(S) /\ Len(vs \o t) = Len(vs) + 2
             /\ \A i \in 1..Len(vs) : (vs \o t)[i] = vs[i]
             /\ (vs \o t)[Len(vs) + 1] = t[1]
             /\ (vs \o t)[Len(vs) + 2] = t[2]
  <2>1. /\ vs \o t \in Seq(S) /\ Len(vs \o t) = Len(vs) + Len(t)
        /\ \A i \in 1..Len(vs) : (vs \o t)[i] = vs[i]
        /\ \A i \in 1..Len(t) : (vs \o t)[Len(vs) + i] = t[i]
    BY JoinParts
  <2> QED BY <1>1, <2>1
<1>2. <<a, b>> \in Seq(S) /\ Len(<<a, b>>) = 2 /\ <<a, b>>[1] = a
      /\ <<a, b>>[2] = b
  OBVIOUS
<1> QED BY <1>1, <1>2

(* Two elements are one and another.                                       *)
LEMMA TwoJoined ==
  ASSUME NEW S, NEW a \in S, NEW b \in S
  PROVE  <<a, b>> = <<a>> \o <<b>>
<1> DEFINE x == <<a, b>>
           y == <<a>>
           z == <<b>>
<1>1. /\ x \in Seq(S) /\ Len(x) = 2 /\ x[1] = a /\ x[2] = b
      /\ y \in Seq(S) /\ Len(y) = 1 /\ y[1] = a
      /\ z \in Seq(S) /\ Len(z) = 1 /\ z[1] = b
  OBVIOUS
<1> HIDE DEF x, y, z
<1>2. Len(x) = Len(y) + Len(z)  BY <1>1
<1>3. \A i \in 1..Len(y) : x[i] = y[i]  BY <1>1
<1>4. \A i \in 1..Len(z) : x[Len(y) + i] = z[i]  BY <1>1
<1>5. x = y \o z  BY <1>1, <1>2, <1>3, <1>4, Joined
<1> QED BY <1>5 DEF x, y, z

-----------------------------------------------------------------------------
(* What Accumulated builds is the last value of a function that exists.    *)
IsAccumulated(u, step, base, s) ==
  u = [i \in 0..Len(s) |-> IF i = 0 THEN base ELSE step[<<u[i - 1], s[i]>>]]
AccumulatedUpto(u, n, step, base, s) ==
  u = [i \in 0..n |-> IF i = 0 THEN base ELSE step[<<u[i - 1], s[i]>>]]

(* That function exists.                                                   *)
LEMMA AccumulatedExists ==
  ASSUME NEW step, NEW base, NEW s, Len(s) \in Nat
  PROVE  \E u : IsAccumulated(u, step, base, s)
<1> DEFINE P == {n \in Nat : \E u : AccumulatedUpto(u, n, step, base, s)}
<1>1. 0 \in P
  <2> DEFINE u == [i \in 0..0 |-> base]
  <2>1. AccumulatedUpto(u, 0, step, base, s)
    BY DEF AccumulatedUpto
  <2> QED BY <2>1
<1>2. ASSUME NEW n \in P PROVE n + 1 \in P
  <2>0. n \in Nat OBVIOUS
  <2>1. PICK u : AccumulatedUpto(u, n, step, base, s)
    OBVIOUS
  <2> DEFINE last == step[<<u[n], s[n + 1]>>]
             v == [i \in 0..n + 1 |-> IF i <= n THEN u[i] ELSE last]
  <2>2. \A i \in 0..n : u[i] = IF i = 0 THEN base ELSE step[<<u[i - 1], s[i]>>]
    BY <2>1 DEF AccumulatedUpto
  <2>3. ASSUME NEW i \in 0..n + 1
        PROVE  v[i] = IF i = 0 THEN base ELSE step[<<v[i - 1], s[i]>>]
    <3>1. CASE i \in 0..n
      <4>1. v[i] = u[i] /\ (i # 0 => v[i - 1] = u[i - 1])
        BY <2>0, <3>1
      <4> QED BY <2>2, <3>1, <4>1
    <3>2. CASE i = n + 1
      <4>1. v[i] = last /\ v[i - 1] = u[n] /\ i # 0
        BY <2>0, <3>2
      <4> QED BY <3>2, <4>1
    <3> QED BY <2>0, <3>1, <3>2
  <2>4. DOMAIN v = 0..n + 1 /\ v = [i \in 0..n + 1 |-> v[i]]
    OBVIOUS
  <2> HIDE DEF v
  <2>5. AccumulatedUpto(v, n + 1, step, base, s)
    BY <2>3, <2>4 DEF AccumulatedUpto
  <2> QED BY <2>0, <2>5
<1>3. P = Nat
  <2>1. P \in SUBSET Nat OBVIOUS
  <2> HIDE DEF P
  <2> QED BY <1>1, <1>2, <2>1, Induction
<1>4. \E u : AccumulatedUpto(u, Len(s), step, base, s)
  BY <1>3
<1> QED BY <1>4 DEF AccumulatedUpto, IsAccumulated

(* What is accumulated is the last value of such a function.               *)
LEMMA AccumulatedLast ==
  ASSUME NEW step, NEW base, NEW s, Len(s) \in Nat
  PROVE  \E u : /\ u[0] = base /\ \A i \in 1..Len(s) : u[i] = step[<<u[i - 1], s[i]>>]
                /\ Accumulated(step, base, s) = u[Len(s)]
<1> DEFINE w == CHOOSE u : IsAccumulated(u, step, base, s)
<1>1. IsAccumulated(w, step, base, s)
  BY AccumulatedExists
<1>2. Accumulated(step, base, s) = w[Len(s)]
  BY DEF Accumulated, IsAccumulated
<1> HIDE DEF w
<1>3. \A i \in 0..Len(s) : w[i] = IF i = 0 THEN base ELSE step[<<w[i - 1], s[i]>>]
  BY <1>1 DEF IsAccumulated
<1>4. w[0] = base
  <2>1. 0 \in 0..Len(s)
    OBVIOUS
  <2> QED BY <1>3, <2>1
<1>5. \A i \in 1..Len(s) : w[i] = step[<<w[i - 1], s[i]>>]
  BY <1>3
<1> QED BY <1>2, <1>4, <1>5

(* What each step keeps holds in the end: P[i] is the set of what there    *)
(* may be after i elements.                                                *)
LEMMA Accumulates ==
  ASSUME NEW step, NEW base, NEW s, Len(s) \in Nat, NEW P,
         base \in P[0], \A i \in 1..Len(s) : \A x \in P[i - 1] : step[<<x, s[i]>>] \in P[i]
  PROVE  Accumulated(step, base, s) \in P[Len(s)]
<1>1. PICK u : /\ u[0] = base /\ \A i \in 1..Len(s) : u[i] = step[<<u[i - 1], s[i]>>]
               /\ Accumulated(step, base, s) = u[Len(s)]
  BY AccumulatedLast
<1> DEFINE K == {n \in Nat : n <= Len(s) => u[n] \in P[n]}
<1>2. 0 \in K
  BY <1>1
<1>3. ASSUME NEW n \in K PROVE n + 1 \in K
  <2> SUFFICES ASSUME n + 1 <= Len(s) PROVE u[n + 1] \in P[n + 1]
    OBVIOUS
  <2>1. n \in Nat /\ n + 1 \in 1..Len(s) /\ (n + 1) - 1 = n /\ u[n] \in P[n]
    OBVIOUS
  <2>2. u[n + 1] = step[<<u[n], s[n + 1]>>]
    BY <1>1, <2>1
  <2> QED BY <2>1, <2>2
<1>4. K = Nat
  <2>1. K \in SUBSET Nat OBVIOUS
  <2> HIDE DEF K
  <2> QED BY <1>2, <1>3, <2>1, Induction
<1>5. Len(s) \in K
  BY <1>4
<1> QED BY <1>1, <1>5

(* One more element is one more step.                                      *)
LEMMA AccumulatedAppend ==
  ASSUME NEW S, NEW step, NEW base, NEW s \in Seq(S), NEW x \in S
  PROVE  Accumulated(step, base, Append(s, x)) = step[<<Accumulated(step, base, s), x>>]
<1> DEFINE t == Append(s, x)
<1>0. /\ Len(s) \in Nat /\ Len(t) = Len(s) + 1 /\ t[Len(t)] = x
      /\ \A i \in 1..Len(s) : t[i] = s[i]
  OBVIOUS
<1> HIDE DEF t
<1>1. PICK u : /\ u[0] = base /\ \A i \in 1..Len(s) : u[i] = step[<<u[i - 1], s[i]>>]
               /\ Accumulated(step, base, s) = u[Len(s)]
  BY AccumulatedLast
<1> DEFINE last == step[<<u[Len(s)], x>>]
           P == [i \in Nat |-> IF i <= Len(s) THEN {u[i]} ELSE {last}]
<1>2. P[0] = {base} /\ P[Len(t)] = {last}
  BY <1>0, <1>1
<1>3. ASSUME NEW i \in 1..Len(t), NEW y \in P[i - 1] PROVE step[<<y, t[i]>>] \in P[i]
  <2>1. CASE i \in 1..Len(s)
    <3>1. P[i] = {u[i]} /\ P[i - 1] = {u[i - 1]}
      BY <1>0, <2>1
    <3> QED BY <1>0, <1>1, <2>1, <3>1
  <2>2. CASE i = Len(t)
    <3>1. P[i] = {last} /\ P[i - 1] = {u[Len(s)]}
      BY <1>0, <2>2
    <3> QED BY <1>0, <2>2, <3>1
  <2> QED BY <1>0, <2>1, <2>2
<1> HIDE DEF P
<1>4. Accumulated(step, base, t) \in P[Len(t)]
  BY <1>0, <1>2, <1>3, Accumulates
<1> QED BY <1>1, <1>2, <1>4 DEF t

(* Nothing accumulated is the base.                                        *)
LEMMA AccumulatedEmpty ==
  ASSUME NEW step, NEW base, NEW s, Len(s) = 0
  PROVE  Accumulated(step, base, s) = base
BY AccumulatedLast
(* Where each sequence is when they are flattened.                         *)
IsPlaced(ss, st, f) ==
  /\ st \in [1..(Len(ss) + 1) -> Nat] /\ st[1] = 0 /\ Len(f) = st[Len(ss) + 1]
  /\ \A i \in 1..Len(ss) : st[i + 1] = st[i] + Len(ss[i]) /\ st[i + 1] <= st[Len(ss) + 1]
  /\ \A i \in 1..Len(ss) : \A j \in 1..Len(ss[i]) : f[st[i] + j] = ss[i][j]

(* One more sequence is put behind the others.                             *)
LEMMA FlatPlacedAppend ==
  ASSUME NEW S, NEW ss \in Seq(Seq(S)), NEW f \in Seq(S), NEW st, IsPlaced(ss, st, f), NEW x \in Seq(S)
  PROVE  \E v : IsPlaced(Append(ss, x), v, f \o x)
<1> DEFINE L == Len(ss)
           tt == Append(ss, x)
           g == f \o x
           v == [i \in 1..(L + 2) |-> IF i = L + 2 THEN st[L + 1] + Len(x) ELSE st[i]]
<1>1. L \in Nat /\ Len(x) \in Nat /\ \A i \in 1..L : ss[i] \in Seq(S)
  OBVIOUS
<1>2. /\ st \in [1..(L + 1) -> Nat] /\ st[1] = 0 /\ Len(f) = st[L + 1]
      /\ \A i \in 1..L : st[i + 1] = st[i] + Len(ss[i]) /\ st[i + 1] <= st[L + 1]
      /\ \A i \in 1..L : \A j \in 1..Len(ss[i]) : f[st[i] + j] = ss[i][j]
  BY DEF IsPlaced
<1>3. Len(tt) = L + 1 /\ tt[L + 1] = x /\ \A i \in 1..L : tt[i] = ss[i]
  OBVIOUS
<1>4. /\ Len(g) = Len(f) + Len(x)
      /\ \A i \in 1..Len(f) : g[i] = f[i]
      /\ \A i \in 1..Len(x) : g[Len(f) + i] = x[i]
  BY JoinParts
<1>5. st[L + 1] \in Nat
  BY <1>1, <1>2
<1> HIDE DEF L, tt, g
<1>6. /\ v \in [1..(L + 2) -> Nat] /\ v[1] = 0 /\ v[L + 2] = st[L + 1] + Len(x) /\ v[L + 1] = st[L + 1]
      /\ \A i \in 1..L : v[i] = st[i] /\ v[i + 1] = st[i + 1]
  BY <1>1, <1>2, <1>5
<1> HIDE DEF v
<1>7. ASSUME NEW i \in 1..(L + 1)
      PROVE  /\ v[i + 1] = v[i] + Len(tt[i]) /\ v[i + 1] <= v[L + 2]
             /\ \A j \in 1..Len(tt[i]) : g[v[i] + j] = tt[i][j]
  <2>1. CASE i = L + 1
    <3>1. i + 1 = L + 2 /\ v[L + 2] \in Nat
      BY <1>1, <1>5, <1>6, <2>1
    <3> QED BY <1>2, <1>3, <1>4, <1>5, <1>6, <2>1, <3>1
  <2>2. CASE i # L + 1
    <3>1. i \in 1..L /\ i + 1 \in 1..(L + 1)
      BY <1>1, <2>2
    <3>2. v[i] = st[i] /\ v[i + 1] = st[i + 1] /\ tt[i] = ss[i] /\ st[i] \in Nat /\ st[i + 1] \in Nat
      BY <1>1, <1>2, <1>3, <1>6, <3>1
    <3>3. st[i + 1] = st[i] + Len(ss[i]) /\ st[i + 1] <= st[L + 1] /\ Len(ss[i]) \in Nat
      BY <1>1, <1>2, <3>1
    <3>4. v[i + 1] <= v[L + 2]
      <4> DEFINE a == st[i + 1]
                 b == st[L + 1]
                 c == Len(x)
      <4>1. a \in Nat /\ b \in Nat /\ c \in Nat /\ a <= b
        BY <1>1, <1>5, <3>2, <3>3
      <4> HIDE DEF a, b, c
      <4>2. a <= b + c
        BY <4>1
      <4> QED BY <1>6, <3>2, <4>2 DEF a, b, c
    <3>5. ASSUME NEW j \in 1..Len(ss[i]) PROVE g[st[i] + j] = ss[i][j]
      <4> DEFINE a == st[i]
                 b == st[i + 1]
                 c == st[L + 1]
                 l == Len(ss[i])
      <4>1. a \in Nat /\ b \in Nat /\ c \in Nat /\ l \in Nat /\ b = a + l /\ b <= c /\ j \in 1..l
        BY <1>5, <3>2, <3>3
      <4> HIDE DEF a, b, c, l
      <4>2. a + j \in 1..c
        BY <4>1
      <4>3. st[i] + j \in 1..Len(f)
        BY <1>2, <4>2 DEF a, c
      <4> QED BY <1>2, <1>4, <3>1, <4>3
    <3> QED BY <3>2, <3>3, <3>4, <3>5
  <2> QED BY <2>1, <2>2
<1>8. Len(g) = v[L + 2] /\ Len(tt) + 1 = L + 2
  BY <1>1, <1>2, <1>3, <1>4, <1>6
<1>9. IsPlaced(tt, v, g)
  BY <1>3, <1>6, <1>7, <1>8 DEF IsPlaced
<1> QED BY <1>9 DEF tt, g

(* So every sequence has its place.                                        *)
LEMMA FlatPlaces ==
  ASSUME NEW S, NEW ss \in Seq(Seq(S))
  PROVE  \E st : IsPlaced(ss, st, FlattenSeq(ss))
<1> DEFINE B == Seq(S)
           P == {qq \in Seq(B) : \E st : IsPlaced(qq, st, FlattenSeq(qq))}
<1>1. << >> \in P
  <2> DEFINE e == << >>
             st == [i \in 1..1 |-> 0]
  <2>1. e \in Seq(B) /\ Len(e) = 0 /\ FlattenSeq(e) = e
    BY FlattenEmpty
  <2>2. st \in [1..1 -> Nat] /\ st[1] = 0
    OBVIOUS
  <2> HIDE DEF e, st
  <2>3. IsPlaced(e, st, FlattenSeq(e))
    BY <2>1, <2>2 DEF IsPlaced
  <2>4. e \in P
    BY <2>1, <2>3
  <2> QED BY <2>4 DEF e
<1>2. ASSUME NEW qq \in P, NEW x \in B PROVE Append(qq, x) \in P
  <2>1. qq \in Seq(B) /\ Append(qq, x) \in Seq(B)
    OBVIOUS
  <2>2. PICK st : IsPlaced(qq, st, FlattenSeq(qq))
    OBVIOUS
  <2> HIDE DEF P
  <2>3. FlattenSeq(Append(qq, x)) = FlattenSeq(qq) \o x /\ FlattenSeq(qq) \in Seq(S)
    BY <2>1, FlattenAppend, FlattenType
  <2>4. \E v : IsPlaced(Append(qq, x), v, FlattenSeq(qq) \o x)
    BY <2>1, <2>2, <2>3, FlatPlacedAppend
  <2> QED BY <2>1, <2>3, <2>4 DEF P
<1>3. P = Seq(B)
  <2>1. P \in SUBSET Seq(B) OBVIOUS
  <2> HIDE DEF P, B
  <2> QED BY <1>1, <1>2, <2>1, SeqInduction
<1>4. ss \in P
  <2> HIDE DEF P
  <2> QED BY <1>3
<1> QED BY <1>4
=============================================================================
