----------------------------- MODULE TextProofs ------------------------------
(***************************************************************************)
(* Proofs about the two components that read text: RequestParser, for any  *)
(* requests, any limits and any cuts of the network, hands dealWithCommand *)
(* the requests that were sent; and stringmatchlen of GlobMatch, for any   *)
(* pattern and any name, answers what the elements of the pattern mean.    *)
(*                                                                         *)
(* None of it needs an induction theorem: what fails for some number of    *)
(* sequences, items or elements fails for a least one (NoneFails).  First  *)
(* come lemmas about sequences: what FlattenSeq makes of some, where each  *)
(* of them begins in it (Pieces), and that the words of a line made of     *)
(* words are those words.                                                  *)
(*                                                                         *)
(* Requests.  What is where in the bytes of one request (Layout,           *)
(* InLineFacts), and the invariant: what a client has sent is its requests *)
(* one behind the other (Laid), and the query buffer is what has come      *)
(* without what was taken, which ends with a request or with an argument   *)
(* of one (Reading); one lemma per action.                                 *)
(*                                                                         *)
(* Patterns.  The two recursive functions of the code are tables           *)
(* (ClassLoop, MatchLoop) that are read from the end of the text on.  The  *)
(* loop over a class finds the characters of its items (ClassItems), an    *)
(* element other than a star takes one character (ElementStep), and what   *)
(* the code finds from an element on is what the rest of the pattern means *)
(* (MatchMeans, MeansFrom).                                                *)
(***************************************************************************)
EXTENDS RequestParser, GlobMatch, SequenceTheorems, FiniteSetTheorems, WellFoundedInduction, TLAPS

(* A set of numbers has a least one: what holds at 0 and at n + 1 when it  *)
(* holds at n, fails nowhere, because it would fail somewhere first.       *)
LEMMA LeastExists ==
  ASSUME NEW T \in SUBSET Nat, T # {}
  PROVE  \E x \in T : \A y \in T : x <= y
<1> DEFINE R == OpToRel(<, Nat)
<1>1. \E x \in T : \A y \in T : <<y, x>> \notin R
  <2>1. IsWellFoundedOn(R, Nat)
    BY NatLessThanWellFounded
  <2> HIDE DEF R
  <2> QED BY <2>1, WFMin
<1>2. ASSUME NEW x \in T, NEW y \in T, <<y, x>> \notin R PROVE x <= y
  BY <1>2 DEF OpToRel
<1> QED BY <1>1, <1>2

LEMMA NoneFails ==
  ASSUME NEW n \in Nat, NEW T, 0 \in T, \A i \in 0..(n - 1) : i \in T => i + 1 \in T
  PROVE  \A i \in 0..n : i \in T
<1> DEFINE F == {i \in 0..n : i \notin T}
<1>1. ASSUME F # {} PROVE FALSE
  <2>1. F \in SUBSET Nat
    OBVIOUS
  <2>2. PICK i \in F : \A j \in F : i <= j
    <3> HIDE DEF F
    <3> QED BY <1>1, <2>1, LeastExists
  <2>3. i # 0 /\ i \in 1..n
    OBVIOUS
  <2>4. i - 1 \in 0..(n - 1) /\ ~(i <= i - 1)
    BY <2>3
  <2>5. i - 1 \in T
    BY <2>2, <2>4
  <2>6. (i - 1) + 1 = i
    BY <2>3
  <2> QED BY <2>4, <2>5, <2>6
<1> QED BY <1>1
-----------------------------------------------------------------------------
(* FlattenSeq                                                              *)

IsFlat(f, seqs, m) == f = [i \in 1..m |-> IF i = 1 THEN seqs[i] ELSE f[i - 1] \o seqs[i]]

LEMMA FlatExists ==
  ASSUME NEW seqs, NEW n \in Nat
  PROVE  \E f : IsFlat(f, seqs, n)
<1> DEFINE T == {m \in Nat : \E f : IsFlat(f, seqs, m)}
<1>1. 0 \in T
  <2>1. IsFlat([i \in 1..0 |-> {}], seqs, 0)
    BY DEF IsFlat
  <2> QED BY <2>1
<1>2. ASSUME NEW m \in 0..(n - 1), m \in T PROVE m + 1 \in T
  <2>1. PICK f : IsFlat(f, seqs, m)
    BY <1>2
  <2> DEFINE g == [i \in 1..(m + 1) |->
                     IF i = m + 1 THEN (IF i = 1 THEN seqs[i] ELSE f[m] \o seqs[i]) ELSE f[i]]
  <2>2. ASSUME NEW i \in 1..(m + 1)
        PROVE  g[i] = IF i = 1 THEN seqs[i] ELSE g[i - 1] \o seqs[i]
    <3>1. CASE i = m + 1
      <4>1. CASE i = 1
        BY <3>1, <4>1
      <4>2. CASE i # 1
        <5>1. i - 1 = m /\ i - 1 \in 1..(m + 1) /\ i - 1 # m + 1
          BY <3>1, <4>2
        <5> QED BY <3>1, <4>2, <5>1
      <4> QED BY <4>1, <4>2
    <3>2. CASE i # m + 1
      <4>1. i \in 1..m /\ g[i] = f[i]
        BY <3>2
      <4>2. f[i] = IF i = 1 THEN seqs[i] ELSE f[i - 1] \o seqs[i]
        BY <2>1, <4>1 DEF IsFlat
      <4>3. i # 1 => i - 1 \in 1..(m + 1) /\ i - 1 # m + 1
        BY <4>1
      <4> QED BY <4>1, <4>2, <4>3
    <3> QED BY <3>1, <3>2
  <2>3. g = [i \in 1..(m + 1) |-> g[i]]
    OBVIOUS
  <2>4. IsFlat(g, seqs, m + 1)
    <3> HIDE DEF g
    <3> QED BY <2>2, <2>3 DEF IsFlat
  <2> QED BY <2>4
<1>3. n \in T
  <2> HIDE DEF T
  <2> QED BY <1>1, <1>2, NoneFails
<1> QED BY <1>3

(* off says where each of some sequences ends in the one that has them all *)
(* one after another.                                                      *)
Pieces(off, flat, seqs) ==
  /\ off \in [0..Len(seqs) -> Nat] /\ off[0] = 0 /\ off[Len(seqs)] = Len(flat)
  /\ \A i, j \in 0..Len(seqs) : i <= j => off[i] <= off[j]
  /\ \A i \in 1..Len(seqs) :
       /\ off[i] = off[i - 1] + Len(seqs[i]) /\ off[i] <= Len(flat)
       /\ \A q \in 1..Len(seqs[i]) : flat[off[i - 1] + q] = seqs[i][q]

LEMMA FlattenPieces ==
  ASSUME NEW S, NEW seqs \in Seq(Seq(S)), seqs # << >>
  PROVE  FlattenSeq(seqs) \in Seq(S) /\ \E off : Pieces(off, FlattenSeq(seqs), seqs)
<1> DEFINE n == Len(seqs)
           f == CHOOSE g : IsFlat(g, seqs, n)
           flat == FlattenSeq(seqs)
<1>1. n \in Nat \ {0}
  OBVIOUS
<1>2. IsFlat(f, seqs, n)
  BY <1>1, FlatExists
<1>3. flat = f[n]
  BY <1>1 DEF FlattenSeq, IsFlat
<1> HIDE DEF f, flat
<1>4. \A i \in 1..n : f[i] = IF i = 1 THEN seqs[i] ELSE f[i - 1] \o seqs[i]
  BY <1>2 DEF IsFlat
<1>5. \A i \in 1..n : f[i] \in Seq(S)
  <2> DEFINE T == {i \in Nat : i = 0 \/ f[i] \in Seq(S)}
  <2>1. ASSUME NEW i \in 0..(n - 1), i \in T PROVE i + 1 \in T
    <3>1. i + 1 \in 1..n /\ (i # 0 => (i + 1) - 1 = i /\ i + 1 # 1)
      BY <1>1
    <3>2. seqs[i + 1] \in Seq(S)
      BY <3>1
    <3>3. f[i + 1] \in Seq(S)
      <4>1. CASE i = 0
        <5>1. f[1] = seqs[1]
          BY <1>1, <1>4
        <5> QED BY <3>2, <4>1, <5>1
      <4>2. CASE i # 0
        <5>1. f[i + 1] = f[i] \o seqs[i + 1]
          BY <1>4, <3>1, <4>2
        <5>2. f[i] \in Seq(S)
          BY <2>1, <4>2
        <5> QED BY <3>2, <5>1, <5>2
      <4> QED BY <4>1, <4>2
    <3> QED BY <3>1, <3>3
  <2>2. \A i \in 0..n : i \in T
    <3>1. 0 \in T
      OBVIOUS
    <3> HIDE DEF T
    <3> QED BY <1>1, <2>1, <3>1, NoneFails
  <2> QED BY <1>1, <2>2
<1> DEFINE off == [i \in 0..n |-> IF i = 0 THEN 0 ELSE Len(f[i])]
<1>6. off \in [0..n -> Nat] /\ off[0] = 0 /\ off[n] = Len(flat)
  BY <1>1, <1>3, <1>5
<1>a. \A i \in 0..n : off[i] \in Nat
  <2> HIDE DEF off
  <2> QED BY <1>6
<1>7. ASSUME NEW i \in 1..n
      PROVE  /\ off[i] = off[i - 1] + Len(seqs[i])
             /\ \A q \in 1..Len(seqs[i]) : f[i][off[i - 1] + q] = seqs[i][q]
             /\ i > 1 => \A p \in 1..off[i - 1] : f[i][p] = f[i - 1][p]
  <2>1. CASE i = 1
    BY <1>1, <1>4, <2>1
  <2>2. CASE i # 1
    <3>0. i - 1 \in 1..n /\ i \in 0..n /\ i - 1 \in 0..n /\ i # 0 /\ i - 1 # 0
      BY <1>1, <2>2
    <3>1. f[i] = f[i - 1] \o seqs[i] /\ f[i - 1] \in Seq(S) /\ seqs[i] \in Seq(S)
      <4>1. f[i] = f[i - 1] \o seqs[i]
        BY <1>4, <2>2
      <4>2. seqs[i] \in Seq(S)
        OBVIOUS
      <4> QED BY <1>5, <3>0, <4>1, <4>2
    <3>2. off[i - 1] = Len(f[i - 1]) /\ off[i] = Len(f[i])
      BY <3>0
    <3> DEFINE a == f[i - 1]
               b == seqs[i]
    <3>3. /\ Len(a) \in Nat /\ Len(b) \in Nat /\ Len(a \o b) = Len(a) + Len(b)
          /\ \A q \in 1..(Len(a) + Len(b)) : (a \o b)[q] = IF q <= Len(a) THEN a[q] ELSE b[q - Len(a)]
      <4> HIDE DEF a, b
      <4>1. a \in Seq(S) /\ b \in Seq(S)
        BY <3>1 DEF a, b
      <4> QED BY <4>1, ConcatProperties, LenProperties
    <3> HIDE DEF a, b, off
    <3>4. ASSUME NEW q \in 1..Len(b) PROVE (a \o b)[Len(a) + q] = b[q]
      <4>1. Len(a) + q \in 1..(Len(a) + Len(b)) /\ ~(Len(a) + q <= Len(a)) /\ (Len(a) + q) - Len(a) = q
        BY <3>3
      <4> QED BY <3>3, <4>1
    <3>5. ASSUME NEW p \in 1..Len(a) PROVE (a \o b)[p] = a[p]
      BY <3>3
    <3> QED BY <3>0, <3>1, <3>2, <3>3, <3>4, <3>5 DEF a, b
  <2> QED BY <2>1, <2>2
<1> HIDE DEF off
<1>8. ASSUME NEW i \in 1..n
      PROVE  \A j \in 0..(n - i) : off[i] <= off[i + j] /\ \A p \in 1..off[i] : f[i + j][p] = f[i][p]
  <2> DEFINE T == {j \in Nat : j <= n - i =>
                      off[i] <= off[i + j] /\ \A p \in 1..off[i] : f[i + j][p] = f[i][p]}
  <2>1. 0 \in T
    <3>1. i + 0 = i /\ i \in 0..n
      BY <1>1
    <3>2. off[i] \in Nat
      BY <1>a, <3>1
    <3> QED BY <3>1, <3>2
  <2>2. ASSUME NEW j \in 0..((n - i) - 1), j \in T PROVE j + 1 \in T
    <3>1. i + (j + 1) \in 1..n /\ (i + (j + 1)) - 1 = i + j /\ i + j \in 0..n /\ i + (j + 1) > 1
          /\ j <= n - i /\ i \in 0..n
      BY <1>1
    <3>2. off[i] <= off[i + j] /\ \A p \in 1..off[i] : f[i + j][p] = f[i][p]
      BY <2>2, <3>1
    <3>3. off[i + j] <= off[i + (j + 1)] /\ \A p \in 1..off[i + j] : f[i + (j + 1)][p] = f[i + j][p]
      <4>1. Len(seqs[i + (j + 1)]) \in Nat
        BY <3>1
      <4>2. off[i + j] \in Nat
        BY <1>a, <3>1
      <4> QED BY <1>7, <3>1, <4>1, <4>2
    <3>4. off[i] \in Nat /\ off[i + j] \in Nat /\ off[i + (j + 1)] \in Nat
      <4>1. i + (j + 1) \in 0..n
        BY <3>1
      <4> QED BY <1>a, <3>1, <4>1
    <3>5. \A p \in 1..off[i] : p \in 1..off[i + j]
      <4> DEFINE a == off[i]
                 b == off[i + j]
      <4>1. a \in Nat /\ b \in Nat /\ a <= b
        BY <3>2, <3>4
      <4> HIDE DEF a, b
      <4>2. \A p \in 1..a : p \in 1..b
        BY <4>1
      <4> QED BY <4>2 DEF a, b
    <3>6. off[i] <= off[i + (j + 1)]
      <4> DEFINE x == off[i]
                 y == off[i + j]
                 z == off[i + (j + 1)]
      <4>1. x \in Nat /\ y \in Nat /\ z \in Nat /\ x <= y /\ y <= z
        BY <3>2, <3>3, <3>4
      <4> HIDE DEF x, y, z
      <4>2. x <= z
        BY <4>1
      <4> QED BY <4>2 DEF x, z
    <3>7. \A p \in 1..off[i] : f[i + (j + 1)][p] = f[i][p]
      BY <3>2, <3>3, <3>5
    <3>8. j + 1 \in Nat
      OBVIOUS
    <3> QED BY <3>6, <3>7, <3>8
  <2> DEFINE m == n - i
  <2>3. m \in Nat
    BY <1>1
  <2>4. \A j \in 0..m : j \in T
    <3>1. \A j \in 0..(m - 1) : j \in T => j + 1 \in T
      BY <2>2
    <3> HIDE DEF T, m
    <3> QED BY <2>1, <2>3, <3>1, NoneFails
  <2>5. ASSUME NEW j \in 0..(n - i)
        PROVE  off[i] <= off[i + j] /\ \A p \in 1..off[i] : f[i + j][p] = f[i][p]
    <3>1. j \in Nat /\ j <= n - i
      BY <1>1
    <3>2. j \in T
      <4> HIDE DEF T
      <4> QED BY <2>4
    <3> QED BY <3>1, <3>2
  <2> QED BY <2>5
<1>9. Pieces(off, flat, seqs)
  <2>1. ASSUME NEW i \in 1..n
        PROVE  /\ off[i] = off[i - 1] + Len(seqs[i]) /\ off[i] <= Len(flat)
               /\ \A q \in 1..Len(seqs[i]) : flat[off[i - 1] + q] = seqs[i][q]
    <3>1. i + (n - i) = n /\ n - i \in 0..(n - i) /\ i - 1 \in 0..n /\ i \in 0..n
      BY <1>1
    <3>2. off[i] <= off[n] /\ \A p \in 1..off[i] : f[n][p] = f[i][p]
      BY <1>8, <3>1
    <3>3. off[i] = off[i - 1] + Len(seqs[i]) /\ off[i - 1] \in Nat /\ Len(seqs[i]) \in Nat
      <4>1. Len(seqs[i]) \in Nat
        OBVIOUS
      <4> QED BY <1>a, <1>7, <3>1, <4>1
    <3>4. ASSUME NEW q \in 1..Len(seqs[i]) PROVE flat[off[i - 1] + q] = seqs[i][q]
      <4>1. off[i - 1] + q \in 1..off[i]
        BY <3>3
      <4> QED BY <1>3, <1>7, <3>2, <4>1
    <3> QED BY <1>6, <3>2, <3>3, <3>4
  <2>2. ASSUME NEW i \in 0..n, NEW j \in 0..n, i <= j PROVE off[i] <= off[j]
    <3>1. CASE i = 0
      BY <1>6, <1>a, <3>1
    <3>2. CASE i # 0
      <4>1. i \in 1..n /\ j - i \in 0..(n - i) /\ i + (j - i) = j
        BY <1>1, <2>2, <3>2
      <4>2. off[i] <= off[i + (j - i)]
        BY <1>8, <4>1
      <4> QED BY <4>1, <4>2
    <3> QED BY <3>1, <3>2
  <2> QED BY <1>6, <2>1, <2>2 DEF Pieces
<1>10. flat \in Seq(S)
  BY <1>1, <1>3, <1>5
<1> QED BY <1>9, <1>10 DEF flat

(* A sequence of sequences, also of none, one after another.               *)
LEMMA AllPieces ==
  ASSUME NEW S, NEW seqs \in Seq(Seq(S))
  PROVE  FlattenSeq(seqs) \in Seq(S) /\ \E off : Pieces(off, FlattenSeq(seqs), seqs)
<1>1. CASE seqs # << >>
  BY <1>1, FlattenPieces
<1>2. CASE seqs = << >>
  <2>1. FlattenSeq(seqs) = << >>
    BY <1>2 DEF FlattenSeq
  <2> DEFINE off == [i \in 0..0 |-> 0]
  <2>2. Pieces(off, << >>, seqs)
    BY <1>2 DEF Pieces
  <2>3. << >> \in Seq(S)
    OBVIOUS
  <2> HIDE DEF off
  <2> QED BY <2>1, <2>2, <2>3
<1> QED BY <1>1, <1>2
-----------------------------------------------------------------------------
(* Lines and words                                                         *)

LEMMA SymbolsArePairs ==
  ASSUME NEW x \in Symbols
  PROVE  x[2] \in Int
BY DEF Symbols, CR, LF, Space

(* SubSeq takes symbols out of a sequence, whatever its bounds below and   *)
(* above are inside.                                                       *)
LEMMA SubSeqFacts ==
  ASSUME NEW S, NEW s \in Seq(S), NEW a \in Nat \ {0}, NEW b \in 0..Len(s)
  PROVE  /\ SubSeq(s, a, b) \in Seq(S)
         /\ Len(SubSeq(s, a, b)) = IF a <= b THEN b + 1 - a ELSE 0
         /\ \A i \in 1..(b + 1 - a) : SubSeq(s, a, b)[i] = s[a + i - 1]
<1>1. CASE a <= b
  <2>1. a \in 1..(Len(s) + 1) /\ b \in (a - 1)..Len(s)
    BY <1>1
  <2>2. /\ SubSeq(s, a, b) \in Seq(S) /\ Len(SubSeq(s, a, b)) = b - a + 1
        /\ \A i \in 1..(b - a + 1) : SubSeq(s, a, b)[i] = s[a + i - 1]
    BY <2>1, SubSeqProperties
  <2>3. b - a + 1 = b + 1 - a
    BY <2>1
  <2> QED BY <1>1, <2>2, <2>3
<1>2. CASE ~(a <= b)
  <2>1. SubSeq(s, a, b) = << >>
    BY <1>2
  <2>2. 1..(b + 1 - a) = {}
    BY <1>2
  <2> QED BY <1>2, <2>1, <2>2
<1> QED BY <1>1, <1>2

LEMMA LineEndFacts ==
  ASSUME NEW buf \in Seq(Symbols), NEW from \in Nat \ {0}
  PROVE  \/ /\ LineEnd(buf, from) = 0
            /\ \A p \in from..(Len(buf) - 1) : ~(buf[p] = CR /\ buf[p + 1] = LF)
         \/ /\ LineEnd(buf, from) \in from..(Len(buf) - 1)
            /\ buf[LineEnd(buf, from)] = CR /\ buf[LineEnd(buf, from) + 1] = LF
            /\ \A p \in from..(LineEnd(buf, from) - 1) : ~(buf[p] = CR /\ buf[p + 1] = LF)
<1> DEFINE ends == {p \in from..(Len(buf) - 1) : buf[p] = CR /\ buf[p + 1] = LF}
           e == CHOOSE p \in ends : \A q \in ends : p <= q
<1>1. CASE ends = {}
  BY <1>1 DEF LineEnd
<1>2. CASE ends # {}
  <2>1. ends \in SUBSET Nat /\ Len(buf) \in Nat
    OBVIOUS
  <2>2. e \in ends /\ \A q \in ends : e <= q
    <3>1. \E x \in ends : \A y \in ends : x <= y
      <4> HIDE DEF ends
      <4> QED BY <1>2, <2>1, LeastExists
    <3> HIDE DEF ends
    <3> QED BY <3>1
  <2>3. LineEnd(buf, from) = e
    BY <1>2 DEF LineEnd
  <2>4. e \in Nat /\ e \in from..(Len(buf) - 1) /\ buf[e] = CR /\ buf[e + 1] = LF
    <3> HIDE DEF e
    <3> QED BY <2>1, <2>2
  <2>5. ASSUME NEW p \in from..(e - 1) PROVE ~(buf[p] = CR /\ buf[p + 1] = LF)
    <3>1. p \in from..(Len(buf) - 1) /\ ~(e <= p)
      <4> HIDE DEF e
      <4> QED BY <2>1, <2>4
    <3>2. p \notin ends
      <4> HIDE DEF e, ends
      <4> QED BY <2>2, <3>1
    <3> QED BY <3>1, <3>2
  <2> HIDE DEF e, ends
  <2> QED BY <2>3, <2>4, <2>5
<1> QED BY <1>1, <1>2

(* The i-th element of a set of numbers.                                   *)
LEMMA NthExists ==
  ASSUME NEW S \in SUBSET Nat, IsFiniteSet(S), NEW i \in 1..Cardinality(S)
  PROVE  \E p \in S : Cardinality({q \in S : q <= p}) = i
<1> DEFINE n == Cardinality(S)
           Upto(p) == {q \in S : q <= p}
           T == {j \in Nat : j = 0 \/ \E p \in S : Cardinality(Upto(p)) = j}
<1>1. n \in Nat
  BY FS_CardinalityType
<1>2. ASSUME NEW j \in 0..(n - 1), j \in T PROVE j + 1 \in T
  <2>1. PICK B \in SUBSET S : /\ Cardinality(B) = j
                              /\ \A q \in B, r \in S \ B : q < r
    <3>1. CASE j = 0
      <4>1. Cardinality({}) = 0
        BY FS_EmptySet
      <4> QED BY <3>1, <4>1
    <3>2. CASE j # 0
      <4>1. PICK p \in S : Cardinality(Upto(p)) = j
        BY <1>2, <3>2
      <4>2. \A q \in Upto(p), r \in S \ Upto(p) : q < r
        <5>1. S \subseteq Nat
          OBVIOUS
        <5> QED BY <5>1
      <4> QED BY <4>1, <4>2
    <3> QED BY <3>1, <3>2
  <2>2. S \ B # {} /\ S \ B \in SUBSET Nat
    <3>1. j < n /\ j # n
      BY <1>1
    <3>2. S # B
      BY <2>1, <3>1
    <3> HIDE DEF T, n, Upto
    <3> QED BY <3>2
  <2>3. PICK x \in S \ B : \A y \in S \ B : x <= y
    <3> DEFINE R == S \ B
    <3>1. R # {} /\ R \in SUBSET Nat
      BY <2>2
    <3> HIDE DEF R
    <3>2. \E x \in R : \A y \in R : x <= y
      BY <3>1, LeastExists
    <3> QED BY <3>2 DEF R
  <2>4. Upto(x) = B \cup {x}
    <3>1. S \subseteq Nat /\ x \in S
      OBVIOUS
    <3>2. ASSUME NEW q \in S, q <= x, q # x PROVE q \in B
      <4>1. q \in Nat /\ x \in Nat /\ ~(x <= q)
        BY <3>1, <3>2
      <4> QED BY <2>3, <4>1
    <3>3. ASSUME NEW q \in B PROVE q <= x
      <4>1. q \in Nat /\ x \in Nat /\ q < x
        BY <2>1, <3>1
      <4> QED BY <4>1
    <3>4. x <= x
      BY <3>1
    <3> QED BY <3>2, <3>3, <3>4
  <2>5. Cardinality(B \cup {x}) = j + 1
    <3>1. IsFiniteSet(B)
      BY FS_Subset
    <3> QED BY <2>1, <3>1, FS_AddElement
  <2>6. x \in S /\ Cardinality(Upto(x)) = j + 1 /\ j + 1 \in Nat
    BY <2>4, <2>5
  <2> HIDE DEF Upto, n
  <2> QED BY <2>6
<1>3. \A j \in 0..n : j \in T
  <2>1. 0 \in T
    OBVIOUS
  <2> HIDE DEF T, n
  <2> QED BY <1>1, <1>2, <2>1, NoneFails
<1>4. i \in T /\ i # 0
  <2>1. i \in 0..n /\ i # 0
    BY <1>1
  <2> HIDE DEF T
  <2> QED BY <1>3, <2>1
<1> QED BY <1>4

LEMMA GreatestExists ==
  ASSUME NEW b \in Nat, NEW T \in SUBSET (0..b), T # {}
  PROVE  \E x \in T : \A y \in T : y <= x
<1> DEFINE R == {b - x : x \in T}
<1>1. R \in SUBSET Nat /\ R # {}
  <2>1. ASSUME NEW x \in T PROVE b - x \in Nat
    OBVIOUS
  <2> QED BY <2>1
<1>2. PICK m \in R : \A y \in R : m <= y
  <2> HIDE DEF R
  <2> QED BY <1>1, LeastExists
<1>3. PICK x \in T : m = b - x
  OBVIOUS
<1>4. ASSUME NEW y \in T PROVE y <= x
  <2>1. b - x <= b - y
    BY <1>2, <1>3
  <2> QED BY <2>1
<1> QED BY <1>4

(* A word ends before the next space, or with the line.                    *)
LEMMA WordFacts ==
  ASSUME NEW line \in Seq(Symbols), NEW p \in WordStarts(line)
  PROVE  \E e \in p..Len(line) :
           /\ WordAt(line, p) = SubSeq(line, p, e)
           /\ \A k \in p..e : line[k] # Space
           /\ e = Len(line) \/ line[e + 1] = Space
<1> DEFINE ends == {q \in p..Len(line) : \A k \in p..q : line[k] # Space}
           e == CHOOSE q \in ends : \A k \in ends : k <= q
<1>1. p \in 1..Len(line) /\ line[p] # Space /\ Len(line) \in Nat
  BY DEF WordStarts
<1>2. p \in ends /\ ends \subseteq 0..Len(line)
  <2>1. \A k \in p..p : k = p
    BY <1>1
  <2> QED BY <1>1, <2>1
<1>3. e \in ends /\ \A k \in ends : k <= e
  <2>1. \E x \in ends : \A y \in ends : y <= x
    <3> HIDE DEF ends
    <3> QED BY <1>1, <1>2, GreatestExists
  <2> HIDE DEF ends
  <2> QED BY <2>1
<1>4. WordAt(line, p) = SubSeq(line, p, e)
  BY DEF WordAt
<1> HIDE DEF e
<1>5. e \in p..Len(line) /\ \A k \in p..e : line[k] # Space
  BY <1>3
<1>6. ASSUME e # Len(line), line[e + 1] # Space PROVE FALSE
  <2>1. e + 1 \in p..Len(line) /\ e \in Int /\ ~(e + 1 <= e)
    BY <1>1, <1>5, <1>6
  <2>2. \A k \in p..(e + 1) : k \in p..e \/ k = e + 1
    BY <1>1, <2>1
  <2>3. e + 1 \in ends
    BY <1>5, <1>6, <2>1, <2>2
  <2> QED BY <1>3, <2>1, <2>3
<1> QED BY <1>4, <1>5, <1>6

LEMMA WordsTyped ==
  ASSUME NEW line \in Seq(Symbols)
  PROVE  Words(line) \in Seq(Seq(Symbols))
<1> DEFINE starts == WordStarts(line)
           nth(i) == CHOOSE p \in starts : Cardinality({q \in starts : q <= p}) = i
           n == Cardinality(starts)
<1>1. starts \in SUBSET Nat /\ IsFiniteSet(starts) /\ n \in Nat
  <2>1. starts \subseteq 1..Len(line) /\ Len(line) \in Nat
    BY DEF WordStarts
  <2>2. IsFiniteSet(1..Len(line))
    BY <2>1, FS_Interval
  <2>3. IsFiniteSet(starts)
    BY <2>1, <2>2, FS_Subset
  <2> QED BY <2>1, <2>3, FS_CardinalityType
<1>2. ASSUME NEW i \in 1..n PROVE WordAt(line, nth(i)) \in Seq(Symbols)
  <2>1. nth(i) \in starts
    <3>1. \E p \in starts : Cardinality({q \in starts : q <= p}) = i
      <4> HIDE DEF starts
      <4> QED BY <1>1, NthExists
    <3> HIDE DEF starts
    <3> QED BY <3>1
  <2> DEFINE w == nth(i)
  <2>2. w \in 1..Len(line)
    BY <2>1 DEF WordStarts
  <2> HIDE DEF w
  <2>3. PICK e \in w..Len(line) : WordAt(line, w) = SubSeq(line, w, e)
    BY <2>1, WordFacts DEF w
  <2>4. w \in Nat \ {0} /\ e \in 0..Len(line)
    BY <2>2
  <2> QED BY <2>3, <2>4, SubSeqFacts DEF w
<1>3. Words(line) = [i \in 1..n |-> WordAt(line, nth(i))]
  BY DEF Words
<1> HIDE DEF nth, n
<1> QED BY <1>1, <1>2, <1>3

Spaced(args) == [i \in DOMAIN args |-> IF i = 1 THEN args[i] ELSE <<Space>> \o args[i]]

LEMMA SpacedTyped ==
  ASSUME NEW args \in Seq(Seq(Symbols))
  PROVE  /\ Spaced(args) \in Seq(Seq(Symbols)) /\ Len(Spaced(args)) = Len(args)
         /\ args # << >> => Spaced(args) # << >>
         /\ \A i \in 1..Len(args) :
              IF i = 1 THEN Spaced(args)[i] = args[i]
              ELSE /\ Len(Spaced(args)[i]) = Len(args[i]) + 1 /\ Spaced(args)[i][1] = Space
                   /\ \A q \in 1..Len(args[i]) : Spaced(args)[i][q + 1] = args[i][q]
<1>1. ASSUME NEW i \in 1..Len(args)
      PROVE  /\ Spaced(args)[i] \in Seq(Symbols)
             /\ IF i = 1 THEN Spaced(args)[i] = args[i]
                ELSE /\ Len(Spaced(args)[i]) = Len(args[i]) + 1 /\ Spaced(args)[i][1] = Space
                     /\ \A q \in 1..Len(args[i]) : Spaced(args)[i][q + 1] = args[i][q]
  <2>1. args[i] \in Seq(Symbols) /\ <<Space>> \in Seq(Symbols)
    <3>1. Space \in Symbols
      BY DEF Symbols
    <3> QED BY <3>1
  <2>2. Spaced(args)[i] = IF i = 1 THEN args[i] ELSE <<Space>> \o args[i]
    BY DEF Spaced
  <2>3. /\ <<Space>> \o args[i] \in Seq(Symbols) /\ Len(<<Space>> \o args[i]) = Len(args[i]) + 1
        /\ (<<Space>> \o args[i])[1] = Space
        /\ \A q \in 1..Len(args[i]) : (<<Space>> \o args[i])[q + 1] = args[i][q]
    <3> DEFINE a == args[i]
    <3> HIDE DEF a
    <3>1. a \in Seq(Symbols)
      BY <2>1 DEF a
    <3>2. Len(<<Space>>) = 1 /\ Len(a) \in Nat /\ <<Space>>[1] = Space
      BY <3>1
    <3>3. /\ <<Space>> \o a \in Seq(Symbols) /\ Len(<<Space>> \o a) = 1 + Len(a)
          /\ \A q \in 1..(1 + Len(a)) : (<<Space>> \o a)[q] = IF q <= 1 THEN <<Space>>[q] ELSE a[q - 1]
      BY <2>1, <3>1, <3>2, ConcatProperties
    <3>4. ASSUME NEW q \in 1..Len(a) PROVE (<<Space>> \o a)[q + 1] = a[q]
      <4>1. q + 1 \in 1..(1 + Len(a)) /\ ~(q + 1 <= 1) /\ (q + 1) - 1 = q
        BY <3>2
      <4> QED BY <3>3, <4>1
    <3>5. 1 \in 1..(1 + Len(a))
      BY <3>2
    <3> QED BY <3>2, <3>3, <3>4, <3>5 DEF a
  <2> QED BY <2>1, <2>2, <2>3
<1>2. Spaced(args) \in Seq(Seq(Symbols)) /\ Len(Spaced(args)) = Len(args)
  <2>1. Spaced(args) = [i \in 1..Len(args) |-> Spaced(args)[i]] /\ Len(args) \in Nat
    BY DEF Spaced
  <2> DEFINE sp == Spaced(args)
             m == Len(args)
  <2>2. \A i \in 1..m : sp[i] \in Seq(Symbols)
    BY <1>1
  <2> HIDE DEF sp, m
  <2>3. sp \in Seq(Seq(Symbols)) /\ Len(sp) = m
    BY <2>1, <2>2 DEF sp, m
  <2> QED BY <2>3 DEF sp, m
<1>3. args # << >> => Spaced(args) # << >>
  BY <1>2
<1> QED BY <1>1, <1>2, <1>3

(* The words of a line are those that it was made of, and its first line   *)
(* end is behind them.                                                     *)
LEMMA LineOfWords ==
  ASSUME NEW args \in Seq(Seq(Symbols)), args # << >>, \A i \in DOMAIN args : IsWord(args[i]),
         NEW L, L = FlattenSeq(Spaced(args))
  PROVE  /\ L \in Seq(Symbols) /\ L # << >> /\ L[1] = args[1][1]
         /\ \A p \in 1..(Len(L) - 1) : ~(L[p] = CR /\ L[p + 1] = LF)
         /\ Words(L) = args
<1> DEFINE m == Len(args)
<1>1. m \in Nat \ {0} /\ L \in Seq(Symbols) /\ \E off : Pieces(off, L, Spaced(args))
  <2>1. Spaced(args) \in Seq(Seq(Symbols)) /\ Spaced(args) # << >>
    BY SpacedTyped
  <2> QED BY <2>1, FlattenPieces
<1>2. PICK off : Pieces(off, L, Spaced(args))
  BY <1>1
<1>3. /\ \A i \in 0..m : off[i] \in Nat
      /\ off[0] = 0 /\ off[m] = Len(L) /\ Len(L) \in Nat
      /\ \A i, j \in 0..m : i <= j => off[i] <= off[j]
  <2>1. Len(Spaced(args)) = m
    BY SpacedTyped
  <2>2. /\ off \in [0..m -> Nat] /\ off[0] = 0 /\ off[m] = Len(L)
        /\ \A i, j \in 0..m : i <= j => off[i] <= off[j]
    BY <1>2, <2>1 DEF Pieces
  <2>3. Len(L) \in Nat
    BY <1>1
  <2> HIDE DEF m
  <2> QED BY <2>2, <2>3
<1> DEFINE st(i) == IF i = 1 THEN 1 ELSE off[i - 1] + 2
<1>4. ASSUME NEW i \in 1..m
      PROVE  /\ args[i] \in Seq(Symbols) /\ Len(args[i]) \in Nat \ {0}
             /\ \A q \in DOMAIN args[i] : args[i][q] # Space
             /\ \A q \in 1..(Len(args[i]) - 1) : ~(args[i][q] = CR /\ args[i][q + 1] = LF)
  <2>1. i \in DOMAIN args /\ args[i] \in Seq(Symbols)
    OBVIOUS
  <2>2. IsWord(args[i])
    BY <2>1
  <2>3. args[i] # << >>
    BY <2>2 DEF IsWord
  <2>4. Len(args[i]) \in Nat \ {0}
    BY <2>1, <2>3, LenProperties, EmptySeq
  <2> QED BY <2>1, <2>2, <2>4 DEF IsWord
<1>5. ASSUME NEW i \in 1..m
      PROVE  /\ st(i) \in Nat \ {0} /\ off[i] = st(i) + Len(args[i]) - 1 /\ off[i] <= Len(L)
             /\ \A q \in 1..Len(args[i]) : L[st(i) + q - 1] = args[i][q]
             /\ i > 1 => st(i) - 1 = off[i - 1] + 1 /\ L[off[i - 1] + 1] = Space
  <2> DEFINE sp == Spaced(args)
  <2>1. /\ off[i] = off[i - 1] + Len(sp[i]) /\ off[i] <= Len(L)
        /\ \A q \in 1..Len(sp[i]) : L[off[i - 1] + q] = sp[i][q]
    <3>1. Len(sp) = m
      BY SpacedTyped
    <3> QED BY <1>2, <3>1 DEF Pieces
  <2>2. IF i = 1 THEN sp[i] = args[i]
        ELSE /\ Len(sp[i]) = Len(args[i]) + 1 /\ sp[i][1] = Space
             /\ \A q \in 1..Len(args[i]) : sp[i][q + 1] = args[i][q]
    BY SpacedTyped
  <2> HIDE DEF sp
  <2>3. i - 1 \in 0..m /\ i \in 0..m /\ off[i - 1] \in Nat /\ off[i] \in Nat
    <3>1. i - 1 \in 0..m /\ i \in 0..m
      BY <1>1
    <3> QED BY <1>3, <3>1
  <2>4. CASE i = 1
    <3>1. st(i) = 1 /\ off[i - 1] = 0 /\ sp[i] = args[i]
      BY <1>3, <2>2, <2>4
    <3>2. ASSUME NEW q \in 1..Len(args[i]) PROVE L[1 + q - 1] = args[i][q]
      <4>1. 1 + q - 1 = 0 + q
        BY <1>4
      <4> QED BY <2>1, <3>1, <4>1
    <3>3. 0 + Len(args[i]) = 1 + Len(args[i]) - 1
      BY <1>4
    <3> QED BY <2>1, <2>4, <3>1, <3>2, <3>3
  <2>5. CASE i # 1
    <3>1. st(i) = off[i - 1] + 2 /\ Len(sp[i]) = Len(args[i]) + 1
      BY <2>2, <2>5
    <3>2. ASSUME NEW q \in 1..Len(args[i]) PROVE L[st(i) + q - 1] = args[i][q]
      <4>1. q + 1 \in 1..Len(sp[i]) /\ st(i) + q - 1 = off[i - 1] + (q + 1)
        <5> DEFINE c == Len(args[i])
                   y == Len(sp[i])
                   b == st(i)
                   o == off[i - 1]
        <5>1. c \in Nat /\ o \in Nat /\ b = o + 2 /\ y = c + 1 /\ q \in 1..c
          BY <1>4, <2>3, <3>1
        <5> HIDE DEF b, c, o, y
        <5>2. q + 1 \in 1..y /\ b + q - 1 = o + (q + 1)
          BY <5>1
        <5> QED BY <5>2 DEF b, c, o, y
      <4>2. sp[i][q + 1] = args[i][q]
        BY <2>2, <2>5
      <4> QED BY <2>1, <4>1, <4>2
    <3>3. 1 \in 1..Len(sp[i])
      BY <1>4, <3>1
    <3>4. L[off[i - 1] + 1] = Space
      BY <2>1, <2>2, <2>5, <3>3
    <3>5. st(i) \in Nat \ {0} /\ off[i] = st(i) + Len(args[i]) - 1 /\ st(i) - 1 = off[i - 1] + 1
      <4> DEFINE c == Len(args[i])
                 b == st(i)
                 o == off[i - 1]
      <4>1. c \in Nat /\ o \in Nat /\ off[i] = o + (c + 1) /\ b = o + 2
        BY <1>4, <2>1, <2>3, <3>1
      <4> HIDE DEF b, c, o
      <4>2. b \in Nat \ {0} /\ off[i] = b + c - 1 /\ b - 1 = o + 1
        BY <4>1
      <4> QED BY <4>2 DEF b, c, o
    <3> QED BY <2>1, <3>2, <3>4, <3>5
  <2> QED BY <2>4, <2>5
<1>6. ASSUME NEW p \in 1..Len(L)
      PROVE  \E i \in 1..m : \/ i > 1 /\ p = st(i) - 1 /\ L[p] = Space
                             \/ \E q \in 1..Len(args[i]) : p = st(i) + q - 1 /\ L[p] = args[i][q]
  <2> DEFINE T == {i \in 1..m : p <= off[i]}
  <2>1. PICK i \in T : \A j \in T : i <= j
    <3>1. m \in T
      BY <1>1, <1>3
    <3>2. T # {} /\ T \in SUBSET Nat
      <4>1. T \subseteq 1..m
        OBVIOUS
      <4> HIDE DEF T, m
      <4> QED BY <3>1, <4>1
    <3> HIDE DEF T
    <3> QED BY <3>2, LeastExists
  <2>2. i \in 1..m /\ i - 1 \in 0..m /\ off[i - 1] \in Nat /\ off[i] \in Nat /\ p <= off[i]
    <3>1. i \in 1..m /\ i - 1 \in 0..m /\ i \in 0..m /\ p <= off[i]
      BY <1>1
    <3> QED BY <1>3, <3>1
  <2>3. off[i - 1] < p
    <3>1. CASE i = 1
      BY <1>3, <3>1
    <3>2. CASE i # 1
      <4>1. i - 1 \in 1..m /\ ~(i <= i - 1)
        BY <2>2, <3>2
      <4>2. i - 1 \notin T
        <5> HIDE DEF T
        <5> QED BY <2>1, <4>1
      <4> QED BY <2>2, <4>1, <4>2
    <3> QED BY <3>1, <3>2
  <2>4. CASE p < st(i)
    <3>1. i # 1
      BY <2>4
    <3>2. i > 1 /\ st(i) = off[i - 1] + 2
      BY <2>2, <3>1
    <3>3. p = off[i - 1] + 1
      <4> DEFINE b == st(i)
                 o == off[i - 1]
      <4>1. o \in Nat /\ p \in Nat /\ b = o + 2 /\ o < p /\ p < b
        BY <2>2, <2>3, <2>4, <3>2
      <4> HIDE DEF b, o
      <4>2. p = o + 1
        BY <4>1
      <4> QED BY <4>2 DEF o
    <3> QED BY <1>5, <2>2, <3>2, <3>3
  <2>5. CASE ~(p < st(i))
    <3>1. off[i] = st(i) + Len(args[i]) - 1 /\ st(i) \in Nat /\ Len(args[i]) \in Nat
      BY <1>4, <1>5, <2>2
    <3> DEFINE c == Len(args[i])
               b == st(i)
               o == off[i]
               q == p - b + 1
    <3>2. q \in 1..c /\ p = b + q - 1
      <4>1. o = b + c - 1 /\ b \in Nat /\ c \in Nat /\ p \in Nat /\ p <= o /\ ~(p < b)
        BY <2>2, <2>5, <3>1
      <4> HIDE DEF b, c, o
      <4> QED BY <4>1
    <3> HIDE DEF q
    <3>3. L[st(i) + q - 1] = args[i][q]
      BY <1>5, <2>2, <3>2
    <3> HIDE DEF st
    <3> QED BY <2>2, <3>2, <3>3
  <2> QED BY <2>4, <2>5
<1>7. ASSUME NEW i \in 1..m, NEW j \in 1..m, i < j
      PROVE  off[i] < st(j) /\ st(i) < st(j)
  <2>1. i \in 0..m /\ j - 1 \in 0..m /\ i <= j - 1 /\ j # 1
    BY <1>1, <1>7
  <2>2. off[i] <= off[j - 1] /\ off[i] \in Nat /\ off[j - 1] \in Nat /\ st(j) = off[j - 1] + 2
    BY <1>3, <2>1
  <2>3. st(i) <= off[i] /\ st(i) \in Nat
    <3>1. Len(args[i]) \in Nat \ {0} /\ st(i) \in Nat /\ off[i] = st(i) + Len(args[i]) - 1
      BY <1>4, <1>5
    <3> HIDE DEF st, m
    <3> QED BY <3>1
  <2> HIDE DEF st
  <2> QED BY <2>2, <2>3
<1>8. WordStarts(L) = {st(i) : i \in 1..m}
  <2>1. ASSUME NEW p \in WordStarts(L) PROVE \E i \in 1..m : p = st(i)
    <3>1. p \in 1..Len(L) /\ L[p] # Space /\ (p = 1 \/ L[p - 1] = Space)
      BY <1>1 DEF WordStarts
    <3>2. PICK i \in 1..m : \E q \in 1..Len(args[i]) : p = st(i) + q - 1
      BY <1>6, <3>1
    <3>3. PICK q \in 1..Len(args[i]) : p = st(i) + q - 1
      BY <3>2
    <3>4. st(i) \in Nat \ {0} /\ Len(args[i]) \in Nat
      BY <1>4, <1>5
    <3>5. CASE q = 1
      <4> HIDE DEF st
      <4> QED BY <3>3, <3>4, <3>5
    <3>6. CASE q # 1
      <4> HIDE DEF st
      <4>1. q - 1 \in 1..Len(args[i]) /\ p - 1 = st(i) + (q - 1) - 1 /\ p # 1
        BY <3>3, <3>4, <3>6
      <4>2. L[p - 1] = args[i][q - 1]
        BY <1>5, <4>1
      <4>3. args[i][q - 1] # Space
        <5>1. q - 1 \in DOMAIN args[i]
          BY <1>4, <4>1
        <5> QED BY <1>4, <5>1
      <4> QED BY <3>1, <4>1, <4>2, <4>3
    <3> QED BY <3>5, <3>6
  <2>2. ASSUME NEW i \in 1..m PROVE st(i) \in WordStarts(L)
    <3>1. st(i) \in Nat \ {0} /\ Len(args[i]) \in Nat \ {0} /\ off[i] = st(i) + Len(args[i]) - 1
          /\ off[i] <= Len(L) /\ Len(L) \in Nat
      BY <1>3, <1>4, <1>5
    <3>2. st(i) \in 1..Len(L) /\ 1 \in 1..Len(args[i]) /\ st(i) + 1 - 1 = st(i)
      <4> HIDE DEF st
      <4> QED BY <3>1
    <3>3. L[st(i)] = args[i][1] /\ args[i][1] # Space
      <4>1. L[st(i) + 1 - 1] = args[i][1]
        BY <1>5, <3>2
      <4>2. 1 \in DOMAIN args[i]
        BY <1>4, <3>2
      <4> QED BY <1>4, <3>2, <4>1, <4>2
    <3>4. st(i) = 1 \/ L[st(i) - 1] = Space
      <4>1. CASE i = 1
        BY <4>1
      <4>2. CASE i # 1
        BY <1>5, <4>2
      <4> QED BY <4>1, <4>2
    <3> HIDE DEF st
    <3> QED BY <1>1, <3>2, <3>3, <3>4 DEF WordStarts
  <2> QED BY <2>1, <2>2
<1>9. ASSUME NEW i \in 1..m PROVE WordAt(L, st(i)) = args[i]
  <2>1. PICK e \in st(i)..Len(L) : /\ WordAt(L, st(i)) = SubSeq(L, st(i), e)
                                   /\ \A k \in st(i)..e : L[k] # Space
                                   /\ e = Len(L) \/ L[e + 1] = Space
    <3>1. st(i) \in WordStarts(L)
      BY <1>8
    <3> HIDE DEF st
    <3> QED BY <1>1, <3>1, WordFacts
  <2>2. st(i) \in Nat \ {0} /\ Len(args[i]) \in Nat \ {0} /\ off[i] = st(i) + Len(args[i]) - 1
        /\ off[i] <= Len(L) /\ Len(L) \in Nat
    BY <1>3, <1>4, <1>5
  <2>3. e = off[i]
    <3>1. CASE e < off[i]
      <4> DEFINE q == e + 1 - st(i) + 1
      <4>1. q \in 1..Len(args[i]) /\ st(i) + q - 1 = e + 1 /\ e # Len(L)
        <5> HIDE DEF st
        <5> QED BY <2>2, <3>1
      <4> HIDE DEF q
      <4>2. L[e + 1] = args[i][q]
        <5>1. L[st(i) + q - 1] = args[i][q]
          BY <1>5, <4>1
        <5> QED BY <4>1, <5>1
      <4>3. args[i][q] # Space
        <5>1. q \in DOMAIN args[i]
          BY <1>4, <4>1
        <5> QED BY <1>4, <5>1
      <4> QED BY <2>1, <4>1, <4>2, <4>3
    <3>2. CASE off[i] < e
      <4>1. i # m
        BY <1>3, <3>2
      <4>2. i + 1 \in 1..m /\ i + 1 > 1 /\ (i + 1) - 1 = i
        BY <1>1, <4>1
      <4>3. L[off[i] + 1] = Space
        BY <1>5, <4>2
      <4>4. off[i] + 1 \in st(i)..e
        <5> HIDE DEF st
        <5> QED BY <2>2, <3>2
      <4> QED BY <2>1, <4>3, <4>4
    <3>3. e \in Int /\ off[i] \in Int
      <4> HIDE DEF st
      <4> QED BY <2>2
    <3> QED BY <3>1, <3>2, <3>3
  <2>4. SubSeq(L, st(i), off[i]) = args[i]
    <3> DEFINE w == SubSeq(L, st(i), off[i])
               b == st(i)
    <3>1. off[i] \in 0..Len(L) /\ b <= off[i] /\ off[i] + 1 - b = Len(args[i]) /\ b \in Nat \ {0}
      <4> HIDE DEF st
      <4> QED BY <2>2
    <3> HIDE DEF b
    <3>2. /\ SubSeq(L, b, off[i]) \in Seq(Symbols) /\ Len(SubSeq(L, b, off[i])) = Len(args[i])
          /\ \A q \in 1..Len(args[i]) : SubSeq(L, b, off[i])[q] = L[b + q - 1]
      BY <1>1, <3>1, SubSeqFacts
    <3>3. \A q \in 1..Len(args[i]) : L[b + q - 1] = args[i][q]
      BY <1>5 DEF b
    <3>4. args[i] \in Seq(Symbols)
      BY <1>4
    <3> HIDE DEF w
    <3>5. w \in Seq(Symbols) /\ Len(w) = Len(args[i]) /\ \A q \in 1..Len(args[i]) : w[q] = args[i][q]
      BY <3>2, <3>3 DEF w, b
    <3>6. w = args[i]
      <4> HIDE DEF st
      <4> QED BY <3>4, <3>5, SeqEqual
    <3> QED BY <3>6 DEF w
  <2> QED BY <2>1, <2>3, <2>4
<1>10. ASSUME NEW i \in 1..m
       PROVE  Cardinality({q \in WordStarts(L) : q <= st(i)}) = i
  <2>1. {q \in WordStarts(L) : q <= st(i)} = {st(j) : j \in 1..i}
    <3>1. ASSUME NEW j \in 1..m PROVE st(j) <= st(i) <=> j <= i
      <4>1. st(i) \in Nat /\ st(j) \in Nat /\ i \in Nat /\ j \in Nat
        BY <1>5
      <4>2. (i < j => st(i) < st(j)) /\ (j < i => st(j) < st(i)) /\ (i = j => st(i) = st(j))
        BY <1>7
      <4> HIDE DEF st
      <4> QED BY <4>1, <4>2
    <3>2. \A j \in 1..m : j <= i <=> j \in 1..i
      BY <1>1
    <3>3. \A j \in 1..i : j \in 1..m
      BY <1>1
    <3> HIDE DEF st
    <3> QED BY <1>8, <3>1, <3>2, <3>3
  <2> DEFINE T == {j \in Nat : IsFiniteSet({st(k) : k \in 1..j}) /\ Cardinality({st(k) : k \in 1..j}) = j}
  <2>2. 0 \in T
    <3>1. {st(k) : k \in 1..0} = {}
      OBVIOUS
    <3> QED BY <3>1, FS_EmptySet
  <2>3. ASSUME NEW j \in 0..(m - 1), j \in T PROVE j + 1 \in T
    <3> DEFINE S == {st(k) : k \in 1..j}
    <3>1. {st(k) : k \in 1..(j + 1)} = S \cup {st(j + 1)}
      <4>1. \A k : k \in 1..(j + 1) <=> k \in 1..j \/ k = j + 1
        OBVIOUS
      <4> HIDE DEF st
      <4> QED BY <4>1
    <3>2. st(j + 1) \notin S
      <4>1. j + 1 \in 1..m
        BY <1>1
      <4>2. ASSUME NEW k \in 1..j PROVE st(k) # st(j + 1)
        <5>1. k \in 1..m /\ k < j + 1
          BY <1>1
        <5>2. st(k) < st(j + 1) /\ st(k) \in Nat
          BY <1>5, <1>7, <4>1, <5>1
        <5> HIDE DEF st
        <5> QED BY <5>2
      <4> HIDE DEF st
      <4> QED BY <4>2
    <3>3. IsFiniteSet(S) /\ Cardinality(S) = j
      BY <2>3
    <3> DEFINE x == st(j + 1)
    <3> HIDE DEF S, x
    <3>4. IsFiniteSet(S \cup {x}) /\ Cardinality(S \cup {x}) = j + 1
      BY <3>2, <3>3, FS_AddElement DEF x
    <3>5. j + 1 \in Nat
      OBVIOUS
    <3> QED BY <3>1, <3>4, <3>5 DEF x
  <2>4. i \in T
    <3>1. i \in 0..m
      BY <1>1
    <3> HIDE DEF T
    <3>2. \A j \in 0..m : j \in T
      BY <1>1, <2>2, <2>3, NoneFails
    <3> QED BY <3>1, <3>2
  <2> HIDE DEF st
  <2> QED BY <2>1, <2>4
<1>11. Words(L) = args
  <2> DEFINE starts == WordStarts(L)
             nth(i) == CHOOSE p \in starts : Cardinality({q \in starts : q <= p}) = i
  <2>1. Cardinality(starts) = m
    <3>1. m \in 1..m
      BY <1>1
    <3>2. {q \in starts : q <= st(m)} = starts
      <4>1. ASSUME NEW j \in 1..m PROVE st(j) <= st(m)
        <5>1. j = m \/ j < m
          BY <1>1
        <5>2. st(j) \in Nat
          BY <1>5
        <5>3. j < m => st(j) < st(m) /\ st(m) \in Nat
          BY <1>5, <1>7, <3>1
        <5> HIDE DEF st
        <5> QED BY <5>1, <5>2, <5>3
      <4> HIDE DEF st
      <4> QED BY <1>8, <4>1
    <3> HIDE DEF st, starts
    <3> QED BY <1>10, <3>1, <3>2 DEF starts
  <2>2. ASSUME NEW i \in 1..m PROVE nth(i) = st(i)
    <3>1. st(i) \in starts /\ Cardinality({q \in starts : q <= st(i)}) = i
      BY <1>8, <1>10
    <3>2. ASSUME NEW p \in starts, Cardinality({q \in starts : q <= p}) = i PROVE p = st(i)
      <4>1. PICK j \in 1..m : p = st(j)
        BY <1>8
      <4>2. j = i
        BY <1>10, <3>2, <4>1
      <4> QED BY <4>1, <4>2
    <3> HIDE DEF st, starts
    <3> QED BY <3>1, <3>2
  <2>3. Words(L) = [i \in 1..Cardinality(starts) |-> WordAt(L, nth(i))]
    BY DEF Words
  <2>4. args = [i \in 1..m |-> args[i]]
    OBVIOUS
  <2> HIDE DEF st, starts, nth, m
  <2> QED BY <1>9, <2>1, <2>2, <2>3, <2>4
<1>12. ASSUME NEW p \in 1..(Len(L) - 1), L[p] = CR, L[p + 1] = LF PROVE FALSE
  <2>1. p \in 1..Len(L) /\ p + 1 \in 1..Len(L) /\ CR # Space /\ LF # Space
    BY <1>3 DEF CR, LF, Space
  <2>2. PICK i \in 1..m : \E q \in 1..Len(args[i]) : p = st(i) + q - 1 /\ L[p] = args[i][q]
    BY <1>6, <1>12, <2>1
  <2>3. PICK q \in 1..Len(args[i]) : p = st(i) + q - 1 /\ L[p] = args[i][q]
    BY <2>2
  <2>4. st(i) \in Nat \ {0} /\ Len(args[i]) \in Nat /\ off[i] = st(i) + Len(args[i]) - 1
        /\ off[i] <= Len(L)
    BY <1>4, <1>5
  <2>5. CASE q < Len(args[i])
    <3>1. q + 1 \in 1..Len(args[i]) /\ p + 1 = st(i) + (q + 1) - 1 /\ q \in 1..(Len(args[i]) - 1)
      <4> HIDE DEF st
      <4> QED BY <2>3, <2>4, <2>5
    <3>2. L[p + 1] = args[i][q + 1]
      <4>1. L[st(i) + (q + 1) - 1] = args[i][q + 1]
        BY <1>5, <3>1
      <4> HIDE DEF st
      <4> QED BY <3>1, <4>1
    <3> HIDE DEF st
    <3> QED BY <1>4, <1>12, <2>3, <3>1, <3>2
  <2>6. CASE q = Len(args[i])
    <3>1. p = off[i]
      <4> HIDE DEF st
      <4> QED BY <2>3, <2>4, <2>6
    <3>2. i # m
      BY <1>3, <3>1
    <3>3. i + 1 \in 1..m /\ i + 1 > 1 /\ (i + 1) - 1 = i
      BY <1>1, <3>2
    <3>4. L[off[i] + 1] = Space
      BY <1>5, <3>3
    <3> QED BY <1>12, <2>1, <3>1, <3>4
  <2>7. q < Len(args[i]) \/ q = Len(args[i])
    BY <2>4
  <2> QED BY <2>5, <2>6, <2>7
<1>13. L # << >> /\ L[1] = args[1][1]
  <2>1. 1 \in 1..m
    BY <1>1
  <2>2. 1 \in 1..Len(args[1]) /\ Len(args[1]) \in Nat \ {0}
    BY <1>4, <2>1
  <2>3. off[1] = Len(args[1]) /\ off[1] <= Len(L) /\ L[1] = args[1][1]
    <3>1. /\ off[1] = 1 + Len(args[1]) - 1 /\ off[1] <= Len(L)
          /\ \A q \in 1..Len(args[1]) : L[1 + q - 1] = args[1][q]
      BY <1>5, <2>1
    <3>2. 1 + 1 - 1 = 1
      OBVIOUS
    <3> QED BY <2>2, <3>1, <3>2
  <2>4. Len(L) # 0
    BY <1>3, <2>2, <2>3
  <2> QED BY <2>3, <2>4
<1> QED BY <1>1, <1>11, <1>12, <1>13
-----------------------------------------------------------------------------
(* What a request looks like on the wire                                   *)

LEMMA ConcatFacts ==
  ASSUME NEW S, NEW a \in Seq(S), NEW b \in Seq(S), NEW m, NEW n, m = Len(a), n = Len(b)
  PROVE  /\ a \o b \in Seq(S) /\ Len(a \o b) = m + n /\ m \in Nat /\ n \in Nat
         /\ \A q \in 1..m : (a \o b)[q] = a[q]
         /\ \A q \in 1..n : (a \o b)[m + q] = b[q]
<1>1. Len(a) \in Nat /\ Len(b) \in Nat
  OBVIOUS
<1>2. /\ a \o b \in Seq(S) /\ Len(a \o b) = Len(a) + Len(b)
      /\ \A q \in 1..(Len(a) + Len(b)) : (a \o b)[q] = IF q <= Len(a) THEN a[q] ELSE b[q - Len(a)]
  BY ConcatProperties
<1>3. ASSUME NEW q \in 1..Len(b) PROVE (a \o b)[Len(a) + q] = b[q]
  <2>1. Len(a) + q \in 1..(Len(a) + Len(b)) /\ ~(Len(a) + q <= Len(a)) /\ (Len(a) + q) - Len(a) = q
    BY <1>1
  <2> QED BY <1>2, <2>1
<1>4. ASSUME NEW q \in 1..Len(a) PROVE (a \o b)[q] = a[q]
  <2>1. q \in 1..(Len(a) + Len(b)) /\ q <= Len(a)
    BY <1>1
  <2> QED BY <1>2, <2>1
<1> QED BY <1>2, <1>3, <1>4

LEMMA ShortSeqs ==
  ASSUME NEW S, NEW x \in S, NEW y \in S, NEW z \in S
  PROVE  /\ <<x, y>> \in Seq(S) /\ Len(<<x, y>>) = 2
         /\ <<x, y, z>> \in Seq(S) /\ Len(<<x, y, z>>) = 3
OBVIOUS

LEMMA SymbolFacts ==
  /\ CR \in Symbols /\ LF \in Symbols /\ CR # LF
  /\ \A n \in Int : /\ <<"*", n>> \in Symbols /\ <<"$", n>> \in Symbols
                    /\ <<"*", n>> # CR /\ <<"$", n>> # CR
BY DEF Symbols, CR, LF, Space

LEMMA BulkFacts ==
  ASSUME NEW arg \in Seq(Symbols)
  PROVE  /\ Bulk(arg) \in Seq(Symbols) /\ Len(Bulk(arg)) = Len(arg) + 5
         /\ Bulk(arg)[1] = <<"$", Len(arg)>> /\ Bulk(arg)[2] = CR /\ Bulk(arg)[3] = LF
         /\ \A q \in 1..Len(arg) : Bulk(arg)[3 + q] = arg[q]
         /\ Bulk(arg)[Len(arg) + 4] = CR /\ Bulk(arg)[Len(arg) + 5] = LF
<1> DEFINE h == <<<<"$", Len(arg)>>, CR, LF>>
           t == <<CR, LF>>
           c == Len(arg)
<1>1. c \in Nat /\ h \in Seq(Symbols) /\ Len(h) = 3 /\ t \in Seq(Symbols) /\ Len(t) = 2
  <2>1. c \in Int /\ c \in Nat
    OBVIOUS
  <2> DEFINE x == <<"$", c>>
  <2>2. x \in Symbols /\ CR \in Symbols /\ LF \in Symbols
    BY <2>1, SymbolFacts
  <2> HIDE DEF x
  <2>3. <<x, CR, LF>> \in Seq(Symbols) /\ Len(<<x, CR, LF>>) = 3 /\ <<CR, LF>> \in Seq(Symbols)
        /\ Len(<<CR, LF>>) = 2
    BY <2>2, ShortSeqs
  <2> QED BY <2>1, <2>3 DEF x
<1>2. h[1] = <<"$", c>> /\ h[2] = CR /\ h[3] = LF /\ t[1] = CR /\ t[2] = LF
  OBVIOUS
<1>3. Bulk(arg) = (h \o arg) \o t
  BY DEF Bulk
<1> HIDE DEF h, t
<1>4. /\ h \o arg \in Seq(Symbols) /\ Len(h \o arg) = 3 + c
      /\ \A q \in 1..3 : (h \o arg)[q] = h[q]
      /\ \A q \in 1..c : (h \o arg)[3 + q] = arg[q]
  <2> DEFINE k == 3
  <2>1. k = Len(h) /\ c = Len(arg) /\ h \in Seq(Symbols)
    BY <1>1
  <2> HIDE DEF c, k
  <2>2. /\ h \o arg \in Seq(Symbols) /\ Len(h \o arg) = k + c
        /\ \A q \in 1..k : (h \o arg)[q] = h[q]
        /\ \A q \in 1..c : (h \o arg)[k + q] = arg[q]
    BY <2>1, ConcatFacts
  <2> QED BY <2>2 DEF k
<1> DEFINE ha == h \o arg
<1>5. /\ ha \in Seq(Symbols) /\ Len(ha) = 3 + c /\ \A q \in 1..3 : ha[q] = h[q]
      /\ \A q \in 1..c : ha[3 + q] = arg[q]
  BY <1>4
<1> HIDE DEF ha
<1>6. /\ ha \o t \in Seq(Symbols) /\ Len(ha \o t) = (3 + c) + 2
      /\ \A q \in 1..(3 + c) : (ha \o t)[q] = ha[q]
      /\ \A q \in 1..2 : (ha \o t)[(3 + c) + q] = t[q]
  <2> DEFINE k == 3 + c
             l == 2
  <2>1. k = Len(ha) /\ l = Len(t) /\ ha \in Seq(Symbols) /\ t \in Seq(Symbols)
    BY <1>1, <1>5
  <2> HIDE DEF k, l
  <2>2. /\ ha \o t \in Seq(Symbols) /\ Len(ha \o t) = k + l
        /\ \A q \in 1..k : (ha \o t)[q] = ha[q]
        /\ \A q \in 1..l : (ha \o t)[k + q] = t[q]
    BY <2>1, ConcatFacts
  <2> QED BY <2>2 DEF k, l
<1>7. Bulk(arg) = ha \o t
  BY <1>3 DEF ha
<1> HIDE DEF c
<1>8. /\ 1 \in 1..3 /\ 2 \in 1..3 /\ 3 \in 1..3 /\ 1 \in 1..(3 + c) /\ 2 \in 1..(3 + c) /\ 3 \in 1..(3 + c)
      /\ 1 \in 1..2 /\ 2 \in 1..2 /\ (3 + c) + 1 = c + 4 /\ (3 + c) + 2 = c + 5
      /\ \A q \in 1..c : 3 + q \in 1..(3 + c)
  BY <1>1
<1>9. Bulk(arg)[1] = h[1] /\ Bulk(arg)[2] = h[2] /\ Bulk(arg)[3] = h[3]
  BY <1>5, <1>6, <1>7, <1>8
<1>10. \A q \in 1..c : Bulk(arg)[3 + q] = arg[q]
  BY <1>5, <1>6, <1>7, <1>8
<1>11. Bulk(arg)[c + 4] = t[1] /\ Bulk(arg)[c + 5] = t[2]
  BY <1>6, <1>7, <1>8
<1> QED BY <1>2, <1>6, <1>7, <1>8, <1>9, <1>10, <1>11 DEF c

(* off says behind which symbol of a request in RESP each argument ends.   *)
IsLayout(off, args) ==
  LET bytes == InBulks(args)
  IN /\ off \in [0..Len(args) -> Nat] /\ off[0] = 3 /\ off[Len(args)] = Len(bytes)
     /\ bytes[1] = <<"*", Len(args)>> /\ bytes[2] = CR /\ bytes[3] = LF
     /\ \A i \in 1..Len(args) :
          /\ off[i] = off[i - 1] + Len(args[i]) + 5 /\ off[i] <= Len(bytes)
          /\ bytes[off[i - 1] + 1] = <<"$", Len(args[i])>>
          /\ bytes[off[i - 1] + 2] = CR /\ bytes[off[i - 1] + 3] = LF
          /\ \A q \in 1..Len(args[i]) : bytes[off[i - 1] + 3 + q] = args[i][q]
          /\ bytes[off[i - 1] + Len(args[i]) + 4] = CR /\ bytes[off[i - 1] + Len(args[i]) + 5] = LF

Layout(args) == CHOOSE off : IsLayout(off, args)

LEMMA LayoutExists ==
  ASSUME NEW args \in Seq(Seq(Symbols)), args # << >>
  PROVE  InBulks(args) \in Seq(Symbols) /\ IsLayout(Layout(args), args)
<1> DEFINE m == Len(args)
           bulks == [i \in DOMAIN args |-> Bulk(args[i])]
           flat == FlattenSeq(bulks)
           h == <<<<"*", m>>, CR, LF>>
           bytes == InBulks(args)
<1>1. m \in Nat \ {0} /\ \A i \in 1..m : args[i] \in Seq(Symbols)
  OBVIOUS
<1>2. bulks \in Seq(Seq(Symbols)) /\ Len(bulks) = m /\ bulks # << >> /\ \A i \in 1..m : bulks[i] = Bulk(args[i])
  <2>1. \A i \in 1..m : Bulk(args[i]) \in Seq(Symbols)
    BY <1>1, BulkFacts
  <2>2. DOMAIN args = 1..m
    OBVIOUS
  <2>3. bulks = [i \in 1..m |-> Bulk(args[i])]
    BY <2>2
  <2> HIDE DEF m, bulks
  <2>4. bulks \in Seq(Seq(Symbols)) /\ Len(bulks) = m /\ \A i \in 1..m : bulks[i] = Bulk(args[i])
    BY <1>1, <2>1, <2>3
  <2> QED BY <1>1, <2>4
<1>3. h \in Seq(Symbols) /\ Len(h) = 3 /\ h[1] = <<"*", m>> /\ h[2] = CR /\ h[3] = LF
  <2>1. m \in Int
    OBVIOUS
  <2> DEFINE x == <<"*", m>>
  <2>2. x \in Symbols /\ CR \in Symbols /\ LF \in Symbols
    BY <2>1, SymbolFacts
  <2> HIDE DEF x
  <2>3. <<x, CR, LF>> \in Seq(Symbols) /\ Len(<<x, CR, LF>>) = 3
    BY <2>2, ShortSeqs
  <2> QED BY <2>3 DEF x
<1>4. bytes = h \o flat
  BY DEF InBulks
<1> HIDE DEF bulks, h, bytes
<1>5. flat \in Seq(Symbols) /\ \E o : Pieces(o, flat, bulks)
  BY <1>2, FlattenPieces
<1>6. PICK o : Pieces(o, flat, bulks)
  BY <1>5
<1> HIDE DEF flat
<1>7. /\ bytes \in Seq(Symbols) /\ Len(bytes) = 3 + Len(flat) /\ \A q \in 1..3 : bytes[q] = h[q]
      /\ \A q \in 1..Len(flat) : bytes[3 + q] = flat[q]
  <2> DEFINE k == 3
             l == Len(flat)
  <2>1. k = Len(h) /\ l = Len(flat) /\ h \in Seq(Symbols) /\ flat \in Seq(Symbols)
    BY <1>3, <1>5
  <2> HIDE DEF k, l
  <2>2. /\ bytes \in Seq(Symbols) /\ Len(bytes) = k + l
        /\ \A q \in 1..k : bytes[q] = h[q]
        /\ \A q \in 1..l : bytes[k + q] = flat[q]
    BY <1>4, <2>1, ConcatFacts
  <2> QED BY <2>2 DEF k, l
<1>8. /\ o \in [0..m -> Nat] /\ o[0] = 0 /\ o[m] = Len(flat) /\ Len(flat) \in Nat
      /\ \A i \in 1..m :
           /\ o[i] = o[i - 1] + Len(Bulk(args[i])) /\ o[i] <= Len(flat)
           /\ \A q \in 1..Len(Bulk(args[i])) : flat[o[i - 1] + q] = Bulk(args[i])[q]
  <2>1. Len(flat) \in Nat
    BY <1>5
  <2> HIDE DEF m
  <2> QED BY <1>2, <1>6, <2>1 DEF Pieces
<1> DEFINE off == [i \in 0..m |-> 3 + o[i]]
<1>9. off \in [0..m -> Nat] /\ off[0] = 3 /\ off[m] = Len(bytes)
  <2> HIDE DEF m
  <2>1. 0 \in 0..m /\ m \in 0..m
    BY <1>1
  <2> QED BY <1>7, <1>8, <2>1
<1>10. bytes[1] = <<"*", m>> /\ bytes[2] = CR /\ bytes[3] = LF
  BY <1>3, <1>7
<1>11. ASSUME NEW i \in 1..m
       PROVE  /\ off[i] = off[i - 1] + Len(args[i]) + 5 /\ off[i] <= Len(bytes)
              /\ bytes[off[i - 1] + 1] = <<"$", Len(args[i])>>
              /\ bytes[off[i - 1] + 2] = CR /\ bytes[off[i - 1] + 3] = LF
              /\ \A q \in 1..Len(args[i]) : bytes[off[i - 1] + 3 + q] = args[i][q]
              /\ bytes[off[i - 1] + Len(args[i]) + 4] = CR /\ bytes[off[i - 1] + Len(args[i]) + 5] = LF
  <2> DEFINE c == Len(args[i])
             b == Bulk(args[i])
             x == o[i - 1]
             y == o[i]
  <2>0. args[i] \in Seq(Symbols)
    BY <1>1
  <2>1. /\ Len(b) = c + 5 /\ b[1] = <<"$", c>> /\ b[2] = CR /\ b[3] = LF
        /\ (\A q \in 1..c : b[3 + q] = args[i][q]) /\ b[c + 4] = CR /\ b[c + 5] = LF /\ c \in Nat
    <3>1. c \in Nat
      BY <2>0
    <3> QED BY <2>0, <3>1, BulkFacts
  <2>2. i - 1 \in 0..m /\ i \in 0..m
    BY <1>1
  <2> HIDE DEF b, c
  <2>3. /\ x \in Nat /\ y \in Nat /\ y = x + (c + 5) /\ y <= Len(flat)
        /\ \A q \in 1..(c + 5) : flat[x + q] = b[q]
    BY <1>8, <2>1, <2>2 DEF b
  <2>4. off[i - 1] = 3 + x /\ off[i] = 3 + y
    BY <2>2
  <2> HIDE DEF x, y, off, m
  <2>5. ASSUME NEW q \in 1..(c + 5) PROVE bytes[(3 + x) + q] = b[q]
    <3>1. x + q \in 1..Len(flat) /\ 3 + (x + q) = (3 + x) + q
      BY <1>8, <2>1, <2>3
    <3> QED BY <1>7, <2>3, <3>1
  <2>6. /\ 1 \in 1..(c + 5) /\ 2 \in 1..(c + 5) /\ 3 \in 1..(c + 5) /\ c + 4 \in 1..(c + 5)
        /\ c + 5 \in 1..(c + 5) /\ \A q \in 1..c : 3 + q \in 1..(c + 5)
    BY <2>1
  <2>7. (3 + x) + (c + 4) = (3 + x) + c + 4 /\ (3 + x) + (c + 5) = (3 + x) + c + 5
        /\ \A q \in 1..c : (3 + x) + (3 + q) = (3 + x) + 3 + q
    <3>1. c \in Nat /\ x \in Nat
      BY <2>1, <2>3
    <3> QED BY <3>1
  <2>8. \A q \in 1..c : bytes[(3 + x) + 3 + q] = args[i][q]
    BY <2>1, <2>5, <2>6, <2>7
  <2>9. bytes[(3 + x) + c + 4] = CR /\ bytes[(3 + x) + c + 5] = LF
    BY <2>1, <2>5, <2>6, <2>7
  <2>10. bytes[(3 + x) + 1] = <<"$", c>> /\ bytes[(3 + x) + 2] = CR /\ bytes[(3 + x) + 3] = LF
    BY <2>1, <2>5, <2>6
  <2>11. 3 + y = (3 + x) + c + 5 /\ 3 + y <= Len(bytes)
    BY <1>7, <1>8, <2>1, <2>3
  <2> QED BY <2>4, <2>8, <2>9, <2>10, <2>11 DEF c
<1>12. IsLayout(off, args)
  <2> HIDE DEF off
  <2> QED BY <1>9, <1>10, <1>11 DEF IsLayout, bytes
<1> QED BY <1>7, <1>12 DEF Layout, bytes

LEMMA InLineFacts ==
  ASSUME NEW args \in InlineRequests
  PROVE  LET bytes == InLine(args)
             n     == Len(bytes) - 2
         IN /\ args \in Seq(Seq(Symbols)) /\ args # << >>
            /\ bytes \in Seq(Symbols) /\ n \in Nat \ {0} /\ bytes[1][1] # "*"
            /\ \A p \in 1..n : ~(bytes[p] = CR /\ bytes[p + 1] = LF)
            /\ bytes[n + 1] = CR /\ bytes[n + 2] = LF
            /\ \A line \in Seq(Symbols) :
                 Len(line) = n /\ (\A q \in 1..n : line[q] = bytes[q]) => Words(line) = args
<1> DEFINE bytes == InLine(args)
           n == Len(bytes) - 2
           L == FlattenSeq(Spaced(args))
           t == <<CR, LF>>
<1>1. /\ args \in Seq(Seq(Symbols)) /\ args # << >> /\ args[1][1][1] # "*"
      /\ \A i \in DOMAIN args : IsWord(args[i])
  BY RequestParserAssumption
<1>2. /\ L \in Seq(Symbols) /\ L # << >> /\ L[1] = args[1][1]
      /\ \A p \in 1..(Len(L) - 1) : ~(L[p] = CR /\ L[p + 1] = LF)
      /\ Words(L) = args
  <2> HIDE DEF L
  <2>1. L = FlattenSeq(Spaced(args))
    BY DEF L
  <2> QED BY <1>1, <2>1, LineOfWords
<1>3. bytes = L \o t
  BY DEF InLine, Spaced
<1>4. t \in Seq(Symbols) /\ Len(t) = 2 /\ t[1] = CR /\ t[2] = LF
  BY SymbolFacts, ShortSeqs
<1> DEFINE m == Len(L)
<1>5. m \in Nat \ {0}
  <2> HIDE DEF L
  <2> QED BY <1>2, LenProperties, EmptySeq
<1> HIDE DEF L, t, bytes
<1>6. /\ bytes \in Seq(Symbols) /\ Len(bytes) = m + 2 /\ \A q \in 1..m : bytes[q] = L[q]
      /\ bytes[m + 1] = CR /\ bytes[m + 2] = LF
  <2> DEFINE k == 2
  <2>1. m = Len(L) /\ k = Len(t) /\ L \in Seq(Symbols) /\ t \in Seq(Symbols)
    BY <1>2, <1>4
  <2> HIDE DEF k, m
  <2>2. /\ bytes \in Seq(Symbols) /\ Len(bytes) = m + k /\ \A q \in 1..m : bytes[q] = L[q]
        /\ \A q \in 1..k : bytes[m + q] = t[q]
    BY <1>3, <2>1, ConcatFacts
  <2>3. 1 \in 1..k /\ 2 \in 1..k
    BY DEF k
  <2> QED BY <1>4, <2>2, <2>3 DEF k
<1>7. n = m
  <2> HIDE DEF m
  <2> QED BY <1>5, <1>6
<1> HIDE DEF n, m
<1>8. bytes[1][1] # "*"
  <2>1. 1 \in 1..m
    BY <1>5
  <2> QED BY <1>1, <1>2, <1>6, <2>1
<1>9. ASSUME NEW p \in 1..m, bytes[p] = CR, bytes[p + 1] = LF PROVE FALSE
  <2>1. CASE p = m
    BY <1>6, <1>9, <2>1, SymbolFacts
  <2>2. CASE p # m
    <3>1. p + 1 \in 1..m /\ p \in 1..(m - 1)
      BY <1>5, <2>2
    <3> QED BY <1>2, <1>6, <1>9, <3>1 DEF m
  <2> QED BY <2>1, <2>2
<1>10. ASSUME NEW line \in Seq(Symbols), Len(line) = m, \A q \in 1..m : line[q] = bytes[q]
       PROVE  Words(line) = args
  <2>1. line = L
    <3>1. \A q \in 1..m : line[q] = L[q]
      BY <1>6, <1>10
    <3> QED BY <1>2, <1>10, <3>1, SeqEqual DEF m
  <2> QED BY <1>2, <2>1
<1> QED BY <1>1, <1>5, <1>6, <1>7, <1>8, <1>9, <1>10 DEF bytes, n

LEMMA RequestTyped ==
  /\ \A args \in BulkRequests :
       args \in Seq(Seq(Symbols)) /\ args # << >> /\ InBulks(args) \in Seq(Symbols)
       /\ IsLayout(Layout(args), args)
  /\ \A args \in InlineRequests : args \in Seq(Seq(Symbols)) /\ InLine(args) \in Seq(Symbols)
  /\ \A bytes \in Garbage : bytes \in Seq(Symbols)
<1>1. ASSUME NEW args \in BulkRequests
      PROVE  args \in Seq(Seq(Symbols)) /\ args # << >> /\ InBulks(args) \in Seq(Symbols)
             /\ IsLayout(Layout(args), args)
  <2>1. args \in Seq(Seq(Symbols)) /\ args # << >>
    BY RequestParserAssumption
  <2> QED BY <2>1, LayoutExists
<1>2. ASSUME NEW args \in InlineRequests
      PROVE  args \in Seq(Seq(Symbols)) /\ InLine(args) \in Seq(Symbols)
  BY InLineFacts
<1>3. \A bytes \in Garbage : bytes \in Seq(Symbols)
  BY RequestParserAssumption
<1> QED BY <1>1, <1>2, <1>3
-----------------------------------------------------------------------------
(* Types                                                                   *)

LEMMA FromFacts ==
  ASSUME NEW buf \in Seq(Symbols), NEW p \in Nat \ {0}
  PROVE  From(buf, p) \in Seq(Symbols)
<1>1. Len(buf) \in 0..Len(buf)
  OBVIOUS
<1> QED BY <1>1, SubSeqFacts DEF From

LEMMA NumberTyped ==
  ASSUME NEW line \in Seq(Symbols)
  PROVE  Number(line) \in Int
<1>1. CASE Len(line) = 1
  <2>1. line[1] \in Symbols
    BY <1>1
  <2> QED BY <1>1, <2>1, SymbolsArePairs DEF Number
<1>2. CASE Len(line) # 1
  BY <1>2 DEF Number, NotANumber
<1> QED BY <1>1, <1>2

LEMMA ErrorTyped ==
  ASSUME NEW buf \in Seq(Symbols), NEW p \in Nat, setProtocolError(buf, p)
  PROVE  closing' = TRUE /\ queryBuf' \in Seq(Symbols) /\ parser' \in {"crashed", "idle"}
BY FromFacts DEF setProtocolError

LEMMA WaitTyped ==
  ASSUME queryBuf \in Seq(Symbols), closing \in BOOLEAN, WaitForLine
  PROVE  queryBuf' \in Seq(Symbols) /\ closing' \in BOOLEAN /\ parser' \in {"crashed", "idle"}
<1>1. CASE setProtocolError(queryBuf, 1)
  BY <1>1, ErrorTyped
<1>2. CASE parser' = "idle" /\ UNCHANGED <<queryBuf, closing>>
  BY <1>2
<1> QED BY <1>1, <1>2 DEF WaitForLine

LEMMA InitTyped == RequestParserInit => RequestParserTypeOK
<1> SUFFICES ASSUME RequestParserInit PROVE RequestParserTypeOK
  OBVIOUS
<1>1. << >> \in Seq(Symbols) /\ << >> \in Seq(Seq(Symbols)) /\ << >> \in Seq(Seq(Seq(Symbols)))
      /\ << >> \in Seq([args : Seq(Seq(Symbols)), ends : Nat]) /\ Len(<< >>) = 0
  OBVIOUS
<1>2. 0 \in 0..Len(sent) /\ 0 \in 0..PROTO_REQ_MULTIBULK_MAX_LEN
  BY <1>1, RequestParserAssumption DEF RequestParserInit
<1> QED BY <1>1, <1>2 DEF RequestParserInit, RequestParserTypeOK

LEMMA SentTyped ==
  ASSUME RequestParserTypeOK, NEW bytes \in Seq(Symbols), NEW args \in Seq(Seq(Symbols)), Sent(bytes, args),
         UNCHANGED got
  PROVE  /\ sent' \in Seq(Symbols) /\ got' \in 0..Len(sent')
         /\ requests' \in Seq([args : Seq(Seq(Symbols)), ends : Nat])
<1>1. sent \in Seq(Symbols) /\ got \in 0..Len(sent) /\ sent' = sent \o bytes
      /\ requests \in Seq([args : Seq(Seq(Symbols)), ends : Nat])
  BY DEF RequestParserTypeOK, Sent
<1>2. sent' \in Seq(Symbols) /\ Len(sent') = Len(sent) + Len(bytes) /\ Len(sent) \in Nat /\ Len(bytes) \in Nat
  BY <1>1
<1>3. [args |-> args, ends |-> Len(sent')] \in [args : Seq(Seq(Symbols)), ends : Nat]
  <2>1. Len(sent') \in Nat
    BY <1>2
  <2> QED BY <2>1
<1>4. requests' = Append(requests, [args |-> args, ends |-> Len(sent')])
  BY DEF Sent
<1>5. requests' \in Seq([args : Seq(Seq(Symbols)), ends : Nat])
  <2> DEFINE S == [args : Seq(Seq(Symbols)), ends : Nat]
             r == [args |-> args, ends |-> Len(sent')]
  <2> HIDE DEF S, r
  <2>1. requests \in Seq(S) /\ r \in S /\ requests' = Append(requests, r)
    BY <1>1, <1>3, <1>4 DEF S, r
  <2>2. requests' \in Seq(S)
    BY <2>1
  <2> QED BY <2>2 DEF S
<1>6. got' \in 0..Len(sent')
  BY <1>1, <1>2
<1> QED BY <1>2, <1>5, <1>6

LEMMA SendTyped == RequestParserTypeOK /\ SendRequest => RequestParserTypeOK'
<1> SUFFICES ASSUME RequestParserTypeOK, SendRequest PROVE RequestParserTypeOK'
  OBVIOUS
<1>1. /\ sent' \in Seq(Symbols) /\ got' \in 0..Len(sent')
      /\ requests' \in Seq([args : Seq(Seq(Symbols)), ends : Nat]) /\ sane' \in BOOLEAN
  <2>1. ASSUME NEW args \in BulkRequests, Sent(InBulks(args), args), UNCHANGED sane PROVE <1>1!:
    BY <2>1, SentTyped, RequestTyped DEF RequestParserTypeOK, SendRequest
  <2>2. ASSUME NEW args \in InlineRequests, Sent(InLine(args), args), UNCHANGED sane PROVE <1>1!:
    BY <2>2, SentTyped, RequestTyped DEF RequestParserTypeOK, SendRequest
  <2>3. ASSUME NEW bytes \in Garbage, Sent(bytes, << >>), sane' = FALSE PROVE <1>1!:
    <3>1. << >> \in Seq(Seq(Symbols))
      OBVIOUS
    <3> QED BY <2>3, <3>1, SentTyped, RequestTyped DEF SendRequest
  <2> QED BY <2>1, <2>2, <2>3 DEF SendRequest
<1> QED BY <1>1 DEF RequestParserTypeOK, SendRequest

LEMMA ReceiveTyped == RequestParserTypeOK /\ Receive => RequestParserTypeOK'
<1> SUFFICES ASSUME RequestParserTypeOK, Receive PROVE RequestParserTypeOK'
  OBVIOUS
<1>1. PICK n \in (got + 1)..Len(sent) : queryBuf' = queryBuf \o SubSeq(sent, got + 1, n) /\ got' = n
  BY DEF Receive
<1>2. sent \in Seq(Symbols) /\ got \in 0..Len(sent) /\ queryBuf \in Seq(Symbols) /\ Len(sent) \in Nat
  BY DEF RequestParserTypeOK
<1>3. got + 1 \in Nat \ {0} /\ n \in 0..Len(sent)
  BY <1>2
<1>4. SubSeq(sent, got + 1, n) \in Seq(Symbols)
  BY <1>2, <1>3, SubSeqFacts
<1>5. queryBuf' \in Seq(Symbols)
  <2> DEFINE s == SubSeq(sent, got + 1, n)
  <2> HIDE DEF s
  <2>1. s \in Seq(Symbols) /\ queryBuf' = queryBuf \o s
    BY <1>1, <1>4 DEF s
  <2> QED BY <1>2, <2>1
<1> QED BY <1>1, <1>3, <1>5 DEF RequestParserTypeOK, Receive

LEMMA ReadTyped == RequestParserTypeOK /\ ReadQuery => RequestParserTypeOK'
BY DEF RequestParserTypeOK, ReadQuery, sentVars

LEMMA InlineTyped == RequestParserTypeOK /\ processInlineBuffer => RequestParserTypeOK'
<1> SUFFICES ASSUME RequestParserTypeOK, processInlineBuffer PROVE RequestParserTypeOK'
  OBVIOUS
<1> DEFINE eol == LineEnd(queryBuf, 1)
           words == Words(SubSeq(queryBuf, 1, eol - 1))
<1>1. queryBuf \in Seq(Symbols) /\ closing \in BOOLEAN /\ parser \in {"idle", "parse", "bulks", "crashed"}
      /\ argv \in Seq(Seq(Symbols)) /\ allocated \in BOOLEAN
  BY DEF RequestParserTypeOK
<1>2. /\ queryBuf' \in Seq(Symbols) /\ closing' \in BOOLEAN /\ parser' \in {"idle", "parse", "crashed"}
      /\ argv' \in Seq(Seq(Symbols)) /\ allocated' \in BOOLEAN
  <2>1. CASE eol = 0
    <3>1. WaitForLine /\ UNCHANGED <<argv, allocated>>
      BY <2>1 DEF processInlineBuffer
    <3> QED BY <1>1, <3>1, WaitTyped
  <2>2. CASE eol # 0 /\ words = << >>
    <3>1. parser' = "idle" /\ UNCHANGED <<queryBuf, closing, argv, allocated>>
      BY <2>2 DEF processInlineBuffer
    <3> QED BY <1>1, <3>1
  <2>3. CASE eol # 0 /\ words # << >>
    <3>1. argv' = words /\ allocated' = TRUE /\ queryBuf' = From(queryBuf, eol + 2) /\ UNCHANGED <<parser, closing>>
      BY <2>3 DEF processInlineBuffer
    <3>2. eol \in 1..(Len(queryBuf) - 1)
      BY <1>1, <2>3, LineEndFacts
    <3> HIDE DEF eol
    <3>3. eol - 1 \in 0..Len(queryBuf) /\ eol + 2 \in Nat \ {0} /\ 1 \in Nat \ {0}
      BY <1>1, <3>2
    <3>4. SubSeq(queryBuf, 1, eol - 1) \in Seq(Symbols)
      BY <1>1, <3>3, SubSeqFacts
    <3>5. words \in Seq(Seq(Symbols))
      BY <3>4, WordsTyped
    <3>6. queryBuf' \in Seq(Symbols)
      BY <1>1, <3>1, <3>3, FromFacts
    <3>7. parser' = "parse"
      BY <3>1 DEF processInlineBuffer
    <3> HIDE DEF words
    <3> QED BY <1>1, <3>1, <3>5, <3>6, <3>7
  <2> QED BY <2>1, <2>2, <2>3
<1> QED BY <1>2 DEF RequestParserTypeOK, processInlineBuffer, sentVars

LEMMA LenTyped == RequestParserTypeOK /\ analyseMultiBulkLen => RequestParserTypeOK'
<1> SUFFICES ASSUME RequestParserTypeOK, analyseMultiBulkLen PROVE RequestParserTypeOK'
  OBVIOUS
<1> DEFINE eol == LineEnd(queryBuf, 1)
           n   == Number(SubSeq(queryBuf, 1, eol - 1))
<1>1. queryBuf \in Seq(Symbols) /\ closing \in BOOLEAN /\ parser \in {"idle", "parse", "bulks", "crashed"}
      /\ argv \in Seq(Seq(Symbols)) /\ allocated \in BOOLEAN /\ multiBulkLen \in 0..PROTO_REQ_MULTIBULK_MAX_LEN
      /\ isMultiBulk' = TRUE
  BY DEF RequestParserTypeOK, analyseMultiBulkLen
<1>2. /\ queryBuf' \in Seq(Symbols) /\ closing' \in BOOLEAN /\ parser' \in {"idle", "bulks", "crashed"}
      /\ argv' \in Seq(Seq(Symbols)) /\ allocated' \in BOOLEAN
      /\ multiBulkLen' \in 0..PROTO_REQ_MULTIBULK_MAX_LEN
  <2>1. CASE eol = 0
    <3>1. WaitForLine /\ UNCHANGED <<argv, allocated, multiBulkLen>>
      BY <2>1 DEF analyseMultiBulkLen
    <3> QED BY <1>1, <3>1, WaitTyped
  <2>2. CASE eol # 0
    <3>1. eol \in 1..(Len(queryBuf) - 1)
      BY <1>1, <2>2, LineEndFacts
    <3> HIDE DEF eol
    <3>2. eol - 1 \in 0..Len(queryBuf) /\ eol + 2 \in Nat \ {0} /\ 1 \in Nat \ {0} /\ eol \in Nat
      BY <1>1, <3>1
    <3>3. n \in Int
      BY <1>1, <3>2, SubSeqFacts, NumberTyped
    <3>4. CASE BadLength(n)
      <4>1. setProtocolError(queryBuf, eol) /\ UNCHANGED <<argv, allocated, multiBulkLen>>
        BY <2>2, <3>4 DEF analyseMultiBulkLen, eol
      <4> QED BY <1>1, <3>2, <4>1, ErrorTyped
    <3>5. CASE ~BadLength(n)
      <4>1. /\ queryBuf' = From(queryBuf, eol + 2) /\ parser' = "bulks" /\ UNCHANGED closing
            /\ IF n < 0 THEN UNCHANGED <<argv, allocated, multiBulkLen>> ELSE allocArgv /\ multiBulkLen' = n
        BY <2>2, <3>5 DEF analyseMultiBulkLen, eol
      <4>2. queryBuf' \in Seq(Symbols)
        BY <1>1, <3>2, <4>1, FromFacts
      <4>3. n <= PROTO_REQ_MULTIBULK_MAX_LEN
        BY <3>3, <3>5, RequestParserAssumption DEF BadLength
      <4> HIDE DEF n
      <4>4. argv' \in Seq(Seq(Symbols)) /\ allocated' \in BOOLEAN
            /\ multiBulkLen' \in 0..PROTO_REQ_MULTIBULK_MAX_LEN
        <5>1. CASE n < 0
          BY <1>1, <4>1, <5>1
        <5>2. CASE ~(n < 0)
          <6>1. << >> \in Seq(Seq(Symbols))
            OBVIOUS
          <6> QED BY <3>3, <4>1, <4>3, <5>2, <6>1, RequestParserAssumption DEF allocArgv
        <5> QED BY <5>1, <5>2
      <4> QED BY <1>1, <4>1, <4>2, <4>4
    <3> QED BY <3>4, <3>5
  <2> QED BY <2>1, <2>2
<1> QED BY <1>1, <1>2 DEF RequestParserTypeOK, analyseMultiBulkLen, sentVars

LEMMA BulkTyped == RequestParserTypeOK /\ analyseBulk => RequestParserTypeOK'
<1> SUFFICES ASSUME RequestParserTypeOK, analyseBulk PROVE RequestParserTypeOK'
  OBVIOUS
<1> DEFINE eol   == LineEnd(queryBuf, 2)
           n     == Number(SubSeq(queryBuf, 1, eol - 1))
           valid == n \in 0..PROTO_REQ_BULK_MAX_LEN
           rest  == IF valid THEN queryBuf ELSE From(queryBuf, eol + 2)
           begin == eol + 2
           end   == LineEnd(rest, begin)
<1>1. queryBuf \in Seq(Symbols) /\ closing \in BOOLEAN /\ parser = "bulks" /\ argv \in Seq(Seq(Symbols))
  BY DEF RequestParserTypeOK, analyseBulk
<1>2. /\ queryBuf' \in Seq(Symbols) /\ closing' \in BOOLEAN /\ parser' \in {"idle", "bulks", "crashed"}
      /\ argv' \in Seq(Seq(Symbols))
  <2>1. CASE queryBuf = << >>
    BY <1>1, <2>1 DEF analyseBulk
  <2>2. CASE queryBuf # << >> /\ Head(queryBuf)[1] # "$"
    <3>1. setProtocolError(queryBuf, 1) /\ UNCHANGED argv
      BY <2>2 DEF analyseBulk
    <3> QED BY <1>1, <3>1, ErrorTyped
  <2>3. CASE queryBuf # << >> /\ ~(Head(queryBuf)[1] # "$") /\ eol = 0
    <3>1. WaitForLine /\ UNCHANGED argv
      BY <2>3 DEF analyseBulk
    <3> QED BY <1>1, <3>1, WaitTyped
  <2>4. CASE queryBuf # << >> /\ ~(Head(queryBuf)[1] # "$") /\ eol # 0
    <3>0. eol \in 2..(Len(queryBuf) - 1)
      BY <1>1, <2>4, LineEndFacts
    <3>1. IF end = 0
          THEN /\ parser' = "idle" /\ queryBuf' = rest /\ closing' = (closing \/ ~valid) /\ UNCHANGED argv
          ELSE IF end - begin # (IF n = NotANumber THEN 0 ELSE n)
          THEN setProtocolError(rest, end) /\ UNCHANGED argv
          ELSE /\ argv' = Append(argv, SubSeq(rest, begin, end - 1))
               /\ queryBuf' = From(rest, end + 2)
               /\ closing' = (closing \/ ~valid) /\ UNCHANGED parser
      BY <2>4 DEF analyseBulk
    <3> HIDE DEF eol
    <3>2. begin \in Nat \ {0} /\ eol + 2 \in Nat \ {0}
      BY <1>1, <3>0
    <3>3. rest \in Seq(Symbols)
      <4>1. From(queryBuf, eol + 2) \in Seq(Symbols)
        BY <1>1, <3>2, FromFacts
      <4> HIDE DEF valid
      <4> QED BY <1>1, <4>1
    <3> HIDE DEF rest, begin, n
    <3>4. end = 0 \/ end \in begin..(Len(rest) - 1)
      BY <3>2, <3>3, LineEndFacts
    <3>5. Len(rest) \in Nat
      BY <3>3
    <3> HIDE DEF valid, end
    <3>6. CASE end = 0
      BY <1>1, <3>1, <3>3, <3>6
    <3>7. CASE end # 0 /\ setProtocolError(rest, end) /\ UNCHANGED argv
      <4>1. end \in Nat
        BY <3>2, <3>4
      <4> QED BY <1>1, <3>3, <3>7, <4>1, ErrorTyped
    <3>8. CASE /\ end # 0 /\ argv' = Append(argv, SubSeq(rest, begin, end - 1))
               /\ queryBuf' = From(rest, end + 2) /\ closing' = (closing \/ ~valid) /\ UNCHANGED parser
      <4>1. end - 1 \in 0..Len(rest) /\ end + 2 \in Nat \ {0}
        BY <3>2, <3>4, <3>5, <3>8
      <4>2. SubSeq(rest, begin, end - 1) \in Seq(Symbols)
        BY <3>2, <3>3, <4>1, SubSeqFacts
      <4>3. queryBuf' \in Seq(Symbols)
        BY <3>3, <3>8, <4>1, FromFacts
      <4> DEFINE s == SubSeq(rest, begin, end - 1)
      <4> HIDE DEF s
      <4>4. argv' \in Seq(Seq(Symbols))
        <5>1. s \in Seq(Symbols) /\ argv' = Append(argv, s)
          BY <3>8, <4>2 DEF s
        <5> QED BY <1>1, <5>1
      <4> QED BY <1>1, <3>8, <4>3, <4>4
    <3> QED BY <3>1, <3>6, <3>7, <3>8
  <2> QED BY <2>1, <2>2, <2>3, <2>4
<1> QED BY <1>2 DEF RequestParserTypeOK, analyseBulk, sentVars

LEMMA ContinueTyped == RequestParserTypeOK /\ continueMultiBulk => RequestParserTypeOK'
BY DEF RequestParserTypeOK, continueMultiBulk, sentVars

LEMMA EndsTyped == RequestParserTypeOK /\ MultiBulkEnds => RequestParserTypeOK'
<1> SUFFICES ASSUME RequestParserTypeOK, MultiBulkEnds PROVE RequestParserTypeOK'
  OBVIOUS
<1>1. 0 \in 0..PROTO_REQ_MULTIBULK_MAX_LEN
  BY RequestParserAssumption
<1>2. CASE parser' = "parse" /\ multiBulkLen' = 0 /\ isMultiBulk' = FALSE
  BY <1>1, <1>2 DEF RequestParserTypeOK, MultiBulkEnds, sentVars
<1>3. CASE parser' = "crashed" /\ UNCHANGED <<multiBulkLen, isMultiBulk>>
  BY <1>3 DEF RequestParserTypeOK, MultiBulkEnds, sentVars
<1> QED BY <1>2, <1>3 DEF MultiBulkEnds

LEMMA DealTyped == RequestParserTypeOK /\ dealWithCommand => RequestParserTypeOK'
<1> SUFFICES ASSUME RequestParserTypeOK, dealWithCommand PROVE RequestParserTypeOK'
  OBVIOUS
<1>1. argv \in Seq(Seq(Symbols)) /\ executed \in Seq(Seq(Seq(Symbols)))
  BY DEF RequestParserTypeOK
<1>2. executed' \in Seq(Seq(Seq(Symbols)))
  <2>1. CASE UNCHANGED executed
    BY <1>1, <2>1
  <2>2. CASE executed' = Append(executed, argv)
    <3> DEFINE S == Seq(Seq(Symbols))
    <3> HIDE DEF S
    <3>1. argv \in S /\ executed \in Seq(S)
      BY <1>1 DEF S
    <3>2. executed' \in Seq(S)
      BY <2>2, <3>1
    <3> QED BY <3>2 DEF S
  <2> QED BY <2>1, <2>2 DEF dealWithCommand
<1> QED BY <1>2 DEF RequestParserTypeOK, dealWithCommand, sentVars

LEMMA StepTyped == RequestParserTypeOK /\ [RequestParserNext]_parserVars => RequestParserTypeOK'
<1>1. RequestParserTypeOK /\ UNCHANGED parserVars => RequestParserTypeOK'
  BY DEF RequestParserTypeOK, parserVars
<1> QED BY <1>1, SendTyped, ReceiveTyped, ReadTyped, InlineTyped, LenTyped, ContinueTyped, BulkTyped,
           EndsTyped, DealTyped DEF RequestParserNext

(* The query buffer and the argv of a client, and the histories of the     *)
(* model, hold symbols, sequences of symbols and lengths within the limits *)
(* of analyseMultiBulkLen, whatever a client sends.                        *)
THEOREM RequestsTyped == RequestParserSpec => []RequestParserTypeOK
BY InitTyped, StepTyped, PTL DEF RequestParserSpec
-----------------------------------------------------------------------------
(* The bytes that have come and are not yet taken: the symbols p + 1 to g  *)
(* of s.                                                                   *)

LEMMA PieceFacts ==
  ASSUME NEW s \in Seq(Symbols), NEW g \in 0..Len(s), NEW p \in 0..g
  PROVE  /\ SubSeq(s, p + 1, g) \in Seq(Symbols) /\ Len(SubSeq(s, p + 1, g)) = g - p
         /\ \A q \in 1..(g - p) : SubSeq(s, p + 1, g)[q] = s[p + q]
         /\ SubSeq(s, p + 1, g) = << >> <=> p = g
<1> DEFINE r == SubSeq(s, p + 1, g)
<1>1. p \in Nat /\ g \in Nat /\ p <= g /\ p + 1 \in Nat \ {0} /\ g + 1 - (p + 1) = g - p
  OBVIOUS
<1>2. /\ r \in Seq(Symbols) /\ Len(r) = IF p + 1 <= g THEN g + 1 - (p + 1) ELSE 0
      /\ \A q \in 1..(g + 1 - (p + 1)) : r[q] = s[p + 1 + q - 1]
  BY <1>1, SubSeqFacts
<1> HIDE DEF r
<1>3. Len(r) = g - p
  BY <1>1, <1>2
<1>4. ASSUME NEW q \in 1..(g - p) PROVE r[q] = s[p + q]
  <2>1. p + 1 + q - 1 = p + q
    BY <1>1
  <2> QED BY <1>1, <1>2, <2>1
<1>5. r = << >> <=> p = g
  <2>1. r = << >> <=> Len(r) = 0
    BY <1>2, EmptySeq, LenProperties
  <2> QED BY <1>1, <1>3, <2>1
<1> QED BY <1>2, <1>3, <1>4, <1>5 DEF r

LEMMA PieceTaken ==
  ASSUME NEW s \in Seq(Symbols), NEW g \in 0..Len(s), NEW p \in 0..g, NEW d \in 0..(g - p)
  PROVE  From(SubSeq(s, p + 1, g), d + 1) = SubSeq(s, (p + d) + 1, g)
<1> DEFINE r == SubSeq(s, p + 1, g)
           t == SubSeq(s, (p + d) + 1, g)
<1>1. /\ p \in Nat /\ g \in Nat /\ d \in Nat /\ p + d \in 0..g /\ p <= g /\ d <= g - p
  OBVIOUS
<1>2. r \in Seq(Symbols) /\ Len(r) = g - p /\ \A q \in 1..(g - p) : r[q] = s[p + q]
  BY PieceFacts
<1>3. t \in Seq(Symbols) /\ Len(t) = g - (p + d) /\ \A q \in 1..(g - (p + d)) : t[q] = s[(p + d) + q]
  BY <1>1, PieceFacts
<1> DEFINE f == From(r, d + 1)
<1>4. f \in Seq(Symbols) /\ Len(f) = g - (p + d) /\ \A q \in 1..(g - (p + d)) : f[q] = r[d + q]
  <2> DEFINE n == g - p
  <2>1. d + 1 \in Nat \ {0} /\ n \in 0..Len(r) /\ n = Len(r)
    <3> HIDE DEF r
    <3> QED BY <1>1, <1>2
  <2> HIDE DEF r, n
  <2>2. /\ SubSeq(r, d + 1, n) \in Seq(Symbols)
        /\ Len(SubSeq(r, d + 1, n)) = IF d + 1 <= n THEN n + 1 - (d + 1) ELSE 0
        /\ \A q \in 1..(n + 1 - (d + 1)) : SubSeq(r, d + 1, n)[q] = r[d + 1 + q - 1]
    BY <1>2, <2>1, SubSeqFacts
  <2>3. f = SubSeq(r, d + 1, n)
    BY <2>1 DEF From
  <2>4. n + 1 - (d + 1) = g - (p + d) /\ (~(d + 1 <= n) => g - (p + d) = 0)
    BY <1>1 DEF n
  <2>5. ASSUME NEW q \in 1..(g - (p + d)) PROVE f[q] = r[d + q]
    <3>1. d + 1 + q - 1 = d + q
      BY <1>1
    <3> QED BY <2>2, <2>3, <2>4, <3>1
  <2> HIDE DEF f
  <2>6. Len(f) = g - (p + d)
    BY <2>2, <2>3, <2>4
  <2> QED BY <2>2, <2>3, <2>5, <2>6
<1> HIDE DEF r, t, f
<1>5. ASSUME NEW q \in 1..(g - (p + d)) PROVE f[q] = t[q]
  <2>1. d + q \in 1..(g - p) /\ p + (d + q) = (p + d) + q
    BY <1>1
  <2> QED BY <1>2, <1>3, <1>4, <2>1
<1>6. f = t
  BY <1>3, <1>4, <1>5, SeqEqual
<1> QED BY <1>6 DEF r, t, f

LEMMA PieceGrows ==
  ASSUME NEW s \in Seq(Symbols), NEW g \in 0..Len(s), NEW p \in 0..g, NEW n \in g..Len(s)
  PROVE  SubSeq(s, p + 1, g) \o SubSeq(s, g + 1, n) = SubSeq(s, p + 1, n)
<1> DEFINE a == SubSeq(s, p + 1, g)
           b == SubSeq(s, g + 1, n)
           c == SubSeq(s, p + 1, n)
<1>1. p \in Nat /\ g \in Nat /\ n \in Nat /\ n \in 0..Len(s) /\ g \in 0..n /\ p \in 0..n /\ p <= g /\ g <= n
  OBVIOUS
<1>2. a \in Seq(Symbols) /\ Len(a) = g - p /\ \A q \in 1..(g - p) : a[q] = s[p + q]
  BY PieceFacts
<1>3. b \in Seq(Symbols) /\ Len(b) = n - g /\ \A q \in 1..(n - g) : b[q] = s[g + q]
  BY <1>1, PieceFacts
<1>4. c \in Seq(Symbols) /\ Len(c) = n - p /\ \A q \in 1..(n - p) : c[q] = s[p + q]
  BY <1>1, PieceFacts
<1> DEFINE x == g - p
           y == n - g
<1>5. x = Len(a) /\ y = Len(b) /\ a \in Seq(Symbols) /\ b \in Seq(Symbols)
  BY <1>2, <1>3
<1> HIDE DEF a, b, c
<1>6. /\ a \o b \in Seq(Symbols) /\ Len(a \o b) = x + y
      /\ \A q \in 1..x : (a \o b)[q] = a[q]
      /\ \A q \in 1..y : (a \o b)[x + q] = b[q]
  <2> HIDE DEF x, y
  <2> QED BY <1>5, ConcatFacts
<1>7. ASSUME NEW q \in 1..(n - p) PROVE (a \o b)[q] = c[q]
  <2>1. CASE q <= x
    <3>1. q \in 1..x
      BY <1>1, <2>1
    <3> QED BY <1>2, <1>4, <1>6, <3>1
  <2>2. CASE ~(q <= x)
    <3>1. q - x \in 1..y /\ x + (q - x) = q /\ g + (q - x) = p + q
      BY <1>1, <2>2
    <3>2. (a \o b)[x + (q - x)] = b[q - x] /\ b[q - x] = s[g + (q - x)] /\ c[q] = s[p + q]
      BY <1>3, <1>4, <1>6, <3>1
    <3> HIDE DEF x, y
    <3> QED BY <3>1, <3>2
  <2> QED BY <2>1, <2>2
<1>8. x + y = n - p
  BY <1>1
<1> DEFINE ab == a \o b
<1>9. ab \in Seq(Symbols) /\ Len(ab) = n - p /\ \A q \in 1..(n - p) : ab[q] = c[q]
  BY <1>6, <1>7, <1>8
<1> HIDE DEF ab
<1>10. ab = c
  BY <1>4, <1>9, SeqEqual
<1> QED BY <1>10 DEF a, b, c, ab
-----------------------------------------------------------------------------
(* Wherever the network cuts them                                          *)

At(p, bytes) ==
  /\ p + Len(bytes) <= Len(sent)
  /\ \A q \in 1..Len(bytes) : sent[p + q] = bytes[q]
Holds(k, bytes) == At(Ends(k - 1), bytes) /\ Ends(k) = Ends(k - 1) + Len(bytes)

(* What a sane client has sent is its requests, one behind the other.      *)
Laid ==
  /\ Ends(Len(requests)) = Len(sent)
  /\ sane => \A k \in 1..Len(requests) :
       \/ requests[k].args \in BulkRequests /\ Holds(k, InBulks(requests[k].args))
       \/ requests[k].args \in InlineRequests /\ Holds(k, InLine(requests[k].args))

Rest(p) == SubSeq(sent, p + 1, got)

(* The parser has taken the first k requests whole and nothing of the next.*)
AtRequest(k) ==
  /\ multiBulkLen = 0 /\ parser # "bulks"
  /\ Ends(k) <= got /\ queryBuf = Rest(Ends(k))
  /\ k > 0 => argv = requests[k].args
  /\ isMultiBulk => queryBuf # << >> /\ Head(queryBuf)[1] = "*"
  /\ parser = "parse" /\ queryBuf = << >> => k > 0

(* It has taken the header of request k + 1 and the arguments in argv.     *)
InRequest(k) ==
  LET args == requests[k + 1].args
      n    == Len(argv)
      p    == Ends(k) + Layout(args)[n]
  IN /\ k < Len(requests) /\ args \in BulkRequests /\ Holds(k + 1, InBulks(args))
     /\ multiBulkLen = Len(args) /\ isMultiBulk
     /\ n <= Len(args) /\ (parser # "bulks" => n < Len(args))
     /\ \A i \in 1..n : argv[i] = args[i]
     /\ p <= got /\ queryBuf = Rest(p)
     /\ parser = "parse" => queryBuf # << >>

(* The commands that were run are those of the requests at[1], at[2], ...  *)
LastRun(at) == IF executed = << >> THEN 0 ELSE at[Len(executed)]
Ran(k, at) ==
  /\ at \in Increasing(Len(executed), k)
  /\ \A i \in DOMAIN executed : executed[i] = requests[at[i]].args
  /\ parser = "parse" /\ queryBuf = << >> => LastRun(at) < k
  /\ parser = "idle" /\ got = Ends(k) /\ k > 0 => LastRun(at) = k

Reads(k) ==
  /\ AtRequest(k) \/ InRequest(k)
  /\ parser = "idle" /\ k < Len(requests) => got < Ends(k + 1)
  /\ \E at : Ran(k, at)
Reading == sane /\ ~closing /\ parser # "crashed" => \E k \in 0..Len(requests) : Reads(k)

LEMMA SendFacts ==
  ASSUME RequestParserTypeOK, NEW bytes \in Seq(Symbols), NEW args, Sent(bytes, args),
         NEW CONSTANT K, K = Len(requests)
  PROVE  /\ K \in Nat /\ Len(requests') = K + 1
         /\ \A k \in 1..K : requests'[k] = requests[k] /\ requests[k].ends \in Nat
         /\ requests'[K + 1].args = args
         /\ \A k \in 0..K : Ends(k)' = Ends(k) /\ Ends(k) \in Nat
         /\ Ends(K + 1)' = Len(sent') /\ Len(sent') = Len(sent) + Len(bytes)
         /\ Len(sent) \in Nat /\ Len(bytes) \in Nat
         /\ \A q \in 1..Len(sent) : sent'[q] = sent[q]
         /\ \A q \in 1..Len(bytes) : sent'[Len(sent) + q] = bytes[q]
<1> DEFINE S == [args : Seq(Seq(Symbols)), ends : Nat]
           r == [args |-> args, ends |-> Len(sent')]
<1>1. sent \in Seq(Symbols) /\ requests \in Seq(S) /\ sent' = sent \o bytes /\ requests' = Append(requests, r)
  BY DEF RequestParserTypeOK, Sent
<1>2. /\ K \in Nat /\ Len(requests') = K + 1 /\ requests'[K + 1] = r
      /\ \A k \in 1..K : requests'[k] = requests[k] /\ requests[k] \in S
  <2> HIDE DEF S, r
  <2> QED BY <1>1
<1>3. \A k \in 1..K : requests[k].ends \in Nat
  BY <1>2
<1>4. \A k \in 0..K : Ends(k)' = Ends(k) /\ Ends(k) \in Nat
  <2>1. ASSUME NEW k \in 0..K, k # 0 PROVE requests'[k] = requests[k] /\ requests[k].ends \in Nat
    <3>1. k \in 1..K
      BY <2>1
    <3> QED BY <1>2, <1>3, <3>1
  <2> QED BY <2>1 DEF Ends
<1>5. Ends(K + 1)' = Len(sent')
  <2>1. K + 1 # 0
    BY <1>2
  <2>2. r.ends = Len(sent')
    OBVIOUS
  <2> HIDE DEF r
  <2> QED BY <1>2, <2>1, <2>2 DEF Ends
<1>6. requests'[K + 1].args = args
  BY <1>2
<1>7. /\ Len(sent') = Len(sent) + Len(bytes) /\ Len(sent) \in Nat /\ Len(bytes) \in Nat
      /\ \A q \in 1..Len(sent) : sent'[q] = sent[q]
      /\ \A q \in 1..Len(bytes) : sent'[Len(sent) + q] = bytes[q]
  <2> DEFINE m == Len(sent)
             n == Len(bytes)
  <2>1. m = Len(sent) /\ n = Len(bytes)
    OBVIOUS
  <2> HIDE DEF m, n
  <2>2. /\ Len(sent') = m + n /\ m \in Nat /\ n \in Nat
        /\ \A q \in 1..m : sent'[q] = sent[q]
        /\ \A q \in 1..n : sent'[m + q] = bytes[q]
    BY <1>1, <2>1, ConcatFacts
  <2> QED BY <2>2 DEF m, n
<1> QED BY <1>2, <1>3, <1>4, <1>5, <1>6, <1>7

LEMMA AtStays ==
  ASSUME RequestParserTypeOK, NEW bytes \in Seq(Symbols), NEW args, Sent(bytes, args),
         NEW CONSTANT p \in Nat, NEW CONSTANT b, Len(b) \in Nat, At(p, b)
  PROVE  At(p, b)'
<1> DEFINE K == Len(requests)
<1>1. /\ Len(sent') = Len(sent) + Len(bytes) /\ Len(sent) \in Nat /\ Len(bytes) \in Nat
      /\ \A q \in 1..Len(sent) : sent'[q] = sent[q]
  BY SendFacts
<1>2. ASSUME NEW q \in 1..Len(b) PROVE sent'[p + q] = b[q]
  <2>1. p + q \in 1..Len(sent)
    BY <1>1 DEF At
  <2> QED BY <1>1, <2>1 DEF At
<1>3. p + Len(b) <= Len(sent')
  BY <1>1 DEF At
<1> QED BY <1>2, <1>3 DEF At

LEMMA HoldsStays ==
  ASSUME RequestParserTypeOK, NEW bytes \in Seq(Symbols), NEW args, Sent(bytes, args),
         NEW CONSTANT K, K = Len(requests), NEW CONSTANT k \in 1..K, NEW CONSTANT b \in Seq(Symbols), Holds(k, b)
  PROVE  Holds(k, b)'
<1>1. K \in Nat /\ \A j \in 0..K : Ends(j)' = Ends(j) /\ Ends(j) \in Nat
  BY SendFacts
<1>2. k \in 0..K /\ k - 1 \in 0..K /\ Len(b) \in Nat
  BY <1>1
<1>3. PICK p \in Nat : p = Ends(k - 1)
  BY <1>1, <1>2
<1>4. At(p, b) /\ Ends(k) = p + Len(b)
  BY <1>3 DEF Holds
<1>5. At(p, b)'
  BY <1>2, <1>4, AtStays
<1>6. Ends(k - 1)' = p /\ Ends(k)' = p + Len(b)
  BY <1>1, <1>2, <1>3, <1>4
<1> QED BY <1>5, <1>6 DEF Holds, At

LEMMA HoldsNew ==
  ASSUME RequestParserTypeOK, Ends(Len(requests)) = Len(sent),
         NEW CONSTANT bytes \in Seq(Symbols), NEW args, Sent(bytes, args),
         NEW CONSTANT K, K = Len(requests)
  PROVE  Holds(K + 1, bytes)'
<1>1. /\ K \in Nat /\ Ends(K)' = Len(sent) /\ Ends(K + 1)' = Len(sent') /\ Len(sent') = Len(sent) + Len(bytes)
      /\ Len(sent) \in Nat /\ Len(bytes) \in Nat
      /\ \A q \in 1..Len(bytes) : sent'[Len(sent) + q] = bytes[q]
  <2>1. /\ K \in Nat /\ \A k \in 0..K : Ends(k)' = Ends(k)
        /\ Ends(K + 1)' = Len(sent') /\ Len(sent') = Len(sent) + Len(bytes)
        /\ Len(sent) \in Nat /\ Len(bytes) \in Nat
        /\ \A q \in 1..Len(bytes) : sent'[Len(sent) + q] = bytes[q]
    BY SendFacts
  <2>2. Ends(K)' = Ends(K)
    BY <2>1
  <2> QED BY <2>1, <2>2
<1>2. (K + 1) - 1 = K
  BY <1>1
<1>3. Len(sent) + Len(bytes) <= Len(sent')
  BY <1>1
<1> QED BY <1>1, <1>2, <1>3 DEF Holds, At

LEMMA InitLaid == RequestParserInit => Laid
<1> SUFFICES ASSUME RequestParserInit PROVE Laid
  OBVIOUS
<1>1. Len(requests) = 0 /\ Len(sent) = 0
  BY DEF RequestParserInit
<1> QED BY <1>1 DEF Laid, Ends

LEMMA LaidStays ==
  ASSUME RequestParserTypeOK, Laid, NEW bytes \in Seq(Symbols), NEW args, Sent(bytes, args),
         sane' => sane /\ \/ args \in BulkRequests /\ bytes = InBulks(args)
                          \/ args \in InlineRequests /\ bytes = InLine(args)
  PROVE  Laid'
<1> PICK K : K = Len(requests)
  OBVIOUS
<1>1. /\ K \in Nat /\ Len(requests') = K + 1
      /\ \A k \in 1..K : requests'[k] = requests[k]
      /\ requests'[K + 1].args = args /\ Ends(K + 1)' = Len(sent')
  BY SendFacts
<1>2. Ends(Len(requests))' = Len(sent')
  BY <1>1 DEF Ends
<1>3. ASSUME sane', NEW k \in 1..Len(requests')
      PROVE  \/ requests'[k].args \in BulkRequests /\ Holds(k, InBulks(requests[k].args))'
             \/ requests'[k].args \in InlineRequests /\ Holds(k, InLine(requests[k].args))'
  <2>1. CASE k \in 1..K
    <3>1. requests'[k] = requests[k]
      BY <1>1, <2>1
    <3>2. CASE requests[k].args \in BulkRequests /\ Holds(k, InBulks(requests[k].args))
      <4>1. PICK b \in Seq(Symbols) : b = InBulks(requests[k].args)
        BY <3>2, RequestTyped
      <4>2. Holds(k, b)'
        BY <2>1, <3>2, <4>1, HoldsStays
      <4>3. b = InBulks(requests[k].args)'
        BY <3>1, <4>1
      <4> QED BY <3>1, <3>2, <4>2, <4>3 DEF Holds, At
    <3>3. CASE requests[k].args \in InlineRequests /\ Holds(k, InLine(requests[k].args))
      <4>1. PICK b \in Seq(Symbols) : b = InLine(requests[k].args)
        BY <3>3, RequestTyped
      <4>2. Holds(k, b)'
        BY <2>1, <3>3, <4>1, HoldsStays
      <4>3. b = InLine(requests[k].args)'
        BY <3>1, <4>1
      <4> QED BY <3>1, <3>3, <4>2, <4>3 DEF Holds, At
    <3>4. k \in 1..Len(requests)
      BY <2>1
    <3> QED BY <1>3, <3>2, <3>3, <3>4 DEF Laid
  <2>2. CASE k = K + 1
    <3>1. PICK b : b = bytes
      OBVIOUS
    <3>2. Holds(k, b)'
      BY <2>2, <3>1, HoldsNew DEF Laid
    <3>3. requests'[k].args = args
      BY <1>1, <2>2
    <3>4. CASE args \in BulkRequests /\ bytes = InBulks(args)
      <4>1. b = InBulks(requests[k].args)'
        BY <3>1, <3>3, <3>4
      <4> QED BY <3>2, <3>3, <3>4, <4>1 DEF Holds, At
    <3>5. CASE args \in InlineRequests /\ bytes = InLine(args)
      <4>1. b = InLine(requests[k].args)'
        BY <3>1, <3>3, <3>5
      <4> QED BY <3>2, <3>3, <3>5, <4>1 DEF Holds, At
    <3> QED BY <1>3, <3>4, <3>5
  <2> QED BY <1>1, <2>1, <2>2
<1> QED BY <1>2, <1>3 DEF Laid

LEMMA SendLaid == RequestParserTypeOK /\ Laid /\ SendRequest => Laid'
<1> SUFFICES ASSUME RequestParserTypeOK, Laid, SendRequest PROVE Laid'
  OBVIOUS
<1>1. ASSUME NEW args \in BulkRequests, Sent(InBulks(args), args), UNCHANGED sane PROVE Laid'
  <2>1. InBulks(args) \in Seq(Symbols)
    BY RequestTyped
  <2> QED BY <1>1, <2>1, LaidStays
<1>2. ASSUME NEW args \in InlineRequests, Sent(InLine(args), args), UNCHANGED sane PROVE Laid'
  <2>1. InLine(args) \in Seq(Symbols)
    BY RequestTyped
  <2> QED BY <1>2, <2>1, LaidStays
<1>3. ASSUME NEW bytes \in Garbage, Sent(bytes, << >>), sane' = FALSE PROVE Laid'
  <2>1. bytes \in Seq(Symbols)
    BY RequestTyped
  <2> QED BY <1>3, <2>1, LaidStays
<1> QED BY <1>1, <1>2, <1>3 DEF SendRequest

LEMMA OthersLaid == Laid /\ UNCHANGED <<sent, requests, sane>> => Laid'
BY DEF Laid, Holds, At, Ends

LEMMA StepLaid == RequestParserTypeOK /\ Laid /\ [RequestParserNext]_parserVars => Laid'
<1> SUFFICES ASSUME RequestParserTypeOK, Laid, [RequestParserNext]_parserVars PROVE Laid'
  OBVIOUS
<1>1. CASE SendRequest
  BY <1>1, SendLaid
<1>2. CASE UNCHANGED <<sent, requests, sane>>
  BY <1>2, OthersLaid
<1> QED BY <1>1, <1>2 DEF RequestParserNext, Receive, ReadQuery, processInlineBuffer, analyseMultiBulkLen,
                      continueMultiBulk, analyseBulk, MultiBulkEnds, dealWithCommand, sentVars, parserVars

(* Where the requests are.                                                 *)
LEMMA EndsFacts ==
  ASSUME RequestParserTypeOK, Laid, sane, NEW k \in 0..Len(requests)
  PROVE  /\ Ends(k) \in Nat /\ Ends(k) <= Len(sent) /\ Len(sent) \in Nat /\ Len(requests) \in Nat
         /\ got \in Nat /\ got <= Len(sent)
         /\ Ends(k) < got => k < Len(requests)
         /\ k < Len(requests) =>
              \/ requests[k + 1].args \in BulkRequests /\ Holds(k + 1, InBulks(requests[k + 1].args))
              \/ requests[k + 1].args \in InlineRequests /\ Holds(k + 1, InLine(requests[k + 1].args))
<1> DEFINE S == [args : Seq(Seq(Symbols)), ends : Nat]
           K == Len(requests)
<1>1. sent \in Seq(Symbols) /\ got \in 0..Len(sent) /\ requests \in Seq(S)
  BY DEF RequestParserTypeOK
<1>2. Len(sent) \in Nat /\ K \in Nat /\ got \in Nat /\ got <= Len(sent)
  BY <1>1
<1>3. \A j \in 0..K : Ends(j) \in Nat
  <2>1. ASSUME NEW j \in 1..K PROVE requests[j].ends \in Nat
    <3>1. requests[j] \in S
      <4> HIDE DEF S
      <4> QED BY <1>1
    <3> QED BY <3>1
  <2>2. \A j \in 0..K : j # 0 => j \in 1..K
    BY <1>2
  <2> QED BY <2>1, <2>2 DEF Ends
<1>4. Ends(k) <= Len(sent)
  <2>1. CASE k = 0
    BY <1>2, <2>1 DEF Ends
  <2>2. CASE k # 0
    <3>1. k \in 1..K /\ k - 1 \in 0..K
      BY <1>2, <2>2
    <3>2. PICK b \in Seq(Symbols) : Holds(k, b)
      BY <3>1, RequestTyped DEF Laid
    <3> QED BY <3>2 DEF Holds, At
  <2> QED BY <2>1, <2>2
<1>5. ASSUME Ends(k) < got PROVE k < K
  <2>1. k # K
    BY <1>2, <1>3, <1>5 DEF Laid
  <2> QED BY <1>2, <2>1
<1>6. k < K => k + 1 \in 1..K
  BY <1>2
<1> QED BY <1>2, <1>3, <1>4, <1>5, <1>6 DEF Laid

LEMMA RestFacts ==
  ASSUME RequestParserTypeOK, NEW p \in 0..got
  PROVE  /\ Rest(p) \in Seq(Symbols) /\ Len(Rest(p)) = got - p
         /\ \A q \in 1..(got - p) : Rest(p)[q] = sent[p + q]
         /\ Rest(p) = << >> <=> p = got
         /\ \A d \in 0..(got - p) : From(Rest(p), d + 1) = Rest(p + d)
<1>1. sent \in Seq(Symbols) /\ got \in 0..Len(sent)
  BY DEF RequestParserTypeOK
<1>2. /\ Rest(p) \in Seq(Symbols) /\ Len(Rest(p)) = got - p
      /\ \A q \in 1..(got - p) : Rest(p)[q] = sent[p + q]
      /\ Rest(p) = << >> <=> p = got
  BY <1>1, PieceFacts DEF Rest
<1>3. \A d \in 0..(got - p) : From(Rest(p), d + 1) = Rest(p + d)
  BY <1>1, PieceTaken DEF Rest
<1> QED BY <1>2, <1>3

LEMMA LastRunFacts ==
  ASSUME executed \in Seq(Seq(Seq(Symbols))), NEW k \in Nat, NEW at, Ran(k, at)
  PROVE  /\ LastRun(at) \in 0..k /\ Len(executed) \in Nat
         /\ executed # << >> => LastRun(at) = at[Len(executed)]
         /\ \A i \in 1..Len(executed) : at[i] \in 1..k /\ at[i] <= LastRun(at)
<1> DEFINE n == Len(executed)
<1>1. n \in Nat /\ (executed = << >> <=> n = 0)
  BY EmptySeq, LenProperties
<1>2. at \in [1..n -> 1..k] /\ \A i, j \in 1..n : i < j => at[i] < at[j]
  BY DEF Ran, Increasing
<1>3. ASSUME NEW i \in 1..n PROVE at[i] \in 1..k /\ at[i] <= at[n] /\ at[n] \in 1..k /\ n # 0
  <2>1. n \in 1..n /\ (i = n \/ i < n)
    BY <1>1
  <2> HIDE DEF n
  <2>2. at[i] \in 1..k /\ at[n] \in 1..k
    BY <1>2, <2>1
  <2>3. at[i] <= at[n]
    <3>1. i < n => at[i] < at[n]
      BY <1>2, <2>1
    <3> QED BY <2>1, <2>2, <3>1
  <2> QED BY <1>1, <2>2, <2>3
<1>4. n # 0 => n \in 1..n
  BY <1>1
<1> HIDE DEF n
<1> QED BY <1>1, <1>3, <1>4 DEF LastRun, n

LEMMA RanStays ==
  ASSUME NEW CONSTANT k \in Nat, NEW CONSTANT at, Ran(k, at), UNCHANGED <<executed, requests, got>>,
         parser' = "parse" /\ queryBuf' = << >> => LastRun(at) < k,
         parser' = "idle" /\ got = Ends(k) /\ k > 0 => LastRun(at) = k
  PROVE  Ran(k, at)'
BY DEF Ran, LastRun, Ends

LEMMA InitReading == RequestParserInit => Reading
<1> SUFFICES ASSUME RequestParserInit PROVE Reading
  OBVIOUS
<1> DEFINE at == [i \in 1..0 |-> 1]
<1>1. /\ Len(requests) = 0 /\ 0 \in 0..Len(requests) /\ Ends(0) = 0 /\ got = 0 /\ sent = << >>
      /\ executed = << >> /\ parser = "idle" /\ multiBulkLen = 0 /\ ~isMultiBulk /\ queryBuf = << >>
  BY DEF RequestParserInit, Ends
<1>2. queryBuf = Rest(0)
  BY <1>1 DEF Rest
<1>3. AtRequest(0)
  BY <1>1, <1>2 DEF AtRequest
<1>4. at \in Increasing(Len(executed), 0)
  BY <1>1 DEF Increasing
<1>5. Ran(0, at)
  <2> HIDE DEF at
  <2>1. DOMAIN executed = {} /\ LastRun(at) = 0
    BY <1>1 DEF LastRun
  <2> QED BY <1>1, <1>4, <2>1 DEF Ran
<1>6. Reads(0)
  <2> HIDE DEF at
  <2> QED BY <1>1, <1>3, <1>5 DEF Reads
<1> QED BY <1>1, <1>6 DEF Reading

LEMMA BytesFacts ==
  /\ \A args \in BulkRequests : InBulks(args) \in Seq(Symbols) /\ Len(InBulks(args)) > 0
  /\ \A args \in InlineRequests : InLine(args) \in Seq(Symbols) /\ Len(InLine(args)) > 0
<1>1. ASSUME NEW args \in BulkRequests PROVE InBulks(args) \in Seq(Symbols) /\ Len(InBulks(args)) > 0
  <2>1. /\ args \in Seq(Seq(Symbols)) /\ args # << >> /\ InBulks(args) \in Seq(Symbols)
        /\ IsLayout(Layout(args), args)
    BY RequestTyped
  <2> DEFINE m == Len(args)
             off == Layout(args)
             l == Len(InBulks(args))
  <2>2. m \in Nat \ {0}
    BY <2>1, EmptySeq, LenProperties
  <2>3. off \in [0..m -> Nat] /\ off[m] = l /\ \A i \in 1..m : off[i] = off[i - 1] + Len(args[i]) + 5
    BY <2>1 DEF IsLayout
  <2>4. Len(args[m]) \in Nat
    <3>1. m \in 1..m
      BY <2>2
    <3>2. args[m] \in Seq(Symbols)
      BY <2>1, <3>1
    <3> QED BY <3>2
  <2> HIDE DEF m, off, l
  <2>5. off[m] = off[m - 1] + Len(args[m]) + 5 /\ off[m - 1] \in Nat
    BY <2>2, <2>3
  <2>6. l > 0
    BY <2>3, <2>4, <2>5
  <2> QED BY <2>1, <2>6 DEF l
<1>2. ASSUME NEW args \in InlineRequests PROVE InLine(args) \in Seq(Symbols) /\ Len(InLine(args)) > 0
  <2>1. InLine(args) \in Seq(Symbols) /\ Len(InLine(args)) - 2 \in Nat \ {0}
    BY InLineFacts
  <2>2. Len(InLine(args)) \in Nat
    BY <2>1
  <2> QED BY <2>1, <2>2
<1> QED BY <1>1, <1>2

LEMMA SendReads ==
  ASSUME RequestParserTypeOK, Laid, NEW CONSTANT bytes \in Seq(Symbols), Len(bytes) > 0, NEW args,
         Sent(bytes, args), sane,
         UNCHANGED <<queryBuf, argv, multiBulkLen, isMultiBulk, got, executed, parser>>,
         NEW CONSTANT K, K = Len(requests), NEW CONSTANT k \in 0..K, Reads(k)
  PROVE  k \in 0..Len(requests)' /\ Reads(k)'
<1>1. /\ K \in Nat /\ Len(requests') = K + 1
      /\ \A j \in 1..K : requests'[j] = requests[j]
      /\ \A j \in 0..K : Ends(j)' = Ends(j) /\ Ends(j) \in Nat
      /\ Ends(K + 1)' = Len(sent') /\ Len(sent') = Len(sent) + Len(bytes)
      /\ Len(sent) \in Nat /\ Len(bytes) \in Nat
      /\ \A q \in 1..Len(sent) : sent'[q] = sent[q]
  BY SendFacts
<1>2. k \in Nat /\ k \in 0..Len(requests') /\ Ends(k)' = Ends(k) /\ Ends(k) \in Nat /\ got \in 0..Len(sent)
      /\ k \in 0..Len(requests)
  BY <1>1 DEF RequestParserTypeOK
<1>3. ASSUME NEW CONSTANT p \in 0..got PROVE Rest(p)' = Rest(p)
  <2>1. sent \in Seq(Symbols) /\ sent' \in Seq(Symbols) /\ got \in 0..Len(sent')
    <3>1. sent \in Seq(Symbols) /\ sent' = sent \o bytes
      BY DEF Sent, RequestParserTypeOK
    <3> QED BY <1>1, <1>2, <3>1
  <2>2. /\ Rest(p) \in Seq(Symbols) /\ Len(Rest(p)) = got - p
        /\ \A q \in 1..(got - p) : Rest(p)[q] = sent[p + q]
    BY RestFacts
  <2> DEFINE r == SubSeq(sent', p + 1, got)
  <2>3. r \in Seq(Symbols) /\ Len(r) = got - p /\ \A q \in 1..(got - p) : r[q] = sent'[p + q]
    BY <2>1, PieceFacts
  <2> HIDE DEF r
  <2>4. ASSUME NEW q \in 1..(got - p) PROVE r[q] = Rest(p)[q]
    <3>1. p + q \in 1..Len(sent)
      BY <1>1, <1>2
    <3> QED BY <1>1, <2>2, <2>3, <3>1
  <2>5. r = Rest(p)
    BY <2>2, <2>3, <2>4, SeqEqual
  <2> QED BY <2>5 DEF r, Rest
<1>4. ASSUME AtRequest(k) PROVE AtRequest(k)'
  <2>1. Ends(k) <= got /\ queryBuf = Rest(Ends(k))
    BY <1>4 DEF AtRequest
  <2>2. PICK p \in 0..got : p = Ends(k)
    BY <1>2, <2>1
  <2>3. queryBuf' = Rest(p)'
    BY <1>3, <2>1, <2>2
  <2>4. queryBuf' = Rest(Ends(k))'
    BY <1>2, <2>2, <2>3 DEF Rest
  <2>5. k > 0 => requests'[k] = requests[k]
    BY <1>1, <1>2
  <2> QED BY <1>2, <1>4, <2>1, <2>4, <2>5 DEF AtRequest
<1>5. ASSUME InRequest(k) PROVE InRequest(k)'
  <2> DEFINE a == requests[k + 1].args
             n == Len(argv)
  <2>1. /\ k < K /\ a \in BulkRequests /\ Holds(k + 1, InBulks(a))
        /\ Ends(k) + Layout(a)[n] <= got /\ queryBuf = Rest(Ends(k) + Layout(a)[n]) /\ n <= Len(a)
    BY <1>5 DEF InRequest
  <2>2. k + 1 \in 1..K /\ requests'[k + 1] = requests[k + 1]
    BY <1>1, <1>2, <2>1
  <2>3. PICK b \in Seq(Symbols) : b = InBulks(a)
    BY <2>1, RequestTyped
  <2>4. Holds(k + 1, b)'
    BY <2>1, <2>2, <2>3, HoldsStays
  <2>5. Holds(k + 1, InBulks(requests[k + 1].args))'
    BY <2>2, <2>3, <2>4 DEF Holds, At
  <2>6. Layout(a)[n] \in Nat
    <3>1. Layout(a) \in [0..Len(a) -> Nat]
      BY <2>1, RequestTyped DEF IsLayout
    <3>2. n \in 0..Len(a)
      <4>1. n \in Nat
        BY DEF RequestParserTypeOK
      <4>2. Len(a) \in Nat
        <5>1. a \in Seq(Seq(Symbols))
          BY <2>1, RequestTyped
        <5> HIDE DEF a
        <5> QED BY <5>1
      <4> HIDE DEF a, n
      <4> QED BY <2>1, <4>1, <4>2
    <3> HIDE DEF a, n
    <3> QED BY <3>1, <3>2
  <2>7. PICK p \in 0..got : p = Ends(k) + Layout(a)[n]
    BY <1>2, <2>1, <2>6
  <2>8. Rest(p)' = Rest(p)
    BY <1>3
  <2>9. Ends(k)' + Layout(requests'[k + 1].args)[n] = p
    BY <1>2, <2>2, <2>7
  <2>10. queryBuf' = Rest(Ends(k) + Layout(requests[k + 1].args)[Len(argv)])'
    BY <2>1, <2>7, <2>8, <2>9 DEF Rest
  <2>11. k < Len(requests')
    BY <1>1, <2>1
  <2> QED BY <1>5, <2>2, <2>5, <2>7, <2>9, <2>10, <2>11 DEF InRequest
<1>6. ASSUME parser = "idle", k < Len(requests') PROVE got < Ends(k + 1)'
  <2>1. CASE k < K
    <3>1. k + 1 \in 0..K
      BY <1>1, <1>2, <2>1
    <3>2. Ends(k + 1)' = Ends(k + 1)
      BY <1>1, <3>1
    <3>3. got < Ends(k + 1)
      BY <1>6, <2>1 DEF Reads
    <3> QED BY <3>2, <3>3
  <2>2. CASE k = K
    <3>1. got < Len(sent')
      BY <1>1, <1>2
    <3> QED BY <1>1, <2>2, <3>1
  <2> QED BY <1>1, <1>6, <2>1, <2>2
<1>7. ASSUME NEW at, Ran(k, at) PROVE Ran(k, at)'
  <2>1. executed \in Seq(Seq(Seq(Symbols)))
    BY DEF RequestParserTypeOK
  <2>2. \A i \in 1..Len(executed) : at[i] \in 1..k
    BY <1>2, <1>7, <2>1, LastRunFacts
  <2>3. ASSUME NEW i \in DOMAIN executed PROVE at[i] \in 1..K
    <3>1. i \in 1..Len(executed)
      BY <2>1
    <3>2. at[i] \in 1..k
      BY <2>2, <3>1
    <3> QED BY <1>1, <3>2
  <2>4. \A i \in DOMAIN executed : requests'[at[i]] = requests[at[i]]
    BY <1>1, <2>3
  <2> QED BY <1>2, <1>7, <2>4 DEF Ran, LastRun
<1> QED BY <1>2, <1>4, <1>5, <1>6, <1>7 DEF Reads

(* How far the arguments of a request in RESP are.                         *)
LEMMA LayoutFacts ==
  ASSUME NEW args \in BulkRequests
  PROVE  /\ Len(args) \in Nat \ {0} /\ args \in Seq(Seq(Symbols)) /\ Layout(args)[0] = 3
         /\ Layout(args)[Len(args)] = Len(InBulks(args)) /\ Len(InBulks(args)) \in Nat
         /\ \A i \in 0..Len(args) : Layout(args)[i] \in Nat /\ 3 <= Layout(args)[i]
         /\ \A i \in 1..Len(args) :
              /\ Len(args[i]) \in Nat /\ Layout(args)[i] = Layout(args)[i - 1] + Len(args[i]) + 5
              /\ Layout(args)[i] <= Len(InBulks(args))
<1> DEFINE m == Len(args)
           off == Layout(args)
           l == Len(InBulks(args))
<1>1. /\ args \in Seq(Seq(Symbols)) /\ args # << >> /\ InBulks(args) \in Seq(Symbols)
      /\ IsLayout(off, args)
  BY RequestTyped
<1>2. m \in Nat \ {0} /\ l \in Nat
  <2>1. m \in Nat \ {0}
    BY <1>1, EmptySeq, LenProperties
  <2> QED BY <1>1, <2>1
<1>3. /\ off \in [0..m -> Nat] /\ off[0] = 3 /\ off[m] = l
      /\ \A i \in 1..m : off[i] = off[i - 1] + Len(args[i]) + 5 /\ off[i] <= l
  BY <1>1 DEF IsLayout
<1>4. ASSUME NEW i \in 1..m PROVE Len(args[i]) \in Nat
  <2>1. args[i] \in Seq(Symbols)
    BY <1>1
  <2> QED BY <2>1
<1> HIDE DEF m, off, l
<1>5. ASSUME NEW i \in 0..m PROVE off[i] \in Nat /\ 3 <= off[i]
  <2>1. CASE i = 0
    BY <1>2, <1>3, <2>1
  <2>2. CASE i # 0
    <3>1. i \in 1..m /\ i - 1 \in 0..m
      BY <1>2, <2>2
    <3> DEFINE c == Len(args[i])
    <3>2. c \in Nat /\ off[i] = off[i - 1] + c + 5 /\ off[i - 1] \in Nat
      BY <1>3, <1>4, <3>1
    <3> HIDE DEF c
    <3> QED BY <3>2
  <2> QED BY <2>1, <2>2
<1> QED BY <1>1, <1>2, <1>3, <1>4, <1>5 DEF m, off, l

LEMMA AtRequestFacts ==
  ASSUME RequestParserTypeOK, Laid, sane, NEW k \in 0..Len(requests), AtRequest(k)
  PROVE  /\ Ends(k) \in 0..got /\ queryBuf = Rest(Ends(k)) /\ queryBuf \in Seq(Symbols)
         /\ Len(queryBuf) = got - Ends(k)
         /\ \A q \in 1..(got - Ends(k)) : queryBuf[q] = sent[Ends(k) + q]
         /\ queryBuf = << >> <=> Ends(k) = got
<1>1. Ends(k) \in Nat /\ got \in Nat /\ Ends(k) <= got /\ queryBuf = Rest(Ends(k))
  BY EndsFacts DEF AtRequest
<1>2. Ends(k) \in 0..got
  BY <1>1
<1> QED BY <1>1, <1>2, RestFacts

LEMMA InRequestFacts ==
  ASSUME RequestParserTypeOK, Laid, sane, NEW k \in 0..Len(requests), InRequest(k),
         NEW args, args = requests[k + 1].args, NEW n, n = Len(argv), NEW p, p = Ends(k) + Layout(args)[n]
  PROVE  /\ k < Len(requests) /\ args \in BulkRequests /\ n \in 0..Len(args) /\ Len(args) \in Nat \ {0}
         /\ Ends(k) \in Nat /\ Ends(k) + 3 <= p /\ p <= Ends(k + 1) /\ Ends(k + 1) = Ends(k) + Len(InBulks(args))
         /\ p \in 0..got /\ queryBuf = Rest(p) /\ queryBuf \in Seq(Symbols) /\ Len(queryBuf) = got - p
         /\ \A q \in 1..(got - p) : queryBuf[q] = sent[p + q]
         /\ queryBuf = << >> <=> p = got
<1>1. /\ k < Len(requests) /\ args \in BulkRequests /\ n <= Len(args) /\ p <= got /\ queryBuf = Rest(p)
      /\ Holds(k + 1, InBulks(args))
  BY DEF InRequest
<1>2. Ends(k) \in Nat /\ got \in Nat
  BY EndsFacts
<1>3. n \in 0..Len(args) /\ Len(args) \in Nat \ {0}
  <2>1. Len(args) \in Nat \ {0}
    BY <1>1, LayoutFacts
  <2>2. n \in Nat
    BY DEF RequestParserTypeOK
  <2> QED BY <1>1, <2>1, <2>2
<1> DEFINE o == Layout(args)[n]
           l == Len(InBulks(args))
<1>4. o \in Nat /\ 3 <= o /\ o <= l /\ l \in Nat
  <2>1. o \in Nat /\ 3 <= o /\ l \in Nat
    BY <1>1, <1>3, LayoutFacts
  <2>2. n # 0 => o <= l
    <3>1. n # 0 => n \in 1..Len(args)
      BY <1>3
    <3> QED BY <1>1, <3>1, LayoutFacts
  <2>3. n = 0 => o <= l
    <3>1. 1 \in 1..Len(args) /\ 1 - 1 = 0
      BY <1>3
    <3> DEFINE f == Layout(args)
               c == Len(args[1])
    <3>2. f[1] = f[1 - 1] + c + 5 /\ f[1] <= l /\ c \in Nat /\ f[0] = 3
      BY <1>1, <3>1, LayoutFacts
    <3> HIDE DEF f, c, l
    <3>3. n = 0 => f[n] <= l
      BY <2>1, <3>1, <3>2
    <3> QED BY <3>3 DEF f
  <2> QED BY <2>1, <2>2, <2>3
<1>5. Ends(k + 1) = Ends(k) + l
  <2>1. (k + 1) - 1 = k
    OBVIOUS
  <2> QED BY <1>1, <2>1 DEF Holds
<1> HIDE DEF o, l
<1>6. p = Ends(k) + o
  BY DEF o
<1>7. p \in 0..got /\ Ends(k) + 3 <= p /\ p <= Ends(k + 1)
  BY <1>1, <1>2, <1>4, <1>5, <1>6
<1>8. /\ Rest(p) \in Seq(Symbols) /\ Len(Rest(p)) = got - p
      /\ \A q \in 1..(got - p) : Rest(p)[q] = sent[p + q]
      /\ Rest(p) = << >> <=> p = got
  BY <1>7, RestFacts
<1> QED BY <1>1, <1>2, <1>3, <1>5, <1>7, <1>8 DEF l

LEMMA ReceiveReads ==
  ASSUME RequestParserTypeOK, Laid, sane, Receive, NEW CONSTANT k \in 0..Len(requests), Reads(k)
  PROVE  Reads(k)'
<1>1. PICK n \in (got + 1)..Len(sent) : queryBuf' = queryBuf \o SubSeq(sent, got + 1, n) /\ got' = n
  BY DEF Receive
<1>2. /\ sent \in Seq(Symbols) /\ got \in 0..Len(sent) /\ got \in Nat /\ n \in Nat /\ n \in got..Len(sent)
      /\ got < n /\ n \in 0..Len(sent)
  BY DEF RequestParserTypeOK
<1>3. /\ parser = "idle" /\ parser' = "parse" /\ Ends(k)' = Ends(k)
      /\ UNCHANGED <<argv, multiBulkLen, isMultiBulk, sent, requests, executed>>
  BY DEF Receive, Ends
<1>4. ASSUME NEW CONSTANT p \in 0..got, queryBuf = Rest(p)
      PROVE  /\ queryBuf' = Rest(p)' /\ queryBuf' # << >>
             /\ queryBuf # << >> => Head(queryBuf') = Head(queryBuf)
  <2>1. queryBuf' = SubSeq(sent, p + 1, n)
    BY <1>1, <1>2, <1>4, PieceGrows DEF Rest
  <2>2. queryBuf' = Rest(p)'
    BY <1>1, <1>3, <2>1 DEF Rest
  <2>3. p \in 0..n /\ p # n /\ 1 \in 1..(n - p)
    BY <1>2
  <2>4. queryBuf' # << >> /\ queryBuf' \in Seq(Symbols) /\ queryBuf'[1] = sent[p + 1]
    BY <1>2, <2>1, <2>3, PieceFacts
  <2>5. queryBuf # << >> => queryBuf \in Seq(Symbols) /\ queryBuf[1] = sent[p + 1]
    <3>1. p # got => 1 \in 1..(got - p)
      BY <1>2
    <3> QED BY <1>4, <3>1, RestFacts
  <2> QED BY <2>2, <2>4, <2>5
<1>5. ASSUME AtRequest(k) PROVE AtRequest(k)'
  <2>1. PICK p \in 0..got : p = Ends(k)
    BY <1>5, AtRequestFacts
  <2>2. queryBuf = Rest(p)
    BY <1>5, <2>1, AtRequestFacts
  <2>3. queryBuf' = Rest(p)' /\ queryBuf' # << >> /\ (queryBuf # << >> => Head(queryBuf') = Head(queryBuf))
    BY <1>4, <2>2
  <2>4. queryBuf' = Rest(Ends(k))' /\ Ends(k)' <= got'
    <3>1. Ends(k)' = p
      BY <1>3, <2>1
    <3>2. p <= got'
      BY <1>1, <1>2
    <3> QED BY <2>3, <3>1, <3>2 DEF Rest
  <2> QED BY <1>3, <1>5, <2>3, <2>4 DEF AtRequest
<1>6. ASSUME InRequest(k) PROVE InRequest(k)'
  <2> DEFINE a == requests[k + 1].args
             q == Ends(k) + Layout(a)[Len(argv)]
  <2>1. q \in 0..got /\ queryBuf = Rest(q)
    BY <1>6, InRequestFacts
  <2>2. PICK p \in 0..got : p = q
    BY <2>1
  <2>3. queryBuf = Rest(p)
    BY <2>1, <2>2
  <2>4. queryBuf' = Rest(p)' /\ queryBuf' # << >>
    BY <1>4, <2>3
  <2>5. q' = p
    BY <1>3, <2>2
  <2>6. q' <= got' /\ queryBuf' = Rest(q)'
    <3>1. p <= got'
      BY <1>1, <1>2
    <3> HIDE DEF q
    <3> QED BY <2>4, <2>5, <3>1 DEF Rest
  <2>7. Holds(k + 1, InBulks(a))' <=> Holds(k + 1, InBulks(a))
    BY <1>3 DEF Holds, At, Ends
  <2> QED BY <1>3, <1>6, <2>4, <2>6, <2>7 DEF InRequest
<1>7. ASSUME NEW at, Ran(k, at) PROVE Ran(k, at)'
  <2>1. queryBuf' # << >>
    <3>1. ASSUME AtRequest(k) PROVE \E p \in 0..got : queryBuf = Rest(p)
      BY <3>1, AtRequestFacts
    <3>2. ASSUME InRequest(k) PROVE \E p \in 0..got : queryBuf = Rest(p)
      BY <3>2, InRequestFacts
    <3> QED BY <1>4, <3>1, <3>2 DEF Reads
  <2> QED BY <1>3, <1>7, <2>1 DEF Ran, LastRun
<1> QED BY <1>3, <1>5, <1>6, <1>7 DEF Reads

LEMMA ReadReads ==
  ASSUME ReadQuery, parser' # "crashed", NEW CONSTANT k \in 0..Len(requests), Reads(k)
  PROVE  Reads(k)'
<1>1. /\ UNCHANGED <<queryBuf, argv, multiBulkLen, isMultiBulk, sent, got, requests, executed>>
      /\ parser = "idle" /\ \/ parser' = "parse" /\ queryBuf # << >>
                            \/ parser' = "idle"
  BY DEF ReadQuery, sentVars
<1>2. Ends(k)' = Ends(k) /\ Ends(k + 1)' = Ends(k + 1)
  BY <1>1 DEF Ends
<1>3. AtRequest(k) => AtRequest(k)'
  BY <1>1, <1>2 DEF AtRequest, Rest
<1>4. InRequest(k) => InRequest(k)'
  BY <1>1, <1>2 DEF InRequest, Rest, Holds, At, Ends
<1>5. \A at : Ran(k, at) => Ran(k, at)'
  BY <1>1, <1>2 DEF Ran, LastRun
<1> QED BY <1>1, <1>2, <1>3, <1>4, <1>5 DEF Reads

LEMMA ContinueReads ==
  ASSUME continueMultiBulk, NEW CONSTANT k \in 0..Len(requests), Reads(k)
  PROVE  Reads(k)'
<1>1. /\ UNCHANGED <<queryBuf, argv, multiBulkLen, sent, got, requests, executed>> /\ isMultiBulk' = TRUE
      /\ parser = "parse" /\ parser' = "bulks" /\ multiBulkLen # 0
  BY DEF continueMultiBulk, sentVars
<1>2. Ends(k)' = Ends(k)
  BY <1>1 DEF Ends
<1>3. InRequest(k)
  BY <1>1 DEF Reads, AtRequest
<1>4. InRequest(k)'
  BY <1>1, <1>2, <1>3 DEF InRequest, Rest, Holds, At, Ends
<1>5. \A at : Ran(k, at) => Ran(k, at)'
  BY <1>1, <1>2 DEF Ran, LastRun
<1> QED BY <1>1, <1>4, <1>5 DEF Reads

LEMMA DealReads ==
  ASSUME RequestParserTypeOK, Laid, sane, dealWithCommand, parser' # "crashed",
         NEW CONSTANT k \in 0..Len(requests), Reads(k)
  PROVE  Reads(k)'
<1>1. /\ UNCHANGED <<queryBuf, argv, multiBulkLen, isMultiBulk, sent, got, requests>>
      /\ parser = "parse" /\ parser' = "idle" /\ queryBuf = << >>
      /\ argv # << >> => executed' = Append(executed, argv)
      /\ argv = << >> => UNCHANGED executed
  BY DEF dealWithCommand, sentVars
<1>2. k \in Nat /\ Ends(k)' = Ends(k) /\ Ends(k + 1)' = Ends(k + 1)
  BY <1>1 DEF Ends
<1>3. AtRequest(k) /\ k > 0 /\ argv = requests[k].args
  BY <1>1 DEF Reads, AtRequest, InRequest
<1>4. AtRequest(k)'
  BY <1>1, <1>2, <1>3 DEF AtRequest, Rest
<1>5. k < Len(requests) => got < Ends(k + 1)
  <2>1. ASSUME k < Len(requests) PROVE Ends(k) < Ends(k + 1)
    <3>1. PICK b : Holds(k + 1, b) /\ Len(b) \in Nat /\ Len(b) > 0
      <4>1. \/ requests[k + 1].args \in BulkRequests /\ Holds(k + 1, InBulks(requests[k + 1].args))
            \/ requests[k + 1].args \in InlineRequests /\ Holds(k + 1, InLine(requests[k + 1].args))
        BY <2>1, EndsFacts
      <4>2. \A b \in Seq(Symbols) : Len(b) \in Nat
        OBVIOUS
      <4> QED BY <4>1, <4>2, BytesFacts
    <3>2. (k + 1) - 1 = k /\ Ends(k) \in Nat
      BY <1>2, EndsFacts
    <3>3. Ends(k + 1) = Ends(k) + Len(b)
      BY <3>1, <3>2 DEF Holds
    <3> QED BY <3>1, <3>2, <3>3
  <2>2. Ends(k) = got
    BY <1>1, <1>3, AtRequestFacts
  <2> QED BY <2>1, <2>2
<1>6. argv # << >>
  <2> DEFINE r == requests[k].args
  <2>1. r \in BulkRequests \/ r \in InlineRequests
    <3>1. k \in 1..Len(requests)
      BY <1>2, <1>3
    <3> QED BY <3>1 DEF Laid
  <2>2. r # << >>
    BY <2>1, LayoutFacts, RequestParserAssumption
  <2> QED BY <1>3, <2>2
<1>7. PICK at : Ran(k, at)
  BY DEF Reads
<1>8. executed \in Seq(Seq(Seq(Symbols))) /\ argv \in Seq(Seq(Symbols))
  BY DEF RequestParserTypeOK
<1> DEFINE n == Len(executed)
           new == [i \in 1..(n + 1) |-> IF i = n + 1 THEN k ELSE at[i]]
<1>9. /\ n \in Nat /\ Len(executed') = n + 1 /\ executed'[n + 1] = argv /\ executed' # << >>
      /\ DOMAIN executed' = 1..(n + 1) /\ \A i \in 1..n : executed'[i] = executed[i]
  <2> DEFINE S == Seq(Seq(Symbols))
  <2> HIDE DEF S
  <2>1. executed \in Seq(S) /\ argv \in S /\ executed' = Append(executed, argv)
    BY <1>1, <1>6, <1>8 DEF S
  <2> QED BY <2>1
<1>10. \A i \in 1..n : at[i] \in 1..k /\ at[i] < k
  <2>1. LastRun(at) < k /\ LastRun(at) \in 0..k
    <3>1. LastRun(at) < k
      BY <1>1, <1>7 DEF Ran
    <3> QED BY <1>2, <1>7, <1>8, <3>1, LastRunFacts
  <2>2. \A i \in 1..n : at[i] \in 1..k /\ at[i] <= LastRun(at)
    BY <1>2, <1>7, <1>8, LastRunFacts
  <2> QED BY <1>2, <2>1, <2>2
<1>11. new \in Increasing(n + 1, k)
  <2>1. \A i \in 1..(n + 1) : i = n + 1 \/ i \in 1..n
    BY <1>9
  <2>2. \A i \in 1..(n + 1) : new[i] \in 1..k
    BY <1>2, <1>3, <1>10, <2>1
  <2>3. ASSUME NEW i \in 1..(n + 1), NEW j \in 1..(n + 1), i < j PROVE new[i] < new[j]
    <3>1. i \in 1..n /\ i # n + 1
      BY <1>9, <2>3
    <3>2. CASE j = n + 1
      BY <1>10, <3>1, <3>2
    <3>3. CASE j # n + 1
      <4>1. j \in 1..n
        BY <2>1, <3>3
      <4>2. at[i] < at[j]
        BY <1>7, <2>3, <3>1, <4>1 DEF Ran, Increasing
      <4> QED BY <3>1, <3>3, <4>2
    <3> QED BY <3>2, <3>3
  <2>4. new \in [1..(n + 1) -> 1..k]
    <3>1. new = [i \in 1..(n + 1) |-> new[i]]
      OBVIOUS
    <3> HIDE DEF new, n
    <3> QED BY <2>2, <3>1
  <2> HIDE DEF new, n
  <2> QED BY <2>3, <2>4 DEF Increasing
<1>12. \A i \in DOMAIN executed' : executed'[i] = requests[new[i]].args
  <2>1. ASSUME NEW i \in 1..(n + 1) PROVE executed'[i] = requests[new[i]].args
    <3>1. CASE i = n + 1
      <4>1. new[i] = k
        BY <3>1
      <4> QED BY <1>3, <1>9, <3>1, <4>1
    <3>2. CASE i # n + 1
      <4>1. i \in 1..n /\ new[i] = at[i] /\ i \in DOMAIN executed
        BY <1>8, <1>9, <3>2
      <4>2. executed[i] = requests[at[i]].args
        BY <1>7, <4>1 DEF Ran
      <4> QED BY <1>9, <4>1, <4>2
    <3> QED BY <3>1, <3>2
  <2> HIDE DEF new, n
  <2> QED BY <1>9, <2>1
<1>13. new[n + 1] = k
  <2>1. n + 1 \in 1..(n + 1)
    BY <1>9
  <2> QED BY <2>1
<1>14. PICK at2 : at2 = new
  OBVIOUS
<1> HIDE DEF new, n
<1>15. Ran(k, at2)'
  <2>1. LastRun(at2)' = k
    BY <1>9, <1>13, <1>14 DEF LastRun
  <2>2. at2 \in Increasing(Len(executed'), k)
    BY <1>9, <1>11, <1>14
  <2>3. \A i \in DOMAIN executed' : executed'[i] = requests'[at2[i]].args
    BY <1>1, <1>12, <1>14
  <2> QED BY <1>1, <2>1, <2>2, <2>3 DEF Ran
<1> QED BY <1>1, <1>2, <1>4, <1>5, <1>15 DEF Reads

LEMMA WaitReads ==
  ASSUME WaitForLine, ~closing'
  PROVE  parser' = "idle" /\ UNCHANGED queryBuf
BY DEF WaitForLine, setProtocolError

(* What comes next in the query buffer.                                    *)
LEMMA Ahead ==
  ASSUME RequestParserTypeOK, Laid, sane, NEW k \in 0..Len(requests), AtRequest(k),
         NEW b \in Seq(Symbols), Holds(k + 1, b)
  PROVE  /\ Ends(k + 1) = Ends(k) + Len(b)
         /\ \A q \in 1..Len(b) : q <= Len(queryBuf) => queryBuf[q] = b[q]
<1>1. (k + 1) - 1 = k
  OBVIOUS
<1>2. Len(queryBuf) = got - Ends(k) /\ \A q \in 1..(got - Ends(k)) : queryBuf[q] = sent[Ends(k) + q]
  BY AtRequestFacts
<1>3. ASSUME NEW q \in 1..Len(b), q <= Len(queryBuf) PROVE queryBuf[q] = b[q]
  <2>1. q \in 1..(got - Ends(k))
    <3>1. got \in Nat /\ Ends(k) \in Nat
      BY EndsFacts
    <3> QED BY <1>2, <1>3, <3>1
  <2> QED BY <1>1, <1>2, <2>1 DEF Holds, At
<1> QED BY <1>1, <1>3 DEF Holds

LEMMA RanNext ==
  ASSUME RequestParserTypeOK, NEW CONSTANT k \in Nat, NEW CONSTANT at, Ran(k, at), UNCHANGED <<executed, requests>>,
         parser' = "parse"
  PROVE  Ran(k + 1, at)'
<1> DEFINE n == Len(executed)
<1>1. executed \in Seq(Seq(Seq(Symbols)))
  BY DEF RequestParserTypeOK
<1>2. LastRun(at) \in 0..k
  BY <1>1, LastRunFacts
<1>3. LastRun(at)' = LastRun(at) /\ LastRun(at) < k + 1
  BY <1>2 DEF LastRun
<1>4. at \in Increasing(n, k) /\ \A i \in DOMAIN executed : executed[i] = requests[at[i]].args
  BY DEF Ran
<1>5. 1..k \subseteq 1..(k + 1)
  OBVIOUS
<1>6. at \in Increasing(n, k + 1)
  <2> HIDE DEF n
  <2>1. at \in [1..n -> 1..(k + 1)]
    BY <1>4, <1>5 DEF Increasing
  <2> QED BY <1>4, <2>1 DEF Increasing
<1> QED BY <1>3, <1>4, <1>6 DEF Ran

LEMMA InlineReads ==
  ASSUME RequestParserTypeOK, Laid, sane, processInlineBuffer, ~closing',
         NEW CONSTANT k \in 0..Len(requests), Reads(k)
  PROVE  \E j \in 0..Len(requests) : Reads(j)'
<1> DEFINE eol   == LineEnd(queryBuf, 1)
           words == Words(SubSeq(queryBuf, 1, eol - 1))
           a     == requests[k + 1].args
<1>1. /\ parser = "parse" /\ queryBuf # << >> /\ ~(Head(queryBuf)[1] = "*") /\ ~isMultiBulk
      /\ IF eol = 0 THEN WaitForLine /\ UNCHANGED <<argv, allocated>>
         ELSE IF words = << >>
         THEN parser' = "idle" /\ UNCHANGED <<queryBuf, closing, argv, allocated>>
         ELSE /\ argv' = words /\ allocated' = TRUE
              /\ queryBuf' = From(queryBuf, eol + 2)
              /\ UNCHANGED <<parser, closing>>
      /\ UNCHANGED <<multiBulkLen, isMultiBulk, executed, sent, got, requests>>
  BY DEF processInlineBuffer, InMultiBulk, sentVars
<1>2. AtRequest(k)
  BY <1>1 DEF Reads, InRequest
<1>3. /\ queryBuf \in Seq(Symbols) /\ Len(queryBuf) = got - Ends(k) /\ Ends(k) # got /\ Ends(k) \in 0..got
      /\ queryBuf = Rest(Ends(k)) /\ got \in Nat
  BY <1>1, <1>2, AtRequestFacts, EndsFacts
<1>4. /\ k \in Nat /\ k < Len(requests) /\ k + 1 \in 1..Len(requests) /\ k + 1 \in 0..Len(requests)
      /\ \/ a \in BulkRequests /\ Holds(k + 1, InBulks(a))
         \/ a \in InlineRequests /\ Holds(k + 1, InLine(a))
  <2>1. Ends(k) < got
    BY <1>3
  <2>2. k < Len(requests) /\ Len(requests) \in Nat
    BY <2>1, EndsFacts
  <2> QED BY <2>2, EndsFacts
<1>5. 1 <= Len(queryBuf) /\ Len(queryBuf) \in Nat
  BY <1>3
<1>6. a \in InlineRequests /\ Holds(k + 1, InLine(a))
  <2>1. ASSUME a \in BulkRequests, Holds(k + 1, InBulks(a)) PROVE FALSE
    <3>1. InBulks(a) \in Seq(Symbols) /\ Len(InBulks(a)) > 0 /\ InBulks(a)[1] = <<"*", Len(a)>>
      BY <2>1, RequestTyped, BytesFacts DEF IsLayout
    <3>2. 1 \in 1..Len(InBulks(a))
      BY <3>1
    <3>3. queryBuf[1] = <<"*", Len(a)>>
      BY <1>2, <1>5, <2>1, <3>1, <3>2, Ahead
    <3>4. Head(queryBuf) = queryBuf[1]
      BY <1>1, <1>3
    <3> QED BY <1>1, <3>3, <3>4
  <2> QED BY <1>4, <2>1
<1> DEFINE bytes == InLine(a)
           n     == Len(bytes) - 2
<1>7. /\ a # << >> /\ bytes \in Seq(Symbols) /\ n \in Nat \ {0} /\ Len(bytes) = n + 2
      /\ \A p \in 1..n : ~(bytes[p] = CR /\ bytes[p + 1] = LF)
      /\ bytes[n + 1] = CR /\ bytes[n + 2] = LF
      /\ \A line \in Seq(Symbols) :
           Len(line) = n /\ (\A q \in 1..n : line[q] = bytes[q]) => Words(line) = a
  <2>1. bytes \in Seq(Symbols)
    BY <1>6, InLineFacts
  <2>2. Len(bytes) = n + 2
    BY <2>1
  <2> QED BY <1>6, <2>1, <2>2, InLineFacts
<1> HIDE DEF bytes, n
<1>8. Ends(k + 1) = Ends(k) + (n + 2) /\ \A q \in 1..(n + 2) : q <= Len(queryBuf) => queryBuf[q] = bytes[q]
  BY <1>2, <1>6, <1>7, Ahead DEF bytes
<1>9. PICK at : Ran(k, at)
  BY DEF Reads
<1>10. \/ eol = 0 /\ \A p \in 1..(Len(queryBuf) - 1) : ~(queryBuf[p] = CR /\ queryBuf[p + 1] = LF)
       \/ /\ eol \in 1..(Len(queryBuf) - 1) /\ queryBuf[eol] = CR /\ queryBuf[eol + 1] = LF
          /\ \A p \in 1..(eol - 1) : ~(queryBuf[p] = CR /\ queryBuf[p + 1] = LF)
  <2>1. 1 \in Nat \ {0} /\ queryBuf \in Seq(Symbols)
    BY <1>3
  <2> QED BY <2>1, LineEndFacts, Zenon
<1> HIDE DEF eol
<1>11. ASSUME n + 2 <= Len(queryBuf) PROVE queryBuf[n + 1] = CR /\ queryBuf[n + 2] = LF /\ (n + 1) + 1 = n + 2
  <2>1. n + 1 \in 1..(n + 2) /\ n + 2 \in 1..(n + 2) /\ n + 1 <= Len(queryBuf)
    BY <1>5, <1>7, <1>11
  <2> QED BY <1>7, <1>8, <1>11, <2>1
<1>12. CASE eol = 0
  <2>1. parser' = "idle" /\ UNCHANGED <<queryBuf, argv>>
    BY <1>1, <1>12, WaitReads
  <2>2. ~(n + 2 <= Len(queryBuf))
    <3>1. ASSUME n + 2 <= Len(queryBuf) PROVE n + 1 \in 1..(Len(queryBuf) - 1)
      BY <1>5, <1>7, <3>1
    <3> QED BY <1>10, <1>11, <1>12, <3>1
  <2>3. got < Ends(k + 1)
    BY <1>3, <1>7, <1>8, <2>2
  <2>4. AtRequest(k)'
    BY <1>1, <1>2, <2>1 DEF AtRequest, Rest, Ends
  <2>5. Ran(k, at)'
    BY <1>1, <1>3, <1>4, <1>9, <2>1, RanStays
  <2>6. Reads(k)'
    BY <1>1, <2>3, <2>4, <2>5 DEF Reads, Ends
  <2> QED BY <2>6
<1>13. CASE eol # 0
  <2>1. /\ eol \in 1..(Len(queryBuf) - 1) /\ queryBuf[eol] = CR /\ queryBuf[eol + 1] = LF
        /\ \A p \in 1..(eol - 1) : ~(queryBuf[p] = CR /\ queryBuf[p + 1] = LF)
    BY <1>10, <1>13
  <2>2. eol = n + 1
    <3>1. ASSUME eol < n + 1 PROVE FALSE
      <4>1. /\ eol \in 1..n /\ eol \in 1..(n + 2) /\ eol + 1 \in 1..(n + 2)
            /\ eol <= Len(queryBuf) /\ eol + 1 <= Len(queryBuf)
        BY <1>5, <1>7, <2>1, <3>1
      <4>2. queryBuf[eol] = bytes[eol] /\ queryBuf[eol + 1] = bytes[eol + 1]
        BY <1>8, <4>1
      <4> QED BY <1>7, <2>1, <4>1, <4>2
    <3>2. ASSUME n + 1 < eol PROVE FALSE
      <4>1. n + 2 <= Len(queryBuf) /\ n + 1 \in 1..(eol - 1)
        BY <1>5, <1>7, <2>1, <3>2
      <4> QED BY <1>11, <2>1, <4>1
    <3>3. eol \in Int /\ n \in Int
      BY <1>7, <2>1
    <3> QED BY <3>1, <3>2, <3>3
  <2>3. n + 2 <= Len(queryBuf) /\ eol - 1 = n /\ eol + 2 = (n + 2) + 1 /\ n \in 0..Len(queryBuf)
    BY <1>5, <1>7, <2>1, <2>2
  <2>4. words = a
    <3> DEFINE line == SubSeq(queryBuf, 1, n)
    <3>1. /\ line \in Seq(Symbols) /\ Len(line) = IF 1 <= n THEN n + 1 - 1 ELSE 0
          /\ \A i \in 1..(n + 1 - 1) : line[i] = queryBuf[1 + i - 1]
      <4>1. 1 \in Nat \ {0}
        OBVIOUS
      <4> QED BY <1>3, <2>3, <4>1, SubSeqFacts
    <3> HIDE DEF line
    <3>2. Len(line) = n
      BY <1>7, <3>1
    <3>3. ASSUME NEW q \in 1..n PROVE line[q] = bytes[q]
      <4>1. q \in 1..(n + 1 - 1) /\ 1 + q - 1 = q /\ q \in 1..(n + 2) /\ q <= Len(queryBuf)
        BY <1>5, <1>7, <2>3
      <4> QED BY <1>8, <3>1, <4>1
    <3>4. Words(line) = a
      BY <1>7, <3>1, <3>2, <3>3
    <3> QED BY <2>3, <3>4 DEF line
  <2>5. argv' = a /\ queryBuf' = From(queryBuf, (n + 2) + 1) /\ parser' = "parse"
    <3> HIDE DEF words, a
    <3> QED BY <1>1, <1>7, <1>13, <2>3, <2>4
  <2>6. Ends(k + 1) <= got /\ n + 2 \in 0..(got - Ends(k))
    BY <1>3, <1>7, <1>8, <2>3
  <2>7. queryBuf' = Rest(Ends(k + 1))
    <3>1. From(Rest(Ends(k)), (n + 2) + 1) = Rest(Ends(k) + (n + 2))
      BY <1>3, <2>6, RestFacts
    <3> QED BY <1>3, <1>8, <2>5, <3>1
  <2>8. AtRequest(k + 1)'
    <3>1. Ends(k + 1)' = Ends(k + 1) /\ Rest(Ends(k + 1))' = Rest(Ends(k + 1))
      BY <1>1 DEF Ends, Rest
    <3>2. k + 1 > 0 /\ requests'[k + 1].args = a
      BY <1>1, <1>4
    <3>3. multiBulkLen' = 0 /\ ~isMultiBulk'
      BY <1>1, <1>2 DEF AtRequest
    <3> HIDE DEF a
    <3> QED BY <1>1, <2>5, <2>6, <2>7, <3>1, <3>2, <3>3 DEF AtRequest
  <2>9. Ran(k + 1, at)'
    BY <1>1, <1>4, <1>9, <2>5, RanNext
  <2>10. Reads(k + 1)'
    BY <2>5, <2>8, <2>9 DEF Reads
  <2> QED BY <1>4, <2>10
<1> QED BY <1>12, <1>13

LEMMA LenReads ==
  ASSUME RequestParserTypeOK, Laid, sane, analyseMultiBulkLen, ~closing', parser' # "crashed",
         NEW CONSTANT k \in 0..Len(requests), Reads(k)
  PROVE  Reads(k)'
<1> DEFINE eol == LineEnd(queryBuf, 1)
           n   == Number(SubSeq(queryBuf, 1, eol - 1))
           a   == requests[k + 1].args
           b   == InBulks(a)
<1>1. /\ parser = "parse" /\ queryBuf # << >> /\ InMultiBulk /\ multiBulkLen = 0 /\ isMultiBulk' = TRUE
      /\ IF eol = 0 THEN WaitForLine /\ UNCHANGED <<argv, allocated, multiBulkLen>>
         ELSE IF BadLength(n)
         THEN setProtocolError(queryBuf, eol) /\ UNCHANGED <<argv, allocated, multiBulkLen>>
         ELSE /\ queryBuf' = From(queryBuf, eol + 2) /\ parser' = "bulks"
              /\ IF n < 0 THEN UNCHANGED <<argv, allocated, multiBulkLen>>
                 ELSE allocArgv /\ multiBulkLen' = n
              /\ UNCHANGED closing
      /\ UNCHANGED <<executed, sent, got, requests>>
  BY DEF analyseMultiBulkLen, sentVars
<1>2. AtRequest(k)
  <2>1. ASSUME InRequest(k) PROVE FALSE
    <3>1. multiBulkLen = Len(a) /\ a \in BulkRequests
      BY <2>1 DEF InRequest
    <3> QED BY <1>1, <3>1, LayoutFacts
  <2> QED BY <2>1 DEF Reads
<1>3. /\ queryBuf \in Seq(Symbols) /\ Len(queryBuf) = got - Ends(k) /\ Ends(k) # got /\ Ends(k) \in 0..got
      /\ queryBuf = Rest(Ends(k)) /\ got \in Nat
  BY <1>1, <1>2, AtRequestFacts, EndsFacts
<1>4. /\ k \in Nat /\ k < Len(requests)
      /\ \/ a \in BulkRequests /\ Holds(k + 1, InBulks(a))
         \/ a \in InlineRequests /\ Holds(k + 1, InLine(a))
  <2>1. Ends(k) < got
    BY <1>3
  <2> QED BY <2>1, EndsFacts
<1>5. 1 <= Len(queryBuf) /\ Len(queryBuf) \in Nat /\ Head(queryBuf) = queryBuf[1]
  BY <1>1, <1>3
<1>6. queryBuf[1][1] = "*"
  BY <1>1, <1>2, <1>5 DEF InMultiBulk, AtRequest
<1>7. a \in BulkRequests /\ Holds(k + 1, b)
  <2>1. ASSUME a \in InlineRequests, Holds(k + 1, InLine(a)) PROVE FALSE
    <3>1. InLine(a) \in Seq(Symbols) /\ Len(InLine(a)) > 0 /\ InLine(a)[1][1] # "*"
      BY <2>1, BytesFacts, InLineFacts
    <3>2. 1 \in 1..Len(InLine(a))
      BY <3>1
    <3>3. queryBuf[1] = InLine(a)[1]
      BY <1>2, <1>5, <2>1, <3>1, <3>2, Ahead
    <3> QED BY <1>6, <3>1, <3>3
  <2> QED BY <1>4, <2>1
<1> HIDE DEF b
<1> DEFINE l == Len(b)
           m == Len(a)
<1>8. /\ b \in Seq(Symbols) /\ b[1] = <<"*", m>> /\ b[2] = CR /\ b[3] = LF
      /\ m \in Nat \ {0} /\ l \in Nat /\ 3 <= l /\ Layout(a)[0] = 3
  <2>1. /\ b \in Seq(Symbols) /\ b[1] = <<"*", m>> /\ b[2] = CR /\ b[3] = LF
    BY <1>7, RequestTyped DEF IsLayout, b
  <2>2. m \in Nat \ {0} /\ l \in Nat /\ Layout(a)[0] = 3 /\ Layout(a)[m] = l
        /\ \A i \in 0..m : Layout(a)[i] \in Nat /\ 3 <= Layout(a)[i]
    BY <1>7, LayoutFacts DEF b
  <2>3. m \in 0..m
    BY <2>2
  <2> HIDE DEF m, l
  <2> QED BY <2>1, <2>2, <2>3
<1> HIDE DEF l, m
<1>9. Ends(k + 1) = Ends(k) + l /\ \A q \in 1..l : q <= Len(queryBuf) => queryBuf[q] = b[q]
  BY <1>2, <1>7, <1>8, Ahead DEF l
<1>10. /\ 1 \in 1..l /\ 2 \in 1..l /\ 3 \in 1..l
       /\ queryBuf[1] = <<"*", m>> /\ queryBuf[1] # CR
       /\ 3 <= Len(queryBuf) => queryBuf[2] = CR /\ queryBuf[3] = LF
  <2>1. 1 \in 1..l /\ 2 \in 1..l /\ 3 \in 1..l
    BY <1>8
  <2>2. 3 <= Len(queryBuf) => 2 <= Len(queryBuf)
    BY <1>5
  <2>3. <<"*", m>> # CR
    BY DEF CR
  <2> QED BY <1>5, <1>8, <1>9, <2>1, <2>2, <2>3
<1>11. PICK at : Ran(k, at)
  BY DEF Reads
<1>12. \/ eol = 0 /\ \A p \in 1..(Len(queryBuf) - 1) : ~(queryBuf[p] = CR /\ queryBuf[p + 1] = LF)
       \/ /\ eol \in 1..(Len(queryBuf) - 1) /\ queryBuf[eol] = CR /\ queryBuf[eol + 1] = LF
          /\ \A p \in 1..(eol - 1) : ~(queryBuf[p] = CR /\ queryBuf[p + 1] = LF)
  <2>1. 1 \in Nat \ {0} /\ queryBuf \in Seq(Symbols)
    BY <1>3
  <2> QED BY <2>1, LineEndFacts, Zenon
<1> HIDE DEF eol
<1>13. CASE eol = 0
  <2>1. parser' = "idle" /\ UNCHANGED <<queryBuf, argv, multiBulkLen>>
    BY <1>1, <1>13, WaitReads
  <2>2. ~(3 <= Len(queryBuf))
    <3>1. ASSUME 3 <= Len(queryBuf) PROVE 2 \in 1..(Len(queryBuf) - 1) /\ 2 + 1 = 3
      BY <1>5, <3>1
    <3> QED BY <1>10, <1>12, <1>13, <3>1
  <2>3. got < Ends(k + 1)
    BY <1>3, <1>8, <1>9, <2>2
  <2>4. Head(queryBuf)[1] = "*"
    BY <1>5, <1>6
  <2>5. AtRequest(k)'
    BY <1>1, <1>2, <2>1, <2>4 DEF AtRequest, Rest, Ends
  <2>6. Ran(k, at)'
    BY <1>1, <1>3, <1>4, <1>11, <2>1, RanStays
  <2> QED BY <1>1, <2>3, <2>5, <2>6 DEF Reads, Ends
<1>14. CASE eol # 0
  <2>1. /\ eol \in 1..(Len(queryBuf) - 1) /\ queryBuf[eol] = CR
        /\ \A p \in 1..(eol - 1) : ~(queryBuf[p] = CR /\ queryBuf[p + 1] = LF)
    BY <1>12, <1>14
  <2>2. eol = 2
    <3>1. eol # 1
      BY <1>10, <2>1
    <3>2. 3 <= Len(queryBuf)
      BY <1>5, <2>1, <3>1
    <3>3. ASSUME 2 < eol PROVE FALSE
      <4>1. 2 \in 1..(eol - 1) /\ 2 + 1 = 3
        BY <2>1, <3>3
      <4> QED BY <1>10, <2>1, <3>2, <4>1
    <3> QED BY <2>1, <3>1, <3>3
  <2>3. 3 <= Len(queryBuf) /\ eol - 1 = 1 /\ eol + 2 = 3 + 1
    BY <1>5, <2>1, <2>2
  <2>4. n = m
    <3> DEFINE line == SubSeq(queryBuf, 1, 1)
    <3>1. /\ Len(line) = IF 1 <= 1 THEN 1 + 1 - 1 ELSE 0
          /\ \A i \in 1..(1 + 1 - 1) : line[i] = queryBuf[1 + i - 1]
      <4>1. 1 \in Nat \ {0} /\ 1 \in 0..Len(queryBuf)
        BY <1>5
      <4> QED BY <1>3, <4>1, SubSeqFacts
    <3> HIDE DEF line
    <3>2. Len(line) = 1 /\ line[1] = queryBuf[1]
      BY <3>1
    <3>3. Number(line) = queryBuf[1][2]
      BY <3>2 DEF Number
    <3>4. queryBuf[1][2] = m
      BY <1>10
    <3> QED BY <2>3, <3>3, <3>4 DEF line
  <2> HIDE DEF n
  <2>5. ~BadLength(n)
    BY <1>1, <1>14 DEF setProtocolError
  <2>6. ~(n < 0)
    BY <1>8, <2>4
  <2>7. queryBuf' = From(queryBuf, 3 + 1) /\ parser' = "bulks" /\ argv' = << >> /\ multiBulkLen' = m
    BY <1>1, <1>14, <2>3, <2>4, <2>5, <2>6 DEF allocArgv
  <2>8. 3 \in 0..(got - Ends(k))
    BY <1>3, <2>3
  <2>9. queryBuf' = Rest(Ends(k) + 3)
    BY <1>3, <2>7, <2>8, RestFacts
  <2>10. InRequest(k)'
    <3>1. Ends(k)' = Ends(k) /\ Ends(k + 1)' = Ends(k + 1) /\ UNCHANGED <<sent, got, requests>>
      BY <1>1 DEF Ends
    <3>2. Len(argv') = 0
      BY <2>7
    <3>3. Holds(k + 1, InBulks(a))'
      BY <1>1, <1>7, <3>1 DEF Holds, At, Ends, b
    <3>4. Ends(k) + 3 <= got /\ 0 <= m
      BY <1>3, <1>8, <2>8
    <3>5. Layout(a)[Len(argv')] = 3 /\ UNCHANGED a
      BY <1>8, <3>1, <3>2
    <3>6. queryBuf' = SubSeq(sent', (Ends(k)' + 3) + 1, got')
      BY <2>9, <3>1 DEF Rest
    <3>7. multiBulkLen' = Len(a)
      BY <2>7 DEF m
    <3> QED BY <1>1, <1>4, <1>7, <1>8, <2>7, <3>1, <3>2, <3>3, <3>4, <3>5, <3>6, <3>7 DEF InRequest, Rest, m
  <2>11. Ran(k, at)'
    BY <1>1, <1>4, <1>11, <2>7, RanStays
  <2> QED BY <2>7, <2>10, <2>11 DEF Reads
<1> QED BY <1>13, <1>14

(* The bulk of an argument, behind the first n arguments.                  *)
LEMMA ArgAhead ==
  ASSUME RequestParserTypeOK, Laid, sane, NEW k \in 0..Len(requests), InRequest(k),
         Len(argv) < Len(requests[k + 1].args)
  PROVE  LET args == requests[k + 1].args
             n == Len(argv)
             p == Ends(k) + Layout(args)[n]
             c == Len(args[n + 1])
         IN /\ n + 1 \in 1..Len(args) /\ args[n + 1] \in Seq(Symbols) /\ c \in Nat /\ p \in Nat
            /\ Ends(k) + Layout(args)[n + 1] = p + c + 5 /\ p + c + 5 <= Ends(k + 1)
            /\ sent[p + 1] = <<"$", c>> /\ sent[p + 2] = CR /\ sent[p + 3] = LF
            /\ \A q \in 1..c : sent[p + 3 + q] = args[n + 1][q]
            /\ sent[p + c + 4] = CR /\ sent[p + c + 5] = LF
<1> DEFINE args == requests[k + 1].args
           n == Len(argv)
           p == Ends(k) + Layout(args)[n]
           c == Len(args[n + 1])
           b == InBulks(args)
           l == Len(b)
           e == Ends(k)
           x == Layout(args)[n]
           y == Layout(args)[n + 1]
<1>1. /\ args \in BulkRequests /\ n \in 0..Len(args) /\ Len(args) \in Nat \ {0} /\ e \in Nat
      /\ Ends(k + 1) = e + l /\ p = e + x
  BY InRequestFacts
<1>2. n \in Nat /\ n + 1 \in 1..Len(args) /\ (n + 1) - 1 = n
  BY <1>1
<1>3. args \in Seq(Seq(Symbols)) /\ IsLayout(Layout(args), args) /\ b \in Seq(Symbols)
  BY <1>1, RequestTyped
<1>4. args[n + 1] \in Seq(Symbols)
  BY <1>2, <1>3
<1>5. /\ x \in Nat /\ y \in Nat /\ c \in Nat /\ y = x + c + 5 /\ y <= l /\ l \in Nat
  <2>1. x \in Nat /\ l \in Nat
    BY <1>1, LayoutFacts
  <2>2. y = x + c + 5 /\ y <= l /\ c \in Nat
    BY <1>1, <1>2, LayoutFacts
  <2> HIDE DEF x, y, l
  <2> QED BY <2>1, <2>2
<1>6. /\ b[x + 1] = <<"$", c>> /\ b[x + 2] = CR /\ b[x + 3] = LF
      /\ \A q \in 1..c : b[x + 3 + q] = args[n + 1][q]
      /\ b[x + c + 4] = CR /\ b[x + c + 5] = LF
  <2> DEFINE f == Layout(args)
  <2>1. \A i \in 1..Len(args) :
          /\ b[f[i - 1] + 1] = <<"$", Len(args[i])>> /\ b[f[i - 1] + 2] = CR /\ b[f[i - 1] + 3] = LF
          /\ \A q \in 1..Len(args[i]) : b[f[i - 1] + 3 + q] = args[i][q]
          /\ b[f[i - 1] + Len(args[i]) + 4] = CR /\ b[f[i - 1] + Len(args[i]) + 5] = LF
    BY <1>3 DEF IsLayout
  <2> DEFINE o == f[(n + 1) - 1]
  <2> HIDE DEF b, f
  <2>2. /\ b[o + 1] = <<"$", c>> /\ b[o + 2] = CR /\ b[o + 3] = LF
        /\ \A q \in 1..c : b[o + 3 + q] = args[n + 1][q]
        /\ b[o + c + 4] = CR /\ b[o + c + 5] = LF
    <3>1. n + 1 \in 1..Len(args)
      BY <1>2
    <3> QED BY <2>1, <3>1
  <2>3. o = x
    BY <1>2 DEF f
  <2> HIDE DEF o, x
  <2> QED BY <2>2, <2>3
<1>7. \A q \in 1..l : sent[e + q] = b[q]
  <2>1. Holds(k + 1, b) /\ (k + 1) - 1 = k
    BY DEF InRequest
  <2> QED BY <2>1 DEF Holds, At
<1> HIDE DEF b, l, e, x, y, c, p, n, args
<1>8. p \in Nat /\ p + c + 5 = e + y /\ p + c + 5 <= e + l
  <2>1. p = e + x /\ e \in Nat /\ x \in Nat /\ y \in Nat /\ c \in Nat /\ l \in Nat /\ y <= l
    BY <1>1, <1>5
  <2>2. y = x + c + 5
    BY <1>5
  <2> QED BY <2>1, <2>2
<1>9. ASSUME NEW q \in 1..(c + 5) PROVE sent[p + q] = b[x + q]
  <2>1. x + q \in 1..l /\ e + (x + q) = p + q
    <3>1. p = e + x /\ e \in Nat /\ x \in Nat /\ y \in Nat /\ c \in Nat /\ l \in Nat /\ y = x + c + 5 /\ y <= l
      BY <1>1, <1>5
    <3> QED BY <3>1
  <2> QED BY <1>7, <2>1
<1>10. /\ 1 \in 1..(c + 5) /\ 2 \in 1..(c + 5) /\ 3 \in 1..(c + 5) /\ c + 4 \in 1..(c + 5) /\ c + 5 \in 1..(c + 5)
       /\ x + (c + 4) = x + c + 4 /\ x + (c + 5) = x + c + 5
       /\ p + (c + 4) = p + c + 4 /\ p + (c + 5) = p + c + 5
  <2>1. x \in Nat /\ c \in Nat /\ p \in Nat
    BY <1>5, <1>8
  <2> QED BY <2>1
<1>11. /\ sent[p + 1] = <<"$", c>> /\ sent[p + 2] = CR /\ sent[p + 3] = LF
       /\ sent[p + c + 4] = CR /\ sent[p + c + 5] = LF
  BY <1>6, <1>9, <1>10
<1>12. ASSUME NEW q \in 1..c PROVE sent[p + 3 + q] = args[n + 1][q]
  <2>1. 3 + q \in 1..(c + 5) /\ p + (3 + q) = p + 3 + q /\ x + (3 + q) = x + 3 + q
    <3>1. x \in Nat /\ c \in Nat /\ p \in Nat
      BY <1>5, <1>8
    <3> QED BY <3>1
  <2> QED BY <1>6, <1>9, <2>1
<1>13. e + y = p + c + 5 /\ p + c + 5 <= Ends(k + 1)
  BY <1>1, <1>8
<1> QED BY <1>2, <1>4, <1>5, <1>8, <1>11, <1>12, <1>13 DEF e, y, p, c, n, args

LEMMA BulkReads ==
  ASSUME RequestParserTypeOK, Laid, sane, analyseBulk, ~closing', parser' # "crashed",
         NEW CONSTANT k \in 0..Len(requests), Reads(k)
  PROVE  Reads(k)'
<1> DEFINE eol   == LineEnd(queryBuf, 2)
           num   == Number(SubSeq(queryBuf, 1, eol - 1))
           valid == num \in 0..PROTO_REQ_BULK_MAX_LEN
           rest  == IF valid THEN queryBuf ELSE From(queryBuf, eol + 2)
           begin == eol + 2
           end   == LineEnd(rest, begin)
           a     == requests[k + 1].args
           n     == Len(argv)
           p     == Ends(k) + Layout(a)[n]
           arg   == a[n + 1]
           c     == Len(arg)
<1>1. /\ parser = "bulks" /\ Len(argv) < multiBulkLen
      /\ IF queryBuf = << >> THEN parser' = "idle" /\ UNCHANGED <<queryBuf, closing, argv>>
         ELSE IF Head(queryBuf)[1] # "$" THEN setProtocolError(queryBuf, 1) /\ UNCHANGED argv
         ELSE IF eol = 0 THEN WaitForLine /\ UNCHANGED argv
         ELSE IF end = 0
         THEN /\ parser' = "idle" /\ queryBuf' = rest
              /\ closing' = (closing \/ ~valid) /\ UNCHANGED argv
         ELSE IF end - begin # (IF num = NotANumber THEN 0 ELSE num)
         THEN setProtocolError(rest, end) /\ UNCHANGED argv
         ELSE /\ argv' = Append(argv, SubSeq(rest, begin, end - 1))
              /\ queryBuf' = From(rest, end + 2)
              /\ closing' = (closing \/ ~valid) /\ UNCHANGED parser
      /\ UNCHANGED <<multiBulkLen, isMultiBulk, executed, sent, got, requests>>
  BY DEF analyseBulk, sentVars
<1>2. InRequest(k)
  BY <1>1 DEF Reads, AtRequest
<1>3. /\ a \in BulkRequests /\ multiBulkLen = Len(a) /\ n < Len(a) /\ isMultiBulk /\ k < Len(requests)
      /\ \A i \in 1..n : argv[i] = a[i]
      /\ Holds(k + 1, InBulks(a)) /\ k \in Nat
  <2>1. Len(argv) < multiBulkLen
    BY <1>1
  <2> QED BY <1>2, <2>1 DEF InRequest
<1>4. /\ n \in Nat /\ Len(a) \in Nat /\ Ends(k) \in Nat /\ Ends(k) + 3 <= p /\ p \in 0..got /\ got \in Nat
      /\ queryBuf = Rest(p) /\ queryBuf \in Seq(Symbols) /\ Len(queryBuf) = got - p
      /\ \A q \in 1..(got - p) : queryBuf[q] = sent[p + q]
      /\ queryBuf = << >> <=> p = got
  <2>1. /\ n \in 0..Len(a) /\ Len(a) \in Nat \ {0} /\ Ends(k) \in Nat /\ Ends(k) + 3 <= p /\ p \in 0..got
        /\ queryBuf = Rest(p) /\ queryBuf \in Seq(Symbols) /\ Len(queryBuf) = got - p
        /\ \A q \in 1..(got - p) : queryBuf[q] = sent[p + q]
        /\ queryBuf = << >> <=> p = got
    BY <1>2, InRequestFacts, SMTT(30)
  <2>2. n \in Nat /\ got \in Nat
    BY DEF RequestParserTypeOK
  <2> HIDE DEF n, a, p
  <2> QED BY <2>1, <2>2
<1>5. /\ n + 1 \in 1..Len(a) /\ arg \in Seq(Symbols) /\ c \in Nat /\ p \in Nat
      /\ Ends(k) + Layout(a)[n + 1] = p + c + 5 /\ p + c + 5 <= Ends(k + 1)
      /\ sent[p + 1] = <<"$", c>> /\ sent[p + 2] = CR /\ sent[p + 3] = LF
      /\ \A q \in 1..c : sent[p + 3 + q] = arg[q]
      /\ sent[p + c + 4] = CR /\ sent[p + c + 5] = LF
  BY <1>2, <1>3, ArgAhead
<1> DEFINE L == Len(queryBuf)
<1> HIDE DEF p, c, arg, L
<1>6. /\ L \in Nat /\ L = got - p
      /\ 1 <= L => queryBuf[1] = <<"$", c>>
      /\ 3 <= L => queryBuf[2] = CR /\ queryBuf[3] = LF
      /\ \A q \in 1..c : 3 + q <= L => queryBuf[3 + q] = arg[q]
      /\ c + 5 <= L => queryBuf[c + 4] = CR /\ queryBuf[c + 5] = LF
  <2>1. L \in Nat /\ L = got - p
    BY <1>4 DEF L
  <2>2. \A q \in 1..L : queryBuf[q] = sent[p + q]
    BY <1>4, <2>1
  <2>3. /\ 1 <= L => 1 \in 1..L
        /\ 3 <= L => 2 \in 1..L /\ 3 \in 1..L
        /\ c + 5 <= L => c + 4 \in 1..L /\ c + 5 \in 1..L
        /\ p + (c + 4) = p + c + 4 /\ p + (c + 5) = p + c + 5
    <3>1. p \in Nat /\ c \in Nat /\ L \in Nat
      BY <1>5, <2>1
    <3> QED BY <3>1
  <2>4. ASSUME NEW q \in 1..c, 3 + q <= L PROVE queryBuf[3 + q] = arg[q]
    <3>1. 3 + q \in 1..L /\ p + (3 + q) = p + 3 + q
      BY <1>5, <2>1, <2>4
    <3> QED BY <1>5, <2>2, <3>1
  <2>5. /\ 1 <= L => queryBuf[1] = <<"$", c>>
        /\ 3 <= L => queryBuf[2] = CR /\ queryBuf[3] = LF
    BY <1>5, <2>2, <2>3
  <2>6. c + 5 <= L => queryBuf[c + 4] = CR /\ queryBuf[c + 5] = LF
    BY <1>5, <2>2, <2>3
  <2> QED BY <2>1, <2>4, <2>5, <2>6
<1>7. PICK at : Ran(k, at)
  BY DEF Reads
<1>8. \/ eol = 0 /\ \A q \in 2..(L - 1) : ~(queryBuf[q] = CR /\ queryBuf[q + 1] = LF)
      \/ /\ eol \in 2..(L - 1)
         /\ \A q \in 2..(eol - 1) : ~(queryBuf[q] = CR /\ queryBuf[q + 1] = LF)
  <2>1. 2 \in Nat \ {0} /\ queryBuf \in Seq(Symbols)
    BY <1>4
  <2> QED BY <2>1, LineEndFacts, Zenon DEF L
<1> HIDE DEF eol
<1> DEFINE Waits == parser' = "idle" /\ UNCHANGED <<queryBuf, argv>> /\ got < Ends(k + 1)
<1>9. ASSUME Waits PROVE Reads(k)'
  <2>1. InRequest(k)'
    BY <1>1, <1>2, <1>3, <1>9 DEF InRequest, Rest, Holds, At, Ends
  <2>2. got # Ends(k)
    BY <1>4
  <2>3. Ran(k, at)'
    BY <1>1, <1>3, <1>7, <1>9, <2>2, RanStays
  <2> QED BY <1>1, <1>9, <2>1, <2>3 DEF Reads, Ends
<1>10. CASE queryBuf = << >>
  <2>1. got < Ends(k + 1)
    <3>1. got = p /\ Ends(k + 1) \in Int
      <4>1. Holds(k + 1, InBulks(a)) /\ (k + 1) - 1 = k
        BY <1>3
      <4>2. Len(InBulks(a)) \in Nat
        BY <1>3, LayoutFacts
      <4> QED BY <1>4, <1>10, <4>1, <4>2 DEF Holds
    <3> QED BY <1>5, <3>1
  <2> QED BY <1>1, <1>9, <1>10, <2>1
<1>11. Ends(k + 1) \in Nat
  <2>1. Holds(k + 1, InBulks(a)) /\ (k + 1) - 1 = k
    BY <1>3
  <2>2. Len(InBulks(a)) \in Nat
    BY <1>3, LayoutFacts
  <2> QED BY <1>4, <2>1, <2>2 DEF Holds
<1>12. ASSUME queryBuf # << >> PROVE 1 <= L /\ Head(queryBuf)[1] = "$"
  <2>1. 1 <= L
    BY <1>4, <1>6, <1>12
  <2>2. Head(queryBuf) = queryBuf[1]
    BY <1>4, <1>12
  <2> QED BY <1>6, <2>1, <2>2
<1>13. CASE queryBuf # << >> /\ eol = 0
  <2>1. WaitForLine /\ UNCHANGED argv
    BY <1>1, <1>12, <1>13
  <2>2. ~(3 <= L)
    <3>1. ASSUME 3 <= L PROVE 2 \in 2..(L - 1) /\ 2 + 1 = 3
      BY <1>6, <3>1
    <3> QED BY <1>6, <1>8, <1>13, <3>1
  <2> DEFINE e == Ends(k + 1)
  <2>a. /\ p \in Nat /\ c \in Nat /\ got \in Nat /\ L \in Nat /\ e \in Nat
        /\ L = got - p /\ p + c + 5 <= e
    BY <1>4, <1>5, <1>6, <1>11
  <2> HIDE DEF e
  <2>b. got < e
    BY <2>2, <2>a
  <2>3. got < Ends(k + 1)
    BY <2>b DEF e
  <2> QED BY <1>9, <2>1, <2>3, WaitReads
<1>14. CASE queryBuf # << >> /\ eol # 0
  <2>1. /\ eol \in 2..(L - 1) /\ \A q \in 2..(eol - 1) : ~(queryBuf[q] = CR /\ queryBuf[q + 1] = LF)
    BY <1>8, <1>14
  <2>2. eol = 2 /\ 3 <= L /\ eol - 1 = 1 /\ eol + 2 = 4
    <3>1. 3 <= L
      BY <1>6, <2>1
    <3>2. ASSUME 2 < eol PROVE FALSE
      <4>1. 2 \in 2..(eol - 1) /\ 2 + 1 = 3
        BY <2>1, <3>2
      <4> QED BY <1>6, <2>1, <3>1, <4>1
    <3> QED BY <2>1, <3>1, <3>2
  <2>3. num = c
    <3> DEFINE line == SubSeq(queryBuf, 1, 1)
    <3>1. /\ Len(line) = IF 1 <= 1 THEN 1 + 1 - 1 ELSE 0
          /\ \A i \in 1..(1 + 1 - 1) : line[i] = queryBuf[1 + i - 1]
      <4>1. 1 \in Nat \ {0} /\ 1 \in 0..Len(queryBuf)
        BY <1>6, <2>2 DEF L
      <4> QED BY <1>4, <4>1, SubSeqFacts
    <3> HIDE DEF line
    <3>2. Len(line) = 1 /\ line[1] = queryBuf[1]
      BY <3>1
    <3>3. Number(line) = queryBuf[1][2]
      BY <3>2 DEF Number
    <3>4. queryBuf[1][2] = c
      BY <1>6, <2>2
    <3> QED BY <2>2, <3>3, <3>4 DEF line
  <2>4. num # NotANumber
    BY <1>5, <2>3 DEF NotANumber
  <2> HIDE DEF num
  <2>5. valid
    <3> HIDE DEF valid, end, rest
    <3>1. ASSUME ~valid PROVE closing'
      BY <1>1, <1>12, <1>14, <3>1 DEF setProtocolError
    <3> QED BY <3>1
  <2>6. rest = queryBuf /\ begin = 4
    <3> HIDE DEF valid
    <3> QED BY <2>2, <2>5
  <2> HIDE DEF valid, rest, begin
  <2>7. \/ end = 0 /\ \A q \in 4..(L - 1) : ~(queryBuf[q] = CR /\ queryBuf[q + 1] = LF)
        \/ end \in 4..(L - 1)
    <3>1. 4 \in Nat \ {0} /\ queryBuf \in Seq(Symbols)
      BY <1>4
    <3> DEFINE e == LineEnd(queryBuf, 4)
    <3>2. \/ e = 0 /\ \A q \in 4..(Len(queryBuf) - 1) : ~(queryBuf[q] = CR /\ queryBuf[q + 1] = LF)
          \/ e \in 4..(Len(queryBuf) - 1)
      BY <3>1, LineEndFacts, Zenon
    <3>3. end = e
      BY <2>6
    <3> HIDE DEF e, end
    <3> QED BY <3>2, <3>3 DEF L
  <2> HIDE DEF end
  <2>8. CASE end = 0
    <3>1. parser' = "idle" /\ UNCHANGED <<queryBuf, argv>>
      BY <1>1, <1>12, <1>14, <2>6, <2>8
    <3>2. ~(c + 5 <= L)
      <4>1. ASSUME c + 5 <= L PROVE c + 4 \in 4..(L - 1) /\ (c + 4) + 1 = c + 5
        BY <1>5, <1>6, <4>1
      <4> QED BY <1>6, <2>7, <2>8, <4>1
    <3>3. got < Ends(k + 1)
      BY <1>4, <1>5, <1>6, <1>11, <3>2
    <3> QED BY <1>9, <3>1, <3>3
  <2>9. CASE end # 0
    <3>1. end - 4 = c
      BY <1>1, <1>12, <1>14, <2>3, <2>4, <2>6, <2>9 DEF setProtocolError
    <3>2. end \in 4..(L - 1)
      BY <2>7, <2>9
    <3>3. end = c + 4 /\ c + 5 <= L /\ end - 1 = c + 3 /\ end + 2 = (c + 5) + 1
      BY <1>5, <1>6, <3>1, <3>2
    <3>4. /\ argv' = Append(argv, SubSeq(queryBuf, 4, c + 3)) /\ queryBuf' = From(queryBuf, (c + 5) + 1)
          /\ parser' = "bulks"
      BY <1>1, <1>12, <1>14, <2>3, <2>4, <2>6, <2>9, <3>1, <3>3
    <3>5. SubSeq(queryBuf, 4, c + 3) = arg
      <4> DEFINE w == SubSeq(queryBuf, 4, c + 3)
      <4>1. /\ w \in Seq(Symbols) /\ Len(w) = IF 4 <= c + 3 THEN (c + 3) + 1 - 4 ELSE 0
            /\ \A i \in 1..((c + 3) + 1 - 4) : w[i] = queryBuf[4 + i - 1]
        <5> DEFINE n3 == c + 3
        <5>1. 4 \in Nat \ {0} /\ n3 \in 0..Len(queryBuf) /\ queryBuf \in Seq(Symbols)
          BY <1>4, <1>5, <1>6, <3>3 DEF L
        <5> HIDE DEF n3
        <5>2. /\ SubSeq(queryBuf, 4, n3) \in Seq(Symbols)
              /\ Len(SubSeq(queryBuf, 4, n3)) = IF 4 <= n3 THEN n3 + 1 - 4 ELSE 0
              /\ \A i \in 1..(n3 + 1 - 4) : SubSeq(queryBuf, 4, n3)[i] = queryBuf[4 + i - 1]
          BY <5>1, SubSeqFacts, Zenon
        <5> QED BY <5>2 DEF n3
      <4> HIDE DEF w
      <4>2. Len(w) = c
        <5>1. c \in Nat
          BY <1>5
        <5>2. (IF 4 <= c + 3 THEN (c + 3) + 1 - 4 ELSE 0) = c
          BY <5>1
        <5> QED BY <4>1, <5>2
      <4>3. ASSUME NEW i \in 1..c PROVE w[i] = arg[i]
        <5>1. i \in 1..((c + 3) + 1 - 4) /\ 4 + i - 1 = 3 + i /\ 3 + i <= L
          BY <1>5, <1>6, <3>3
        <5> QED BY <1>6, <4>1, <5>1
      <4>4. w = arg
        BY <1>5, <4>1, <4>2, <4>3, SeqEqual DEF c
      <4> QED BY <4>4 DEF w
    <3>6. queryBuf' = Rest(p + (c + 5))
      <4>1. c + 5 \in 0..(got - p)
        BY <1>5, <1>6, <3>3
      <4>2. From(Rest(p), (c + 5) + 1) = Rest(p + (c + 5))
        BY <1>4, <4>1, RestFacts
      <4> QED BY <1>4, <3>4, <4>2
    <3>7. Len(argv') = n + 1 /\ \A i \in 1..(n + 1) : argv'[i] = a[i]
      <4>1. argv \in Seq(Seq(Symbols)) /\ argv' = Append(argv, arg)
        BY <3>4, <3>5 DEF RequestParserTypeOK
      <4>2. Len(argv') = n + 1 /\ argv'[n + 1] = arg /\ \A i \in 1..n : argv'[i] = argv[i]
        BY <4>1
      <4>3. ASSUME NEW i \in 1..(n + 1) PROVE argv'[i] = a[i]
        <5>1. i \in 1..n \/ i = n + 1
          <6>1. n \in Nat
            BY <1>4
          <6> HIDE DEF n
          <6> QED BY <6>1
        <5> QED BY <1>3, <4>2, <5>1 DEF arg
      <4> QED BY <4>2, <4>3
    <3>8. InRequest(k)'
      <4>1. Ends(k)' = Ends(k) /\ UNCHANGED <<sent, got, requests, multiBulkLen, isMultiBulk>>
        BY <1>1 DEF Ends
      <4>2. Holds(k + 1, InBulks(a))'
        BY <1>3, <4>1 DEF Holds, At, Ends
      <4>3. n + 1 <= Len(a)
        BY <1>5
      <4>4. Ends(k) + Layout(a)[n + 1] = p + (c + 5) /\ p + (c + 5) <= got
        BY <1>4, <1>5, <1>6, <3>3
      <4>5. queryBuf' = SubSeq(sent', (p + (c + 5)) + 1, got')
        BY <3>6, <4>1 DEF Rest
      <4> PICK r : r = p + (c + 5)
        OBVIOUS
      <4>6. /\ Ends(k)' + Layout(requests'[k + 1].args)[Len(argv')] = r
            /\ queryBuf' = Rest(r)' /\ r <= got' /\ Len(argv') <= Len(requests'[k + 1].args)
        BY <3>7, <4>1, <4>3, <4>4, <4>5 DEF Rest
      <4> QED BY <1>3, <3>4, <3>7, <4>1, <4>2, <4>6 DEF InRequest, Rest
    <3>9. Ran(k, at)'
      BY <1>1, <1>3, <1>7, <3>4, RanStays
    <3> QED BY <3>4, <3>8, <3>9 DEF Reads
  <2> QED BY <2>8, <2>9
<1> QED BY <1>10, <1>13, <1>14

LEMMA EndsReads ==
  ASSUME RequestParserTypeOK, Laid, sane, MultiBulkEnds, parser' # "crashed",
         NEW CONSTANT k \in 0..Len(requests), Reads(k)
  PROVE  k + 1 \in 0..Len(requests) /\ Reads(k + 1)'
<1> DEFINE a == requests[k + 1].args
           n == Len(argv)
           p == Ends(k) + Layout(a)[n]
<1>1. /\ parser = "bulks" /\ n >= multiBulkLen /\ parser' = "parse" /\ multiBulkLen' = 0 /\ ~isMultiBulk'
      /\ UNCHANGED <<queryBuf, argv, executed, sent, got, requests>>
  BY DEF MultiBulkEnds, sentVars
<1>2. InRequest(k)
  BY <1>1 DEF Reads, AtRequest
<1>3. /\ a \in BulkRequests /\ multiBulkLen = Len(a) /\ n <= Len(a) /\ k < Len(requests)
      /\ \A i \in 1..n : argv[i] = a[i]
  BY <1>2 DEF InRequest
<1>4. k \in Nat /\ k + 1 \in 0..Len(requests) /\ Len(requests) \in Nat
  BY <1>3, EndsFacts
<1>5. n = Len(a) /\ n \in Nat
  <2>1. n \in Nat /\ Len(a) \in Nat
    BY <1>3, LayoutFacts DEF RequestParserTypeOK
  <2>2. n >= Len(a) /\ n <= Len(a)
    BY <1>1, <1>3
  <2> HIDE DEF n, a
  <2> QED BY <2>1, <2>2
<1>6. argv = a
  <2>1. argv \in Seq(Seq(Symbols)) /\ a \in Seq(Seq(Symbols))
    BY <1>3, LayoutFacts DEF RequestParserTypeOK
  <2> HIDE DEF a
  <2> QED BY <1>3, <1>5, <2>1, SeqEqual
<1>7. p <= got /\ queryBuf = Rest(p) /\ Ends(k + 1) = Ends(k) + Len(InBulks(a))
  BY <1>2, InRequestFacts DEF InRequest
<1>8. p = Ends(k + 1)
  <2>1. Layout(a)[Len(a)] = Len(InBulks(a))
    BY <1>3, LayoutFacts
  <2> QED BY <1>5, <1>7, <2>1
<1>9. AtRequest(k + 1)'
  <2>1. Ends(k + 1)' = Ends(k + 1) /\ Rest(Ends(k + 1))' = Rest(Ends(k + 1))
    BY <1>1 DEF Ends, Rest
  <2>2. k + 1 > 0 /\ requests'[k + 1].args = a
    BY <1>1, <1>4
  <2>3. Ends(k + 1) <= got /\ queryBuf = Rest(Ends(k + 1))
    BY <1>7, <1>8
  <2> HIDE DEF a, p, n
  <2> QED BY <1>1, <1>6, <2>1, <2>2, <2>3 DEF AtRequest
<1>10. PICK at : Ran(k, at)
  BY DEF Reads
<1>11. Ran(k + 1, at)'
  BY <1>1, <1>4, <1>10, RanNext
<1>12. Reads(k + 1)'
  BY <1>1, <1>9, <1>11 DEF Reads
<1> QED BY <1>4, <1>12

LEMMA SendStep ==
  ASSUME RequestParserTypeOK, Laid, SendRequest, sane, sane', NEW CONSTANT k \in 0..Len(requests), Reads(k)
  PROVE  k \in 0..Len(requests)' /\ Reads(k)'
<1>1. UNCHANGED <<queryBuf, argv, multiBulkLen, isMultiBulk, got, executed, parser>>
  BY DEF SendRequest
<1>2. PICK bytes \in Seq(Symbols) : Len(bytes) > 0 /\ \E args : Sent(bytes, args)
  <2>1. \/ \E args \in BulkRequests : Sent(InBulks(args), args)
        \/ \E args \in InlineRequests : Sent(InLine(args), args)
    BY DEF SendRequest
  <2> QED BY <2>1, BytesFacts
<1>3. PICK args : Sent(bytes, args)
  BY <1>2
<1>4. PICK K : K = Len(requests)
  OBVIOUS
<1>5. k \in 0..K
  BY <1>4
<1> QED BY <1>1, <1>2, <1>3, <1>4, <1>5, SendReads

(* One step of any action keeps the account of what the parser has read.   *)
LEMMA StepReading ==
  RequestParserTypeOK /\ Laid /\ Reading /\ [RequestParserNext]_parserVars => Reading'
<1> SUFFICES ASSUME RequestParserTypeOK, Laid, Reading, [RequestParserNext]_parserVars,
                    sane', ~closing', parser' # "crashed"
             PROVE  \E k \in 0..Len(requests)' : Reads(k)'
  BY DEF Reading
<1>1. sane /\ ~closing /\ parser # "crashed"
  <2>1. CASE SendRequest
    BY <2>1 DEF SendRequest
  <2>2. CASE Receive \/ ReadQuery \/ continueMultiBulk \/ MultiBulkEnds \/ dealWithCommand
    <3>1. UNCHANGED <<sane, closing>>
      BY <2>2 DEF Receive, ReadQuery, continueMultiBulk, MultiBulkEnds, dealWithCommand, sentVars
    <3>2. parser \in {"idle", "parse", "bulks"}
      BY <2>2 DEF Receive, ReadQuery, continueMultiBulk, MultiBulkEnds, dealWithCommand
    <3> QED BY <3>1, <3>2
  <2>3. CASE processInlineBuffer
    BY <2>3 DEF processInlineBuffer, WaitForLine, setProtocolError, sentVars
  <2>4. CASE analyseMultiBulkLen
    BY <2>4 DEF analyseMultiBulkLen, WaitForLine, setProtocolError, sentVars
  <2>5. CASE analyseBulk
    BY <2>5 DEF analyseBulk, WaitForLine, setProtocolError, sentVars
  <2>6. CASE UNCHANGED parserVars
    BY <2>6 DEF parserVars
  <2> QED BY <2>1, <2>2, <2>3, <2>4, <2>5, <2>6 DEF RequestParserNext
<1>2. PICK k \in 0..Len(requests) : Reads(k)
  BY <1>1 DEF Reading
<1>3. CASE SendRequest
  BY <1>1, <1>2, <1>3, SendStep
<1>4. CASE ~SendRequest /\ RequestParserNext
  <2>1. UNCHANGED requests
    BY <1>4 DEF RequestParserNext, Receive, ReadQuery, processInlineBuffer, analyseMultiBulkLen,
         continueMultiBulk, analyseBulk, MultiBulkEnds, dealWithCommand, sentVars
  <2>2. CASE Receive
    BY <1>1, <1>2, <2>1, <2>2, ReceiveReads
  <2>3. CASE ReadQuery
    BY <1>2, <2>1, <2>3, ReadReads
  <2>4. CASE processInlineBuffer
    BY <1>1, <1>2, <2>1, <2>4, InlineReads
  <2>5. CASE analyseMultiBulkLen
    BY <1>1, <1>2, <2>1, <2>5, LenReads
  <2>6. CASE continueMultiBulk
    BY <1>2, <2>1, <2>6, ContinueReads
  <2>7. CASE analyseBulk
    BY <1>1, <1>2, <2>1, <2>7, BulkReads
  <2>8. CASE MultiBulkEnds
    BY <1>1, <1>2, <2>1, <2>8, EndsReads
  <2>9. CASE dealWithCommand
    BY <1>1, <1>2, <2>1, <2>9, DealReads
  <2> QED BY <1>4, <2>2, <2>3, <2>4, <2>5, <2>6, <2>7, <2>8, <2>9 DEF RequestParserNext
<1>5. CASE UNCHANGED parserVars
  <2>1. UNCHANGED <<queryBuf, argv, multiBulkLen, isMultiBulk, sent, got, requests, executed, parser>>
    BY <1>5 DEF parserVars
  <2>2. Ends(k)' = Ends(k) /\ Ends(k + 1)' = Ends(k + 1)
    BY <2>1 DEF Ends
  <2>3. AtRequest(k) => AtRequest(k)'
    BY <2>1, <2>2 DEF AtRequest, Rest
  <2>4. InRequest(k) => InRequest(k)'
    BY <2>1, <2>2 DEF InRequest, Rest, Holds, At, Ends
  <2>5. \A at : Ran(k, at) => Ran(k, at)'
    BY <2>1, <2>2 DEF Ran, LastRun
  <2>6. Reads(k)'
    BY <1>2, <2>1, <2>2, <2>3, <2>4, <2>5 DEF Reads
  <2> QED BY <2>1, <2>6
<1> QED BY <1>3, <1>4, <1>5

LEMMA ReadingGives == RequestParserTypeOK /\ Laid /\ Reading => PiecesDoNotMatter
<1> SUFFICES ASSUME RequestParserTypeOK, Laid, Reading, parser = "idle", sane, ~closing
             PROVE  \E k \in 0..Len(requests) :
                      /\ Ends(k) <= got /\ (k < Len(requests) => got < Ends(k + 1))
                      /\ \E at \in Increasing(Len(executed), k) :
                           /\ \A i \in DOMAIN executed : executed[i] = requests[at[i]].args
                           /\ got = Ends(k) /\ k > 0 =>
                                executed # << >> /\ at[Len(executed)] = k /\ queryBuf = << >>
  BY DEF PiecesDoNotMatter
<1>1. PICK k \in 0..Len(requests) : Reads(k)
  BY DEF Reading
<1>2. PICK at : Ran(k, at)
  BY <1>1 DEF Reads
<1>3. k < Len(requests) => got < Ends(k + 1)
  BY <1>1 DEF Reads
<1>4. Ends(k) \in Nat /\ got \in Nat /\ Ends(k) <= got /\ (got = Ends(k) => queryBuf = << >>)
  <2>1. Ends(k) \in Nat /\ got \in Nat
    BY EndsFacts
  <2>2. CASE AtRequest(k)
    <3>1. Ends(k) <= got
      BY <2>2 DEF AtRequest
    <3> QED BY <2>1, <2>2, <3>1, AtRequestFacts
  <2>3. CASE InRequest(k)
    <3> DEFINE p == Ends(k) + Layout(requests[k + 1].args)[Len(argv)]
    <3>1. Ends(k) + 3 <= p /\ p \in 0..got
      BY <2>3, InRequestFacts
    <3> HIDE DEF p
    <3>2. Ends(k) + 3 <= got
      BY <2>1, <3>1
    <3> QED BY <2>1, <3>2
  <2> QED BY <1>1, <2>2, <2>3, <2>1 DEF Reads
<1>5. ASSUME got = Ends(k), k > 0 PROVE executed # << >> /\ at[Len(executed)] = k
  <2>1. LastRun(at) = k /\ k # 0
    BY <1>2, <1>5 DEF Ran
  <2> QED BY <2>1 DEF LastRun
<1>6. at \in Increasing(Len(executed), k) /\ \A i \in DOMAIN executed : executed[i] = requests[at[i]].args
  BY <1>2 DEF Ran
<1> QED BY <1>3, <1>4, <1>5, <1>6

(* However the network cuts what a client sends without waiting, and       *)
(* whatever the limits and the requests are, processInputBuffer hands      *)
(* dealWithCommand whole requests, in the order in which they were sent    *)
(* and none of them twice; and when everything that has come is whole      *)
(* requests, the last of them was run and nothing is left in queryBuf.     *)
THEOREM CutsDoNotMatter == RequestParserSpec => []PiecesDoNotMatter
<1> DEFINE IInv == RequestParserTypeOK /\ Laid /\ Reading
<1>1. RequestParserInit => IInv
  BY InitTyped, InitLaid, InitReading
<1>2. IInv /\ [RequestParserNext]_parserVars => IInv'
  BY StepTyped, StepLaid, StepReading
<1>3. IInv => PiecesDoNotMatter
  BY ReadingGives
<1> QED BY <1>1, <1>2, <1>3, PTL DEF RequestParserSpec
-----------------------------------------------------------------------------
(* Patterns: the loop over a class                                         *)

LEMMA ClassStep ==
  ASSUME NEW p \in Seq(Int), NEW c, NEW i \in 1..(Len(p) + 1), NEW f, NEW g,
         \A k \in (i + 1)..(Len(p) + 1) : f[k] = g[k]
  PROVE  ClassFrom(f, p, c, i) = ClassFrom(g, p, c, i)
<1> DEFINE n == Len(p)
<1>1. n \in Nat /\ i \in Nat /\ 1 <= i /\ i <= n + 1 /\ CharsLeft(p, i) = n - i + 1
  BY DEF CharsLeft
<1> HIDE DEF n
<1>2. CharsLeft(p, i) >= 2 => i + 2 \in (i + 1)..(n + 1)
  BY <1>1
<1>3. CharsLeft(p, i) >= 3 => i + 3 \in (i + 1)..(n + 1)
  BY <1>1
<1>4. CharsLeft(p, i) # 0 => i + 1 \in (i + 1)..(n + 1)
  BY <1>1
<1>5. /\ CharsLeft(p, i) >= 2 => f[i + 2] = g[i + 2]
      /\ CharsLeft(p, i) >= 3 => f[i + 3] = g[i + 3]
      /\ CharsLeft(p, i) # 0 => f[i + 1] = g[i + 1]
  BY <1>2, <1>3, <1>4 DEF n
<1> QED BY <1>5 DEF ClassFrom

IsLoop(class, p, c, from) == class = [i \in from..(Len(p) + 1) |-> ClassFrom(class, p, c, i)]

LEMMA LoopExists ==
  ASSUME NEW p \in Seq(Int), NEW c, NEW from \in 1..(Len(p) + 1)
  PROVE  \E class : IsLoop(class, p, c, from)
<1> DEFINE n == Len(p) + 1
           T == {d \in Nat : \E class : IsLoop(class, p, c, n + 1 - d)}
<1>1. n \in Nat /\ from \in 1..n /\ n + 1 - from \in Nat
  OBVIOUS
<1>2. 0 \in T
  <2>1. (n + 1 - 0)..n = {}
    BY <1>1
  <2>2. IsLoop([i \in (n + 1 - 0)..n |-> 0], p, c, n + 1 - 0)
    BY <2>1 DEF IsLoop
  <2> QED BY <2>2
<1>3. ASSUME NEW d \in 0..(n + 1 - from - 1), d \in T PROVE d + 1 \in T
  <2> DEFINE a == n + 1 - (d + 1)
  <2>1. d \in Nat /\ a \in 1..n /\ n + 1 - d = a + 1
    BY <1>1
  <2>2. PICK f : IsLoop(f, p, c, a + 1)
    BY <1>3, <2>1
  <2> DEFINE g == [i \in a..n |-> IF i = a THEN ClassFrom(f, p, c, a) ELSE f[i]]
  <2> HIDE DEF a
  <2>3. ASSUME NEW i \in a..n PROVE g[i] = ClassFrom(g, p, c, i)
    <3>1. i \in 1..n /\ \A k \in (i + 1)..n : k \in a..n /\ k # a
      BY <1>1, <2>1
    <3>2. \A k \in (i + 1)..n : f[k] = g[k]
      BY <3>1
    <3>3. ClassFrom(f, p, c, i) = ClassFrom(g, p, c, i)
      <4> HIDE DEF g
      <4> QED BY <3>1, <3>2, ClassStep
    <3>4. i # a => i \in (a + 1)..n
      BY <1>1, <2>1
    <3>5. g[i] = ClassFrom(f, p, c, i)
      <4>1. i # a => f[i] = ClassFrom(f, p, c, i)
        BY <2>2, <3>4 DEF IsLoop
      <4> QED BY <4>1
    <3> QED BY <3>3, <3>5
  <2>4. IsLoop(g, p, c, a)
    <3>1. g = [i \in a..n |-> g[i]]
      OBVIOUS
    <3> HIDE DEF g
    <3> QED BY <2>3, <3>1 DEF IsLoop
  <2> HIDE DEF g
  <2> QED BY <2>1, <2>4 DEF a
<1>4. n + 1 - from \in T
  <2> DEFINE m == n + 1 - from
  <2> HIDE DEF T
  <2>0. \A d \in 0..(m - 1) : d \in T => d + 1 \in T
    BY <1>3
  <2> HIDE DEF n
  <2>1. m \in Nat /\ m \in 0..m
    BY <1>1
  <2> HIDE DEF m
  <2>2. m \in T
    BY <1>2, <2>0, <2>1, NoneFails
  <2> QED BY <2>2 DEF m
<1>5. n + 1 - (n + 1 - from) = from
  BY <1>1
<1> QED BY <1>4, <1>5

LEMMA ClassLoop ==
  ASSUME NEW p \in Seq(Int), NEW c, NEW from \in 1..(Len(p) + 1)
  PROVE  \E class : /\ Class(p, from, c) = class[from]
                    /\ \A i \in from..(Len(p) + 1) : class[i] = ClassFrom(class, p, c, i)
<1> DEFINE class == CHOOSE f : IsLoop(f, p, c, from)
<1>1. IsLoop(class, p, c, from)
  BY LoopExists
<1>2. Class(p, from, c) = class[from]
  BY DEF Class, IsLoop
<1> HIDE DEF class
<1>3. \A i \in from..(Len(p) + 1) : class[i] = ClassFrom(class, p, c, i)
  BY <1>1 DEF IsLoop
<1> QED BY <1>2, <1>3

(* The loop over a class ends behind its characters at most.               *)
LEMMA ClassEnds ==
  ASSUME NEW p \in Seq(Int), NEW c, NEW from \in 1..(Len(p) + 1)
  PROVE  Class(p, from, c).end \in (from - 1)..Len(p)
<1> DEFINE n == Len(p) + 1
<1>1. n \in Nat /\ from \in 1..n /\ n - from \in Nat
  OBVIOUS
<1>2. PICK class : /\ Class(p, from, c) = class[from]
                   /\ \A i \in from..n : class[i] = ClassFrom(class, p, c, i)
  BY ClassLoop
<1> DEFINE T == {d \in Nat : \A e \in 0..d : e <= n - from => class[n - e].end \in (n - e - 1)..(n - 1)}
<1>3. ASSUME NEW i \in from..n, \A k \in (i + 1)..n : class[k].end \in (k - 1)..(n - 1)
      PROVE  class[i].end \in (i - 1)..(n - 1)
  <2>1. i \in Nat /\ 1 <= i /\ i <= n /\ CharsLeft(p, i) = n - i
    <3>1. Len(p) \in Nat
      OBVIOUS
    <3>2. Len(p) - i + 1 = n - i
      BY <1>1, <3>1
    <3> QED BY <1>1, <3>2 DEF CharsLeft
  <2>2. class[i] = ClassFrom(class, p, c, i)
    BY <1>2
  <2>3. /\ CharsLeft(p, i) >= 2 => i + 2 \in (i + 1)..n
        /\ CharsLeft(p, i) >= 3 => i + 3 \in (i + 1)..n
        /\ CharsLeft(p, i) # 0 => i + 1 \in (i + 1)..n
    <3> HIDE DEF n
    <3> QED BY <1>1, <2>1
  <2>4. \/ class[i].end = i /\ CharAt(p, i) = Close
        \/ class[i].end = i - 1
        \/ \E k \in (i + 1)..n : class[i].end = class[k].end
    <3> HIDE DEF n
    <3> QED BY <2>2, <2>3 DEF ClassFrom
  <2>5. CharAt(p, i) = Close => i <= n - 1
    <3>1. i \in DOMAIN p => i <= n - 1
      BY <1>1
    <3>2. CharAt(p, i) = Close => i \in DOMAIN p
      BY DEF CharAt, Close
    <3> QED BY <3>1, <3>2
  <2> HIDE DEF n
  <2>6. \A k \in (i + 1)..n : (k - 1)..(n - 1) \subseteq (i - 1)..(n - 1)
    BY <1>1, <2>1
  <2>7. (class[i].end = i /\ CharAt(p, i) = Close) => class[i].end \in (i - 1)..(n - 1)
    BY <1>1, <2>1, <2>5
  <2>8. class[i].end = i - 1 => class[i].end \in (i - 1)..(n - 1)
    BY <1>1, <2>1
  <2> QED BY <1>3, <2>4, <2>6, <2>7, <2>8
<1> HIDE DEF n
<1>4. ASSUME NEW d \in Nat, d <= n - from, \A e \in 0..(d - 1) : class[n - e].end \in (n - e - 1)..(n - 1)
      PROVE  class[n - d].end \in (n - d - 1)..(n - 1)
  <2> DEFINE i == n - d
  <2>1. i \in from..n
    BY <1>1, <1>4
  <2>2. ASSUME NEW k \in (i + 1)..n PROVE class[k].end \in (k - 1)..(n - 1)
    <3> DEFINE e == n - k
    <3>1. e \in 0..(d - 1) /\ n - e = k
      BY <1>1, <1>4
    <3> HIDE DEF e
    <3>2. class[n - e].end \in (n - e - 1)..(n - 1)
      BY <1>4, <3>1
    <3> QED BY <3>1, <3>2
  <2> HIDE DEF i
  <2>3. class[i].end \in (i - 1)..(n - 1)
    BY <1>3, <2>1, <2>2
  <2> QED BY <2>3 DEF i
<1>5. 0 \in T
  <2>1. class[n - 0].end \in (n - 0 - 1)..(n - 1)
    <3>1. 0 \in Nat /\ 0 <= n - from /\ \A e \in 0..(0 - 1) : FALSE
      BY <1>1
    <3> QED BY <1>4, <3>1
  <2>2. \A e \in 0..0 : e = 0
    OBVIOUS
  <2> QED BY <2>1, <2>2
<1>6. ASSUME NEW d \in 0..(n - from - 1), d \in T PROVE d + 1 \in T
  <2>1. \A e \in 0..d : class[n - e].end \in (n - e - 1)..(n - 1)
    BY <1>1, <1>6
  <2>2. d + 1 \in Nat /\ d + 1 <= n - from /\ (d + 1) - 1 = d
    BY <1>1
  <2>3. class[n - (d + 1)].end \in (n - (d + 1) - 1)..(n - 1)
    BY <1>4, <2>1, <2>2
  <2>4. \A e \in 0..(d + 1) : e \in 0..d \/ e = d + 1
    BY <2>2
  <2> QED BY <2>1, <2>2, <2>3, <2>4
<1>7. n - from \in T
  <2> DEFINE m == n - from
  <2> HIDE DEF T
  <2>0. \A d \in 0..(m - 1) : d \in T => d + 1 \in T
    BY <1>6
  <2> HIDE DEF n
  <2>1. m \in Nat /\ m \in 0..m
    BY <1>1
  <2> HIDE DEF m
  <2>2. m \in T
    BY <1>5, <2>0, <2>1, NoneFails
  <2> QED BY <2>2 DEF m
<1>8. class[from].end \in (from - 1)..(n - 1)
  <2> DEFINE m == n - from
  <2>1. m \in 0..m /\ n - m = from /\ m <= n - from
    BY <1>1
  <2>2. class[n - m].end \in (n - m - 1)..(n - 1)
    BY <1>7, <2>1
  <2> HIDE DEF m
  <2> QED BY <2>1, <2>2
<1>9. n - 1 = Len(p)
  BY DEF n
<1> QED BY <1>2, <1>8, <1>9

LEMMA BetweenFacts ==
  ASSUME NEW a \in Int, NEW b \in Int, NEW c \in Int
  PROVE  Between(c, a, b) <=> c \in a..b \cup b..a
<1>1. CASE a <= b
  <2>1. \A x \in {a, b} : (\A y \in {a, b} : x <= y) => x = a
    BY <1>1
  <2>2. \A x \in {a, b} : (\A y \in {a, b} : x >= y) => x = b
    BY <1>1
  <2>3. Min({a, b}) = a
    BY <1>1, <2>1 DEF Min
  <2>4. Max({a, b}) = b
    BY <1>1, <2>2 DEF Max
  <2> QED BY <1>1, <2>3, <2>4 DEF Between
<1>2. CASE b < a
  <2>1. \A x \in {a, b} : (\A y \in {a, b} : x <= y) => x = b
    BY <1>2
  <2>2. \A x \in {a, b} : (\A y \in {a, b} : x >= y) => x = a
    BY <1>2
  <2>3. Min({a, b}) = b
    BY <1>2, <2>1 DEF Min
  <2>4. Max({a, b}) = a
    BY <1>2, <2>2 DEF Max
  <2> QED BY <1>2, <2>3, <2>4 DEF Between
<1> QED BY <1>1, <1>2

(* One item of a class.                                                    *)
ItemAt(p, i, item, m) ==
  /\ m = Len(item) /\ \A r \in 1..m : i + r - 1 <= Len(p) /\ p[i + r - 1] = item[r]
  /\ \/ /\ m = 1 /\ item[1] # Close /\ (item[1] = Backslash => i = Len(p))
        /\ i + 1 <= Len(p) /\ p[i + 1] = Dash => i + 1 = Len(p)
     \/ m = 2 /\ item[1] = Backslash
     \/ m = 3 /\ item[1] \notin {Backslash, Close} /\ item[2] = Dash

LEMMA ItemStep ==
  ASSUME NEW p \in Seq(Int), NEW c \in Int, NEW item \in Seq(Int), NEW i \in 1..Len(p), NEW class,
         class[i] = ClassFrom(class, p, c, i), NEW m, ItemAt(p, i, item, m)
  PROVE  /\ class[i].hit <=> ItemTakes(item, c) \/ class[i + m].hit
         /\ class[i].end = class[i + m].end
<1>a. m = Len(item) /\ \A r \in 1..m : i + r - 1 <= Len(p) /\ p[i + r - 1] = item[r]
  BY DEF ItemAt
<1>b. \/ /\ m = 1 /\ item[1] # Close /\ (item[1] = Backslash => i = Len(p))
         /\ i + 1 <= Len(p) /\ p[i + 1] = Dash => i + 1 = Len(p)
      \/ m = 2 /\ item[1] = Backslash
      \/ m = 3 /\ item[1] \notin {Backslash, Close} /\ item[2] = Dash
  BY DEF ItemAt
<1> DEFINE n == Len(p)
<1>1. n \in Nat /\ i \in Nat /\ 1 <= i /\ i <= n /\ CharsLeft(p, i) = n - i + 1 /\ CharAt(p, i) = p[i]
  BY DEF CharsLeft, CharAt
<1>2. \A k \in 1..n : CharAt(p, k) = p[k] /\ p[k] \in Int
  BY DEF CharAt
<1>3. \A k : k \notin 1..n => CharAt(p, k) = 0
  BY DEF CharAt
<1> HIDE DEF n
<1>4. CASE m = 1
  <2>1. /\ item[1] # Close /\ (item[1] = Backslash => i = n)
        /\ i + 1 <= n /\ p[i + 1] = Dash => i + 1 = n
    BY <1>b, <1>4 DEF n
  <2>2. p[i] = item[1]
    <3>1. 1 \in 1..m /\ i + 1 - 1 = i
      BY <1>1, <1>4
    <3> QED BY <1>a, <3>1
  <2>3. /\ ~(CharAt(p, i) = Backslash /\ CharsLeft(p, i) >= 2)
        /\ CharAt(p, i) # Close /\ CharsLeft(p, i) # 0
    <3>1. i = n => CharsLeft(p, i) = 1
      BY <1>1
    <3>2. CharsLeft(p, i) # 0
      BY <1>1
    <3> QED BY <1>1, <2>1, <2>2, <3>1, <3>2
  <2>4. ~(CharAt(p, i + 1) = Dash /\ CharsLeft(p, i) >= 3)
    <3>1. ASSUME CharsLeft(p, i) >= 3 PROVE CharAt(p, i + 1) # Dash
      <4>1. i + 1 \in 1..n /\ i + 1 <= n /\ i + 1 # n
        BY <1>1, <3>1
      <4> QED BY <1>2, <2>1, <4>1
    <3> QED BY <3>1
  <2>5. class[i] = [hit |-> p[i] = c \/ class[i + 1].hit, end |-> class[i + 1].end]
    BY <1>1, <2>3, <2>4 DEF ClassFrom
  <2>6. ItemTakes(item, c) <=> c = item[1]
    BY <1>a, <1>4 DEF ItemTakes
  <2>7. (class[i].hit <=> p[i] = c \/ class[i + 1].hit) /\ class[i].end = class[i + 1].end
    <3> DEFINE a == class[i + 1]
               b == class[i]
    <3>1. b = [hit |-> p[i] = c \/ a.hit, end |-> a.end]
      BY <2>5
    <3> HIDE DEF a, b
    <3>2. (b.hit <=> p[i] = c \/ a.hit) /\ b.end = a.end
      BY <3>1
    <3> QED BY <3>2 DEF a, b
  <2> QED BY <1>4, <2>2, <2>6, <2>7
<1>5. CASE m = 2
  <2>1. item[1] = Backslash
    BY <1>b, <1>5
  <2>2. p[i] = item[1] /\ p[i + 1] = item[2] /\ i + 1 <= n
    <3>1. 1 \in 1..m /\ i + 1 - 1 = i /\ 2 \in 1..m /\ i + 2 - 1 = i + 1
      BY <1>1, <1>5
    <3> QED BY <1>a, <3>1 DEF n
  <2>3. CharAt(p, i) = Backslash /\ CharsLeft(p, i) >= 2 /\ CharAt(p, i + 1) = item[2]
    <3>1. i + 1 \in 1..n /\ n - i + 1 >= 2
      BY <1>1, <2>2
    <3> QED BY <1>1, <1>2, <2>1, <2>2, <3>1
  <2>4. class[i] = [hit |-> item[2] = c \/ class[i + 2].hit, end |-> class[i + 2].end]
    BY <2>3 DEF ClassFrom
  <2>5. ItemTakes(item, c) <=> c = item[2]
    BY <1>a, <1>5 DEF ItemTakes
  <2>6. (class[i].hit <=> item[2] = c \/ class[i + 2].hit) /\ class[i].end = class[i + 2].end
    <3> DEFINE a == class[i + 2]
               b == class[i]
    <3>1. b = [hit |-> item[2] = c \/ a.hit, end |-> a.end]
      BY <2>4
    <3> HIDE DEF a, b
    <3>2. (b.hit <=> item[2] = c \/ a.hit) /\ b.end = a.end
      BY <3>1
    <3> QED BY <3>2 DEF a, b
  <2> QED BY <1>5, <2>5, <2>6
<1>6. CASE m = 3
  <2>1. item[1] \notin {Backslash, Close} /\ item[2] = Dash
    BY <1>b, <1>6
  <2>2. p[i] = item[1] /\ p[i + 1] = item[2] /\ p[i + 2] = item[3] /\ i + 2 <= n
    <3>1. /\ 1 \in 1..m /\ i + 1 - 1 = i /\ 2 \in 1..m /\ i + 2 - 1 = i + 1
          /\ 3 \in 1..m /\ i + 3 - 1 = i + 2
      BY <1>1, <1>6
    <3> QED BY <1>a, <3>1 DEF n
  <2>3. /\ CharAt(p, i) # Backslash /\ CharAt(p, i) # Close /\ CharsLeft(p, i) >= 3 /\ CharsLeft(p, i) # 0
        /\ CharAt(p, i + 1) = Dash /\ CharAt(p, i) = item[1] /\ CharAt(p, i + 2) = item[3]
    <3>1. i \in Nat /\ n \in Nat /\ 1 <= i /\ i + 2 <= n
      BY <1>1, <2>2
    <3>2. i + 1 \in 1..n /\ i + 2 \in 1..n
      BY <3>1
    <3>3. n - i + 1 >= 3 /\ n - i + 1 # 0
      BY <3>1
    <3> QED BY <1>1, <1>2, <2>1, <2>2, <3>2, <3>3
  <2>4. class[i] = [hit |-> Between(c, item[1], item[3]) \/ class[i + 3].hit, end |-> class[i + 3].end]
    BY <2>3 DEF ClassFrom
  <2>5. item[1] \in Int /\ item[3] \in Int
    <3>1. 1 \in 1..m /\ 3 \in 1..m
      BY <1>6
    <3>2. m \in Nat /\ \A r \in 1..m : item[r] \in Int
      BY <1>a
    <3> QED BY <3>1, <3>2
  <2>6. ItemTakes(item, c) <=> Between(c, item[1], item[3])
    BY <1>a, <1>6, <2>5, BetweenFacts DEF ItemTakes
  <2>7. (class[i].hit <=> Between(c, item[1], item[3]) \/ class[i + 3].hit) /\ class[i].end = class[i + 3].end
    <3> DEFINE a == class[i + 3]
               b == class[i]
    <3>1. b = [hit |-> Between(c, item[1], item[3]) \/ a.hit, end |-> a.end]
      BY <2>4
    <3> HIDE DEF a, b
    <3>2. (b.hit <=> Between(c, item[1], item[3]) \/ a.hit) /\ b.end = a.end
      BY <3>1
    <3> QED BY <3>2 DEF a, b
  <2> QED BY <1>6, <2>6, <2>7
<1> QED BY <1>b, <1>4, <1>5, <1>6

AreItems(items, closed) ==
  items \in Seq(Seq(Int)) /\ closed \in BOOLEAN /\ \A r \in DOMAIN items : IsItem(items, r, closed)

(* What the items of a class have in common.                               *)
LEMMA ItemFacts ==
  ASSUME NEW items, NEW closed, AreItems(items, closed), NEW q \in 1..Len(items)
  PROVE  /\ items[q] \in Seq(Int) /\ Len(items[q]) \in 1..3
         /\ Len(items[q]) = 2 => items[q][1] = Backslash
         /\ Len(items[q]) = 3 => items[q][1] \notin {Backslash, Close} /\ items[q][2] = Dash
         /\ Len(items[q]) = 1 =>
              /\ items[q][1] # Close /\ (items[q][1] = Backslash => q = Len(items) /\ ~closed)
              /\ \/ q = Len(items) \/ items[q + 1][1] # Dash
                 \/ ~closed /\ q + 1 = Len(items) /\ Len(items[q + 1]) = 1
<1> DEFINE item == items[q]
           m == Len(item)
           next == items[q + 1]
           b == Len(next)
           n == Len(items)
<1>1. IsItem(items, q, closed) /\ item \in Seq(Int)
  BY DEF AreItems
<1>2. \/ /\ m = 1 /\ item[1] # Close /\ (item[1] = Backslash => q = n /\ ~closed)
         /\ q = n \/ next[1] # Dash \/ (~closed /\ q + 1 = n /\ b = 1)
      \/ m = 2 /\ item[1] = Backslash
      \/ m = 3 /\ item[1] \notin {Backslash, Close} /\ item[2] = Dash
  BY <1>1 DEF IsItem
<1> HIDE DEF m, b, next, item, n
<1>3. m \in 1..3
  BY <1>2
<1>4. m = 1 => /\ item[1] # Close /\ (item[1] = Backslash => q = n /\ ~closed)
               /\ q = n \/ next[1] # Dash \/ (~closed /\ q + 1 = n /\ b = 1)
  BY <1>2
<1>5. m = 2 => item[1] = Backslash
  BY <1>2
<1>6. m = 3 => item[1] \notin {Backslash, Close} /\ item[2] = Dash
  BY <1>2
<1> QED BY <1>1, <1>3, <1>4, <1>5, <1>6, Zenon DEF m, b, next, item, n

(* at says where the items of a class begin, and where the last one ends.  *)
Items(at, p, items, closed) ==
  /\ \A q \in 0..Len(items) : at[q] \in 1..(Len(p) + 1)
  /\ \A q \in 1..Len(items) :
       /\ at[q] = at[q - 1] + Len(items[q])
       /\ \A r \in 1..Len(items[q]) :
            at[q - 1] + r - 1 <= Len(p) /\ p[at[q - 1] + r - 1] = items[q][r]
  /\ closed => at[Len(items)] <= Len(p) /\ p[at[Len(items)]] = Close
  /\ ~closed => at[Len(items)] = Len(p) + 1

LEMMA ItemPlace ==
  ASSUME NEW p \in Seq(Int), NEW items, NEW closed, AreItems(items, closed),
         NEW at, Items(at, p, items, closed), NEW q \in 1..Len(items)
  PROVE  /\ at[q - 1] \in 1..Len(p) /\ items[q] \in Seq(Int)
         /\ ItemAt(p, at[q - 1], items[q], Len(items[q]))
         /\ at[q] = at[q - 1] + Len(items[q])
<1> DEFINE N == Len(items)
           L == Len(p)
           i == at[q - 1]
           item == items[q]
           m == Len(item)
<1>1. /\ item \in Seq(Int) /\ m \in 1..3
      /\ m = 2 => item[1] = Backslash
      /\ m = 3 => item[1] \notin {Backslash, Close} /\ item[2] = Dash
      /\ m = 1 =>
           /\ item[1] # Close /\ (item[1] = Backslash => q = N /\ ~closed)
           /\ \/ q = N \/ items[q + 1][1] # Dash
              \/ ~closed /\ q + 1 = N /\ Len(items[q + 1]) = 1
  BY ItemFacts
<1>2. N \in Nat /\ L \in Nat /\ q \in Nat /\ 1 <= q /\ q <= N /\ q - 1 \in 0..N /\ q \in 0..N
  BY DEF AreItems
<1>3. /\ i \in 1..(L + 1) /\ at[q] \in 1..(L + 1) /\ at[q] = i + m
      /\ \A r \in 1..m : i + r - 1 <= L /\ p[i + r - 1] = item[r]
  BY <1>2 DEF Items
<1>4. closed => at[N] <= L /\ p[at[N]] = Close
  BY DEF Items
<1>5. ~closed => at[N] = L + 1
  BY DEF Items
<1>6. q < N => /\ at[q + 1] = at[q] + Len(items[q + 1]) /\ Len(items[q + 1]) \in 1..3
               /\ \A r \in 1..Len(items[q + 1]) :
                    at[q] + r - 1 <= L /\ p[at[q] + r - 1] = items[q + 1][r]
  <2>1. SUFFICES ASSUME q < N PROVE /\ at[q + 1] = at[q] + Len(items[q + 1]) /\ Len(items[q + 1]) \in 1..3
               /\ \A r \in 1..Len(items[q + 1]) :
                    at[q] + r - 1 <= L /\ p[at[q] + r - 1] = items[q + 1][r]
    OBVIOUS
  <2>2. q + 1 \in 1..N /\ (q + 1) - 1 = q
    BY <1>2, <2>1
  <2>3. Len(items[q + 1]) \in 1..3
    <3> HIDE DEF N
    <3>1. q + 1 \in 1..Len(items)
      BY <2>2 DEF N
    <3> QED BY <3>1, ItemFacts
  <2> QED BY <2>2, <2>3 DEF Items
<1> HIDE DEF N, L, i, item, m
<1>7. i <= L /\ i \in 1..L
  <2>1. 1 \in 1..m /\ i + 1 - 1 = i
    BY <1>1, <1>3
  <2> QED BY <1>2, <1>3, <2>1
<1>8. m = 1 => /\ item[1] = Backslash => i = L
               /\ i + 1 <= L /\ p[i + 1] = Dash => i + 1 = L
  <2>1. SUFFICES ASSUME m = 1 PROVE /\ item[1] = Backslash => i = L
                                    /\ i + 1 <= L /\ p[i + 1] = Dash => i + 1 = L
    OBVIOUS
  <2>2. at[q] = i + 1
    BY <1>3, <2>1
  <2>3. ASSUME item[1] = Backslash PROVE i = L
    BY <1>1, <1>2, <1>3, <1>5, <2>1, <2>2, <2>3
  <2>4. ASSUME i + 1 <= L, p[i + 1] = Dash PROVE i + 1 = L
    <3>1. CASE q = N
      BY <1>2, <1>3, <1>4, <1>5, <2>2, <2>4, <3>1 DEF Close, Dash
    <3>2. CASE q # N /\ items[q + 1][1] # Dash
      <4>1. q < N /\ 1 \in 1..Len(items[q + 1])
        BY <1>2, <1>6, <3>2
      <4>2. p[at[q] + 1 - 1] = items[q + 1][1]
        BY <1>6, <4>1
      <4>3. at[q] + 1 - 1 = i + 1
        BY <1>3, <1>7, <2>2
      <4> QED BY <2>4, <3>2, <4>2, <4>3
    <3>3. CASE q # N /\ ~closed /\ q + 1 = N /\ Len(items[q + 1]) = 1
      <4>1. at[N] = at[q] + 1
        BY <1>2, <1>6, <3>3
      <4> QED BY <1>2, <1>3, <1>5, <2>2, <3>3, <4>1
    <3> QED BY <1>1, <2>1, <3>1, <3>2, <3>3
  <2> QED BY <2>3, <2>4
<1>9. ItemAt(p, i, item, m)
  <2>1. m = 1 \/ m = 2 \/ m = 3
    BY <1>1
  <2>2. m = Len(item) /\ L = Len(p)
    BY DEF m, L
  <2> QED BY <1>1, <1>3, <1>8, <2>1, <2>2 DEF ItemAt
<1>10. i \in 1..Len(p)
  BY <1>7 DEF L
<1> QED BY <1>1, <1>3, <1>9, <1>10 DEF i, item, m

LEMMA ItemsStep ==
  ASSUME NEW p \in Seq(Int), NEW c \in Int, NEW items, NEW closed, AreItems(items, closed),
         NEW at, Items(at, p, items, closed), NEW q \in 1..Len(items),
         NEW class, class[at[q - 1]] = ClassFrom(class, p, c, at[q - 1])
  PROVE  /\ class[at[q - 1]].hit <=> ItemTakes(items[q], c) \/ class[at[q]].hit
         /\ class[at[q - 1]].end = class[at[q]].end
<1> DEFINE a == at[q - 1]
           it == items[q]
           k == Len(it)
<1>1. a \in 1..Len(p) /\ it \in Seq(Int) /\ ItemAt(p, a, it, k)
  BY ItemPlace
<1>2. at[q] = a + k
  BY ItemPlace
<1> HIDE DEF a, it, k
<1>3. class[a] = ClassFrom(class, p, c, a)
  BY DEF a
<1>4. /\ class[a].hit <=> ItemTakes(it, c) \/ class[a + k].hit
      /\ class[a].end = class[a + k].end
  BY <1>1, <1>3, ItemStep
<1> QED BY <1>2, <1>4 DEF a, it

(* The loop finds the characters of the items, and ends behind them.       *)
LEMMA ClassItems ==
  ASSUME NEW p \in Seq(Int), NEW c \in Int, NEW items, NEW closed, AreItems(items, closed),
         NEW at, Items(at, p, items, closed)
  PROVE  /\ Class(p, at[0], c).hit <=> \E q \in 1..Len(items) : ItemTakes(items[q], c)
         /\ Class(p, at[0], c).end = IF closed THEN at[Len(items)] ELSE Len(p)
<1> DEFINE N == Len(items)
           L == Len(p)
           E == IF closed THEN at[N] ELSE L
<1>0. items \in Seq(Seq(Int)) /\ closed \in BOOLEAN /\ \A r \in DOMAIN items : IsItem(items, r, closed)
  BY DEF AreItems
<1>1. N \in Nat /\ L \in Nat /\ \A q \in 0..N : at[q] \in 1..(L + 1)
  BY <1>0 DEF Items
<1>2. closed => at[N] <= L /\ p[at[N]] = Close
  BY DEF Items
<1>3. ~closed => at[N] = L + 1
  BY DEF Items
<1>4. at[0] \in 1..(L + 1) /\ at[0] \in 1..(Len(p) + 1)
  BY <1>1
<1>5. \A q \in 0..N : at[0] <= at[q]
  <2> DEFINE T == {q \in Nat : q <= N => at[0] <= at[q]}
  <2>1. 0 \in T
    BY <1>4
  <2>2. ASSUME NEW q \in 0..(N - 1), q \in T PROVE q + 1 \in T
    <3>1. q \in 0..N /\ q + 1 \in 1..N /\ q + 1 \in 0..N /\ (q + 1) - 1 = q /\ q <= N
      BY <1>1
    <3>2. at[q + 1] = at[q] + Len(items[q + 1]) /\ Len(items[q + 1]) \in Nat
      BY <1>0, <3>1 DEF Items
    <3>3. at[0] <= at[q]
      BY <2>2, <3>1
    <3>4. at[0] \in Nat /\ at[q] \in Nat
      BY <1>1, <1>4, <3>1
    <3>5. at[0] <= at[q + 1]
      <4> DEFINE x == at[0]
                 y == at[q]
                 z == at[q + 1]
                 w == Len(items[q + 1])
      <4>1. x \in Nat /\ y \in Nat /\ w \in Nat /\ x <= y /\ z = y + w
        BY <3>2, <3>3, <3>4
      <4> HIDE DEF x, y, z, w
      <4>2. x <= z
        BY <4>1
      <4> QED BY <4>2 DEF x, z
    <3> QED BY <3>1, <3>5
  <2>3. \A q \in 0..N : q \in T
    <3> HIDE DEF T, N
    <3> QED BY <1>1, <2>1, <2>2, NoneFails
  <2>4. ASSUME NEW q \in 0..N PROVE at[0] <= at[q]
    <3>1. q <= N
      BY <1>1
    <3>2. q \in T
      <4> HIDE DEF T
      <4> QED BY <2>3
    <3> QED BY <3>1, <3>2
  <2> QED BY <2>4
<1> DEFINE from == at[0]
<1> HIDE DEF from
<1>6. \E class : /\ Class(p, from, c) = class[from]
                 /\ \A i \in from..(Len(p) + 1) : class[i] = ClassFrom(class, p, c, i)
  <2>1. from \in 1..(Len(p) + 1)
    BY <1>4 DEF from
  <2> QED BY <2>1, ClassLoop
<1>a. PICK class : /\ Class(p, at[0], c) = class[at[0]]
                   /\ \A i \in at[0]..(L + 1) : class[i] = ClassFrom(class, p, c, i)
  BY <1>6 DEF from
<1> HIDE DEF N, L
<1>7. \A q \in 0..N : class[at[q]] = ClassFrom(class, p, c, at[q])
  <2>1. ASSUME NEW q \in 0..N PROVE at[q] \in at[0]..(L + 1)
    BY <1>1, <1>4, <1>5
  <2> QED BY <1>a, <2>1
<1> HIDE DEF E
<1> DEFINE T == {d \in Nat : d <= N =>
                    /\ class[at[N - d]].hit <=> \E q \in (N - d + 1)..N : ItemTakes(items[q], c)
                    /\ class[at[N - d]].end = E}
<1>8. 0 \in T
  <2>1. class[at[N]] = ClassFrom(class, p, c, at[N]) /\ at[N] \in 1..(L + 1) /\ N - 0 = N
    <3>1. N \in 0..N
      BY <1>1
    <3> QED BY <1>1, <1>7, <3>1
  <2>2. ~(\E q \in (N - 0 + 1)..N : ItemTakes(items[q], c))
    BY <1>1
  <2>3. class[at[N]] = [hit |-> FALSE, end |-> E]
    <3>1. CASE closed
      <4>1. CharAt(p, at[N]) = Close /\ E = at[N]
        <5>1. at[N] \in DOMAIN p
          BY <1>1, <1>2, <2>1, <3>1 DEF L
        <5> QED BY <1>2, <3>1, <5>1 DEF CharAt, E
      <4> QED BY <2>1, <4>1 DEF ClassFrom, Close, Backslash
    <3>2. CASE ~closed
      <4>1. at[N] = L + 1 /\ L + 1 \notin DOMAIN p /\ CharAt(p, at[N]) = 0 /\ E = L
        BY <1>1, <1>3, <3>2 DEF CharAt, E, L
      <4>2. CharsLeft(p, at[N]) = 0
        <5>1. L - (L + 1) + 1 = 0
          BY <1>1
        <5> QED BY <4>1, <5>1 DEF CharsLeft, L
      <4>3. at[N] - 1 = L
        BY <1>1, <4>1
      <4>4. ClassFrom(class, p, c, at[N]) = [hit |-> FALSE, end |-> at[N] - 1]
        BY <4>1, <4>2 DEF ClassFrom, Close, Backslash
      <4> QED BY <2>1, <4>1, <4>3, <4>4
    <3> QED BY <3>1, <3>2
  <2>4. ~class[at[N]].hit /\ class[at[N]].end = E
    <3> DEFINE x == class[at[N]]
    <3>1. x = [hit |-> FALSE, end |-> E]
      BY <2>3
    <3> HIDE DEF x
    <3>2. ~x.hit /\ x.end = E
      BY <3>1
    <3> QED BY <3>2 DEF x
  <2> QED BY <2>1, <2>2, <2>4
<1>9. ASSUME NEW d \in 0..(N - 1), d \in T PROVE d + 1 \in T
  <2> DEFINE q == N - d
  <2>1. d \in Nat /\ d <= N /\ q \in 1..N /\ N - (d + 1) = q - 1 /\ N - (d + 1) + 1 = q /\ q - 1 \in 0..N
    BY <1>1
  <2>2. /\ class[at[q]].hit <=> \E r \in (q + 1)..N : ItemTakes(items[r], c)
        /\ class[at[q]].end = E
    BY <1>9, <2>1
  <2> HIDE DEF q
  <2>3. /\ class[at[q - 1]].hit <=> ItemTakes(items[q], c) \/ class[at[q]].hit
        /\ class[at[q - 1]].end = class[at[q]].end
    <3>1. q \in 1..Len(items)
      BY <2>1 DEF N
    <3>2. class[at[q - 1]] = ClassFrom(class, p, c, at[q - 1])
      BY <1>7, <2>1
    <3> HIDE DEF T
    <3> QED BY <3>1, <3>2, ItemsStep
  <2>4. \A r : r \in q..N <=> r = q \/ r \in (q + 1)..N
    BY <1>1, <2>1
  <2>5. class[at[q - 1]].hit <=> \E r \in q..N : ItemTakes(items[r], c)
    BY <2>2, <2>3, <2>4
  <2> QED BY <2>1, <2>2, <2>3, <2>5
<1>10. N \in T
  <2> HIDE DEF T
  <2>1. N \in 0..N
    BY <1>1
  <2> QED BY <1>1, <1>8, <1>9, <2>1, NoneFails
<1>11. /\ class[at[0]].hit <=> \E q \in 1..N : ItemTakes(items[q], c)
       /\ class[at[0]].end = E
  <2>1. N <= N /\ N - N = 0 /\ 0 + 1 = 1
    BY <1>1
  <2> QED BY <1>10, <2>1
<1> QED BY <1>a, <1>11 DEF N, L, E

-----------------------------------------------------------------------------
(* Runs of stars                                                           *)

LEMMA LastStarFacts ==
  ASSUME NEW p \in Seq(Int), NEW i \in 1..Len(p), p[i] = Star
  PROVE  /\ LastStar(p, i) \in i..Len(p)
         /\ \A l \in i..LastStar(p, i) : p[l] = Star
         /\ LastStar(p, i) < Len(p) => p[LastStar(p, i) + 1] # Star
<1> DEFINE L == Len(p)
           Run == {k \in i..L : \A l \in i..k : p[l] = Star}
<1>1. L \in Nat /\ i \in 1..L
  OBVIOUS
<1>2. i \in Run
  BY <1>1
<1>3. PICK k \in Run : \A l \in Run : l <= k
  <2>1. Run \in SUBSET (0..L) /\ Run # {}
    BY <1>1, <1>2
  <2> HIDE DEF Run, L
  <2> QED BY <1>1, <2>1, GreatestExists
<1>4. k \in Int /\ \A l \in Run : k >= l
  BY <1>1, <1>3
<1>5. Max(Run) = k
  <2>1. Run \subseteq Int
    BY <1>1
  <2> HIDE DEF Run
  <2>2. ASSUME NEW x \in Run, \A y \in Run : x >= y PROVE x = k
    BY <1>3, <1>4, <2>1, <2>2
  <2> QED BY <1>3, <1>4, <2>2 DEF Max
<1>6. LastStar(p, i) = k
  BY <1>5 DEF LastStar
<1>7. k \in i..L /\ \A l \in i..k : p[l] = Star
  OBVIOUS
<1>8. ASSUME k < L, p[k + 1] = Star PROVE FALSE
  <2>1. k + 1 \in i..L
    BY <1>1, <1>7, <1>8
  <2>2. \A l \in i..(k + 1) : l \in i..k \/ l = k + 1
    BY <1>1, <1>7
  <2>3. k + 1 \in Run
    BY <1>7, <1>8, <2>1, <2>2
  <2> HIDE DEF Run
  <2>4. k + 1 <= k
    BY <1>3, <2>3
  <2> QED BY <1>4, <2>4
<1> QED BY <1>6, <1>7, <1>8

LEMMA LastStarOnly ==
  ASSUME NEW p \in Seq(Int), NEW i \in 1..Len(p), NEW k \in i..Len(p),
         \A l \in i..k : p[l] = Star, k < Len(p) => p[k + 1] # Star
  PROVE  LastStar(p, i) = k
<1> DEFINE L == Len(p)
           m == LastStar(p, i)
<1>1. L \in Nat /\ i \in 1..L /\ k \in i..L
  OBVIOUS
<1>2. p[i] = Star
  BY <1>1
<1>3. /\ m \in i..L /\ \A l \in i..m : p[l] = Star
      /\ m < L => p[m + 1] # Star
  BY <1>2, LastStarFacts
<1> HIDE DEF m, L
<1>4. ASSUME k < m PROVE FALSE
  <2>1. k + 1 \in i..m /\ k < L
    BY <1>1, <1>3, <1>4
  <2> QED BY <1>3, <2>1 DEF L
<1>5. ASSUME m < k PROVE FALSE
  <2>1. m + 1 \in i..k /\ m < L
    BY <1>1, <1>3, <1>5
  <2> QED BY <1>3, <2>1
<1>6. m = k
  BY <1>1, <1>3, <1>4, <1>5
<1> QED BY <1>6 DEF m

LEMMA NextStar ==
  ASSUME NEW p \in Seq(Int), NEW i \in 1..Len(p), p[i] = Star
  PROVE  /\ i = Len(p) => LastStar(p, i) = i
         /\ i < Len(p) /\ p[i + 1] # Star => LastStar(p, i) = i
         /\ i < Len(p) /\ p[i + 1] = Star => LastStar(p, i) = LastStar(p, i + 1)
<1> DEFINE L == Len(p)
<1>1. L \in Nat /\ i \in 1..L
  OBVIOUS
<1>2. ASSUME i = L \/ (i < L /\ p[i + 1] # Star) PROVE LastStar(p, i) = i
  <2>1. i \in i..L /\ \A l \in i..i : l = i
    BY <1>1
  <2> QED BY <1>1, <1>2, <2>1, LastStarOnly
<1>3. ASSUME i < L, p[i + 1] = Star PROVE LastStar(p, i) = LastStar(p, i + 1)
  <2> DEFINE k == LastStar(p, i + 1)
  <2>1. i + 1 \in 1..L
    BY <1>1, <1>3
  <2>2. /\ k \in (i + 1)..L /\ \A l \in (i + 1)..k : p[l] = Star
        /\ k < L => p[k + 1] # Star
    BY <1>3, <2>1, LastStarFacts
  <2> HIDE DEF k, L
  <2>3. k \in i..L /\ \A l \in i..k : l = i \/ l \in (i + 1)..k
    BY <1>1, <2>1, <2>2
  <2>4. LastStar(p, i) = k
    <3>1. \A l \in i..k : p[l] = Star
      BY <2>2, <2>3
    <3> QED BY <2>2, <2>3, <3>1, LastStarOnly DEF L
  <2> QED BY <2>4 DEF k
<1> QED BY <1>1, <1>2, <1>3
-----------------------------------------------------------------------------
(* The match itself                                                        *)

(* The class that a bracket at i begins.                                   *)
ClassAt(p, s, i, j) == Class(p, IF CharAt(p, i + 1) = Caret THEN i + 2 ELSE i + 1, s[j])

LEMMA ClassAtEnds ==
  ASSUME NEW p \in Seq(Int), NEW s, NEW i \in 1..Len(p), NEW j
  PROVE  ClassAt(p, s, i, j).end \in i..Len(p)
<1> DEFINE L == Len(p)
           from == IF CharAt(p, i + 1) = Caret THEN i + 2 ELSE i + 1
<1>1. L \in Nat /\ i \in 1..L
  OBVIOUS
<1>2. CharAt(p, i + 1) = Caret => i + 1 \in 1..L
  BY DEF CharAt, Caret
<1>3. from \in 1..(L + 1) /\ i <= from - 1
  <2> HIDE DEF L
  <2> QED BY <1>1, <1>2
<1> HIDE DEF from
<1>4. Class(p, from, s[j]).end \in (from - 1)..Len(p)
  BY <1>3, ClassEnds
<1>5. Class(p, from, s[j]).end \in i..Len(p)
  <2> DEFINE e == Class(p, from, s[j]).end
  <2> HIDE DEF e, L
  <2>1. e \in (from - 1)..L
    BY <1>4 DEF e, L
  <2>2. e \in i..L
    BY <1>1, <1>3, <2>1
  <2> QED BY <2>2 DEF e, L
<1> QED BY <1>5 DEF ClassAt, from

LEMMA MatchStep ==
  ASSUME NEW p \in Seq(Int), NEW s \in Seq(Int), NEW i \in 1..(Len(p) + 1), NEW j \in 1..(Len(s) + 1),
         NEW f, NEW g, \A k \in (i + 1)..(Len(p) + 1) : f[k] = g[k]
  PROVE  MatchFrom(f, p, s, i, j) = MatchFrom(g, p, s, i, j)
<1> DEFINE L == Len(p)
           N == Len(s)
<1>1. L \in Nat /\ N \in Nat /\ i \in 1..(L + 1) /\ j \in 1..(N + 1)
  OBVIOUS
<1>2. CASE i > L \/ j > N
  BY <1>2 DEF MatchFrom
<1>3. CASE ~(i > L \/ j > N)
  <2>1. i \in 1..L /\ j \in 1..N
    BY <1>1, <1>3
  <2>2. \A k \in (i + 1)..(L + 1) : f[k][j + 1] = g[k][j + 1]
    OBVIOUS
  <2>3. p[i] = Star => LastStar(p, i) + 1 \in (i + 1)..(L + 1)
    <3>1. p[i] = Star => LastStar(p, i) \in i..L
      BY <2>1, LastStarFacts
    <3> DEFINE m == LastStar(p, i)
    <3> HIDE DEF m, L
    <3>2. m \in i..L => m + 1 \in (i + 1)..(L + 1)
      BY <1>1, <2>1
    <3> QED BY <3>1, <3>2 DEF m
  <2>4. ClassAt(p, s, i, j).end + 1 \in (i + 1)..(L + 1)
    <3>1. ClassAt(p, s, i, j).end \in i..L
      BY <2>1, ClassAtEnds
    <3> DEFINE m == ClassAt(p, s, i, j).end
    <3> HIDE DEF m, L
    <3>2. m \in i..L => m + 1 \in (i + 1)..(L + 1)
      BY <1>1, <2>1
    <3> QED BY <3>1, <3>2 DEF m
  <2>5. i + 1 \in (i + 1)..(L + 1) /\ (i < L => i + 2 \in (i + 1)..(L + 1))
    <3> HIDE DEF L
    <3>1. i \in Nat /\ i <= L
      BY <2>1
    <3> QED BY <1>1, <3>1
  <2> DEFINE RestF(k) == IF j = N THEN OnlyStars(p, k) ELSE f[k][j + 1]
             RestG(k) == IF j = N THEN OnlyStars(p, k) ELSE g[k][j + 1]
  <2>6. \A k \in (i + 1)..(L + 1) : RestF(k) = RestG(k)
    BY <2>2
  <2>7. p[i] = Star => f[LastStar(p, i) + 1] = g[LastStar(p, i) + 1]
    BY <2>3
  <2> HIDE DEF RestF, RestG
  <2>8. /\ RestF(i + 1) = RestG(i + 1)
        /\ RestF(ClassAt(p, s, i, j).end + 1) = RestG(ClassAt(p, s, i, j).end + 1)
        /\ i < L => RestF(i + 2) = RestG(i + 2)
    BY <2>4, <2>5, <2>6
  <2>9. CASE p[i] = Star
    BY <1>3, <2>7, <2>9 DEF MatchFrom
  <2>10. CASE p[i] # Star /\ p[i] = Question
    BY <1>3, <2>8, <2>10 DEF MatchFrom, RestF, RestG
  <2>11. CASE p[i] # Star /\ p[i] # Question /\ p[i] = Open
    BY <1>3, <2>8, <2>11 DEF MatchFrom, RestF, RestG, ClassAt
  <2>12. CASE p[i] # Star /\ p[i] # Question /\ p[i] # Open /\ p[i] = Backslash /\ i < L
    BY <1>3, <2>8, <2>12 DEF MatchFrom, RestF, RestG
  <2>13. CASE p[i] # Star /\ p[i] # Question /\ p[i] # Open /\ ~(p[i] = Backslash /\ i < L)
    BY <1>3, <2>8, <2>13 DEF MatchFrom, RestF, RestG
  <2> QED BY <2>9, <2>10, <2>11, <2>12, <2>13
<1> QED BY <1>2, <1>3

IsMatch(match, p, s, from) ==
  match = [i \in from..(Len(p) + 1) |-> [j \in 1..(Len(s) + 1) |-> MatchFrom(match, p, s, i, j)]]

LEMMA MatchExists ==
  ASSUME NEW p \in Seq(Int), NEW s \in Seq(Int)
  PROVE  \E match : IsMatch(match, p, s, 1)
<1> DEFINE n == Len(p) + 1
           T == {d \in Nat : \E match : IsMatch(match, p, s, n + 1 - d)}
<1>1. n \in Nat
  OBVIOUS
<1>2. 0 \in T
  <2>1. (n + 1 - 0)..n = {}
    BY <1>1
  <2>2. IsMatch([i \in (n + 1 - 0)..n |-> 0], p, s, n + 1 - 0)
    BY <2>1 DEF IsMatch
  <2> QED BY <2>2
<1>3. ASSUME NEW d \in 0..(n - 1), d \in T PROVE d + 1 \in T
  <2> DEFINE a == n + 1 - (d + 1)
             Row(f, i) == [j \in 1..(Len(s) + 1) |-> MatchFrom(f, p, s, i, j)]
  <2>1. d \in Nat /\ a \in 1..n /\ n + 1 - d = a + 1
    BY <1>1
  <2>2. PICK f : IsMatch(f, p, s, a + 1)
    BY <1>3, <2>1
  <2> DEFINE g == [i \in a..n |-> IF i = a THEN Row(f, a) ELSE f[i]]
  <2> HIDE DEF a
  <2>3. ASSUME NEW i \in a..n PROVE g[i] = Row(g, i)
    <3>1. i \in 1..n /\ \A k \in (i + 1)..n : k \in a..n /\ k # a
      BY <1>1, <2>1
    <3>2. \A k \in (i + 1)..n : f[k] = g[k]
      BY <3>1
    <3>3. ASSUME NEW j \in 1..(Len(s) + 1) PROVE MatchFrom(f, p, s, i, j) = MatchFrom(g, p, s, i, j)
      <4>1. i \in 1..(Len(p) + 1) /\ \A k \in (i + 1)..(Len(p) + 1) : f[k] = g[k]
        BY <3>1, <3>2
      <4> HIDE DEF g, Row, T, n
      <4>2. j \in 1..(Len(s) + 1)
        OBVIOUS
      <4> QED BY <4>1, <4>2, MatchStep, SMTT(30)
    <3>4. i # a => i \in (a + 1)..n
      BY <1>1, <2>1
    <3>5. g[i] = Row(f, i)
      <4>1. i # a => f[i] = Row(f, i)
        BY <2>2, <3>4 DEF IsMatch
      <4> HIDE DEF Row
      <4> QED BY <4>1
    <3>6. Row(f, i) = Row(g, i)
      <4> HIDE DEF g
      <4> QED BY <3>3
    <3> QED BY <3>5, <3>6
  <2>4. IsMatch(g, p, s, a)
    <3>1. g = [i \in a..n |-> g[i]]
      OBVIOUS
    <3> HIDE DEF g
    <3> QED BY <2>3, <3>1 DEF IsMatch
  <2> HIDE DEF g
  <2> QED BY <2>1, <2>4 DEF a
<1>4. n \in T
  <2> HIDE DEF T
  <2>0. \A d \in 0..(n - 1) : d \in T => d + 1 \in T
    BY <1>3
  <2> HIDE DEF n
  <2>1. n \in 0..n
    BY <1>1
  <2> QED BY <1>1, <1>2, <2>0, <2>1, NoneFails
<1>5. n + 1 - n = 1
  BY <1>1
<1> QED BY <1>4, <1>5

LEMMA MatchLoop ==
  ASSUME NEW p \in Seq(Int), NEW s \in Seq(Int)
  PROVE  \E match : /\ stringmatchlen(p, s) = match[1][1]
                    /\ \A i \in 1..(Len(p) + 1), j \in 1..(Len(s) + 1) :
                         match[i][j] = MatchFrom(match, p, s, i, j)
<1> DEFINE match == CHOOSE f : IsMatch(f, p, s, 1)
<1>1. IsMatch(match, p, s, 1)
  BY MatchExists
<1>2. stringmatchlen(p, s) = match[1][1]
  BY DEF stringmatchlen, IsMatch
<1> HIDE DEF match
<1>3. \A i \in 1..(Len(p) + 1), j \in 1..(Len(s) + 1) : match[i][j] = MatchFrom(match, p, s, i, j)
  <2>1. ASSUME NEW i \in 1..(Len(p) + 1)
        PROVE  match[i] = [j \in 1..(Len(s) + 1) |-> MatchFrom(match, p, s, i, j)]
    BY <1>1 DEF IsMatch
  <2>2. ASSUME NEW i \in 1..(Len(p) + 1), NEW j \in 1..(Len(s) + 1)
        PROVE  match[i][j] = MatchFrom(match, p, s, i, j)
    BY <2>1
  <2> QED BY <2>2
<1> QED BY <1>2, <1>3

-----------------------------------------------------------------------------
(* One element                                                             *)

(* How a class is written.                                                 *)
ClassLaid(t, items, off, h, negated, closed) ==
  /\ off \in [0..Len(items) -> Nat] /\ off[0] = 0
  /\ \A q \in 1..Len(items) : off[q] = off[q - 1] + Len(items[q]) /\ off[q] <= off[Len(items)]
  /\ h = IF negated THEN 2 ELSE 1
  /\ Len(t) = h + off[Len(items)] + (IF closed THEN 1 ELSE 0)
  /\ t[1] = Open /\ (negated => t[2] = Caret)
  /\ \A q \in 1..Len(items) : \A r \in 1..Len(items[q]) : t[h + off[q - 1] + r] = items[q][r]
  /\ closed => t[h + off[Len(items)] + 1] = Close

LEMMA ClassTextFacts ==
  ASSUME NEW e, IsClass(e)
  PROVE  /\ ClassText(e) \in Seq(Int) /\ AreItems(e.items, e.closed)
         /\ \E off, h : ClassLaid(ClassText(e), e.items, off, h, e.negated, e.closed)
<1> DEFINE items == e.items
           flat == FlattenSeq(items)
           a == IF e.negated THEN <<Open, Caret>> ELSE <<Open>>
           b == IF e.closed THEN <<Close>> ELSE << >>
           h == IF e.negated THEN 2 ELSE 1
           l == IF e.closed THEN 1 ELSE 0
           N == Len(items)
<1>1. e.negated \in BOOLEAN /\ e.closed \in BOOLEAN /\ items \in Seq(Seq(Int)) /\ N \in Nat
  BY DEF IsClass
<1>2. AreItems(items, e.closed)
  BY DEF IsClass, AreItems
<1>3. a \in Seq(Int) /\ h = Len(a) /\ h \in {1, 2} /\ a[1] = Open /\ (e.negated => a[2] = Caret)
  BY <1>1 DEF Open, Caret
<1>4. b \in Seq(Int) /\ l = Len(b) /\ l \in {0, 1} /\ (e.closed => l = 1 /\ b[1] = Close)
  BY <1>1 DEF Close
<1> HIDE DEF N, items, flat, a, b
<1>5. flat \in Seq(Int) /\ \E off : Pieces(off, flat, items)
  BY <1>1, AllPieces DEF flat
<1>6. PICK off : Pieces(off, flat, items)
  BY <1>5
<1> DEFINE m == Len(flat)
<1>7. m \in Nat
  BY <1>5
<1>8. /\ off \in [0..N -> Nat] /\ off[0] = 0 /\ off[N] = m
      /\ \A q \in 1..N : /\ off[q] = off[q - 1] + Len(items[q]) /\ off[q] <= m
                         /\ \A r \in 1..Len(items[q]) : flat[off[q - 1] + r] = items[q][r]
  BY <1>6 DEF Pieces, N
<1> DEFINE af == a \o flat
           t == af \o b
<1> HIDE DEF m, h, l
<1>9. /\ af \in Seq(Int) /\ Len(af) = h + m
      /\ \A q \in 1..h : af[q] = a[q]
      /\ \A q \in 1..m : af[h + q] = flat[q]
  <2>1. h = Len(a) /\ m = Len(flat)
    BY <1>3 DEF m
  <2> QED BY <1>3, <1>5, <2>1, ConcatFacts
<1> HIDE DEF af
<1>10. h + m \in Nat
  BY <1>3, <1>7
<1> DEFINE w == h + m
<1> HIDE DEF w
<1>11. /\ t \in Seq(Int) /\ Len(t) = w + l
       /\ \A q \in 1..w : t[q] = af[q]
       /\ \A q \in 1..l : t[w + q] = b[q]
  <2>1. w = Len(af) /\ l = Len(b)
    BY <1>4, <1>9 DEF w
  <2> QED BY <1>4, <1>9, <2>1, ConcatFacts
<1>12. ClassText(e) = t
  BY DEF ClassText, t, af, a, b, flat, items
<1> HIDE DEF t
<1>13. t[1] = Open /\ (e.negated => t[2] = Caret)
  <2>1. 1 \in 1..h /\ 1 \in 1..w /\ (e.negated => 2 \in 1..h /\ 2 \in 1..w)
    BY <1>3, <1>7 DEF h, w
  <2> QED BY <1>3, <1>9, <1>11, <2>1
<1>14. ASSUME NEW q \in 1..N, NEW r \in 1..Len(items[q])
       PROVE  t[h + off[q - 1] + r] = items[q][r]
  <2>1. q - 1 \in 0..N /\ q \in 0..N
    BY <1>1
  <2>2. off[q - 1] \in Nat /\ off[q] \in Nat /\ off[q] <= m /\ off[q] = off[q - 1] + Len(items[q])
    BY <1>8, <2>1
  <2>3. Len(items[q]) \in Nat
    BY <1>1 DEF N
  <2> DEFINE o == off[q - 1]
             k == Len(items[q])
  <2>4. o \in Nat /\ k \in Nat /\ r \in 1..k /\ o + k <= m
    BY <2>2, <2>3
  <2>5. flat[o + r] = items[q][r]
    BY <1>8
  <2> HIDE DEF o, k
  <2>6. o + r \in 1..m /\ h + (o + r) \in 1..w /\ h + o + r = h + (o + r)
    BY <1>3, <1>7, <2>4 DEF w
  <2>7. af[h + (o + r)] = flat[o + r] /\ t[h + (o + r)] = af[h + (o + r)]
    BY <1>9, <1>11, <2>6
  <2> QED BY <2>5, <2>6, <2>7 DEF o
<1>15. e.closed => t[h + m + 1] = Close
  <2>1. e.closed => 1 \in 1..l
    BY <1>4
  <2> QED BY <1>4, <1>11, <2>1 DEF w
<1>16. Len(t) = h + m + (IF e.closed THEN 1 ELSE 0)
  BY <1>11 DEF w, l
<1>17. h = IF e.negated THEN 2 ELSE 1
  BY DEF h
<1>18. ClassLaid(t, items, off, h, e.negated, e.closed)
  BY <1>8, <1>13, <1>14, <1>15, <1>16, <1>17 DEF ClassLaid, N
<1> QED BY <1>2, <1>11, <1>12, <1>18 DEF items

(* A text stands in the pattern from i on.                                 *)
Stands(p, i, t) == \A q \in 1..Len(t) : i + q - 1 <= Len(p) /\ p[i + q - 1] = t[q]

LEMMA ClassElement ==
  ASSUME NEW p \in Seq(Int), NEW s \in Seq(Int), NEW i \in 1..Len(p), NEW j \in 1..Len(s),
         NEW e, IsClass(e), Stands(p, i, ClassText(e)), ~e.closed => i + Len(ClassText(e)) = Len(p) + 1
  PROVE  /\ p[i] = Open
         /\ (CharAt(p, i + 1) = Caret) <=> e.negated
         /\ ClassAt(p, s, i, j).hit <=> \E q \in DOMAIN e.items : ItemTakes(e.items[q], s[j])
         /\ ClassAt(p, s, i, j).end + 1 = i + Len(ClassText(e))
<1> DEFINE items == e.items
           t == ClassText(e)
           N == Len(items)
           L == Len(p)
<1>1. t \in Seq(Int) /\ AreItems(items, e.closed)
  BY ClassTextFacts
<1>2. PICK off, h : ClassLaid(t, items, off, h, e.negated, e.closed)
  <2>1. \E off, h : ClassLaid(t, items, off, h, e.negated, e.closed)
    BY ClassTextFacts
  <2> QED BY <2>1
<1>3. /\ e.negated \in BOOLEAN /\ e.closed \in BOOLEAN /\ N \in Nat /\ L \in Nat /\ items \in Seq(Seq(Int))
      /\ e.negated \/ items = << >> \/ items[1][1] # Caret
  BY DEF IsClass
<1>4. /\ off \in [0..N -> Nat] /\ off[0] = 0
      /\ \A q \in 1..N : off[q] = off[q - 1] + Len(items[q]) /\ off[q] <= off[N]
  BY <1>2 DEF ClassLaid
<1>5. /\ h = IF e.negated THEN 2 ELSE 1
      /\ Len(t) = h + off[N] + (IF e.closed THEN 1 ELSE 0)
      /\ t[1] = Open /\ (e.negated => t[2] = Caret)
  BY <1>2 DEF ClassLaid
<1>6. /\ \A q \in 1..N : \A r \in 1..Len(items[q]) : t[h + off[q - 1] + r] = items[q][r]
      /\ e.closed => t[h + off[N] + 1] = Close
  BY <1>2 DEF ClassLaid
<1> DEFINE m == off[N]
           k == Len(t)
<1>7. m \in Nat /\ h \in {1, 2} /\ k = h + m + (IF e.closed THEN 1 ELSE 0)
  <2>1. N \in 0..N
    BY <1>3
  <2> QED BY <1>3, <1>4, <1>5, <2>1
<1>8. \A q \in 1..k : i + q - 1 <= L /\ p[i + q - 1] = t[q]
  BY DEF Stands
<1>9. ~e.closed => i + k = L + 1
  OBVIOUS
<1> HIDE DEF items, t, N, L, m, k
<1>i. i \in Nat /\ i >= 1 /\ i <= L
  BY <1>3 DEF L
<1>10. p[i] = Open
  <2>1. 1 \in 1..k /\ i + 1 - 1 = i
    BY <1>3, <1>7, <1>i
  <2> QED BY <1>5, <1>8, <2>1
<1>11. e.negated => CharAt(p, i + 1) = Caret
  <2>1. SUFFICES ASSUME e.negated PROVE CharAt(p, i + 1) = Caret
    OBVIOUS
  <2>a. h = 2
    BY <1>5, <2>1
  <2>2. 2 \in 1..k /\ i + 2 - 1 = i + 1
    BY <1>7, <1>i, <2>a
  <2>b. i + 2 - 1 <= L /\ p[i + 2 - 1] = t[2]
    BY <1>8, <2>2
  <2>c. i + 1 <= L /\ p[i + 1] = t[2]
    BY <2>2, <2>b
  <2>d. i + 1 \in 1..L
    BY <1>3, <1>i, <2>c
  <2>3. i + 1 <= L /\ p[i + 1] = t[2] /\ i + 1 \in 1..L
    BY <2>c, <2>d
  <2> QED BY <1>5, <2>1, <2>3 DEF CharAt, L
<1>12. ~e.negated => CharAt(p, i + 1) # Caret
  <2>1. SUFFICES ASSUME ~e.negated PROVE CharAt(p, i + 1) # Caret
    OBVIOUS
  <2>2. h = 1
    BY <1>5, <2>1
  <2>3. CASE items = << >> /\ e.closed
    <3>1. N = 0 /\ m = 0
      BY <1>4, <2>3 DEF N, m
    <3>2. t[2] = Close
      <4>1. h + off[N] + 1 = 2
        BY <2>2, <3>1 DEF m
      <4> QED BY <1>6, <2>3, <4>1
    <3>3. 2 \in 1..k /\ i + 2 - 1 = i + 1
      BY <1>7, <1>i, <2>2, <2>3, <3>1
    <3>4. i + 1 <= L /\ p[i + 1] = Close /\ i + 1 \in 1..L
      BY <1>3, <1>8, <1>i, <3>2, <3>3
    <3> QED BY <3>4 DEF CharAt, L, Close, Caret
  <2>4. CASE items = << >> /\ ~e.closed
    <3>1. N = 0 /\ m = 0
      BY <1>4, <2>4 DEF N, m
    <3>2. k = 1 /\ i = L
      BY <1>3, <1>7, <1>9, <1>i, <2>2, <2>4, <3>1
    <3>3. i + 1 \notin 1..L
      BY <1>3, <3>2
    <3> QED BY <3>3 DEF CharAt, L, Caret
  <2>5. CASE items # << >>
    <3>1. N >= 1 /\ 1 \in 1..N
      BY <1>3, <2>5 DEF N
    <3>2. Len(items[1]) \in 1..3
      BY <1>1, <3>1, ItemFacts DEF N
    <3> DEFINE g == Len(items[1])
    <3>a. g \in 1..3
      BY <3>2
    <3> HIDE DEF g
    <3>b. 1 \in 1..g /\ 1 - 1 = 0
      BY <3>a
    <3>3. off[1 - 1] = 0 /\ 1 \in 1..Len(items[1])
      BY <1>4, <3>b DEF g
    <3>4. t[h + off[1 - 1] + 1] = items[1][1]
      BY <1>6, <3>1, <3>3
    <3>5. h + off[1 - 1] + 1 = 2
      BY <2>2, <3>3
    <3>6. t[2] = items[1][1]
      BY <3>4, <3>5
    <3>7. off[1] = g /\ off[1] <= m
      <4>1. off[1] = off[1 - 1] + g /\ off[1] <= off[N]
        BY <1>4, <3>1 DEF g
      <4>2. off[1] = 0 + g
        BY <3>3, <4>1
      <4> QED BY <3>a, <4>1, <4>2 DEF m
    <3>8. 2 \in 1..k /\ i + 2 - 1 = i + 1
      <4>1. m >= 1
        BY <1>7, <3>a, <3>7
      <4> QED BY <1>3, <1>7, <1>i, <2>2, <4>1
    <3>9. i + 1 <= L /\ p[i + 1] = items[1][1] /\ i + 1 \in 1..L
      BY <1>3, <1>8, <1>i, <3>6, <3>8
    <3>10. CharAt(p, i + 1) = items[1][1]
      BY <3>9 DEF CharAt, L
    <3> QED BY <1>3, <2>1, <2>5, <3>10
  <2> QED BY <2>3, <2>4, <2>5
<1> DEFINE at == [q \in 0..N |-> i + h + off[q]]
<1>13. Items(at, p, items, e.closed)
  <2>1. \A q \in 0..N : off[q] \in Nat /\ off[q] <= m
    <3>1. \A q \in 0..N : q = 0 \/ q \in 1..N
      BY <1>3
    <3>2. off[0] = 0 /\ 0 <= m
      BY <1>4, <1>7
    <3>3. ASSUME NEW q \in 0..N PROVE off[q] \in Nat /\ off[q] <= m
      <4>1. off[q] \in Nat
        BY <1>4
      <4>2. q \in 1..N => off[q] <= m
        BY <1>4 DEF m
      <4>3. q = 0 => off[q] <= m
        BY <3>2
      <4> QED BY <3>1, <4>1, <4>2, <4>3
    <3> QED BY <3>3
  <2>2. i + h + m <= L + 1
    <3>1. CASE e.closed
      <4>1. k \in 1..k /\ k = h + m + 1
        BY <1>7, <3>1
      <4>2. i + k - 1 <= L
        BY <1>8, <4>1
      <4> QED BY <1>3, <1>7, <1>i, <4>1, <4>2
    <3>2. CASE ~e.closed
      BY <1>3, <1>7, <1>9, <1>i, <3>2
    <3> QED BY <3>1, <3>2
  <2>3. ASSUME NEW q \in 0..N PROVE at[q] \in 1..(L + 1)
    <3> DEFINE o == off[q]
    <3>1. o \in Nat /\ o <= m /\ at[q] = i + h + o
      BY <2>1
    <3> HIDE DEF o, at
    <3> QED BY <1>3, <1>7, <1>i, <2>2, <3>1
  <2>4. ASSUME NEW q \in 1..N
        PROVE  /\ at[q] = at[q - 1] + Len(items[q])
               /\ \A r \in 1..Len(items[q]) :
                    at[q - 1] + r - 1 <= L /\ p[at[q - 1] + r - 1] = items[q][r]
    <3> DEFINE o == off[q - 1]
               g == Len(items[q])
    <3>1. q - 1 \in 0..N /\ q \in 0..N
      BY <1>3
    <3>2. o \in Nat /\ g \in Nat /\ off[q] = o + g /\ off[q] <= m
      <4>1. g \in Nat
        BY <1>3 DEF N
      <4> QED BY <1>4, <2>1, <3>1, <4>1
    <3>3. at[q] = i + h + (o + g) /\ at[q - 1] = i + h + o
      BY <3>1, <3>2
    <3>4. \A r \in 1..g : t[h + o + r] = items[q][r]
      BY <1>6
    <3>5. o + g <= m
      BY <3>2
    <3> HIDE DEF o, g, at
    <3>6. at[q] = at[q - 1] + g
      BY <1>7, <1>i, <3>2, <3>3
    <3>7. ASSUME NEW r \in 1..g PROVE at[q - 1] + r - 1 <= L /\ p[at[q - 1] + r - 1] = items[q][r]
      <4>1. h + o + r \in 1..k /\ i + (h + o + r) - 1 = at[q - 1] + r - 1
        BY <1>3, <1>7, <1>i, <3>2, <3>3, <3>5
      <4> QED BY <1>8, <3>4, <4>1
    <3> QED BY <3>6, <3>7 DEF g
  <2>5. e.closed => at[N] <= L /\ p[at[N]] = Close
    <3>1. SUFFICES ASSUME e.closed PROVE at[N] <= L /\ p[at[N]] = Close
      OBVIOUS
    <3>2. at[N] = i + h + m
      BY <1>3 DEF m
    <3>3. k = h + m + 1 /\ k \in 1..k
      BY <1>7, <3>1
    <3>4. i + k - 1 <= L /\ p[i + k - 1] = t[k]
      BY <1>8, <3>3
    <3>5. t[k] = Close
      BY <1>6, <3>1, <3>3 DEF m
    <3> HIDE DEF at
    <3>6. i + k - 1 = at[N]
      BY <1>7, <1>i, <3>2, <3>3
    <3> QED BY <3>4, <3>5, <3>6
  <2>6. ~e.closed => at[N] = L + 1
    <3>1. at[N] = i + h + m
      BY <1>3 DEF m
    <3> HIDE DEF at
    <3> QED BY <1>3, <1>7, <1>9, <1>i, <3>1
  <2> HIDE DEF at
  <2> QED BY <2>3, <2>4, <2>5, <2>6 DEF Items, N, L
<1>14. at[0] = i + h /\ at[N] = i + h + m
  BY <1>3, <1>4, <1>7, <1>i DEF m
<1>15. s[j] \in Int
  OBVIOUS
<1> HIDE DEF at
<1>16. /\ Class(p, at[0], s[j]).hit <=> \E q \in 1..N : ItemTakes(items[q], s[j])
       /\ Class(p, at[0], s[j]).end = IF e.closed THEN at[N] ELSE L
  BY <1>1, <1>13, <1>15, ClassItems DEF N, L
<1>17. ClassAt(p, s, i, j) = Class(p, at[0], s[j])
  <2>1. (IF CharAt(p, i + 1) = Caret THEN i + 2 ELSE i + 1) = at[0]
    BY <1>3, <1>5, <1>11, <1>12, <1>14
  <2> QED BY <2>1 DEF ClassAt
<1>18. Class(p, at[0], s[j]).end + 1 = i + k
  <2> DEFINE x == Class(p, at[0], s[j]).end
  <2>1. x = IF e.closed THEN at[N] ELSE L
    BY <1>16
  <2> HIDE DEF x
  <2>2. e.closed => x + 1 = i + k
    BY <1>7, <1>14, <1>i, <2>1
  <2>3. ~e.closed => x + 1 = i + k
    BY <1>3, <1>7, <1>9, <1>i, <2>1
  <2>4. x + 1 = i + k
    BY <2>2, <2>3
  <2> QED BY <2>4 DEF x
<1>19. DOMAIN items = 1..N
  BY <1>3 DEF N
<1> QED BY <1>3, <1>10, <1>11, <1>12, <1>16, <1>17, <1>18, <1>19 DEF items, k, t

LEMMA ElementTextFacts ==
  ASSUME NEW e, IsElement(e)
  PROVE  /\ ElementText(e) \in Seq(Int) /\ Len(ElementText(e)) \in Nat \ {0}
         /\ e.kind = "star" => ElementText(e) = <<Star>> /\ Len(ElementText(e)) = 1
         /\ (ElementText(e)[1] = Star) <=> (e.kind = "star")
<1>1. CASE e.kind = "star"
  BY <1>1 DEF ElementText, Star
<1>2. CASE e.kind = "any"
  BY <1>2 DEF ElementText, Star, Question
<1>3. CASE e.kind = "char" /\ e.char \in Int \ {Star, Question, Open}
  BY <1>3 DEF ElementText
<1>4. CASE e.kind = "escaped" /\ e.char \in Int
  BY <1>4 DEF ElementText, Star, Backslash
<1>5. CASE e.kind = "class" /\ IsClass(e)
  <2> DEFINE t == ClassText(e)
             m == Len(t)
  <2>1. ElementText(e) = t
    BY <1>5 DEF ElementText
  <2>2. t \in Seq(Int)
    BY <1>5, ClassTextFacts
  <2>3. m \in Nat
    BY <2>2
  <2>4. \E off, h : ClassLaid(t, e.items, off, h, e.negated, e.closed)
    BY <1>5, ClassTextFacts
  <2>5. PICK off, h : ClassLaid(t, e.items, off, h, e.negated, e.closed)
    BY <2>4
  <2>6. t[1] = Open /\ m # 0
    <3>1. e.items \in Seq(Seq(Int))
      BY <1>5 DEF IsClass
    <3>2. Len(e.items) \in 0..Len(e.items)
      BY <3>1
    <3>3. off[Len(e.items)] \in Nat
      BY <2>5, <3>2 DEF ClassLaid
    <3>4. t[1] = Open /\ m = h + off[Len(e.items)] + (IF e.closed THEN 1 ELSE 0) /\ h \in {1, 2}
      BY <2>5 DEF ClassLaid
    <3> DEFINE o == off[Len(e.items)]
               l == IF e.closed THEN 1 ELSE 0
    <3>5. o \in Nat /\ l \in {0, 1} /\ m = h + o + l /\ h \in {1, 2}
      BY <3>3, <3>4
    <3> HIDE DEF o, l, m
    <3> QED BY <3>4, <3>5
  <2> HIDE DEF m, t
  <2>7. m \in Nat \ {0}
    BY <2>3, <2>6
  <2>8. e.kind # "star" /\ t[1] # Star
    BY <1>5, <2>6 DEF Open, Star
  <2> QED BY <2>1, <2>2, <2>7, <2>8 DEF m
<1> QED BY <1>1, <1>2, <1>3, <1>4, <1>5 DEF IsElement

RestMatches(match, p, s, k, j) == IF j = Len(s) THEN OnlyStars(p, k) ELSE match[k][j + 1]

(* An element other than a star takes one character.                       *)
LEMMA ElementStep ==
  ASSUME NEW p \in Seq(Int), NEW s \in Seq(Int), NEW i \in 1..Len(p), NEW j \in 1..Len(s), NEW match,
         NEW e, IsElement(e), e.kind # "star", Stands(p, i, ElementText(e)),
         EndsPattern(e) => i + Len(ElementText(e)) = Len(p) + 1
  PROVE  LET rest == RestMatches(match, p, s, i + Len(ElementText(e)), j)
         IN /\ MatchFrom(match, p, s, i, j) <=> Takes(e, s[j]) /\ rest
            /\ rest \in BOOLEAN => MatchFrom(match, p, s, i, j) \in BOOLEAN
<1> DEFINE L == Len(p)
           N == Len(s)
           t == ElementText(e)
           m == Len(t)
<1>1. L \in Nat /\ N \in Nat /\ i \in 1..L /\ j \in 1..N /\ ~(i > L \/ j > N) /\ s[j] \in Int
  OBVIOUS
<1>2. \A q \in 1..m : i + q - 1 <= L /\ p[i + q - 1] = t[q]
  BY DEF Stands
<1>3. CASE e.kind = "any"
  <2>1. t = <<Question>> /\ m = 1
    BY <1>3 DEF ElementText
  <2>2. p[i] = Question
    <3>1. 1 \in 1..m /\ i + 1 - 1 = i /\ t[1] = Question
      BY <1>1, <2>1
    <3> QED BY <1>2, <3>1
  <2>3. Takes(e, s[j])
    BY <1>3 DEF Takes
  <2> HIDE DEF t, m
  <2>4. MatchFrom(match, p, s, i, j) = RestMatches(match, p, s, i + 1, j)
    BY <1>1, <2>2 DEF MatchFrom, RestMatches, Question, Star
  <2> QED BY <2>1, <2>3, <2>4 DEF t, m
<1>4. CASE e.kind = "char" /\ e.char \in Int \ {Star, Question, Open}
  <2>1. t = <<e.char>> /\ m = 1
    BY <1>4 DEF ElementText
  <2>2. p[i] = e.char
    <3>1. 1 \in 1..m /\ i + 1 - 1 = i /\ t[1] = e.char
      BY <1>1, <2>1
    <3> QED BY <1>2, <3>1
  <2>3. p[i] = Backslash => i + m = L + 1
    BY <1>4, <2>2 DEF EndsPattern
  <2>4. Takes(e, s[j]) <=> s[j] = e.char
    BY <1>4 DEF Takes
  <2> HIDE DEF t, m, L
  <2>5. ~(p[i] = Backslash /\ i < L)
    BY <1>1, <2>1, <2>3
  <2>6. MatchFrom(match, p, s, i, j) = (p[i] = s[j] /\ RestMatches(match, p, s, i + 1, j))
    BY <1>1, <1>4, <2>2, <2>5 DEF MatchFrom, RestMatches, L
  <2> QED BY <2>1, <2>2, <2>4, <2>6 DEF t, m
<1>5. CASE e.kind = "escaped" /\ e.char \in Int
  <2>1. t = <<Backslash, e.char>> /\ m = 2
    BY <1>5 DEF ElementText
  <2>2. p[i] = Backslash /\ p[i + 1] = e.char /\ i < L
    <3>1. /\ 1 \in 1..m /\ i + 1 - 1 = i /\ t[1] = Backslash
          /\ 2 \in 1..m /\ i + 2 - 1 = i + 1 /\ t[2] = e.char
      BY <1>1, <2>1
    <3>2. i + 1 <= L /\ p[i + 1] = e.char /\ p[i] = Backslash
      BY <1>2, <3>1
    <3> QED BY <1>1, <3>2
  <2>3. Takes(e, s[j]) <=> s[j] = e.char
    BY <1>5 DEF Takes
  <2> HIDE DEF t, m
  <2>4. MatchFrom(match, p, s, i, j) = (p[i + 1] = s[j] /\ RestMatches(match, p, s, i + 2, j))
    BY <1>1, <2>2 DEF MatchFrom, RestMatches, Question, Star, Open, Backslash
  <2> QED BY <2>1, <2>2, <2>3, <2>4 DEF t, m
<1>6. CASE e.kind = "class" /\ IsClass(e)
  <2>1. t = ClassText(e)
    BY <1>6 DEF ElementText
  <2>2. ~e.closed => i + Len(ClassText(e)) = Len(p) + 1
    BY <1>6, <2>1 DEF EndsPattern
  <2>3. Stands(p, i, ClassText(e))
    BY <2>1
  <2>4. /\ p[i] = Open
        /\ (CharAt(p, i + 1) = Caret) <=> e.negated
        /\ ClassAt(p, s, i, j).hit <=> \E q \in DOMAIN e.items : ItemTakes(e.items[q], s[j])
        /\ ClassAt(p, s, i, j).end + 1 = i + Len(ClassText(e))
    BY <1>6, <2>2, <2>3, ClassElement
  <2> DEFINE class == ClassAt(p, s, i, j)
             negated == CharAt(p, i + 1) = Caret
             some == \E q \in DOMAIN e.items : ItemTakes(e.items[q], s[j])
  <2>5. Takes(e, s[j]) <=> (e.negated <=> ~some)
    BY <1>6 DEF Takes
  <2>6. MatchFrom(match, p, s, i, j) = ((class.hit <=> ~negated) /\ RestMatches(match, p, s, class.end + 1, j))
    BY <1>1, <2>4 DEF MatchFrom, RestMatches, ClassAt, Question, Star, Open
  <2>7. (class.hit <=> ~negated) <=> (e.negated <=> ~some)
    BY <2>4
  <2>8. class.end + 1 = i + m
    BY <2>1, <2>4
  <2> HIDE DEF class, negated, some, t, m
  <2> QED BY <2>5, <2>6, <2>7, <2>8 DEF t, m
<1> QED BY <1>3, <1>4, <1>5, <1>6 DEF IsElement

-----------------------------------------------------------------------------
(* What the rest of a pattern means                                        *)

(* An element leads from one place of the name to another.                 *)
Leads(e, s, from, to) ==
  /\ IF e.kind = "star" THEN from <= to ELSE to = from + 1
  /\ \A j \in (from + 1)..to : Takes(e, s[j])

(* The elements from k on can have the name from j on.                     *)
MeansFrom(els, s, k, j) ==
  \E to \in [(k - 1)..Len(els) -> 0..Len(s)] :
    /\ to[k - 1] = j - 1 /\ to[Len(els)] = Len(s)
    /\ \A l \in k..Len(els) : Leads(els[l], s, to[l - 1], to[l])

LEMMA MeansAll ==
  ASSUME NEW els, NEW S, els \in Seq(S), NEW s \in Seq(Int)
  PROVE  Means(els, s) <=> MeansFrom(els, s, 1, 1)
<1> DEFINE K == Len(els)
           N == Len(s)
<1>1. K \in Nat /\ N \in Nat /\ DOMAIN els = 1..K
  OBVIOUS
<1>2. CASE els = << >>
  <2>1. K = 0
    BY <1>2
  <2>2. s = << >> <=> N = 0
    OBVIOUS
  <2>3. ASSUME N = 0 PROVE MeansFrom(els, s, 1, 1)
    <3> DEFINE to == [l \in 0..0 |-> 0]
    <3>1. to \in [(1 - 1)..Len(els) -> 0..Len(s)] /\ to[1 - 1] = 1 - 1 /\ to[Len(els)] = Len(s)
      BY <2>1, <2>3
    <3>2. \A l \in 1..Len(els) : FALSE
      BY <2>1
    <3> HIDE DEF to
    <3> QED BY <3>1, <3>2 DEF MeansFrom
  <2>4. ASSUME MeansFrom(els, s, 1, 1) PROVE N = 0
    <3>1. PICK to \in [(1 - 1)..Len(els) -> 0..Len(s)] : to[1 - 1] = 1 - 1 /\ to[Len(els)] = Len(s)
      BY <2>4 DEF MeansFrom
    <3>2. 1 - 1 = 0 /\ Len(els) = 0
      BY <2>1
    <3> QED BY <3>1, <3>2
  <2> QED BY <1>2, <2>2, <2>3, <2>4 DEF Means
<1>3. CASE els # << >>
  <2>0. K \in 1..K /\ 0 \in 0..K /\ K \in 0..K
    BY <1>1, <1>3
  <2>1. ASSUME Means(els, s) PROVE MeansFrom(els, s, 1, 1)
    <3>1. PICK to \in Divisions(els, s) : to[K] = N
      BY <1>3, <2>1 DEF Means
    <3>2. /\ to \in [1..K -> 0..N]
          /\ \A k \in 1..K : Leads(els[k], s, IF k = 1 THEN 0 ELSE to[k - 1], to[k])
      BY <1>1 DEF Divisions, Leads
    <3> DEFINE more == [l \in 0..K |-> IF l = 0 THEN 0 ELSE to[l]]
    <3>3. more \in [0..K -> 0..N]
      <4>1. \A l \in 0..K : l # 0 => l \in 1..K
        BY <1>1
      <4>2. \A l \in 0..K : l # 0 => to[l] \in 0..N
        BY <3>2, <4>1
      <4>3. 0 \in 0..N
        BY <1>1
      <4> QED BY <4>2, <4>3
    <3>4. more[0] = 0 /\ more[K] = N
      BY <1>1, <2>0, <3>1
    <3>5. ASSUME NEW l \in 1..K PROVE Leads(els[l], s, more[l - 1], more[l])
      <4>1. l \in 0..K /\ l - 1 \in 0..K /\ l # 0 /\ (l - 1 = 0 <=> l = 1)
        BY <1>1
      <4>2. more[l] = to[l] /\ more[l - 1] = IF l = 1 THEN 0 ELSE to[l - 1]
        BY <4>1
      <4> HIDE DEF more
      <4> QED BY <3>2, <4>2
    <3> HIDE DEF more
    <3>6. 1 - 1 = 0
      OBVIOUS
    <3> QED BY <3>3, <3>4, <3>5, <3>6 DEF MeansFrom
  <2>2. ASSUME MeansFrom(els, s, 1, 1) PROVE Means(els, s)
    <3>1. PICK more \in [(1 - 1)..Len(els) -> 0..Len(s)] :
            /\ more[1 - 1] = 1 - 1 /\ more[Len(els)] = Len(s)
            /\ \A l \in 1..Len(els) : Leads(els[l], s, more[l - 1], more[l])
      BY <2>2 DEF MeansFrom
    <3>a. 1 - 1 = 0
      OBVIOUS
    <3>2. /\ more \in [0..K -> 0..N] /\ more[0] = 0 /\ more[K] = N
          /\ \A l \in 1..K : Leads(els[l], s, more[l - 1], more[l])
      BY <3>1, <3>a
    <3> DEFINE to == [l \in 1..K |-> more[l]]
    <3>3. to \in [1..K -> 0..N]
      <4>1. \A l \in 1..K : l \in 0..K
        BY <1>1
      <4>2. \A l \in 1..K : more[l] \in 0..N
        BY <3>2, <4>1
      <4> QED BY <4>2
    <3>4. to[K] = N
      BY <2>0, <3>2
    <3>5. ASSUME NEW l \in 1..K PROVE Leads(els[l], s, IF l = 1 THEN 0 ELSE to[l - 1], to[l])
      <4>1. l # 1 => l - 1 \in 1..K
        BY <1>1
      <4>2. l = 1 => l - 1 = 0
        OBVIOUS
      <4>3. to[l] = more[l] /\ (IF l = 1 THEN 0 ELSE to[l - 1]) = more[l - 1]
        BY <3>2, <4>1, <4>2
      <4> HIDE DEF to
      <4> QED BY <3>2, <4>3
    <3> HIDE DEF to
    <3>6. to \in Divisions(els, s)
      BY <1>1, <3>3, <3>5 DEF Divisions, Leads
    <3> QED BY <1>3, <3>4, <3>6 DEF Means
  <2> QED BY <2>1, <2>2
<1> QED BY <1>2, <1>3

(* Behind the last element nothing may be left of the name.                *)
LEMMA MeansNone ==
  ASSUME NEW els, NEW S, els \in Seq(S), NEW s \in Seq(Int), NEW j \in 1..(Len(s) + 1)
  PROVE  MeansFrom(els, s, Len(els) + 1, j) <=> j = Len(s) + 1
<1> DEFINE K == Len(els)
           N == Len(s)
<1>1. K \in Nat /\ N \in Nat /\ (K + 1) - 1 = K /\ j \in 1..(N + 1)
  OBVIOUS
<1>2. ASSUME j = N + 1 PROVE MeansFrom(els, s, K + 1, j)
  <2> DEFINE to == [l \in K..K |-> N]
  <2>1. to \in [K..K -> 0..N] /\ to[K] = N /\ N = j - 1
    BY <1>1, <1>2
  <2>2. \A l \in (K + 1)..K : FALSE
    BY <1>1
  <2> HIDE DEF to
  <2> QED BY <1>1, <2>1, <2>2 DEF MeansFrom
<1>3. ASSUME MeansFrom(els, s, K + 1, j) PROVE j = N + 1
  <2>1. PICK to \in [((K + 1) - 1)..Len(els) -> 0..Len(s)] :
          to[(K + 1) - 1] = j - 1 /\ to[Len(els)] = Len(s)
    BY <1>3 DEF MeansFrom
  <2>2. N = j - 1
    BY <1>1, <2>1
  <2> QED BY <1>1, <2>2
<1> QED BY <1>2, <1>3

LEMMA MeansNext ==
  ASSUME NEW els, NEW S, els \in Seq(S), NEW s \in Seq(Int),
         NEW k \in 1..Len(els), NEW j \in 1..(Len(s) + 1)
  PROVE  MeansFrom(els, s, k, j)
           <=> \E b \in 0..Len(s) : Leads(els[k], s, j - 1, b) /\ MeansFrom(els, s, k + 1, b + 1)
<1> DEFINE K == Len(els)
           N == Len(s)
<1>1. /\ K \in Nat /\ N \in Nat /\ k \in 1..K /\ j \in 1..(N + 1) /\ (k + 1) - 1 = k
      /\ k \in (k - 1)..K /\ k - 1 \in (k - 1)..K /\ K \in k..K /\ k - 1 # k /\ k \in k..K
      /\ k - 1 # K /\ K \in (k - 1)..K
  OBVIOUS
<1>2. ASSUME MeansFrom(els, s, k, j)
      PROVE  \E b \in 0..N : Leads(els[k], s, j - 1, b) /\ MeansFrom(els, s, k + 1, b + 1)
  <2>1. PICK to \in [(k - 1)..K -> 0..N] :
          /\ to[k - 1] = j - 1 /\ to[K] = N
          /\ \A l \in k..K : Leads(els[l], s, to[l - 1], to[l])
    BY <1>2 DEF MeansFrom
  <2> DEFINE b == to[k]
             less == [l \in k..K |-> to[l]]
  <2>2. b \in 0..N /\ Leads(els[k], s, j - 1, b) /\ (b + 1) - 1 = b
    <3>1. b \in 0..N
      BY <1>1
    <3>2. Leads(els[k], s, to[k - 1], to[k])
      BY <1>1, <2>1
    <3> QED BY <2>1, <3>1, <3>2
  <2>3. less \in [k..K -> 0..N] /\ less[k] = b /\ less[K] = N
    <3>1. \A l \in k..K : l \in (k - 1)..K
      BY <1>1
    <3>2. \A l \in k..K : to[l] \in 0..N
      BY <3>1
    <3> QED BY <1>1, <2>1, <3>2
  <2>4. ASSUME NEW l \in (k + 1)..K PROVE Leads(els[l], s, less[l - 1], less[l])
    <3>1. l \in k..K /\ l - 1 \in k..K
      BY <1>1
    <3>2. less[l - 1] = to[l - 1] /\ less[l] = to[l]
      BY <3>1
    <3> HIDE DEF less
    <3> QED BY <2>1, <3>1, <3>2
  <2> HIDE DEF less, b
  <2>5. MeansFrom(els, s, k + 1, b + 1)
    BY <1>1, <2>2, <2>3, <2>4 DEF MeansFrom
  <2> QED BY <2>2, <2>5
<1>3. ASSUME NEW b \in 0..N, Leads(els[k], s, j - 1, b), MeansFrom(els, s, k + 1, b + 1)
      PROVE  MeansFrom(els, s, k, j)
  <2>1. PICK less \in [((k + 1) - 1)..K -> 0..N] :
          /\ less[(k + 1) - 1] = (b + 1) - 1 /\ less[K] = N
          /\ \A l \in (k + 1)..K : Leads(els[l], s, less[l - 1], less[l])
    BY <1>3 DEF MeansFrom
  <2>2. (b + 1) - 1 = b
    OBVIOUS
  <2>3. less \in [k..K -> 0..N] /\ less[k] = b /\ less[K] = N
    BY <1>1, <2>1, <2>2
  <2> DEFINE to == [l \in (k - 1)..K |-> IF l = k - 1 THEN j - 1 ELSE less[l]]
  <2>4. to \in [(k - 1)..K -> 0..N]
    <3>1. \A l \in (k - 1)..K : l # k - 1 => l \in k..K
      BY <1>1
    <3>2. \A l \in (k - 1)..K : l # k - 1 => less[l] \in 0..N
      BY <2>3, <3>1
    <3>3. j - 1 \in 0..N
      BY <1>1
    <3> QED BY <3>2, <3>3
  <2>5. to[k - 1] = j - 1 /\ to[K] = N
    BY <1>1, <2>3
  <2>6. ASSUME NEW l \in k..K PROVE Leads(els[l], s, to[l - 1], to[l])
    <3>1. l \in (k - 1)..K /\ l - 1 \in (k - 1)..K /\ l # k - 1 /\ (l # k => l \in (k + 1)..K /\ l - 1 # k - 1)
      BY <1>1
    <3>2. to[l] = less[l] /\ (l = k => to[l - 1] = j - 1) /\ (l # k => to[l - 1] = less[l - 1])
      BY <3>1
    <3> HIDE DEF to
    <3>3. CASE l = k
      BY <1>3, <2>3, <3>2, <3>3
    <3>4. CASE l # k
      BY <2>1, <3>1, <3>2, <3>4
    <3> QED BY <3>3, <3>4
  <2> HIDE DEF to
  <2> QED BY <2>4, <2>5, <2>6 DEF MeansFrom
<1> QED BY <1>2, <1>3

LEMMA MeansOne ==
  ASSUME NEW els, NEW S, els \in Seq(S), NEW s \in Seq(Int),
         NEW k \in 1..Len(els), NEW j \in 1..(Len(s) + 1), els[k].kind # "star"
  PROVE  /\ j = Len(s) + 1 => ~MeansFrom(els, s, k, j)
         /\ j <= Len(s) => (MeansFrom(els, s, k, j)
                              <=> Takes(els[k], s[j]) /\ MeansFrom(els, s, k + 1, j + 1))
<1> DEFINE N == Len(s)
<1>1. N \in Nat /\ j \in 1..(N + 1) /\ (j - 1) + 1 = j /\ \A x \in j..j : x = j
  OBVIOUS
<1>2. MeansFrom(els, s, k, j)
           <=> \E b \in 0..N : Leads(els[k], s, j - 1, b) /\ MeansFrom(els, s, k + 1, b + 1)
  BY MeansNext
<1>3. \A b : Leads(els[k], s, j - 1, b) <=> b = j /\ Takes(els[k], s[j])
  <2>1. ASSUME NEW b, Leads(els[k], s, j - 1, b) PROVE b = j /\ Takes(els[k], s[j])
    <3>1. b = (j - 1) + 1 /\ \A x \in ((j - 1) + 1)..b : Takes(els[k], s[x])
      BY <2>1 DEF Leads
    <3>2. j \in j..j
      BY <1>1
    <3> QED BY <1>1, <3>1, <3>2
  <2>2. ASSUME Takes(els[k], s[j]) PROVE Leads(els[k], s, j - 1, j)
    BY <1>1, <2>2 DEF Leads
  <2> QED BY <2>1, <2>2
<1>4. j = N + 1 => j \notin 0..N
  BY <1>1
<1>5. j <= N => j \in 0..N
  BY <1>1
<1> HIDE DEF N
<1> QED BY <1>2, <1>3, <1>4, <1>5 DEF N

LEMMA MeansStar ==
  ASSUME NEW els, NEW S, els \in Seq(S), NEW s \in Seq(Int),
         NEW k \in 1..Len(els), NEW j \in 1..(Len(s) + 1), els[k].kind = "star"
  PROVE  MeansFrom(els, s, k, j) <=> \E x \in j..(Len(s) + 1) : MeansFrom(els, s, k + 1, x)
<1> DEFINE N == Len(s)
<1>1. N \in Nat /\ j \in 1..(N + 1)
  OBVIOUS
<1>2. MeansFrom(els, s, k, j)
           <=> \E b \in 0..N : Leads(els[k], s, j - 1, b) /\ MeansFrom(els, s, k + 1, b + 1)
  BY MeansNext
<1>3. \A b : Leads(els[k], s, j - 1, b) <=> j - 1 <= b
  BY DEF Leads, Takes
<1> HIDE DEF N
<1>4. ASSUME NEW b \in 0..N, j - 1 <= b PROVE b + 1 \in j..(N + 1)
  BY <1>1, <1>4
<1>5. ASSUME NEW x \in j..(N + 1) PROVE x - 1 \in 0..N /\ j - 1 <= x - 1 /\ (x - 1) + 1 = x
  BY <1>1
<1>6. ASSUME MeansFrom(els, s, k, j) PROVE \E x \in j..(N + 1) : MeansFrom(els, s, k + 1, x)
  BY <1>2, <1>3, <1>4, <1>6
<1>7. ASSUME NEW x \in j..(N + 1), MeansFrom(els, s, k + 1, x) PROVE MeansFrom(els, s, k, j)
  <2>1. MeansFrom(els, s, k + 1, (x - 1) + 1) /\ Leads(els[k], s, j - 1, x - 1)
    BY <1>3, <1>5, <1>7
  <2> QED BY <1>2, <1>5, <2>1
<1> QED BY <1>6, <1>7 DEF N

(* Two stars are one.                                                      *)
LEMMA MeansStars ==
  ASSUME NEW els, NEW S, els \in Seq(S), NEW s \in Seq(Int),
         NEW k \in 1..Len(els), k + 1 <= Len(els), NEW j \in 1..(Len(s) + 1),
         els[k].kind = "star", els[k + 1].kind = "star"
  PROVE  MeansFrom(els, s, k, j) <=> MeansFrom(els, s, k + 1, j)
<1> DEFINE N == Len(s)
<1>1. N \in Nat /\ j \in 1..(N + 1) /\ k + 1 \in 1..Len(els)
  OBVIOUS
<1>2. \A x \in 1..(N + 1) :
        MeansFrom(els, s, k + 1, x) <=> \E y \in x..(N + 1) : MeansFrom(els, s, k + 1 + 1, y)
  BY <1>1, MeansStar
<1>3. MeansFrom(els, s, k, j) <=> \E x \in j..(N + 1) : MeansFrom(els, s, k + 1, x)
  BY MeansStar
<1> HIDE DEF N
<1>4. j \in j..(N + 1) /\ \A x \in j..(N + 1) : x \in 1..(N + 1) /\ \A y \in x..(N + 1) : y \in j..(N + 1)
  BY <1>1
<1> QED BY <1>1, <1>2, <1>3, <1>4

-----------------------------------------------------------------------------
(* A composed pattern                                                      *)

Composed(els) ==
  /\ els \in Seq(GlobElements)
  /\ \A k \in 1..Len(els) : k < Len(els) => ~EndsPattern(els[k])

(* off says where each element ends in the text.                           *)
TextLaid(p, els, off) ==
  /\ off \in [0..Len(els) -> Nat] /\ off[0] = 0 /\ off[Len(els)] = Len(p)
  /\ \A k \in 1..Len(els) :
       /\ IsElement(els[k]) /\ off[k - 1] + 1 \in 1..Len(p)
       /\ off[k] = off[k - 1] + Len(ElementText(els[k]))
       /\ Stands(p, off[k - 1] + 1, ElementText(els[k]))
       /\ EndsPattern(els[k]) => k = Len(els)

LEMMA TextFacts ==
  ASSUME NEW els, Composed(els)
  PROVE  Text(els) \in Seq(Int) /\ \E off : TextLaid(Text(els), els, off)
<1> DEFINE K == Len(els)
           texts == [k \in DOMAIN els |-> ElementText(els[k])]
           p == Text(els)
<1>1. els \in Seq(GlobElements) /\ K \in Nat /\ DOMAIN els = 1..K
  BY DEF Composed
<1>2. ASSUME NEW k \in 1..K PROVE IsElement(els[k])
  <2>1. els[k] \in GlobElements
    BY <1>1
  <2> QED BY <2>1, GlobAssumption
<1>3. ASSUME NEW k \in 1..K
      PROVE  ElementText(els[k]) \in Seq(Int) /\ Len(ElementText(els[k])) \in Nat \ {0}
  BY <1>2, ElementTextFacts
<1>4. texts = [k \in 1..K |-> ElementText(els[k])] /\ Text(els) = FlattenSeq(texts)
  BY <1>1 DEF Text
<1>5. texts \in Seq(Seq(Int)) /\ Len(texts) = K /\ \A k \in 1..K : texts[k] = ElementText(els[k])
  <2> HIDE DEF texts, K
  <2>1. \A k \in 1..K : ElementText(els[k]) \in Seq(Int)
    BY <1>3
  <2>2. texts \in [1..K -> Seq(Int)]
    BY <1>4, <2>1
  <2>3. texts \in Seq(Seq(Int))
    BY <1>1, <2>2, IsASeq
  <2>4. Len(texts) = K
    BY <1>1, <2>2, <2>3
  <2>5. \A k \in 1..K : texts[k] = ElementText(els[k])
    BY <1>4
  <2> QED BY <2>3, <2>4, <2>5
<1> HIDE DEF texts, K, p
<1>6. p \in Seq(Int) /\ \E off : Pieces(off, p, texts)
  BY <1>4, <1>5, AllPieces DEF p
<1>7. PICK off : Pieces(off, p, texts)
  BY <1>6
<1> DEFINE L == Len(p)
<1>8. L \in Nat
  BY <1>6
<1>9. /\ off \in [0..K -> Nat] /\ off[0] = 0 /\ off[K] = L
      /\ \A k \in 1..K : /\ off[k] = off[k - 1] + Len(texts[k]) /\ off[k] <= L
                         /\ \A q \in 1..Len(texts[k]) : p[off[k - 1] + q] = texts[k][q]
  BY <1>5, <1>7 DEF Pieces
<1> HIDE DEF L
<1>10. ASSUME NEW k \in 1..K
       PROVE  /\ off[k - 1] + 1 \in 1..L /\ off[k] = off[k - 1] + Len(ElementText(els[k]))
              /\ Stands(p, off[k - 1] + 1, ElementText(els[k]))
  <2> DEFINE t == ElementText(els[k])
             m == Len(t)
             o == off[k - 1]
  <2>1. m \in Nat \ {0} /\ texts[k] = t
    BY <1>3, <1>5
  <2>2. k - 1 \in 0..K
    BY <1>1
  <2>3. o \in Nat
    BY <1>9, <2>2
  <2>4. off[k] = o + m /\ off[k] <= L /\ \A q \in 1..m : p[o + q] = t[q]
    BY <1>9, <2>1
  <2> HIDE DEF o, m, t
  <2>5. o + 1 \in 1..L
    BY <1>8, <2>1, <2>3, <2>4
  <2>6. ASSUME NEW q \in 1..m PROVE (o + 1) + q - 1 <= L /\ p[(o + 1) + q - 1] = t[q]
    <3>1. (o + 1) + q - 1 = o + q /\ o + q <= L
      BY <1>8, <2>1, <2>3, <2>4
    <3> QED BY <2>4, <3>1
  <2>7. Stands(p, o + 1, t)
    BY <2>6 DEF Stands, L, m
  <2> QED BY <2>4, <2>5, <2>7 DEF o, m, t
<1>11. ASSUME NEW k \in 1..K, EndsPattern(els[k]) PROVE k = K
  <2>1. \A l \in 1..K : l < K => ~EndsPattern(els[l])
    BY DEF Composed, K
  <2>2. ~(k < K)
    BY <1>11, <2>1
  <2> QED BY <1>1, <2>2
<1>12. TextLaid(p, els, off)
  BY <1>2, <1>9, <1>10, <1>11 DEF TextLaid, K, L
<1> QED BY <1>6, <1>12 DEF p

(* A star stands for itself, and nothing else begins with it.              *)
LEMMA TextStars ==
  ASSUME NEW p \in Seq(Int), NEW els, NEW off, TextLaid(p, els, off), NEW k \in 1..Len(els)
  PROVE  /\ (p[off[k - 1] + 1] = Star) <=> (els[k].kind = "star")
         /\ els[k].kind = "star" => off[k] = off[k - 1] + 1
<1> DEFINE t == ElementText(els[k])
           o == off[k - 1]
           m == Len(t)
<1>1. IsElement(els[k]) /\ Stands(p, o + 1, t) /\ off[k] = o + m /\ o + 1 \in 1..Len(p)
  BY DEF TextLaid
<1>2. /\ m \in Nat \ {0} /\ (t[1] = Star <=> els[k].kind = "star")
      /\ els[k].kind = "star" => m = 1
  BY <1>1, ElementTextFacts
<1>3. o \in Int
  <2>1. off \in [0..Len(els) -> Nat]
    BY DEF TextLaid
  <2>2. k - 1 \in 0..Len(els)
    OBVIOUS
  <2> HIDE DEF m, t
  <2> QED BY <2>1, <2>2
<1>4. \A q \in 1..m : p[(o + 1) + q - 1] = t[q]
  BY <1>1 DEF Stands
<1> HIDE DEF m, t, o
<1>5. 1 \in 1..m /\ (o + 1) + 1 - 1 = o + 1
  BY <1>2, <1>3
<1>6. p[o + 1] = t[1]
  BY <1>4, <1>5
<1> QED BY <1>1, <1>2, <1>6 DEF o

LEMMA StarsLeft ==
  ASSUME NEW p \in Seq(Int), NEW s \in Seq(Int), NEW els, Composed(els), NEW off, TextLaid(p, els, off),
         NEW k \in 1..(Len(els) + 1)
  PROVE  OnlyStars(p, off[k - 1] + 1) <=> MeansFrom(els, s, k, Len(s) + 1)
<1> DEFINE K == Len(els)
           N == Len(s)
           L == Len(p)
           Good(l) == OnlyStars(p, off[l - 1] + 1) <=> MeansFrom(els, s, l, N + 1)
           T == {d \in Nat : d <= K => Good(K + 1 - d)}
<1>1. /\ K \in Nat /\ N \in Nat /\ L \in Nat /\ els \in Seq(GlobElements)
      /\ off \in [0..K -> Nat] /\ off[0] = 0 /\ off[K] = L
  BY DEF TextLaid, Composed
<1>2. Good(K + 1)
  <2>1. N + 1 \in 1..(Len(s) + 1) /\ N + 1 = Len(s) + 1
    BY <1>1
  <2>2. MeansFrom(els, s, K + 1, N + 1)
    BY <1>1, <2>1, MeansNone
  <2>3. (L + 1)..L = {} /\ off[(K + 1) - 1] = L
    BY <1>1
  <2>4. OnlyStars(p, off[(K + 1) - 1] + 1)
    BY <2>3 DEF OnlyStars
  <2> QED BY <2>2, <2>4
<1>3. ASSUME NEW l \in 1..K, Good(l + 1) PROVE Good(l)
  <2> DEFINE i == off[l - 1] + 1
  <2>1. off[l - 1] \in Nat /\ off[l] \in Nat /\ i \in 1..L /\ (l + 1) - 1 = l
    <3>1. l - 1 \in 0..K /\ l \in 0..K /\ (l + 1) - 1 = l
      BY <1>1
    <3>2. i \in 1..L
      BY DEF TextLaid
    <3> QED BY <1>1, <3>1, <3>2
  <2>2. (p[i] = Star <=> els[l].kind = "star") /\ (els[l].kind = "star" => off[l] = off[l - 1] + 1)
    BY TextStars
  <2>3. N + 1 \in 1..(Len(s) + 1)
    BY <1>1
  <2> HIDE DEF Good, K
  <2>4. CASE els[l].kind = "star"
    <3>1. off[l] + 1 = i + 1
      BY <2>2, <2>4
    <3>2. OnlyStars(p, i) <=> OnlyStars(p, i + 1)
      <4>1. \A x \in i..L : x = i \/ x \in (i + 1)..L
        BY <1>1, <2>1
      <4>2. \A x \in (i + 1)..L : x \in i..L
        BY <1>1, <2>1
      <4> QED BY <2>2, <2>4, <4>1, <4>2 DEF OnlyStars
    <3>3. MeansFrom(els, s, l, N + 1) <=> \E x \in (N + 1)..(N + 1) : MeansFrom(els, s, l + 1, x)
      <4>1. l \in 1..Len(els)
        BY DEF K
      <4> QED BY <1>1, <2>3, <2>4, <4>1, MeansStar
    <3>4. \A x : x \in (N + 1)..(N + 1) <=> x = N + 1
      BY <1>1
    <3>5. OnlyStars(p, off[(l + 1) - 1] + 1) <=> MeansFrom(els, s, l + 1, N + 1)
      BY <1>3 DEF Good
    <3> HIDE DEF i
    <3>6. OnlyStars(p, i) <=> MeansFrom(els, s, l, N + 1)
      BY <2>1, <3>1, <3>2, <3>3, <3>4, <3>5
    <3> QED BY <3>6 DEF Good, i
  <2>5. CASE els[l].kind # "star"
    <3>1. ~OnlyStars(p, i)
      <4>1. i \in i..L
        BY <1>1, <2>1
      <4> QED BY <2>2, <2>5, <4>1 DEF OnlyStars
    <3>2. ~MeansFrom(els, s, l, N + 1)
      <4>1. l \in 1..Len(els) /\ N + 1 = Len(s) + 1
        BY DEF K
      <4> QED BY <1>1, <2>3, <2>5, <4>1, MeansOne
    <3> QED BY <3>1, <3>2 DEF Good
  <2> QED BY <2>4, <2>5
<1> HIDE DEF Good, K
<1>4. 0 \in T
  <2>1. K + 1 - 0 = K + 1
    BY <1>1
  <2> QED BY <1>2, <2>1
<1>5. ASSUME NEW d \in 0..(K - 1), d \in T PROVE d + 1 \in T
  <2> DEFINE l == K + 1 - (d + 1)
  <2>1. l \in 1..K /\ l + 1 = K + 1 - d /\ d <= K /\ d + 1 \in Nat
    BY <1>1
  <2>2. Good(l + 1)
    BY <1>5, <2>1
  <2>3. Good(l)
    <3> HIDE DEF l
    <3> QED BY <1>3, <2>1, <2>2
  <2> QED BY <2>1, <2>3
<1>6. \A d \in 0..K : d \in T
  <2> HIDE DEF T
  <2> QED BY <1>1, <1>4, <1>5, NoneFails
<1>7. Good(k)
  <2> DEFINE d == K + 1 - k
  <2>1. d \in 0..K /\ d <= K /\ K + 1 - d = k
    BY <1>1 DEF K
  <2>2. d \in T
    <3> HIDE DEF T, d
    <3> QED BY <1>6, <2>1
  <2>3. Good(K + 1 - d)
    BY <2>1, <2>2
  <2> QED BY <2>1, <2>3
<1> QED BY <1>7 DEF Good

LEMMA OneMore ==
  ASSUME NEW a \in Nat, NEW b \in Nat, a <= b
  PROVE  \A y : y \in a..(b + 1) <=> y \in a..b \/ y = b + 1
OBVIOUS

(* From each element on, the code finds what the rest of the pattern means.*)
LEMMA MatchMeans ==
  ASSUME NEW p \in Seq(Int), NEW s \in Seq(Int), s # << >>, NEW els, Composed(els),
         NEW off, TextLaid(p, els, off), NEW match,
         \A i \in 1..(Len(p) + 1), j \in 1..(Len(s) + 1) : match[i][j] = MatchFrom(match, p, s, i, j)
  PROVE  /\ match[1][1] \in BOOLEAN
         /\ match[1][1] <=> MeansFrom(els, s, 1, 1)
<1> DEFINE K == Len(els)
           N == Len(s)
           L == Len(p)
           i(k) == off[k - 1] + 1
           Good(k) == \A j \in 1..N : /\ match[i(k)][j] \in BOOLEAN
                                      /\ match[i(k)][j] <=> MeansFrom(els, s, k, j)
           T == {d \in Nat : d <= K => Good(K + 1 - d)}
<1>1. /\ K \in Nat /\ N \in Nat \ {0} /\ L \in Nat /\ els \in Seq(GlobElements)
      /\ off \in [0..K -> Nat] /\ off[0] = 0 /\ off[K] = L
  BY DEF TextLaid, Composed
<1>2. \A k \in 1..K : i(k) \in 1..L
  BY DEF TextLaid
<1>3. Good(K + 1)
  <2>1. i(K + 1) = L + 1 /\ L + 1 \in 1..(L + 1)
    <3>1. (K + 1) - 1 = K
      BY <1>1
    <3> QED BY <1>1, <3>1
  <2>2. ASSUME NEW j \in 1..N PROVE match[L + 1][j] = FALSE /\ ~MeansFrom(els, s, K + 1, j)
    <3>1. j \in 1..(N + 1) /\ ~(j > N) /\ L + 1 > L /\ j # N + 1
      BY <1>1
    <3>2. match[L + 1][j] = MatchFrom(match, p, s, L + 1, j)
      BY <2>1, <3>1
    <3>3. MatchFrom(match, p, s, L + 1, j) = FALSE
      BY <3>1 DEF MatchFrom
    <3>4. ~MeansFrom(els, s, K + 1, j)
      BY <1>1, <3>1, MeansNone
    <3> QED BY <3>2, <3>3, <3>4
  <2>3. ASSUME NEW j \in 1..N
        PROVE  match[i(K + 1)][j] \in BOOLEAN /\ (match[i(K + 1)][j] <=> MeansFrom(els, s, K + 1, j))
    <3> HIDE DEF i
    <3> QED BY <2>1, <2>2
  <2> QED BY <2>3
<1>4. ASSUME NEW k \in 1..K, Good(k + 1) PROVE Good(k)
  <2> DEFINE e == els[k]
             x == i(k)
  <2>1. /\ off[k - 1] \in Nat /\ off[k] \in Nat /\ x \in 1..L /\ i(k + 1) = off[k] + 1 /\ off[k] <= L
        /\ x = off[k - 1] + 1
    <3>1. k - 1 \in 0..K /\ k \in 0..K /\ (k + 1) - 1 = k
      BY <1>1
    <3>2. k # K => i(k + 1) \in 1..L
      <4>1. k # K => k + 1 \in 1..K
        BY <1>1
      <4> HIDE DEF i
      <4> QED BY <1>2, <4>1
    <3>3. off[k] \in Nat /\ off[k - 1] \in Nat
      BY <1>1, <3>1
    <3>4. off[k] <= L
      BY <1>1, <3>1, <3>2, <3>3
    <3> QED BY <1>2, <3>1, <3>3, <3>4
  <2>2. IsElement(e) /\ Stands(p, x, ElementText(e)) /\ (EndsPattern(e) => k = K)
        /\ off[k] = off[k - 1] + Len(ElementText(e))
    BY DEF TextLaid
  <2>3. (p[x] = Star <=> e.kind = "star") /\ (e.kind = "star" => off[k] = x)
    BY <2>1, TextStars
  <2>4. \A j \in 1..N : match[x][j] = MatchFrom(match, p, s, x, j) /\ ~(x > L \/ j > N)
    <3>1. x \in 1..(L + 1) /\ ~(x > L)
      BY <1>1, <2>1
    <3>2. \A j \in 1..N : j \in 1..(N + 1) /\ ~(j > N)
      BY <1>1
    <3> QED BY <3>1, <3>2
  <2>5. \A j \in 1..N : /\ match[off[k] + 1][j] \in BOOLEAN
                        /\ match[off[k] + 1][j] <=> MeansFrom(els, s, k + 1, j)
    <3> DEFINE y == i(k + 1)
    <3>1. y = off[k] + 1
      BY <2>1
    <3>2. \A j \in 1..N : match[y][j] \in BOOLEAN /\ (match[y][j] <=> MeansFrom(els, s, k + 1, j))
      BY <1>4
    <3> HIDE DEF y
    <3> QED BY <3>1, <3>2
  <2>6. OnlyStars(p, off[k] + 1) <=> MeansFrom(els, s, k + 1, N + 1)
    <3>1. k + 1 \in 1..(K + 1) /\ (k + 1) - 1 = k
      BY <1>1
    <3>2. OnlyStars(p, off[(k + 1) - 1] + 1) <=> MeansFrom(els, s, k + 1, N + 1)
      BY <3>1, StarsLeft
    <3> QED BY <3>1, <3>2
  <2> HIDE DEF i, Good
  <2>7. SUFFICES ASSUME NEW j \in 1..N
                 PROVE  match[x][j] \in BOOLEAN /\ (match[x][j] <=> MeansFrom(els, s, k, j))
    BY DEF Good, x
  <2>j. j \in 1..(N + 1) /\ j <= N /\ j \in 1..Len(s)
    BY <1>1
  <2>k. j \in Nat /\ N \in Nat /\ j <= N /\ k \in Nat /\ K \in Nat /\ k <= K
    BY <1>1
  <2>l. x \in Nat /\ L \in Nat
    BY <1>1, <2>1
  <2> HIDE DEF x, e, K, N, L
  <2>8. CASE e.kind # "star"
    <3> DEFINE rest == RestMatches(match, p, s, off[k] + 1, j)
    <3>1. x + Len(ElementText(e)) = off[k] + 1
      <4> DEFINE m == Len(ElementText(e))
      <4>1. m \in Nat
        BY <2>2, ElementTextFacts
      <4> HIDE DEF m
      <4>2. off[k] = off[k - 1] + m
        BY <2>2 DEF m
      <4>3. x + m = off[k] + 1
        BY <2>1, <4>1, <4>2
      <4> QED BY <4>3 DEF m
    <3>2. EndsPattern(e) => x + Len(ElementText(e)) = L + 1
      BY <1>1, <2>2, <3>1
    <3>3. /\ MatchFrom(match, p, s, x, j) <=> Takes(e, s[j]) /\ rest
          /\ rest \in BOOLEAN => MatchFrom(match, p, s, x, j) \in BOOLEAN
      <4>1. x \in 1..Len(p) /\ (EndsPattern(e) => x + Len(ElementText(e)) = Len(p) + 1)
        BY <2>1, <3>2 DEF L
      <4>2. LET r == RestMatches(match, p, s, x + Len(ElementText(e)), j)
            IN /\ MatchFrom(match, p, s, x, j) <=> Takes(e, s[j]) /\ r
               /\ r \in BOOLEAN => MatchFrom(match, p, s, x, j) \in BOOLEAN
        BY <2>2, <2>8, <2>j, <4>1, ElementStep
      <4> QED BY <3>1, <4>2
    <3>4. rest \in BOOLEAN /\ (rest <=> MeansFrom(els, s, k + 1, j + 1))
      <4>1. CASE j = N
        <5>1. rest = OnlyStars(p, off[k] + 1)
          BY <4>1 DEF RestMatches, N
        <5>2. OnlyStars(p, off[k] + 1) \in BOOLEAN
          BY DEF OnlyStars
        <5> HIDE DEF rest
        <5> QED BY <2>6, <4>1, <5>1, <5>2
      <4>2. CASE j # N
        <5>1. j + 1 \in 1..N
          BY <1>1, <2>j, <4>2
        <5>2. rest = match[off[k] + 1][j + 1]
          BY <4>2 DEF RestMatches, N
        <5> HIDE DEF rest
        <5> QED BY <2>5, <5>1, <5>2
      <4> QED BY <4>1, <4>2
    <3>5. MeansFrom(els, s, k, j) <=> Takes(e, s[j]) /\ MeansFrom(els, s, k + 1, j + 1)
      <4>1. k \in 1..Len(els) /\ els[k].kind # "star" /\ j \in 1..(Len(s) + 1) /\ j <= Len(s)
        BY <2>8, <2>j DEF K, e, N
      <4>2. MeansFrom(els, s, k, j) <=> Takes(els[k], s[j]) /\ MeansFrom(els, s, k + 1, j + 1)
        BY <1>1, <4>1, MeansOne
      <4> QED BY <4>2 DEF e
    <3>6. MatchFrom(match, p, s, x, j) \in BOOLEAN
      BY <3>3, <3>4
    <3> HIDE DEF rest
    <3> QED BY <2>4, <3>3, <3>4, <3>5, <3>6
  <2>9. CASE e.kind = "star"
    <3> DEFINE last == LastStar(p, x)
               some(y) == \E z \in j..N : match[y + 1][z]
    <3>1. match[x][j] = (last = L \/ some(last))
      <4>1. MatchFrom(match, p, s, x, j) = (last = L \/ some(last))
        BY <2>3, <2>4, <2>9 DEF MatchFrom, AnyRest, L, N
      <4> QED BY <2>4, <4>1
    <3>2. match[x][j] \in BOOLEAN
      BY <3>1
    <3>3. MeansFrom(els, s, k, j) <=> \E y \in j..(N + 1) : MeansFrom(els, s, k + 1, y)
      <4>1. k \in 1..Len(els) /\ els[k].kind = "star" /\ j \in 1..(Len(s) + 1)
        BY <2>9, <2>j DEF K, e, N
      <4> QED BY <1>1, <4>1, MeansStar DEF N
    <3>4. p[x] = Star /\ off[k] = x
      BY <2>3, <2>9
    <3>5. CASE k = K
      <4>1. x = L
        BY <1>1, <3>4, <3>5
      <4>2. last = L
        <5>1. x \in 1..Len(p) /\ x = Len(p)
          BY <2>1, <4>1 DEF L
        <5>2. last = x
          BY <3>4, <5>1, NextStar
        <5> QED BY <4>1, <5>2
      <4>3. MeansFrom(els, s, k + 1, N + 1)
        <5>1. N + 1 \in 1..(Len(s) + 1) /\ N + 1 = Len(s) + 1 /\ k + 1 = Len(els) + 1
          BY <1>1, <3>5 DEF N, K
        <5> QED BY <1>1, <5>1, MeansNone
      <4>4. N + 1 \in j..(N + 1)
        BY <1>1, <2>j
      <4> HIDE DEF last, some
      <4> QED BY <3>1, <3>2, <3>3, <4>2, <4>3, <4>4
    <3>6. CASE k # K /\ els[k + 1].kind = "star"
      <4>0. k # K
        BY <3>6
      <4>1. k + 1 \in 1..K /\ (k + 1) - 1 = k
        BY <2>k, <4>0
      <4>2. p[x + 1] = Star /\ x + 1 \in 1..L
        <5>1. k + 1 \in 1..Len(els)
          BY <4>1 DEF K
        <5>2. p[off[(k + 1) - 1] + 1] = Star
          BY <3>6, <5>1, TextStars
        <5>3. i(k + 1) \in 1..L
          BY <1>2, <4>1
        <5>4. off[(k + 1) - 1] + 1 = x + 1 /\ i(k + 1) = x + 1
          BY <2>1, <3>4, <4>1
        <5> QED BY <5>2, <5>3, <5>4
      <4>3. last = LastStar(p, x + 1)
        <5>a. x < L
          BY <2>l, <4>2
        <5>1. x \in 1..Len(p) /\ x < Len(p)
          BY <2>1, <5>a DEF L
        <5> QED BY <3>4, <4>2, <5>1, NextStar
      <4>4. match[x + 1][j] = (last = L \/ some(last))
        <5>1. x + 1 \in 1..(L + 1) /\ ~(x + 1 > L) /\ ~(j > N) /\ j \in 1..(N + 1)
          BY <1>1, <2>j, <4>2
        <5>2. match[x + 1][j] = MatchFrom(match, p, s, x + 1, j)
          BY <5>1 DEF L, N
        <5>3. MatchFrom(match, p, s, x + 1, j)
                = (LastStar(p, x + 1) = L \/ some(LastStar(p, x + 1)))
          <6> HIDE DEF last
          <6> QED BY <4>2, <5>1 DEF MatchFrom, AnyRest, L, N
        <5> QED BY <4>3, <5>2, <5>3
      <4>5. match[x + 1][j] <=> MeansFrom(els, s, k + 1, j)
        BY <2>5, <3>4
      <4>6. MeansFrom(els, s, k, j) <=> MeansFrom(els, s, k + 1, j)
        <5>1. /\ k \in 1..Len(els) /\ k + 1 <= Len(els) /\ els[k].kind = "star" /\ els[k + 1].kind = "star"
              /\ j \in 1..(Len(s) + 1)
          BY <2>9, <2>j, <3>6, <4>1 DEF K, e, N
        <5> QED BY <1>1, <5>1, MeansStars
      <4> HIDE DEF last, some
      <4> QED BY <3>1, <3>2, <4>4, <4>5, <4>6
    <3>7. CASE k # K /\ els[k + 1].kind # "star"
      <4>0. k # K
        BY <3>7
      <4>1. k + 1 \in 1..K /\ (k + 1) - 1 = k
        BY <2>k, <4>0
      <4>2. p[x + 1] # Star /\ x + 1 \in 1..L
        <5>1. k + 1 \in 1..Len(els)
          BY <4>1 DEF K
        <5>2. p[off[(k + 1) - 1] + 1] # Star
          BY <3>7, <5>1, TextStars
        <5>3. i(k + 1) \in 1..L
          BY <1>2, <4>1
        <5>4. off[(k + 1) - 1] + 1 = x + 1 /\ i(k + 1) = x + 1
          BY <2>1, <3>4, <4>1
        <5> QED BY <5>2, <5>3, <5>4
      <4>3. last = x /\ x # L
        <5>a. x < L /\ x # L
          BY <2>l, <4>2
        <5>1. x \in 1..Len(p) /\ x < Len(p) /\ x # L
          BY <2>1, <5>a DEF L
        <5> QED BY <3>4, <4>2, <5>1, NextStar
      <4>4. match[x][j] <=> \E z \in j..N : MeansFrom(els, s, k + 1, z)
        <5>1. \A z \in j..N : z \in 1..N
          BY <2>j
        <5>2. \A z \in j..N : match[x + 1][z] <=> MeansFrom(els, s, k + 1, z)
          BY <2>5, <3>4, <5>1
        <5>3. some(x) <=> \E z \in j..N : MeansFrom(els, s, k + 1, z)
          BY <5>2
        <5> HIDE DEF last, some
        <5> QED BY <3>1, <4>3, <5>3
      <4>5. ~MeansFrom(els, s, k + 1, N + 1)
        <5>1. k + 1 \in 1..Len(els) /\ N + 1 \in 1..(Len(s) + 1) /\ N + 1 = Len(s) + 1
          BY <1>1, <4>1 DEF K, N
        <5> QED BY <1>1, <3>7, <5>1, MeansOne
      <4>6. \A y : y \in j..(N + 1) <=> y \in j..N \/ y = N + 1
        BY <2>k, OneMore
      <4> HIDE DEF last, some
      <4> QED BY <3>2, <3>3, <4>4, <4>5, <4>6
    <3> QED BY <3>5, <3>6, <3>7
  <2> QED BY <2>8, <2>9
<1> HIDE DEF Good, K
<1>5. 0 \in T
  <2>1. K + 1 - 0 = K + 1
    BY <1>1
  <2> QED BY <1>3, <2>1
<1>6. ASSUME NEW d \in 0..(K - 1), d \in T PROVE d + 1 \in T
  <2> DEFINE l == K + 1 - (d + 1)
  <2>1. l \in 1..K /\ l + 1 = K + 1 - d /\ d <= K /\ d + 1 \in Nat
    BY <1>1
  <2>2. Good(l + 1)
    BY <1>6, <2>1
  <2>3. Good(l)
    <3> HIDE DEF l
    <3> QED BY <1>4, <2>1, <2>2
  <2> QED BY <2>1, <2>3
<1>7. \A d \in 0..K : d \in T
  <2> HIDE DEF T
  <2> QED BY <1>1, <1>5, <1>6, NoneFails
<1>8. Good(1)
  <2>1. K \in 0..K /\ K <= K /\ K + 1 - K = 1
    BY <1>1
  <2>2. K \in T
    <3> HIDE DEF T
    <3> QED BY <1>7, <2>1
  <2>3. Good(K + 1 - K)
    BY <2>1, <2>2
  <2> QED BY <2>1, <2>3
<1>9. i(1) = 1 /\ 1 \in 1..N
  BY <1>1
<1> HIDE DEF i, N
<1> QED BY <1>8, <1>9 DEF Good

(* What the code finds is what the elements mean.                          *)
LEMMA MatchesComposed ==
  ASSUME NEW els, Composed(els), NEW s \in Seq(Int)
  PROVE  stringmatchlen(Text(els), s) = IF s = << >> THEN els = << >> ELSE Means(els, s)
<1> DEFINE p == Text(els)
<1>1. p \in Seq(Int) /\ \E off : TextLaid(p, els, off)
  BY TextFacts
<1> HIDE DEF p
<1>2. PICK off : TextLaid(p, els, off)
  BY <1>1
<1>3. PICK match : /\ stringmatchlen(p, s) = match[1][1]
                   /\ \A i \in 1..(Len(p) + 1), j \in 1..(Len(s) + 1) :
                        match[i][j] = MatchFrom(match, p, s, i, j)
  BY <1>1, MatchLoop
<1>4. els \in Seq(GlobElements)
  BY DEF Composed
<1>5. CASE s = << >>
  <2> DEFINE K == Len(els)
             L == Len(p)
  <2>1. K \in Nat /\ L \in Nat /\ (els = << >> <=> K = 0)
    BY <1>1, <1>4
  <2>2. L = 0 <=> K = 0
    <3>1. off[0] = 0 /\ off[K] = L
      BY <1>2 DEF TextLaid
    <3>2. K # 0 => off[1 - 1] + 1 \in 1..L
      <4>1. K # 0 => 1 \in 1..K
        BY <2>1
      <4> QED BY <1>2, <4>1 DEF TextLaid
    <3> HIDE DEF K, L
    <3>3. L = 0 => 1..L = {}
      OBVIOUS
    <3> QED BY <3>1, <3>2, <3>3
  <2>3. Len(s) = 0
    BY <1>5
  <2>4. match[1][1] = MatchFrom(match, p, s, 1, 1)
    <3>1. 1 \in 1..(L + 1) /\ 1 \in 1..(0 + 1)
      BY <2>1
    <3> QED BY <1>3, <2>3, <3>1
  <2>5. 1 > Len(s) /\ (1 > L <=> L = 0)
    BY <2>1, <2>3
  <2>6. MatchFrom(match, p, s, 1, 1) = (1 > L)
    BY <2>5 DEF MatchFrom
  <2> HIDE DEF K, L
  <2>7. (1 > L) = (els = << >>)
    BY <2>1, <2>2, <2>5
  <2>8. stringmatchlen(p, s) = (els = << >>)
    BY <1>3, <2>4, <2>6, <2>7
  <2> QED BY <1>5, <2>8 DEF p
<1>6. CASE s # << >>
  <2>1. match[1][1] \in BOOLEAN /\ (match[1][1] <=> MeansFrom(els, s, 1, 1))
    BY <1>1, <1>2, <1>3, <1>6, MatchMeans
  <2>2. Means(els, s) <=> MeansFrom(els, s, 1, 1)
    BY <1>4, MeansAll
  <2>3. Means(els, s) \in BOOLEAN
    BY DEF Means
  <2>4. stringmatchlen(p, s) = Means(els, s)
    BY <1>3, <2>1, <2>2, <2>3
  <2> QED BY <1>6, <2>4 DEF p
<1> QED BY <1>5, <1>6
-----------------------------------------------------------------------------
(* No element but the last ends the pattern.                               *)
GlobInv == GlobTypeOK /\ Composed(elements) /\ MatchesMeaning

LEMMA GlobInitInv == GlobInit => GlobInv
<1> SUFFICES ASSUME GlobInit PROVE GlobInv
  OBVIOUS
<1>1. elements = << >> /\ name = << >> /\ matched = TRUE
  BY DEF GlobInit
<1>2. Composed(elements) /\ GlobTypeOK
  BY <1>1 DEF Composed, GlobTypeOK
<1>3. MatchesMeaning
  BY <1>1 DEF MatchesMeaning
<1> QED BY <1>2, <1>3 DEF GlobInv

LEMMA GlobNextInv == GlobInv /\ [GlobNext]_globVars => GlobInv'
<1> SUFFICES ASSUME GlobInv, [GlobNext]_globVars PROVE GlobInv'
  OBVIOUS
<1>1. /\ elements \in Seq(GlobElements) /\ name \in GlobNames \cup {<< >>} /\ matched \in BOOLEAN
      /\ Composed(elements) /\ MatchesMeaning
  BY DEF GlobInv, GlobTypeOK
<1>2. ASSUME Composed(elements'), name' \in GlobNames \cup {<< >>},
             matched' = stringmatchlen(Text(elements'), name')
      PROVE  GlobInv'
  <2>1. name' \in Seq(Int)
    <3>1. << >> \in Seq(Int)
      OBVIOUS
    <3> QED BY <1>2, <3>1, GlobAssumption
  <2>2. matched' = IF name' = << >> THEN elements' = << >> ELSE Means(elements', name')
    BY <1>2, <2>1, MatchesComposed
  <2>3. MatchesMeaning'
    BY <2>2 DEF MatchesMeaning
  <2>4. matched' \in BOOLEAN
    <3>1. Means(elements', name') \in BOOLEAN
      BY DEF Means
    <3> QED BY <2>2, <3>1
  <2>5. elements' \in Seq(GlobElements)
    BY <1>2 DEF Composed
  <2> QED BY <1>2, <2>3, <2>4, <2>5 DEF GlobInv, GlobTypeOK
<1>3. CASE Compose
  <2>1. name' = << >> /\ matched' = stringmatchlen(Text(elements'), name')
    BY <1>3 DEF Compose
  <2>2. CASE elements' = << >>
    <3>1. Composed(<< >>)
      BY DEF Composed
    <3> QED BY <1>2, <2>1, <2>2, <3>1
  <2>3. CASE /\ \A k \in DOMAIN elements : ~EndsPattern(elements[k])
             /\ \E e \in GlobElements : elements' = Append(elements, e)
    <3>1. PICK e \in GlobElements : elements' = Append(elements, e)
      BY <2>3
    <3> DEFINE K == Len(elements)
    <3>2. K \in Nat /\ DOMAIN elements = 1..K
      BY <1>1
    <3>3. /\ elements' \in Seq(GlobElements) /\ Len(elements') = K + 1
          /\ \A k \in 1..K : elements'[k] = elements[k]
      <4>1. Append(elements, e) \in Seq(GlobElements) /\ Len(Append(elements, e)) = K + 1
        BY <1>1
      <4>2. \A k \in 1..K : Append(elements, e)[k] = elements[k]
        BY <1>1
      <4> QED BY <3>1, <4>1, <4>2
    <3> HIDE DEF K
    <3>4. ASSUME NEW k \in 1..(K + 1), k < K + 1 PROVE ~EndsPattern(elements'[k])
      <4>1. k \in 1..K
        BY <3>2, <3>4
      <4> QED BY <2>3, <3>2, <3>3, <4>1
    <3>5. Composed(elements')
      BY <3>3, <3>4 DEF Composed
    <3> QED BY <1>2, <2>1, <3>5
  <2> QED BY <1>3, <2>2, <2>3 DEF Compose
<1>4. CASE stringmatch
  <2>1. PICK s \in GlobNames : name' = s /\ matched' = stringmatchlen(Text(elements), s)
    BY <1>4 DEF stringmatch
  <2>2. elements' = elements
    BY <1>4 DEF stringmatch
  <2> QED BY <1>1, <1>2, <2>1, <2>2
<1>5. CASE UNCHANGED globVars
  BY <1>1, <1>5 DEF globVars, GlobInv, GlobTypeOK, MatchesMeaning
<1> QED BY <1>3, <1>4, <1>5 DEF GlobNext

LEMMA GlobAlways == GlobSpec => []GlobInv
BY GlobInitInv, GlobNextInv, PTL DEF GlobSpec

(* The variables of the match keep their types: what stringmatchlen        *)
(* answers is a truth value, whichever way its loops end.                  *)
THEOREM GlobTyped == GlobSpec => []GlobTypeOK
<1>1. GlobInv => GlobTypeOK
  BY DEF GlobInv
<1> QED BY <1>1, GlobAlways, PTL

(* For every pattern that can be composed and every name: stringmatchlen   *)
(* answers yes to the names that can be divided among the elements of the  *)
(* pattern, and to no others.                                              *)
THEOREM PatternsMeanThis == GlobSpec => []MatchesMeaning
<1>1. GlobInv => MatchesMeaning
  BY DEF GlobInv
<1> QED BY <1>1, GlobAlways, PTL
=============================================================================
