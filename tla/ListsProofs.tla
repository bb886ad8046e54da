------------------------------- MODULE ListsProofs -------------------------------
(***************************************************************************)
(* Induction over numbers and sequences, and what Flat and Only make of a  *)
(* list of any length. The induction is stated of sets of numbers and of   *)
(* sequences, and rests on the well-founded order of the library; that the *)
(* recursion of Flat has a solution, and only one, is proved here.         *)
(***************************************************************************)
EXTENDS Lists, SequencesExt, SequenceTheorems, WellFoundedInduction, TLAPS

-------------------------------------------------------------------------------
(* Induction.                                                              *)

LEMMA LessThanRelation ==
  \E R : IsWellFoundedOn(R, Nat) /\ \A x, y \in Nat : x < y => <<x, y>> \in R
<1>1. \A x, y \in Nat : x < y => <<x, y>> \in OpToRel(<, Nat)
  BY DEF OpToRel
<1> QED
  BY <1>1, NatLessThanWellFounded, Zenon

\* A set of numbers that is not empty has a smallest one.
LEMMA Smallest ==
  ASSUME NEW T \in SUBSET Nat, T # {}
  PROVE  \E x \in T : \A y \in T : x <= y
<1>1. PICK R : IsWellFoundedOn(R, Nat) /\ \A x, y \in Nat : x < y => <<x, y>> \in R
  BY LessThanRelation
<1>2. T \subseteq Nat /\ IsWellFoundedOn(R, Nat)
  BY <1>1
<1>3. PICK x \in T : \A y \in T : ~(<<y, x>> \in R)
  BY <1>2, WFMin, Zenon
<1>4. ASSUME NEW y \in T PROVE x <= y
  <2>1. ~(y < x)
    BY <1>1, <1>3
  <2> QED
    BY <2>1
<1> QED
  BY <1>4

LEMMA Induction ==
  ASSUME NEW T \in SUBSET Nat, 0 \in T, \A n \in T : n + 1 \in T
  PROVE  T = Nat
<1> SUFFICES ASSUME T # Nat PROVE FALSE
  OBVIOUS
<1> DEFINE U == Nat \ T
<1>1. PICK x \in U : \A y \in U : x <= y
  BY Smallest
<1>2. x \in Nat /\ x # 0
  BY <1>1
<1>3. x - 1 \in Nat /\ x - 1 \notin U
  BY <1>1, <1>2
<1> QED
  BY <1>2, <1>3

\* A set of numbers with a bound has, if it is not empty, a largest one.
LEMMA Largest ==
  ASSUME NEW b \in Nat, NEW T \in SUBSET (0..b), T # {}
  PROVE  \E x \in T : \A y \in T : x >= y
<1> DEFINE Left == {b - x : x \in T}
<1>1. Left \in SUBSET Nat /\ Left # {}
  <2>1. \A x \in T : b - x \in Nat
    OBVIOUS
  <2> QED
    BY <2>1
<1>2. PICK r \in Left : \A l \in Left : r <= l
  BY <1>1, Smallest
<1>3. PICK x \in T : r = b - x
  OBVIOUS
<1>4. ASSUME NEW y \in T PROVE x >= y
  <2>1. r <= b - y
    BY <1>2
  <2> QED
    BY <1>3, <2>1
<1> QED
  BY <1>4

\* What holds of the empty sequence, and of one with an element appended if it
\* holds of the sequence, holds of all.
LEMMA SequenceInduction ==
  ASSUME NEW A, NEW G, << >> \in G,
         \A s \in Seq(A) : s \in G => \A e \in A : Append(s, e) \in G
  PROVE  \A s \in Seq(A) : s \in G
<1> DEFINE T == {n \in Nat : \A s \in Seq(A) : Len(s) = n => s \in G}
<1>1. 0 \in T
  BY EmptySeq
<1>2. ASSUME NEW n \in T PROVE n + 1 \in T
  <2>1. n \in Nat
    OBVIOUS
  <2>2. ASSUME NEW s \in Seq(A), Len(s) = n + 1 PROVE s \in G
    <3> DEFINE r == [i \in 1..n |-> s[i]]
               e == s[n + 1]
    <3>1. \A i \in 1..(n + 1) : s[i] \in A
      BY <2>1, <2>2
    <3>2. r \in Seq(A) /\ Len(r) = n /\ e \in A
      BY <2>1, <3>1
    <3>3. r \in G
      BY <3>2
    <3>4. s = Append(r, e)
      <4>1. /\ DOMAIN s = 1..(n + 1) /\ s \in [1..(n + 1) -> A]
            /\ Append(r, e) \in Seq(A) /\ Len(Append(r, e)) = n + 1
            /\ DOMAIN Append(r, e) = 1..(n + 1)
        BY <2>1, <2>2, <3>2
      <4>2. ASSUME NEW i \in 1..(n + 1) PROVE Append(r, e)[i] = s[i]
        <5>1. CASE i \in 1..n
          BY <2>1, <3>2, <5>1
        <5>2. CASE i = n + 1
          BY <2>1, <3>2, <5>2
        <5> QED
          BY <2>1, <5>1, <5>2
      <4> HIDE DEF r, e
      <4> QED
        BY <2>1, <2>2, <4>1, <4>2
    <3> HIDE DEF r, e
    <3> QED
      BY <3>2, <3>3, <3>4
  <2> QED
    BY <2>1, <2>2
<1>3. T = Nat
  <2> HIDE DEF T
  <2>1. T \in SUBSET Nat
    BY DEF T
  <2> QED
    BY <1>1, <1>2, <2>1, Induction
<1> QED
  BY <1>3

-------------------------------------------------------------------------------
(* Concatenation, under a name of its own: the provers take \o apart       *)
(* wherever they see it, where what is needed are a few laws.              *)

Cat(s, t) == s \o t

LEMMA CatType ==
  ASSUME NEW A, NEW s \in Seq(A), NEW t \in Seq(A)
  PROVE  Cat(s, t) \in Seq(A) /\ Len(Cat(s, t)) = Len(s) + Len(t)
  BY ConcatProperties DEF Cat

Joins(u, s, t) ==
    /\ Len(u) = Len(s) + Len(t)
    /\ \A k \in 1..Len(s) : u[k] = s[k]
    /\ \A k \in 1..Len(t) : u[Len(s) + k] = t[k]

LEMMA CatElements ==
  ASSUME NEW A, NEW s \in Seq(A), NEW t \in Seq(A)
  PROVE  Joins(Cat(s, t), s, t)
<1>1. Len(s) \in Nat /\ Len(t) \in Nat
  OBVIOUS
<1>2. \A k \in 1..(Len(s) + Len(t)) :
        (s \o t)[k] = IF k <= Len(s) THEN s[k] ELSE t[k - Len(s)]
  BY ConcatProperties
<1>3. ASSUME NEW k \in 1..Len(s) PROVE Cat(s, t)[k] = s[k]
  BY <1>1, <1>2 DEF Cat
<1>4. ASSUME NEW k \in 1..Len(t) PROVE Cat(s, t)[Len(s) + k] = t[k]
  <2>1. PICK j : j = Len(s) + k
    OBVIOUS
  <2>2. j \in 1..(Len(s) + Len(t)) /\ ~(j <= Len(s)) /\ j - Len(s) = k
    BY <1>1, <2>1
  <2>3. Cat(s, t)[j] = t[j - Len(s)]
    BY <1>2, <2>2 DEF Cat
  <2> QED
    BY <2>1, <2>2, <2>3
<1> QED
  BY <1>3, <1>4, CatType DEF Joins

LEMMA CatEmpty ==
  ASSUME NEW A, NEW s \in Seq(A)
  PROVE  Cat(s, << >>) = s /\ Cat(<< >>, s) = s
  BY ConcatEmptySeq DEF Cat

LEMMA CatAssoc ==
  ASSUME NEW A, NEW s \in Seq(A), NEW t \in Seq(A), NEW u \in Seq(A)
  PROVE  Cat(Cat(s, t), u) = Cat(s, Cat(t, u))
  BY ConcatAssociative DEF Cat

LEMMA CatAppend ==
  ASSUME NEW A, NEW s \in Seq(A), NEW t \in Seq(A), NEW e \in A
  PROVE  Cat(s, Append(t, e)) = Append(Cat(s, t), e)
<1>1. PICK one : one = <<e>>
  OBVIOUS
<1>2. one \in Seq(A)
  BY <1>1
<1>3. \A u \in Seq(A) : Append(u, e) = Cat(u, one)
  BY <1>1, AppendIsConcat DEF Cat
<1>4. Cat(s, t) \in Seq(A)
  BY CatType
<1>5. Append(t, e) = Cat(t, one) /\ Append(Cat(s, t), e) = Cat(Cat(s, t), one)
  BY <1>3, <1>4
<1>6. Cat(Cat(s, t), one) = Cat(s, Cat(t, one))
  BY <1>2, CatAssoc
<1> QED
  BY <1>5, <1>6

LEMMA CatHead ==
  ASSUME NEW A, NEW s \in Seq(A), NEW t \in Seq(A), s # << >>
  PROVE  Cat(s, t) # << >> /\ Head(Cat(s, t)) = Head(s)
<1>1. PICK u : u = Cat(s, t)
  OBVIOUS
<1>2. Len(s) \in Nat /\ Len(t) \in Nat /\ Len(s) >= 1
  OBVIOUS
<1>3. u \in Seq(A) /\ Len(u) = Len(s) + Len(t) /\ u[1] = s[1]
  <2>1. 1 \in 1..Len(s)
    BY <1>2
  <2>2. Joins(u, s, t)
    BY <1>1, CatElements
  <2>3. u \in Seq(A)
    BY <1>1, CatType
  <2> QED
    BY <2>1, <2>2, <2>3 DEF Joins
<1>4. u # << >>
  <2>1. Len(<< >>) = 0 /\ Len(u) >= 1
    BY <1>2, <1>3
  <2> QED
    BY <2>1
<1>5. Head(u) = u[1] /\ Head(s) = s[1]
  BY <1>3, <1>4
<1> QED
  BY <1>1, <1>3, <1>4, <1>5

LEMMA CatRange ==
  ASSUME NEW A, NEW s \in Seq(A), NEW t \in Seq(A)
  PROVE  Range(Cat(s, t)) = Range(s) \cup Range(t)
<1>1. PICK u : u = Cat(s, t)
  OBVIOUS
<1>2. u \in Seq(A) /\ Len(u) = Len(s) + Len(t)
      /\ (\A k \in 1..Len(s) : u[k] = s[k]) /\ \A k \in 1..Len(t) : u[Len(s) + k] = t[k]
  <2>1. u \in Seq(A) /\ Joins(u, s, t)
    BY <1>1, CatType, CatElements
  <2> QED
    BY <2>1 DEF Joins
<1>3. Len(s) \in Nat /\ Len(t) \in Nat
  OBVIOUS
<1>4. DOMAIN u = 1..(Len(s) + Len(t)) /\ DOMAIN s = 1..Len(s) /\ DOMAIN t = 1..Len(t)
  BY <1>2
<1>5. ASSUME NEW k \in 1..(Len(s) + Len(t)) PROVE u[k] \in Range(s) \cup Range(t)
  <2>1. CASE k \in 1..Len(s)
    BY <1>2, <1>4, <2>1 DEF Range
  <2>2. CASE k \notin 1..Len(s)
    <3>1. PICK j : j = k - Len(s)
      OBVIOUS
    <3>2. j \in 1..Len(t) /\ Len(s) + j = k
      BY <1>3, <2>2, <3>1
    <3>3. u[k] = t[j]
      BY <1>2, <3>2
    <3> QED
      BY <1>4, <3>2, <3>3 DEF Range
  <2> QED
    BY <2>1, <2>2
<1>6. ASSUME NEW k \in 1..Len(s) PROVE s[k] \in Range(u)
  <2>1. k \in 1..(Len(s) + Len(t))
    BY <1>3
  <2> QED
    BY <1>2, <1>4, <2>1 DEF Range
<1>7. ASSUME NEW k \in 1..Len(t) PROVE t[k] \in Range(u)
  <2>1. PICK j : j = Len(s) + k
    OBVIOUS
  <2>2. j \in 1..(Len(s) + Len(t)) /\ u[j] = t[k]
    BY <1>2, <1>3, <2>1
  <2> QED
    BY <1>4, <2>2 DEF Range
<1>8. Range(u) = Range(s) \cup Range(t)
  BY <1>4, <1>5, <1>6, <1>7 DEF Range
<1> QED
  BY <1>1, <1>8

\* The same for one element more.
Longer(u, s, e) ==
    /\ Len(s) \in Nat /\ Len(u) = Len(s) + 1 /\ u[Len(s) + 1] = e
    /\ \A k \in 1..Len(s) : u[k] = s[k]

LEMMA AppendElements ==
  ASSUME NEW A, NEW s \in Seq(A), NEW e \in A
  PROVE  /\ Append(s, e) \in Seq(A) /\ Longer(Append(s, e), s, e)
         /\ Last(Append(s, e)) = e /\ Append(s, e) # s /\ Append(s, e) # << >>
<1>1. Append(s, e) \in Seq(A) /\ Longer(Append(s, e), s, e)
  BY AppendProperties DEF Longer
<1>2. PICK u : u = Append(s, e)
  OBVIOUS
<1>3. Len(s) \in Nat /\ Len(u) = Len(s) + 1 /\ u[Len(u)] = e
  BY <1>1, <1>2 DEF Longer
<1>4. Last(u) = e
  BY <1>3 DEF Last
<1>5. Len(u) # Len(s) /\ Len(u) # 0
  BY <1>3
<1>6. u # s /\ u # << >>
  BY <1>5
<1> QED
  BY <1>1, <1>2, <1>4, <1>6

LEMMA SeqMono ==
  ASSUME NEW B, NEW A \in SUBSET B, NEW s \in Seq(A)
  PROVE  s \in Seq(B)
  OBVIOUS

LEMMA BoundedSeqType ==
  ASSUME NEW A, NEW n \in Nat, NEW s \in BoundedSeq(A, n)
  PROVE  s \in Seq(A)
<1>1. PICK m \in 0..n : s \in [1..m -> A]
  BY DEF BoundedSeq, SeqOf
<1> QED
  BY <1>1

\* What comes before and after one element.
LEMMA Around ==
  ASSUME NEW A, NEW s \in Seq(A), NEW i \in 1..Len(s)
  PROVE  \E p, q \in Seq(A) :
            /\ p = SubSeq(s, 1, i - 1) /\ q = SubSeq(s, i + 1, Len(s))
            /\ \A t \in Seq(A) : /\ Len(t) = Len(s)
                                 /\ \A k \in 1..Len(s) : k # i => t[k] = s[k]
                                 => t = Cat(Cat(p, <<t[i]>>), q)
<1>1. Len(s) \in Nat /\ i \in Nat /\ 1 <= i /\ i <= Len(s)
  OBVIOUS
<1>2. PICK p, q : p = SubSeq(s, 1, i - 1) /\ q = SubSeq(s, i + 1, Len(s))
  OBVIOUS
<1>3. p \in Seq(A) /\ Len(p) = i - 1 /\ \A k \in 1..(i - 1) : p[k] = s[k]
  BY <1>1, <1>2
<1>4. q \in Seq(A) /\ Len(q) = Len(s) - i /\ \A k \in 1..(Len(s) - i) : q[k] = s[i + k]
  BY <1>1, <1>2
<1>5. ASSUME NEW t \in Seq(A), Len(t) = Len(s), \A k \in 1..Len(s) : k # i => t[k] = s[k]
      PROVE  t = Cat(Cat(p, <<t[i]>>), q)
  <2>0. PICK one : one = <<t[i]>>
    OBVIOUS
  <2>1. PICK pe, w : pe = Cat(p, one) /\ w = Cat(pe, q)
    OBVIOUS
  <2>2. t[i] \in A
    BY <1>1, <1>5
  <2>3. one \in Seq(A) /\ Len(one) = 1 /\ one[1] = t[i]
    BY <2>0, <2>2
  <2>4. pe \in Seq(A) /\ Len(pe) = i /\ pe[i] = t[i] /\ \A k \in 1..(i - 1) : pe[k] = s[k]
    <3>0. p \in Seq(A) /\ one \in Seq(A)
      BY <1>3, <2>3
    <3>1. pe \in Seq(A) /\ Joins(pe, p, one)
      BY <2>1, <3>0, CatType, CatElements
    <3>2. /\ Len(pe) = Len(p) + Len(one) /\ \A k \in 1..Len(p) : pe[k] = p[k]
          /\ \A k \in 1..Len(one) : pe[Len(p) + k] = one[k]
      BY <3>1 DEF Joins
    <3>3. pe[(i - 1) + 1] = one[1]
      BY <1>3, <2>3, <3>2
    <3> QED
      BY <1>1, <1>3, <2>3, <3>1, <3>2, <3>3
  <2>5. w \in Seq(A) /\ Len(w) = Len(pe) + Len(q)
        /\ (\A k \in 1..Len(pe) : w[k] = pe[k])
        /\ \A k \in 1..Len(q) : w[Len(pe) + k] = q[k]
    <3>1. pe \in Seq(A) /\ q \in Seq(A)
      BY <1>4, <2>4
    <3>2. w \in Seq(A) /\ Joins(w, pe, q)
      BY <2>1, <3>1, CatType, CatElements
    <3> QED
      BY <3>2 DEF Joins
  <2>6. Len(w) = Len(s)
    BY <1>1, <1>4, <2>4, <2>5
  <2>7. ASSUME NEW k \in 1..Len(s) PROVE t[k] = w[k]
    <3>1. CASE k < i
      <4>1. k \in 1..(i - 1) /\ k \in 1..Len(pe) /\ k # i
        BY <1>1, <2>4, <3>1
      <4> QED
        BY <1>5, <2>4, <2>5, <4>1
    <3>2. CASE k = i
      <4>1. k \in 1..Len(pe)
        BY <1>1, <2>4, <3>2
      <4> QED
        BY <2>4, <2>5, <3>2, <4>1
    <3>3. CASE k > i
      <4>1. PICK j : j = k - i
        OBVIOUS
      <4>2. j \in 1..(Len(s) - i) /\ j \in 1..Len(q) /\ i + j = k /\ k # i
        BY <1>1, <1>4, <3>3, <4>1
      <4>3. w[k] = q[j] /\ q[j] = s[k]
        BY <1>4, <2>4, <2>5, <4>2
      <4> QED
        BY <1>5, <4>2, <4>3
    <3>4. k < i \/ k = i \/ k > i
      BY <1>1
    <3> QED
      BY <3>1, <3>2, <3>3, <3>4
  <2>8. t = w
    BY <1>5, <2>5, <2>6, <2>7, SeqEqual
  <2> QED
    BY <2>0, <2>1, <2>8
<1> QED
  BY <1>2, <1>3, <1>4, <1>5

\* p and q are what s has before and after its element at i.
Parts(s, i, p, q) == s = Cat(Cat(p, <<s[i]>>), q) /\ RemoveAt(s, i) = Cat(p, q)

LEMMA Split ==
  ASSUME NEW A, NEW s \in Seq(A), NEW i \in 1..Len(s)
  PROVE  \E p, q \in Seq(A) : Parts(s, i, p, q)
<1>1. PICK p, q \in Seq(A) :
        /\ p = SubSeq(s, 1, i - 1) /\ q = SubSeq(s, i + 1, Len(s))
        /\ \A t \in Seq(A) : /\ Len(t) = Len(s)
                             /\ \A k \in 1..Len(s) : k # i => t[k] = s[k]
                             => t = Cat(Cat(p, <<t[i]>>), q)
  BY Around
<1>2. s = Cat(Cat(p, <<s[i]>>), q)
  BY <1>1
<1>3. RemoveAt(s, i) = Cat(p, q)
  BY <1>1 DEF RemoveAt, Cat
<1> QED
  BY <1>2, <1>3 DEF Parts

LEMMA InsertSplits ==
  ASSUME NEW A, NEW s \in Seq(A), NEW i \in 1..(Len(s) + 1), NEW e \in A
  PROVE  \E p, q \in Seq(A) : s = Cat(p, q) /\ InsertAt(s, i, e) = Cat(Cat(p, <<e>>), q)
                              /\ Len(p) = i - 1
<1>1. PICK p, q : p = SubSeq(s, 1, i - 1) /\ q = SubSeq(s, i, Len(s))
  OBVIOUS
<1>2. Len(s) \in Nat /\ i \in Nat /\ 1 <= i /\ i <= Len(s) + 1
  OBVIOUS
<1>3. p \in Seq(A) /\ Len(p) = i - 1 /\ \A k \in 1..(i - 1) : p[k] = s[k]
  BY <1>1, <1>2
<1>4. q \in Seq(A) /\ Len(q) = (Len(s) - i) + 1
      /\ \A k \in 1..((Len(s) - i) + 1) : q[k] = s[(i + k) - 1]
  BY <1>1, <1>2
<1>5. PICK w : w = Cat(p, q)
  OBVIOUS
<1>6. w \in Seq(A) /\ Len(w) = Len(p) + Len(q)
      /\ (\A k \in 1..Len(p) : w[k] = p[k])
      /\ \A k \in 1..Len(q) : w[Len(p) + k] = q[k]
  <2>1. p \in Seq(A) /\ q \in Seq(A)
    BY <1>3, <1>4
  <2>2. w \in Seq(A) /\ Joins(w, p, q)
    BY <1>5, <2>1, CatType, CatElements
  <2> QED
    BY <2>2 DEF Joins
<1>7. Len(w) = Len(s)
  BY <1>2, <1>3, <1>4, <1>6
<1>8. ASSUME NEW k \in 1..Len(s) PROVE s[k] = w[k]
  <2>1. CASE k <= i - 1
    <3>1. k \in 1..(i - 1) /\ k \in 1..Len(p)
      BY <1>2, <1>3, <2>1
    <3> QED
      BY <1>3, <1>6, <3>1
  <2>2. CASE k > i - 1
    <3>1. PICK j : j = k - (i - 1)
      OBVIOUS
    <3>2. j \in 1..((Len(s) - i) + 1) /\ j \in 1..Len(q)
          /\ (i + j) - 1 = k /\ Len(p) + j = k
      BY <1>2, <1>3, <1>4, <2>2, <3>1
    <3>3. q[j] = s[(i + j) - 1] /\ w[Len(p) + j] = q[j]
      BY <1>4, <1>6, <3>2
    <3> QED
      BY <3>2, <3>3
  <2>3. k <= i - 1 \/ k > i - 1
    BY <1>2
  <2> QED
    BY <2>1, <2>2, <2>3
<1>9. s = w
  BY <1>6, <1>7, <1>8, SeqEqual
<1>10. InsertAt(s, i, e) = Cat(Cat(p, <<e>>), q)
  BY <1>1 DEF InsertAt, Cat
<1> QED
  BY <1>3, <1>4, <1>5, <1>9, <1>10

-------------------------------------------------------------------------------
(* Flat.                                                                   *)

FlatUpTo(ls, upTo, N) ==
  upTo = [n \in 0..N |-> IF n = 0 THEN << >> ELSE upTo[n - 1] \o ls[n]]

LEMMA FlatExists ==
  ASSUME NEW ls, NEW N \in Nat
  PROVE  \E upTo : FlatUpTo(ls, upTo, N)
<1> DEFINE T == {m \in Nat : \E upTo : FlatUpTo(ls, upTo, m)}
<1>1. 0 \in T
  <2> DEFINE g == [n \in 0..0 |-> << >>]
  <2>1. FlatUpTo(ls, g, 0)
    BY DEF FlatUpTo
  <2> QED
    BY <2>1
<1>2. ASSUME NEW m \in T PROVE m + 1 \in T
  <2>1. m \in Nat
    OBVIOUS
  <2>2. PICK g : FlatUpTo(ls, g, m)
    OBVIOUS
  <2> DEFINE next == g[m] \o ls[m + 1]
             h == [n \in 0..(m + 1) |-> IF n = m + 1 THEN next ELSE g[n]]
  <2>3. \A n \in 0..m : h[n] = g[n]
    BY <2>1
  <2>4. h[m + 1] = next
    BY <2>1
  <2>5. \A n \in 0..m : g[n] = IF n = 0 THEN << >> ELSE g[n - 1] \o ls[n]
    BY <2>2 DEF FlatUpTo
  <2>6. ASSUME NEW n \in 0..(m + 1)
        PROVE  h[n] = IF n = 0 THEN << >> ELSE h[n - 1] \o ls[n]
    <3>1. CASE n = m + 1
      <4>1. h[n - 1] = g[m] /\ n # 0
        BY <2>1, <2>3, <3>1
      <4> QED
        BY <2>4, <3>1, <4>1
    <3>2. CASE n \in 0..m
      <4>1. n # 0 => n - 1 \in 0..m
        BY <2>1, <3>2
      <4> QED
        BY <2>3, <2>5, <3>2, <4>1
    <3> QED
      BY <2>1, <3>1, <3>2
  <2>7. h = [n \in 0..(m + 1) |-> IF n = 0 THEN << >> ELSE h[n - 1] \o ls[n]]
    <3> HIDE DEF next
    <3>1. h = [n \in 0..(m + 1) |-> h[n]]
      OBVIOUS
    <3> HIDE DEF h
    <3> QED
      BY <2>6, <3>1
  <2>8. FlatUpTo(ls, h, m + 1)
    BY <2>7 DEF FlatUpTo
  <2> QED
    BY <2>1, <2>8
<1>3. T = Nat
  <2> HIDE DEF T
  <2>1. T \in SUBSET Nat
    BY DEF T
  <2> QED
    BY <1>1, <1>2, <2>1, Induction
<1> QED
  BY <1>3

\* Two lists that agree on the first n elements give the same up to there.
LEMMA FlatAgrees ==
  ASSUME NEW ls, NEW ms, NEW f, NEW g, NEW N \in Nat, NEW M \in 0..N,
         FlatUpTo(ls, f, M), FlatUpTo(ms, g, N),
         \A n \in 1..M : ls[n] = ms[n]
  PROVE  f[M] = g[M]
<1> DEFINE T == {n \in Nat : n <= M => f[n] = g[n]}
<1>1. /\ \A n \in 0..M : f[n] = IF n = 0 THEN << >> ELSE f[n - 1] \o ls[n]
      /\ \A n \in 0..N : g[n] = IF n = 0 THEN << >> ELSE g[n - 1] \o ms[n]
  BY DEF FlatUpTo
<1>2. 0 \in T
  BY <1>1
<1>3. ASSUME NEW n \in T PROVE n + 1 \in T
  <2> SUFFICES ASSUME n + 1 <= M PROVE f[n + 1] = g[n + 1]
    OBVIOUS
  <2>1. n + 1 \in 1..M /\ n + 1 \in 0..M /\ n + 1 \in 0..N /\ n + 1 # 0 /\ (n + 1) - 1 = n
    OBVIOUS
  <2>2. f[n] = g[n] /\ ls[n + 1] = ms[n + 1]
    BY <2>1
  <2> QED
    BY <1>1, <2>1, <2>2
<1>4. T = Nat
  <2> HIDE DEF T
  <2>1. T \in SUBSET Nat
    BY DEF T
  <2> QED
    BY <1>2, <1>3, <2>1, Induction
<1> QED
  BY <1>4

\* What Flat is, whichever solution of its recursion is looked at.
LEMMA FlatIs ==
  ASSUME NEW ls, NEW upTo, Len(ls) \in Nat, FlatUpTo(ls, upTo, Len(ls))
  PROVE  Flat(ls) = upTo[Len(ls)]
<1>1. PICK g : g = CHOOSE u : FlatUpTo(ls, u, Len(ls))
  OBVIOUS
<1>2. FlatUpTo(ls, g, Len(ls))
  BY <1>1, FlatExists
<1>3. Flat(ls) = g[Len(ls)]
  BY <1>1 DEF Flat, FlatUpTo
<1>4. \A n \in 1..Len(ls) : ls[n] = ls[n]
  OBVIOUS
<1>5. g[Len(ls)] = upTo[Len(ls)]
  BY <1>2, <1>4, FlatAgrees
<1> QED
  BY <1>3, <1>5

LEMMA FlatEmpty == Flat(<< >>) = << >>
<1>1. Len(<< >>) = 0 /\ 0 \in Nat
  OBVIOUS
<1>2. PICK f : FlatUpTo(<< >>, f, 0)
  BY <1>1, FlatExists
<1>3. Flat(<< >>) = f[0]
  BY <1>1, <1>2, FlatIs
<1> QED
  BY <1>2, <1>3 DEF FlatUpTo

LEMMA FlatAppend ==
  ASSUME NEW A, NEW ls \in Seq(A), NEW l \in A
  PROVE  Flat(Append(ls, l)) = Cat(Flat(ls), l)
<1>1. PICK ms : ms = Append(ls, l)
  OBVIOUS
<1>2. /\ Len(ls) \in Nat /\ Len(ms) \in Nat /\ Len(ms) = Len(ls) + 1
      /\ Len(ls) \in 0..Len(ms) /\ ms[Len(ms)] = l
  BY <1>1
<1>3. \A n \in 1..Len(ls) : ls[n] = ms[n]
  BY <1>1
<1>4. PICK f : FlatUpTo(ls, f, Len(ls))
  BY <1>2, FlatExists
<1>5. PICK h : FlatUpTo(ms, h, Len(ms))
  BY <1>2, FlatExists
<1>6. Flat(ls) = f[Len(ls)] /\ Flat(ms) = h[Len(ms)]
  BY <1>2, <1>4, <1>5, FlatIs
<1>7. f[Len(ls)] = h[Len(ls)]
  <2>1. Len(ms) \in Nat /\ Len(ls) \in 0..Len(ms)
    BY <1>2
  <2> QED
    BY <1>3, <1>4, <1>5, <2>1, FlatAgrees
<1>8. h[Len(ms)] = Cat(h[Len(ls)], ms[Len(ms)])
  <2>1. Len(ms) \in 0..Len(ms) /\ Len(ms) # 0 /\ Len(ms) - 1 = Len(ls)
    BY <1>2
  <2>2. \A n \in 0..Len(ms) : h[n] = IF n = 0 THEN << >> ELSE Cat(h[n - 1], ms[n])
    BY <1>5 DEF FlatUpTo, Cat
  <2> QED
    BY <2>1, <2>2
<1> QED
  BY <1>1, <1>2, <1>6, <1>7, <1>8

LEMMA FlatType ==
  ASSUME NEW A
  PROVE  \A ls \in Seq(Seq(A)) : Flat(ls) \in Seq(A)
<1> DEFINE G == {ls \in Seq(Seq(A)) : Flat(ls) \in Seq(A)}
<1>1. << >> \in G
  BY FlatEmpty, EmptySeq
<1>2. ASSUME NEW ls \in Seq(Seq(A)), ls \in G, NEW l \in Seq(A) PROVE Append(ls, l) \in G
  <2>1. Append(ls, l) \in Seq(Seq(A)) /\ Flat(Append(ls, l)) = Cat(Flat(ls), l)
    BY FlatAppend
  <2>2. Flat(ls) \in Seq(A)
    BY <1>2
  <2>3. Cat(Flat(ls), l) \in Seq(A)
    BY <2>2, CatType
  <2> QED
    BY <2>1, <2>3
<1> HIDE DEF G
<1>3. \A ls \in Seq(Seq(A)) : ls \in G
  BY <1>1, <1>2, SequenceInduction
<1> QED
  BY <1>3 DEF G

-------------------------------------------------------------------------------
(* Only.                                                                   *)

LEMMA OnlyEmpty ==
  ASSUME NEW S
  PROVE  Only(<< >>, S) = << >>
<1>1. [n \in 1..Len(<< >>) |-> IF << >>[n] \in S THEN << <<>>[n] >> ELSE << >>] = << >>
  OBVIOUS
<1> QED
  BY <1>1, FlatEmpty DEF Only

LEMMA OnlyAppend ==
  ASSUME NEW A, NEW s \in Seq(A), NEW e \in A, NEW S
  PROVE  Only(Append(s, e), S) = IF e \in S THEN Append(Only(s, S), e) ELSE Only(s, S)
<1> DEFINE one(x) == IF x \in S THEN <<x>> ELSE << >>
           ls == [n \in 1..Len(s) |-> one(s[n])]
           t == Append(s, e)
           ms == [n \in 1..Len(t) |-> one(t[n])]
<1>1. ASSUME NEW x \in A PROVE one(x) \in Seq(A)
  OBVIOUS
<1>2. /\ Len(s) \in Nat /\ \A n \in 1..Len(s) : s[n] \in A
      /\ t \in Seq(A) /\ Len(t) = Len(s) + 1 /\ t[Len(s) + 1] = e
      /\ \A n \in 1..Len(s) : t[n] = s[n]
  OBVIOUS
<1> HIDE DEF one, t
<1>3. ls \in Seq(Seq(A)) /\ one(e) \in Seq(A) /\ Len(ls) = Len(s)
  BY <1>1, <1>2
<1>4. ms = Append(ls, one(e))
  <2>1. Append(ls, one(e)) \in Seq(Seq(A)) /\ Len(Append(ls, one(e))) = Len(s) + 1
        /\ (\A n \in 1..Len(s) : Append(ls, one(e))[n] = ls[n])
        /\ Append(ls, one(e))[Len(s) + 1] = one(e)
    BY <1>2, <1>3, AppendProperties
  <2>2. ms \in Seq(Seq(A)) /\ Len(ms) = Len(s) + 1
    BY <1>1, <1>2
  <2>3. ASSUME NEW n \in 1..(Len(s) + 1) PROVE ms[n] = Append(ls, one(e))[n]
    <3>1. CASE n \in 1..Len(s)
      BY <1>2, <2>1, <3>1
    <3>2. CASE n = Len(s) + 1
      BY <1>2, <2>1, <3>2
    <3> QED
      BY <1>2, <3>1, <3>2
  <2> HIDE DEF ms, ls
  <2> QED
    BY <2>1, <2>2, <2>3, SeqEqual
<1>5. Only(t, S) = Flat(ms) /\ Only(s, S) = Flat(ls)
  BY DEF Only, one
<1> HIDE DEF ls, ms
<1>6. Only(t, S) = Cat(Only(s, S), one(e))
  BY <1>3, <1>4, <1>5, FlatAppend
<1>7. Only(s, S) \in Seq(A)
  BY <1>3, <1>5, FlatType
<1>8. CASE e \in S
  <2>1. one(e) = <<e>>
    BY <1>8 DEF one
  <2>2. Append(Only(s, S), e) = Cat(Only(s, S), <<e>>)
    BY <1>7, AppendIsConcat DEF Cat
  <2> QED
    BY <1>6, <1>8, <2>1, <2>2 DEF t
<1>9. CASE e \notin S
  <2>1. one(e) = << >>
    BY <1>9 DEF one
  <2> QED
    BY <1>6, <1>7, <1>9, <2>1, CatEmpty DEF t
<1> QED
  BY <1>8, <1>9

LEMMA RangeAppend ==
  ASSUME NEW A, NEW s \in Seq(A), NEW e \in A
  PROVE  Range(Append(s, e)) = Range(s) \cup {e}
<1>1. s \in Seq(A) /\ Len(s) \in Nat /\ DOMAIN s = 1..Len(s)
  OBVIOUS
<1>2. /\ DOMAIN Append(s, e) = 1..Len(s) \cup {Len(s) + 1}
      /\ Append(s, e)[Len(s) + 1] = e
      /\ \A i \in 1..Len(s) : Append(s, e)[i] = s[i]
  BY <1>1
<1> QED
  BY <1>1, <1>2 DEF Range

\* Only keeps the elements of s that are in S, and nothing else.
LEMMA OnlyKeeps ==
  ASSUME NEW A, NEW S
  PROVE  \A s \in Seq(A) : /\ Only(s, S) \in Seq(A \cap S)
                           /\ Range(Only(s, S)) = Range(s) \cap S
                           /\ Len(Only(s, S)) <= Len(s)
<1> DEFINE Right(s) == /\ Only(s, S) \in Seq(A \cap S)
                       /\ Range(Only(s, S)) = Range(s) \cap S
                       /\ Len(Only(s, S)) <= Len(s)
           G == {s \in Seq(A) : Right(s)}
<1>1. << >> \in G
  <2>1. Range(<< >>) = {} /\ Only(<< >>, S) = << >> /\ Len(<< >>) = 0
    BY OnlyEmpty DEF Range
  <2>2. << >> \in Seq(A) /\ << >> \in Seq(A \cap S) /\ {} = {} \cap S /\ 0 <= 0
    OBVIOUS
  <2>3. Right(<< >>)
    BY <2>1, <2>2, Zenon
  <2> HIDE DEF Right
  <2> QED
    BY <2>2, <2>3
<1>2. ASSUME NEW s \in Seq(A), s \in G, NEW e \in A PROVE Append(s, e) \in G
  <2>1. Append(s, e) \in Seq(A) /\ Len(Append(s, e)) = Len(s) + 1 /\ Len(s) \in Nat
    OBVIOUS
  <2>2. Right(s)
    BY <1>2
  <2>3. Range(Append(s, e)) = Range(s) \cup {e}
    BY RangeAppend
  <2>4. CASE e \in S
    <3> DEFINE q == Only(s, S)
    <3>1. Only(Append(s, e), S) = Append(q, e) /\ q \in Seq(A \cap S) /\ e \in A \cap S
      BY <2>2, <2>4, OnlyAppend
    <3>2. Append(q, e) \in Seq(A \cap S) /\ Len(Append(q, e)) = Len(q) + 1 /\ Len(q) \in Nat
      BY <3>1
    <3>3. Range(Append(q, e)) = Range(q) \cup {e}
      <4> HIDE DEF q
      <4> QED
        BY <3>1, RangeAppend
    <3>4. Range(q) = Range(s) \cap S /\ Len(q) <= Len(s)
      BY <2>2
    <3>5. Range(Append(q, e)) = Range(Append(s, e)) \cap S
      <4> HIDE DEF q
      <4> QED
        BY <2>3, <2>4, <3>3, <3>4
    <3>6. Len(Append(q, e)) <= Len(Append(s, e))
      <4> HIDE DEF q
      <4> QED
        BY <2>1, <3>2, <3>4
    <3>7. Right(Append(s, e))
      <4> HIDE DEF q
      <4> QED
        BY <3>1, <3>2, <3>5, <3>6
    <3> HIDE DEF Right
    <3> QED
      BY <2>1, <3>7
  <2>5. CASE e \notin S
    <3>1. Only(Append(s, e), S) = Only(s, S)
      BY <2>5, OnlyAppend
    <3>2. Len(Only(s, S)) \in Nat
      BY <2>2
    <3> QED
      BY <2>1, <2>2, <2>3, <2>5, <3>1, <3>2
  <2> QED
    BY <2>4, <2>5
<1> HIDE DEF G
<1>3. \A s \in Seq(A) : s \in G
  BY <1>1, <1>2, SequenceInduction
<1> QED
  BY <1>3 DEF G

\* What Only begins with is the first element of its kind.
FirstOf(s, S, h) ==
    \E i \in 1..Len(s) : s[i] = h /\ \A j \in 1..(i - 1) : s[j] \notin S

LEMMA OnlyHead ==
  ASSUME NEW A, NEW S
  PROVE  \A s \in Seq(A) : Only(s, S) # << >> => FirstOf(s, S, Head(Only(s, S)))
<1> DEFINE G == {s \in Seq(A) : Only(s, S) # << >> => FirstOf(s, S, Head(Only(s, S)))}
<1>1. << >> \in G
  BY OnlyEmpty
<1>2. ASSUME NEW s \in Seq(A), s \in G, NEW e \in A PROVE Append(s, e) \in G
  <2>1. PICK o, r, u : o = Only(s, S) /\ r = Append(s, e) /\ u = Only(r, S)
    OBVIOUS
  <2>2. /\ r \in Seq(A) /\ Len(s) \in Nat /\ Len(r) = Len(s) + 1 /\ r[Len(s) + 1] = e
        /\ \A k \in 1..Len(s) : r[k] = s[k]
    BY <2>1
  <2>3. u = IF e \in S THEN Append(o, e) ELSE o
    BY <2>1, OnlyAppend
  <2>4. o \in Seq(A \cap S) /\ Range(o) = Range(s) \cap S
    BY <2>1, OnlyKeeps
  <2>5. CASE o # << >>
    <3>1. Head(u) = Head(o)
      BY <2>3, <2>4, <2>5
    <3>2. PICK i \in 1..Len(s) : s[i] = Head(o) /\ \A j \in 1..(i - 1) : s[j] \notin S
      BY <1>2, <2>1, <2>5 DEF FirstOf
    <3>3. i \in 1..Len(r) /\ r[i] = Head(u) /\ \A j \in 1..(i - 1) : r[j] \notin S
      BY <2>2, <3>1, <3>2
    <3> QED
      BY <2>1, <2>2, <3>3 DEF FirstOf
  <2>6. CASE o = << >> /\ e \in S
    <3>1. Head(u) = e
      BY <2>3, <2>6
    <3>2. \A j \in 1..Len(s) : s[j] \notin S
      BY <2>4, <2>6 DEF Range
    <3>3. PICK i : i = Len(s) + 1
      OBVIOUS
    <3>4. i \in 1..Len(r) /\ r[i] = Head(u) /\ \A j \in 1..(i - 1) : r[j] \notin S
      BY <2>2, <3>1, <3>2, <3>3
    <3>5. FirstOf(r, S, Head(u))
      BY <3>4 DEF FirstOf
    <3> QED
      BY <2>1, <2>2, <3>5
  <2>7. CASE o = << >> /\ e \notin S
    BY <2>1, <2>2, <2>3, <2>7
  <2> QED
    BY <2>5, <2>6, <2>7
<1>3. \A s \in Seq(A) : s \in G
  <2> HIDE DEF G
  <2> QED
    BY <1>1, <1>2, SequenceInduction
<1> QED
  BY <1>3

LEMMA OnlyFacts ==
  ASSUME NEW A, NEW s \in Seq(A), NEW S
  PROVE  Only(s, S) \in Seq(A \cap S) /\ Range(Only(s, S)) = Range(s) \cap S
  BY OnlyKeeps

LEMMA OnlyType ==
  ASSUME NEW A, NEW s \in Seq(A), NEW S
  PROVE  Only(s, S) \in Seq(A)
<1>1. Only(s, S) \in Seq(A \cap S)
  BY OnlyKeeps
<1> QED
  BY <1>1

LEMMA OnlyCat ==
  ASSUME NEW A, NEW s \in Seq(A), NEW S
  PROVE  \A t \in Seq(A) : Only(Cat(s, t), S) = Cat(Only(s, S), Only(t, S))
<1> DEFINE G == {t \in Seq(A) : Only(Cat(s, t), S) = Cat(Only(s, S), Only(t, S))}
<1>1. << >> \in G
  <2>1. Only(s, S) \in Seq(A) /\ << >> \in Seq(A)
    BY OnlyType
  <2>2. Cat(s, << >>) = s /\ Cat(Only(s, S), << >>) = Only(s, S)
    BY <2>1, CatEmpty
  <2>3. Only(<< >>, S) = << >>
    BY OnlyEmpty
  <2> QED
    BY <2>1, <2>2, <2>3
<1>2. ASSUME NEW t \in Seq(A), t \in G, NEW e \in A PROVE Append(t, e) \in G
  <2>1. Append(t, e) \in Seq(A)
    BY AppendProperties
  <2>2. Cat(s, Append(t, e)) = Append(Cat(s, t), e)
    BY CatAppend
  <2>3. Only(Cat(s, t), S) = Cat(Only(s, S), Only(t, S))
    BY <1>2
  <2>4. PICK st \in Seq(A) : st = Cat(s, t)
    BY CatType
  <2>5. Only(s, S) \in Seq(A) /\ Only(t, S) \in Seq(A)
    BY OnlyType
  <2>6. CASE e \in S
    <3>1. Only(Append(t, e), S) = Append(Only(t, S), e)
      BY <2>6, OnlyAppend
    <3>2. Only(Append(st, e), S) = Append(Only(st, S), e)
      BY <2>6, OnlyAppend
    <3>3. Cat(Only(s, S), Append(Only(t, S), e)) = Append(Cat(Only(s, S), Only(t, S)), e)
      BY <2>5, CatAppend
    <3> QED
      BY <2>1, <2>2, <2>3, <2>4, <3>1, <3>2, <3>3
  <2>7. CASE e \notin S
    <3>1. Only(Append(t, e), S) = Only(t, S)
      BY <2>7, OnlyAppend
    <3>2. Only(Append(st, e), S) = Only(st, S)
      BY <2>7, OnlyAppend
    <3> QED
      BY <2>1, <2>2, <2>3, <2>4, <3>1, <3>2
  <2> QED
    BY <2>6, <2>7
<1> HIDE DEF G
<1>3. \A t \in Seq(A) : t \in G
  BY <1>1, <1>2, SequenceInduction
<1> QED
  BY <1>3 DEF G

LEMMA OnlyOne ==
  ASSUME NEW e, NEW S
  PROVE  Only(<<e>>, S) = IF e \in S THEN <<e>> ELSE << >>
<1>1. << >> \in Seq({e}) /\ Append(<< >>, e) = <<e>> /\ e \in {e}
  OBVIOUS
<1>2. Only(<< >>, S) = << >>
  BY OnlyEmpty
<1>3. Only(Append(<< >>, e), S) = IF e \in S THEN Append(Only(<< >>, S), e) ELSE Only(<< >>, S)
  BY <1>1, OnlyAppend
<1> QED
  BY <1>1, <1>2, <1>3

\* Where all pass, nothing is left out.
LEMMA OnlyAll ==
  ASSUME NEW S
  PROVE  \A s \in Seq(S) : Only(s, S) = s
<1> DEFINE G == {s \in Seq(S) : Only(s, S) = s}
<1>1. << >> \in G
  BY OnlyEmpty
<1>2. ASSUME NEW s \in Seq(S), s \in G, NEW e \in S PROVE Append(s, e) \in G
  BY <1>2, OnlyAppend
<1> HIDE DEF G
<1>3. \A s \in Seq(S) : s \in G
  BY <1>1, <1>2, SequenceInduction
<1> QED
  BY <1>3 DEF G

\* A selection of a selection.
LEMMA OnlyOnly ==
  ASSUME NEW A, NEW S, NEW T
  PROVE  \A s \in Seq(A) : Only(Only(s, S), T) = Only(s, S \cap T)
<1> DEFINE G == {s \in Seq(A) : Only(Only(s, S), T) = Only(s, S \cap T)}
<1>1. << >> \in G
  <2>1. << >> \in Seq(A) /\ Only(<< >>, S) = << >> /\ Only(<< >>, T) = << >>
        /\ Only(<< >>, S \cap T) = << >>
    BY OnlyEmpty
  <2> QED
    BY <2>1
<1>2. ASSUME NEW s \in Seq(A), s \in G, NEW e \in A PROVE Append(s, e) \in G
  <2>1. Append(s, e) \in Seq(A)
    BY AppendProperties
  <2>2. PICK o : o = Only(s, S)
    OBVIOUS
  <2>3. o \in Seq(A)
    BY <2>2, OnlyType
  <2>4. Only(o, T) = Only(s, S \cap T)
    BY <1>2, <2>2
  <2>5. Only(Append(s, e), S \cap T) = IF e \in S \cap T THEN Append(Only(s, S \cap T), e)
                                                        ELSE Only(s, S \cap T)
    BY OnlyAppend
  <2>6. Only(Append(s, e), S) = IF e \in S THEN Append(o, e) ELSE o
    BY <2>2, OnlyAppend
  <2>7. Only(Append(o, e), T) = IF e \in T THEN Append(Only(o, T), e) ELSE Only(o, T)
    BY <2>3, OnlyAppend
  <2>8. Only(Only(Append(s, e), S), T) = Only(Append(s, e), S \cap T)
    <3>1. CASE e \in S /\ e \in T
      <4>1. Only(Append(s, e), S) = Append(o, e) /\ Only(Append(o, e), T) = Append(Only(o, T), e)
        BY <2>6, <2>7, <3>1
      <4>2. Only(Append(s, e), S \cap T) = Append(Only(s, S \cap T), e)
        BY <2>5, <3>1
      <4> QED
        BY <2>4, <4>1, <4>2
    <3>2. CASE e \in S /\ e \notin T
      <4>1. Only(Append(s, e), S) = Append(o, e) /\ Only(Append(o, e), T) = Only(o, T)
        BY <2>6, <2>7, <3>2
      <4>2. Only(Append(s, e), S \cap T) = Only(s, S \cap T)
        BY <2>5, <3>2
      <4> QED
        BY <2>4, <4>1, <4>2
    <3>3. CASE e \notin S
      <4>1. Only(Append(s, e), S) = o /\ Only(Append(s, e), S \cap T) = Only(s, S \cap T)
        BY <2>5, <2>6, <3>3
      <4> QED
        BY <2>4, <4>1
    <3> QED
      BY <3>1, <3>2, <3>3
  <2> QED
    BY <2>1, <2>8
<1> HIDE DEF G
<1>3. \A s \in Seq(A) : s \in G
  BY <1>1, <1>2, SequenceInduction
<1> QED
  BY <1>3 DEF G

\* What a list of lists holds.
LEMMA FlatRange ==
  ASSUME NEW A
  PROVE  \A ls \in Seq(Seq(A)) :
            \A x : x \in Range(Flat(ls)) <=> \E k \in 1..Len(ls) : x \in Range(ls[k])
<1> DEFINE Holds(ls) == \A x : x \in Range(Flat(ls)) <=> \E k \in 1..Len(ls) : x \in Range(ls[k])
           G == {ls \in Seq(Seq(A)) : Holds(ls)}
<1>1. << >> \in G
  <2>1. Range(<< >>) = {} /\ Len(<< >>) = 0 /\ << >> \in Seq(Seq(A))
    BY DEF Range
  <2>2. 1..0 = {}
    OBVIOUS
  <2> QED
    BY <2>1, <2>2, FlatEmpty
<1>2. ASSUME NEW ls \in Seq(Seq(A)), ls \in G, NEW l \in Seq(A) PROVE Append(ls, l) \in G
  <2>1. PICK ms : ms = Append(ls, l)
    OBVIOUS
  <2>2. ms \in Seq(Seq(A)) /\ Longer(ms, ls, l)
    BY <2>1, AppendElements
  <2>3. Flat(ms) = Cat(Flat(ls), l) /\ Flat(ls) \in Seq(A)
    BY <2>1, FlatAppend, FlatType
  <2>4. Range(Flat(ms)) = Range(Flat(ls)) \cup Range(l)
    BY <2>3, CatRange
  <2>5. Len(ls) \in Nat /\ Len(ms) = Len(ls) + 1 /\ ms[Len(ls) + 1] = l
        /\ \A k \in 1..Len(ls) : ms[k] = ls[k]
    BY <2>2 DEF Longer
  <2>6. Holds(ls)
    BY <1>2
  <2>7. ASSUME NEW x
        PROVE  (\E k \in 1..Len(ms) : x \in Range(ms[k]))
                  <=> (\E k \in 1..Len(ls) : x \in Range(ls[k])) \/ x \in Range(l)
    <3>1. ASSUME NEW k \in 1..Len(ms), x \in Range(ms[k])
          PROVE  (\E j \in 1..Len(ls) : x \in Range(ls[j])) \/ x \in Range(l)
      <4>1. k \in 1..Len(ls) \/ k = Len(ls) + 1
        BY <2>5
      <4> QED
        BY <2>5, <3>1, <4>1
    <3>2. ASSUME NEW k \in 1..Len(ls), x \in Range(ls[k])
          PROVE  \E j \in 1..Len(ms) : x \in Range(ms[j])
      <4>1. k \in 1..Len(ms)
        BY <2>5
      <4> QED
        BY <2>5, <3>2, <4>1
    <3>3. ASSUME x \in Range(l) PROVE \E j \in 1..Len(ms) : x \in Range(ms[j])
      <4>1. Len(ls) + 1 \in 1..Len(ms)
        BY <2>5
      <4> QED
        BY <2>5, <3>3, <4>1
    <3> QED
      BY <3>1, <3>2, <3>3
  <2>8. Holds(ms)
    BY <2>4, <2>6, <2>7
  <2> QED
    BY <2>1, <2>2, <2>8
<1> HIDE DEF G
<1>3. \A ls \in Seq(Seq(A)) : ls \in G
  BY <1>1, <1>2, SequenceInduction
<1> QED
  BY <1>3 DEF G

-------------------------------------------------------------------------------
(* A list read from behind.                                                *)

LEMMA ReverseElements ==
  ASSUME NEW A, NEW s \in Seq(A)
  PROVE  /\ Reverse(s) \in Seq(A) /\ Len(Reverse(s)) = Len(s) /\ Range(Reverse(s)) = Range(s)
         /\ \A k \in 1..Len(s) : Reverse(s)[k] = s[(Len(s) - k) + 1]
<1>1. PICK n \in Nat : n = Len(s)
  OBVIOUS
<1>2. PICK r : r = Reverse(s)
  OBVIOUS
<1>3. r = [k \in 1..n |-> s[(n - k) + 1]]
  BY <1>1, <1>2 DEF Reverse
<1>4. \A k \in 1..n : (n - k) + 1 \in 1..n /\ (n - ((n - k) + 1)) + 1 = k
  OBVIOUS
<1>5. \A k \in 1..n : s[k] \in A
  BY <1>1
<1>6. r \in Seq(A) /\ Len(r) = n
  <2>1. \A k \in 1..n : s[(n - k) + 1] \in A
    BY <1>4, <1>5
  <2> QED
    BY <1>3, <2>1
<1>7. DOMAIN r = 1..n /\ DOMAIN s = 1..n
  BY <1>1, <1>3
<1>8. ASSUME NEW k \in 1..n PROVE s[k] \in Range(r)
  <2>1. PICK j \in 1..n : (n - j) + 1 = k
    BY <1>4
  <2>2. r[j] = s[k]
    BY <1>3, <2>1
  <2> QED
    BY <1>7, <2>2 DEF Range
<1>9. ASSUME NEW k \in 1..n PROVE r[k] \in Range(s)
  <2>1. r[k] = s[(n - k) + 1] /\ (n - k) + 1 \in 1..n
    BY <1>3, <1>4
  <2> QED
    BY <1>7, <2>1 DEF Range
<1>10. Range(r) = Range(s)
  BY <1>7, <1>8, <1>9 DEF Range
<1> QED
  BY <1>1, <1>2, <1>3, <1>6, <1>10

LEMMA ReverseAppend ==
  ASSUME NEW A, NEW s \in Seq(A), NEW e \in A
  PROVE  Reverse(Append(s, e)) = Cat(<<e>>, Reverse(s))
<1>1. PICK one : one = <<e>>
  OBVIOUS
<1>2. one \in Seq(A) /\ Len(one) = 1 /\ one[1] = e
  BY <1>1
<1>3. PICK u, r : u = Append(s, e) /\ r = Reverse(s)
  OBVIOUS
<1>4. PICK v, w : v = Reverse(u) /\ w = Cat(one, r)
  OBVIOUS
<1>5. PICK n \in Nat : n = Len(s)
  OBVIOUS
<1>6. u \in Seq(A) /\ Longer(u, s, e)
  BY <1>3, AppendElements
<1>7. Len(u) = n + 1 /\ u[n + 1] = e /\ \A k \in 1..n : u[k] = s[k]
  BY <1>5, <1>6 DEF Longer
<1>8. r \in Seq(A) /\ Len(r) = n /\ \A k \in 1..n : r[k] = s[(n - k) + 1]
  BY <1>3, <1>5, ReverseElements
<1>9. v \in Seq(A) /\ Len(v) = n + 1 /\ \A k \in 1..(n + 1) : v[k] = u[((n + 1) - k) + 1]
  <2>1. v \in Seq(A) /\ Len(v) = Len(u) /\ \A k \in 1..Len(u) : v[k] = u[(Len(u) - k) + 1]
    BY <1>4, <1>6, ReverseElements
  <2> QED
    BY <1>7, <2>1
<1>10. w \in Seq(A) /\ Len(w) = n + 1 /\ w[1] = e /\ \A k \in 1..n : w[1 + k] = r[k]
  <2>1. w \in Seq(A) /\ Joins(w, one, r)
    BY <1>2, <1>4, <1>8, CatType, CatElements
  <2>2. Len(w) = 1 + n /\ (\A k \in 1..1 : w[k] = one[k]) /\ \A k \in 1..n : w[1 + k] = r[k]
    BY <1>2, <1>8, <2>1 DEF Joins
  <2> QED
    BY <1>2, <2>1, <2>2
<1>11. ASSUME NEW k \in 1..(n + 1) PROVE v[k] = w[k]
  <2>1. v[k] = u[((n + 1) - k) + 1]
    BY <1>9
  <2>2. CASE k = 1
    <3>1. ((n + 1) - k) + 1 = n + 1
      BY <2>2
    <3> QED
      BY <1>7, <1>10, <2>1, <2>2, <3>1
  <2>3. CASE k # 1
    <3>1. PICK j, h : j = k - 1 /\ h = ((n + 1) - k) + 1
      OBVIOUS
    <3>2. j \in 1..n /\ h \in 1..n /\ 1 + j = k /\ h = (n - j) + 1
      BY <2>3, <3>1
    <3>3. w[k] = r[j] /\ r[j] = s[h]
      BY <1>8, <1>10, <3>2
    <3>4. v[k] = s[h]
      BY <1>7, <2>1, <3>1, <3>2
    <3> QED
      BY <3>3, <3>4
  <2> QED
    BY <2>2, <2>3
<1>12. v = w
  BY <1>9, <1>10, <1>11, SeqEqual
<1> QED
  BY <1>1, <1>3, <1>4, <1>12

\* As many of a kind are met from behind.
LEMMA OnlyReversed ==
  ASSUME NEW A, NEW S
  PROVE  \A s \in Seq(A) : Len(Only(Reverse(s), S)) = Len(Only(s, S))
<1> DEFINE G == {s \in Seq(A) : Len(Only(Reverse(s), S)) = Len(Only(s, S))}
<1>1. << >> \in G
  <2>1. << >> \in Seq(A) /\ Reverse(<< >>) = << >>
    BY DEF Reverse
  <2> QED
    BY <2>1
<1>2. ASSUME NEW s \in Seq(A), s \in G, NEW e \in A PROVE Append(s, e) \in G
  <2>1. PICK one, r : one = <<e>> /\ r = Reverse(s)
    OBVIOUS
  <2>2. one \in Seq(A)
    BY <2>1
  <2>3. r \in Seq(A)
    BY <2>1, ReverseElements
  <2>4. PICK o1, o2 : o1 = Only(one, S) /\ o2 = Only(r, S)
    OBVIOUS
  <2>5. o1 \in Seq(A) /\ o2 \in Seq(A)
    BY <2>2, <2>3, <2>4, OnlyType
  <2>6. Only(Cat(one, r), S) = Cat(o1, o2)
    BY <2>2, <2>3, <2>4, OnlyCat
  <2>7. Len(Cat(o1, o2)) = Len(o1) + Len(o2)
    BY <2>5, CatType
  <2>8. Reverse(Append(s, e)) = Cat(one, r)
    BY <2>1, ReverseAppend
  <2>9. Len(o2) = Len(Only(s, S)) /\ Len(o2) \in Nat
    BY <1>2, <2>1, <2>4, <2>5
  <2>10. Len(o1) = IF e \in S THEN 1 ELSE 0
    <3>1. o1 = IF e \in S THEN <<e>> ELSE << >>
      BY <2>1, <2>4, OnlyOne
    <3> QED
      BY <3>1
  <2>11. Len(Only(Append(s, e), S)) = IF e \in S THEN Len(Only(s, S)) + 1 ELSE Len(Only(s, S))
    <3>1. Only(s, S) \in Seq(A)
      BY OnlyType
    <3>2. Len(Append(Only(s, S), e)) = Len(Only(s, S)) + 1
      BY <3>1, AppendProperties
    <3>3. Only(Append(s, e), S) = IF e \in S THEN Append(Only(s, S), e) ELSE Only(s, S)
      BY OnlyAppend
    <3> QED
      BY <3>2, <3>3
  <2>12. Len(Only(Reverse(Append(s, e)), S)) = Len(Only(Append(s, e), S))
    BY <2>6, <2>7, <2>8, <2>9, <2>10, <2>11
  <2>13. Append(s, e) \in Seq(A)
    BY AppendProperties
  <2> QED
    BY <2>12, <2>13
<1> HIDE DEF G
<1>3. \A s \in Seq(A) : s \in G
  BY <1>1, <1>2, SequenceInduction
<1> QED
  BY <1>3 DEF G
===============================================================================
