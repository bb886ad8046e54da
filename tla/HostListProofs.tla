---------------------------- MODULE HostListProofs ----------------------------
(***************************************************************************)
(* Facts about lists without repetition and about the relation IsLearned,  *)
(* for every set of hosts and every list of entries.                       *)
(***************************************************************************)
EXTENDS HostList, TLAPS, FiniteSetTheorems, SequenceTheorems

\* The first n + 1 elements of a sequence are the first n and one more.
LEMMA PrefixGrows ==
    ASSUME NEW S, NEW s \in Seq(S), NEW n \in Nat, n < Len(s)
    PROVE  /\ SubSeq(s, 1, n) \in Seq(S) /\ Len(SubSeq(s, 1, n)) = n
           /\ \A i \in 1..n : SubSeq(s, 1, n)[i] = s[i]
           /\ SubSeq(s, 1, n + 1) \in Seq(S) /\ Len(SubSeq(s, 1, n + 1)) = n + 1
           /\ \A i \in 1..(n + 1) : SubSeq(s, 1, n + 1)[i] = s[i]
           /\ Range(SubSeq(s, 1, n + 1)) = Range(SubSeq(s, 1, n)) \cup {s[n + 1]}
<1>1. /\ SubSeq(s, 1, n) \in Seq(S) /\ Len(SubSeq(s, 1, n)) = n
      /\ \A i \in 1..n : SubSeq(s, 1, n)[i] = s[i]
  OBVIOUS
<1>2. /\ SubSeq(s, 1, n + 1) \in Seq(S) /\ Len(SubSeq(s, 1, n + 1)) = n + 1
      /\ \A i \in 1..(n + 1) : SubSeq(s, 1, n + 1)[i] = s[i]
  OBVIOUS
<1>3. Range(SubSeq(s, 1, n + 1)) = Range(SubSeq(s, 1, n)) \cup {s[n + 1]}
  <2>1. DOMAIN SubSeq(s, 1, n) = 1..n /\ DOMAIN SubSeq(s, 1, n + 1) = 1..(n + 1)
    BY <1>1, <1>2
  <2>2. 1..(n + 1) = 1..n \cup {n + 1}
    OBVIOUS
  <2>3. Range(SubSeq(s, 1, n)) = {s[i] : i \in 1..n}
    BY <1>1, <2>1 DEF Range
  <2>4. Range(SubSeq(s, 1, n + 1)) = {s[i] : i \in 1..(n + 1)}
    BY <1>2, <2>1 DEF Range
  <2> QED
    BY <2>2, <2>3, <2>4
<1> QED
  BY <1>1, <1>2, <1>3

\* What appending one element does to a sequence.
LEMMA AppendFacts ==
    ASSUME NEW S, NEW s \in Seq(S), NEW e \in S
    PROVE  /\ Append(s, e) \in Seq(S) /\ Len(Append(s, e)) = Len(s) + 1
           /\ \A i \in 1..Len(s) : Append(s, e)[i] = s[i]
           /\ Append(s, e)[Len(s) + 1] = e
           /\ Range(Append(s, e)) = Range(s) \cup {e}
           /\ IsInjective(s) /\ e \notin Range(s) => IsInjective(Append(s, e))
<1>1. /\ Append(s, e) \in Seq(S) /\ Len(Append(s, e)) = Len(s) + 1
      /\ \A i \in 1..Len(s) : Append(s, e)[i] = s[i]
      /\ Append(s, e)[Len(s) + 1] = e
      /\ DOMAIN Append(s, e) = 1..(Len(s) + 1)
      /\ DOMAIN s = 1..Len(s) /\ Len(s) \in Nat
  OBVIOUS
<1>2. 1..(Len(s) + 1) = 1..Len(s) \cup {Len(s) + 1}
  BY <1>1
<1>3. Range(Append(s, e)) = Range(s) \cup {e}
  BY <1>1, <1>2 DEF Range
<1>4. IsInjective(s) /\ e \notin Range(s) => IsInjective(Append(s, e))
  BY <1>1, <1>2 DEF IsInjective, Range
<1> QED
  BY <1>1, <1>3, <1>4

\* Taking the first element out.
LEMMA TailFacts ==
    ASSUME NEW S, NEW s \in Seq(S), s # << >>, IsInjective(s)
    PROVE  /\ Tail(s) \in Seq(S) /\ IsInjective(Tail(s))
           /\ Range(Tail(s)) = Range(s) \ {s[1]}
<1>1. /\ Tail(s) \in Seq(S) /\ Len(Tail(s)) = Len(s) - 1 /\ Len(s) \in Nat \ {0}
      /\ \A j \in 1..(Len(s) - 1) : Tail(s)[j] = s[j + 1]
  OBVIOUS
<1>2. DOMAIN Tail(s) = 1..(Len(s) - 1) /\ DOMAIN s = 1..Len(s)
  BY <1>1
<1>3. IsInjective(Tail(s))
  BY <1>1, <1>2 DEF IsInjective
<1>4. Range(Tail(s)) \subseteq Range(s) \ {s[1]}
  BY <1>1, <1>2 DEF Range, IsInjective
<1>5. Range(s) \ {s[1]} \subseteq Range(Tail(s))
  <2> SUFFICES ASSUME NEW j \in 1..Len(s), s[j] # s[1] PROVE s[j] \in Range(Tail(s))
    BY <1>2 DEF Range
  <2>1. j - 1 \in 1..(Len(s) - 1) /\ Tail(s)[j - 1] = s[j]
    BY <1>1
  <2> QED
    BY <1>2, <2>1 DEF Range
<1> QED
  BY <1>1, <1>3, <1>4, <1>5

\* An entry the loop takes in is new: what was learned from the entries
\* before it, and then that entry, is what is learned from both.
LEMMA LearnOneMore ==
    ASSUME NEW base \in Seq(Hosts), NEW p \in Seq(Entries), NEW q \in Seq(Entries),
           NEW e \in Entries,
           Len(q) = Len(p) + 1, \A i \in 1..Len(p) : q[i] = p[i], q[Len(p) + 1] = e,
           Range(q) = Range(p) \cup {e},
           NEW k \in Seq(Hosts), IsLearned(base, p, k)
    PROVE  IsLearned(base, q,
                     IF e \in Hosts /\ e \notin Range(k) THEN Append(k, e) ELSE k)
<1> DEFINE n == Len(p)
<1>1. /\ n \in Nat /\ DOMAIN p = 1..n /\ DOMAIN k = 1..Len(k) /\ Len(k) \in Nat
      /\ DOMAIN base = 1..Len(base) /\ Len(base) \in Nat
  OBVIOUS
<1>2. /\ Len(base) <= Len(k) /\ \A i \in 1..Len(base) : k[i] = base[i]
      /\ IsInjective(k) /\ Range(k) = Range(base) \cup (Range(p) \cap Hosts)
      /\ \A i, j \in (Len(base) + 1)..Len(k) : i < j => NamedBefore(p, k[i], k[j])
  BY DEF IsLearned, Known
<1>3. \A a, b : NamedBefore(p, a, b) => NamedBefore(q, a, b)
  BY <1>1 DEF NamedBefore
<1>4. CASE e \in Hosts /\ e \notin Range(k)
  <2> DEFINE r == Append(k, e)
  <2>1. /\ r \in Seq(Hosts) /\ Len(r) = Len(k) + 1
        /\ \A i \in 1..Len(k) : r[i] = k[i]
        /\ r[Len(k) + 1] = e
        /\ Range(r) = Range(k) \cup {e}
        /\ IsInjective(r)
    BY <1>2, <1>4, AppendFacts
  <2>2. Range(r) = Known(base, q)
    BY <1>1, <1>2, <1>4, <2>1 DEF Known
  <2>3. ASSUME NEW i \in (Len(base) + 1)..Len(k)
        PROVE  NamedBefore(q, k[i], e)
    <3>0. i \in DOMAIN k /\ i > Len(base)
      BY <1>1
    <3>1. k[i] \in Range(k) /\ k[i] \notin Range(base)
      <4>1. ASSUME NEW b \in 1..Len(base), base[b] = k[i]
            PROVE  FALSE
        <5>1. b \in DOMAIN k /\ k[b] = k[i] /\ b # i
          BY <1>1, <1>2, <3>0, <4>1
        <5> QED
          BY <1>2, <3>0, <5>1 DEF IsInjective
      <4> QED
        BY <1>1, <3>0, <4>1 DEF Range
    <3>2. PICK a \in 1..n : p[a] = k[i]
      BY <1>1, <1>2, <3>1 DEF Range
    <3>3. \A b \in 1..n : p[b] # e
      BY <1>1, <1>2, <1>4 DEF Range
    <3>4. a \in 1..Len(q) /\ q[a] = k[i]
      BY <1>1, <3>2
    <3>5. \A b \in 1..a : q[b] # e
      <4> TAKE b \in 1..a
      <4>1. b \in 1..n
        BY <1>1
      <4> QED
        BY <3>3, <4>1
    <3> QED
      BY <3>4, <3>5 DEF NamedBefore
  <2>4. ASSUME NEW i \in (Len(base) + 1)..Len(r), NEW j \in (Len(base) + 1)..Len(r), i < j
        PROVE  NamedBefore(q, r[i], r[j])
    <3> HIDE DEF r
    <3>1. i \in (Len(base) + 1)..Len(k) /\ r[i] = k[i]
      BY <2>1, <2>4
    <3>2. CASE j = Len(k) + 1
      BY <2>1, <2>3, <3>1, <3>2
    <3>3. CASE j # Len(k) + 1
      <4>1. j \in (Len(base) + 1)..Len(k) /\ r[j] = k[j]
        BY <2>1, <3>3
      <4> QED
        <5>1. NamedBefore(p, k[i], k[j])
          BY <1>2, <2>4, <3>1, <4>1
        <5> QED
          BY <1>3, <3>1, <4>1, <5>1
    <3> QED
      BY <3>2, <3>3
  <2>5. Len(base) <= Len(r) /\ \A i \in 1..Len(base) : r[i] = base[i]
    BY <1>2, <2>1
  <2> QED
    BY <1>4, <2>1, <2>2, <2>4, <2>5 DEF IsLearned
<1>5. CASE ~(e \in Hosts /\ e \notin Range(k))
  <2>1. Range(k) = Known(base, q)
    BY <1>1, <1>2, <1>5 DEF Known
  <2> QED
    BY <1>2, <1>3, <1>5, <2>1 DEF IsLearned
<1> QED
  BY <1>4, <1>5

\* A list without repetition is one of the orders of the hosts it names.
LEMMA InjectiveListIsOrder ==
    ASSUME NEW k \in Seq(Hosts), IsInjective(k)
    PROVE  k \in Orders(Range(k))
<1>1. Range(k) \subseteq Hosts /\ IsFiniteSet(Range(k))
  BY HostsAssumption, FS_Subset DEF Range
<1>2. k \in [1..Len(k) -> Range(k)] /\ Len(k) \in Nat
  BY DEF Range
<1>3. ExistsBijection(1..Len(k), Range(k))
  <2>1. k \in Bijection(1..Len(k), Range(k))
    BY <1>2 DEF Range, IsInjective, Bijection, Injection, Surjection
  <2> QED
    BY <2>1 DEF ExistsBijection
<1>4. Cardinality(Range(k)) = Len(k)
  BY <1>1, <1>2, <1>3, FS_CountingElements
<1> QED
  BY <1>2, <1>4 DEF Orders

\* What the loop starts from is a list of hosts without repetition.
LEMMA BaseFacts ==
    ASSUME NEW list \in Seq(Hosts), list # << >>, IsInjective(list), NEW r \in BOOLEAN
    PROVE  /\ Base(list, r) \in Seq(Hosts) /\ IsInjective(Base(list, r))
           /\ Base(list, r) # << >> /\ Base(list, r)[1] = list[1]
<1>1. list[1] \in Hosts
  OBVIOUS
<1>2. <<list[1]>> \in Seq(Hosts) /\ <<list[1]>> # << >> /\ <<list[1]>>[1] = list[1]
      /\ DOMAIN <<list[1]>> = {1}
  BY <1>1
<1>3. IsInjective(<<list[1]>>)
  BY <1>2 DEF IsInjective
<1> QED
  BY <1>2, <1>3 DEF Base

\* Before any entry is taken, what is kept is the base itself.
LEMMA NothingLearnedYet ==
    ASSUME NEW base \in Seq(Hosts), IsInjective(base), NEW s \in Seq(Entries)
    PROVE  IsLearned(base, SubSeq(s, 1, 0), base)
<1>1. SubSeq(s, 1, 0) = << >>
  OBVIOUS
<1>2. Range(<< >>) = {}
  BY DEF Range
<1>3. Range(base) = Known(base, << >>)
  BY <1>2 DEF Known
<1>4. Len(base) \in Nat /\ (Len(base) + 1)..Len(base) = {}
  OBVIOUS
<1>5. IsLearned(base, << >>, base)
  BY <1>3, <1>4 DEF IsLearned
<1> QED
  BY <1>1, <1>5

\* The list with the host in use is sound where the list without it is.
LEMMA WithCurrentFacts ==
    ASSUME NEW k \in Seq(Hosts), k # << >>, IsInjective(k), NEW c \in Hosts
    PROVE  /\ WithCurrent(k, c) \in Seq(Hosts) /\ WithCurrent(k, c) # << >>
           /\ IsInjective(WithCurrent(k, c)) /\ WithCurrent(k, c)[1] = k[1]
<1>1. CASE c \in Range(k)
  BY <1>1 DEF WithCurrent
<1>2. CASE c \notin Range(k)
  <2>1. /\ Append(k, c) \in Seq(Hosts) /\ Len(Append(k, c)) = Len(k) + 1
        /\ \A i \in 1..Len(k) : Append(k, c)[i] = k[i]
        /\ IsInjective(Append(k, c))
    BY <1>2, AppendFacts
  <2>2. 1 \in 1..Len(k) /\ Append(k, c) # << >>
    BY <2>1
  <2> QED
    BY <1>2, <2>1, <2>2 DEF WithCurrent
<1> QED
  BY <1>1, <1>2

\* Every order of some hosts is a list of hosts without repetition.
LEMMA OrdersAreLists ==
    ASSUME NEW K \in SUBSET Hosts, NEW k \in Orders(K)
    PROVE  k \in Seq(Hosts) /\ IsInjective(k)
<1>1. IsFiniteSet(K)
  BY HostsAssumption, FS_Subset
<1>2. Cardinality(K) \in Nat
  BY <1>1, FS_CardinalityType
<1>3. k \in [1..Cardinality(K) -> K] /\ IsInjective(k)
  BY DEF Orders
<1>4. k \in Seq(K)
  BY <1>2, <1>3
<1> QED
  BY <1>3, <1>4
===============================================================================
