--------------------------- MODULE LearnHostsProofs ---------------------------
(***************************************************************************)
(* That the loop of learn_hosts computes the relation IsLearned, for every *)
(* list the client may have and every argument it may be called with.      *)
(***************************************************************************)
EXTENDS LearnHosts, HostListProofs

-------------------------------------------------------------------------------
(* The inductive invariant: types, what is kept so far, and, once the call *)
(* has returned, that the fields hold what the loop kept.                  *)

Returned ==
    IF returned THEN /\ hosts = WithCurrent(kept, current)
                     /\ hosts[index + 1] = current
                     /\ taken = Len(new)
                ELSE hosts = before

Inv == TypeOK /\ KeptIsLearned /\ Returned

LEMMA InitInv == Init => Inv
<1> SUFFICES ASSUME Init PROVE Inv
  OBVIOUS
<1>1. /\ hosts \in Seq(Hosts) /\ hosts # << >> /\ IsInjective(hosts)
      /\ new \in Seq(Entries) /\ before = hosts
  BY LearnAssumption DEF Init
<1>2. index \in 0..(Len(hosts) - 1) /\ index + 1 \in DOMAIN hosts
  BY <1>1 DEF Init
<1>3. /\ current \in Range(before)
      /\ kept = Base(hosts, replace) /\ replace \in BOOLEAN
      /\ taken = 0 /\ returned = FALSE
  BY <1>1, <1>2 DEF Init, Range
<1>4. kept \in Seq(Hosts) /\ IsInjective(kept)
  BY <1>1, <1>3, BaseFacts
<1>5. TypeOK
  <2>1. taken \in 0..Len(new)
    <3>1. Len(new) \in Nat
      BY <1>1
    <3> QED
      BY <1>3, <3>1
  <2>2. new \in Seq(Entries) /\ before \in Seq(Hosts) /\ before # << >> /\ IsInjective(before)
    BY <1>1
  <2> QED
    BY <1>1, <1>2, <1>3, <1>4, <2>1, <2>2, Zenon DEF TypeOK
<1>6. KeptIsLearned
  BY <1>1, <1>3, <1>4, NothingLearnedYet DEF KeptIsLearned
<1> QED
  BY <1>1, <1>3, <1>5, <1>6 DEF Inv, Returned

LEMMA NextInv == Inv /\ [Next]_vars => Inv'
<1> SUFFICES ASSUME Inv, [Next]_vars PROVE Inv'
  OBVIOUS
<1> USE DEF Inv
<1> DEFINE base == Base(before, replace)
<1>0. base \in Seq(Hosts) /\ IsInjective(base) /\ base # << >> /\ base[1] = before[1]
  BY BaseFacts DEF TypeOK
<1>1. CASE Take
  <2> DEFINE e == new[taken + 1]
             p == SubSeq(new, 1, taken)
             q == SubSeq(new, 1, taken + 1)
  <2>1. /\ taken \in Nat /\ taken < Len(new) /\ taken + 1 \in 1..Len(new)
        /\ new \in Seq(Entries) /\ e \in Entries
    BY <1>1 DEF Take, TypeOK
  <2>2. /\ p \in Seq(Entries) /\ Len(p) = taken
        /\ q \in Seq(Entries) /\ Len(q) = taken + 1
        /\ \A i \in 1..taken : q[i] = p[i]
        /\ q[taken + 1] = e
        /\ Range(q) = Range(p) \cup {e}
    BY <2>1, PrefixGrows
  <2> HIDE DEF p, q
  <2>3. kept' = IF e \in Hosts /\ e \notin Range(kept) THEN Append(kept, e) ELSE kept
    BY <1>1 DEF Take, IsNew
  <2>4. IsLearned(base, q, kept')
    <3>1. IsLearned(base, p, kept) /\ kept \in Seq(Hosts)
      BY DEF KeptIsLearned, TypeOK, p
    <3>2. Len(q) = Len(p) + 1 /\ (\A i \in 1..Len(p) : q[i] = p[i]) /\ q[Len(p) + 1] = e
      BY <2>2
    <3> HIDE DEF base, e
    <3> QED
      BY <1>0, <2>1, <2>2, <2>3, <3>1, <3>2, LearnOneMore
  <2>5. KeptIsLearned'
    BY <1>1, <2>4 DEF KeptIsLearned, Take, q
  <2>6. kept' \in Seq(Hosts)
    BY <2>3 DEF TypeOK
  <2>7. TypeOK'
    BY <1>1, <2>1, <2>6 DEF TypeOK, Take
  <2>8. Returned'
    BY <1>1, <2>1 DEF Returned, Take
  <2> QED
    BY <2>5, <2>7, <2>8
<1>2. CASE Finish
  <2>1. /\ kept \in Seq(Hosts) /\ kept # << >> /\ IsInjective(kept)
        /\ current \in Hosts
    BY <1>0 DEF TypeOK, KeptIsLearned, IsLearned, Range
  <2>2. hosts' \in Seq(Hosts) /\ hosts' # << >>
    BY <1>2, <2>1, WithCurrentFacts DEF Finish
  <2>3. TypeOK'
    BY <1>2, <2>2 DEF TypeOK, Finish
  <2>4. KeptIsLearned'
    BY <1>2 DEF KeptIsLearned, Finish
  <2>5. Returned'
    BY <1>2 DEF Returned, Finish
  <2> QED
    BY <2>3, <2>4, <2>5
<1>3. CASE UNCHANGED vars
  BY <1>3 DEF vars, TypeOK, KeptIsLearned, Returned
<1> QED
  BY <1>1, <1>2, <1>3 DEF Next

LEMMA AlwaysInv == Spec => []Inv
BY InitInv, NextInv, PTL DEF Spec

\* The fields of a client and the locals of learn_hosts keep their types.
THEOREM LearnHostsTypeCorrect == Spec => []TypeOK
<1>1. Inv => TypeOK
  BY DEF Inv
<1> QED
  BY AlwaysInv, <1>1, PTL

\* The configured host stays first and no host is listed twice, whatever is
\* learned: `kept.index(current)` has exactly one answer.
LEMMA InvKeepsListSound == Inv => ListStaysSound
<1> SUFFICES ASSUME Inv PROVE ListStaysSound
  OBVIOUS
<1> DEFINE base == Base(before, replace)
<1>0. base \in Seq(Hosts) /\ IsInjective(base) /\ base # << >> /\ base[1] = before[1]
  BY BaseFacts DEF Inv, TypeOK
<1>1. CASE ~returned
  BY <1>1 DEF Inv, Returned, TypeOK, ListStaysSound
<1>2. CASE returned
  <2>1. /\ kept \in Seq(Hosts) /\ IsInjective(kept) /\ Len(base) <= Len(kept)
        /\ \A i \in 1..Len(base) : kept[i] = base[i]
    BY DEF Inv, TypeOK, KeptIsLearned, IsLearned
  <2>2. kept # << >> /\ kept[1] = before[1]
    BY <1>0, <2>1
  <2>3. current \in Hosts
    BY DEF Inv, TypeOK, Range
  <2>4. IsInjective(WithCurrent(kept, current)) /\ WithCurrent(kept, current)[1] = kept[1]
    BY <2>1, <2>2, <2>3, WithCurrentFacts
  <2>5. hosts = WithCurrent(kept, current)
    BY <1>2 DEF Inv, Returned
  <2> QED
    BY <2>2, <2>4, <2>5 DEF ListStaysSound
<1> QED
  BY <1>1, <1>2

\* learn_hosts, called with any list of entries on any sound list of hosts,
\* returns exactly what the relation IsLearned says, and the list stays sound.
THEOREM LearnHostsIsCorrect == Spec => []LearnsWhatItIsTold
<1>1. Inv => LearnsWhatItIsTold
  <2> SUFFICES ASSUME Inv, returned PROVE LearnsWhatItIsTold
    BY InvKeepsListSound DEF LearnsWhatItIsTold
  <2> DEFINE base == Base(before, replace)
  <2>1. SubSeq(new, 1, taken) = new
    BY DEF Inv, TypeOK, Returned
  <2>2. IsLearned(base, new, kept) /\ kept \in Seq(Hosts)
    BY <2>1 DEF Inv, KeptIsLearned, TypeOK
  <2>3. kept \in Orders(Known(base, new))
    BY <2>2, InjectiveListIsOrder DEF IsLearned
  <2>4. index < Len(hosts)
    BY DEF Inv, TypeOK
  <2> QED
    BY <2>2, <2>3, <2>4, InvKeepsListSound DEF Inv, Returned, LearnsWhatItIsTold
<1> QED
  BY AlwaysInv, <1>1, PTL
===============================================================================
