------------------------------ MODULE ReportsProofs ------------------------------
(***************************************************************************)
(* For any cluster and any load: the reports a dashboard reads do not      *)
(* mislead. The HA status loses no incident to arming, and misjudges no    *)
(* master but by the age of the report; the summary is that of the living  *)
(* nodes, and an outage is never shown as relief; a mount lost changes no  *)
(* figure of a shared storage; replication lag is not hidden; filesystems  *)
(* are counted once however often they are mounted; the address of a guest *)
(* changes only for a cause, and the backup shown is the last one; and     *)
(* what a report adds that is not shown changes nothing of what is.        *)
(***************************************************************************)
EXTENDS HAStatus, ClusterSummary, SharedStorage, NodeHealth, GuestReport, BackupLog,
        NodeReports, FiniteSetsExt, FiniteSetTheorems, ListsProofs

-------------------------------------------------------------------------------
(* Finite sets, and sums over them.                                        *)

\* A property of some subset of a finite set has a smallest such subset.
LEMMA SmallestSubset ==
  ASSUME NEW T, IsFiniteSet(T), NEW B \in SUBSET SUBSET T, B # {}
  PROVE  \E s \in B : \A r \in B : r \subseteq s => r = s
<1>1. B \subseteq FiniteSubsetsOf(T)
  BY FS_Subset DEF FiniteSubsetsOf
<1>2. IsWellFoundedOn(StrictSubsetOrdering(T), FiniteSubsetsOf(T))
  BY FS_StrictSubsetOrderingWellFounded
<1>3. PICK s \in B : \A r \in B : ~(<<r, s>> \in StrictSubsetOrdering(T))
  BY <1>1, <1>2, WFMin, Zenon
<1> QED
  BY <1>3 DEF StrictSubsetOrdering

\* What is to be shown of every subset of a finite set may be assumed of the
\* smaller ones.
LEMMA SubsetInduction ==
  ASSUME NEW T, IsFiniteSet(T), NEW G \in SUBSET SUBSET T,
         \A s \in SUBSET T : (\A x \in s : s \ {x} \in G) => s \in G
  PROVE  G = SUBSET T
<1> SUFFICES ASSUME G # SUBSET T PROVE FALSE
  OBVIOUS
<1> DEFINE B == (SUBSET T) \ G
<1>1. B # {} /\ B \in SUBSET SUBSET T
  OBVIOUS
<1>2. PICK s \in B : \A r \in B : r \subseteq s => r = s
  <2> HIDE DEF B
  <2> QED
    BY <1>1, SmallestSubset
<1>3. ASSUME NEW x \in s PROVE s \ {x} \in G
  BY <1>2
<1> QED
  BY <1>2, <1>3

\* The recursion of SumFunctionOnSet.
Sums(f, T, sum) ==
  sum = [s \in SUBSET T |->
            IF s = {} THEN 0
            ELSE LET x == CHOOSE x \in s : TRUE IN f[x] + sum[s \ {x}]]

AnyOf(s) == CHOOSE x \in s : TRUE

LEMMA SumsRule ==
  ASSUME NEW f, NEW T, NEW sum, Sums(f, T, sum), NEW s \in SUBSET T
  PROVE  /\ s = {} => sum[s] = 0
         /\ s # {} => AnyOf(s) \in s /\ sum[s] = f[AnyOf(s)] + sum[s \ {AnyOf(s)}]
<1>1. sum[s] = IF s = {} THEN 0 ELSE f[AnyOf(s)] + sum[s \ {AnyOf(s)}]
  BY DEF Sums, AnyOf
<1>2. s # {} => AnyOf(s) \in s
  BY DEF AnyOf
<1> QED
  BY <1>1, <1>2

\* It has a solution: one for the sets of up to n elements is extended to those
\* of n + 1.
LEMMA SumsExists ==
  ASSUME NEW f, NEW T, IsFiniteSet(T)
  PROVE  \E sum : Sums(f, T, sum)
<1> DEFINE Rule(sum, s) == IF s = {} THEN 0 ELSE f[AnyOf(s)] + sum[s \ {AnyOf(s)}]
           Right(n, sum) == \A s \in SUBSET T : Cardinality(s) <= n => sum[s] = Rule(sum, s)
           B == {n \in Nat : ~ \E sum : Right(n, sum)}
<1>1. \A s \in SUBSET T : /\ Cardinality(s) \in Nat /\ Cardinality(s) <= Cardinality(T)
                          /\ Cardinality(s) = 0 <=> s = {}
                          /\ s # {} => /\ AnyOf(s) \in s /\ s \ {AnyOf(s)} \in SUBSET T
                                       /\ Cardinality(s \ {AnyOf(s)}) = Cardinality(s) - 1
  <2> SUFFICES ASSUME NEW s \in SUBSET T
               PROVE  /\ Cardinality(s) \in Nat /\ Cardinality(s) <= Cardinality(T)
                      /\ Cardinality(s) = 0 <=> s = {}
                      /\ s # {} => /\ AnyOf(s) \in s /\ s \ {AnyOf(s)} \in SUBSET T
                                   /\ Cardinality(s \ {AnyOf(s)}) = Cardinality(s) - 1
    OBVIOUS
  <2>1. IsFiniteSet(s) /\ Cardinality(s) <= Cardinality(T)
    BY FS_Subset
  <2>2. Cardinality(s) \in Nat /\ (Cardinality(s) = 0 <=> s = {})
    BY <2>1, FS_CardinalityType, FS_EmptySet
  <2>3. s # {} => AnyOf(s) \in s
    BY DEF AnyOf
  <2> QED
    BY <2>1, <2>2, <2>3, FS_RemoveElement
<1>2. B = {}
  <2> SUFFICES ASSUME B # {} PROVE FALSE
    OBVIOUS
  <2>1. PICK n \in B : \A m \in B : n <= m
    <3>1. B \in SUBSET Nat
      OBVIOUS
    <3> HIDE DEF B
    <3> QED
      BY <3>1, Smallest
  <2>2. n # 0
    <3> DEFINE g == [s \in SUBSET T |-> 0]
    <3>1. ASSUME NEW s \in SUBSET T, Cardinality(s) <= 0 PROVE g[s] = Rule(g, s)
      <4>0. Cardinality(s) \in Nat
        BY <1>1
      <4>1. Cardinality(s) = 0
        BY <3>1, <4>0
      <4>2. s = {}
        BY <1>1, <4>1, Zenon
      <4> QED
        BY <4>2
    <3>2. Right(0, g)
      BY <3>1
    <3> QED
      BY <3>2
  <2>3. n - 1 \in Nat /\ n - 1 \notin B
    <3>1. n \in Nat
      OBVIOUS
    <3> HIDE DEF B
    <3> QED
      BY <2>1, <2>2, <3>1
  <2>4. PICK g : Right(n - 1, g)
    BY <2>3
  <2> DEFINE h == [s \in SUBSET T |-> IF Cardinality(s) = n THEN Rule(g, s) ELSE g[s]]
  <2>5. ASSUME NEW s \in SUBSET T, Cardinality(s) <= n PROVE h[s] = Rule(h, s)
    <3>1. s # {} => h[s \ {AnyOf(s)}] = g[s \ {AnyOf(s)}]
      BY <1>1, <2>5
    <3>2. CASE Cardinality(s) = n
      BY <1>1, <2>2, <3>1, <3>2
    <3>3. CASE Cardinality(s) <= n - 1
      BY <1>1, <2>4, <3>1, <3>3
    <3> QED
      BY <1>1, <2>3, <2>5, <3>2, <3>3
  <2>6. Right(n, h)
    BY <2>5
  <2> QED
    BY <2>6
<1>3. Cardinality(T) \in Nat
  BY <1>1
<1>4. PICK g : Right(Cardinality(T), g)
  BY <1>2, <1>3
<1> DEFINE sum == [s \in SUBSET T |-> g[s]]
<1>5. \A s \in SUBSET T : sum[s] = Rule(sum, s)
  BY <1>1, <1>4
<1>6. sum = [s \in SUBSET T |-> Rule(sum, s)]
  <2>1. sum = [s \in SUBSET T |-> sum[s]]
    OBVIOUS
  <2> HIDE DEF sum
  <2> QED
    BY <1>5, <2>1
<1>7. Sums(f, T, sum)
  <2> HIDE DEF sum
  <2> QED
    BY <1>6 DEF Sums, AnyOf
<1> QED
  BY <1>7

LEMMA SumsAgree ==
  ASSUME NEW f, NEW T, IsFiniteSet(T), NEW U \in SUBSET T,
         NEW sum, Sums(f, T, sum), NEW part, Sums(f, U, part)
  PROVE  \A s \in SUBSET U : part[s] = sum[s]
<1> DEFINE G == {s \in SUBSET U : part[s] = sum[s]}
<1>1. IsFiniteSet(U)
  BY FS_Subset
<1>2. ASSUME NEW s \in SUBSET U, \A x \in s : s \ {x} \in G PROVE s \in G
  <2>1. CASE s = {}
    <3>1. s \in SUBSET T
      OBVIOUS
    <3>2. part[s] = 0
      BY <2>1, SumsRule
    <3>3. sum[s] = 0
      BY <2>1, <3>1, SumsRule
    <3> QED
      BY <3>2, <3>3
  <2>2. CASE s # {}
    <3>1. AnyOf(s) \in s /\ part[s] = f[AnyOf(s)] + part[s \ {AnyOf(s)}]
      <4>1. s # {} => AnyOf(s) \in s /\ part[s] = f[AnyOf(s)] + part[s \ {AnyOf(s)}]
        BY SumsRule
      <4> QED
        BY <2>2, <4>1
    <3>2. sum[s] = f[AnyOf(s)] + sum[s \ {AnyOf(s)}]
      <4>1. s \in SUBSET T
        OBVIOUS
      <4> QED
        BY <2>2, <4>1, SumsRule
    <3> QED
      BY <1>2, <3>1, <3>2
  <2> QED
    BY <2>1, <2>2
<1>3. G = SUBSET U
  <2>1. G \in SUBSET SUBSET U
    OBVIOUS
  <2> HIDE DEF G
  <2> QED
    BY <1>1, <1>2, <2>1, SubsetInduction
<1> QED
  BY <1>3

\* One solution gives the sums over all the subsets of a finite set.
LEMMA SumsAreSums ==
  ASSUME NEW f, NEW T, IsFiniteSet(T)
  PROVE  \E sum : Sums(f, T, sum) /\ \A s \in SUBSET T : SumFunctionOnSet(f, s) = sum[s]
<1>1. PICK sum : Sums(f, T, sum)
  BY SumsExists
<1>2. ASSUME NEW s \in SUBSET T PROVE SumFunctionOnSet(f, s) = sum[s]
  <2> DEFINE part == CHOOSE part : Sums(f, s, part)
  <2>1. IsFiniteSet(s)
    BY FS_Subset
  <2>2. Sums(f, s, part)
    BY <2>1, SumsExists
  <2>3. SumFunctionOnSet(f, s) = part[s]
    BY DEF SumFunctionOnSet, FoldFunctionOnSet, MapThenFoldSet, Sums
  <2> HIDE DEF part
  <2>4. part[s] = sum[s]
    BY <1>1, <2>2, SumsAgree
  <2> QED
    BY <2>3, <2>4
<1> QED
  BY <1>1, <1>2

LEMMA SumType ==
  ASSUME NEW T, IsFiniteSet(T), NEW f \in [T -> Nat], NEW s \in SUBSET T
  PROVE  SumFunctionOnSet(f, s) \in Nat
<1>1. PICK sum : Sums(f, T, sum) /\ \A r \in SUBSET T : SumFunctionOnSet(f, r) = sum[r]
  BY SumsAreSums
<1> DEFINE G == {r \in SUBSET T : sum[r] \in Nat}
<1>2. ASSUME NEW r \in SUBSET T, \A x \in r : r \ {x} \in G PROVE r \in G
  <2>1. r = {} => sum[r] = 0
    BY <1>1, SumsRule
  <2>2. r # {} => AnyOf(r) \in r /\ sum[r] = f[AnyOf(r)] + sum[r \ {AnyOf(r)}]
    BY <1>1, SumsRule
  <2>3. r # {} => f[AnyOf(r)] \in Nat /\ sum[r \ {AnyOf(r)}] \in Nat
    BY <1>2, <2>2
  <2> QED
    BY <2>1, <2>2, <2>3
<1>3. G = SUBSET T
  <2>1. G \in SUBSET SUBSET T
    OBVIOUS
  <2> HIDE DEF G
  <2> QED
    BY <1>2, <2>1, SubsetInduction
<1> QED
  BY <1>1, <1>3

\* The sum over nothing, and any element can be taken out of a sum first.
LEMMA SumOfNone ==
  ASSUME NEW f
  PROVE  SumFunctionOnSet(f, {}) = 0
<1>1. PICK sum : Sums(f, {}, sum) /\ \A r \in SUBSET {} : SumFunctionOnSet(f, r) = sum[r]
  BY FS_EmptySet, SumsAreSums
<1>2. sum[{}] = 0
  BY <1>1, SumsRule
<1> QED
  BY <1>1, <1>2

LEMMA SumRule ==
  ASSUME NEW T, IsFiniteSet(T), NEW f \in [T -> Nat], NEW s \in SUBSET T, NEW e \in s
  PROVE  SumFunctionOnSet(f, s) = f[e] + SumFunctionOnSet(f, s \ {e})
<1>1. PICK sum : Sums(f, T, sum) /\ \A r \in SUBSET T : SumFunctionOnSet(f, r) = sum[r]
  BY SumsAreSums
<1>3. \A r \in SUBSET T : r # {} => AnyOf(r) \in r /\ sum[r] = f[AnyOf(r)] + sum[r \ {AnyOf(r)}]
  BY <1>1, SumsRule
<1>4. \A r \in SUBSET T : sum[r] \in Nat
  BY <1>1, SumType
<1> DEFINE G == {r \in SUBSET T : \A x \in r : sum[r] = f[x] + sum[r \ {x}]}
<1>5. ASSUME NEW r \in SUBSET T, \A x \in r : r \ {x} \in G PROVE r \in G
  <2> SUFFICES ASSUME NEW x \in r PROVE sum[r] = f[x] + sum[r \ {x}]
    OBVIOUS
  <2> DEFINE c == AnyOf(r)
  <2>1. c \in r /\ sum[r] = f[c] + sum[r \ {c}]
    BY <1>3
  <2> HIDE DEF c
  <2>2. CASE c = x
    BY <2>1, <2>2
  <2>3. CASE c # x
    <3>1. sum[r \ {c}] = f[x] + sum[(r \ {c}) \ {x}]
      BY <1>5, <2>1, <2>3
    <3>2. sum[r \ {x}] = f[c] + sum[(r \ {x}) \ {c}]
      BY <1>5, <2>1, <2>3
    <3> DEFINE rest == sum[(r \ {c}) \ {x}]
    <3>3. (r \ {x}) \ {c} = (r \ {c}) \ {x}
      OBVIOUS
    <3>4. sum[r] = f[c] + (f[x] + rest) /\ sum[r \ {x}] = f[c] + rest
      BY <2>1, <3>1, <3>2, <3>3
    <3>5. f[x] \in Nat /\ f[c] \in Nat /\ rest \in Nat
      BY <1>4, <2>1
    <3> HIDE DEF G, rest
    <3> QED
      BY <3>4, <3>5
  <2> QED
    BY <2>2, <2>3
<1>6. G = SUBSET T
  <2>1. G \in SUBSET SUBSET T
    OBVIOUS
  <2> HIDE DEF G
  <2> QED
    BY <1>5, <2>1, SubsetInduction
<1> QED
  BY <1>1, <1>6

\* Sums compare as their terms do.
LEMMA SumCompares ==
  ASSUME NEW T, IsFiniteSet(T), NEW f \in [T -> Nat], NEW g \in [T -> Nat], NEW k \in Nat,
         NEW s \in SUBSET T
  PROVE  /\ (\A x \in s : k * f[x] <= g[x]) =>
                k * SumFunctionOnSet(f, s) <= SumFunctionOnSet(g, s)
         /\ (\A x \in s : k * f[x] >= g[x]) =>
                k * SumFunctionOnSet(f, s) >= SumFunctionOnSet(g, s)
<1> DEFINE F(r) == SumFunctionOnSet(f, r)
           H(r) == SumFunctionOnSet(g, r)
           G == {r \in SUBSET T :
                   /\ (\A x \in r : k * f[x] <= g[x]) => k * F(r) <= H(r)
                   /\ (\A x \in r : k * f[x] >= g[x]) => k * F(r) >= H(r)}
<1>1. \A r \in SUBSET T : F(r) \in Nat /\ H(r) \in Nat
  BY SumType
<1>2. F({}) = 0 /\ H({}) = 0
  BY SumOfNone
<1>3. ASSUME NEW r \in SUBSET T, NEW x \in r
      PROVE  F(r) = f[x] + F(r \ {x}) /\ H(r) = g[x] + H(r \ {x})
  <2>1. F(r) = f[x] + F(r \ {x})
    BY SumRule
  <2>2. H(r) = g[x] + H(r \ {x})
    BY SumRule
  <2> QED
    BY <2>1, <2>2
<1> HIDE DEF F, H
<1>4. ASSUME NEW r \in SUBSET T, \A x \in r : r \ {x} \in G PROVE r \in G
  <2>1. CASE r = {}
    BY <1>2, <2>1
  <2>2. CASE r # {}
    <3>1. PICK x \in r : TRUE
      BY <2>2
    <3>2. F(r) = f[x] + F(r \ {x}) /\ H(r) = g[x] + H(r \ {x})
      BY <1>3
    <3>3. /\ f[x] \in Nat /\ g[x] \in Nat /\ F(r \ {x}) \in Nat /\ H(r \ {x}) \in Nat
          /\ r \ {x} \in G
      BY <1>1, <1>4
    <3>4. k * F(r) = k * f[x] + k * F(r \ {x})
      BY <3>2, <3>3
    <3>5. k * f[x] \in Nat /\ k * F(r \ {x}) \in Nat
      BY <3>3
    <3>6. (\A y \in r : k * f[y] <= g[y]) => k * F(r) <= H(r)
      BY <3>2, <3>3, <3>4, <3>5
    <3>7. (\A y \in r : k * f[y] >= g[y]) => k * F(r) >= H(r)
      BY <3>2, <3>3, <3>4, <3>5
    <3> QED
      BY <3>6, <3>7
  <2> QED
    BY <2>1, <2>2
<1>5. G = SUBSET T
  <2>1. G \in SUBSET SUBSET T
    OBVIOUS
  <2> HIDE DEF G
  <2> QED
    BY <1>4, <2>1, SubsetInduction
<1>6. (\A x \in s : k * f[x] <= g[x]) => k * F(s) <= H(s)
  BY <1>5
<1>7. (\A x \in s : k * f[x] >= g[x]) => k * F(s) >= H(s)
  BY <1>5
<1> QED
  BY <1>6, <1>7 DEF F, H

LEMMA MinIsSmallest ==
  ASSUME NEW T \in SUBSET Nat, T # {}
  PROVE  Min(T) \in T /\ \A y \in T : Min(T) <= y
<1>1. PICK x \in T : \A y \in T : x <= y
  BY Smallest
<1> QED
  BY <1>1 DEF Min

LEMMA MaxIsLargest ==
  ASSUME NEW T \in SUBSET Nat, IsFiniteSet(T), T # {}
  PROVE  Max(T) \in T /\ \A y \in T : Max(T) >= y
<1> DEFINE G == {s \in SUBSET T : s = {} \/ \E x \in s : \A y \in s : x >= y}
<1>1. ASSUME NEW s \in SUBSET T, \A x \in s : s \ {x} \in G PROVE s \in G
  <2>1. CASE s = {}
    BY <2>1
  <2>2. CASE s # {}
    <3>1. PICK x \in s : s \ {x} \in G
      BY <1>1, <2>2
    <3>2. CASE s \ {x} = {}
      <4>1. \A y \in s : y = x
        BY <3>2
      <4>2. \A y \in s : x >= y
        BY <4>1
      <4> QED
        BY <4>2
    <3>3. CASE s \ {x} # {}
      <4>1. PICK z \in s \ {x} : \A y \in s \ {x} : z >= y
        BY <3>1, <3>3
      <4>2. x \in Nat /\ z \in Nat /\ s \subseteq Nat
        BY <3>1
      <4>3. CASE x >= z
        <5>1. \A y \in s : x >= y
          BY <4>1, <4>2, <4>3
        <5> QED
          BY <5>1
      <4>4. CASE z >= x
        <5>1. \A y \in s : z >= y
          BY <4>1, <4>4
        <5> QED
          BY <5>1
      <4> QED
        BY <4>2, <4>3, <4>4
    <3> QED
      BY <3>2, <3>3
  <2> QED
    BY <2>1, <2>2
<1>2. G = SUBSET T
  <2>1. G \in SUBSET SUBSET T
    OBVIOUS
  <2> HIDE DEF G
  <2> QED
    BY <1>1, <2>1, SubsetInduction
<1>3. PICK x \in T : \A y \in T : x >= y
  BY <1>2
<1> QED
  BY <1>3 DEF Max

-------------------------------------------------------------------------------
(* HA status.                                                              *)

HASpec == HAInit /\ [][HANext]_haVars
MasterSpec == MasterInit /\ [][MasterNext]_masterVars

-------------------------------------------------------------------------------
(* Where a service can go, whatever it was.                                *)

\* One step of a service, from a state the CRM knows: to another of those, out
\* of an incident only to started or stopped.
LEMMA MovesKeepToStates ==
    ASSUME crm \in [Services -> CrmStates], NEW s \in Services, ServiceMoves(s)
    PROVE  /\ crm' \in [Services -> CrmStates]
           /\ \A r \in Services : crm[r] \in ErrorStates =>
                 crm'[r] \in ErrorStates \cup {"started", "stopped"}
<1> DEFINE into == CASE crm[s] = "started"  -> {"stopped", "fence", "error"}
                     [] crm[s] = "stopped"  -> {"started"}
                     [] crm[s] = "fence"    -> {"recovery"}
                     [] crm[s] = "recovery" -> {"started", "error"}
                     [] crm[s] = "error"    -> {"stopped"}
<1>1. PICK c \in into : crm' = [crm EXCEPT ![s] = c]
  BY DEF ServiceMoves
<1>2. crm[s] \in CrmStates
  OBVIOUS
<1>3. c \in ErrorStates \cup {"started", "stopped"}
  BY <1>1, <1>2 DEF CrmStates, ErrorStates
<1>4. c \in CrmStates
  BY <1>3 DEF CrmStates, ErrorStates
<1>5. crm' \in [Services -> CrmStates]
  BY <1>1, <1>4
<1>6. ASSUME NEW r \in Services, crm[r] \in ErrorStates
      PROVE  crm'[r] \in ErrorStates \cup {"started", "stopped"}
  BY <1>1, <1>3, <1>6
<1>7. QED
  BY <1>5, <1>6

-------------------------------------------------------------------------------
(* Its type.                                                               *)

LEMMA HATypeInit == HAInit => HATypeOK
  BY DEF HAInit, HATypeOK, CrmStates, HAArmedStates

LEMMA HATypeNext == HATypeOK /\ [HANext]_haVars => HATypeOK'
<1> SUFFICES ASSUME HATypeOK, [HANext]_haVars PROVE HATypeOK'
  OBVIOUS
<1> USE DEF HATypeOK
<1>1. CASE ArmHA
  BY <1>1 DEF ArmHA
<1>2. CASE DisarmHA
  BY <1>2 DEF DisarmHA
<1>3. CASE CarryOut
  BY <1>3 DEF CarryOut, HAArmedStates, Modes
<1>4. CASE Disarmed
  BY <1>4 DEF Disarmed, HAArmedStates
<1>5. ASSUME NEW s \in Services, ServiceMoves(s) PROVE HATypeOK'
  <2>1. crm' \in [Services -> CrmStates]
    BY <1>5, MovesKeepToStates
  <2>2. UNCHANGED <<armed, mode, queued>>
    BY <1>5 DEF ServiceMoves
  <2>3. QED
    BY <2>1, <2>2
<1>6. CASE UNCHANGED haVars
  BY <1>6 DEF haVars
<1>7. QED
  BY <1>1, <1>2, <1>3, <1>4, <1>5, <1>6 DEF HANext

\* The type of the HA status.
LEMMA HATypeCorrect == HASpec => []HATypeOK
  BY HATypeInit, HATypeNext, PTL DEF HASpec

-------------------------------------------------------------------------------
(* The master's stamp.                                                     *)

\* What the client keeps is not of the future, and is the last stamp unless a
\* master has stamped since it was fetched.
MasterInv ==
    /\ MasterTypeOK
    /\ seen <= now /\ report.taken <= now
    /\ report.last # Unseen =>
          /\ report.last <= seen
          /\ report.last = seen \/ report.taken <= seen

LEMMA MasterNumbers ==
    MasterTypeOK => /\ now \in Int /\ seen \in Int /\ skew \in Int
                    /\ report.last \in Int /\ report.taken \in Int
<1> SUFFICES ASSUME MasterTypeOK
             PROVE  /\ now \in Int /\ seen \in Int /\ skew \in Int
                    /\ report.last \in Int /\ report.taken \in Int
  OBVIOUS
<1>1. /\ now \in Instants /\ seen \in Instants /\ skew \in Skews
      /\ report.last \in Instants \cup {Unseen} /\ report.taken \in Instants
  BY DEF MasterTypeOK
<1>2. Instants \subseteq Int /\ Skews \subseteq Int /\ Unseen \in Int
  BY HAAssumption DEF Unseen
<1> QED
  BY <1>1, <1>2

LEMMA MasterInvInit == MasterInit => MasterInv
  BY HAAssumption DEF MasterInit, MasterInv, MasterTypeOK

LEMMA MasterInvNext == MasterInv /\ [MasterNext]_masterVars => MasterInv'
<1> SUFFICES ASSUME MasterInv, [MasterNext]_masterVars PROVE MasterInv'
  OBVIOUS
<1>0. now \in Int /\ seen \in Int /\ report.last \in Int /\ report.taken \in Int
  BY MasterNumbers DEF MasterInv
<1> USE HAAssumption DEF MasterInv, MasterTypeOK
<1>1. CASE Stamp
  <2>1. seen' = now /\ now' = now /\ report' = report /\ skew' = skew
    BY <1>1 DEF Stamp
  <2>2. report.last # Unseen => report.last <= now
    BY <1>0
  <2>3. QED
    BY <1>0, <2>1, <2>2
<1>2. CASE TimePasses
  <2>1. PICK t \in Instants : t > now /\ now' = t
    BY <1>2 DEF TimePasses
  <2>2. seen' = seen /\ report' = report /\ skew' = skew /\ t \in Int
    BY <1>2 DEF TimePasses
  <2>3. seen <= t /\ report.taken <= t
    BY <1>0, <2>1, <2>2
  <2>4. QED
    BY <2>1, <2>2, <2>3
<1>3. CASE ClockMoves
  BY <1>3 DEF ClockMoves
<1>4. CASE FetchHAStatus
  <2>1. PICK last \in {seen, Unseen} : report' = [last |-> last, taken |-> now]
    BY <1>4 DEF FetchHAStatus
  <2>2. now' = now /\ seen' = seen /\ skew' = skew
    BY <1>4 DEF FetchHAStatus
  <2>3. QED
    BY <2>1, <2>2
<1>5. CASE UNCHANGED masterVars
  BY <1>5 DEF masterVars
<1>6. QED
  BY <1>1, <1>2, <1>3, <1>4, <1>5 DEF MasterNext

\* crm_master_stale(), asked of a report of any age by a clock that is set as it
\* likes, for any times at which masters stamp, stop and start again: alive is
\* never said of one that has been silent for too long, and stale of another
\* only where it has stamped since the report was fetched.
THEOREM MasterIsNeverMisjudged == MasterSpec => [](MasterTypeOK /\ MasterIsNotMisjudged)
<1>1. MasterSpec => []MasterInv
  BY MasterInvInit, MasterInvNext, PTL DEF MasterSpec
<1>2. MasterInv => MasterTypeOK /\ MasterIsNotMisjudged
  <2> SUFFICES ASSUME MasterInv PROVE MasterIsNotMisjudged
    BY DEF MasterInv
  <2>1. /\ now \in Int /\ seen \in Int /\ skew \in Int /\ report.taken \in Int
        /\ report.last \in Int
    BY MasterNumbers DEF MasterInv
  <2>2. QED
    BY <2>1 DEF MasterInv, MasterIsNotMisjudged, Judged, MasterDeadAfter
<1>3. QED
  BY <1>1, <1>2, PTL

-------------------------------------------------------------------------------
(* Incidents.                                                              *)

\* The list is read from crm_state alone: a step that leaves it alone leaves
\* the list, and a step of a service takes it off only when it is well.
LEMMA StepHidesNothing ==
    ASSUME HATypeOK, [HANext]_haVars
    PROVE  /\ crm' = crm => ResourcesError' = ResourcesError
           /\ \A s \in ResourcesError \ ResourcesError' : crm'[s] \in {"started", "stopped"}
<1>1. crm' = crm => ResourcesError' = ResourcesError
  BY DEF ResourcesError, StateOf
<1>2. crm' = crm \/ \E s \in Services : ServiceMoves(s)
  BY DEF HANext, haVars, ArmHA, DisarmHA, CarryOut, Disarmed
<1>3. ASSUME NEW s \in Services, ServiceMoves(s), NEW r \in ResourcesError \ ResourcesError'
      PROVE  crm'[r] \in {"started", "stopped"}
  <2>1. r \in Services /\ crm[r] \in ErrorStates /\ crm'[r] \notin ErrorStates
    BY <1>3 DEF ResourcesError, StateOf
  <2>2. crm'[r] \in ErrorStates \cup {"started", "stopped"}
    BY <1>3, <2>1, MovesKeepToStates DEF HATypeOK
  <2>3. QED
    BY <2>1, <2>2
<1>4. QED
  BY <1>1, <1>2, <1>3

\* Arming and disarming neither hide an incident nor invent one (HAStatus reads
\* crm_state, and not the state the API rewrites), for any set of services.
THEOREM DisarmingNeverHides ==
    HASpec => DisarmingHidesNothing
<1> DEFINE clear == /\ crm' = crm => ResourcesError' = ResourcesError
                    /\ \A s \in ResourcesError \ ResourcesError' :
                          crm'[s] \in {"started", "stopped"}
<1>1. HATypeOK /\ [HANext]_haVars => [clear]_haVars
  BY StepHidesNothing
<1>2. HASpec => []HATypeOK
  BY HATypeCorrect
<1>3. HASpec => [][clear]_haVars
  BY <1>1, <1>2, PTL DEF HASpec
<1>4. QED
  BY <1>3 DEF DisarmingHidesNothing

-------------------------------------------------------------------------------
(* The cluster summary.                                                    *)

SummarySpec == SummaryInit /\ [][SummaryNext]_summaryVars

\* A node that is online reports its figures: the nodes counted are those online.
RowsOK(rs) ==
  /\ rs \in [Nodes -> UNION {NodeRow(n) : n \in Nodes}]
  /\ \A n \in Nodes : rs[n] \in NodeRow(n) /\ (rs[n].online => rs[n].figures)

SummaryInv == RowsOK(rows) /\ words \in [Guests -> Words]

LEMMA LeastLoad == Min(Loads) \in Loads
<1>1. Loads \in SUBSET Nat /\ Loads # {}
  BY ClusterAssumption
<1>2. PICK x \in Loads : \A y \in Loads : x <= y
  BY <1>1, Smallest
<1> QED
  BY <1>2 DEF Min

LEMMA SummaryInvInit == SummaryInit => SummaryInv
<1> SUFFICES ASSUME SummaryInit PROVE SummaryInv
  OBVIOUS
<1>1. ASSUME NEW n \in Nodes
      PROVE  rows[n] \in NodeRow(n) /\ (rows[n].online => rows[n].figures)
  <2>1. Memory[n] \in Nat /\ 0 \in 0..Memory[n]
    BY ClusterAssumption
  <2> QED
    BY <2>1, LeastLoad DEF SummaryInit, NodeRow
<1>2. rows = [n \in Nodes |-> rows[n]] /\ words \in [Guests -> Words]
  BY DEF SummaryInit, Words
<1> QED
  BY <1>1, <1>2 DEF SummaryInv, RowsOK

\* A step replaces the row of one node, or words.
LEMMA RowReplaced ==
  ASSUME SummaryInv, NEW n \in Nodes, NEW r \in NodeRow(n), r.online => r.figures,
         rows' = [rows EXCEPT ![n] = r], words' \in [Guests -> Words]
  PROVE  SummaryInv'
<1>1. ASSUME NEW m \in Nodes
      PROVE  rows'[m] \in NodeRow(m) /\ (rows'[m].online => rows'[m].figures)
  <2>1. CASE m = n
    BY <2>1 DEF SummaryInv, RowsOK
  <2>2. CASE m # n
    BY <2>2 DEF SummaryInv, RowsOK
  <2> QED
    BY <2>1, <2>2
<1>2. rows' = [m \in Nodes |-> rows'[m]]
  BY DEF SummaryInv, RowsOK
<1>3. rows' \in [Nodes -> UNION {NodeRow(m) : m \in Nodes}]
  BY <1>1, <1>2
<1>4. NodeRow(n)' = NodeRow(n) /\ \A m \in Nodes : NodeRow(m)' = NodeRow(m)
  BY DEF NodeRow
<1> QED
  BY <1>1, <1>3, <1>4 DEF SummaryInv, RowsOK

LEMMA SummaryInvNext == SummaryInv /\ [SummaryNext]_summaryVars => SummaryInv'
<1> SUFFICES ASSUME SummaryInv, [SummaryNext]_summaryVars PROVE SummaryInv'
  OBVIOUS
<1>1. ASSUME NEW n \in Nodes, NodeFails(n) PROVE SummaryInv'
  <2>1. rows[n] \in NodeRow(n)
    BY DEF SummaryInv, RowsOK
  <2> DEFINE r == [rows[n] EXCEPT !.online = FALSE]
  <2>2. r \in NodeRow(n) /\ ~r.online
    BY <2>1 DEF NodeRow
  <2>3. rows' = [rows EXCEPT ![n] = r]
    BY <1>1 DEF NodeFails
  <2>4. words' \in [Guests -> Words]
    BY <1>1 DEF NodeFails, Words, SummaryInv, RowsOK
  <2> HIDE DEF r
  <2> QED
    BY <2>2, <2>3, <2>4, RowReplaced
<1>2. ASSUME NEW n \in Nodes, FiguresExpire(n) PROVE SummaryInv'
  <2> DEFINE r == [online |-> FALSE, figures |-> FALSE, cpu |-> Min(Loads), mem |-> 0]
  <2>1. Memory[n] \in Nat /\ 0 \in 0..Memory[n]
    BY ClusterAssumption
  <2>2. r \in NodeRow(n) /\ ~r.online
    BY <2>1, LeastLoad DEF NodeRow
  <2>3. rows' = [rows EXCEPT ![n] = r] /\ words' = words
    BY <1>2 DEF FiguresExpire
  <2>4. words \in [Guests -> Words]
    BY DEF SummaryInv, RowsOK
  <2> HIDE DEF r
  <2> QED
    BY <2>2, <2>3, <2>4, RowReplaced
<1>3. ASSUME NEW n \in Nodes, NodeReturns(n) PROVE SummaryInv'
  <2>1. PICK r \in LiveRow(n) : rows' = [rows EXCEPT ![n] = r]
    BY <1>3 DEF NodeReturns
  <2>2. r \in NodeRow(n) /\ r.figures
    BY DEF LiveRow
  <2>3. words' \in [Guests -> Words]
    BY <1>3 DEF NodeReturns, Words, SummaryInv, RowsOK
  <2> QED
    BY <2>1, <2>2, <2>3, RowReplaced
<1>4. ASSUME NEW n \in Nodes, LoadChanges(n) PROVE SummaryInv'
  <2>1. PICK r \in LiveRow(n) : rows' = [rows EXCEPT ![n] = r]
    BY <1>4 DEF LoadChanges
  <2>2. r \in NodeRow(n) /\ r.figures
    BY DEF LiveRow
  <2>3. words' \in [Guests -> Words]
    BY <1>4 DEF LoadChanges, SummaryInv
  <2> QED
    BY <2>1, <2>2, <2>3, RowReplaced
<1>5. ASSUME NEW g \in Guests, GuestChanges(g) PROVE SummaryInv'
  BY <1>5 DEF GuestChanges, SummaryInv, RowsOK, Words, NodeRow
<1>6. CASE UNCHANGED summaryVars
  BY <1>6 DEF summaryVars, SummaryInv, RowsOK, NodeRow
<1> QED
  BY <1>1, <1>2, <1>3, <1>4, <1>5, <1>6 DEF SummaryNext

LEMMA AlwaysSummaryInv == SummarySpec => []SummaryInv
  BY SummaryInvInit, SummaryInvNext, PTL DEF SummarySpec

\* What is summed, and over what.
LEMMA CountedFacts ==
  ASSUME NEW rs, RowsOK(rs)
  PROVE  /\ Counted(rs) = {n \in Nodes : rs[n].online}
         /\ Offline(rs) = {n \in Nodes : rs[n].figures /\ ~rs[n].online}
         /\ IsFiniteSet(Nodes)
         /\ Cores \in [Nodes -> Nat] /\ Memory \in [Nodes -> Nat]
         /\ [n \in Nodes |-> rs[n].cpu * Cores[n]] \in [Nodes -> Nat]
         /\ [n \in Nodes |-> rs[n].mem] \in [Nodes -> Nat]
         /\ \A n \in Nodes : rs[n].cpu \in Nat /\ rs[n].mem <= Memory[n]
<1>1. \A n \in Nodes : /\ rs[n].online \in BOOLEAN /\ rs[n].figures \in BOOLEAN
                       /\ rs[n].online => rs[n].figures
                       /\ rs[n].cpu \in Loads /\ rs[n].mem \in 0..Memory[n]
  BY DEF RowsOK, NodeRow
<1>2. Loads \subseteq Nat /\ IsFiniteSet(Nodes) /\ Cores \in [Nodes -> Nat]
        /\ Memory \in [Nodes -> Nat]
  BY ClusterAssumption
<1>3. ASSUME NEW n \in Nodes
      PROVE  /\ rs[n].cpu \in Nat /\ rs[n].mem \in Nat /\ rs[n].mem <= Memory[n]
             /\ rs[n].cpu * Cores[n] \in Nat
  <2>1. rs[n].cpu \in Nat /\ Cores[n] \in Nat /\ Memory[n] \in Nat
    BY <1>1, <1>2
  <2>2. rs[n].mem \in 0..Memory[n]
    BY <1>1
  <2>3. rs[n].mem \in Nat /\ rs[n].mem <= Memory[n]
    BY <2>1, <2>2
  <2> QED
    BY <2>1, <2>3
<1>4. Parses("node", Fields(TRUE)) /\ ~Parses("node", Fields(FALSE))
  BY DEF Parses, Fields, Required
<1>5. Total(rs) = {n \in Nodes : rs[n].figures}
  <2>1. \A n \in Nodes : rs[n].figures = TRUE \/ rs[n].figures = FALSE
    BY <1>1
  <2> QED
    BY <1>4, <2>1 DEF Total
<1>6. Counted(rs) = {n \in Nodes : rs[n].online}
  BY <1>1, <1>5 DEF Counted, Online
<1>7. Offline(rs) = {n \in Nodes : rs[n].figures /\ ~rs[n].online}
  BY <1>1, <1>5 DEF Offline, Online
<1> QED
  BY <1>2, <1>3, <1>6, <1>7

\* A cluster's load lies between that of its lightest node and its heaviest.
LEMMA MeanIsBetween ==
  ASSUME NEW rs, RowsOK(rs)
  PROVE  LET lit == {n \in Counted(rs) : Cores[n] > 0} IN
         /\ Cpu(rs).den = 0 <=> lit = {}
         /\ lit # {} => /\ \E n \in lit : rs[n].cpu * Cpu(rs).den <= Cpu(rs).num
                        /\ \E n \in lit : rs[n].cpu * Cpu(rs).den >= Cpu(rs).num
<1> DEFINE T == Nodes
           f == Cores
           load == [n \in Nodes |-> rs[n].cpu]
           g == [n \in Nodes |-> rs[n].cpu * Cores[n]]
           up == Counted(rs)
           lit == {n \in up : f[n] > 0}
           den == SumFunctionOnSet(f, up)
           num == SumFunctionOnSet(g, up)
<1>1. /\ IsFiniteSet(T) /\ f \in [T -> Nat] /\ load \in [T -> Nat] /\ g \in [T -> Nat]
      /\ up \in SUBSET T
  BY CountedFacts
<1>2. \A n \in T : g[n] = load[n] * f[n]
  OBVIOUS
<1>3. Cpu(rs) = [num |-> num, den |-> den]
  BY DEF Cpu, CoresOf
<1>4. \A n \in lit : n \in T /\ load[n] = rs[n].cpu
  BY <1>1
<1> HIDE DEF T, f, load, g, up
<1>5. den \in Nat /\ num \in Nat
  BY <1>1, SumType
<1>6. lit = {} => den = 0
  <2> SUFFICES ASSUME lit = {} PROVE den = 0
    OBVIOUS
  <2>1. ASSUME NEW x \in up PROVE 0 * f[x] >= f[x]
    BY <1>1
  <2>2. 0 * den >= den
    BY <1>1, <2>1, SumCompares
  <2> HIDE DEF den
  <2> QED
    BY <1>5, <2>2
<1>7. ASSUME NEW n \in lit PROVE den # 0
  <2>1. den = f[n] + SumFunctionOnSet(f, up \ {n})
    BY <1>1, SumRule
  <2>2. SumFunctionOnSet(f, up \ {n}) \in Nat /\ f[n] \in Nat /\ f[n] > 0
    BY <1>1, SumType
  <2> HIDE DEF den
  <2> QED
    BY <2>1, <2>2
<1>8. ASSUME lit # {} PROVE \E n \in lit : load[n] * den <= num
  <2> DEFINE loads == {load[x] : x \in lit}
  <2>1. loads \in SUBSET Nat /\ loads # {}
    BY <1>8, <1>1
  <2>2. PICK k \in loads : \A l \in loads : k <= l
    <3> HIDE DEF loads
    <3> QED
      BY <2>1, Smallest
  <2>3. PICK n \in lit : k = load[n]
    OBVIOUS
  <2>4. ASSUME NEW x \in up PROVE k * f[x] <= g[x]
    <3>1. k \in Nat /\ f[x] \in Nat /\ load[x] \in Nat /\ g[x] = load[x] * f[x]
      BY <1>1, <1>2, <2>3
    <3>2. CASE f[x] = 0
      BY <3>1, <3>2
    <3>3. CASE f[x] > 0
      <4>1. k <= load[x]
        BY <2>2, <3>3
      <4>2. k * f[x] <= load[x] * f[x]
        BY <3>1, <4>1
      <4> QED
        BY <3>1, <4>2
    <3> QED
      BY <3>1, <3>2, <3>3
  <2>5. k * den <= num
    <3>1. k \in Nat
      BY <1>1, <2>3
    <3> QED
      BY <1>1, <3>1, <2>4, SumCompares
  <2> HIDE DEF den, num
  <2> QED
    BY <2>3, <2>5
<1>9. ASSUME lit # {} PROVE \E n \in lit : load[n] * den >= num
  <2> DEFINE b == SumFunctionOnSet(load, up)
             room == {b - load[x] : x \in lit}
  <2>0. b \in Nat /\ \A x \in up : load[x] <= b
    <3>1. b \in Nat
      BY <1>1, SumType
    <3>2. ASSUME NEW x \in up PROVE load[x] <= b
      <4>1. b = load[x] + SumFunctionOnSet(load, up \ {x})
        BY <1>1, SumRule
      <4>2. SumFunctionOnSet(load, up \ {x}) \in Nat /\ load[x] \in Nat
        BY <1>1, SumType
      <4> HIDE DEF b
      <4> QED
        BY <4>1, <4>2
    <3> QED
      BY <3>1, <3>2
  <2> HIDE DEF b
  <2>1. room \in SUBSET Nat /\ room # {}
    <3>1. ASSUME NEW x \in lit PROVE b - load[x] \in Nat
      <4>1. load[x] \in Nat /\ load[x] <= b /\ b \in Nat
        BY <1>1, <2>0
      <4> QED
        BY <4>1
    <3> QED
      BY <1>9, <3>1
  <2>2. PICK r \in room : \A l \in room : r <= l
    <3> HIDE DEF room
    <3> QED
      BY <2>1, Smallest
  <2>3. PICK n \in lit : r = b - load[n]
    OBVIOUS
  <2> DEFINE k == load[n]
  <2>4. ASSUME NEW x \in up PROVE k * f[x] >= g[x]
    <3>1. k \in Nat /\ f[x] \in Nat /\ load[x] \in Nat /\ g[x] = load[x] * f[x]
      BY <1>1, <1>2, <2>3
    <3>2. CASE f[x] = 0
      BY <3>1, <3>2
    <3>3. CASE f[x] > 0
      <4>1. r <= b - load[x]
        BY <2>2, <3>3
      <4>2. k >= load[x]
        BY <2>0, <2>3, <3>1, <4>1
      <4>3. k * f[x] >= load[x] * f[x]
        BY <3>1, <4>2
      <4> QED
        BY <3>1, <4>3
    <3> QED
      BY <3>1, <3>2, <3>3
  <2>5. k \in Nat
    BY <1>1, <2>3
  <2>6. k * den >= num
    BY <1>1, <2>4, <2>5, SumCompares
  <2> HIDE DEF den, num
  <2> QED
    BY <2>3, <2>6
<1>10. Cpu(rs).num = num /\ Cpu(rs).den = den
  BY <1>3
<1>11. lit = {n \in Counted(rs) : Cores[n] > 0}
  BY DEF f, up
<1> HIDE DEF num, den, lit
<1> QED
  BY <1>5, <1>6, <1>7, <1>8, <1>9, <1>10, <1>11, <1>4

\* "CPU used across the online nodes, weighted by each node's core count": for
\* any cluster, however its nodes fail, return and are loaded, the figures are
\* those of the nodes that are online.
THEOREM SummaryIsOfTheLiving ==
  SummarySpec => []FiguresAreOfTheLiving
<1>1. ASSUME SummaryInv PROVE FiguresAreOfTheLiving
  <2> DEFINE up == {n \in Nodes : rows[n].online}
             used == [n \in Nodes |-> rows[n].mem]
  <2>1. RowsOK(rows)
    BY <1>1 DEF SummaryInv
  <2>2. /\ Counted(rows) = up /\ IsFiniteSet(Nodes)
        /\ Memory \in [Nodes -> Nat] /\ used \in [Nodes -> Nat]
        /\ \A n \in Nodes : used[n] <= Memory[n]
    BY <2>1, CountedFacts
  <2>3. /\ MemoryOf(rows).used = SumFunctionOnSet(used, up)
        /\ MemoryOf(rows).total = SumFunctionOnSet(Memory, up)
    BY <2>2 DEF MemoryOf
  <2>4. SumFunctionOnSet(used, up) <= SumFunctionOnSet(Memory, up)
    <3> HIDE DEF used
    <3>1. SumFunctionOnSet(used, up) \in Nat /\ SumFunctionOnSet(Memory, up) \in Nat
      BY <2>2, SumType
    <3>2. ASSUME NEW x \in up PROVE 1 * used[x] <= Memory[x]
      BY <2>2
    <3>3. 1 * SumFunctionOnSet(used, up) <= SumFunctionOnSet(Memory, up)
      BY <2>2, <3>2, SumCompares
    <3> QED
      BY <3>1, <3>3
  <2> HIDE DEF used
  <2> QED
    BY <2>1, <2>2, <2>3, <2>4, MeanIsBetween DEF FiguresAreOfTheLiving
<1> QED
  BY <1>1, AlwaysSummaryInv, PTL

\* Taking what is lighter than the mean out of it does not lower it, and taking
\* out what is heavier does not raise it.
LEMMA MeanWithout ==
  ASSUME NEW r \in Nat, NEW c \in Nat, NEW num \in Nat, NEW den \in Nat
  PROVE  /\ r * (c + den) <= r * c + num => num * (c + den) >= (r * c + num) * den
         /\ r * (c + den) >= r * c + num => num * (c + den) <= (r * c + num) * den
<1>1. r * (c + den) = r * c + r * den
  OBVIOUS
<1>2. num * (c + den) = num * c + num * den
  OBVIOUS
<1>3. (r * c + num) * den = (r * c) * den + num * den
  OBVIOUS
<1>4. (r * c) * den = (r * den) * c
  OBVIOUS
<1>5. r * c \in Nat /\ r * den \in Nat /\ num * c \in Nat /\ num * den \in Nat
        /\ (r * den) * c \in Nat
  OBVIOUS
<1>6. r * den <= num => (r * den) * c <= num * c
  <2> DEFINE a == r * den
  <2>1. a \in Nat
    BY <1>5
  <2> HIDE DEF a
  <2>2. a <= num => a * c <= num * c
    BY <2>1
  <2> QED
    BY <2>2 DEF a
<1>7. r * den >= num => (r * den) * c >= num * c
  <2> DEFINE a == r * den
  <2>1. a \in Nat
    BY <1>5
  <2> HIDE DEF a
  <2>2. a >= num => a * c >= num * c
    BY <2>1
  <2> QED
    BY <2>2 DEF a
<1> DEFINE p == r * c
           q == r * den
           u == num * c
           v == num * den
           w == q * c
<1>8. /\ r * (c + den) = p + q /\ num * (c + den) = u + v /\ (r * c + num) * den = w + v
      /\ p \in Nat /\ q \in Nat /\ u \in Nat /\ v \in Nat /\ w \in Nat
      /\ q <= num => w <= u
      /\ q >= num => w >= u
  BY <1>1, <1>2, <1>3, <1>4, <1>5, <1>6, <1>7
<1>9. r * c = p
  OBVIOUS
<1> HIDE DEF p, q, u, v, w
<1> QED
  BY <1>8, <1>9

\* Only NodeFails takes a node off line, and it takes that one.
LEMMA WhoFails ==
  ASSUME SummaryInv, [SummaryNext]_summaryVars, NEW n \in Nodes,
         rows[n].online, ~rows'[n].online
  PROVE  NodeFails(n)
<1> USE DEF SummaryInv, RowsOK, NodeRow
<1>1. ASSUME NEW m \in Nodes, NodeFails(m) PROVE m = n
  BY <1>1 DEF NodeFails
<1>2. ASSUME NEW m \in Nodes, FiguresExpire(m) PROVE FALSE
  BY <1>2 DEF FiguresExpire
<1>3. ASSUME NEW m \in Nodes, NEW r \in LiveRow(m), rows' = [rows EXCEPT ![m] = r] PROVE FALSE
  BY <1>3 DEF LiveRow
<1>4. rows' # rows
  OBVIOUS
<1> QED
  BY <1>1, <1>2, <1>3, <1>4
     DEF SummaryNext, summaryVars, NodeReturns, LoadChanges, GuestChanges

\* A node that fails takes its cores and its running guests with it, and nothing
\* else (from_resources), for any cluster.
THEOREM OutageIsNeverRelief ==
  SummarySpec => OutageIsNoRelief
<1> DEFINE Outage ==
        \A n \in Nodes :
         rows[n].online /\ ~rows'[n].online =>
            LET before == Cpu(rows)
                after == Cpu(rows') IN
            /\ after.den > 0 =>
                  /\ rows[n].cpu * before.den <= before.num =>
                        after.num * before.den >= before.num * after.den
                  /\ rows[n].cpu * before.den >= before.num =>
                        after.num * before.den <= before.num * after.den
            /\ Offline(rows') = Offline(rows) \cup {n}
            /\ \A kind \in {"qemu", "lxc"} :
                  /\ GuestTotal(words', kind) = GuestTotal(words, kind)
                  /\ GuestRunning(words', kind) =
                        {g \in GuestRunning(words, kind) : HostOf[g] # n}
<1>1. ASSUME SummaryInv, [SummaryNext]_summaryVars PROVE Outage
  <2> SUFFICES ASSUME NEW n \in Nodes, rows[n].online, ~rows'[n].online
               PROVE  LET before == Cpu(rows)
                          after == Cpu(rows') IN
                      /\ /\ rows[n].cpu * before.den <= before.num =>
                               after.num * before.den >= before.num * after.den
                         /\ rows[n].cpu * before.den >= before.num =>
                               after.num * before.den <= before.num * after.den
                      /\ Offline(rows') = Offline(rows) \cup {n}
                      /\ \A kind \in {"qemu", "lxc"} :
                            /\ GuestTotal(words', kind) = GuestTotal(words, kind)
                            /\ GuestRunning(words', kind) =
                                  {g \in GuestRunning(words, kind) : HostOf[g] # n}
    OBVIOUS
  <2>1. NodeFails(n)
    BY <1>1, WhoFails
  <2>2. SummaryInv'
    BY <1>1, SummaryInvNext
  <2> DEFINE up == {m \in Nodes : rows[m].online}
             work == [m \in Nodes |-> rows[m].cpu * Cores[m]]
             r == rows[n].cpu
             c == Cores[n]
             num == SumFunctionOnSet(work, up \ {n})
             den == SumFunctionOnSet(Cores, up \ {n})
  <2>3. /\ IsFiniteSet(Nodes) /\ Cores \in [Nodes -> Nat] /\ work \in [Nodes -> Nat]
        /\ Counted(rows) = up /\ r \in Nat
        /\ Offline(rows) = {m \in Nodes : rows[m].figures /\ ~rows[m].online}
    BY <1>1, CountedFacts DEF SummaryInv
  <2>4. /\ \A m \in Nodes : /\ rows'[m].cpu = rows[m].cpu /\ rows'[m].figures = rows[m].figures
                            /\ m # n => rows'[m].online = rows[m].online
        /\ rows[n].figures
    BY <1>1, <2>1 DEF NodeFails, SummaryInv, RowsOK, NodeRow
  <2>5. /\ Counted(rows') = {m \in Nodes : rows'[m].online}
        /\ Offline(rows') = {m \in Nodes : rows'[m].figures /\ ~rows'[m].online}
    BY <2>2, CountedFacts DEF SummaryInv
  <2>6. Counted(rows') = up \ {n} /\ Offline(rows') = Offline(rows) \cup {n}
    BY <2>3, <2>4, <2>5
  <2>7. [m \in Nodes |-> rows'[m].cpu * Cores[m]] = work
    BY <2>4
  <2>8. Cpu(rows') = [num |-> num, den |-> den]
    BY <2>6, <2>7 DEF Cpu, CoresOf
  <2>9. Cpu(rows) = [num |-> SumFunctionOnSet(work, up), den |-> SumFunctionOnSet(Cores, up)]
    BY <2>3 DEF Cpu, CoresOf
  <2>10. SumFunctionOnSet(work, up) = r * c + num /\ SumFunctionOnSet(Cores, up) = c + den
    <3>1. SumFunctionOnSet(work, up) = work[n] + num
      <4> HIDE DEF work
      <4> QED
        BY <2>3, SumRule
    <3>2. SumFunctionOnSet(Cores, up) = c + den
      BY <2>3, SumRule
    <3>3. work[n] = r * c
      OBVIOUS
    <3> QED
      BY <3>1, <3>2, <3>3
  <2>11. num \in Nat /\ den \in Nat /\ c \in Nat
    <3> HIDE DEF work
    <3> QED
      BY <2>3, SumType
  <2>12. /\ Cpu(rows').num = num /\ Cpu(rows').den = den
         /\ Cpu(rows).num = r * c + num /\ Cpu(rows).den = c + den
    BY <2>8, <2>9, <2>10
  <2>13. /\ r * (c + den) <= r * c + num => num * (c + den) >= (r * c + num) * den
         /\ r * (c + den) >= r * c + num => num * (c + den) <= (r * c + num) * den
    <3> HIDE DEF num, den, r, c
    <3> QED
      BY <2>3, <2>11, MeanWithout
  <2>14. ASSUME NEW kind \in {"qemu", "lxc"}
         PROVE  /\ GuestTotal(words', kind) = GuestTotal(words, kind)
                /\ GuestRunning(words', kind) =
                      {g \in GuestRunning(words, kind) : HostOf[g] # n}
    <3>1. \A fields : Parses(kind, {"description"} \cup fields)
      BY <2>14 DEF Parses, Required
    <3>2. \A b \in BOOLEAN : Parses(kind, Fields(b))
      BY <3>1 DEF Fields
    <3>3. /\ GuestTotal(words, kind) = {g \in Guests \ Templates : KindOf[g] = kind}
          /\ GuestTotal(words', kind) = {g \in Guests \ Templates : KindOf[g] = kind}
      BY <3>2 DEF GuestTotal
    <3>4. ASSUME NEW g \in Guests
          PROVE  Status(words'[g]) = "running" <=> Status(words[g]) = "running" /\ HostOf[g] # n
      <4>1. words'[g] = IF HostOf[g] = n THEN "unknown" ELSE words[g]
        BY <2>1 DEF NodeFails
      <4> QED
        BY <4>1 DEF Status
    <3> QED
      BY <3>3, <3>4 DEF GuestRunning
  <2> HIDE DEF num, den, work, c
  <2> QED
    BY <2>6, <2>12, <2>13, <2>14
<1>2. SummaryInv /\ [SummaryNext]_summaryVars => [Outage]_summaryVars
  BY <1>1
<1>3. SummarySpec => [][Outage]_summaryVars
  <2> HIDE DEF Outage
  <2> QED
    BY <1>2, AlwaysSummaryInv, PTL DEF SummarySpec
<1> QED
  BY <1>3, PTL DEF OutageIsNoRelief

-------------------------------------------------------------------------------
(* Shared storage.                                                         *)

StorageSpec == StorageInit /\ [][StorageNext]_storageVars

LEMMA StorageTypeInit == StorageInit => StorageTypeOK
<1>1. Min(Fills) \in Fills
  BY MountingAssumption, MinIsSmallest
<1> QED
  BY <1>1 DEF StorageInit, StorageTypeOK, Statuses

LEMMA StorageTypeNext == StorageTypeOK /\ [StorageNext]_storageVars => StorageTypeOK'
  BY DEF StorageTypeOK, StorageNext, storageVars, MountChanges, Fill, Statuses

\* A row is shown while the storage is listed at all, and one that saw it shows
\* what it holds.
LEMMA CollapsedFacts ==
  ASSUME NEW ms, NEW h
  PROVE  /\ Collapsed(ms, h).found <=> \E n \in Mounting : ms[n] # "absent"
         /\ Collapsed(ms, h).nodes = Available(ms)
         /\ Available(ms) # {} => Collapsed(ms, h).used = h
<1>1. ASSUME Available(ms) # {} PROVE Collapsed(ms, h).used = h
  <2>1. Available(ms) \in SUBSET Nat /\ Available(ms) \subseteq Candidates(ms)
    BY MountingAssumption DEF Available, Candidates
  <2>2. RowNode(ms) \in Available(ms)
    BY <1>1, <2>1, MinIsSmallest DEF RowNode
  <2>3. Figure(ms, h, RowNode(ms)) = h
    BY <2>2 DEF Figure, Available
  <2>4. Candidates(ms) # {}
    BY <1>1, <2>1
  <2> QED
    BY <2>3, <2>4 DEF Collapsed
<1> QED
  BY <1>1 DEF Collapsed, Candidates

\* The figures of a shared storage do not depend on which node lost its mount
\* (shared_storage), for any set of nodes.
THEOREM MountsCarryNoFigure ==
  StorageSpec => []StorageTypeOK /\ AMountLostChangesNoFigure
<1>1. StorageSpec => []StorageTypeOK
  BY StorageTypeInit, StorageTypeNext, PTL DEF StorageSpec
<1> DEFINE Kept == LET before == Collapsed(mounts, held)
                       after == Collapsed(mounts', held') IN
                   /\ held' = held /\ before.nodes # {} /\ after.nodes # {} =>
                         after.used = before.used
                   /\ after.found <=> \E n \in Mounting : mounts'[n] # "absent"
<1>2. Kept
  BY CollapsedFacts
<1>3. [StorageNext]_storageVars => [Kept]_storageVars
  BY <1>2
<1>4. StorageSpec => [][Kept]_storageVars
  <2> HIDE DEF Kept
  <2> QED
    BY <1>3, PTL DEF StorageSpec
<1> QED
  BY <1>1, <1>4, PTL DEF AMountLostChangesNoFigure

-------------------------------------------------------------------------------
(* Replication.                                                            *)

ReplicationSpec == ReplicationInit /\ [][ReplicationNext]_replicationVars

ReplicationInv == jobs \in [Jobs -> Job] /\ minute \in 0..LastMinute
                    /\ \A j \in Jobs : jobs[j].lastSync <= minute

LEMMA ReplicationInvInit == ReplicationInit => ReplicationInv
<1> SUFFICES ASSUME ReplicationInit PROVE ReplicationInv
  OBVIOUS
<1>1. LastMinute \in Nat /\ LastMinute >= 1
  BY NodeHealthAssumption
<1>2. ASSUME NEW j \in Jobs PROVE jobs[j] \in Job /\ jobs[j].lastSync <= 1
  <2>1. PICK last \in {NoNumber, 0} :
          jobs[j] = [disabled |-> FALSE, failed |-> FALSE, lastSync |-> last]
    BY DEF ReplicationInit
  <2>2. last \in -1..LastMinute /\ last <= 1
    BY <1>1 DEF NoNumber
  <2>3. jobs[j].lastSync = last
    BY <2>1
  <2>4. [disabled |-> FALSE, failed |-> FALSE, lastSync |-> last] \in Job
    BY <2>2 DEF Job
  <2> QED
    BY <2>1, <2>2, <2>3, <2>4
<1>3. minute = 1 /\ 1 \in 0..LastMinute
  BY <1>1 DEF ReplicationInit
<1>4. jobs \in [Jobs -> Job]
  <2>1. jobs \in [Jobs -> [disabled : {FALSE}, failed : {FALSE}, lastSync : {NoNumber, 0}]]
    BY DEF ReplicationInit
  <2> QED
    BY <1>2, <2>1
<1> QED
  BY <1>2, <1>3, <1>4 DEF ReplicationInv

LEMMA ReplicationInvNext ==
  ReplicationInv /\ [ReplicationNext]_replicationVars => ReplicationInv'
<1> SUFFICES ASSUME ReplicationInv, [ReplicationNext]_replicationVars PROVE ReplicationInv'
  OBVIOUS
<1> USE NodeHealthAssumption DEF ReplicationInv, Job
<1>1. ASSUME NEW j \in Jobs, JobSyncs(j) PROVE ReplicationInv'
  <2> DEFINE v == [jobs[j] EXCEPT !.lastSync = minute, !.failed = FALSE]
  <2>1. jobs' = [jobs EXCEPT ![j] = v] /\ minute' = minute
    BY <1>1 DEF JobSyncs
  <2>2. minute \in -1..LastMinute /\ jobs[j] \in Job
    OBVIOUS
  <2>3. v \in Job /\ v.lastSync = minute
    BY <2>2
  <2> HIDE DEF v
  <2> QED
    BY <2>1, <2>3
<1>2. ASSUME NEW j \in Jobs, JobFails(j) PROVE ReplicationInv'
  BY <1>2 DEF JobFails
<1>3. ASSUME NEW j \in Jobs, JobSwitched(j) PROVE ReplicationInv'
  BY <1>3 DEF JobSwitched
<1>4. CASE Minute
  BY <1>4 DEF Minute
<1>5. CASE UNCHANGED replicationVars
  BY <1>5 DEF replicationVars
<1> QED
  BY <1>1, <1>2, <1>3, <1>4, <1>5 DEF ReplicationNext

\* The oldest of the last syncs: none, where no job that is on has any.
LEMMA OldestFacts ==
  ASSUME NEW js \in [Jobs -> Job]
  PROVE  LET on == {j \in Jobs : ~js[j].disabled /\ js[j].lastSync # NoNumber} IN
         /\ on = {} => OldestSync(js) = NoNumber
         /\ on # {} => \E j \in on : OldestSync(js) = js[j].lastSync
         /\ \A j \in on : OldestSync(js) \in 0..js[j].lastSync
<1> DEFINE on == {j \in Jobs : ~js[j].disabled /\ js[j].lastSync # NoNumber}
<1>1. Syncs(js) = {js[j].lastSync : j \in on}
  BY DEF Syncs, Active
<1>2. \A j \in on : js[j].lastSync \in Nat
  BY NodeHealthAssumption DEF Job, NoNumber
<1>3. Syncs(js) \in SUBSET Nat
  BY <1>1, <1>2
<1>4. CASE on = {}
  BY <1>1, <1>4 DEF OldestSync
<1>5. CASE on # {}
  <2>1. Syncs(js) # {}
    BY <1>1, <1>5
  <2>2. OldestSync(js) \in Syncs(js) /\ \A y \in Syncs(js) : OldestSync(js) <= y
    BY <1>3, <2>1, MinIsSmallest DEF OldestSync
  <2>3. ASSUME NEW j \in on PROVE OldestSync(js) \in 0..js[j].lastSync
    <3>1. OldestSync(js) \in Nat /\ OldestSync(js) <= js[j].lastSync /\ js[j].lastSync \in Nat
      BY <1>1, <1>2, <1>3, <2>2
    <3> QED
      BY <3>1
  <2>4. \E j \in on : OldestSync(js) = js[j].lastSync
    BY <1>1, <2>2
  <2> QED
    BY <1>5, <2>3, <2>4
<1> QED
  BY <1>4, <1>5

\* A job that stays on keeps the time of its last sync, or moves it to now.
LEMMA JobsMove ==
  ASSUME ReplicationInv, [ReplicationNext]_replicationVars, NEW j \in Jobs
  PROVE  /\ jobs[j].lastSync <= jobs'[j].lastSync
         /\ jobs[j].lastSync # NoNumber => jobs'[j].lastSync # NoNumber
         /\ jobs'[j].lastSync # jobs[j].lastSync => jobs'[j].lastSync = minute
         /\ jobs[j].failed /\ ~jobs'[j].failed => jobs'[j].lastSync = minute
<1> USE NodeHealthAssumption DEF ReplicationInv, Job, NoNumber
<1>1. ASSUME NEW k \in Jobs, JobSyncs(k)
      PROVE  /\ jobs[j].lastSync <= jobs'[j].lastSync
             /\ jobs[j].lastSync # NoNumber => jobs'[j].lastSync # NoNumber
             /\ jobs'[j].lastSync # jobs[j].lastSync => jobs'[j].lastSync = minute
             /\ jobs[j].failed /\ ~jobs'[j].failed => jobs'[j].lastSync = minute
  BY <1>1 DEF JobSyncs
<1>2. ASSUME NEW k \in Jobs, JobFails(k) \/ JobSwitched(k)
      PROVE  /\ jobs'[j].lastSync = jobs[j].lastSync
             /\ jobs[j].failed => jobs'[j].failed
  BY <1>2 DEF JobFails, JobSwitched
<1>3. CASE Minute \/ UNCHANGED replicationVars
  BY <1>3 DEF Minute, replicationVars
<1> QED
  BY <1>1, <1>2, <1>3 DEF ReplicationNext

\* "it says how far behind the furthest-behind target is" (ReplicationHealth),
\* for any number of jobs and any horizon.
THEOREM LagIsNeverHidden ==
  ReplicationSpec => LagIsNotHidden
<1> DEFINE LagShown ==
       /\ \A j \in Jobs : ~jobs'[j].disabled /\ jobs'[j].lastSync # NoNumber =>
             OldestSync(jobs') \in 0..jobs'[j].lastSync
       /\ OldestSync(jobs') < OldestSync(jobs) =>
             \/ \E j \in Jobs : jobs[j].disabled /\ ~jobs'[j].disabled
             \/ OldestSync(jobs') = NoNumber
       /\ \A j \in FailingJobs(jobs) \ FailingJobs(jobs') :
             jobs'[j].disabled \/ jobs'[j].lastSync = minute
<1>1. ASSUME ReplicationInv, [ReplicationNext]_replicationVars PROVE LagShown
  <2>1. jobs \in [Jobs -> Job] /\ jobs' \in [Jobs -> Job]
    BY <1>1, ReplicationInvNext DEF ReplicationInv, Job
  <2>2. \A j \in Jobs : ~jobs'[j].disabled /\ jobs'[j].lastSync # NoNumber =>
             OldestSync(jobs') \in 0..jobs'[j].lastSync
    BY <2>1, OldestFacts
  <2>3. ASSUME OldestSync(jobs') < OldestSync(jobs),
               \A j \in Jobs : jobs[j].disabled => jobs'[j].disabled
        PROVE  OldestSync(jobs') = NoNumber
    <3> SUFFICES ASSUME OldestSync(jobs') # NoNumber PROVE FALSE
      OBVIOUS
    <3>1. PICK j \in Jobs : /\ ~jobs'[j].disabled /\ jobs'[j].lastSync # NoNumber
                            /\ OldestSync(jobs') = jobs'[j].lastSync
      BY <2>1, OldestFacts
    <3>2. ~jobs[j].disabled /\ jobs[j].lastSync <= jobs'[j].lastSync
      BY <1>1, <2>3, <3>1, JobsMove
    <3>3. /\ jobs[j].lastSync \in Int /\ jobs'[j].lastSync \in Nat
      BY <2>1, <3>1, NodeHealthAssumption DEF Job, NoNumber
    <3>4. CASE jobs[j].lastSync # NoNumber
      <4>1. OldestSync(jobs) \in 0..jobs[j].lastSync
        BY <2>1, <3>2, <3>4, OldestFacts
      <4> QED
        BY <2>3, <3>1, <3>2, <3>3, <4>1
    <3>5. CASE jobs[j].lastSync = NoNumber
      <4>1. jobs'[j].lastSync = minute /\ minute \in Nat
        BY <1>1, <3>1, <3>5, JobsMove DEF ReplicationInv
      <4>2. OldestSync(jobs) = NoNumber \/ \E k \in Jobs : OldestSync(jobs) = jobs[k].lastSync
        BY <2>1, OldestFacts
      <4>3. OldestSync(jobs) <= minute
        BY <1>1, <4>1, <4>2 DEF ReplicationInv, NoNumber
      <4>4. OldestSync(jobs) \in Int
        BY <2>1, <4>2, NodeHealthAssumption DEF Job, NoNumber
      <4> QED
        BY <2>3, <3>1, <4>1, <4>3, <4>4
    <3> QED
      BY <3>4, <3>5
  <2>4. ASSUME NEW j \in FailingJobs(jobs) \ FailingJobs(jobs'), ~jobs'[j].disabled
        PROVE  jobs'[j].lastSync = minute
    <3>1. j \in Jobs /\ jobs[j].failed /\ ~jobs'[j].failed
      BY <2>4 DEF FailingJobs, Active
    <3> QED
      BY <1>1, <3>1, JobsMove
  <2> QED
    BY <2>2, <2>3, <2>4
<1>2. ReplicationInv /\ [ReplicationNext]_replicationVars => [LagShown]_replicationVars
  BY <1>1
<1>3. ReplicationSpec => []ReplicationInv
  BY ReplicationInvInit, ReplicationInvNext, PTL DEF ReplicationSpec
<1>4. ReplicationSpec => [][LagShown]_replicationVars
  <2> HIDE DEF LagShown
  <2> QED
    BY <1>2, <1>3, PTL DEF ReplicationSpec
<1> QED
  BY <1>4, PTL DEF LagIsNotHidden

-------------------------------------------------------------------------------
(* The filesystems of a guest.                                             *)

FilesystemsSpec == FilesystemsInit /\ [][FilesystemsNext]_filesystems

FilesystemsInv == filesystems \in Seq(Filesystems)

LEMMA FilesystemsInvNext ==
  FilesystemsInv /\ [FilesystemsNext]_filesystems => FilesystemsInv'
  BY DEF FilesystemsInv, FilesystemsNext, Mount

\* The figure of a filesystem counts for a device.
HasFigure(f, d, field) == Contributes(f) /\ f.device = d /\ f[field] # None

LEMMA FiguresFacts ==
  ASSUME NEW fs \in Seq(Filesystems), NEW d, NEW field \in {"used", "total"}
  PROVE  /\ Figures(fs, d, field) \in SUBSET Nat
         /\ IsFiniteSet(Figures(fs, d, field))
         /\ Figures(fs, d, field) =
               {fs[i][field] : i \in {k \in 1..Len(fs) : HasFigure(fs[k], d, field)}}
<1> DEFINE D == {k \in 1..Len(fs) : HasFigure(fs[k], d, field)}
           F == Figures(fs, d, field)
           m == [i \in D |-> fs[i][field]]
<1>1. Len(fs) \in Nat /\ DOMAIN fs = 1..Len(fs) /\ \A i \in 1..Len(fs) : fs[i] \in Filesystems
  OBVIOUS
<1>2. F = {fs[i][field] : i \in D}
  BY <1>1 DEF Figures, HasFigure, Range
<1>3. \A f \in Filesystems : f[field] # None => f[field] \in Nat
  <2>1. CASE field = "used"
    BY <2>1, GuestReportAssumption DEF Filesystems
  <2>2. CASE field = "total"
    BY <2>2, GuestReportAssumption DEF Filesystems
  <2> QED
    BY <2>1, <2>2
<1>4. F \in SUBSET Nat
  BY <1>1, <1>2, <1>3 DEF HasFigure
<1>5. IsFiniteSet(D)
  <2>1. IsFiniteSet(1..Len(fs)) /\ D \in SUBSET (1..Len(fs))
    BY <1>1, FS_Interval
  <2> QED
    BY <2>1, FS_Subset
<1>6. m \in Surjection(D, F)
  BY <1>2 DEF Surjection
<1>7. IsFiniteSet(F)
  <2> HIDE DEF D, F, m
  <2> QED
    BY <1>5, <1>6, FS_Surjection
<1> QED
  BY <1>2, <1>4, <1>7

\* A further figure that is no larger than what its device has shown is lost
\* among those of the device.
LEMMA NoLargerFigure ==
  ASSUME NEW fs \in Seq(Filesystems), NEW f \in Filesystems, NEW field \in {"used", "total"},
         HasFigure(f, f.device, field) =>
            /\ f.device \in Having(fs, field)
            /\ f[field] <= Max(Figures(fs, f.device, field))
  PROVE  /\ Having(Append(fs, f), field) = Having(fs, field)
         /\ \A d \in Having(fs, field) :
               Max(Figures(Append(fs, f), d, field)) = Max(Figures(fs, d, field))
<1> DEFINE more == Append(fs, f)
<1>1. /\ more \in Seq(Filesystems) /\ Len(more) = Len(fs) + 1 /\ Len(fs) \in Nat
      /\ more[Len(more)] = f /\ \A i \in 1..Len(fs) : more[i] = fs[i]
  OBVIOUS
<1> HIDE DEF more
<1>2. ASSUME NEW d
      PROVE  Figures(more, d, field) =
                Figures(fs, d, field) \cup (IF HasFigure(f, d, field) THEN {f[field]} ELSE {})
  <2>1. 1..Len(more) = 1..Len(fs) \cup {Len(more)}
    BY <1>1
  <2>2. Figures(more, d, field) =
           {more[i][field] : i \in {k \in 1..Len(more) : HasFigure(more[k], d, field)}}
    BY <1>1, FiguresFacts
  <2>3. Figures(fs, d, field) =
           {fs[i][field] : i \in {k \in 1..Len(fs) : HasFigure(fs[k], d, field)}}
    BY FiguresFacts
  <2> QED
    BY <1>1, <2>1, <2>2, <2>3
<1>3. ASSUME NEW d \in Devices
      PROVE  /\ Figures(more, d, field) = {} <=> Figures(fs, d, field) = {}
             /\ Figures(fs, d, field) # {} =>
                   Max(Figures(more, d, field)) = Max(Figures(fs, d, field))
  <2>1. CASE ~HasFigure(f, d, field)
    BY <1>2, <2>1
  <2>2. CASE HasFigure(f, d, field)
    <3>1. f.device = d
      BY <2>2 DEF HasFigure
    <3> DEFINE S == Figures(fs, d, field)
               L == Figures(more, d, field)
    <3>2. S # {} /\ f[field] <= Max(S) /\ L = S \cup {f[field]}
      BY <1>2, <2>2, <3>1 DEF Having
    <3>3. /\ S \in SUBSET Nat /\ IsFiniteSet(S)
      BY FiguresFacts
    <3>4. L \in SUBSET Nat /\ IsFiniteSet(L)
      BY <1>1, FiguresFacts
    <3> HIDE DEF S, L
    <3>5. Max(S) \in S /\ \A y \in S : Max(S) >= y
      BY <3>2, <3>3, MaxIsLargest
    <3>6. L # {} /\ Max(L) \in L /\ \A y \in L : Max(L) >= y
      BY <3>2, <3>4, MaxIsLargest
    <3>7. Max(L) \in Nat /\ Max(S) \in Nat /\ Max(L) <= Max(S) /\ Max(S) <= Max(L)
      BY <3>2, <3>3, <3>4, <3>5, <3>6
    <3>8. Max(L) = Max(S)
      BY <3>7
    <3> QED
      BY <3>2, <3>6, <3>8 DEF S, L
  <2> QED
    BY <2>1, <2>2
<1>4. Having(more, field) = Having(fs, field)
  BY <1>3 DEF Having
<1>5. \A d \in Having(fs, field) : Max(Figures(more, d, field)) = Max(Figures(fs, d, field))
  BY <1>3 DEF Having
<1> QED
  BY <1>4, <1>5 DEF more

\* "A device mounted more than once counts once, at its largest reported figure"
\* (guest_disk_usage), for any devices, sizes and number of mounts.
THEOREM RemountsChangeNothing ==
  FilesystemsSpec => MountedAgainChangesNothing
<1> DEFINE Again ==
      LET f == Last(filesystems') IN
       /\ filesystems' # filesystems
       /\ f.device \in Having(filesystems, "used")
       /\ f.used <= UsedOf(filesystems, f.device)
       /\ f.total # None => /\ f.device \in Having(filesystems, "total")
                            /\ f.total <= TotalOf(filesystems, f.device)
       => Usage(filesystems') = Usage(filesystems)
<1>1. ASSUME FilesystemsInv, [FilesystemsNext]_filesystems PROVE Again
  <2> SUFFICES ASSUME NEW f, f = Last(filesystems'),
                      filesystems' # filesystems,
                      f.device \in Having(filesystems, "used"),
                      f.used <= UsedOf(filesystems, f.device),
                      f.total # None => /\ f.device \in Having(filesystems, "total")
                                        /\ f.total <= TotalOf(filesystems, f.device)
               PROVE  Usage(filesystems') = Usage(filesystems)
    OBVIOUS
  <2> DEFINE fs == filesystems
  <2>1. PICK g \in Filesystems : filesystems' = Append(fs, g)
    BY <1>1 DEF FilesystemsNext, Mount
  <2>2. fs \in Seq(Filesystems)
    BY <1>1 DEF FilesystemsInv
  <2>3. f = g
    BY <2>1, <2>2 DEF Last
  <2>4. f \in Filesystems /\ filesystems' = Append(fs, f)
    BY <2>1, <2>3
  <2>5. /\ Having(filesystems', "used") = Having(fs, "used")
        /\ \A d \in Having(fs, "used") : UsedOf(filesystems', d) = UsedOf(fs, d)
    BY <2>2, <2>4, NoLargerFigure DEF UsedOf
  <2>6. /\ Having(filesystems', "total") = Having(fs, "total")
        /\ \A d \in Having(fs, "total") : TotalOf(filesystems', d) = TotalOf(fs, d)
    BY <2>2, <2>4, NoLargerFigure DEF TotalOf, HasFigure
  <2>7. [d \in Having(filesystems', "used") |-> UsedOf(filesystems', d)] =
           [d \in Having(fs, "used") |-> UsedOf(fs, d)]
    BY <2>5
  <2>8. [d \in Having(filesystems', "total") |-> TotalOf(filesystems', d)] =
           [d \in Having(fs, "total") |-> TotalOf(fs, d)]
    BY <2>6
  <2> QED
    BY <2>5, <2>6, <2>7, <2>8 DEF Usage
<1>2. FilesystemsInv /\ [FilesystemsNext]_filesystems => [Again]_filesystems
  BY <1>1
<1>3. FilesystemsSpec => []FilesystemsInv
  <2>1. FilesystemsInit => FilesystemsInv
    BY DEF FilesystemsInit, FilesystemsInv
  <2> QED
    BY <2>1, FilesystemsInvNext, PTL DEF FilesystemsSpec
<1>4. FilesystemsSpec => [][Again]_filesystems
  <2> HIDE DEF Again
  <2> QED
    BY <1>2, <1>3, PTL DEF FilesystemsSpec
<1> QED
  BY <1>4, PTL DEF MountedAgainChangesNothing

-------------------------------------------------------------------------------
(* The address of a guest.                                                 *)

GuestInterfaces == [name : Interfaces, addresses : Seq(Addresses)]

InterfacesInv == interfaces \in Seq(GuestInterfaces)

InterfacesSpec == InterfacesInit /\ [][InterfacesNext]_interfaces

LEMMA ReportsAreLists == InterfaceReports \subseteq Seq(GuestInterfaces)
<1> DEFINE A == UNION {InterfacesNamed(n) : n \in Interfaces}
<1>1. A \subseteq GuestInterfaces
  <2> SUFFICES ASSUME NEW n \in Interfaces, NEW i \in InterfacesNamed(n)
               PROVE  i \in GuestInterfaces
    OBVIOUS
  <2>1. PICK as \in ListsOfAddresses(n) : i = [name |-> n, addresses |-> as]
    BY DEF InterfacesNamed
  <2>2. as \in BoundedSeq({a \in Addresses : a.of \in {n, "any"}}, 2)
    BY DEF ListsOfAddresses
  <2>3. as \in Seq({a \in Addresses : a.of \in {n, "any"}})
    BY <2>2, BoundedSeqType
  <2>4. as \in Seq(Addresses)
    BY <2>3, SeqMono
  <2> QED
    BY <2>1, <2>4 DEF GuestInterfaces
<1>2. ASSUME NEW is \in InterfaceReports PROVE is \in Seq(GuestInterfaces)
  <2>1. is \in BoundedSeq(A, MaxInterfaces)
    BY DEF InterfaceReports
  <2> HIDE DEF A
  <2>2. is \in Seq(A)
    BY <2>1, GuestReportAssumption, BoundedSeqType
  <2> QED
    BY <1>1, <2>2, SeqMono
<1> QED
  BY <1>2

LEMMA InterfacesInvNext == InterfacesInv /\ [InterfacesNext]_interfaces => InterfacesInv'
  BY ReportsAreLists DEF InterfacesInv, InterfacesNext, Poll

ShownList(is) == [i \in 1..Len(is) |-> Only(is[i].addresses, WorthShowing)]

LEMMA ShownFacts ==
  ASSUME NEW is \in Seq(GuestInterfaces)
  PROVE  /\ ShownList(is) \in Seq(Seq(WorthShowing)) /\ Len(ShownList(is)) = Len(is)
         /\ ShownOf(is) = Flat(ShownList(is)) /\ ShownOf(is) \in Seq(WorthShowing)
<1>1. ASSUME NEW i \in 1..Len(is) PROVE Only(is[i].addresses, WorthShowing) \in Seq(WorthShowing)
  <2>0. is[i] \in GuestInterfaces
    BY ElementOfSeq
  <2>1. is[i].addresses \in Seq(Addresses)
    BY <2>0 DEF GuestInterfaces
  <2>2. Only(is[i].addresses, WorthShowing) \in Seq(Addresses \cap WorthShowing)
    BY <2>1, OnlyKeeps
  <2> QED
    BY <2>2
<1>2. ShownList(is) \in Seq(Seq(WorthShowing)) /\ Len(ShownList(is)) = Len(is)
  BY <1>1 DEF ShownList
<1>3. ShownOf(is) = Flat(ShownList(is))
  BY DEF ShownOf, ShownList
<1> QED
  BY <1>2, <1>3, FlatType

\* The address chosen is the first of its sort, and an IPv6 only where there is
\* no IPv4.
LEMMA PrimaryIsFirst ==
  ASSUME NEW s \in Seq(WorthShowing), s # << >>
  PROVE  /\ Primary(s) \in WorthShowing
         /\ Primary(s).sort = "IPv6" => Range(s) \cap IPv4s = {}
         /\ \E i \in 1..Len(s) : /\ s[i] = Primary(s)
                                /\ \A j \in 1..(i - 1) : s[j].sort # Primary(s).sort
<1>1. PICK v4, h : v4 = Only(s, IPv4s) /\ h = Primary(s)
  OBVIOUS
<1>2. v4 \in Seq(WorthShowing \cap IPv4s) /\ Range(v4) = Range(s) \cap IPv4s
  BY <1>1, OnlyKeeps
<1>3. CASE v4 # << >>
  <2>1. h = Head(v4)
    BY <1>1, <1>3 DEF Primary
  <2>2. h \in IPv4s
    BY <1>2, <1>3, <2>1
  <2>3. FirstOf(s, IPv4s, h)
    BY <1>1, <1>3, <2>1, OnlyHead
  <2>4. PICK i \in 1..Len(s) : s[i] = h /\ \A j \in 1..(i - 1) : s[j] \notin IPv4s
    BY <2>3 DEF FirstOf
  <2>5. ASSUME NEW j \in 1..(i - 1) PROVE s[j].sort # "IPv4"
    <3>1. j \in 1..Len(s)
      BY <2>4
    <3>2. s[j] \in WorthShowing
      BY <3>1, ElementOfSeq
    <3> QED
      BY <2>4, <3>2 DEF WorthShowing, IPv4s
  <2>6. h.sort = "IPv4" /\ h \in WorthShowing
    BY <2>2 DEF IPv4s, WorthShowing
  <2> QED
    BY <1>1, <2>4, <2>5, <2>6
<1>4. CASE v4 = << >>
  <2>1. h = Head(s)
    BY <1>1, <1>4 DEF Primary
  <2>2. 1 \in 1..Len(s) /\ s[1] = h
    BY <2>1
  <2>3. h \in WorthShowing
    BY <2>2, ElementOfSeq
  <2>4. Range(s) \cap IPv4s = {}
    BY <1>2, <1>4 DEF Range
  <2> QED
    BY <1>1, <2>2, <2>3, <2>4
<1> QED
  BY <1>3, <1>4

\* So it stands ahead of any other of its sort, and none of them ahead of it.
LEMMA PrimaryIsAhead ==
  ASSUME NEW s \in Seq(WorthShowing), s # << >>, NEW b, b # Primary(s),
         b.sort = Primary(s).sort
  PROVE  Ahead(s, Primary(s), b) /\ ~Ahead(s, b, Primary(s))
<1>1. PICK h : h = Primary(s)
  OBVIOUS
<1>2. PICK i \in 1..Len(s) : s[i] = h /\ \A j \in 1..(i - 1) : s[j].sort # h.sort
  BY <1>1, PrimaryIsFirst
<1>3. Len(s) \in Nat /\ i \in Nat
  OBVIOUS
<1>4. \A j \in 1..i : s[j] # b
  <2> TAKE j \in 1..i
  <2>1. j = i \/ j \in 1..(i - 1)
    BY <1>3
  <2> QED
    BY <1>1, <1>2, <2>1
<1>5. ASSUME NEW k \in 1..Len(s), s[k] = b PROVE \E j \in 1..k : s[j] = h
  <2>1. k > i
    BY <1>3, <1>4, <1>5
  <2>2. i \in 1..k
    BY <1>3, <2>1
  <2> QED
    BY <1>2, <2>2
<1> QED
  BY <1>1, <1>2, <1>4, <1>5 DEF Ahead

\* PrimaryChangesWithCause: for any interfaces with any addresses, reported in any
\* order and otherwise at every poll, the address shown for a guest is given up
\* while the guest still has it only for an IPv4 that was not there, or for
\* another of its sort that has come to stand ahead of it.
THEOREM PrimaryChangesOnlyWithCause == InterfacesSpec => PrimaryChangesWithCause
<1> DEFINE Caused ==
             LET was == ShownOf(interfaces)
                 is == ShownOf(interfaces')
                 before == Primary(was)
                 after == Primary(is) IN
             /\ after = NoAddress => is = << >>
             /\ before \in Range(is) /\ after # before =>
                   \/ before.sort = "IPv6" /\ after.sort = "IPv4" /\ after \notin Range(was)
                   \/ /\ after.sort = before.sort
                      /\ Ahead(is, after, before) /\ ~Ahead(was, after, before)
<1>1. ASSUME InterfacesInv, InterfacesInv' PROVE Caused
  <2>1. PICK was, is : was = ShownOf(interfaces) /\ is = ShownOf(interfaces')
    OBVIOUS
  <2>2. was \in Seq(WorthShowing) /\ is \in Seq(WorthShowing)
    BY <1>1, <2>1, ShownFacts DEF InterfacesInv
  <2>3. PICK before, after : before = Primary(was) /\ after = Primary(is)
    OBVIOUS
  <2>4. NoAddress \notin WorthShowing
    BY DEF NoAddress, WorthShowing
  <2>5. after = NoAddress => is = << >>
    BY <2>2, <2>3, <2>4, PrimaryIsFirst
  <2>6. ASSUME before \in Range(is), after # before
        PROVE  \/ before.sort = "IPv6" /\ after.sort = "IPv4" /\ after \notin Range(was)
               \/ /\ after.sort = before.sort
                  /\ Ahead(is, after, before) /\ ~Ahead(was, after, before)
    <3>1. is # << >> /\ before \in WorthShowing
      BY <2>2, <2>6 DEF Range
    <3>2. was # << >>
      <4>1. was = << >> => before = NoAddress
        <5>1. was = << >> => Only(was, IPv4s) = << >>
          BY OnlyEmpty
        <5> QED
          BY <2>3, <5>1 DEF Primary
      <4> QED
        BY <2>4, <3>1, <4>1
    <3>3. after \in WorthShowing
      BY <2>2, <2>3, <3>1, PrimaryIsFirst
    <3>4. CASE after.sort = before.sort
      <4>1. Ahead(is, after, before)
        BY <2>2, <2>3, <2>6, <3>1, <3>4, PrimaryIsAhead
      <4>2. ~Ahead(was, after, before)
        BY <2>2, <2>3, <2>6, <3>2, <3>4, PrimaryIsAhead
      <4> QED
        BY <3>4, <4>1, <4>2
    <3>5. CASE before.sort = "IPv6" /\ after.sort = "IPv4"
      <4>1. Range(was) \cap IPv4s = {}
        BY <2>2, <2>3, <3>2, <3>5, PrimaryIsFirst
      <4>2. after \in IPv4s
        BY <3>3, <3>5 DEF WorthShowing, IPv4s
      <4> QED
        BY <3>5, <4>1, <4>2
    <3>6. CASE before.sort = "IPv4" /\ after.sort = "IPv6"
      <4>1. Range(is) \cap IPv4s = {}
        BY <2>2, <2>3, <3>1, <3>6, PrimaryIsFirst
      <4>2. before \in IPv4s
        BY <3>1, <3>6 DEF WorthShowing, IPv4s
      <4> QED
        BY <2>6, <4>1, <4>2
    <3>7. before.sort \in {"IPv4", "IPv6"} /\ after.sort \in {"IPv4", "IPv6"}
      BY <3>1, <3>3 DEF WorthShowing
    <3> QED
      BY <3>4, <3>5, <3>6, <3>7
  <2> QED
    BY <2>1, <2>3, <2>5, <2>6
<1>2. InterfacesInit => InterfacesInv
  BY DEF InterfacesInit, InterfacesInv
<1>3. InterfacesSpec => []InterfacesInv
  BY <1>2, InterfacesInvNext, PTL DEF InterfacesSpec
<1>4. InterfacesSpec => [][Caused]_interfaces
  <2> HIDE DEF Caused
  <2> QED
    BY <1>1, <1>3, PTL DEF InterfacesSpec
<1> QED
  BY <1>4, PTL DEF PrimaryChangesWithCause

-------------------------------------------------------------------------------
(* The task log.                                                           *)

BackupSpec == BackupInit /\ [][BackupNext]_logVars

LogRows == [task : Nat, type : {"vzdump", "other"}, id : {"", "100"},
            status : TaskVerdicts \cup {"none"}]

\* Nobody waits for a lock that nobody holds, and a task ends once.
BackupInv ==
    /\ BackupTypeOK
    /\ holder # NoTask => IsBackup(holder)
    /\ holder = NoTask => \A i \in InProgress : ~IsBackup(i)
    /\ Cardinality(EndedTasks) = Len(finished)

LEMMA BackupInvInit == BackupInit => BackupInv
<1> SUFFICES ASSUME BackupInit PROVE BackupInv
  OBVIOUS
<1>1. started = << >> /\ finished = << >> /\ holder = NoTask
  BY DEF BackupInit
<1>2. EndedTasks = {}
  BY <1>1 DEF EndedTasks, Range
<1>3. Cardinality(EndedTasks) = Len(finished)
  BY <1>1, <1>2, FS_EmptySet
<1>4. InProgress = {}
  BY <1>1 DEF InProgress
<1>5. BackupTypeOK
  BY <1>1, BackupLogAssumption DEF BackupTypeOK
<1> QED
  BY <1>1, <1>3, <1>4, <1>5 DEF BackupInv

LEMMA BackupFacts ==
  ASSUME BackupInv
  PROVE  /\ started \in Seq(LoggedTasks) /\ Len(started) \in Nat /\ Len(finished) \in Nat
         /\ EndedTasks \subseteq 1..Len(started) /\ Len(finished) <= Len(started)
         /\ Len(started) <= MaxTasks /\ MaxTasks \in Nat
         /\ \A i \in 1..Len(started) : started[i] \in LoggedTasks
         /\ \A k \in 1..Len(finished) : /\ finished[k].task \in 1..Len(started)
                                        /\ finished[k].verdict \in TaskVerdicts
<1>1. started \in Seq(LoggedTasks) /\ Len(started) <= MaxTasks /\ MaxTasks \in Nat
      /\ finished \in Seq([task : 1..Len(started), verdict : TaskVerdicts])
  BY BackupLogAssumption DEF BackupInv, BackupTypeOK
<1>2. /\ \A i \in 1..Len(started) : started[i] \in LoggedTasks
      /\ \A k \in 1..Len(finished) : finished[k] \in [task : 1..Len(started), verdict : TaskVerdicts]
  BY <1>1, ElementOfSeq
<1>3. EndedTasks \subseteq 1..Len(started)
  BY <1>1, <1>2 DEF EndedTasks, Range
<1>4. Len(finished) <= Len(started)
  <2>1. PICK n \in Nat : n = Len(started)
    BY <1>1
  <2>2. IsFiniteSet(1..n) /\ Cardinality(1..n) = n
    BY FS_Interval
  <2>3. Cardinality(EndedTasks) <= Len(started)
    BY <1>3, <2>1, <2>2, FS_Subset
  <2> QED
    BY <2>3 DEF BackupInv
<1> QED
  BY <1>1, <1>2, <1>3, <1>4

\* A task that ends.
LEMMA EndFacts ==
  ASSUME BackupInv, NEW i \in InProgress, NEW v \in TaskVerdicts, UNCHANGED started,
         finished' = Append(finished, [task |-> i, verdict |-> v])
  PROVE  /\ InProgress' = InProgress \ {i}
         /\ finished' \in Seq([task : 1..Len(started'), verdict : TaskVerdicts])
         /\ Cardinality(EndedTasks)' = Len(finished')
<1>1. i \in 1..Len(started) /\ i \notin EndedTasks
  BY DEF InProgress
<1>2. PICK f : f = [task |-> i, verdict |-> v]
  OBVIOUS
<1>3. f \in [task : 1..Len(started), verdict : TaskVerdicts] /\ f.task = i
  BY <1>1, <1>2
<1>4. finished \in Seq([task : 1..Len(started), verdict : TaskVerdicts])
  BY DEF BackupInv, BackupTypeOK
<1>5. Range(finished') = Range(finished) \cup {f}
  <2>1. PICK A : A = [task : 1..Len(started), verdict : TaskVerdicts]
    OBVIOUS
  <2>2. f \in A /\ finished \in Seq(A) /\ finished' = Append(finished, f)
    BY <1>2, <1>3, <1>4, <2>1
  <2> QED
    BY <2>2, RangeAppend
<1>6. EndedTasks' = EndedTasks \cup {i}
  BY <1>3, <1>5 DEF EndedTasks
<1>7. finished' \in Seq([task : 1..Len(started), verdict : TaskVerdicts])
      /\ Len(finished') = Len(finished) + 1
  BY <1>2, <1>3, <1>4
<1>8. IsFiniteSet(EndedTasks)
  <2>1. IsFiniteSet(1..Len(started))
    BY BackupFacts, FS_Interval
  <2> QED
    BY <2>1, BackupFacts, FS_Subset
<1>9. Cardinality(EndedTasks') = Cardinality(EndedTasks) + 1
  BY <1>1, <1>6, <1>8, FS_AddElement
<1> QED
  BY <1>6, <1>7, <1>9 DEF InProgress, BackupInv

LEMMA BackupInvNext == BackupInv /\ [BackupNext]_logVars => BackupInv'
<1> SUFFICES ASSUME BackupInv, [BackupNext]_logVars PROVE BackupInv'
  OBVIOUS
<1> USE DEF IsBackup
<1>0. /\ started \in Seq(LoggedTasks) /\ Len(started) <= MaxTasks /\ Len(started) \in Nat
      /\ finished \in Seq([task : 1..Len(started), verdict : TaskVerdicts])
      /\ holder \in InProgress \cup {NoTask} /\ EndedTasks \subseteq 1..Len(started)
      /\ MaxTasks \in Nat
  BY BackupFacts DEF BackupInv, BackupTypeOK
<1>1. CASE BeginTask
  <2>1. PICK t \in LoggedTasks :
          /\ started' = Append(started, t)
          /\ holder' = IF t.type = "vzdump" /\ holder = NoTask THEN Len(started') ELSE holder
    BY <1>1 DEF BeginTask
  <2>2. finished' = finished /\ Len(started) < MaxTasks
    BY <1>1 DEF BeginTask
  <2>3. PICK n \in Nat : n = Len(started) + 1
    BY <1>0
  <2>4. /\ started' \in Seq(LoggedTasks) /\ Len(started') = n
        /\ started'[n] = t /\ \A i \in 1..Len(started) : started'[i] = started[i]
    BY <1>0, <2>1, <2>3
  <2>5. EndedTasks' = EndedTasks
    BY <2>2 DEF EndedTasks
  <2>6. InProgress' = InProgress \cup {n} /\ InProgress \subseteq 1..Len(started) /\ n # NoTask
    BY <1>0, <2>3, <2>4, <2>5 DEF InProgress, NoTask
  <2>7. finished' \in Seq([task : 1..Len(started'), verdict : TaskVerdicts])
    <3>1. 1..Len(started) \subseteq 1..Len(started')
      BY <1>0, <2>3, <2>4
    <3>2. PICK A, B : /\ A = [task : 1..Len(started), verdict : TaskVerdicts]
                      /\ B = [task : 1..Len(started'), verdict : TaskVerdicts]
      OBVIOUS
    <3>3. A \subseteq B /\ finished \in Seq(A)
      BY <1>0, <3>1, <3>2
    <3>4. finished \in Seq(B)
      BY <3>3
    <3> QED
      BY <2>2, <3>2, <3>4
  <2>8. BackupTypeOK'
    BY <1>0, <2>1, <2>2, <2>3, <2>4, <2>6, <2>7 DEF BackupTypeOK
  <2>9. \A i \in InProgress : started'[i] = started[i]
    BY <2>4, <2>6
  <2>10. (holder # NoTask => IsBackup(holder))'
    BY <1>0, <2>1, <2>4, <2>6, <2>9 DEF BackupInv
  <2>11. (holder = NoTask => \A i \in InProgress : ~IsBackup(i))'
    BY <1>0, <2>1, <2>4, <2>6, <2>9 DEF BackupInv
  <2> QED
    BY <2>2, <2>5, <2>8, <2>10, <2>11 DEF BackupInv
<1>2. CASE EndBackup
  <2>1. PICK v \in TaskVerdicts : finished' = Append(finished, [task |-> holder, verdict |-> v])
    BY <1>2 DEF EndBackup, Ends
  <2>2. holder # NoTask /\ holder \in InProgress /\ started' = started
        /\ holder' \in IF WaitingTasks = {} THEN {NoTask} ELSE WaitingTasks
    BY <1>0, <1>2 DEF EndBackup
  <2>3. /\ InProgress' = InProgress \ {holder}
        /\ finished' \in Seq([task : 1..Len(started'), verdict : TaskVerdicts])
        /\ Cardinality(EndedTasks)' = Len(finished')
    BY <2>1, <2>2, EndFacts
  <2>4. WaitingTasks \subseteq InProgress' /\ \A i \in WaitingTasks : IsBackup(i)
    BY <2>3 DEF WaitingTasks
  <2>5. BackupTypeOK'
    BY <1>0, <2>2, <2>3, <2>4 DEF BackupTypeOK
  <2>6. (holder # NoTask => IsBackup(holder))'
    BY <2>2, <2>4
  <2>7. (holder = NoTask => \A i \in InProgress : ~IsBackup(i))'
    <3>1. NoTask \notin InProgress
      BY <1>0 DEF InProgress, NoTask
    <3> QED
      BY <2>2, <2>3, <3>1 DEF WaitingTasks
  <2> QED
    BY <2>3, <2>5, <2>6, <2>7 DEF BackupInv
<1>3. CASE EndOther \/ GiveUpWaiting
  <2>1. PICK i \in InProgress, v \in TaskVerdicts :
          i # holder /\ finished' = Append(finished, [task |-> i, verdict |-> v])
    <3>1. CASE EndOther
      BY <3>1 DEF EndOther, Ends, BackupInv, InProgress, NoTask
    <3>2. CASE GiveUpWaiting
      BY <3>2 DEF GiveUpWaiting, WaitingTasks, TaskVerdicts
    <3> QED
      BY <1>3, <3>1, <3>2
  <2>2. UNCHANGED <<started, holder>>
    BY <1>3 DEF EndOther, GiveUpWaiting
  <2>3. /\ InProgress' = InProgress \ {i}
        /\ finished' \in Seq([task : 1..Len(started'), verdict : TaskVerdicts])
        /\ Cardinality(EndedTasks)' = Len(finished')
    BY <2>1, <2>2, EndFacts
  <2>4. BackupTypeOK'
    BY <1>0, <2>1, <2>2, <2>3 DEF BackupTypeOK
  <2> QED
    BY <2>2, <2>3, <2>4 DEF BackupInv
<1>4. CASE UNCHANGED logVars
  BY <1>4 DEF logVars, BackupInv, BackupTypeOK, EndedTasks, InProgress
<1> QED
  BY <1>1, <1>2, <1>3, <1>4 DEF BackupNext

LEMMA AlwaysBackupInv == BackupSpec => []BackupInv
<1> QED
  BY BackupInvInit, BackupInvNext, PTL DEF BackupSpec

-------------------------------------------------------------------------------
(* The lists, and what is made of them.                                    *)

LEMMA RowFacts ==
  ASSUME BackupInv, NEW i \in 1..Len(started), NEW s \in TaskVerdicts \cup {"none"}
  PROVE  /\ TaskRow(i, s) \in LogRows /\ TaskRow(i, s).task = i /\ TaskRow(i, s).status = s
         /\ TaskRow(i, s) \in OfType("vzdump") <=> IsBackup(i)
<1>1. started[i] \in LoggedTasks /\ i \in Nat
  BY BackupFacts
<1> QED
  BY <1>1 DEF TaskRow, LogRows, OfType, IsBackup, LoggedTasks

ArchiveRight ==
    /\ ArchiveRows \in Seq(LogRows) /\ Len(ArchiveRows) = Len(finished)
    /\ \A k \in 1..Len(finished) :
          ArchiveRows[k] = TaskRow(finished[(Len(finished) - k) + 1].task,
                                   finished[(Len(finished) - k) + 1].verdict)

LEMMA ArchiveFacts == BackupInv => ArchiveRight
<1> SUFFICES ASSUME BackupInv PROVE ArchiveRight
  OBVIOUS
<1>1. PICK n \in Nat : n = Len(finished)
  BY BackupFacts
<1>2. PICK r : r = Reverse(finished)
  OBVIOUS
<1>3. r = [k \in 1..n |-> finished[(n - k) + 1]]
  BY <1>1, <1>2 DEF Reverse
<1>4. Len(r) = n
  BY <1>3
<1>5. \A k \in 1..n : r[k] = finished[(n - k) + 1] /\ (n - k) + 1 \in 1..n
  BY <1>3
<1>6. \A k \in 1..n : TaskRow(r[k].task, r[k].verdict) \in LogRows
  BY <1>1, <1>5, BackupFacts, RowFacts
<1>7. ArchiveRows = [k \in 1..n |-> TaskRow(r[k].task, r[k].verdict)]
  BY <1>2, <1>4 DEF ArchiveRows
<1>8. ArchiveRows \in Seq(LogRows) /\ Len(ArchiveRows) = n
  BY <1>6, <1>7
<1> QED
  BY <1>1, <1>5, <1>7, <1>8 DEF ArchiveRight

\* The archive is not cut, and a task that has ended leads it.
LEMMA ArchiveGrows ==
  ASSUME BackupInv, BackupInv', NEW i \in InProgress, NEW v \in TaskVerdicts, UNCHANGED started,
         finished' = Append(finished, [task |-> i, verdict |-> v])
  PROVE  ArchiveRows' = Cat(<<TaskRow(i, v)>>, ArchiveRows)
<1>0. ArchiveRight /\ ArchiveRight'
  BY ArchiveFacts, PTL
<1>1. PICK n \in Nat : n = Len(finished)
  BY BackupFacts
<1>2. /\ ArchiveRows \in Seq(LogRows) /\ Len(ArchiveRows) = n
      /\ ArchiveRows' \in Seq(LogRows) /\ Len(ArchiveRows') = n + 1
      /\ finished'[n + 1] = [task |-> i, verdict |-> v] /\ Len(finished') = n + 1
      /\ \A k \in 1..n : finished'[k] = finished[k]
  <2>1. finished \in Seq([task : 1..Len(started), verdict : TaskVerdicts])
    BY DEF BackupInv, BackupTypeOK
  <2>2. Len(finished') = n + 1 /\ finished'[n + 1] = [task |-> i, verdict |-> v]
        /\ \A k \in 1..n : finished'[k] = finished[k]
    BY <1>1, <2>1
  <2> QED
    BY <1>0, <1>1, <2>2 DEF ArchiveRight
<1>3. i \in 1..Len(started)
  BY DEF InProgress
<1>4. PICK row : row = TaskRow(i, v)
  OBVIOUS
<1>5. row \in LogRows
  BY <1>3, <1>4, RowFacts
<1>6. PICK one : one = <<row>>
  OBVIOUS
<1>7. one \in Seq(LogRows) /\ Len(one) = 1 /\ one[1] = row
  BY <1>5, <1>6
<1>8. PICK joined : joined = Cat(one, ArchiveRows)
  OBVIOUS
<1>9. joined \in Seq(LogRows) /\ Len(joined) = n + 1
      /\ joined[1] = row /\ \A k \in 1..n : joined[1 + k] = ArchiveRows[k]
  <2>1. one \in Seq(LogRows) /\ ArchiveRows \in Seq(LogRows)
    BY <1>2, <1>7
  <2>2. joined \in Seq(LogRows) /\ Joins(joined, one, ArchiveRows)
    BY <1>8, <2>1, CatType, CatElements
  <2> QED
    BY <1>2, <1>7, <2>2 DEF Joins
<1>10. \A k \in 1..n : /\ ArchiveRows[k] = TaskRow(finished[(n - k) + 1].task, finished[(n - k) + 1].verdict)
  BY <1>0, <1>1 DEF ArchiveRight
<1>11. \A k \in 1..(n + 1) : ArchiveRows'[k]
          = TaskRow(finished'[((n + 1) - k) + 1].task, finished'[((n + 1) - k) + 1].verdict)
  <2>1. \A k \in 1..(n + 1) : ArchiveRows'[k]
          = (TaskRow(finished[(Len(finished) - k) + 1].task,
                     finished[(Len(finished) - k) + 1].verdict))'
    BY <1>0, <1>2 DEF ArchiveRight
  <2>2. \A k \in 1..(n + 1) :
          (TaskRow(finished[(Len(finished) - k) + 1].task,
                   finished[(Len(finished) - k) + 1].verdict))'
          = TaskRow(finished'[(Len(finished') - k) + 1].task,
                    finished'[(Len(finished') - k) + 1].verdict)
    BY DEF TaskRow
  <2> QED
    BY <1>2, <2>1, <2>2
<1>12. ASSUME NEW k \in 1..(n + 1) PROVE ArchiveRows'[k] = joined[k]
  <2>1. CASE k = 1
    <3>1. ((n + 1) - k) + 1 = n + 1
      BY <2>1
    <3>2. ArchiveRows'[k] = TaskRow(finished'[n + 1].task, finished'[n + 1].verdict)
      BY <1>11, <3>1
    <3>3. finished'[n + 1].task = i /\ finished'[n + 1].verdict = v
      BY <1>2
    <3>4. ArchiveRows'[k] = row
      BY <1>4, <3>2, <3>3
    <3> QED
      BY <1>9, <2>1, <3>4
  <2>2. CASE k \in 2..(n + 1)
    <3>1. PICK j, h : j = k - 1 /\ h = (n - j) + 1
      OBVIOUS
    <3>2. j \in 1..n /\ h \in 1..n /\ ((n + 1) - k) + 1 = h
      BY <2>2, <3>1
    <3>3. joined[k] = TaskRow(finished[h].task, finished[h].verdict)
      <4>1. 1 + j = k
        BY <3>1
      <4>2. joined[1 + j] = ArchiveRows[j]
        BY <1>9, <3>2
      <4>3. ArchiveRows[j] = TaskRow(finished[h].task, finished[h].verdict)
        BY <1>10, <3>1, <3>2
      <4> QED
        BY <4>1, <4>2, <4>3
    <3>4. ArchiveRows'[k] = TaskRow(finished'[h].task, finished'[h].verdict)
      BY <1>11, <3>2
    <3> QED
      BY <1>2, <3>2, <3>3, <3>4
  <2> QED
    BY <2>1, <2>2
<1>13. ArchiveRows' = joined
  BY <1>2, <1>9, <1>12, SeqEqual
<1> QED
  BY <1>4, <1>6, <1>8, <1>13

\* Neither list is cut at the bound on the tasks.
LEMMA ListsWhole ==
  ASSUME BackupInv
  PROVE  /\ TaskList("", MaxTasks, "archive") = ArchiveRows
         /\ TaskList("", MaxTasks, "active") = ActiveRows
         /\ ActiveRows \in Seq(LogRows)
         /\ Range(ActiveRows) = {TaskRow(i, "none") : i \in InProgress}
<1>1. PICK n \in Nat : n = Len(started)
  BY BackupFacts
<1>2. PICK r : r = Reverse([i \in 1..n |-> i])
  OBVIOUS
<1>3. r = [k \in 1..n |-> (n - k) + 1]
  BY <1>2 DEF Reverse
<1>4. r \in Seq(Nat) /\ Len(r) = n /\ Range(r) = 1..n
  <2>1. \A k \in 1..n : (n - k) + 1 \in 1..n
    OBVIOUS
  <2>2. \A x \in 1..n : (n - x) + 1 \in 1..n /\ r[(n - x) + 1] = x
    BY <1>3
  <2>3. DOMAIN r = 1..n /\ \A k \in 1..n : r[k] \in 1..n
    BY <1>3, <2>1
  <2> QED
    BY <1>3, <2>2, <2>3 DEF Range
<1>5. PICK q : q = Only(r, InProgress)
  OBVIOUS
<1>6. q \in Seq(Nat \cap InProgress) /\ Range(q) = 1..n \cap InProgress /\ Len(q) <= n
  <2>1. /\ Only(r, InProgress) \in Seq(Nat \cap InProgress)
        /\ Range(Only(r, InProgress)) = Range(r) \cap InProgress
        /\ Len(Only(r, InProgress)) <= Len(r)
    BY <1>4, OnlyKeeps
  <2> QED
    BY <1>4, <1>5, <2>1
<1>7. InProgress \subseteq 1..n
  BY <1>1 DEF InProgress
<1>8. Range(q) = InProgress /\ Len(q) \in Nat /\ DOMAIN q = 1..Len(q)
      /\ \A k \in 1..Len(q) : q[k] \in InProgress
  <2>1. Range(q) = InProgress
    BY <1>6, <1>7
  <2>2. q \in Seq(Nat)
    BY <1>6
  <2>3. Len(q) \in Nat /\ DOMAIN q = 1..Len(q)
    BY <2>2
  <2> QED
    BY <2>1, <2>3 DEF Range
<1>9. ActiveRows = [k \in 1..Len(q) |-> TaskRow(q[k], "none")]
  BY <1>1, <1>2, <1>5 DEF ActiveRows
<1>10. \A k \in 1..Len(q) : TaskRow(q[k], "none") \in LogRows
  BY <1>1, <1>7, <1>8, RowFacts
<1>11. ActiveRows \in Seq(LogRows) /\ Len(ActiveRows) = Len(q)
  BY <1>8, <1>9, <1>10
<1>12. Range(ActiveRows) = {TaskRow(i, "none") : i \in InProgress}
  <2>1. Range(ActiveRows) = {TaskRow(q[k], "none") : k \in 1..Len(q)}
    BY <1>9 DEF Range
  <2>2. InProgress = {q[k] : k \in 1..Len(q)}
    BY <1>8 DEF Range
  <2> QED
    BY <2>1, <2>2
<1>13. Len(ActiveRows) <= MaxTasks /\ Len(ArchiveRows) <= MaxTasks
  <2>1. ArchiveRight
    BY ArchiveFacts
  <2> QED
    BY <1>1, <1>6, <1>8, <1>11, <2>1, BackupFacts DEF ArchiveRight
<1>14. TaskList("", MaxTasks, "archive") = ArchiveRows
  BY <1>13 DEF TaskList
<1>15. TaskList("", MaxTasks, "active") = ActiveRows
  BY <1>13 DEF TaskList
<1> QED
  BY <1>11, <1>12, <1>14, <1>15

\* The first run of a list is the first row of the list filtered for runs.
LEMMA FilterFirst ==
  ASSUME BackupInv
  PROVE  LastShownByFilter = LastShown
<1>1. PICK joined : joined = ArchiveRows
  OBVIOUS
<1>2. joined \in Seq(LogRows)
  BY <1>1, ArchiveFacts DEF ArchiveRight
<1>3. PICK q : q = Runs(joined)
  OBVIOUS
<1>4. q \in Seq(LogRows \cap OfType("vzdump")) /\ q = Only(joined, OfType("vzdump"))
  BY <1>2, <1>3, OnlyKeeps DEF Runs
<1>5. PICK l : l = TaskList("vzdump", 1, "archive")
  OBVIOUS
<1>6. l = IF Len(q) <= 1 THEN q ELSE SubSeq(q, 1, 1)
  BY <1>1, <1>4, <1>5 DEF TaskList
<1>7. l \in Seq(OfType("vzdump")) /\ (l = << >> <=> q = << >>) /\ (q # << >> => Head(l) = Head(q))
  <2>1. q \in Seq(OfType("vzdump")) /\ Len(q) \in Nat
    BY <1>4
  <2>2. CASE Len(q) <= 1
    BY <1>6, <2>1, <2>2
  <2>3. CASE Len(q) > 1
    <3>1. l = SubSeq(q, 1, 1) /\ 1 \in 1..Len(q)
      BY <1>6, <2>1, <2>3
    <3>2. l \in Seq(OfType("vzdump")) /\ Len(l) = 1 /\ l[1] = q[1]
      BY <2>1, <3>1, SubSeqProperties
    <3>3. l # << >> /\ q # << >>
      <4>1. Len(<< >>) = 0
        OBVIOUS
      <4> QED
        BY <2>3, <3>2, <4>1
    <3>4. Head(l) = l[1] /\ Head(q) = q[1]
      BY <2>1, <3>2, <3>3
    <3> QED
      BY <3>2, <3>3, <3>4
  <2> QED
    BY <2>1, <2>2, <2>3
<1>8. Runs(l) = l
  BY <1>7, OnlyAll DEF Runs
<1>9. LastShown = LastBackup(joined) /\ LastShownByFilter = LastBackup(l)
  BY <1>1, <1>5, ListsWhole DEF LastShown, LastShownByFilter
<1> QED
  BY <1>3, <1>7, <1>8, <1>9 DEF LastBackup

\* A backup is shown as running while one holds the lock.
LEMMA ShownAsRunning ==
  BackupInv => (RunningBackup(TaskList("", MaxTasks, "active")) = NoBackupRun <=> holder = NoTask)
<1> SUFFICES ASSUME BackupInv
             PROVE  RunningBackup(TaskList("", MaxTasks, "active")) = NoBackupRun <=> holder = NoTask
  OBVIOUS
<1>1. PICK joined : joined = ActiveRows
  OBVIOUS
<1>2. joined \in Seq(LogRows) /\ TaskList("", MaxTasks, "active") = joined
      /\ Range(joined) = {TaskRow(i, "none") : i \in InProgress}
  BY <1>1, ListsWhole
<1>3. PICK q : q = Runs(joined)
  OBVIOUS
<1>4. q \in Seq(LogRows \cap OfType("vzdump")) /\ Range(q) = Range(joined) \cap OfType("vzdump")
  BY <1>2, <1>3, OnlyKeeps DEF Runs
<1>5. InProgress \subseteq 1..Len(started)
  BY DEF InProgress
<1>6. q = << >> <=> \A i \in InProgress : ~IsBackup(i)
  <2>1. q = << >> <=> Range(q) = {}
    BY <1>4 DEF Range
  <2>2. \A i \in InProgress : TaskRow(i, "none") \in OfType("vzdump") <=> IsBackup(i)
    BY <1>5, RowFacts
  <2>3. Range(q) = {TaskRow(i, "none") : i \in InProgress} \cap OfType("vzdump")
    BY <1>2, <1>4
  <2> QED
    BY <2>1, <2>2, <2>3
<1>7. q = << >> <=> holder = NoTask
  BY <1>6 DEF BackupInv, BackupTypeOK
<1>8. CASE q = << >>
  BY <1>2, <1>3, <1>7, <1>8 DEF RunningBackup
<1>9. CASE q # << >>
  <2>1. PICK row : row = Head(q)
    OBVIOUS
  <2>2. row \in Range(q)
    BY <1>4, <1>9, <2>1 DEF Range
  <2>3. PICK i \in InProgress : row = TaskRow(i, "none")
    BY <1>2, <1>4, <2>2
  <2>4. row.task # NoTask
    BY <1>5, <2>3, RowFacts DEF NoTask
  <2>5. RunningBackup(joined) = [task |-> row.task, guests |-> GuestsOf(row)]
    BY <1>3, <1>9, <2>1 DEF RunningBackup
  <2>6. RunningBackup(joined) # NoBackupRun
    <3>1. RunningBackup(joined).task # NoBackupRun.task
      BY <2>4, <2>5 DEF NoBackupRun
    <3> QED
      BY <3>1
  <2> QED
    BY <1>2, <1>7, <1>9, <2>6
<1> QED
  BY <1>8, <1>9

\* A backup that ends is the last one; nothing else changes which that is.
LEMMA EndIsShown ==
  ASSUME BackupInv, BackupInv', NEW i \in InProgress, NEW v \in TaskVerdicts, UNCHANGED started,
         finished' = Append(finished, [task |-> i, verdict |-> v])
  PROVE  IF IsBackup(i) THEN /\ LastShown'.task = i
                             /\ LastShown'.ok = IF v = "OK" THEN "yes" ELSE "no"
                        ELSE LastShown' = LastShown
<1>1. PICK row : row = TaskRow(i, v)
  OBVIOUS
<1>2. /\ row \in LogRows /\ row.task = i /\ row.status = v
      /\ row \in OfType("vzdump") <=> IsBackup(i)
  BY <1>1, RowFacts DEF InProgress
<1>3. PICK joined : joined = ArchiveRows
  OBVIOUS
<1>4. joined \in Seq(LogRows) /\ ArchiveRows' = Cat(<<row>>, joined)
  BY <1>1, <1>3, ArchiveFacts, ArchiveGrows DEF ArchiveRight
<1>5. PICK q : q = Runs(joined)
  OBVIOUS
<1>6. q \in Seq(LogRows) /\ q = Only(joined, OfType("vzdump"))
  <2>1. q \in Seq(LogRows \cap OfType("vzdump"))
    BY <1>4, <1>5, OnlyKeeps DEF Runs
  <2> QED
    BY <1>5, <2>1 DEF Runs
<1>7. PICK one : one = <<row>>
  OBVIOUS
<1>8. one \in Seq(LogRows)
  BY <1>2, <1>7
<1>9. Only(one, OfType("vzdump")) = IF IsBackup(i) THEN <<row>> ELSE << >>
  BY <1>2, <1>7, OnlyOne
<1>10. Runs(Cat(one, joined)) = Cat(Only(one, OfType("vzdump")), q)
  <2>1. \A S : Only(Cat(one, joined), S) = Cat(Only(one, S), Only(joined, S))
    BY <1>4, <1>8, OnlyCat
  <2> QED
    BY <1>6, <2>1 DEF Runs
<1>11. Runs(ArchiveRows') = IF IsBackup(i) THEN Cat(<<row>>, q) ELSE q
  <2>1. Cat(<< >>, q) = q
    BY <1>6, CatEmpty
  <2> QED
    BY <1>4, <1>7, <1>9, <1>10, <2>1
<1>12. LastShown = LastBackup(joined) /\ LastShown' = LastBackup(ArchiveRows')
  <2>1. LastShown = LastBackup(joined)
    BY <1>3, ListsWhole DEF LastShown
  <2>2. BackupInv => TaskList("", MaxTasks, "archive") = ArchiveRows
    BY ListsWhole
  <2>3. (TaskList("", MaxTasks, "archive") = ArchiveRows)'
    BY ListsWhole, PTL
  <2> QED
    BY <2>1, <2>3 DEF LastShown, LastBackup
<1>13. CASE ~IsBackup(i)
  BY <1>5, <1>11, <1>12, <1>13 DEF LastBackup
<1>14. CASE IsBackup(i)
  <2>1. PICK p : p = Cat(one, q)
    OBVIOUS
  <2>2. p # << >> /\ Head(p) = row
    <3>1. one # << >> /\ Head(one) = row
      BY <1>7
    <3> QED
      BY <1>6, <1>8, <2>1, <3>1, CatHead
  <2> QED
    BY <1>2, <1>7, <1>11, <1>12, <1>14, <2>1, <2>2 DEF LastBackup, TaskVerdicts
<1> QED
  BY <1>13, <1>14

\* A task that begins, and a step that is none, leave the archive alone.
LEMMA ArchiveStays ==
  ASSUME BackupInv, BackupInv', UNCHANGED finished,
         \A i \in 1..Len(started) : started'[i] = started[i]
  PROVE  LastShown' = LastShown
<1>1. PICK n \in Nat : n = Len(finished)
  BY BackupFacts
<1>2. ArchiveRight /\ ArchiveRight'
  BY ArchiveFacts, PTL
<1>3. /\ ArchiveRows \in Seq(LogRows) /\ ArchiveRows' \in Seq(LogRows)
      /\ Len(ArchiveRows) = n /\ Len(ArchiveRows') = n
  BY <1>1, <1>2 DEF ArchiveRight, LogRows, TaskVerdicts
<1>4. ASSUME NEW k \in 1..n PROVE ArchiveRows'[k] = ArchiveRows[k]
  <2>1. (n - k) + 1 \in 1..n
    OBVIOUS
  <2>2. PICK f : f = finished[(n - k) + 1]
    OBVIOUS
  <2>3. f.task \in 1..Len(started)
    BY <1>1, <2>1, <2>2, BackupFacts
  <2>4. TaskRow(f.task, f.verdict)' = TaskRow(f.task, f.verdict)
    BY <2>3 DEF TaskRow
  <2>5. ArchiveRows[k] = TaskRow(f.task, f.verdict)
    BY <1>1, <1>2, <2>2 DEF ArchiveRight
  <2>6. ArchiveRows'[k] = TaskRow(f.task, f.verdict)'
    BY <1>1, <1>2, <2>2 DEF ArchiveRight, TaskRow
  <2> QED
    BY <2>4, <2>5, <2>6
<1>5. ArchiveRows' = ArchiveRows
  BY <1>3, <1>4, SeqEqual
<1>6. TaskList("", MaxTasks, "archive") = ArchiveRows
  BY ListsWhole
<1>7. (TaskList("", MaxTasks, "archive") = ArchiveRows)'
  BY ListsWhole, PTL
<1> QED
  BY <1>5, <1>6, <1>7 DEF LastShown, LastBackup

\* BackupShownIsTheLastOne: for any number of tasks, in whatever order backups
\* get the lock, end or give up, the backup a dashboard shows as last and its
\* verdict change only when a backup ends, and then to that one, filtered for or
\* not; and one is shown as running exactly while one holds the lock.
THEOREM LastBackupIsShown == BackupSpec => BackupShownIsTheLastOne
<1> DEFINE Tells ==
             logVars' # logVars =>
               /\ IF finished' # finished /\ started'[Last(finished').task].type = "vzdump"
                    THEN /\ LastShown'.task = Last(finished').task
                         /\ LastShown'.ok = IF Last(finished').verdict = "OK" THEN "yes" ELSE "no"
                    ELSE LastShown' = LastShown
               /\ LastShownByFilter' = LastShown'
               /\ RunningBackup(TaskList("", MaxTasks, "active"))' = NoBackupRun <=> holder' = NoTask
<1>1. ASSUME BackupInv, BackupInv', [BackupNext]_logVars PROVE [Tells]_logVars
  <2> SUFFICES ASSUME BackupNext PROVE Tells
    BY <1>1
  <2>1. (LastShownByFilter = LastShown)'
    BY <1>1, FilterFirst, PTL
  <2>2. (RunningBackup(TaskList("", MaxTasks, "active")) = NoBackupRun <=> holder = NoTask)'
    BY <1>1, ShownAsRunning, PTL
  <2>3. ASSUME NEW i \in InProgress, NEW v \in TaskVerdicts, UNCHANGED started,
               finished' = Append(finished, [task |-> i, verdict |-> v])
        PROVE  Tells
    <3>1. PICK f : f = [task |-> i, verdict |-> v]
      OBVIOUS
    <3>2. i \in 1..Len(started) /\ f \in [task : 1..Len(started), verdict : TaskVerdicts]
          /\ f.task = i /\ f.verdict = v
      BY <3>1 DEF InProgress
    <3>3. finished \in Seq([task : 1..Len(started), verdict : TaskVerdicts])
      BY <1>1 DEF BackupInv, BackupTypeOK
    <3>4. Last(finished') = f /\ finished' # finished
      <4>1. PICK A : A = [task : 1..Len(started), verdict : TaskVerdicts]
        OBVIOUS
      <4>2. f \in A /\ finished \in Seq(A) /\ finished' = Append(finished, f)
        BY <2>3, <3>1, <3>2, <3>3, <4>1
      <4>3. Len(finished') = Len(finished) + 1 /\ Len(finished) \in Nat
            /\ finished'[Len(finished) + 1] = f
        BY <4>2
      <4> QED
        BY <4>3 DEF Last
    <3>5. IF IsBackup(i) THEN /\ LastShown'.task = i
                             /\ LastShown'.ok = IF v = "OK" THEN "yes" ELSE "no"
                         ELSE LastShown' = LastShown
      BY <1>1, <2>3, EndIsShown
    <3> HIDE DEF LastShown, LastShownByFilter, RunningBackup, TaskList
    <3> QED
      BY <2>1, <2>2, <2>3, <3>2, <3>4, <3>5 DEF IsBackup
  <2>4. CASE BeginTask
    <3>1. finished' = finished /\ \A i \in 1..Len(started) : started'[i] = started[i]
      <4>1. PICK t \in LoggedTasks : started' = Append(started, t)
        BY <2>4 DEF BeginTask
      <4>2. started \in Seq(LoggedTasks)
        BY <1>1 DEF BackupInv, BackupTypeOK
      <4> QED
        BY <2>4, <4>1, <4>2 DEF BeginTask
    <3>2. LastShown' = LastShown
      BY <1>1, <3>1, ArchiveStays
    <3> QED
      BY <2>1, <2>2, <3>1, <3>2
  <2>5. CASE EndBackup
    <3>1. holder \in InProgress /\ started' = started
      BY <1>1, <2>5 DEF EndBackup, BackupInv, BackupTypeOK
    <3>2. PICK v \in TaskVerdicts : finished' = Append(finished, [task |-> holder, verdict |-> v])
      BY <2>5 DEF EndBackup, Ends
    <3> QED
      BY <2>3, <3>1, <3>2
  <2>6. CASE EndOther
    <3>1. PICK i \in InProgress, v \in TaskVerdicts :
            finished' = Append(finished, [task |-> i, verdict |-> v])
      BY <2>6 DEF EndOther, Ends
    <3> QED
      BY <2>3, <2>6, <3>1 DEF EndOther
  <2>7. CASE GiveUpWaiting
    <3>1. PICK i \in InProgress, v \in TaskVerdicts :
            finished' = Append(finished, [task |-> i, verdict |-> v])
      BY <2>7 DEF GiveUpWaiting, WaitingTasks, TaskVerdicts
    <3> QED
      BY <2>3, <2>7, <3>1 DEF GiveUpWaiting
  <2> QED
    BY <2>4, <2>5, <2>6, <2>7 DEF BackupNext
<1>2. BackupSpec => [][Tells]_logVars
  BY <1>1, AlwaysBackupInv, PTL DEF BackupSpec
<1> QED
  BY <1>2 DEF BackupShownIsTheLastOne

-------------------------------------------------------------------------------
(* What a drive reports.                                                   *)

SmartSpec == SmartInit /\ [][SmartNext]_smart

SmartInv == smart \in [attributes : Seq(Attributes), text : Seq(Lines)]

LEMMA SmartInvNext == SmartInv /\ [SmartNext]_smart => SmartInv'
<1> SUFFICES ASSUME SmartInv, SmartNext PROVE SmartInv'
  BY DEF SmartInv
<1>1. smart.attributes \in Seq(Attributes) /\ smart.text \in Seq(Lines)
  BY DEF SmartInv
<1>2. CASE ReportAttribute
  <2>1. PICK a \in Attributes : smart' = [smart EXCEPT !.attributes = Append(@, a)]
    BY <1>2 DEF ReportAttribute
  <2>2. Append(smart.attributes, a) \in Seq(Attributes)
    BY <1>1
  <2> QED
    BY <2>1, <2>2 DEF SmartInv
<1>3. CASE ReportLine
  <2>1. PICK l \in Lines : smart' = [smart EXCEPT !.text = Append(@, l)]
    BY <1>3 DEF ReportLine
  <2>2. Append(smart.text, l) \in Seq(Lines)
    BY <1>1
  <2> QED
    BY <2>1, <2>2 DEF SmartInv
<1> QED
  BY <1>2, <1>3 DEF SmartNext

\* An attribute without a number, or of an id that is not read, adds nothing.
LEMMA SummaryWith ==
  ASSUME NEW as \in Seq(Attributes), NEW a \in Attributes,
         a.id \notin Wanted \/ Source(a) = NoNumber
  PROVE  Summary(Append(as, a)) = Summary(as)
<1>1. ASSUME NEW id \in Wanted
      PROVE  Only(Append(as, a), Numbered(id)) = Only(as, Numbered(id))
  <2>1. a \notin Numbered(id)
    BY DEF Numbered
  <2> QED
    BY <2>1, OnlyAppend
<1> QED
  BY <1>1 DEF Summary

LEMMA ReadsType ==
  ASSUME NEW l \in KnownLines
  PROVE  Reads(l) \in Attributes /\ (l.figure = NoNumber => Source(Reads(l)) = NoNumber)
<1>1. l.figure \in Readings \cup {NoNumber}
  BY DEF KnownLines
<1>2. IdOf(l.label) \in Ids
  BY DEF IdOf, Ids, Wanted
<1>3. Reads(l) \in Attributes
  BY <1>1, <1>2 DEF Reads, Attributes
<1>4. l.figure = NoNumber => Source(Reads(l)) = NoNumber
  BY DEF Reads, Source
<1> QED
  BY <1>3, <1>4

\* What is read of a text of one line more.
LEMMA FromTextAppend ==
  ASSUME NEW ls \in Seq(Lines), NEW l \in Lines
  PROVE  /\ FromText(ls) \in Seq(Attributes)
         /\ l \notin KnownLines => FromText(Append(ls, l)) = FromText(ls)
         /\ l \in KnownLines => FromText(Append(ls, l)) = Append(FromText(ls), Reads(l))
<1>1. PICK known : known = Only(ls, KnownLines)
  OBVIOUS
<1>2. known \in Seq(KnownLines)
  <2>1. known \in Seq(Lines \cap KnownLines)
    BY <1>1, OnlyKeeps
  <2> QED
    BY <2>1, SeqMono
<1>3. \A k \in 1..Len(known) : known[k] \in KnownLines
  BY <1>2
<1>4. PICK as : as = [k \in 1..Len(known) |-> Reads(known[k])]
  OBVIOUS
<1>5. as \in Seq(Attributes) /\ Len(as) = Len(known)
  <2>1. \A k \in 1..Len(known) : Reads(known[k]) \in Attributes
    BY <1>3, ReadsType
  <2>2. Len(known) \in Nat
    BY <1>2
  <2> QED
    BY <1>4, <2>1, <2>2
<1>6. FromText(ls) = as
  BY <1>1, <1>4 DEF FromText
<1>7. ASSUME l \notin KnownLines PROVE FromText(Append(ls, l)) = FromText(ls)
  <2>1. Only(Append(ls, l), KnownLines) = known
    BY <1>1, <1>7, OnlyAppend
  <2> QED
    BY <1>4, <1>6, <2>1 DEF FromText
<1>8. ASSUME l \in KnownLines PROVE FromText(Append(ls, l)) = Append(as, Reads(l))
  <2>1. PICK more : more = Append(known, l)
    OBVIOUS
  <2>2. Only(Append(ls, l), KnownLines) = more
    BY <1>1, <1>8, <2>1, OnlyAppend
  <2>3. PICK bs : bs = [k \in 1..Len(more) |-> Reads(more[k])]
    OBVIOUS
  <2>4. FromText(Append(ls, l)) = bs
    BY <2>2, <2>3 DEF FromText
  <2>5. more \in Seq(KnownLines) /\ Len(more) = Len(known) + 1 /\ more[Len(known) + 1] = l
        /\ \A k \in 1..Len(known) : more[k] = known[k]
    BY <1>2, <1>8, <2>1, AppendElements DEF Longer
  <2>6. PICK cs : cs = Append(as, Reads(l))
    OBVIOUS
  <2>7. Reads(l) \in Attributes
    BY <1>8, ReadsType
  <2>8. cs \in Seq(Attributes) /\ Len(cs) = Len(known) + 1 /\ cs[Len(known) + 1] = Reads(l)
        /\ \A k \in 1..Len(known) : cs[k] = as[k]
    <3>1. Longer(cs, as, Reads(l)) /\ cs \in Seq(Attributes)
      BY <1>5, <2>6, <2>7, AppendElements
    <3> QED
      BY <1>5, <3>1 DEF Longer
  <2>9. bs \in Seq(Attributes) /\ Len(bs) = Len(known) + 1
    <3>1. \A k \in 1..Len(more) : Reads(more[k]) \in Attributes
      BY <2>5, ReadsType
    <3>2. Len(more) \in Nat
      BY <2>5
    <3> QED
      BY <2>3, <2>5, <3>1, <3>2
  <2>10. ASSUME NEW k \in 1..(Len(known) + 1) PROVE bs[k] = cs[k]
    <3>1. bs[k] = Reads(more[k])
      BY <2>3, <2>5
    <3>2. CASE k \in 1..Len(known)
      BY <1>4, <2>5, <2>8, <3>1, <3>2
    <3>3. CASE k = Len(known) + 1
      BY <2>5, <2>8, <3>1, <3>3
    <3>4. Len(known) \in Nat
      BY <1>2
    <3> QED
      BY <3>2, <3>3, <3>4
  <2>11. bs = cs
    BY <2>8, <2>9, <2>10, SeqEqual
  <2> QED
    BY <2>4, <2>6, <2>11
<1> QED
  BY <1>5, <1>6, <1>7, <1>8

\* What a drive adds that is no reading changes nothing of its summary, in a
\* report of any length.
LEMMA DriveNoise == SmartSpec => DriveNoiseChangesNothing
<1> DEFINE Heard ==
      LET a == Last(smart'.attributes)
          l == Last(smart'.text)
          lineAdded == smart'.attributes = smart.attributes
          noise == smart' # smart /\
                   IF lineAdded
                   THEN \/ smart.attributes # << >>
                        \/ l.figure = NoNumber \/ l.label \in OtherLabels
                   ELSE smart.attributes # << >> /\ (a.id \notin Wanted \/ Source(a) = NoNumber)
      IN noise => SummaryOf(smart') = SummaryOf(smart)
<1>1. ASSUME SmartInv, SmartNext PROVE Heard
  <2>0. PICK as, ls : as = smart.attributes /\ ls = smart.text
    OBVIOUS
  <2>1. as \in Seq(Attributes) /\ ls \in Seq(Lines)
    BY <1>1, <2>0 DEF SmartInv
  <2>2. CASE ReportAttribute
    <3>1. PICK a \in Attributes : smart' = [smart EXCEPT !.attributes = Append(@, a)]
      BY <2>2 DEF ReportAttribute
    <3>2. PICK bs : bs = Append(as, a)
      OBVIOUS
    <3>3. smart'.attributes = bs /\ smart'.text = ls
      BY <1>1, <2>0, <3>1, <3>2 DEF SmartInv
    <3>4. bs # as /\ Last(bs) = a
      <4>1. Append(as, a) # as /\ Last(Append(as, a)) = a
        <5>1. as \in Seq(Attributes) /\ a \in Attributes
          BY <2>1
        <5> QED
          BY <5>1, AppendElements, ZenonT(40)
      <4> QED
        BY <3>2, <4>1
    <3>5. bs # << >>
      <4>1. Append(as, a) # << >>
        BY <2>1, AppendElements
      <4> QED
        BY <3>2, <4>1
    <3> SUFFICES ASSUME as # << >>, a.id \notin Wanted \/ Source(a) = NoNumber
                 PROVE  SummaryOf(smart') = SummaryOf(smart)
      BY <2>0, <3>3, <3>4
    <3>6. Summary(bs) = Summary(as)
      BY <2>1, <3>2, SummaryWith
    <3> QED
      BY <2>0, <3>3, <3>5, <3>6 DEF SummaryOf
  <2>3. CASE ReportLine
    <3>1. PICK l \in Lines : smart' = [smart EXCEPT !.text = Append(@, l)]
      BY <2>3 DEF ReportLine
    <3>2. PICK ms : ms = Append(ls, l)
      OBVIOUS
    <3>3. smart'.attributes = as /\ smart'.text = ms
      BY <1>1, <2>0, <3>1, <3>2 DEF SmartInv
    <3>4. Last(ms) = l
      BY <2>1, <3>2, AppendElements
    <3> SUFFICES ASSUME as # << >> \/ l.figure = NoNumber \/ l.label \in OtherLabels
                 PROVE  SummaryOf(smart') = SummaryOf(smart)
      BY <2>0, <3>3, <3>4
    <3>5. CASE as # << >>
      BY <2>0, <3>3, <3>5 DEF SummaryOf
    <3>6. CASE as = << >>
      <4>1. Summary(FromText(ms)) = Summary(FromText(ls))
        <5>1. CASE l \notin KnownLines
          BY <2>1, <3>2, <5>1, FromTextAppend
        <5>2. CASE l \in KnownLines
          <6>1. l.label \notin OtherLabels
            BY <5>2 DEF KnownLines, KnownLabels, OtherLabels
          <6>2. Reads(l) \in Attributes /\ Source(Reads(l)) = NoNumber
            BY <3>6, <5>2, <6>1, ReadsType
          <6>3. FromText(ls) \in Seq(Attributes) /\ FromText(ms) = Append(FromText(ls), Reads(l))
            BY <2>1, <3>2, <5>2, FromTextAppend
          <6> QED
            BY <6>2, <6>3, SummaryWith
        <5> QED
          BY <5>1, <5>2
      <4> QED
        BY <2>0, <3>3, <3>6, <4>1 DEF SummaryOf
    <3> QED
      BY <3>5, <3>6
  <2> QED
    BY <1>1, <2>2, <2>3 DEF SmartNext
<1>2. SmartInit => SmartInv
  BY EmptySeq DEF SmartInit, SmartInv
<1>3. SmartSpec => []SmartInv
  BY <1>2, SmartInvNext, PTL DEF SmartSpec
<1>4. SmartSpec => [][Heard]_smart
  <2> HIDE DEF Heard
  <2> QED
    BY <1>1, <1>3, PTL DEF SmartSpec
<1> QED
  BY <1>4 DEF DriveNoiseChangesNothing

-------------------------------------------------------------------------------
(* The lists a node or a guest answers with.                               *)

ReportsSpec == ReportsInit /\ [][ReportsNext]_listVars

Kinds == {"certificates", "checks", "snapshots", "ports"}
AllEntries(what) == ListEntries(what) \cup {Current}
Named(what, n) == {e \in AllEntries(what) : e.name = n}

\* A name is listed once, save for ports.
ReportsInv ==
    /\ about \in Kinds
    /\ listing \in Seq(AllEntries(about))
    /\ about # "ports" => \A n : Len(Only(listing, Named(about, n))) <= 1

\* A figure is one of what counts.
LEMMA FigureOfCounted ==
  ASSUME NEW what \in Kinds, NEW A, NEW list \in Seq(A)
  PROVE  FigureOf(what, list) = FigureOf(what, Only(list, Counts(what)))
<1>1. ASSUME NEW S, NEW T, T \subseteq S
      PROVE  Only(Only(list, S), T) = Only(list, T)
  <2>1. S \cap T = T
    BY <1>1
  <2>2. Only(Only(list, S), T) = Only(list, S \cap T)
    BY OnlyOnly
  <2> QED
    BY <2>1, <2>2
<1>2. CASE what = "certificates"
  <2>1. PICK S : S = Certificates({"pveproxy-ssl.pem", "pve-ssl.pem"})
    OBVIOUS
  <2>2. Counts(what) = S
    BY <1>2, <2>1 DEF Counts
  <2>3. PICK C, D : C = Certificates({Preference[1]}) /\ D = Certificates({Preference[2]})
    OBVIOUS
  <2>4. Preference[1] = "pveproxy-ssl.pem" /\ Preference[2] = "pve-ssl.pem"
    BY DEF Preference
  <2>5. C \subseteq S /\ D \subseteq S
    BY <2>1, <2>3, <2>4 DEF Certificates
  <2>6. Only(Only(list, S), C) = Only(list, C) /\ Only(Only(list, S), D) = Only(list, D)
    BY <1>1, <2>5
  <2>7. Serving(Only(list, S)) = Serving(list)
    BY <2>3, <2>6 DEF Serving
  <2> QED
    BY <1>2, <2>2, <2>7 DEF FigureOf
<1>3. CASE what = "checks"
  <2>1. PICK S : S = {e \in ListEntries("checks") : e.wanted}
    OBVIOUS
  <2>2. Counts(what) = S
    BY <1>3, <2>1 DEF Counts
  <2>3. Only(Only(list, S), S) = Only(list, S)
    BY <1>1
  <2>4. CephChecks(Only(list, S)) = CephChecks(list)
    BY <2>1, <2>3 DEF CephChecks
  <2> QED
    BY <1>3, <2>2, <2>4 DEF FigureOf
<1>4. CASE what = "snapshots"
  <2>1. PICK S : S = ListEntries("snapshots")
    OBVIOUS
  <2>2. Counts(what) = S
    BY <1>4, <2>1 DEF Counts
  <2>3. Only(Only(list, S), S) = Only(list, S)
    BY <1>1
  <2>4. SnapshotsTaken(Only(list, S)) = SnapshotsTaken(list)
    BY <2>1, <2>3 DEF SnapshotsTaken
  <2> QED
    BY <1>4, <2>2, <2>4 DEF FigureOf
<1>5. CASE what = "ports"
  <2>1. PICK S : S = WithMac
    OBVIOUS
  <2>2. Counts(what) = S
    BY <1>5, <2>1 DEF Counts
  <2>3. Only(Only(list, S), S) = Only(list, S)
    BY <1>1
  <2>4. MacAddresses(Only(list, S)) = MacAddresses(list)
    BY <2>1, <2>3 DEF MacAddresses
  <2> QED
    BY <1>5, <2>2, <2>4 DEF FigureOf
<1> QED
  BY <1>2, <1>3, <1>4, <1>5 DEF Kinds

\* A list of at most one element of a kind is the same from behind.
LEMMA OnceFromBehind ==
  ASSUME NEW A, NEW list \in Seq(A), NEW S, Len(Only(list, S)) <= 1
  PROVE  Only(Reverse(list), S) = Only(list, S)
<1>1. PICK o, r : o = Only(list, S) /\ r = Only(Reverse(list), S)
  OBVIOUS
<1>2. Reverse(list) \in Seq(A) /\ Range(Reverse(list)) = Range(list)
  BY ReverseElements
<1>3. o \in Seq(A \cap S) /\ Range(o) = Range(list) \cap S
  BY <1>1, OnlyKeeps
<1>4. r \in Seq(A \cap S) /\ Range(r) = Range(list) \cap S
  BY <1>1, <1>2, OnlyKeeps
<1>5. Len(r) = Len(o) /\ Len(o) <= 1
  BY <1>1, OnlyReversed
<1>6. ASSUME NEW k \in 1..Len(o) PROVE o[k] = r[k]
  <2>1. k = 1 /\ Len(o) = 1
    BY <1>3, <1>5
  <2>2. Range(o) = {o[1]} /\ Range(r) = {r[1]}
    BY <1>3, <1>4, <1>5, <2>1 DEF Range
  <2> QED
    BY <1>3, <1>4, <2>1, <2>2
<1>7. o = r
  BY <1>3, <1>4, <1>5, <1>6, SeqEqual
<1> QED
  BY <1>1, <1>7

\* The certificate that serves.
LEMMA ServingFacts ==
  ASSUME NEW list \in Seq(AllEntries("certificates")),
         \A n : Len(Only(list, Named("certificates", n))) <= 1
  PROVE  LET S == Counts("certificates") IN
         /\ Range(Serving(list)) \subseteq Range(Only(list, S))
         /\ Serving(list) = << >> <=> Range(Only(list, S)) = {}
         /\ Serving(Reverse(list)) = Serving(list)
<1>1. PICK A : A = AllEntries("certificates")
  OBVIOUS
<1>2. PICK C, D : C = Certificates({Preference[1]}) /\ D = Certificates({Preference[2]})
  OBVIOUS
<1>3. Preference[1] = "pveproxy-ssl.pem" /\ Preference[2] = "pve-ssl.pem"
  BY DEF Preference
<1>4. PICK S : S = Counts("certificates")
  OBVIOUS
<1>5. C \cup D = S
  BY <1>2, <1>3, <1>4 DEF Certificates, Counts
<1>6. C = Named("certificates", Preference[1]) /\ D = Named("certificates", Preference[2])
  BY <1>2, <1>3 DEF Certificates, Named, AllEntries, Current
<1>7. Len(Only(list, C)) <= 1 /\ Len(Only(list, D)) <= 1
  BY <1>6
<1>8. PICK c, d : c = Only(list, C) /\ d = Only(list, D)
  OBVIOUS
<1>9. Only(Reverse(list), C) = c /\ Only(Reverse(list), D) = d
  BY <1>7, <1>8, OnceFromBehind
<1>10. Serving(Reverse(list)) = Serving(list)
  BY <1>2, <1>8, <1>9 DEF Serving
<1>11. list \in Seq(A)
  BY <1>1
<1>12. c \in Seq(A \cap C) /\ Range(c) = Range(list) \cap C
  BY <1>8, <1>11, OnlyKeeps
<1>13. d \in Seq(A \cap D) /\ Range(d) = Range(list) \cap D
  BY <1>8, <1>11, OnlyKeeps
<1>14. Range(Only(list, S)) = Range(list) \cap S
  BY <1>11, OnlyKeeps
<1>15. Range(Only(list, S)) = Range(c) \cup Range(d)
  BY <1>5, <1>12, <1>13, <1>14
<1>16. ASSUME NEW B, NEW s \in Seq(B)
       PROVE  /\ s # << >> => First(s) = <<Head(s)>> /\ Head(s) \in Range(s)
              /\ s = << >> => First(s) = << >> /\ Range(s) = {}
  BY DEF First, Range
<1>17. Serving(list) = First(IF c # << >> THEN c ELSE d)
  BY <1>2, <1>8 DEF Serving
<1>18. ASSUME NEW x PROVE Range(<<x>>) = {x} /\ <<x>> # << >>
  BY DEF Range
<1>19. Range(<< >>) = {}
  BY DEF Range
<1>20. /\ Range(Serving(list)) \subseteq Range(c) \cup Range(d)
       /\ Serving(list) = << >> <=> Range(c) \cup Range(d) = {}
  <2>1. CASE c # << >>
    <3>1. Serving(list) = <<Head(c)>> /\ Head(c) \in Range(c)
      BY <1>12, <1>16, <1>17, <2>1
    <3> QED
      BY <1>18, <3>1
  <2>2. CASE c = << >> /\ d # << >>
    <3>1. Serving(list) = <<Head(d)>> /\ Head(d) \in Range(d)
      BY <1>13, <1>16, <1>17, <2>2
    <3> QED
      BY <1>18, <3>1
  <2>3. CASE c = << >> /\ d = << >>
    <3>1. Serving(list) = << >> /\ Range(c) = {} /\ Range(d) = {}
      BY <1>12, <1>13, <1>16, <1>17, <2>3
    <3> QED
      BY <1>19, <3>1
  <2> QED
    BY <2>1, <2>2, <2>3
<1> QED
  BY <1>4, <1>10, <1>15, <1>20

\* Each name once, and all of them.
LEMMA OnceEachNames ==
  ASSUME NEW A, NEW found \in Seq(A)
  PROVE  {e.name : e \in Range(OnceEach(found))} = {e.name : e \in Range(found)}
<1>1. PICK n \in Nat : n = Len(found)
  OBVIOUS
<1>2. DOMAIN found = 1..n /\ \A k \in 1..n : found[k] \in A
  BY <1>1
<1> DEFINE known(k) == \E j \in 1..(k - 1) : found[j].name = found[k].name
<1>3. PICK ls : ls = [k \in 1..n |-> IF known(k) THEN << >> ELSE <<found[k]>>]
  OBVIOUS
<1>4. OnceEach(found) = Flat(ls)
  BY <1>1, <1>3 DEF OnceEach
<1> HIDE DEF known
<1>5. ls \in Seq(Seq(A)) /\ Len(ls) = n
  <2>1. ASSUME NEW k \in 1..n PROVE (IF known(k) THEN << >> ELSE <<found[k]>>) \in Seq(A)
    BY <1>2
  <2> QED
    BY <1>3, <2>1
<1>6. ASSUME NEW x PROVE Range(<<x>>) = {x}
  BY DEF Range
<1>7. Range(<< >>) = {}
  BY DEF Range
<1>8. \A k \in 1..n : Range(ls[k]) = IF known(k) THEN {} ELSE {found[k]}
  BY <1>3, <1>6, <1>7
<1>9. \A x : x \in Range(OnceEach(found)) <=> \E k \in 1..n : x \in Range(ls[k])
  BY <1>4, <1>5, FlatRange
<1>10. ASSUME NEW x, x \in Range(OnceEach(found)) PROVE x \in Range(found)
  <2>1. PICK k \in 1..n : x \in Range(ls[k])
    BY <1>9, <1>10
  <2>2. x = found[k]
    BY <1>8, <2>1
  <2> QED
    BY <1>2, <2>2 DEF Range
<1>11. ASSUME NEW x, x \in Range(found) PROVE \E y \in Range(OnceEach(found)) : y.name = x.name
  <2> DEFINE T == {k \in 1..n : found[k].name = x.name}
  <2>1. T \in SUBSET Nat /\ T # {}
    BY <1>2, <1>11 DEF Range
  <2> HIDE DEF T
  <2>2. PICK k \in T : \A j \in T : k <= j
    BY <2>1, Smallest
  <2>3. k \in 1..n /\ found[k].name = x.name
    BY <2>2 DEF T
  <2>4. ~known(k)
    <3> SUFFICES ASSUME known(k) PROVE FALSE
      OBVIOUS
    <3>1. PICK j \in 1..(k - 1) : found[j].name = found[k].name
      BY DEF known
    <3>2. j \in T /\ ~(k <= j)
      BY <2>3, <3>1 DEF T
    <3> QED
      BY <2>2, <3>2
  <2>5. found[k] \in Range(ls[k])
    BY <1>8, <2>3, <2>4
  <2>6. found[k] \in Range(OnceEach(found))
    BY <1>9, <2>3, <2>5
  <2> QED
    BY <2>3, <2>6
<1> QED
  BY <1>10, <1>11

\* The places of a list are its indexes, each once, newer ones first.
LEMMA PlacesAreIndexes ==
  ASSUME NEW taken, NEW n \in Nat, Len(taken) = n, \A i \in 1..n : TakenAt(taken[i]) \in Nat
  PROVE  /\ \A i, j \in 1..n : Place(taken, i) = Place(taken, j) => i = j
         /\ \A k \in 1..n : \E i \in 1..n : Place(taken, i) = k
         /\ \A i, j \in 1..n : Place(taken, i) < Place(taken, j) =>
               TakenAt(taken[i]) >= TakenAt(taken[j])
         /\ \A i \in 1..n : Place(taken, i) \in 1..n
<1>1. PICK t : t = [i \in 1..n |-> TakenAt(taken[i])]
  OBVIOUS
<1>2. \A i \in 1..n : t[i] \in Nat /\ t[i] = TakenAt(taken[i])
  BY <1>1
<1> DEFINE Before(i) == {j \in 1..n : Newer(taken, j, i)}
           D == 1..n
<1>3. \A i, j \in D : Newer(taken, i, j) <=> t[i] > t[j] \/ (t[i] = t[j] /\ i < j)
  BY <1>2 DEF Newer
<1>4. ASSUME NEW i \in D, NEW j \in D, i # j PROVE Newer(taken, i, j) \/ Newer(taken, j, i)
  BY <1>2, <1>3, <1>4
<1>5. \A i \in D : ~Newer(taken, i, i)
  BY <1>2, <1>3
<1>6. ASSUME NEW i \in D, NEW j \in D, NEW k \in D, Newer(taken, i, j), Newer(taken, j, k)
      PROVE  Newer(taken, i, k)
  BY <1>2, <1>3, <1>6
<1>7. IsFiniteSet(D) /\ Cardinality(D) = n
  BY FS_Interval
<1>8. \A i \in D : Place(taken, i) = Cardinality(Before(i)) + 1
  BY DEF Place
<1>9. \A i, j \in D : j \in Before(i) <=> Newer(taken, j, i)
  OBVIOUS
<1>10. \A i \in D : Before(i) \in SUBSET D
  OBVIOUS
<1> HIDE DEF Before, D
<1>11. \A i \in D : IsFiniteSet(Before(i)) /\ Cardinality(Before(i)) \in Nat
  BY <1>7, <1>10, FS_Subset, FS_CardinalityType
<1>12. ASSUME NEW i \in D, NEW j \in D, Newer(taken, i, j)
       PROVE  Place(taken, i) < Place(taken, j)
  <2>1. PICK bi, bj : bi = Before(i) /\ bj = Before(j)
    OBVIOUS
  <2>2. bi \in SUBSET bj
    BY <1>6, <1>9, <1>10, <1>12, <2>1
  <2>3. i \in bj /\ i \notin bi
    BY <1>5, <1>9, <1>12, <2>1
  <2>4. IsFiniteSet(bj) /\ Cardinality(bj) \in Nat /\ Cardinality(bi) \in Nat
    BY <1>11, <2>1
  <2>5. Cardinality(bi) <= Cardinality(bj) /\ (Cardinality(bi) = Cardinality(bj) => bi = bj)
    BY <2>2, <2>4, FS_Subset
  <2>6. Cardinality(bi) < Cardinality(bj)
    BY <2>3, <2>4, <2>5
  <2> QED
    BY <1>8, <2>1, <2>4, <2>6
<1>13. ASSUME NEW i \in D PROVE Place(taken, i) \in D
  <2>1. PICK b, c : b = Before(i) /\ c = D \ {i}
    OBVIOUS
  <2>2. b \in SUBSET c
    BY <1>5, <1>9, <1>10, <2>1
  <2>3. IsFiniteSet(c) /\ Cardinality(c) = n - 1
    BY <1>7, <2>1, FS_RemoveElement
  <2>4. Cardinality(b) <= n - 1 /\ Cardinality(b) \in Nat
    BY <1>11, <2>1, <2>2, <2>3, FS_Subset
  <2>5. Place(taken, i) = Cardinality(b) + 1
    BY <1>8, <2>1
  <2> QED
    BY <2>4, <2>5 DEF D
<1>14. ASSUME NEW i \in D, NEW j \in D, Place(taken, i) = Place(taken, j) PROVE i = j
  <2> SUFFICES ASSUME i # j PROVE FALSE
    OBVIOUS
  <2>1. Place(taken, i) \in Nat /\ Place(taken, j) \in Nat
    <3>1. Place(taken, i) \in D /\ Place(taken, j) \in D
      BY <1>13
    <3> QED
      BY <3>1 DEF D
  <2>2. CASE Newer(taken, i, j)
    BY <1>12, <1>14, <2>1, <2>2
  <2>3. CASE Newer(taken, j, i)
    BY <1>12, <1>14, <2>1, <2>3
  <2> QED
    BY <1>4, <2>2, <2>3
<1>15. ASSUME NEW k \in D PROVE \E i \in D : Place(taken, i) = k
  <2>1. PICK f : f = [i \in D |-> Place(taken, i)]
    OBVIOUS
  <2>2. f \in Injection(D, D)
    BY <1>13, <1>14, <2>1 DEF Injection, IsInjective
  <2>3. f \in Surjection(D, D)
    BY <1>7, <2>2, FS_Injection
  <2> QED
    BY <2>1, <2>3 DEF Surjection
<1>16. ASSUME NEW i \in D, NEW j \in D, Place(taken, i) < Place(taken, j)
       PROVE  TakenAt(taken[i]) >= TakenAt(taken[j])
  <2>1. Place(taken, i) \in Nat /\ Place(taken, j) \in Nat
    BY <1>13 DEF D
  <2>2. ~Newer(taken, j, i)
    BY <1>12, <1>16, <2>1
  <2>3. t[i] \in Nat /\ t[j] \in Nat /\ ~(t[j] > t[i])
    BY <1>2, <1>3, <2>2 DEF D
  <2> QED
    BY <1>2, <2>3 DEF D
<1> QED
  BY <1>13, <1>14, <1>15, <1>16 DEF D

\* Nothing is lost by the order, and it is one of time.
LEMMA NewestFirstFacts ==
  ASSUME NEW A, NEW taken \in Seq(A), \A e \in A : TakenAt(e) \in Nat
  PROVE  LET s == NewestFirst(taken) IN
         /\ s \in Seq(A) /\ Range(s) = Range(taken)
         /\ \A i, j \in DOMAIN s : i < j => TakenAt(s[i]) >= TakenAt(s[j])
<1>1. PICK n \in Nat : n = Len(taken)
  OBVIOUS
<1>2. DOMAIN taken = 1..n /\ \A i \in 1..n : taken[i] \in A
  BY <1>1
<1>3. \A i \in 1..n : TakenAt(taken[i]) \in Nat
  BY <1>2
<1>4. PICK p : p = [i \in 1..n |-> Place(taken, i)]
  OBVIOUS
<1>5. /\ \A i, j \in 1..n : p[i] = p[j] => i = j
      /\ \A k \in 1..n : \E i \in 1..n : p[i] = k
      /\ \A i, j \in 1..n : p[i] < p[j] => TakenAt(taken[i]) >= TakenAt(taken[j])
      /\ \A i \in 1..n : p[i] \in 1..n
  <2>1. /\ \A i, j \in 1..n : Place(taken, i) = Place(taken, j) => i = j
        /\ \A k \in 1..n : \E i \in 1..n : Place(taken, i) = k
        /\ \A i, j \in 1..n : Place(taken, i) < Place(taken, j) =>
              TakenAt(taken[i]) >= TakenAt(taken[j])
        /\ \A i \in 1..n : Place(taken, i) \in 1..n
    BY <1>1, <1>3, PlacesAreIndexes
  <2> QED
    BY <1>4, <2>1
<1>6. PICK q : q = [k \in 1..n |-> CHOOSE i \in 1..n : p[i] = k]
  OBVIOUS
<1>7. \A k \in 1..n : q[k] \in 1..n /\ p[q[k]] = k
  BY <1>5, <1>6
<1>8. PICK s : s = NewestFirst(taken)
  OBVIOUS
<1>9. s = [k \in 1..n |-> taken[q[k]]]
  <2>1. ASSUME NEW k \in 1..n
        PROVE  (CHOOSE i \in 1..n : Place(taken, i) = k) = q[k]
    <3>1. \A i \in 1..n : Place(taken, i) = p[i]
      BY <1>4
    <3>2. (CHOOSE i \in 1..n : Place(taken, i) = k) = CHOOSE i \in 1..n : p[i] = k
      BY <3>1
    <3> QED
      BY <1>6, <3>2
  <2>2. PICK c : c = [k \in 1..n |-> CHOOSE i \in 1..n : Place(taken, i) = k]
    OBVIOUS
  <2>3. s = [k \in 1..n |-> taken[c[k]]]
    BY <1>1, <1>8, <2>2 DEF NewestFirst
  <2>4. \A k \in 1..n : c[k] = q[k]
    BY <2>1, <2>2
  <2> QED
    BY <2>3, <2>4
<1>10. s \in Seq(A) /\ DOMAIN s = 1..n
  BY <1>2, <1>7, <1>9
<1>11. ASSUME NEW i \in 1..n PROVE taken[i] \in Range(s)
  <2>1. q[p[i]] = i /\ p[i] \in 1..n
    BY <1>5, <1>7
  <2>2. s[p[i]] = taken[i]
    BY <1>9, <2>1
  <2> QED
    BY <1>10, <2>1, <2>2 DEF Range
<1>12. ASSUME NEW k \in 1..n PROVE s[k] \in Range(taken)
  BY <1>2, <1>7, <1>9 DEF Range
<1>13. Range(s) = Range(taken)
  BY <1>2, <1>10, <1>11, <1>12 DEF Range
<1>14. ASSUME NEW i \in 1..n, NEW j \in 1..n, i < j PROVE TakenAt(s[i]) >= TakenAt(s[j])
  <2>1. q[i] \in 1..n /\ q[j] \in 1..n /\ p[q[i]] < p[q[j]]
    BY <1>7, <1>14
  <2>2. TakenAt(taken[q[i]]) >= TakenAt(taken[q[j]])
    BY <1>5, <2>1
  <2> QED
    BY <1>9, <2>2
<1> QED
  BY <1>8, <1>10, <1>13, <1>14

\* A name that is not listed is listed once when it comes; one less when it goes.
LEMMA ReportsInvNext == ReportsInv /\ [ReportsNext]_listVars => ReportsInv'
<1> SUFFICES ASSUME ReportsInv, ReportsNext PROVE ReportsInv'
  BY DEF ReportsInv, listVars
<1>1. PICK A : A = AllEntries(about)
  OBVIOUS
<1>2. /\ about \in Kinds /\ listing \in Seq(A)
      /\ about # "ports" => \A n : Len(Only(listing, Named(about, n))) <= 1
  BY <1>1 DEF ReportsInv
<1>3. about' = about
  BY DEF ReportsNext, EntryComes, EntryGoes
<1>4. ASSUME NEW p \in Seq(A), NEW q \in Seq(A), NEW e \in A, NEW one, one = <<e>>, NEW S
      PROVE  /\ Len(Only(Cat(p, q), S)) = Len(Only(p, S)) + Len(Only(q, S))
             /\ Len(Only(Cat(Cat(p, one), q), S))
                   = Len(Only(p, S)) + Len(Only(q, S)) + (IF e \in S THEN 1 ELSE 0)
             /\ Len(Only(p, S)) \in Nat /\ Len(Only(q, S)) \in Nat
             /\ Cat(p, q) \in Seq(A) /\ Cat(Cat(p, one), q) \in Seq(A)
  <2>1. one = <<e>>
    BY <1>4
  <2>2. one \in Seq(A)
    BY <2>1
  <2>3. PICK pe : pe = Cat(p, one)
    OBVIOUS
  <2>4. pe \in Seq(A)
    BY <2>2, <2>3, CatType
  <2>5. Cat(p, q) \in Seq(A) /\ Cat(pe, q) \in Seq(A)
    BY <2>4, CatType
  <2>6. PICK op, oq, oe, ope : /\ op = Only(p, S) /\ oq = Only(q, S)
                               /\ oe = Only(one, S) /\ ope = Only(pe, S)
    OBVIOUS
  <2>7. op \in Seq(A) /\ oq \in Seq(A) /\ oe \in Seq(A)
    BY <2>2, <2>6, OnlyType
  <2>8. Only(Cat(p, q), S) = Cat(op, oq)
    BY <2>6, OnlyCat
  <2>9. ope = Cat(op, oe)
    BY <2>2, <2>3, <2>6, OnlyCat
  <2>10. Only(Cat(pe, q), S) = Cat(ope, oq)
    BY <2>4, <2>6, OnlyCat
  <2>11. ope \in Seq(A) /\ Len(ope) = Len(op) + Len(oe)
    BY <2>7, <2>9, CatType
  <2>12. Len(Cat(op, oq)) = Len(op) + Len(oq)
    BY <2>7, CatType
  <2>13. Len(Cat(ope, oq)) = Len(ope) + Len(oq)
    BY <2>7, <2>11, CatType
  <2>14. Len(oe) = IF e \in S THEN 1 ELSE 0
    <3>1. oe = IF e \in S THEN <<e>> ELSE << >>
      BY <2>1, <2>6, OnlyOne
    <3> QED
      BY <3>1
  <2>15. Len(op) \in Nat /\ Len(oq) \in Nat
    BY <2>7
  <2>16. Len(Only(Cat(p, q), S)) = Len(op) + Len(oq)
    BY <2>8, <2>12
  <2>17. Len(Only(Cat(pe, q), S)) = Len(op) + Len(oq) + (IF e \in S THEN 1 ELSE 0)
    <3>1. Len(Cat(ope, oq)) = (Len(op) + Len(oe)) + Len(oq)
      BY <2>11, <2>13
    <3>2. Len(oe) \in Nat
      BY <2>7
    <3>3. Len(Cat(ope, oq)) = Len(op) + Len(oq) + Len(oe)
      BY <2>15, <3>1, <3>2
    <3> QED
      BY <2>10, <2>14, <3>3
  <2> QED
    BY <2>3, <2>5, <2>6, <2>15, <2>16, <2>17
<1>5. ASSUME NEW list, list = listing', list \in Seq(A),
             about # "ports" => \A n : Len(Only(list, Named(about, n))) <= 1
      PROVE  ReportsInv'
  BY <1>1, <1>2, <1>3, <1>5 DEF ReportsInv, AllEntries, ListEntries, Named
<1>6. CASE EntryComes
  <2>1. PICK e \in ListEntries(about) :
          /\ about = "ports" \/ \A f \in Range(listing) : f.name # e.name
          /\ \E i \in 1..(Len(listing) + 1) : listing' = InsertAt(listing, i, e)
    BY <1>6 DEF EntryComes
  <2>2. PICK i \in 1..(Len(listing) + 1) : listing' = InsertAt(listing, i, e)
    BY <2>1
  <2>3. e \in A
    BY <1>1 DEF AllEntries
  <2>4. PICK p, q \in Seq(A) : listing = Cat(p, q) /\ InsertAt(listing, i, e) = Cat(Cat(p, <<e>>), q)
                               /\ Len(p) = i - 1
    BY <1>2, <2>3, InsertSplits
  <2>4a. PICK one : one = <<e>>
    OBVIOUS
  <2>5. PICK list : list = Cat(Cat(p, one), q)
    OBVIOUS
  <2>6. list \in Seq(A) /\ list = listing'
    <3>1. list \in Seq(A)
      BY <1>4, <2>3, <2>5, <2>4a
    <3> QED
      BY <2>2, <2>4, <2>5, <2>4a, <3>1
  <2>7. ASSUME about # "ports", NEW n PROVE Len(Only(list, Named(about, n))) <= 1
    <3>1. PICK S : S = Named(about, n)
      OBVIOUS
    <3>2. /\ Len(Only(listing, S)) = Len(Only(p, S)) + Len(Only(q, S))
          /\ Len(Only(list, S)) = Len(Only(p, S)) + Len(Only(q, S)) + (IF e \in S THEN 1 ELSE 0)
          /\ Len(Only(p, S)) \in Nat /\ Len(Only(q, S)) \in Nat
      <4>1. listing = Cat(p, q)
        BY <2>4
      <4>2. /\ Len(Only(Cat(p, q), S)) = Len(Only(p, S)) + Len(Only(q, S))
            /\ Len(Only(Cat(Cat(p, one), q), S))
                  = Len(Only(p, S)) + Len(Only(q, S)) + (IF e \in S THEN 1 ELSE 0)
            /\ Len(Only(p, S)) \in Nat /\ Len(Only(q, S)) \in Nat
        BY <1>4, <2>3, <2>4a
      <4> QED
        BY <2>5, <4>1, <4>2
    <3>3. Len(Only(listing, S)) <= 1
      BY <1>2, <2>7, <3>1
    <3>4. e \in S => Len(Only(listing, S)) = 0
      <4> SUFFICES ASSUME e \in S PROVE Len(Only(listing, S)) = 0
        OBVIOUS
      <4>1. \A f \in Range(listing) : f \notin S
        BY <2>1, <2>7, <3>1 DEF Named
      <4>2. PICK o : o = Only(listing, S)
        OBVIOUS
      <4>3. o \in Seq(A \cap S) /\ Range(o) = Range(listing) \cap S
        BY <1>2, <4>2, OnlyKeeps
      <4>4. Range(o) = {}
        BY <4>1, <4>3
      <4>5. Len(o) = 0
        BY <4>3, <4>4 DEF Range
      <4> QED
        BY <4>2, <4>5
    <3>5. Len(Only(list, S)) <= 1
      BY <3>2, <3>3, <3>4
    <3> QED
      BY <3>1, <3>5
  <2> QED
    BY <1>5, <2>6, <2>7
<1>7. CASE EntryGoes
  <2>1. PICK i \in 1..Len(listing) : listing' = RemoveAt(listing, i)
    BY <1>7 DEF EntryGoes
  <2>2. PICK p, q \in Seq(A) : Parts(listing, i, p, q)
    BY <1>2, Split
  <2>3. PICK e : e = listing[i]
    OBVIOUS
  <2>4. e \in A
    BY <1>2, <2>3, ElementOfSeq
  <2>4a. PICK one : one = <<e>>
    OBVIOUS
  <2>5. listing = Cat(Cat(p, one), q) /\ listing' = Cat(p, q)
    BY <2>1, <2>2, <2>3, <2>4a DEF Parts
  <2>6. PICK list : list = Cat(p, q)
    OBVIOUS
  <2>7. list \in Seq(A) /\ list = listing'
    BY <1>4, <2>4, <2>5, <2>6, <2>4a
  <2>8. ASSUME about # "ports", NEW n PROVE Len(Only(list, Named(about, n))) <= 1
    <3>1. PICK S : S = Named(about, n)
      OBVIOUS
    <3>2. /\ Len(Only(list, S)) = Len(Only(p, S)) + Len(Only(q, S))
          /\ Len(Only(listing, S)) = Len(Only(p, S)) + Len(Only(q, S)) + (IF e \in S THEN 1 ELSE 0)
          /\ Len(Only(p, S)) \in Nat /\ Len(Only(q, S)) \in Nat
      BY <1>4, <2>4, <2>5, <2>6, <2>4a
    <3>3. Len(Only(listing, S)) <= 1
      BY <1>2, <2>8, <3>1
    <3>4. Len(Only(list, S)) <= 1
      BY <3>2, <3>3
    <3> QED
      BY <3>1, <3>4
  <2> QED
    BY <1>5, <2>7, <2>8
<1> QED
  BY <1>6, <1>7 DEF ReportsNext

LEMMA ReportsInvInit == ReportsInit => ReportsInv
<1> SUFFICES ASSUME ReportsInit PROVE ReportsInv
  OBVIOUS
<1>1. about \in Kinds
  BY DEF ReportsInit, Names, Kinds
<1>2. CASE listing = << >>
  <2>1. \A S : Only(listing, S) = << >>
    BY <1>2, OnlyEmpty
  <2>2. Len(<< >>) = 0 /\ listing \in Seq(AllEntries(about))
    BY <1>2
  <2> QED
    BY <1>1, <2>1, <2>2 DEF ReportsInv
<1>3. CASE listing = <<Current>>
  <2>1. Current \in AllEntries(about)
    BY DEF AllEntries
  <2>2. listing \in Seq(AllEntries(about))
    BY <1>3, <2>1
  <2>3. ASSUME NEW S PROVE Len(Only(listing, S)) <= 1
    <3>1. Only(listing, S) = IF Current \in S THEN <<Current>> ELSE << >>
      BY <1>3, OnlyOne
    <3> QED
      BY <3>1
  <2> QED
    BY <1>1, <2>2, <2>3 DEF ReportsInv
<1> QED
  BY <1>2, <1>3 DEF ReportsInit

\* What holds of one answer.
Shows(what, list) ==
    LET figure == FigureOf(what, list)
        meant == Range(Only(list, Counts(what))) IN
    /\ IF what = "certificates"
       THEN /\ Range(figure) \subseteq meant
            /\ figure = << >> <=> meant = {}
            /\ Serving(Reverse(list)) = figure
       ELSE {e.name : e \in Range(figure)} = {e.name : e \in meant}
    /\ what = "snapshots" =>
          \A i, j \in DOMAIN figure : i < j => figure[i].time >= figure[j].time

LEMMA ShowsWhatIsMeant == ReportsInv => Shows(about, listing)
<1> SUFFICES ASSUME ReportsInv PROVE Shows(about, listing)
  OBVIOUS
<1>1. /\ about \in Kinds /\ listing \in Seq(AllEntries(about))
      /\ about # "ports" => \A n : Len(Only(listing, Named(about, n))) <= 1
  BY DEF ReportsInv
<1>2. CASE about = "certificates"
  <2>1. FigureOf(about, listing) = Serving(listing)
    BY <1>2 DEF FigureOf
  <2> QED
    BY <1>1, <1>2, <2>1, ServingFacts DEF Shows
<1>3. CASE about = "checks"
  <2>1. FigureOf(about, listing) = CephChecks(listing)
    BY <1>3 DEF FigureOf
  <2>2. CephChecks(listing) = Only(listing, Counts(about))
    BY <1>3 DEF CephChecks, Counts
  <2> QED
    BY <1>3, <2>1, <2>2 DEF Shows
<1>4. CASE about = "snapshots"
  <2>1. PICK S : S = ListEntries("snapshots")
    OBVIOUS
  <2>2. PICK taken : taken = Only(listing, S)
    OBVIOUS
  <2>3. FigureOf(about, listing) = NewestFirst(taken) /\ Counts(about) = S
    BY <1>4, <2>1, <2>2 DEF FigureOf, SnapshotsTaken, Counts
  <2>4. taken \in Seq(S)
    <3>1. taken \in Seq(AllEntries(about) \cap S)
      BY <1>1, <2>2, OnlyKeeps
    <3> QED
      BY <3>1, SeqMono
  <2>5. ASSUME NEW e \in S
        PROVE  /\ e.time \in Int /\ TakenAt(e) \in Nat
               /\ TakenAt(e) = IF e.time = -1 THEN 0 ELSE e.time
               /\ e.time = -1 \/ e.time > 0
    <3>1. e.time \in Times \cup {NoNumber}
      BY <2>1 DEF ListEntries
    <3>2. PICK at : at = e.time
      OBVIOUS
    <3>3. at = -1 \/ (at \in Nat /\ at > 0 /\ at # -1)
      <4>1. at \in Times \/ at = -1
        BY <3>1, <3>2 DEF NoNumber
      <4>2. at \in Times => at \in Nat /\ at # 0
        BY NodeReportsAssumption
      <4> QED
        BY <4>1, <4>2
    <3>4. TakenAt(e) = IF at = -1 THEN 0 ELSE at
      BY <3>2 DEF TakenAt, NoNumber
    <3> QED
      BY <3>2, <3>3, <3>4
  <2>6. PICK s : s = NewestFirst(taken)
    OBVIOUS
  <2>7. s \in Seq(S) /\ Range(s) = Range(taken)
        /\ \A i, j \in DOMAIN s : i < j => TakenAt(s[i]) >= TakenAt(s[j])
    BY <2>4, <2>5, <2>6, NewestFirstFacts
  <2>8. ASSUME NEW i \in DOMAIN s, NEW j \in DOMAIN s, i < j PROVE s[i].time >= s[j].time
    <3>1. PICK a, b : a = s[i] /\ b = s[j]
      OBVIOUS
    <3>2. a \in S /\ b \in S /\ TakenAt(a) >= TakenAt(b)
      BY <2>7, <2>8, <3>1
    <3>3. a.time >= b.time
      BY <2>5, <3>2
    <3> QED
      BY <3>1, <3>3
  <2> QED
    BY <1>4, <2>2, <2>3, <2>6, <2>7, <2>8 DEF Shows
<1>5. CASE about = "ports"
  <2>1. PICK found : found = Only(listing, WithMac)
    OBVIOUS
  <2>2. FigureOf(about, listing) = OnceEach(found) /\ Counts(about) = WithMac
    BY <1>5, <2>1 DEF FigureOf, MacAddresses, Counts
  <2>3. found \in Seq(AllEntries(about))
    BY <1>1, <2>1, OnlyType
  <2>4. {e.name : e \in Range(OnceEach(found))} = {e.name : e \in Range(found)}
    BY <2>3, OnceEachNames
  <2> QED
    BY <1>5, <2>1, <2>2, <2>4 DEF Shows
<1> QED
  BY <1>1, <1>2, <1>3, <1>4, <1>5 DEF Kinds

LEMMA ListNoise == ReportsSpec => OnlyWhatIsMeantCounts
<1> DEFINE Told ==
      LET counted(list) == Only(list, Counts(about))
          wanted(list) == Range(counted(list))
          before == FigureOf(about, listing)
          after == FigureOf(about, listing') IN
      listing' # listing =>
      /\ counted(listing) = counted(listing') => after = before
      /\ IF about = "certificates"
         THEN /\ Range(after) \subseteq wanted(listing')
              /\ after = << >> <=> wanted(listing') = {}
              /\ Serving(Reverse(listing')) = after
         ELSE {e.name : e \in Range(after)} = {e.name : e \in wanted(listing')}
      /\ about = "snapshots" =>
            \A i, j \in DOMAIN after : i < j => after[i].time >= after[j].time
<1>1. ReportsInv => Shows(about, listing)
  BY ShowsWhatIsMeant
<1>2. ASSUME ReportsInv, ReportsInv', Shows(about, listing)', ReportsNext PROVE Told
  <2>1. about' = about
    BY <1>2 DEF ReportsNext, EntryComes, EntryGoes
  <2>2. PICK A : A = AllEntries(about)
    OBVIOUS
  <2>3. about \in Kinds /\ listing \in Seq(A) /\ listing' \in Seq(A)
    BY <1>2, <2>1, <2>2 DEF ReportsInv, AllEntries, ListEntries
  <2>4. FigureOf(about, listing) = FigureOf(about, Only(listing, Counts(about)))
    BY <2>3, FigureOfCounted
  <2>5. PICK list : list = listing'
    OBVIOUS
  <2>6. FigureOf(about, list) = FigureOf(about, Only(list, Counts(about)))
    BY <2>3, <2>5, FigureOfCounted
  <2>7. Only(listing, Counts(about)) = Only(list, Counts(about)) =>
          FigureOf(about, list) = FigureOf(about, listing)
    BY <2>4, <2>6
  <2>8. Shows(about', listing')
    BY <1>2 DEF Shows, FigureOf, Counts, Serving, ListEntries, CephChecks, SnapshotsTaken,
                MacAddresses, WithMac, Certificates
  <2>9. Shows(about, list)
    BY <2>1, <2>5, <2>8
  <2> QED
    BY <2>5, <2>7, <2>9 DEF Shows
<1>3. ReportsSpec => []ReportsInv
  BY ReportsInvInit, ReportsInvNext, PTL DEF ReportsSpec
<1>4. ReportsSpec => [][Told]_listVars
  <2> HIDE DEF Told
  <2> QED
    BY <1>1, <1>2, <1>3, PTL DEF ReportsSpec
<1> QED
  BY <1>4, PTL DEF OnlyWhatIsMeantCounts

\* NoiseChangesNothing: for any number of readings, attributes and lines, and for
\* lists of any length, what is noise in a report changes nothing that is shown.
THEOREM NoiseIsNotShown == SmartSpec /\ ReportsSpec => NoiseChangesNothing
  BY DriveNoise, ListNoise, PTL DEF NoiseChangesNothing
===============================================================================
