----------------------------- MODULE DashboardProofs -----------------------------
(***************************************************************************)
(* For any table of permissions, any API schema and any number of callers: *)
(* what a route requires, and whether it is held, is what the cluster will *)
(* decide; a table that passes the tests tells any caller what Proxmox     *)
(* decides; how often a command runs, and what its caller is told of it.   *)
(* Last, the composition: whatever the instance is about, it has its type  *)
(* and all of what is proved of the parts.                                 *)
(***************************************************************************)
EXTENDS MCDashboard, ReportsProofs

-------------------------------------------------------------------------------
(* Rights.                                                                 *)

TableAlternatives == [path : Seq(STRING), privileges : SUBSET STRING, anyOf : BOOLEAN]
TableRoutes == [method : STRING, template : Seq(STRING) \ {<< >>},
                alternatives : Seq(TableAlternatives)]

LEMMA TableFacts ==
  /\ CHECKS \in Seq(TableRoutes) /\ Len(CHECKS) \in Nat
  /\ Range(CHECKS) = {CHECKS[k] : k \in 1..Len(CHECKS)}
  /\ Range(CHECKS) \subseteq TableRoutes
<1>1. CHECKS \in Seq(TableRoutes)
  BY TableAssumption DEF TableRoutes, TableAlternatives
<1>2. Len(CHECKS) \in Nat /\ DOMAIN CHECKS = 1..Len(CHECKS)
        /\ \A k \in 1..Len(CHECKS) : CHECKS[k] \in TableRoutes
  BY <1>1
<1> QED
  BY <1>1, <1>2 DEF Range

LEMMA RouteFacts ==
  ASSUME NEW r \in Range(CHECKS)
  PROVE  /\ r.method \in STRING /\ r.template \in Seq(STRING) /\ Len(r.template) \in Nat \ {0}
         /\ r.alternatives \in Seq(TableAlternatives) /\ Len(r.alternatives) \in Nat
         /\ \A k \in 1..Len(r.alternatives) :
               /\ r.alternatives[k] \in TableAlternatives /\ r.alternatives[k].path \in Seq(STRING)
               /\ Len(r.alternatives[k].path) \in 0..2
<1>1. r \in TableRoutes
  BY TableFacts
<1>2. /\ r.method \in STRING /\ r.template \in Seq(STRING) /\ r.template # << >>
      /\ r.alternatives \in Seq(TableAlternatives)
  BY <1>1 DEF TableRoutes
<1>3. Len(r.template) \in Nat \ {0} /\ Len(r.alternatives) \in Nat
  BY <1>2
<1>4. ASSUME NEW k \in 1..Len(r.alternatives)
      PROVE  /\ r.alternatives[k] \in TableAlternatives /\ r.alternatives[k].path \in Seq(STRING)
             /\ Len(r.alternatives[k].path) \in 0..2
  <2>1. r.alternatives[k] \in TableAlternatives
    BY <1>2
  <2>2. r.alternatives[k].path \in Seq(STRING)
    BY <2>1 DEF TableAlternatives
  <2>3. Len(r.alternatives[k].path) <= 2
    BY TableAssumption
  <2>4. Len(r.alternatives[k].path) \in Nat
    BY <2>2
  <2>5. ASSUME NEW l \in Nat, l <= 2 PROVE l \in 0..2
    BY <2>5
  <2>6. Len(r.alternatives[k].path) \in 0..2
    BY <2>3, <2>4, <2>5, Zenon
  <2> QED
    BY <2>1, <2>2, <2>6
<1> QED
  BY <1>2, <1>3, <1>4

\* A template filled in, as a sequence.
LEMMA FilledFacts ==
  ASSUME NEW t \in Seq(STRING), NEW n, NEW g
  PROVE  /\ DOMAIN Filled(t, n, g) = 1..Len(t) /\ Len(Filled(t, n, g)) = Len(t)
         /\ \A i \in 1..Len(t) :
               Filled(t, n, g)[i] = IF t[i] = "{node}" THEN n
                                    ELSE IF t[i] = "{vmid}" THEN g ELSE t[i]
         /\ n \in STRING /\ g \in STRING => Filled(t, n, g) \in Seq(STRING)
<1> DEFINE f == Filled(t, n, g)
<1>1. Len(t) \in Nat /\ \A i \in 1..Len(t) : t[i] \in STRING
  OBVIOUS
<1>2. DOMAIN f = 1..Len(t) /\ \A i \in 1..Len(t) : f[i] = IF t[i] = "{node}" THEN n
                                    ELSE IF t[i] = "{vmid}" THEN g ELSE t[i]
  BY DEF Filled
<1>3. Len(f) = Len(t)
  BY <1>1, <1>2 DEF Filled
<1>4. ASSUME n \in STRING, g \in STRING PROVE f \in Seq(STRING)
  <2>1. \A i \in 1..Len(t) : (IF t[i] = "{node}" THEN n
                              ELSE IF t[i] = "{vmid}" THEN g ELSE t[i]) \in STRING
    BY <1>1, <1>4
  <2>2. f \in [1..Len(t) -> STRING]
    BY <2>1 DEF Filled
  <2> HIDE DEF f
  <2> QED
    BY <1>1, <2>2
<1> QED
  BY <1>2, <1>3, <1>4

NodeVariable == "{node}"
VariablesOf(t) == {t[i] : i \in {j \in 1..Len(t) : IsVariable(t[j])}}

\* What is put in for the variables is what is read off the path again.
LEMMA FilledIsMatched ==
  ASSUME NEW t \in Seq(STRING), NEW n, NEW g
  PROVE  /\ Matches(t, Filled(t, n, g))
         /\ DOMAIN Filling(t, Filled(t, n, g)) = VariablesOf(t)
<1>1. /\ Len(Filled(t, n, g)) = Len(t)
      /\ \A i \in 1..Len(t) : Filled(t, n, g)[i] = IF t[i] = "{node}" THEN n
                                     ELSE IF t[i] = "{vmid}" THEN g ELSE t[i]
  BY FilledFacts
<1>2. Matches(t, Filled(t, n, g))
  BY <1>1 DEF Matches, IsVariable
<1> QED
  BY <1>2 DEF Filling, VariablesOf

LEMMA FilledIsReadBack ==
  ASSUME NEW t \in Seq(STRING), NEW n, NEW g,
         NEW v, v \in VariablesOf(t)
  PROVE  /\ v = NodeVariable => Filling(t, Filled(t, n, g))[v] = n
         /\ v # NodeVariable => Filling(t, Filled(t, n, g))[v] = g
<1> DEFINE p == Filled(t, n, g)
           at == CHOOSE i \in 1..Len(t) : t[i] = v
<1>1. at \in 1..Len(t) /\ t[at] = v
  BY DEF VariablesOf
<1>2. v = "{node}" \/ v = "{vmid}"
  BY DEF IsVariable, VariablesOf
<1>3. Filling(t, p)[v] = p[at]
  BY DEF Filling, VariablesOf
<1> HIDE DEF at
<1>4. p[at] = IF t[at] = "{node}" THEN n ELSE IF t[at] = "{vmid}" THEN g ELSE t[at]
  BY <1>1 DEF Filled
<1> HIDE DEF p
<1> QED
  BY <1>1, <1>2, <1>3, <1>4 DEF p, NodeVariable

\* A path that matches a template is that template filled in with names of it.
LEMMA MatchedIsFilled ==
  ASSUME NEW r \in Range(CHECKS), NEW p \in Seq(STRING), Matches(r.template, p)
  PROVE  \E n, g \in Range(p) : p = Filled(r.template, n, g)
<1> DEFINE t == r.template
           name(v) == IF \E i \in 1..Len(t) : t[i] = v
                      THEN p[CHOOSE i \in 1..Len(t) : t[i] = v] ELSE p[1]
           n == name("{node}")
           g == name("{vmid}")
<1>1. t \in Seq(STRING) /\ Len(t) \in Nat \ {0} /\ Len(p) = Len(t) /\ DOMAIN p = 1..Len(p)
  BY RouteFacts DEF Matches
<1>2. \A i \in 1..Len(t) : IsVariable(t[i]) \/ t[i] = p[i]
  BY <1>1 DEF Matches
<1>3. \A i, j \in 1..Len(t) : IsVariable(t[i]) /\ t[i] = t[j] => i = j
  BY TableAssumption
<1> HIDE DEF t
<1>4. ASSUME NEW v PROVE name(v) \in Range(p)
  <2>1. CASE \E i \in 1..Len(t) : t[i] = v
    <3>1. (CHOOSE i \in 1..Len(t) : t[i] = v) \in 1..Len(t)
      BY <2>1
    <3> QED
      BY <1>1, <2>1, <3>1 DEF Range
  <2>2. CASE ~ \E i \in 1..Len(t) : t[i] = v
    BY <1>1, <2>2 DEF Range
  <2> QED
    BY <2>1, <2>2
<1>5. ASSUME NEW i \in 1..Len(t), IsVariable(t[i]) PROVE name(t[i]) = p[i]
  <2> DEFINE j == CHOOSE j \in 1..Len(t) : t[j] = t[i]
  <2>1. j \in 1..Len(t) /\ t[j] = t[i]
    OBVIOUS
  <2>2. j = i
    <3> HIDE DEF j
    <3> QED
      BY <1>3, <1>5, <2>1
  <2>3. name(t[i]) = p[j]
    OBVIOUS
  <2> QED
    BY <2>2, <2>3
<1>6. ASSUME NEW i \in 1..Len(t) PROVE p[i] = Filled(t, n, g)[i]
  <2> HIDE DEF n, g
  <2>1. Filled(t, n, g)[i] = IF t[i] = "{node}" THEN n ELSE IF t[i] = "{vmid}" THEN g ELSE t[i]
    BY DEF Filled
  <2>2. CASE t[i] = "{node}"
    <3>1. IsVariable(t[i])
      BY <2>2 DEF IsVariable
    <3>2. name(t[i]) = p[i]
      BY <1>5, <3>1
    <3>3. p[i] = n
      <4> HIDE DEF name
      <4> QED
        BY <2>2, <3>2 DEF n
    <3> QED
      BY <2>1, <2>2, <3>3
  <2>3. CASE t[i] = "{vmid}"
    <3>1. IsVariable(t[i])
      BY <2>3 DEF IsVariable
    <3>2. name(t[i]) = p[i]
      BY <1>5, <3>1
    <3>3. p[i] = g
      <4> HIDE DEF name
      <4> QED
        BY <2>3, <3>2 DEF g
    <3> QED
      BY <2>1, <2>3, <3>3
  <2>4. CASE ~IsVariable(t[i])
    BY <1>2, <2>1, <2>4 DEF IsVariable
  <2> QED
    BY <2>2, <2>3, <2>4 DEF IsVariable
<1>7. p = [i \in 1..Len(t) |-> p[i]]
  BY <1>1
<1>8. Filled(t, n, g) = [i \in 1..Len(t) |-> Filled(t, n, g)[i]]
  BY DEF Filled
<1>9. p = Filled(t, n, g)
  <2> HIDE DEF n, g
  <2> QED
    BY <1>6, <1>7, <1>8
<1>10. n \in Range(p) /\ g \in Range(p)
  BY <1>4
<1> HIDE DEF n, g
<1> QED
  BY <1>9, <1>10 DEF t

FilledAlternatives(r, n, g) ==
  [k \in 1..Len(r.alternatives) |-> [r.alternatives[k] EXCEPT !.path = Filled(@, n, g)]]

\* A path of the check is filled in like the path asked about.
LEMMA PathIsFilled ==
  ASSUME NEW t \in Seq(STRING), NEW path \in Seq(STRING), NEW n, NEW g,
         \A i \in 1..Len(path) : IsVariable(path[i]) => path[i] \in VariablesOf(t)
  PROVE  [i \in 1..Len(path) |-> IF path[i] \in DOMAIN Filling(t, Filled(t, n, g))
                                 THEN Filling(t, Filled(t, n, g))[path[i]] ELSE path[i]]
            = Filled(path, n, g)
<1> DEFINE values == Filling(t, Filled(t, n, g))
<1>1. DOMAIN values = VariablesOf(t)
  BY FilledIsMatched
<1>2. ASSUME NEW v, v \in VariablesOf(t)
      PROVE  (v = NodeVariable => values[v] = n) /\ (v # NodeVariable => values[v] = g)
  BY <1>2, FilledIsReadBack
<1> HIDE DEF values
<1>3. ASSUME NEW i \in 1..Len(path)
      PROVE  (IF path[i] \in DOMAIN values THEN values[path[i]] ELSE path[i])
                = (IF path[i] = "{node}" THEN n ELSE IF path[i] = "{vmid}" THEN g ELSE path[i])
  <2>1. CASE IsVariable(path[i])
    BY <1>1, <1>2, <2>1 DEF IsVariable, NodeVariable
  <2>2. CASE ~IsVariable(path[i])
    <3>1. path[i] \notin VariablesOf(t)
      BY <2>2 DEF VariablesOf
    <3> QED
      BY <1>1, <2>2, <3>1 DEF IsVariable
  <2> QED
    BY <2>1, <2>2
<1> QED
  BY <1>3 DEF Filled, values

\* The check handed back is that of the route, filled in like its path.
LEMMA SubstitutedIsFilled ==
  ASSUME NEW r \in Range(CHECKS), NEW n, NEW g
  PROVE  Substituted(r.alternatives, Filling(r.template, Filled(r.template, n, g)))
            = FilledAlternatives(r, n, g)
<1> DEFINE values == Filling(r.template, Filled(r.template, n, g))
           fill(path) == [i \in 1..Len(path) |-> IF path[i] \in DOMAIN values
                                                 THEN values[path[i]] ELSE path[i]]
<1>1. ASSUME NEW k \in 1..Len(r.alternatives)
      PROVE  fill(r.alternatives[k].path) = Filled(r.alternatives[k].path, n, g)
  <2> DEFINE path == r.alternatives[k].path
             t == r.template
  <2>1. t \in Seq(STRING) /\ path \in Seq(STRING)
    BY RouteFacts
  <2>2. ASSUME NEW i \in 1..Len(path), IsVariable(path[i]) PROVE path[i] \in VariablesOf(t)
    <3>1. path[i] \in Range(t)
      BY <2>2, TableAssumption
    <3> HIDE DEF path, t
    <3>2. PICK j \in 1..Len(t) : t[j] = path[i]
      BY <2>1, <3>1 DEF Range
    <3> QED
      BY <2>2, <3>2 DEF VariablesOf
  <2> HIDE DEF path, t
  <2>3. [i \in 1..Len(path) |-> IF path[i] \in DOMAIN Filling(t, Filled(t, n, g))
                                 THEN Filling(t, Filled(t, n, g))[path[i]] ELSE path[i]]
            = Filled(path, n, g)
    BY <2>1, <2>2, PathIsFilled
  <2> QED
    BY <2>3 DEF path, t
<1>2. Substituted(r.alternatives, values) =
         [k \in 1..Len(r.alternatives) |->
             [r.alternatives[k] EXCEPT !.path = fill(r.alternatives[k].path)]]
  BY DEF Substituted
<1>3. FilledAlternatives(r, n, g) =
         [k \in 1..Len(r.alternatives) |->
             [r.alternatives[k] EXCEPT !.path = Filled(r.alternatives[k].path, n, g)]]
  BY DEF FilledAlternatives
<1> HIDE DEF fill
<1> QED
  BY <1>1, <1>2, <1>3

\* The first of the routes that a path fits.
LEMMA LookupFacts ==
  ASSUME NEW method, NEW p
  PROVE  LET fits == {k \in 1..Len(CHECKS) :
                         CHECKS[k].method = method /\ Matches(CHECKS[k].template, p)} IN
         IF fits = {} THEN PrivilegesFor(method, p) = << >>
         ELSE \E k \in fits : PrivilegesFor(method, p) =
                  Substituted(CHECKS[k].alternatives, Filling(CHECKS[k].template, p))
<1> DEFINE fits == {k \in 1..Len(CHECKS) :
                       CHECKS[k].method = method /\ Matches(CHECKS[k].template, p)}
           i == IF fits # {} THEN Min(fits) ELSE 0
<1>1. PrivilegesFor(method, p) =
         IF i = 0 THEN << >>
         ELSE Substituted(CHECKS[i].alternatives, Filling(CHECKS[i].template, p))
  BY DEF PrivilegesFor, SelectInSeq
<1>2. fits \in SUBSET Nat /\ 0 \notin fits
  BY TableFacts
<1>3. fits # {} => Min(fits) \in fits
  <2> HIDE DEF fits
  <2> QED
    BY <1>2, MinIsSmallest
<1> HIDE DEF fits
<1>4. fits = {} => i = 0
  OBVIOUS
<1>5. fits # {} => i \in fits /\ i # 0
  BY <1>2, <1>3
<1> HIDE DEF i
<1>6. CASE fits = {}
  BY <1>1, <1>4, <1>6 DEF fits
<1>7. CASE fits # {}
  <2>1. \E k \in fits : PrivilegesFor(method, p) =
                  Substituted(CHECKS[k].alternatives, Filling(CHECKS[k].template, p))
    BY <1>1, <1>5, <1>7
  <2> QED
    BY <1>7, <2>1 DEF fits
<1> QED
  BY <1>6, <1>7

\* Any path whatever is found to be of a route it is, or of none.
LEMMA FindsAlways ==
  ASSUME NEW method, NEW p \in Seq(STRING)
  PROVE  Finds(method, p)
<1> DEFINE names == Range(p)
           fits == {c \in Range(CHECKS) \X names \X names :
                       c[1].method = method /\ Filled(c[1].template, c[2], c[3]) = p}
           answers == {[k \in 1..Len(c[1].alternatives) |->
                          [c[1].alternatives[k] EXCEPT !.path = Filled(@, c[2], c[3])]] :
                       c \in fits}
           found == {k \in 1..Len(CHECKS) :
                         CHECKS[k].method = method /\ Matches(CHECKS[k].template, p)}
<1>1. ASSUME NEW c \in fits PROVE \E k \in found : CHECKS[k] = c[1]
  <2>1. c[1] \in Range(CHECKS) /\ c[1].method = method /\ p = Filled(c[1].template, c[2], c[3])
    OBVIOUS
  <2>2. Matches(c[1].template, p)
    BY <2>1, RouteFacts, FilledIsMatched
  <2>3. PICK k \in 1..Len(CHECKS) : CHECKS[k] = c[1]
    BY <2>1, TableFacts
  <2> QED
    BY <2>1, <2>2, <2>3
<1>2. ASSUME NEW k \in found
      PROVE  \E c \in fits : /\ c[1] = CHECKS[k]
                             /\ Substituted(CHECKS[k].alternatives, Filling(CHECKS[k].template, p))
                                   = FilledAlternatives(c[1], c[2], c[3])
  <2>1. CHECKS[k] \in Range(CHECKS)
    BY TableFacts
  <2>2. PICK n, g \in Range(p) : p = Filled(CHECKS[k].template, n, g)
    BY <2>1, MatchedIsFilled
  <2> DEFINE c == <<CHECKS[k], n, g>>
  <2>3. c \in fits
    BY <2>1, <2>2
  <2>4. Substituted(CHECKS[k].alternatives, Filling(CHECKS[k].template, p))
          = FilledAlternatives(CHECKS[k], n, g)
    BY <2>1, <2>2, SubstitutedIsFilled
  <2> HIDE DEF fits
  <2> QED
    BY <2>3, <2>4
<1>3. answers = {FilledAlternatives(c[1], c[2], c[3]) : c \in fits}
  BY DEF FilledAlternatives
<1>4. CASE fits = {}
  <2>1. found = {}
    <3> HIDE DEF fits, found
    <3> QED
      BY <1>2, <1>4
  <2>2. PrivilegesFor(method, p) = << >>
    BY <2>1, LookupFacts
  <2> QED
    BY <1>4, <2>2 DEF Finds
<1>5. CASE fits # {}
  <2>1. found # {}
    <3> HIDE DEF fits, found
    <3> QED
      BY <1>1, <1>5
  <2>2. PICK k \in found : PrivilegesFor(method, p) =
                  Substituted(CHECKS[k].alternatives, Filling(CHECKS[k].template, p))
    BY <2>1, LookupFacts
  <2>3. PrivilegesFor(method, p) \in answers
    <3>1. PICK c \in fits : Substituted(CHECKS[k].alternatives, Filling(CHECKS[k].template, p))
                                   = FilledAlternatives(c[1], c[2], c[3])
      <4> HIDE DEF fits, found
      <4> QED
        BY <1>2
    <3> HIDE DEF fits, answers
    <3> QED
      BY <1>3, <2>2, <3>1
  <2>4. PrivilegesFor(method, p) \in (IF fits = {} THEN {<< >>} ELSE answers)
    <3> HIDE DEF fits, answers
    <3> QED
      BY <1>5, <2>3
  <2> QED
    BY <2>4 DEF Finds
<1> QED
  BY <1>4, <1>5

\* What was asked about is a path.
AskedInv == asked.path \in Seq(STRING)
AskedSpec == AskedInit /\ [][AskedNext]_asked

LEMMA AskedInvInit == AskedInit => AskedInv
  BY DEF AskedInit, AskedInv

LEMMA AskedInvNext == AskedInv /\ [AskedNext]_asked => AskedInv'
<1> SUFFICES ASSUME AskedInv, [AskedNext]_asked PROVE AskedInv'
  OBVIOUS
<1>1. CASE AskRoute
  <2>1. PICK r \in Range(CHECKS), n, g \in Values :
          asked' = [method |-> r.method, path |-> Filled(r.template, n, g), changes |-> 0]
    BY <1>1 DEF AskRoute
  <2>2. n \in STRING /\ g \in STRING /\ r.template \in Seq(STRING)
    BY AccessAssumption, RouteFacts
  <2>3. Filled(r.template, n, g) \in Seq(STRING)
    BY <2>2, FilledFacts
  <2> QED
    BY <2>1, <2>3 DEF AskedInv
<1>2. CASE AskOther
  <2> DEFINE p == asked.path
  <2>1. p \in Seq(STRING) /\ p # << >>
    BY <1>2 DEF AskOther, AskedInv
  <2>2. asked'.path \in {p} \cup {Front(p)} \cup {Append(p, v) : v \in Values}
                         \cup {[p EXCEPT ![i] = v] : i \in 1..Len(p), v \in Values}
    BY <1>2 DEF AskOther
  <2> HIDE DEF p
  <2>3. Front(p) \in Seq(STRING)
    <3>1. Len(p) \in Nat /\ Len(p) >= 1
      BY <2>1
    <3> QED
      BY <2>1, <3>1 DEF Front
  <2>4. ASSUME NEW v \in Values PROVE v \in STRING
    BY AccessAssumption
  <2>5. ASSUME NEW v \in STRING PROVE Append(p, v) \in Seq(STRING)
    BY <2>1, AppendProperties
  <2>6. ASSUME NEW i \in 1..Len(p), NEW v \in STRING PROVE [p EXCEPT ![i] = v] \in Seq(STRING)
    <3> DEFINE q == [p EXCEPT ![i] = v]
    <3>1. Len(p) \in Nat /\ p \in [1..Len(p) -> STRING]
      BY <2>1
    <3>2. q \in [1..Len(p) -> STRING]
      BY <3>1
    <3> HIDE DEF q
    <3>3. q \in Seq(STRING)
      BY <3>1, <3>2
    <3> QED
      BY <3>3 DEF q
  <2>7. asked'.path \in Seq(STRING)
    <3>1. CASE asked'.path = p \/ asked'.path = Front(p)
      BY <2>1, <2>3, <3>1
    <3>2. CASE \E v \in Values : asked'.path = Append(p, v)
      BY <2>4, <2>5, <3>2
    <3>3. CASE \E i \in 1..Len(p), v \in Values : asked'.path = [p EXCEPT ![i] = v]
      <4>1. PICK i \in 1..Len(p), v \in Values : asked'.path = [p EXCEPT ![i] = v]
        BY <3>3
      <4>2. [p EXCEPT ![i] = v] \in Seq(STRING)
        BY <2>4, <2>6
      <4> QED
        BY <4>1, <4>2
    <3> QED
      BY <2>2, <3>1, <3>2, <3>3
  <2> QED
    BY <2>7 DEF AskedInv
<1>3. CASE UNCHANGED asked
  BY <1>3 DEF AskedInv
<1> QED
  BY <1>1, <1>2, <1>3 DEF AskedNext

\* "is not answered with a guess" (privileges_for): whatever path is asked about,
\* the answer is that of a route the path is, and none where it is no route's,
\* for any names of nodes and guests.
THEOREM RoutesFindThemselves == AskedSpec => RouteFindsItself
<1> DEFINE Body == asked' # asked => Finds(asked'.method, asked'.path)
<1>1. AskedInv' => Body
  BY FindsAlways DEF AskedInv
<1>2. AskedInv /\ [AskedNext]_asked => [Body]_asked
  BY <1>1, AskedInvNext
<1> HIDE DEF Body
<1>3. AskedSpec => [][Body]_asked
  BY <1>2, AskedInvInit, AskedInvNext, PTL DEF AskedSpec
<1> QED
  BY <1>3, PTL DEF RouteFindsItself, Body

-------------------------------------------------------------------------------

\* A route is told by its method and template, and by any path it fits.
LEMMA RoutesAreApart ==
  ASSUME NEW k \in 1..Len(CHECKS), NEW l \in 1..Len(CHECKS), NEW p \in Seq(STRING),
         CHECKS[k].method = CHECKS[l].method,
         \/ CHECKS[k].template = CHECKS[l].template
         \/ Matches(CHECKS[k].template, p) /\ Matches(CHECKS[l].template, p)
  PROVE  k = l
<1> DEFINE s == CHECKS[k].template
           t == CHECKS[l].template
<1> SUFFICES ASSUME k # l PROVE FALSE
  OBVIOUS
<1>1. Len(s) = Len(t)
  BY DEF Matches
<1>2. PICK i \in 1..Len(s) : ~IsVariable(s[i]) /\ ~IsVariable(t[i]) /\ s[i] # t[i]
  BY <1>1, TableAssumption
<1>3. CASE s = t
  BY <1>2, <1>3
<1>4. CASE Matches(s, p) /\ Matches(t, p)
  BY <1>2, <1>4 DEF Matches
<1> QED
  BY <1>3, <1>4

LEMMA Requirement ==
  ASSUME NEW r \in Range(CHECKS)
  PROVE  RequiredPrivileges(r.method, r.template) = r.alternatives
<1> DEFINE fits == {k \in 1..Len(CHECKS) :
                       CHECKS[k].method = r.method /\ CHECKS[k].template = r.template}
           i == IF fits # {} THEN Min(fits) ELSE 0
<1>1. PICK k \in 1..Len(CHECKS) : CHECKS[k] = r
  BY TableFacts
<1>2. RequiredPrivileges(r.method, r.template) = IF i = 0 THEN << >> ELSE CHECKS[i].alternatives
  BY DEF RequiredPrivileges, SelectInSeq
<1>3. fits \in SUBSET Nat /\ k \in fits
  BY <1>1, TableFacts
<1>4. Min(fits) \in fits
  <2> HIDE DEF fits
  <2> QED
    BY <1>3, MinIsSmallest
<1>5. i \in fits
  BY <1>3, <1>4
<1>6. i = k
  <2>1. i \in 1..Len(CHECKS) /\ CHECKS[i].method = CHECKS[k].method
          /\ CHECKS[i].template = CHECKS[k].template
    BY <1>1, <1>5
  <2>2. << >> \in Seq(STRING)
    OBVIOUS
  <2> HIDE DEF i
  <2> QED
    BY <2>1, <2>2, RoutesAreApart
<1> HIDE DEF i
<1> QED
  BY <1>1, <1>2, <1>6, TableFacts

LEMMA Answer ==
  ASSUME NEW r \in Range(CHECKS), NEW n \in STRING, NEW g \in STRING
  PROVE  PrivilegesFor(r.method, Filled(r.template, n, g)) = FilledAlternatives(r, n, g)
<1> DEFINE p == Filled(r.template, n, g)
           fits == {k \in 1..Len(CHECKS) :
                       CHECKS[k].method = r.method /\ Matches(CHECKS[k].template, p)}
<1>1. PICK k \in 1..Len(CHECKS) : CHECKS[k] = r
  BY TableFacts
<1>2. r.template \in Seq(STRING)
  BY RouteFacts
<1>3. p \in Seq(STRING) /\ Matches(r.template, p)
  BY <1>2, FilledFacts, FilledIsMatched
<1>4. Substituted(r.alternatives, Filling(r.template, p)) = FilledAlternatives(r, n, g)
  BY SubstitutedIsFilled
<1> HIDE DEF p
<1>5. k \in fits
  BY <1>1, <1>3
<1>6. PICK l \in fits : PrivilegesFor(r.method, p) =
                  Substituted(CHECKS[l].alternatives, Filling(CHECKS[l].template, p))
  BY <1>5, LookupFacts
<1>7. l = k
  BY <1>1, <1>3, <1>6, RoutesAreApart
<1> QED
  BY <1>1, <1>4, <1>6, <1>7 DEF p

\* One segment or two deep, the path, its parent and the root are all there is.
LEMMA InheritanceIsAgreed ==
  ASSUME NEW raw \in SUBSET Grants, NEW path \in Seq(STRING), Len(path) \in 0..2, NEW p
  PROVE  HasPermission(Compiled(raw), path, p) <=> Holds(raw, path, p)
<1>1. ASSUME NEW q PROVE q \in DOMAIN Compiled(raw) /\ p \in Compiled(raw)[q]
                           <=> <<q, p, 1>> \in raw
  <2>1. \A x \in raw : x = <<x[1], x[2], x[3]>>
    BY DEF Grants
  <2> QED
    BY <2>1 DEF Compiled
<1>2. /\ SubSeq(path, 1, 0) = << >> /\ SubSeq(path, 1, Len(path)) = path
      /\ Front(path) = SubSeq(path, 1, Len(path) - 1)
  BY SubSeqEmpty, SubSeqFull DEF Front
<1>3. LookedUp(path) = {SubSeq(path, 1, k) : k \in 0..Len(path)}
  <2>1. CASE Len(path) = 0
    BY <1>2, <2>1 DEF LookedUp
  <2>2. CASE Len(path) = 1
    <3>1. 0..Len(path) = {0, 1}
      BY <2>2
    <3>2. {SubSeq(path, 1, k) : k \in 0..Len(path)} = {SubSeq(path, 1, 0), SubSeq(path, 1, 1)}
      BY <3>1
    <3>3. SubSeq(path, 1, 0) = << >> /\ SubSeq(path, 1, 1) = path
      BY <1>2, <2>2
    <3>4. LookedUp(path) = {path, << >>}
      BY <2>2 DEF LookedUp
    <3> QED
      BY <3>2, <3>3, <3>4, Zenon
  <2>3. CASE Len(path) = 2
    <3>1. 0..Len(path) = {0, 1, 2}
      BY <2>3
    <3>2. {SubSeq(path, 1, k) : k \in 0..Len(path)} =
             {SubSeq(path, 1, 0), SubSeq(path, 1, 1), SubSeq(path, 1, 2)}
      BY <3>1
    <3>3. SubSeq(path, 1, 0) = << >> /\ SubSeq(path, 1, 1) = Front(path) /\ SubSeq(path, 1, 2) = path
      BY <1>2, <2>3
    <3>4. LookedUp(path) = {path, Front(path), << >>}
      BY <2>3 DEF LookedUp
    <3> QED
      BY <3>2, <3>3, <3>4
  <2> QED
    BY <2>1, <2>2, <2>3
<1>4. HasPermission(Compiled(raw), path, p) <=> \E q \in LookedUp(path) : <<q, p, 1>> \in raw
  BY <1>1 DEF HasPermission
<1> QED
  BY <1>3, <1>4 DEF Holds

GrantsInv == granted \subseteq Grants
GrantsSpec == GrantsInit /\ [][GrantsNext]_granted

LEMMA GrantsInvNext ==
  (GrantsInit => GrantsInv) /\ (GrantsInv /\ [GrantsNext]_granted => GrantsInv')
  BY DEF GrantsInit, GrantsInv, GrantsNext, Grant, Revoke

\* Whatever is granted, the client and the cluster decide alike.
LEMMA ForetoldAlways ==
  ASSUME NEW raw \in SUBSET Grants
  PROVE  Foretold(raw)
<1> SUFFICES ASSUME NEW r \in Range(CHECKS), NEW n \in Values, NEW g \in Values
             PROVE  LET mine(path, p) == HasPermission(Compiled(raw), path, p)
                        theirs(path, p) == Holds(raw, path, p)
                        required == RequiredPrivileges(r.method, r.template)
                        filled == [k \in 1..Len(required) |->
                                      [required[k] EXCEPT !.path = Filled(@, n, g)]]
                    IN Satisfied(PrivilegesFor(r.method, Filled(r.template, n, g)), mine)
                         = Satisfied(filled, theirs)
  BY DEF Foretold
<1> DEFINE check == FilledAlternatives(r, n, g)
<1>1. n \in STRING /\ g \in STRING
  BY AccessAssumption
<1>2. PrivilegesFor(r.method, Filled(r.template, n, g)) = check
  BY <1>1, Answer
<1>3. [k \in 1..Len(RequiredPrivileges(r.method, r.template)) |->
          [RequiredPrivileges(r.method, r.template)[k] EXCEPT !.path = Filled(@, n, g)]] = check
  BY Requirement DEF FilledAlternatives
<1>4. DOMAIN check = 1..Len(r.alternatives) /\ Len(check) = Len(r.alternatives)
  BY RouteFacts DEF FilledAlternatives
<1>5. ASSUME NEW k \in 1..Len(check), NEW p
      PROVE  HasPermission(Compiled(raw), check[k].path, p) <=> Holds(raw, check[k].path, p)
  <2> DEFINE path == r.alternatives[k].path
  <2>1. r.alternatives[k] \in TableAlternatives /\ path \in Seq(STRING) /\ Len(path) \in 0..2
    BY <1>4, RouteFacts
  <2>2. check[k].path = Filled(path, n, g)
    <3>1. check[k] = [r.alternatives[k] EXCEPT !.path = Filled(@, n, g)]
      BY <1>4 DEF FilledAlternatives
    <3> HIDE DEF check
    <3> QED
      BY <2>1, <3>1 DEF TableAlternatives
  <2>3. Filled(path, n, g) \in Seq(STRING) /\ Len(Filled(path, n, g)) = Len(path)
    BY <1>1, <2>1, FilledFacts
  <2> HIDE DEF check, path
  <2> QED
    BY <2>1, <2>2, <2>3, InheritanceIsAgreed
<1> HIDE DEF check
<1>6. (\E k \in 1..Len(check) :
          IF check[k].anyOf
          THEN \E p \in check[k].privileges : HasPermission(Compiled(raw), check[k].path, p)
          ELSE \A p \in check[k].privileges : HasPermission(Compiled(raw), check[k].path, p))
      <=>
      (\E k \in 1..Len(check) :
          IF check[k].anyOf
          THEN \E p \in check[k].privileges : Holds(raw, check[k].path, p)
          ELSE \A p \in check[k].privileges : Holds(raw, check[k].path, p))
  BY <1>5
<1> QED
  BY <1>2, <1>3, <1>6 DEF Satisfied

\* "a caller can say what is missing before it makes the call" (privileges.py):
\* for any paths, privileges and names, and whatever is granted, what the client
\* works out of the permissions it fetched is what Proxmox decides.
THEOREM RefusalsAreForetold == GrantsSpec => RefusalIsForetold
<1> DEFINE Body == granted' # granted => Foretold(granted')
<1>1. GrantsInv' => Body
  BY ForetoldAlways DEF GrantsInv
<1>2. GrantsInv /\ [GrantsNext]_granted => [Body]_granted
  BY <1>1, GrantsInvNext
<1> HIDE DEF Body
<1>3. GrantsSpec => [][Body]_granted
  BY <1>2, GrantsInvNext, PTL DEF GrantsSpec
<1> QED
  BY <1>3, PTL DEF RefusalIsForetold, Body
-------------------------------------------------------------------------------
(* Checks within checks: what is read of one rests on what is read of its  *)
(* parts, and this has an answer, however deep they go.                    *)

LEMMA ShapeFacts ==
  ASSUME NEW c \in CheckNames
  PROVE  /\ Shape[c].parts \in SUBSET CheckNames
         /\ Shape[c].kind \in {"perm", "or", "and", "none"}
         /\ Shape[c].anyOf \in BOOLEAN
<1>1. Shape[c] \in Shapes
  BY SchemaRoutesAssumption
<1> QED
  BY <1>1 DEF Shapes

\* What holds of a check where it holds of all its parts, holds of all checks.
LEMMA CheckInduction ==
  ASSUME NEW G \in SUBSET CheckNames, \A c \in CheckNames : Shape[c].parts \subseteq G => c \in G
  PROVE  G = CheckNames
<1> SUFFICES ASSUME G # CheckNames PROVE FALSE
  OBVIOUS
<1>1. PICK S : S = CheckNames \ G
  OBVIOUS
<1>2. S \in SUBSET CheckNames /\ S # {}
  BY <1>1
<1>3. PICK c \in S : Shape[c].parts \cap S = {}
  BY <1>2, ChecksAreNested
<1>4. Shape[c].parts \in SUBSET CheckNames
  BY <1>2, <1>3, ShapeFacts
<1>5. Shape[c].parts \subseteq G
  BY <1>1, <1>3, <1>4
<1> QED
  BY <1>1, <1>3, <1>5

OfParts(f, c) == [part \in Shape[c].parts |-> f[part]]

\* f is what F makes of the checks in D, of which D has all parts.
AnswersFor(F, V, D, f) ==
    /\ D \subseteq CheckNames /\ \A c \in D : Shape[c].parts \subseteq D
    /\ f \in [D -> V] /\ \A c \in D : f[c] = F[c][OfParts(f, c)]

LEMMA AnswersAgree ==
  ASSUME NEW F, NEW V, NEW D, NEW f, AnswersFor(F, V, D, f), NEW E, NEW g, AnswersFor(F, V, E, g)
  PROVE  \A c \in D \cap E : f[c] = g[c]
<1>1. PICK G : G = {c \in CheckNames : c \in D \cap E => f[c] = g[c]}
  OBVIOUS
<1>2. ASSUME NEW c \in CheckNames, Shape[c].parts \subseteq G PROVE c \in G
  <2> SUFFICES ASSUME c \in D \cap E PROVE f[c] = g[c]
    BY <1>1
  <2>1. \A part \in Shape[c].parts : f[part] = g[part]
    BY <1>1, <1>2 DEF AnswersFor
  <2>2. OfParts(f, c) = OfParts(g, c)
    BY <2>1 DEF OfParts
  <2> QED
    BY <2>2 DEF AnswersFor
<1>3. G = CheckNames
  BY <1>1, <1>2, CheckInduction
<1> QED
  BY <1>1, <1>3 DEF AnswersFor

LEMMA CheckRecursion ==
  ASSUME NEW V, NEW F,
         \A c \in CheckNames : \A g \in [Shape[c].parts -> V] : F[c][g] \in V
  PROVE  \E f : AnswersFor(F, V, CheckNames, f)
<1>1. PICK G : G = {c \in CheckNames : \E D : \E f : AnswersFor(F, V, D, f) /\ c \in D}
  OBVIOUS
<1>2. PICK h : h = [c \in G |-> CHOOSE x : \E D : \E f : AnswersFor(F, V, D, f) /\ c \in D /\ x = f[c]]
  OBVIOUS
<1>3. ASSUME NEW D, NEW f, AnswersFor(F, V, D, f), NEW c \in D
      PROVE  c \in G /\ h[c] = f[c]
  <2>1. c \in G
    BY <1>1, <1>3 DEF AnswersFor
  <2>2. \E x : \E E : \E g : AnswersFor(F, V, E, g) /\ c \in E /\ x = g[c]
    BY <1>3
  <2>3. PICK E, g : AnswersFor(F, V, E, g) /\ c \in E /\ h[c] = g[c]
    BY <1>2, <2>1, <2>2
  <2>4. f[c] = g[c]
    BY <1>3, <2>3, AnswersAgree
  <2> QED
    BY <2>1, <2>3, <2>4
<1>4. ASSUME NEW c \in G
      PROVE  /\ Shape[c].parts \subseteq G /\ h[c] \in V /\ h[c] = F[c][OfParts(h, c)]
  <2>1. PICK D, f : AnswersFor(F, V, D, f) /\ c \in D
    BY <1>1
  <2>2. Shape[c].parts \subseteq D
    BY <2>1 DEF AnswersFor
  <2>3. Shape[c].parts \subseteq G /\ \A part \in Shape[c].parts : h[part] = f[part]
    BY <1>3, <2>1, <2>2
  <2>4. OfParts(h, c) = OfParts(f, c)
    BY <2>3 DEF OfParts
  <2>5. h[c] = f[c]
    BY <1>3, <2>1
  <2>6. f[c] \in V /\ f[c] = F[c][OfParts(f, c)]
    BY <2>1 DEF AnswersFor
  <2> QED
    BY <2>3, <2>4, <2>5, <2>6
<1>5. AnswersFor(F, V, G, h)
  <2>1. h \in [G -> V]
    BY <1>2, <1>4
  <2> QED
    BY <1>1, <1>4, <2>1 DEF AnswersFor
<1>6. ASSUME NEW c \in CheckNames, Shape[c].parts \subseteq G, c \notin G PROVE FALSE
  <2>1. PICK x : x = F[c][OfParts(h, c)]
    OBVIOUS
  <2>2. OfParts(h, c) \in [Shape[c].parts -> V]
    BY <1>4, <1>6 DEF OfParts
  <2>3. x \in V
    BY <2>1, <2>2
  <2>4. PICK D, f : D = G \cup {c} /\ f = [d \in D |-> IF d \in G THEN h[d] ELSE x]
    OBVIOUS
  <2>5. f \in [D -> V] /\ f[c] = x /\ \A d \in G : f[d] = h[d]
    BY <1>4, <1>6, <2>3, <2>4
  <2>6. ASSUME NEW d \in D PROVE Shape[d].parts \subseteq G
    BY <1>4, <1>6, <2>4
  <2>7. ASSUME NEW d \in D PROVE f[d] = F[d][OfParts(f, d)]
    <3>1. OfParts(f, d) = OfParts(h, d)
      BY <2>5, <2>6 DEF OfParts
    <3>2. CASE d \in G
      BY <1>4, <2>5, <3>1, <3>2
    <3>3. CASE d = c
      BY <2>1, <2>5, <3>1, <3>3
    <3> QED
      BY <2>4, <3>2, <3>3
  <2>8. AnswersFor(F, V, D, f)
    <3>1. D \subseteq CheckNames
      BY <1>1, <2>4
    <3>2. \A d \in D : Shape[d].parts \subseteq D
      BY <2>4, <2>6
    <3> QED
      BY <2>5, <2>7, <3>1, <3>2 DEF AnswersFor
  <2> QED
    BY <1>3, <1>6, <2>4, <2>8
<1>7. G = CheckNames
  <2>1. G \in SUBSET CheckNames
    BY <1>1
  <2> QED
    BY <1>6, <2>1, CheckInduction
<1> QED
  BY <1>5, <1>7

-------------------------------------------------------------------------------
(* What Proxmox allows, what the generator writes, what is unconditional.  *)

AllowsOf(s, has, sent, f) ==
    \/ /\ s.kind = "perm"
       /\ \/ s.required # {} /\ s.required \cap sent = {}
          \/ Suffices(s.privileges, s.anyOf, has)
    \/ s.kind = "or" /\ \E part \in s.parts : f[part]
    \/ s.kind = "and" /\ \A part \in s.parts : f[part]
    \/ s.kind = "none"

LEMMA AllowsIs ==
  ASSUME NEW has, NEW sent, NEW c \in CheckNames
  PROVE  /\ Shape[c].kind = "perm" =>
                (Allows(c, has, sent) <=>
                    \/ Shape[c].required # {} /\ Shape[c].required \cap sent = {}
                    \/ Suffices(Shape[c].privileges, Shape[c].anyOf, has))
         /\ Shape[c].kind = "or" =>
                (Allows(c, has, sent) <=> \E part \in Shape[c].parts : Allows(part, has, sent))
         /\ Shape[c].kind = "none" => Allows(c, has, sent)
<1>1. PICK F : F = [d \in CheckNames |-> [g \in [Shape[d].parts -> BOOLEAN] |->
                       AllowsOf(Shape[d], has, sent, g)]]
  OBVIOUS
<1>2. ASSUME NEW d \in CheckNames, NEW g \in [Shape[d].parts -> BOOLEAN]
      PROVE  F[d][g] = AllowsOf(Shape[d], has, sent, g) /\ F[d][g] \in BOOLEAN
  <2>1. F[d][g] = AllowsOf(Shape[d], has, sent, g)
    BY <1>1
  <2>2. AllowsOf(Shape[d], has, sent, g) \in BOOLEAN
    BY ShapeFacts, Zenon DEF AllowsOf, Suffices
  <2> QED
    BY <2>1, <2>2
<1>3. PICK h : AnswersFor(F, BOOLEAN, CheckNames, h)
  BY <1>2, CheckRecursion
<1>4. ASSUME NEW d \in CheckNames PROVE h[d] = AllowsOf(Shape[d], has, sent, h)
  <2>1. OfParts(h, d) \in [Shape[d].parts -> BOOLEAN]
    BY <1>3, ShapeFacts DEF AnswersFor, OfParts
  <2>2. h[d] = AllowsOf(Shape[d], has, sent, OfParts(h, d))
    BY <1>2, <1>3, <2>1 DEF AnswersFor
  <2>3. AllowsOf(Shape[d], has, sent, OfParts(h, d)) = AllowsOf(Shape[d], has, sent, h)
    BY DEF AllowsOf, OfParts
  <2> QED
    BY <2>2, <2>3
<1>5. h = [d \in CheckNames |-> AllowsOf(Shape[d], has, sent, h)]
  BY <1>3, <1>4 DEF AnswersFor
<1>6. PICK f : f = CHOOSE u : u = [d \in CheckNames |-> AllowsOf(Shape[d], has, sent, u)]
  OBVIOUS
<1>7. f = [d \in CheckNames |-> AllowsOf(Shape[d], has, sent, f)]
  BY <1>5, <1>6
<1>8. \A d : Allows(d, has, sent) = f[d]
  BY <1>6 DEF Allows, AllowsOf
<1> QED
  BY <1>7, <1>8, ShapeFacts DEF AllowsOf

AlternativesOf(s, f) ==
    IF s.kind = "perm" THEN {Alternative(s)}
    ELSE IF s.kind = "or" THEN UNION {f[part] : part \in s.parts}
    ELSE {Unsupported}

LEMMA AlternativesIs ==
  ASSUME NEW c \in CheckNames
  PROVE  /\ Shape[c].kind = "perm" => Alternatives(c) = {Alternative(Shape[c])}
         /\ Shape[c].kind = "or" =>
                Alternatives(c) = UNION {Alternatives(part) : part \in Shape[c].parts}
         /\ Shape[c].kind \notin {"perm", "or"} => Alternatives(c) = {Unsupported}
<1>1. PICK V : V = SUBSET ({Alternative(Shape[d]) : d \in CheckNames} \cup {Unsupported})
  OBVIOUS
<1>2. PICK F : F = [d \in CheckNames |-> [g \in [Shape[d].parts -> V] |->
                       AlternativesOf(Shape[d], g)]]
  OBVIOUS
<1>3. ASSUME NEW d \in CheckNames, NEW g \in [Shape[d].parts -> V]
      PROVE  F[d][g] = AlternativesOf(Shape[d], g) /\ F[d][g] \in V
  <2>1. F[d][g] = AlternativesOf(Shape[d], g)
    BY <1>2
  <2>2. UNION {g[part] : part \in Shape[d].parts} \in V
    BY <1>1
  <2>3. {Alternative(Shape[d])} \in V /\ {Unsupported} \in V
    BY <1>1
  <2> QED
    BY <2>1, <2>2, <2>3 DEF AlternativesOf
<1>4. PICK h : AnswersFor(F, V, CheckNames, h)
  BY <1>3, CheckRecursion
<1>5. ASSUME NEW d \in CheckNames PROVE h[d] = AlternativesOf(Shape[d], h)
  <2>1. OfParts(h, d) \in [Shape[d].parts -> V]
    BY <1>4, ShapeFacts DEF AnswersFor, OfParts
  <2>2. h[d] = AlternativesOf(Shape[d], OfParts(h, d))
    BY <1>3, <1>4, <2>1 DEF AnswersFor
  <2>3. AlternativesOf(Shape[d], OfParts(h, d)) = AlternativesOf(Shape[d], h)
    BY DEF AlternativesOf, OfParts
  <2> QED
    BY <2>2, <2>3
<1>6. h = [d \in CheckNames |-> AlternativesOf(Shape[d], h)]
  BY <1>4, <1>5 DEF AnswersFor
<1>7. PICK f : f = CHOOSE u : u = [d \in CheckNames |-> AlternativesOf(Shape[d], u)]
  OBVIOUS
<1>8. f = [d \in CheckNames |-> AlternativesOf(Shape[d], f)]
  BY <1>6, <1>7
<1>9. \A d : Alternatives(d) = f[d]
  BY <1>7 DEF Alternatives, AlternativesOf
<1>10. Alternatives(c) = AlternativesOf(Shape[c], f)
  BY <1>8, <1>9
<1>11. {f[part] : part \in Shape[c].parts} = {Alternatives(part) : part \in Shape[c].parts}
  BY <1>9
<1> QED
  BY <1>10, <1>11 DEF AlternativesOf

AlwaysOf(s, f) == s.required = {} /\ \A part \in s.parts : f[part]

LEMMA UnconditionalIs ==
  ASSUME NEW c \in CheckNames
  PROVE  IsUnconditional(c) <=>
            Shape[c].required = {} /\ \A part \in Shape[c].parts : IsUnconditional(part)
<1>1. PICK F : F = [d \in CheckNames |-> [g \in [Shape[d].parts -> BOOLEAN] |->
                       AlwaysOf(Shape[d], g)]]
  OBVIOUS
<1>2. ASSUME NEW d \in CheckNames, NEW g \in [Shape[d].parts -> BOOLEAN]
      PROVE  F[d][g] = AlwaysOf(Shape[d], g) /\ F[d][g] \in BOOLEAN
  <2>1. F[d][g] = AlwaysOf(Shape[d], g)
    BY <1>1
  <2>2. AlwaysOf(Shape[d], g) \in BOOLEAN
    BY Zenon DEF AlwaysOf
  <2> QED
    BY <2>1, <2>2
<1>3. PICK h : AnswersFor(F, BOOLEAN, CheckNames, h)
  BY <1>2, CheckRecursion
<1>4. ASSUME NEW d \in CheckNames PROVE h[d] = AlwaysOf(Shape[d], h)
  <2>1. OfParts(h, d) \in [Shape[d].parts -> BOOLEAN]
    BY <1>3, ShapeFacts DEF AnswersFor, OfParts
  <2>2. h[d] = AlwaysOf(Shape[d], OfParts(h, d))
    BY <1>2, <1>3, <2>1 DEF AnswersFor
  <2>3. AlwaysOf(Shape[d], OfParts(h, d)) = AlwaysOf(Shape[d], h)
    BY DEF AlwaysOf, OfParts
  <2> QED
    BY <2>2, <2>3
<1>5. h = [d \in CheckNames |-> AlwaysOf(Shape[d], h)]
  BY <1>3, <1>4 DEF AnswersFor
<1>6. PICK f : f = CHOOSE u : u = [d \in CheckNames |-> AlwaysOf(Shape[d], u)]
  OBVIOUS
<1>7. f = [d \in CheckNames |-> AlwaysOf(Shape[d], f)]
  BY <1>5, <1>6
<1>8. \A d : IsUnconditional(d) = f[d]
  BY <1>6 DEF IsUnconditional, AlwaysOf
<1> QED
  BY <1>7, <1>8, ShapeFacts DEF AlwaysOf

\* A description that could be written, of a check that does not depend on what
\* is sent, tells any caller what Proxmox decides.
LEMMA DescribedRight ==
  ASSUME NEW c \in CheckNames, Unsupported \notin Alternatives(c), IsUnconditional(c),
         NEW has, NEW sent
  PROVE  (\E a \in Alternatives(c) : Suffices(a.privileges, a.anyOf, has))
            <=> Allows(c, has, sent)
<1> DEFINE Enough(d) == \E a \in Alternatives(d) : Suffices(a.privileges, a.anyOf, has)
<1>1. PICK G : G = {d \in CheckNames :
                       Unsupported \notin Alternatives(d) /\ IsUnconditional(d)
                          => (Enough(d) <=> Allows(d, has, sent))}
  OBVIOUS
<1>2. ASSUME NEW d \in CheckNames, Shape[d].parts \subseteq G PROVE d \in G
  <2> SUFFICES ASSUME Unsupported \notin Alternatives(d), IsUnconditional(d)
               PROVE  Enough(d) <=> Allows(d, has, sent)
    BY <1>1
  <2>1. CASE Shape[d].kind = "perm"
    <3>1. Alternatives(d) = {Alternative(Shape[d])}
      BY <2>1, AlternativesIs
    <3>2. Enough(d) <=> Suffices(Shape[d].privileges, Shape[d].anyOf, has)
      BY <3>1 DEF Alternative
    <3>3. Shape[d].required = {}
      BY UnconditionalIs
    <3> QED
      BY <2>1, <3>2, <3>3, AllowsIs
  <2>2. CASE Shape[d].kind = "or"
    <3>1. Alternatives(d) = UNION {Alternatives(part) : part \in Shape[d].parts}
      BY <2>2, AlternativesIs
    <3>2. Enough(d) <=> \E part \in Shape[d].parts : Enough(part)
      BY <3>1
    <3>3. \A part \in Shape[d].parts : Unsupported \notin Alternatives(part)
      BY <3>1
    <3>4. \A part \in Shape[d].parts : IsUnconditional(part)
      BY UnconditionalIs
    <3>5. \A part \in Shape[d].parts : Enough(part) <=> Allows(part, has, sent)
      BY <1>1, <1>2, <3>3, <3>4
    <3>6. Allows(d, has, sent) <=> \E part \in Shape[d].parts : Allows(part, has, sent)
      BY <2>2, AllowsIs
    <3> HIDE DEF Enough
    <3> QED
      BY <3>2, <3>5, <3>6
  <2>3. CASE Shape[d].kind \notin {"perm", "or"}
    BY <2>3, AlternativesIs
  <2> QED
    BY <2>1, <2>2, <2>3
<1>3. G = CheckNames
  BY <1>1, <1>2, CheckInduction
<1>4. Enough(c) <=> Allows(c, has, sent)
  BY <1>1, <1>3
<1> QED
  BY <1>4

SchemaSpec == SchemaInit /\ [][SchemaNext]_schemaVars

LEMMA SchemaIsTyped == SchemaSpec => []SchemaTypeOK
<1>1. \A r \in Routes : NotCalled \in Calls(r) /\ Absent \in EntriesOf(r)
  BY DEF Calls, EntriesOf
<1>2. \A src, file : DOMAIN Entries(src, file) \subseteq Routes
  BY DEF Entries, Collected
<1>3. SchemaInit => SchemaTypeOK
  BY <1>1, <1>2 DEF SchemaInit, SchemaTypeOK
<1>4. ASSUME SchemaTypeOK, [SchemaNext]_schemaVars PROVE SchemaTypeOK'
  <2>1. CASE Generate
    BY <1>2, <1>4, <2>1 DEF Generate, SchemaTypeOK
  <2>2. ASSUME NEW r \in Routes, Refresh(r) PROVE SchemaTypeOK'
    BY <1>4, <2>2 DEF Refresh, SchemaTypeOK
  <2>3. ASSUME NEW r \in Routes, EditSource(r) PROVE SchemaTypeOK'
    BY <1>4, <2>3 DEF EditSource, SchemaTypeOK
  <2>4. CASE UNCHANGED schemaVars
    BY <1>4, <2>4 DEF schemaVars, SchemaTypeOK
  <2> QED
    BY <1>4, <2>1, <2>2, <2>3, <2>4 DEF SchemaNext
<1> QED
  BY <1>3, <1>4, PTL DEF SchemaSpec

\* Where the tests pass, the calls that can be read are in the schema and the
\* table says of them what Proxmox decides: however deep the checks go.
THEOREM PassingTestsAgree == SchemaSpec => []PassingTestsMeanAgreement
<1>1. SchemaTypeOK => PassingTestsMeanAgreement
  <2> SUFFICES ASSUME SchemaTypeOK, Conforms, TableIsCurrent
               PROVE  /\ \A r \in Collected(source) :
                            IsUnconditional(schema[r].check) => ToldRight(r, source[r].sent)
                      /\ DOMAIN table \subseteq Collected(source)
    BY DEF PassingTestsMeanAgreement, Conforms
  <2>1. table = Entries(source, schema) /\ Describes(Entries(source, schema))
    BY DEF TableIsCurrent
  <2>2. DOMAIN table = {r \in Collected(source) : schema[r].check # NoCheck}
    BY <2>1 DEF Entries
  <2>3. ASSUME NEW r \in Collected(source), IsUnconditional(schema[r].check),
               NEW has \in SUBSET RoutePrivileges
        PROVE  Told(r, has) <=> Allows(schema[r].check, has, source[r].sent)
    <3>1. schema[r] \in EntriesOf(r)
      BY DEF SchemaTypeOK, Collected
    <3>2. Checks[r] \subseteq CheckNames
      BY SchemaRoutesAssumption DEF Collected
    <3>3. schema[r].check \in CheckNames
      <4>1. schema[r] = Absent \/ schema[r].check \in Checks[r]
        BY <3>1 DEF EntriesOf
      <4>2. Absent.check \in CheckNames
        BY SchemaRoutesAssumption DEF Absent
      <4> QED
        BY <3>2, <4>1, <4>2
    <3>4. CASE schema[r].check = NoCheck
      <4>1. Told(r, has)
        BY <2>2, <3>4 DEF Told
      <4>2. Allows(NoCheck, has, source[r].sent)
        BY AllowsIs, SchemaRoutesAssumption
      <4> QED
        BY <3>4, <4>1, <4>2
    <3>5. CASE schema[r].check # NoCheck
      <4>1. r \in DOMAIN table /\ table[r] = Alternatives(schema[r].check)
        BY <2>1, <2>2, <3>5 DEF Entries
      <4>2. Unsupported \notin Alternatives(schema[r].check)
        BY <2>1, <4>1 DEF Describes
      <4>3. (\E a \in table[r] : Suffices(a.privileges, a.anyOf, has))
               <=> Allows(schema[r].check, has, source[r].sent)
        BY <2>3, <3>3, <4>1, <4>2, DescribedRight
      <4> QED
        BY <4>1, <4>3 DEF Told
    <3> QED
      BY <3>4, <3>5
  <2> QED
    BY <2>2, <2>3 DEF ToldRight
<1> QED
  BY <1>1, SchemaIsTyped, PTL
-------------------------------------------------------------------------------
(* Commands. The inductive invariant counts: at each stage of a call it    *)
(* bounds the copies that the call has queued so far (Fits). That a        *)
(* caller's step leaves the count of every other call alone needs the      *)
(* calls to be numbered apart (NumberedApart), and that a copy is a new    *)
(* element of the set of tasks needs the copies of a call to be numbered   *)
(* from 0 (CopiesCounted).                                                       *)

Count(ts, id) == Cardinality(CopiesOf(ts, id))

\* How many copies, n, a call may have queued at each stage.
Fits(c, n) ==
    /\ c.pc # Idle => c.verdict = "none" /\ c.id # 0
    /\ c.pc = "first" => c.lost = 0
    /\ c.pc = "relogin" => c.got = "none" /\ c.lost = 0 /\ n = 0
    /\ c.pc = "failover" => c.got = "none" /\ c.lost = 1 /\ n \in {0, 1}
    /\ c.pc = "second" => c.lost \in {0, 1}
    /\ c.pc \in {"first", "second"} =>
          /\ c.got = "task id" => (c.lost = 0 => n = 1) /\ (c.lost = 1 => n \in {1, 2})
          /\ c.got # "task id" => (c.lost = 0 => n = 0) /\ (c.lost = 1 => n \in {0, 1})
    /\ c.pc = Idle =>
          /\ n \in {0, 1, 2}
          /\ c.lost = 0 => n \in {0, 1}
          /\ c.verdict = "task id" => n \in {1, 2}
          /\ c.verdict \in {"error", "ProxmoxError", "TypeError"} /\ c.lost = 0 => n = 0

Fitting == \A t \in Callers : Fits(call[t], Count(tasks, call[t].id))

NumberedApart == \A t, u \in Callers : call[t].id = call[u].id => t = u \/ call[t].id = 0

CopiesCounted ==
    /\ IsFiniteSet(tasks)
    /\ \A k \in tasks : k.copy \in Nat /\ k.copy < Count(tasks, k.call)

Inv == CommandsTypeOK /\ Fitting /\ NumberedApart /\ CopiesCounted

LEMMA CopiesFacts ==
    ASSUME IsFiniteSet(tasks), NEW id
    PROVE  /\ IsFiniteSet(CopiesOf(tasks, id))
           /\ Count(tasks, id) \in Nat
  <1>1. CopiesOf(tasks, id) \subseteq tasks
    BY DEF CopiesOf
  <1> QED
    BY <1>1, FS_Subset, FS_CardinalityType DEF Count

\* A call that has no number yet has no copies.
LEMMA NoCopiesYet ==
    ASSUME CommandsTypeOK, NEW id, id \notin 1..calls
    PROVE  CopiesOf(tasks, id) = {} /\ Count(tasks, id) = 0
  <1>1. CopiesOf(tasks, id) = {}
    BY DEF CopiesOf, CommandsTypeOK
  <1> QED
    BY <1>1, FS_EmptySet DEF Count

LEMMA NothingNamed == [at |-> NoPlace] \in Commands
  BY DEF Commands

LEMMA NewCallFacts ==
    ASSUME NEW id \in Nat, NEW command \in Commands
    PROVE  LET c == NewCall(id, command) IN
           /\ c \in Records
           /\ c.pc = "first" /\ c.id = id /\ c.got = "none"
           /\ c.lost = 0 /\ c.verdict = "none"
  BY DEF NewCall, Records, Stages, Answers, Verdicts

LEMMA CallEndFacts ==
    ASSUME NEW c \in Records, NEW verdict \in Verdicts
    PROVE  LET e == End(c, verdict) IN
           /\ e \in Records
           /\ e.pc = Idle /\ e.id = c.id /\ e.got = "none"
           /\ e.lost = c.lost /\ e.verdict = verdict
  BY NothingNamed DEF End, Records, Stages, Answers

LEMMA InitInv == CommandsInit => Inv
  <1> SUFFICES ASSUME CommandsInit PROVE Inv
    OBVIOUS
  <1> DEFINE new == NewCall(0, [at |-> NoPlace])
             c == End(new, "none")
  <1>1. new \in Records /\ new.id = 0 /\ new.lost = 0
    BY NewCallFacts, NothingNamed
  <1> HIDE DEF new
  <1>2. /\ c \in Records /\ c.pc = Idle /\ c.id = 0 /\ c.verdict = "none"
        /\ c.lost = 0
    <2>1. "none" \in Verdicts
      BY DEF Verdicts
    <2> QED
      BY <1>1, <2>1, CallEndFacts
  <1>3. DOMAIN call = Callers /\ \A t \in Callers : call[t] = c
    BY DEF CommandsInit, new
  <1> HIDE DEF c
  <1>4. CommandsTypeOK
    BY <1>2, <1>3, CommandsAssumption DEF CommandsTypeOK, CommandsInit
  <1>5. CopiesCounted /\ Count(tasks, 0) = 0
    BY <1>4, NoCopiesYet, FS_EmptySet DEF CopiesCounted, CommandsInit
  <1>6. Fits(c, 0)
    BY <1>2 DEF Fits, Idle
  <1>9. Fitting
    BY <1>2, <1>3, <1>5, <1>6 DEF Fitting
  <1>7. NumberedApart
    BY <1>2, <1>3 DEF NumberedApart
  <1> QED
    BY <1>4, <1>5, <1>7, <1>9 DEF Inv

\* A step within a call: its number and what it asks for stay.
LEMMA StepWithin ==
    ASSUME Inv, NEW t \in Callers, NEW c \in Records,
           Go(t, c), UNCHANGED <<location, tasks, calls>>,
           c.id = call[t].id,
           Fits(c, Count(tasks, c.id))
    PROVE  Inv'
  <1> USE DEF Inv
  <1>1. /\ DOMAIN call' = Callers
        /\ \A u \in Callers : call'[u] = IF u = t THEN c ELSE call[u]
    BY DEF Go, CommandsTypeOK
  <1>3. CommandsTypeOK'
    BY <1>1 DEF CommandsTypeOK
  <1>4. Fitting'
    BY <1>1 DEF Fitting
  <1>5. NumberedApart'
    BY <1>1 DEF NumberedApart
  <1>6. CopiesCounted'
    BY DEF CopiesCounted
  <1> QED
    BY <1>3, <1>4, <1>5, <1>6

\* A new call, whether it is sent or ends at once.
LEMMA StepBegins ==
    ASSUME Inv, NEW t \in Callers, NEW c \in Records,
           Go(t, c), calls' = calls + 1, calls < MaxCalls, UNCHANGED <<location, tasks>>,
           c.id = calls + 1,
           Fits(c, 0)
    PROVE  Inv'
  <1> USE DEF Inv
  <1>1. /\ DOMAIN call' = Callers
        /\ \A u \in Callers : call'[u] = IF u = t THEN c ELSE call[u]
    BY DEF Go, CommandsTypeOK
  <1>3. calls \in Nat /\ c.id \notin 1..calls /\ \A u \in Callers : call[u].id # c.id
    BY CommandsAssumption DEF CommandsTypeOK, Records
  <1>4. CommandsTypeOK'
    BY <1>1, <1>3, CommandsAssumption DEF CommandsTypeOK, Records
  <1>5. Count(tasks, c.id) = 0 /\ CopiesOf(tasks, c.id) = {}
    BY <1>3, NoCopiesYet
  <1>6. Fitting'
    BY <1>1, <1>5 DEF Fitting
  <1>7. NumberedApart'
    BY <1>1, <1>3 DEF NumberedApart
  <1>8. CopiesCounted'
    BY DEF CopiesCounted
  <1> QED
    BY <1>4, <1>6, <1>7, <1>8

\* A copy more: the count of its call goes up by one, and no other changes.
LEMMA CopiesGrow ==
    ASSUME CopiesCounted, NEW id, NEW new, new.call = id, new.copy = Count(tasks, id),
           tasks' = tasks \cup {new}
    PROVE  /\ Count(tasks', id) = Count(tasks, id) + 1
           /\ \A other : other # id => Count(tasks', other) = Count(tasks, other)
           /\ CopiesCounted'
  <1>1. Count(tasks, id) \in Nat /\ IsFiniteSet(CopiesOf(tasks, id))
    BY CopiesFacts DEF CopiesCounted
  <1>2. new \notin CopiesOf(tasks, id)
    BY <1>1 DEF CopiesCounted, CopiesOf
  <1>3. CopiesOf(tasks', id) = CopiesOf(tasks, id) \cup {new}
    BY DEF CopiesOf
  <1>4. ASSUME NEW other, other # id PROVE Count(tasks', other) = Count(tasks, other)
    <2>1. CopiesOf(tasks', other) = CopiesOf(tasks, other)
      BY <1>4 DEF CopiesOf
    <2> QED
      BY <2>1 DEF Count
  <1>5. Count(tasks', id) = Count(tasks, id) + 1
    BY <1>1, <1>2, <1>3, FS_AddElement DEF Count
  <1>6. IsFiniteSet(tasks')
    BY FS_AddElement DEF CopiesCounted
  <1>7. ASSUME NEW k \in tasks'
        PROVE  k.copy \in Nat /\ k.copy < Count(tasks', k.call)
    <2>1. CASE k = new
      BY <1>1, <1>5, <2>1
    <2>2. CASE k \in tasks /\ k.call = id
      BY <1>1, <1>5, <2>2 DEF CopiesCounted
    <2>3. CASE k \in tasks /\ k.call # id
      BY <1>4, <2>3 DEF CopiesCounted
    <2> QED
      BY <2>1, <2>2, <2>3
  <1>8. CopiesCounted'
    BY <1>6, <1>7 DEF CopiesCounted
  <1> QED
    BY <1>4, <1>5, <1>8

\* A command is queued.
LEMMA StepQueues == ASSUME Inv, NEW t \in Callers, Queue(t) PROVE Inv'
  <1>1. CommandsTypeOK /\ Fitting /\ NumberedApart /\ CopiesCounted
    BY DEF Inv
  <1>2. PICK id, n : id = call[t].id /\ n = Count(tasks, id)
    OBVIOUS
  <1> PICK new : new = [call |-> id, copy |-> n]
    OBVIOUS
  <1>3. /\ new = [call |-> id, copy |-> n]
        /\ new.call = id /\ new.copy = n
    OBVIOUS
  <1>4. PICK c : c = [call[t] EXCEPT !.got = "task id"]
    OBVIOUS
  <1>5. c \in Records /\ c.id = id
    BY <1>1, <1>2, <1>4 DEF CommandsTypeOK, Records, Answers
  <1>6. tasks' = tasks \cup {new} /\ calls' = calls /\ location' = location
    BY <1>2, <1>3 DEF Queue, Count
  <1>7. /\ DOMAIN call' = Callers
        /\ \A u \in Callers : call'[u] = IF u = t THEN c ELSE call[u]
    BY <1>1, <1>4 DEF Queue, Go, CommandsTypeOK
  <1>8. call[t].got = "none" /\ call[t].pc \in {"first", "second"}
    BY DEF Queue, Awaiting, Attempting
  <1>9. id \in 1..calls
    <2>1. id # 0
      BY <1>1, <1>2, <1>8 DEF Fitting, Fits, Idle
    <2>2. id \in Nat /\ calls \in Nat /\ id <= calls
      BY <1>1, <1>2, CommandsAssumption DEF CommandsTypeOK, Records
    <2> QED
      BY <2>1, <2>2
  <1>10. /\ Count(tasks', id) = n + 1
         /\ \A other : other # id => Count(tasks', other) = Count(tasks, other)
         /\ CopiesCounted'
    BY <1>1, <1>2, <1>3, <1>6, CopiesGrow
  <1>11. n \in Nat
    BY <1>1, <1>2, CopiesFacts DEF CopiesCounted
  <1>12. \A u \in Callers \ {t} : call[u].id # id
    BY <1>1, <1>2, <1>9 DEF NumberedApart
  <1>13. CommandsTypeOK'
    <2>1. \A k \in tasks' : k.call \in 1..calls'
      BY <1>1, <1>3, <1>6, <1>9 DEF CommandsTypeOK
    <2>2. \A u \in Callers : call'[u] \in Records /\ call'[u].id <= calls'
      BY <1>1, <1>2, <1>5, <1>6, <1>7 DEF CommandsTypeOK
    <2> QED
      BY <1>1, <1>6, <1>7, <2>1, <2>2 DEF CommandsTypeOK
  <1>14. Fitting'
    <2>1. Fits(c, n + 1)
      <3>1. Fits(call[t], n) /\ call[t] \in Records
        BY <1>1, <1>2 DEF Fitting, CommandsTypeOK
      <3>2. /\ c.pc = call[t].pc /\ c.got = "task id" /\ c.lost = call[t].lost
            /\ c.verdict = call[t].verdict /\ c.id = call[t].id /\ c.lost \in Nat
        BY <1>4, <3>1 DEF Records
      <3>3. c.lost = 0 => n = 0
        BY <1>8, <3>1, <3>2 DEF Fits, Idle
      <3>4. c.lost = 1 => n \in {0, 1}
        BY <1>8, <3>1, <3>2 DEF Fits, Idle
      <3>5. c.pc \in {"first", "second"} /\ c.verdict = "none" /\ c.id # 0
        BY <1>8, <3>1, <3>2 DEF Fits, Idle
      <3>6. c.lost \in {0, 1} /\ (c.pc = "first" => c.lost = 0)
        BY <1>8, <3>1, <3>2 DEF Fits, Idle
      <3>7. (c.lost = 0 => n + 1 = 1) /\ (c.lost = 1 => n + 1 \in {1, 2})
        BY <3>3, <3>4
      <3> QED
        BY <3>2, <3>5, <3>6, <3>7 DEF Fits, Idle
    <2> SUFFICES ASSUME NEW u \in Callers
                 PROVE  Fits(call'[u], Count(tasks', call'[u].id))
      BY DEF Fitting
    <2>2. CASE u = t
      BY <1>5, <1>7, <1>10, <2>1, <2>2
    <2>3. CASE u # t
      BY <1>1, <1>7, <1>10, <1>12, <2>3 DEF Fitting
    <2> QED
      BY <2>2, <2>3
  <1>15. NumberedApart'
    <2>1. \A u \in Callers : call'[u].id = call[u].id
      BY <1>2, <1>5, <1>7
    <2> QED
      BY <1>1, <2>1 DEF NumberedApart
  <1> QED
    BY <1>10, <1>13, <1>14, <1>15 DEF Inv

\* A call begins: it is sent, or the endpoint raises before it sends anything.
LEMMA SendInv ==
    ASSUME Inv, NEW t \in Callers, NEW command \in Commands,
           Send(t, command)
    PROVE  Inv'
  <1> PICK c : c = NewCall(calls + 1, command)
    OBVIOUS
  <1>1. calls \in Nat
    BY CommandsAssumption DEF Inv, CommandsTypeOK
  <1>2. /\ c \in Records
        /\ c.pc = "first" /\ c.id = calls + 1 /\ c.got = "none"
        /\ c.lost = 0 /\ c.verdict = "none"
    BY <1>1, NewCallFacts
  <1>3. Fits(c, 0)
    <2>1. c.id # 0
      BY <1>1, <1>2
    <2> QED
      BY <1>2, <2>1 DEF Fits, Idle
  <1>4. /\ Go(t, c) /\ calls' = calls + 1 /\ calls < MaxCalls
        /\ UNCHANGED <<location, tasks>>
    BY DEF Send
  <1> QED
    BY <1>2, <1>3, <1>4, StepBegins

LEMMA RaiseInv ==
    ASSUME Inv, NEW t \in Callers, NEW error \in {"ProxmoxError", "TypeError"},
           RaiseAtOnce(t, error)
    PROVE  Inv'
  <1> PICK new : new = NewCall(calls + 1, [at |-> NoPlace])
    OBVIOUS
  <1> PICK c : c = End(new, error)
    OBVIOUS
  <1>1. calls \in Nat
    BY CommandsAssumption DEF Inv, CommandsTypeOK
  <1>2. new \in Records /\ new.id = calls + 1 /\ new.lost = 0
    BY <1>1, NewCallFacts, NothingNamed
  <1>3. /\ c \in Records
        /\ c.pc = Idle /\ c.id = calls + 1 /\ c.got = "none"
        /\ c.lost = 0 /\ c.verdict = error
    <2>1. error \in Verdicts
      BY DEF Verdicts
    <2>2. /\ c \in Records
          /\ c.pc = Idle /\ c.id = new.id /\ c.got = "none"
          /\ c.lost = new.lost /\ c.verdict = error
      BY <1>2, <2>1, CallEndFacts
    <2> QED
      BY <1>2, <2>2
  <1>4. Fits(c, 0)
    BY <1>1, <1>3 DEF Fits, Idle
  <1>5. /\ Go(t, c) /\ calls' = calls + 1 /\ calls < MaxCalls
        /\ UNCHANGED <<location, tasks>>
    BY DEF RaiseAtOnce
  <1> QED
    BY <1>3, <1>4, <1>5, StepBegins

\* Every operation begins a call.
LEMMA BeginInv ==
    ASSUME Inv, NEW t \in Callers,
           GuestAction(t) \/ NodeAction(t) \/ HAAction(t) \/ Snapshot(t) \/ Vzdump(t)
    PROVE  Inv'
  <1>1. CASE GuestAction(t)
    <2> PICK n \in Places, g \in Machines : Send(t, [at |-> n, guest |-> g])
      BY <1>1 DEF GuestAction
    <2>1. [at |-> n, guest |-> g] \in Commands
      BY DEF Commands
    <2> QED
      BY <2>1, NothingNamed, SendInv
  <1>2. CASE NodeAction(t)
    BY <1>2, NothingNamed, SendInv DEF NodeAction
  <1>3. CASE HAAction(t)
    BY <1>3, NothingNamed, SendInv, RaiseInv DEF HAAction
  <1>4. CASE Snapshot(t)
    BY <1>4, RaiseInv DEF Snapshot
  <1>5. CASE Vzdump(t)
    <2> PICK b \in Backups :
            IF VzdumpRefuses(b) THEN RaiseAtOnce(t, "ProxmoxError")
            ELSE Send(t, [at |-> NoPlace])
      BY <1>5 DEF Vzdump
    <2> QED
      BY NothingNamed, SendInv, RaiseInv
  <1> QED
    BY <1>1, <1>2, <1>3, <1>4, <1>5

\* The end of a call: the copies it has queued by then fit its verdict.
LEMMA EndInv ==
    ASSUME Inv, NEW t \in Callers, NEW c \in Records, NEW verdict \in Verdicts,
           NEW n, n = Count(tasks, call[t].id),
           Go(t, End(c, verdict)), UNCHANGED <<location, tasks, calls>>,
           c.id = call[t].id,
           n \in {0, 1, 2}, c.lost = 0 => n \in {0, 1},
           verdict = "task id" => n \in {1, 2},
           verdict \in {"error", "ProxmoxError", "TypeError"} /\ c.lost = 0 => n = 0
    PROVE  Inv'
  <1> PICK e : e = End(c, verdict)
    OBVIOUS
  <1>1. /\ e \in Records
        /\ e.pc = Idle /\ e.id = c.id /\ e.got = "none"
        /\ e.lost = c.lost /\ e.verdict = verdict
    BY CallEndFacts
  <1>2. Fits(e, n)
    BY <1>1 DEF Fits, Idle
  <1> QED
    BY <1>1, <1>2, StepWithin

\* What the invariant says of a call.
LEMMA CallFacts ==
    ASSUME Inv, NEW t \in Callers
    PROVE  /\ call[t] \in Records
           /\ call[t].lost \in Nat
           /\ Count(tasks, call[t].id) \in Nat
           /\ Fits(call[t], Count(tasks, call[t].id))
  BY CopiesFacts DEF Inv, CommandsTypeOK, Records, Fitting, CopiesCounted

LEMMA ReceivedInv ==
    ASSUME Inv, NEW t \in Callers, Received(t) \/ Unreadable(t)
    PROVE  Inv'
  <1> PICK n : n = Count(tasks, call[t].id)
    OBVIOUS
  <1>1. call[t] \in Records /\ call[t].lost \in Nat /\ n \in Nat /\ Fits(call[t], n)
    BY CallFacts
  <1>2. /\ call[t].pc \in {"first", "second"} /\ call[t].got \in {"task id", "error"}
        /\ UNCHANGED <<location, tasks, calls>>
    BY DEF Received, Unreadable, Attempting
  <1>3. n \in {0, 1, 2} /\ (call[t].lost = 0 => n \in {0, 1})
    BY <1>1, <1>2 DEF Fits, Idle
  <1>4. CASE Received(t)
    <2>1. call[t].got = "task id" => n \in {1, 2}
      <3>1. call[t].lost \in {0, 1}
        BY <1>1, <1>2 DEF Fits, Idle
      <3> QED
        BY <1>1, <1>2, <3>1 DEF Fits
    <2>2. call[t].got = "error" /\ call[t].lost = 0 => n = 0
      BY <1>1, <1>2 DEF Fits, Idle
    <2>3. call[t].got \in Verdicts
      BY <1>2 DEF Verdicts
    <2>4. Go(t, End(call[t], call[t].got))
      BY <1>4 DEF Received
    <2>5. call[t].got \in {"error", "ProxmoxError", "TypeError"} => call[t].got = "error"
      BY <1>2
    <2> QED
      BY <1>1, <1>2, <1>3, <2>1, <2>2, <2>3, <2>4, <2>5, EndInv
  <1>5. CASE Unreadable(t)
    <2>1. "unreadable" \in Verdicts /\ Go(t, End(call[t], "unreadable"))
      BY <1>5 DEF Verdicts, Unreadable
    <2> QED
      BY <1>1, <1>2, <1>3, <2>1, EndInv
  <1> QED
    BY <1>4, <1>5

LEMMA Received401Inv == ASSUME Inv, NEW t \in Callers, Received401(t) PROVE Inv'
  <1> PICK n : n = Count(tasks, call[t].id)
    OBVIOUS
  <1>1. call[t] \in Records /\ call[t].lost \in Nat /\ n \in Nat /\ Fits(call[t], n)
    BY CallFacts
  <1>2. /\ call[t].pc \in {"first", "second"} /\ call[t].got = "401"
        /\ UNCHANGED <<location, tasks, calls>>
    BY DEF Received401, Attempting
  <1>3. CASE call[t].pc = "first" /\ RetriesOn401
    <2> PICK c : c = [call[t] EXCEPT !.pc = "relogin", !.got = "none"]
      OBVIOUS
    <2>1. /\ c \in Records /\ c.pc = "relogin" /\ c.got = "none" /\ c.id = call[t].id
          /\ c.lost = call[t].lost /\ c.verdict = call[t].verdict
         
      BY <1>1 DEF Records, Stages, Answers
    <2>2. n = 0 /\ c.lost = 0 /\ c.verdict = "none" /\ c.id # 0
      BY <1>1, <1>2, <1>3, <2>1 DEF Fits, Idle
    <2>3. Fits(c, n)
      BY <2>1, <2>2 DEF Fits, Idle
    <2>4. Go(t, c)
      BY <1>3 DEF Received401
    <2> QED
      BY <1>2, <2>1, <2>3, <2>4, StepWithin
  <1>4. CASE ~(call[t].pc = "first" /\ RetriesOn401)
    <2>1. n \in {0, 1, 2} /\ (call[t].lost = 0 => n = 0)
      BY <1>1, <1>2 DEF Fits, Idle
    <2>2. Go(t, End(call[t], "error")) /\ "error" \in Verdicts
      BY <1>4 DEF Received401, Verdicts
    <2> QED
      BY <1>1, <1>2, <2>1, <2>2, EndInv
  <1> QED
    BY <1>3, <1>4

LEMMA LostInv == ASSUME Inv, NEW t \in Callers, Lost(t) PROVE Inv'
  <1> PICK n : n = Count(tasks, call[t].id)
    OBVIOUS
  <1> PICK l : l = call[t].lost + 1
    OBVIOUS
  <1>1. call[t] \in Records /\ call[t].lost \in Nat /\ n \in Nat /\ Fits(call[t], n)
    BY CallFacts
  <1>2. call[t].pc \in {"first", "second"} /\ UNCHANGED <<location, tasks, calls>>
    BY DEF Lost, Attempting
  <1>3. l \in Nat /\ l # 0 /\ (call[t].lost = 0 => l = 1)
    BY <1>1
  <1>4. CASE call[t].pc = "first"
    <2> PICK f : f = [call[t] EXCEPT !.pc = "failover", !.got = "none", !.lost = l]
      OBVIOUS
    <2>1. /\ f \in Records /\ f.pc = "failover" /\ f.got = "none" /\ f.id = call[t].id
          /\ f.lost = l /\ f.verdict = call[t].verdict
      BY <1>1, <1>3 DEF Records, Stages, Answers
    <2>2. call[t].lost = 0 /\ n \in {0, 1} /\ f.verdict = "none" /\ f.id # 0
      BY <1>1, <1>4, <2>1 DEF Fits, Idle
    <2>3. Fits(f, n)
      BY <1>3, <2>1, <2>2 DEF Fits, Idle
    <2>4. Go(t, f)
      BY <1>4 DEF Lost
    <2> QED
      BY <1>2, <2>1, <2>3, <2>4, StepWithin
  <1>5. CASE call[t].pc = "second"
    <2> PICK c : c = [call[t] EXCEPT !.lost = l]
      OBVIOUS
    <2>1. c \in Records /\ c.id = call[t].id /\ c.lost = l
      BY <1>1, <1>3 DEF Records
    <2>2. n \in {0, 1, 2} /\ c.lost # 0
      BY <1>1, <1>3, <1>5, <2>1 DEF Fits, Idle
    <2>3. Go(t, End(c, "lost")) /\ "lost" \in Verdicts
      BY <1>5 DEF Lost, Verdicts
    <2> QED
      BY <1>2, <2>1, <2>2, <2>3, EndInv
  <1> QED
    BY <1>2, <1>4, <1>5

LEMMA RetryInv ==
    ASSUME Inv, NEW t \in Callers, LoggedIn(t) \/ FailedOver(t)
    PROVE  Inv'
  <1> PICK n : n = Count(tasks, call[t].id)
    OBVIOUS
  <1> PICK c : c = [call[t] EXCEPT !.pc = "second"]
    OBVIOUS
  <1>1. call[t] \in Records /\ call[t].lost \in Nat /\ n \in Nat /\ Fits(call[t], n)
    BY CallFacts
  <1>2. call[t].pc \in {"relogin", "failover"} /\ UNCHANGED <<location, tasks, calls>>
    BY DEF LoggedIn, FailedOver
  <1>3. /\ c \in Records /\ c.pc = "second" /\ c.got = call[t].got /\ c.id = call[t].id
        /\ c.lost = call[t].lost /\ c.verdict = call[t].verdict
       
    BY <1>1 DEF Records, Stages
  <1>4. /\ c.got = "none" /\ c.verdict = "none" /\ c.id # 0 /\ c.lost \in {0, 1}
        /\ (c.lost = 0 => n = 0) /\ (c.lost = 1 => n \in {0, 1})
        /\ (call[t].pc = "relogin" => n = 0)
    BY <1>1, <1>2, <1>3 DEF Fits, Idle
  <1>5. CASE Go(t, c)
    <2>1. Fits(c, n)
      BY <1>1, <1>3, <1>4 DEF Fits, Idle
    <2> QED
      BY <1>2, <1>3, <1>5, <2>1, StepWithin
  <1>6. CASE Go(t, End(call[t], "error")) /\ call[t].pc = "relogin"
    BY <1>1, <1>2, <1>4, <1>6, EndInv DEF Verdicts
  <1>7. CASE Go(t, End(call[t], "lost"))
    <2>1. n \in {0, 1, 2} /\ (call[t].lost = 0 => n \in {0, 1}) /\ "lost" \in Verdicts
      BY <1>1, <1>3, <1>4 DEF Verdicts
    <2> QED
      BY <1>1, <1>2, <1>7, <2>1, EndInv
  <1> QED
    BY <1>5, <1>6, <1>7 DEF LoggedIn, FailedOver

LEMMA RefuseInv ==
    ASSUME Inv, NEW t \in Callers, Refuse(t) \/ RefuseTicket(t)
    PROVE  Inv'
  <1> PICK n : n = Count(tasks, call[t].id)
    OBVIOUS
  <1> PICK a : a \in {"error", "401"} /\ Go(t, [call[t] EXCEPT !.got = a])
    BY DEF Refuse, RefuseTicket
  <1> PICK c : c = [call[t] EXCEPT !.got = a]
    OBVIOUS
  <1>1. call[t] \in Records /\ n \in Nat /\ Fits(call[t], n)
    BY CallFacts
  <1>2. call[t].pc \in {"first", "second"} /\ call[t].got = "none"
        /\ UNCHANGED <<location, tasks, calls>>
    BY DEF Refuse, RefuseTicket, Awaiting, Attempting
  <1>3. /\ c \in Records /\ c.pc = call[t].pc /\ c.got = a /\ c.id = call[t].id
        /\ c.lost = call[t].lost /\ c.verdict = call[t].verdict
       
    BY <1>1 DEF Records, Answers
  <1>4. Fits(c, n)
    BY <1>1, <1>2, <1>3 DEF Fits, Idle
  <1> QED
    BY <1>2, <1>3, <1>4, StepWithin

LEMMA RelocateInv == ASSUME Inv, Relocate PROVE Inv'
  <1>1. location' \in [Machines -> Places] /\ UNCHANGED <<tasks, calls, call>>
    BY DEF Relocate, Inv, CommandsTypeOK
  <1> QED
    BY <1>1 DEF Inv, CommandsTypeOK, Fitting, NumberedApart, CopiesCounted

LEMMA NextInv == Inv /\ [CommandsNext]_commandVars => Inv'
  <1> SUFFICES ASSUME Inv, [CommandsNext]_commandVars PROVE Inv'
    OBVIOUS
  <1>1. CASE UNCHANGED commandVars
    BY <1>1 DEF commandVars, Inv, CommandsTypeOK, Fitting, NumberedApart, CopiesCounted
  <1>2. CASE CommandsNext
    BY <1>2, BeginInv, ReceivedInv, Received401Inv, LostInv, RetryInv, StepQueues,
       RefuseInv, RelocateInv DEF CommandsNext
  <1> QED
    BY <1>1, <1>2

LEMMA AlwaysInv == CommandsSpec => []Inv
  BY InitInv, NextInv, PTL DEF CommandsSpec

\* Every caller of every call, in every behaviour: the calls are records of the
\* types declared, and every task belongs to a call that was made.
THEOREM TypeCorrect == CommandsSpec => []CommandsTypeOK
  <1>1. Inv => CommandsTypeOK
    BY DEF Inv
  <1> QED
    BY <1>1, AlwaysInv, PTL

\* However many callers and calls there are, request() never has a command
\* queued more than twice, and twice only where an answer was lost.
THEOREM RunsTwiceOnlyAfterALoss == CommandsSpec => []TwiceOnlyAfterALoss
  <1>1. Inv => TwiceOnlyAfterALoss
    <2> SUFFICES ASSUME Inv, NEW t \in Callers, NEW n, n = Count(tasks, call[t].id)
                 PROVE  n <= 2 /\ n <= 1 + call[t].lost
      BY DEF TwiceOnlyAfterALoss, Count
    <2>1. call[t] \in Records /\ call[t].lost \in Nat /\ n \in Nat /\ Fits(call[t], n)
      BY CallFacts
    <2>2. call[t].pc \in {Idle, "first", "relogin", "failover", "second"}
      BY <2>1 DEF Records, Stages
    <2>3. n \in {0, 1, 2} /\ (call[t].lost = 0 => n \in {0, 1})
      BY <2>1, <2>2 DEF Fits, Idle
    <2> QED
      BY <2>1, <2>3
  <1> QED
    BY <1>1, AlwaysInv, PTL

\* The caller of an endpoint that changes the cluster is told a task id only for
\* a command that was queued, and, where no answer was lost, an error only for
\* one that was not.
THEOREM VerdictsAreHonest == CommandsSpec => []VerdictIsHonest
  <1>1. Inv => VerdictIsHonest
    <2> SUFFICES ASSUME Inv, NEW t \in Callers
                 PROVE  /\ call[t].verdict = "task id" => CopiesOf(tasks, call[t].id) # {}
                        /\ call[t].verdict \in {"error", "ProxmoxError", "TypeError"}
                           /\ call[t].lost = 0 => CopiesOf(tasks, call[t].id) = {}
      BY DEF VerdictIsHonest
    <2> PICK n : n = Count(tasks, call[t].id)
      OBVIOUS
    <2>1. Fits(call[t], n) /\ n \in Nat
      BY CallFacts
    <2>2. n = 0 <=> CopiesOf(tasks, call[t].id) = {}
      BY CopiesFacts, FS_EmptySet DEF Inv, CopiesCounted, Count
    <2>3. /\ call[t].verdict = "task id" => n \in {1, 2}
          /\ call[t].verdict \in {"error", "ProxmoxError", "TypeError"}
             /\ call[t].lost = 0 => n = 0
      BY <2>1 DEF Fits, Idle
    <2>4. n \in {1, 2} => n # 0
      OBVIOUS
    <2> QED
      BY <2>2, <2>3, <2>4
  <1> QED
    BY <1>1, AlwaysInv, PTL

-------------------------------------------------------------------------------
(* The composition: an instance is about one of the parts, and leaves the   *)
(* others as they began.                                                    *)

LEMMA PartsBegin ==
  Init => /\ SummaryInit /\ StorageInit /\ HAInit /\ MasterInit
          /\ FilesystemsInit /\ InterfacesInit
          /\ GrantsInit /\ AskedInit /\ SmartInit /\ ReplicationInit /\ ReportsInit
          /\ BackupInit /\ SchemaInit /\ CommandsInit
  BY DEF Init

LEMMA StorageGoesOn == [Next]_vars => [StorageNext]_storageVars
  BY DEF Next, Unless, vars, reportVars, storageVars
LEMMA SummaryGoesOn == [Next]_vars => [SummaryNext]_summaryVars
  BY DEF Next, Unless, vars, reportVars, summaryVars
LEMMA HAGoesOn == [Next]_vars => [HANext]_haVars
  BY DEF Next, Unless, vars, reportVars, haVars
LEMMA MasterGoesOn == [Next]_vars => [MasterNext]_masterVars
  BY DEF Next, Unless, vars, reportVars, masterVars
LEMMA FilesystemsGoOn == [Next]_vars => [FilesystemsNext]_filesystems
  BY DEF Next, Unless, vars, reportVars
LEMMA InterfacesGoOn == [Next]_vars => [InterfacesNext]_interfaces
  BY DEF Next, Unless, vars, reportVars
LEMMA GrantsGoOn == [Next]_vars => [GrantsNext]_granted
  BY DEF Next, Unless, vars, reportVars
LEMMA AskingGoesOn == [Next]_vars => [AskedNext]_asked
  BY DEF Next, Unless, vars, reportVars
LEMMA SmartGoesOn == [Next]_vars => [SmartNext]_smart
  BY DEF Next, Unless, vars, reportVars
LEMMA ReplicationGoesOn == [Next]_vars => [ReplicationNext]_replicationVars
  BY DEF Next, Unless, vars, reportVars, replicationVars
LEMMA ListsGoOn == [Next]_vars => [ReportsNext]_listVars
  BY DEF Next, Unless, vars, reportVars, listVars
LEMMA BackupsGoOn == [Next]_vars => [BackupNext]_logVars
  BY DEF Next, Unless, vars, reportVars, logVars
LEMMA SchemaGoesOn == [Next]_vars => [SchemaNext]_schemaVars
  BY DEF Next, Unless, vars, reportVars, schemaVars
LEMMA CommandsGoOn == [Next]_vars => [CommandsNext]_commandVars
  BY DEF Next, Unless, vars, commandVars

LEMMA ReportsAreParts ==
  Spec => /\ SummarySpec /\ StorageSpec /\ HASpec /\ MasterSpec
          /\ FilesystemsSpec /\ InterfacesSpec
<1>1. Spec => SummarySpec
  BY PartsBegin, SummaryGoesOn, PTL DEF Spec, SummarySpec
<1>2. Spec => StorageSpec
  BY PartsBegin, StorageGoesOn, PTL DEF Spec, StorageSpec
<1>3. Spec => HASpec
  BY PartsBegin, HAGoesOn, PTL DEF Spec, HASpec
<1>4. Spec => FilesystemsSpec
  BY PartsBegin, FilesystemsGoOn, PTL DEF Spec, FilesystemsSpec
<1>5. Spec => InterfacesSpec
  BY PartsBegin, InterfacesGoOn, PTL DEF Spec, InterfacesSpec
<1>6. Spec => MasterSpec
  BY PartsBegin, MasterGoesOn, PTL DEF Spec, MasterSpec
<1> QED
  BY <1>1, <1>2, <1>3, <1>4, <1>5, <1>6

LEMMA ListsAreParts ==
  Spec => SmartSpec /\ ReplicationSpec /\ ReportsSpec /\ BackupSpec
<1>1. Spec => SmartSpec
  BY PartsBegin, SmartGoesOn, PTL DEF Spec, SmartSpec
<1>2. Spec => ReplicationSpec
  BY PartsBegin, ReplicationGoesOn, PTL DEF Spec, ReplicationSpec
<1>3. Spec => ReportsSpec
  BY PartsBegin, ListsGoOn, PTL DEF Spec, ReportsSpec
<1>4. Spec => BackupSpec
  BY PartsBegin, BackupsGoOn, PTL DEF Spec, BackupSpec
<1> QED
  BY <1>1, <1>2, <1>3, <1>4

LEMMA RequestsAreParts ==
  Spec => GrantsSpec /\ AskedSpec /\ SchemaSpec /\ CommandsSpec
<1>1. Spec => GrantsSpec
  BY PartsBegin, GrantsGoOn, PTL DEF Spec, GrantsSpec
<1>2. Spec => AskedSpec
  BY PartsBegin, AskingGoesOn, PTL DEF Spec, AskedSpec
<1>3. Spec => SchemaSpec
  BY PartsBegin, SchemaGoesOn, PTL DEF Spec, SchemaSpec
<1>4. Spec => CommandsSpec
  BY PartsBegin, CommandsGoOn, PTL DEF Spec, CommandsSpec
<1> QED
  BY <1>1, <1>2, <1>3, <1>4

LEMMA GuestIsTyped == FilesystemsSpec /\ InterfacesSpec => []GuestTypeOK
<1> DEFINE Few == Len(filesystems) <= MaxMounts
<1>1. FilesystemsInit => FilesystemsInv /\ Few
  BY GuestReportAssumption DEF FilesystemsInit, FilesystemsInv
<1>2. FilesystemsInv /\ Few /\ [FilesystemsNext]_filesystems => Few'
  BY GuestReportAssumption DEF FilesystemsInv, FilesystemsNext, Mount
<1>3. FilesystemsSpec => [](FilesystemsInv /\ Few)
  <2> HIDE DEF Few
  <2> QED
    BY <1>1, <1>2, FilesystemsInvNext, PTL DEF FilesystemsSpec
<1>4. InterfacesInit => InterfacesInv
  BY DEF InterfacesInit, InterfacesInv
<1>5. InterfacesSpec => []InterfacesInv
  BY <1>4, InterfacesInvNext, PTL DEF InterfacesSpec
<1>6. ASSUME FilesystemsInv, Few, InterfacesInv PROVE GuestTypeOK
  <2>1. \A f \in Range(filesystems) : f \in Filesystems
    BY <1>6 DEF FilesystemsInv, Range
  <2>2. \A i \in Range(interfaces) : i \in GuestInterfaces
    BY <1>6 DEF InterfacesInv, Range
  <2>3. ASSUME NEW i \in GuestInterfaces
        PROVE  i.name \in Interfaces /\ Range(i.addresses) \subseteq Addresses
    BY DEF GuestInterfaces, Range
  <2> QED
    BY <1>6, <2>1, <2>2, <2>3 DEF GuestTypeOK
<1> QED
  <2> HIDE DEF Few
  <2> QED
    BY <1>3, <1>5, <1>6, PTL

LEMMA AccessIsTyped == GrantsSpec /\ AskedSpec => []AccessTypeOK
<1> DEFINE Once == \A g, h \in granted : <<g[1], g[2]>> = <<h[1], h[2]>> => g = h
           Askable == asked.method \in Methods /\ asked.changes \in 0..MaxChanges
<1>1. GrantsInit => GrantsInv /\ Once
  BY DEF GrantsInit, GrantsInv
<1>2. GrantsInv /\ Once /\ [GrantsNext]_granted => GrantsInv' /\ Once'
  BY DEF GrantsInv, GrantsNext, Grant, Revoke
<1>3. GrantsSpec => [](GrantsInv /\ Once)
  <2> HIDE DEF Once
  <2> QED
    BY <1>1, <1>2, PTL DEF GrantsSpec
<1>4. AskedInit => Askable
  BY AccessAssumption DEF AskedInit
<1>5. ASSUME Askable, [AskedNext]_asked PROVE Askable'
  <2>1. CASE AskRoute
    <3>1. PICK r \in Range(CHECKS) : asked'.method = r.method /\ asked'.changes = 0
      BY <2>1 DEF AskRoute
    <3> QED
      BY <3>1, TableAssumption, AccessAssumption
  <2>2. CASE AskOther
    <3>1. asked'.method \in Methods \/ asked'.method = asked.method
      BY <2>2 DEF AskOther
    <3>2. asked'.changes = asked.changes + 1 /\ asked.changes < MaxChanges
      BY <2>2 DEF AskOther
    <3> QED
      BY <1>5, <3>1, <3>2, AccessAssumption
  <2>3. CASE UNCHANGED asked
    BY <1>5, <2>3
  <2> QED
    BY <1>5, <2>1, <2>2, <2>3 DEF AskedNext
<1>6. AskedSpec => []Askable
  <2> HIDE DEF Askable
  <2> QED
    BY <1>4, <1>5, PTL DEF AskedSpec
<1>7. GrantsInv /\ Once /\ Askable => AccessTypeOK
  BY AccessAssumption DEF GrantsInv, AccessTypeOK
<1> QED
  <2> HIDE DEF Once, Askable
  <2> QED
    BY <1>3, <1>6, <1>7, PTL

LEMMA NodeIsTyped == SmartSpec /\ ReplicationSpec => []NodeTypeOK
<1>1. SmartInit => SmartInv
  BY EmptySeq DEF SmartInit, SmartInv
<1>2. SmartSpec => []SmartInv
  BY <1>1, SmartInvNext, PTL DEF SmartSpec
<1>3. ReplicationSpec => []ReplicationInv
  BY ReplicationInvInit, ReplicationInvNext, PTL DEF ReplicationSpec
<1>4. ASSUME SmartInv, ReplicationInv PROVE NodeTypeOK
  <2>1. smart.attributes \in Seq(Attributes) /\ smart.text \in Seq(Lines)
    BY <1>4 DEF SmartInv
  <2>2. \A a \in Range(smart.attributes) : a \in Attributes
    BY <2>1 DEF Range
  <2>3. \A l \in Range(smart.text) : l \in Lines
    BY <2>1 DEF Range
  <2> QED
    BY <1>4, <2>2, <2>3 DEF NodeTypeOK, ReplicationInv
<1> QED
  BY <1>2, <1>3, <1>4, PTL

LEMMA ListsAreTyped == ReportsSpec => []ReportsTypeOK
<1>1. ReportsSpec => []ReportsInv
  BY ReportsInvInit, ReportsInvNext, PTL DEF ReportsSpec
<1>2. ASSUME ReportsInv PROVE ReportsTypeOK
  <2>1. about \in Kinds /\ listing \in Seq(AllEntries(about))
    BY <1>2 DEF ReportsInv
  <2>2. Range(listing) \subseteq AllEntries(about)
    BY <2>1 DEF Range
  <2>3. about \in DOMAIN Names
    BY <2>1 DEF Kinds, Names
  <2> QED
    BY <2>2, <2>3 DEF ReportsTypeOK, AllEntries
<1> QED
  BY <1>1, <1>2, PTL

\* The type of all the parts together.
THEOREM DashboardTypeCorrect == Spec => []TypeOK
<1>1. Spec => [](subject \in Subjects)
  <2>1. Init => subject \in Subjects
    BY DEF Init
  <2>2. subject \in Subjects /\ [Next]_vars => (subject \in Subjects)'
    BY DEF Next, vars
  <2> QED
    BY <2>1, <2>2, PTL DEF Spec
<1>2. Spec => [](SummaryTypeOK /\ StorageTypeOK /\ HATypeOK /\ MasterTypeOK)
  <2>1. SummaryInv => SummaryTypeOK
    BY DEF SummaryInv, RowsOK, SummaryTypeOK
  <2>2. SummarySpec => []SummaryTypeOK
    BY <2>1, AlwaysSummaryInv, PTL
  <2>3. StorageSpec => []StorageTypeOK
    BY MountsCarryNoFigure
  <2> QED
    BY <2>2, <2>3, ReportsAreParts, HATypeCorrect, MasterIsNeverMisjudged, PTL
<1>3. Spec => [](GuestTypeOK /\ AccessTypeOK)
  BY ReportsAreParts, RequestsAreParts, GuestIsTyped, AccessIsTyped, PTL
<1>4. Spec => [](NodeTypeOK /\ ReportsTypeOK)
  BY ListsAreParts, NodeIsTyped, ListsAreTyped, PTL
<1>5. BackupInv => BackupTypeOK
  BY DEF BackupInv
<1>6. Spec => [](BackupTypeOK /\ SchemaTypeOK /\ CommandsTypeOK)
  BY <1>5, ListsAreParts, RequestsAreParts, AlwaysBackupInv, SchemaIsTyped, TypeCorrect, PTL
<1>7. /\ subject \in Subjects
      /\ SummaryTypeOK /\ StorageTypeOK /\ HATypeOK /\ MasterTypeOK
      /\ GuestTypeOK /\ AccessTypeOK
      /\ NodeTypeOK /\ ReportsTypeOK
      /\ BackupTypeOK /\ SchemaTypeOK /\ CommandsTypeOK
      => TypeOK
  BY DEF TypeOK
<1> QED
  BY <1>1, <1>2, <1>3, <1>4, <1>6, <1>7, PTL

\* What is proved of the parts, of the composition that the run checks.
THEOREM DashboardDoesNotMislead ==
  Spec => /\ [](FiguresAreOfTheLiving /\ MasterIsNotMisjudged)
          /\ OutageIsNoRelief /\ AMountLostChangesNoFigure /\ DisarmingHidesNothing
          /\ MountedAgainChangesNothing /\ PrimaryChangesWithCause
          /\ NoiseChangesNothing /\ LagIsNotHidden /\ BackupShownIsTheLastOne
<1>1. Spec => [](FiguresAreOfTheLiving /\ MasterIsNotMisjudged)
  BY ReportsAreParts, SummaryIsOfTheLiving, MasterIsNeverMisjudged, PTL
<1>2. Spec => OutageIsNoRelief /\ AMountLostChangesNoFigure /\ DisarmingHidesNothing
  BY ReportsAreParts, OutageIsNeverRelief, MountsCarryNoFigure, DisarmingNeverHides
<1>3. Spec => MountedAgainChangesNothing /\ PrimaryChangesWithCause
  BY ReportsAreParts, RemountsChangeNothing, PrimaryChangesOnlyWithCause
<1>4. Spec => NoiseChangesNothing /\ LagIsNotHidden /\ BackupShownIsTheLastOne
  BY ListsAreParts, NoiseIsNotShown, LagIsNeverHidden, LastBackupIsShown
<1> QED
  BY <1>1, <1>2, <1>3, <1>4

\* The same of what may be called and what commands do: what the client works out
\* of a right is what Proxmox decides, a path finds its own route, tests that pass
\* mean that the table says what the schema does, and commands run twice only
\* where an answer was lost.
THEOREM DashboardActsAsTold ==
  Spec => /\ RefusalIsForetold /\ RouteFindsItself
          /\ [](PassingTestsMeanAgreement /\ TwiceOnlyAfterALoss /\ VerdictIsHonest)
<1>1. Spec => RefusalIsForetold /\ RouteFindsItself
  BY RequestsAreParts, RefusalsAreForetold, RoutesFindThemselves
<1>2. Spec => [](PassingTestsMeanAgreement /\ TwiceOnlyAfterALoss)
  BY RequestsAreParts, PassingTestsAgree, RunsTwiceOnlyAfterALoss, PTL
<1>3. Spec => []VerdictIsHonest
  BY RequestsAreParts, VerdictsAreHonest
<1> QED
  BY <1>1, <1>2, <1>3, PTL
===============================================================================
