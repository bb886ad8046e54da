--------------------------- MODULE ProxmoxVEProofs ---------------------------
(***************************************************************************)
(* Theorems about ProxmoxVE, for any number of tasks and hosts.            *)
(*                                                                         *)
(* The first half is about the lock and who is where: Inv. The second half *)
(* is about the host list, the walks over it and the host in use, for      *)
(* lists that may grow at any moment but are replaced only between         *)
(* failovers.                                                              *)
(***************************************************************************)
EXTENDS ProxmoxVE, HostListProofs

-------------------------------------------------------------------------------
(* Sequences without repetition, as the queue of the lock is one.          *)

\* Taking the element at position i out.
LEMMA WithoutFacts ==
    ASSUME NEW S, NEW s \in Seq(S), NEW i \in 1..Len(s), IsInjective(s)
    PROVE  /\ Without(s, i) \in Seq(S) /\ IsInjective(Without(s, i))
           /\ Range(Without(s, i)) = Range(s) \ {s[i]}
           /\ i # 1 => Without(s, i)[1] = s[1]
<1> DEFINE w == Without(s, i)
<1> DEFINE a == SubSeq(s, 1, i - 1)
           b == SubSeq(s, i + 1, Len(s))
<1>0. /\ a \in Seq(S) /\ Len(a) = i - 1 /\ \A j \in 1..(i - 1) : a[j] = s[j]
      /\ b \in Seq(S) /\ Len(b) = Len(s) - i /\ Len(s) \in Nat /\ i \in Nat
      /\ \A j \in 1..(Len(s) - i) : b[j] = s[i + j]
  OBVIOUS
<1>1. /\ w \in Seq(S) /\ Len(w) = Len(s) - 1
      /\ \A j \in 1..(i - 1) : w[j] = s[j]
      /\ \A j \in i..(Len(s) - 1) : w[j] = s[j + 1]
  <2>1. w = a \o b
    BY DEF Without
  <2> HIDE DEF a, b, w
  <2>2. w \in Seq(S)
    BY <1>0, <2>1, ConcatProperties
  <2>3. Len(w) = Len(a) + Len(b)
    BY <1>0, <2>1, ConcatProperties
  <2>4. \A j \in 1..(Len(a) + Len(b)) : w[j] = IF j <= Len(a) THEN a[j] ELSE b[j - Len(a)]
    BY <1>0, <2>1, ConcatProperties
  <2>5. ASSUME NEW j \in 1..(i - 1)
        PROVE  w[j] = s[j]
    <3>1. j \in 1..(Len(a) + Len(b)) /\ j <= Len(a)
      BY <1>0
    <3> QED
      BY <1>0, <2>4, <3>1
  <2>6. ASSUME NEW j \in i..(Len(s) - 1)
        PROVE  w[j] = s[j + 1]
    <3>1. j \in 1..(Len(a) + Len(b)) /\ ~(j <= Len(a)) /\ j - Len(a) \in 1..(Len(s) - i)
      BY <1>0
    <3>2. i + (j - Len(a)) = j + 1
      BY <1>0
    <3> QED
      BY <1>0, <2>4, <3>1, <3>2
  <2> QED
    BY <1>0, <2>2, <2>3, <2>5, <2>6
<1> HIDE DEF w, a, b
<1>2. DOMAIN w = 1..(Len(s) - 1) /\ DOMAIN s = 1..Len(s)
  BY <1>0, <1>1
<1>3. IsInjective(w)
  <2> SUFFICES ASSUME NEW j \in 1..(Len(s) - 1), NEW k \in 1..(Len(s) - 1), w[j] = w[k]
               PROVE  j = k
    BY <1>2 DEF IsInjective
  <2>1. \A x, y \in 1..Len(s) : s[x] = s[y] => x = y
    BY <1>2 DEF IsInjective
  <2>2. CASE j < i /\ k < i
    BY <1>0, <1>1, <2>1, <2>2
  <2>3. CASE j < i /\ k >= i
    <3>1. w[j] = s[j] /\ w[k] = s[k + 1] /\ j \in 1..Len(s) /\ k + 1 \in 1..Len(s)
      BY <1>0, <1>1, <2>3
    <3>2. s[j] = s[k + 1]
      BY <3>1
    <3>3. j = k + 1
      BY <2>1, <3>1, <3>2
    <3> QED
      BY <1>0, <2>3, <3>3
  <2>4. CASE j >= i /\ k < i
    <3>1. w[j] = s[j + 1] /\ w[k] = s[k] /\ j + 1 \in 1..Len(s) /\ k \in 1..Len(s)
      BY <1>0, <1>1, <2>4
    <3>2. s[j + 1] = s[k]
      BY <3>1
    <3>3. j + 1 = k
      BY <2>1, <3>1, <3>2
    <3> QED
      BY <1>0, <2>4, <3>3
  <2>5. CASE j >= i /\ k >= i
    <3>1. w[j] = s[j + 1] /\ w[k] = s[k + 1] /\ j + 1 \in 1..Len(s) /\ k + 1 \in 1..Len(s)
      BY <1>0, <1>1, <2>5
    <3>2. s[j + 1] = s[k + 1]
      BY <3>1
    <3>3. j + 1 = k + 1
      BY <2>1, <3>1, <3>2
    <3> QED
      BY <1>0, <2>5, <3>3
  <2> QED
    BY <1>0, <2>2, <2>3, <2>4, <2>5
<1>4. Range(w) \subseteq Range(s) \ {s[i]}
  <2> SUFFICES ASSUME NEW j \in 1..(Len(s) - 1) PROVE w[j] \in Range(s) \ {s[i]}
    BY <1>2 DEF Range
  <2>1. CASE j < i
    <3>1. w[j] = s[j] /\ j \in 1..Len(s) /\ j # i
      BY <1>1, <2>1
    <3> QED
      BY <1>2, <3>1 DEF Range, IsInjective
  <2>2. CASE j >= i
    <3>1. w[j] = s[j + 1] /\ j + 1 \in 1..Len(s) /\ j + 1 # i
      BY <1>1, <2>2
    <3> QED
      BY <1>2, <3>1 DEF Range, IsInjective
  <2>3. i \in Nat /\ j \in Nat
    BY <1>1
  <2> QED
    BY <2>1, <2>2, <2>3
<1>5. Range(s) \ {s[i]} \subseteq Range(w)
  <2> SUFFICES ASSUME NEW j \in 1..Len(s), s[j] # s[i] PROVE s[j] \in Range(w)
    BY <1>2 DEF Range
  <2>1. CASE j < i
    <3>1. j \in 1..(Len(s) - 1) /\ w[j] = s[j]
      BY <1>1, <2>1
    <3> QED
      BY <1>2, <3>1 DEF Range
  <2>2. CASE j > i
    <3>1. j - 1 \in 1..(Len(s) - 1) /\ w[j - 1] = s[j]
      BY <1>1, <2>2
    <3> QED
      BY <1>2, <3>1 DEF Range
  <2> QED
    BY <1>1, <2>1, <2>2
<1>6. i # 1 => w[1] = s[1]
  BY <1>1
<1> QED
  BY <1>1, <1>3, <1>4, <1>5, <1>6 DEF w

-------------------------------------------------------------------------------
(* The frames a step leaves behind.                                        *)

InLock == Probes \cup {"lock"}

LEMMA AwaitFacts ==
    ASSUME NEW c \in Frames, baseUrl \in Hosts, NEW p \in PCs
    PROVE  /\ Await(c, p) \in Frames /\ Await(c, p).pc = p
           /\ Await(c, p).to = baseUrl /\ Await(c, p).why = c.why
  BY DEF Await, Frames, Records, Entries

LEMMA IdleFacts == Idle \in Frames /\ Idle.pc = "idle"
  BY DEF Idle, Frames, Records, PCs, Entries

LEMMA SendFacts ==
    ASSUME NEW c \in Frames, baseUrl \in Hosts
    PROVE  Send(c) \in Frames /\ Send(c).pc \in {"request", "idle"}
  BY AwaitFacts, IdleFacts DEF Send, PCs, Requests

LEMMA RefreshFacts ==
    ASSUME NEW c \in Frames, baseUrl \in Hosts
    PROVE  Refresh(c) \in Frames /\ Refresh(c).pc \in {"renew", "request", "idle"}
  BY AwaitFacts, SendFacts DEF Refresh, PCs, TicketCalls

LEMMA NotedFacts ==
    ASSUME NEW c \in Frames, c.pc # "idle"
    PROVE  /\ Noted(c) \in Frames /\ Noted(c).pc = c.pc
           /\ Noted(c).to = c.to /\ Noted(c).why = c.why
  BY DEF Noted, Frames, Records, Entries

-------------------------------------------------------------------------------
(* The lock. Each way a step may treat the queue keeps LockDiscipline.     *)

Inv == TypeOK /\ LockDiscipline

\* The task that probes, if there is one, is the first of the queue.
LEMMA OwnerFacts ==
    ASSUME Inv, NEW t \in Tasks
    PROVE  /\ frame[t].pc \in InLock <=> t \in Range(lockQ)
           /\ frame[t].pc \in InLock => lockQ # << >>
           /\ frame[t].pc \in Probes => lockQ[1] = t /\ walk # NoWalk
           /\ lockQ # << >> => lockQ[1] \in Tasks /\ lockQ[1] \in Range(lockQ)
           /\ lockQ = << >> => walk = NoWalk
           /\ frame[t].pc = "lock" /\ lockQ[1] = t => walk = NoWalk
<1>1. lockQ \in Seq(Tasks) /\ DOMAIN lockQ = 1..Len(lockQ)
  BY DEF Inv, TypeOK
<1>2. Range(<< >>) = {}
  BY DEF Range
<1>3. \A u \in Tasks : frame[u].pc \in InLock <=> u \in Range(lockQ)
  BY DEF Inv, LockDiscipline, InLock
<1>4. lockQ # << >> => lockQ[1] \in Tasks /\ lockQ[1] \in Range(lockQ)
  BY <1>1 DEF Range
<1>5. frame[t].pc \in InLock => lockQ # << >>
  BY <1>2, <1>3
<1>6. frame[t].pc \in Probes => lockQ[1] = t /\ walk # NoWalk
  BY DEF Inv, LockDiscipline
<1>7. lockQ = << >> => walk = NoWalk
  BY <1>2, <1>3 DEF Inv, LockDiscipline, InLock
<1>8. frame[t].pc = "lock" /\ lockQ[1] = t => walk = NoWalk
  BY DEF Inv, LockDiscipline, Probes
<1> QED
  BY <1>3, <1>4, <1>5, <1>6, <1>7, <1>8

\* The general form: one task's frame changes, and the queue with it.
LEMMA LockStep ==
    ASSUME Inv, NEW t \in Tasks, NEW d \in Frames, frame' = [frame EXCEPT ![t] = d],
           IsInjective(lockQ'),
           Range(lockQ') = IF d.pc \in InLock THEN Range(lockQ) \cup {t}
                                             ELSE Range(lockQ) \ {t},
           d.pc \in Probes => lockQ'[1] = t,
           \A u \in Tasks \ {t} : frame[u].pc \in Probes => lockQ'[1] = u,
           walk' # NoWalk <=> \/ d.pc \in Probes
                             \/ \E u \in Tasks \ {t} : frame[u].pc \in Probes
    PROVE  LockDiscipline'
<1>1. frame'[t] = d /\ \A u \in Tasks \ {t} : frame'[u] = frame[u]
  BY DEF Inv, TypeOK
<1>2. \A u \in Tasks : frame'[u].pc \in InLock <=> u \in Range(lockQ')
  BY <1>1 DEF Inv, LockDiscipline, InLock
<1>3. \A u \in Tasks : frame'[u].pc \in Probes => lockQ'[1] = u
  BY <1>1
<1>4. walk' # NoWalk <=> \E u \in Tasks : frame'[u].pc \in Probes
  BY <1>1
<1> QED
  BY <1>2, <1>3, <1>4 DEF LockDiscipline, InLock

\* Steps of a task outside failover().
LEMMA StaysOutside ==
    ASSUME Inv, NEW t \in Tasks, NEW d \in Frames, frame' = [frame EXCEPT ![t] = d],
           frame[t].pc \notin InLock, d.pc \notin InLock,
           UNCHANGED <<lockQ, walk>>
    PROVE  LockDiscipline'
<1>1. IsInjective(lockQ') /\ Range(lockQ') = Range(lockQ) \ {t}
  BY OwnerFacts DEF Inv, LockDiscipline
<1>2. frame[t].pc \notin Probes /\ d.pc \notin Probes
  BY DEF InLock
<1>3. walk' # NoWalk <=> \E u \in Tasks \ {t} : frame[u].pc \in Probes
  BY <1>2 DEF Inv, LockDiscipline
<1>4. \A u \in Tasks \ {t} : frame[u].pc \in Probes => lockQ'[1] = u
  BY DEF Inv, LockDiscipline
<1> QED
  BY <1>1, <1>2, <1>3, <1>4, LockStep

\* A free lock is taken and kept across an await.
LEMMA Acquires ==
    ASSUME Inv, NEW t \in Tasks, NEW d \in Frames, frame' = [frame EXCEPT ![t] = d],
           lockQ = << >>, lockQ' = <<t>>, d.pc \in Probes, walk' # NoWalk
    PROVE  LockDiscipline'
<1>1. DOMAIN <<t>> = {1} /\ <<t>>[1] = t
  OBVIOUS
<1>2. IsInjective(<<t>>) /\ Range(<<t>>) = {t} /\ Range(<< >>) = {}
  BY <1>1 DEF IsInjective, Range
<1>3. \A u \in Tasks : frame[u].pc \notin Probes
  BY OwnerFacts DEF InLock
<1>4. d.pc \in InLock
  BY DEF InLock
<1> QED
  BY <1>1, <1>2, <1>3, <1>4, LockStep

\* A lock that is not free is waited for.
LEMMA Joins ==
    ASSUME Inv, NEW t \in Tasks, NEW d \in Frames, frame' = [frame EXCEPT ![t] = d],
           frame[t].pc \notin InLock, d.pc = "lock",
           lockQ # << >>, lockQ' = Append(lockQ, t), UNCHANGED walk
    PROVE  LockDiscipline'
<1>1. lockQ \in Seq(Tasks) /\ IsInjective(lockQ) /\ t \notin Range(lockQ)
  BY OwnerFacts DEF Inv, TypeOK, LockDiscipline
<1>2. IsInjective(lockQ') /\ Range(lockQ') = Range(lockQ) \cup {t} /\ lockQ'[1] = lockQ[1]
  <2>1. 1 \in 1..Len(lockQ)
    BY <1>1
  <2> QED
    BY <1>1, <2>1, AppendFacts
<1>3. frame[t].pc \notin Probes /\ d.pc \notin Probes /\ d.pc \in InLock
  BY DEF InLock, Probes
<1>4. walk' # NoWalk <=> \E u \in Tasks \ {t} : frame[u].pc \in Probes
  BY <1>3 DEF Inv, LockDiscipline
<1>5. \A u \in Tasks \ {t} : frame[u].pc \in Probes => lockQ'[1] = u
  BY <1>2 DEF Inv, LockDiscipline
<1> QED
  BY <1>2, <1>3, <1>4, <1>5, LockStep

\* The owner goes on probing.
LEMMA Holds ==
    ASSUME Inv, NEW t \in Tasks, NEW d \in Frames, frame' = [frame EXCEPT ![t] = d],
           frame[t].pc \in InLock, lockQ[1] = t,
           UNCHANGED lockQ, d.pc \in Probes, walk' # NoWalk
    PROVE  LockDiscipline'
<1>1. IsInjective(lockQ') /\ Range(lockQ') = Range(lockQ) \cup {t} /\ lockQ'[1] = t
  BY OwnerFacts DEF Inv, LockDiscipline
<1>2. \A u \in Tasks \ {t} : frame[u].pc \notin Probes
  BY OwnerFacts
<1>3. d.pc \in InLock
  BY DEF InLock
<1> QED
  BY <1>1, <1>2, <1>3, LockStep

\* The owner leaves failover(), whichever way.
LEMMA Releases ==
    ASSUME Inv, NEW t \in Tasks, NEW d \in Frames, frame' = [frame EXCEPT ![t] = d],
           frame[t].pc \in InLock, lockQ[1] = t,
           lockQ' = Tail(lockQ), d.pc \notin InLock, walk' = NoWalk
    PROVE  LockDiscipline' /\ lockQ' \in Seq(Tasks)
<1>1. lockQ \in Seq(Tasks) /\ IsInjective(lockQ) /\ lockQ # << >>
  BY OwnerFacts DEF Inv, TypeOK, LockDiscipline
<1>2. /\ lockQ' \in Seq(Tasks) /\ IsInjective(lockQ')
      /\ Range(lockQ') = Range(lockQ) \ {t}
  BY <1>1, TailFacts
<1>3. \A u \in Tasks \ {t} : frame[u].pc \notin Probes
  BY OwnerFacts
<1>4. d.pc \notin Probes
  BY DEF InLock
<1> QED
  BY <1>2, <1>3, <1>4, LockStep

\* A task that is interrupted is taken out of the queue.
LEMMA Leaves ==
    ASSUME Inv, NEW t \in Tasks, NEW d \in Frames, frame' = [frame EXCEPT ![t] = d],
           NEW i \in 1..Len(lockQ), lockQ[i] = t, lockQ' = Without(lockQ, i),
           d.pc \notin InLock,
           walk' = IF frame[t].pc \in Probes THEN NoWalk ELSE walk
    PROVE  LockDiscipline' /\ lockQ' \in Seq(Tasks)
<1>1. lockQ \in Seq(Tasks) /\ IsInjective(lockQ)
  BY DEF Inv, TypeOK, LockDiscipline
<1>2. /\ lockQ' \in Seq(Tasks) /\ IsInjective(lockQ')
      /\ Range(lockQ') = Range(lockQ) \ {t}
      /\ i # 1 => lockQ'[1] = lockQ[1]
  BY <1>1, WithoutFacts
<1>3. d.pc \notin Probes
  BY DEF InLock
<1>4. CASE i = 1
  <2>1. \A u \in Tasks \ {t} : frame[u].pc \notin Probes
    BY <1>4, OwnerFacts
  <2>2. walk' = NoWalk
    BY <2>1 DEF Inv, LockDiscipline
  <2> QED
    BY <1>2, <1>3, <2>1, <2>2, LockStep
<1>5. CASE i # 1
  <2>1. frame[t].pc \notin Probes
    <3>1. 1 \in DOMAIN lockQ /\ i \in DOMAIN lockQ
      BY <1>1
    <3>2. lockQ[1] # t
      BY <1>1, <1>5, <3>1 DEF IsInjective
    <3> QED
      BY <3>2, OwnerFacts
  <2>2. walk' # NoWalk <=> \E u \in Tasks \ {t} : frame[u].pc \in Probes
    BY <2>1 DEF Inv, LockDiscipline
  <2>3. \A u \in Tasks \ {t} : frame[u].pc \in Probes => lockQ'[1] = u
    BY <1>2, <1>5 DEF Inv, LockDiscipline
  <2> QED
    BY <1>2, <1>3, <2>2, <2>3, LockStep
<1> QED
  BY <1>4, <1>5

-------------------------------------------------------------------------------
(* failover().                                                             *)

LEMMA ModuloFacts ==
    ASSUME NEW a \in Nat, NEW n \in Nat \ {0}
    PROVE  a % n \in 0..(n - 1)
  OBVIOUS

\* What a step of a failover leaves the variables of the walk with.
WalkTypes == index' \in Nat /\ baseUrl' \in Hosts /\ walk' \in Walks

LEMMA AskFacts ==
    ASSUME TypeOK, NEW t \in Tasks, NEW c \in Frames, NEW start \in Nat, NEW k \in Nat,
           NEW list \in Seq(Hosts), Ask(t, c, start, k, list)
    PROVE  /\ WalkTypes /\ walk' # NoWalk
           /\ \E d \in Frames : d.pc = "walk" /\ frame' = [frame EXCEPT ![t] = d]
<1> DEFINE candidate == (start + k) % Len(hosts)
           d == [c EXCEPT !.pc = "walk", !.to = At(candidate)]
<1>1. Len(hosts) \in Nat \ {0} /\ hosts \in Seq(Hosts)
  BY DEF TypeOK
<1>2. candidate \in 0..(Len(hosts) - 1)
  <2>1. start + k \in Nat
    OBVIOUS
  <2> QED
    BY <1>1, <2>1, ModuloFacts
<1>3. At(candidate) \in Hosts /\ candidate \in Nat /\ InRange(candidate)
  BY <1>1, <1>2 DEF At, InRange
<1>4. d \in Frames /\ d.pc = "walk"
  BY <1>3 DEF Frames, Records, Entries, PCs, Probes
<1>5. frame' = [frame EXCEPT ![t] = d]
  BY DEF Ask, Resume, Candidate
<1>6. index' \in Nat /\ baseUrl' \in Hosts
  BY <1>3 DEF Ask, UseHost, Candidate
<1>7. walk' = [start |-> start, offset |-> k, list |-> list] /\ k < Len(list)
  BY DEF Ask
<1>8. walk' \in Walks /\ walk' # NoWalk
  <2>1. list # << >>
    BY <1>7
  <2> QED
    BY <1>7, <2>1 DEF Walks, NoWalk
<1> QED
  BY <1>4, <1>5, <1>6, <1>8 DEF WalkTypes

LEMMA NoWalkType == NoWalk \in Walks
  BY DEF NoWalk, Walks

LEMMA GiveUpFacts ==
    ASSUME TypeOK, NEW t \in Tasks, NEW start \in Nat, NEW k, NEW list,
           GiveUp(t, start, k, list)
    PROVE  /\ WalkTypes /\ walk' = NoWalk
           /\ frame' = [frame EXCEPT ![t] = Idle]
<1>1. InRange(start) => At(start) \in Hosts
  BY DEF TypeOK, InRange, At
<1>2. index' \in Nat /\ baseUrl' \in Hosts
  BY <1>1 DEF GiveUp, UseHost, TypeOK
<1> QED
  BY <1>2, NoWalkType DEF GiveUp, Resume, WalkTypes

\* Inside the lock a task either lets go of it at once or keeps it to probe.
LEMMA InsideFacts ==
    ASSUME Inv, NEW t \in Tasks, NEW c \in Frames, c.pc # "idle",
           NEW held, NEW released, Inside(t, c, held, released)
    PROVE  /\ WalkTypes
           /\ \E d \in Frames :
                 /\ frame' = [frame EXCEPT ![t] = d]
                 /\ \/ /\ d.pc \notin InLock /\ lockQ' = released
                       /\ walk' = walk \/ walk' = NoWalk
                    \/ d.pc \in Probes /\ lockQ' = held /\ walk' # NoWalk
<1> USE DEF Inv
<1>1. CASE /\ c.why = "request" /\ ~InRange(index)
           /\ Resume(t, Idle)
           /\ lockQ' = released
           /\ UNCHANGED <<index, baseUrl, walk>>
  BY <1>1, IdleFacts DEF Resume, WalkTypes, TypeOK, InLock, Probes
<1>2. CASE /\ c.why = "request" /\ InRange(index)
           /\ c.to # At(index)
           /\ Resume(t, Await(c, "again"))
           /\ lockQ' = released
           /\ UNCHANGED <<index, baseUrl, walk>>
  <2>1. "again" \in PCs /\ "again" \notin InLock
    BY DEF PCs, Requests, InLock, Probes
  <2>2. Await(c, "again") \in Frames /\ Await(c, "again").pc = "again"
    BY <2>1, AwaitFacts DEF TypeOK
  <2> QED
    BY <1>2, <2>1, <2>2 DEF Resume, WalkTypes, TypeOK
<1>3. CASE /\ c.why = "request" /\ InRange(index)
           /\ Resume(t, Await(c, "verify"))
           /\ lockQ' = held
           /\ walk' = [start |-> index, offset |-> 0, list |-> hosts]
           /\ UNCHANGED <<index, baseUrl>>
  <2>1. "verify" \in PCs /\ "verify" \in Probes
    BY DEF PCs, Probes
  <2>2. Await(c, "verify") \in Frames /\ Await(c, "verify").pc = "verify"
    BY <2>1, AwaitFacts DEF TypeOK
  <2>3. walk' \in Walks /\ walk' # NoWalk
    BY <1>3 DEF TypeOK, Walks, NoWalk
  <2> QED
    BY <1>3, <2>1, <2>2, <2>3 DEF Resume, WalkTypes, TypeOK
<1>4. CASE Ask(t, Evidence(c), index, 1, hosts) /\ lockQ' = held
  <2>1. Evidence(c) \in Frames /\ index \in Nat /\ hosts \in Seq(Hosts) /\ "walk" \in Probes
    BY NotedFacts DEF TypeOK, Probes, Evidence
  <2> QED
    BY <1>4, <2>1, AskFacts
<1>5. CASE GiveUp(t, index, 1, hosts) /\ lockQ' = released
  <2>1. index \in Nat /\ Idle.pc \notin InLock /\ Idle \in Frames
    BY IdleFacts DEF TypeOK, InLock, Probes
  <2> QED
    BY <1>5, <2>1, GiveUpFacts
<1> QED
  BY <1>1, <1>2, <1>3, <1>4, <1>5 DEF Inside, NamesHost, Verifies, Moved

\* Entering failover() from outside the lock.
LEMMA EnterFacts ==
    ASSUME Inv, NEW t \in Tasks, NEW c \in Frames, c.pc # "idle",
           frame[t].pc \notin InLock, Enter(t, c)
    PROVE  /\ WalkTypes /\ LockDiscipline' /\ lockQ' \in Seq(Tasks)
           /\ frame' \in [Tasks -> Frames]
<1>0. lockQ \in Seq(Tasks) /\ frame \in [Tasks -> Frames]
  BY DEF Inv, TypeOK
<1>1. CASE lockQ = << >> /\ Inside(t, c, <<t>>, << >>)
  <2>1. WalkTypes
    BY <1>1, InsideFacts
  <2>2. PICK d \in Frames :
           /\ frame' = [frame EXCEPT ![t] = d]
           /\ \/ /\ d.pc \notin InLock /\ lockQ' = << >>
                 /\ walk' = walk \/ walk' = NoWalk
              \/ d.pc \in Probes /\ lockQ' = <<t>> /\ walk' # NoWalk
    BY <1>1, InsideFacts
  <2>3. walk = NoWalk
    BY <1>1, OwnerFacts
  <2>4. CASE d.pc \notin InLock /\ lockQ' = << >> /\ walk' = NoWalk
    BY <1>0, <1>1, <2>1, <2>2, <2>3, <2>4, StaysOutside
  <2>5. CASE d.pc \in Probes /\ lockQ' = <<t>> /\ walk' # NoWalk
    <3>1. LockDiscipline'
      BY <1>1, <2>2, <2>5, Acquires
    <3> QED
      BY <1>0, <2>1, <2>2, <2>5, <3>1
  <2> QED
    BY <2>2, <2>3, <2>4, <2>5
<1>2. CASE /\ lockQ # << >>
           /\ lockQ' = Append(lockQ, t)
           /\ Resume(t, [c EXCEPT !.pc = "lock"])
           /\ UNCHANGED <<index, baseUrl, walk>>
  <2> DEFINE d == [c EXCEPT !.pc = "lock"]
  <2>1. d \in Frames /\ d.pc = "lock"
    BY DEF Frames, Records, PCs
  <2>2. WalkTypes
    BY <1>2 DEF WalkTypes, Inv, TypeOK
  <2>3. frame' = [frame EXCEPT ![t] = d]
    BY <1>2 DEF Resume
  <2> HIDE DEF d
  <2>4. LockDiscipline'
    BY <1>2, <2>1, <2>3, Joins
  <2>5. lockQ' \in Seq(Tasks) /\ frame' \in [Tasks -> Frames]
    BY <1>0, <1>2, <2>1, <2>3
  <2> QED
    BY <2>2, <2>4, <2>5
<1> QED
  BY <1>1, <1>2 DEF Enter

\* The next step of a walk.
LEMMA NextCandidateFacts ==
    ASSUME Inv, NEW t \in Tasks, NEW c \in Frames, NEW start \in Nat, NEW k \in Nat,
           NEW list \in Seq(Hosts), frame[t].pc \in Probes,
           NextCandidate(t, c, start, k, list)
    PROVE  /\ WalkTypes /\ LockDiscipline' /\ lockQ' \in Seq(Tasks)
           /\ frame' \in [Tasks -> Frames]
<1>0. /\ lockQ \in Seq(Tasks) /\ frame \in [Tasks -> Frames] /\ TypeOK
      /\ lockQ[1] = t /\ frame[t].pc \in InLock
  BY OwnerFacts DEF Inv, TypeOK, InLock
<1>1. CASE Ask(t, c, start, k, list) /\ UNCHANGED lockQ
  <2>1. WalkTypes /\ walk' # NoWalk
    BY <1>0, <1>1, AskFacts
  <2>2. PICK d \in Frames : d.pc = "walk" /\ frame' = [frame EXCEPT ![t] = d]
    BY <1>0, <1>1, AskFacts
  <2>3. d.pc \in Probes
    BY <2>2 DEF Probes
  <2>4. LockDiscipline'
    BY <1>0, <1>1, <2>1, <2>2, <2>3, Holds
  <2> QED
    BY <1>0, <1>1, <2>1, <2>2, <2>4
<1>2. CASE GiveUp(t, start, k, list) /\ Release(t)
  <2>1. WalkTypes /\ walk' = NoWalk /\ frame' = [frame EXCEPT ![t] = Idle]
    BY <1>0, <1>2, GiveUpFacts
  <2>2. Idle \in Frames /\ Idle.pc \notin InLock
    BY IdleFacts DEF InLock, Probes
  <2> QED
    BY <1>0, <1>2, <2>1, <2>2, Releases DEF Release
<1> QED
  BY <1>1, <1>2 DEF NextCandidate

-------------------------------------------------------------------------------
(* learn_hosts().                                                          *)

LEMMA LearnFacts ==
    ASSUME TypeOK, NEW new, NEW replace \in BOOLEAN, Learn(new, replace)
    PROVE  hosts' \in Seq(Hosts) /\ hosts' # << >> /\ index' \in Nat
<1> DEFINE base == Base(hosts, replace)
<1>1. base \in Seq(Hosts) /\ base # << >>
  BY DEF Base, TypeOK
<1>2. Known(base, new) \in SUBSET Hosts
  BY <1>1 DEF Known, Range
<1>3. PICK kept \in Orders(Known(base, new)) :
         /\ IsLearned(base, new, kept)
         /\ hosts' = WithCurrent(kept, At(index))
  BY DEF Learn
<1>4. kept \in Seq(Hosts) /\ Len(base) <= Len(kept)
  BY <1>2, <1>3, OrdersAreLists DEF IsLearned
<1>5. kept # << >>
  BY <1>1, <1>4
<1>6. At(index) \in Hosts
  BY DEF Learn, TypeOK, InRange, At
<1>7. hosts' \in Seq(Hosts) /\ hosts' # << >>
  <2>1. CASE At(index) \in Range(kept)
    BY <1>3, <1>4, <1>5, <2>1 DEF WithCurrent
  <2>2. CASE At(index) \notin Range(kept)
    <3>1. Append(kept, At(index)) \in Seq(Hosts) /\ Append(kept, At(index)) # << >>
      BY <1>4, <1>6
    <3> QED
      BY <1>3, <2>2, <3>1 DEF WithCurrent
  <2> QED
    BY <2>1, <2>2
<1>8. index' \in Nat
  BY <1>7 DEF Learn
<1> QED
  BY <1>7, <1>8

-------------------------------------------------------------------------------
(* Every step keeps the types and the discipline of the lock.              *)

\* The steps of a task outside failover() that only change its frame, and
\* perhaps the age of the ticket.
LEMMA FrameStep ==
    ASSUME Inv, NEW t \in Tasks, NEW d \in Frames, Resume(t, d),
           frame[t].pc \notin InLock, d.pc \notin InLock,
           hosts' \in Seq(Hosts), hosts' # << >>, index' \in Nat,
           old' \in BOOLEAN, UNCHANGED <<baseUrl, lockQ, walk, up, vouched>>
    PROVE  Inv'
<1>1. LockDiscipline'
  BY StaysOutside DEF Resume
<1>2. frame' \in [Tasks -> Frames]
  BY DEF Resume, Inv, TypeOK
<1> QED
  BY <1>1, <1>2 DEF Inv, TypeOK

\* The steps of a task that end in WalkTypes.
LEMMA WalkStep ==
    ASSUME Inv, WalkTypes, LockDiscipline', lockQ' \in Seq(Tasks),
           frame' \in [Tasks -> Frames], vouched' \in Hosts,
           UNCHANGED <<hosts, old, up>>
    PROVE  Inv'
  BY DEF Inv, TypeOK, WalkTypes

LEMMA InitInv == Init => Inv
<1> SUFFICES ASSUME Init PROVE Inv
  OBVIOUS
<1>1. Configured \in Hosts /\ Password \in BOOLEAN
  BY ClientAssumption
<1>2. hosts \in Seq(Hosts) /\ hosts # << >>
  BY <1>1 DEF Init
<1>3. lockQ \in Seq(Tasks) /\ Range(lockQ) = {} /\ IsInjective(lockQ)
  BY DEF Init, Range, IsInjective
<1>4. frame \in [Tasks -> Frames] /\ \A t \in Tasks : frame[t].pc = "idle"
  BY IdleFacts DEF Init
<1>5. TypeOK
  BY <1>1, <1>2, <1>3, <1>4, NoWalkType DEF Init, TypeOK
<1>6. LockDiscipline
  BY <1>3, <1>4 DEF Init, LockDiscipline, Probes
<1> QED
  BY <1>5, <1>6 DEF Inv

LEMMA NextInv == Inv /\ [Next]_vars => Inv'
<1> SUFFICES ASSUME Inv, [Next]_vars PROVE Inv'
  OBVIOUS
<1> USE DEF Inv
<1>0. /\ baseUrl \in Hosts /\ lockQ \in Seq(Tasks) /\ frame \in [Tasks -> Frames]
      /\ hosts \in Seq(Hosts) /\ hosts # << >> /\ index \in Nat /\ old \in BOOLEAN
      /\ up \subseteq Hosts /\ vouched \in Hosts /\ walk \in Walks
  BY DEF TypeOK
<1>a. /\ TicketCalls \subseteq PCs /\ Requests \subseteq PCs
      /\ \A p \in TicketCalls \cup Requests \cup {"idle"} : p \notin InLock /\ p \notin Probes
      /\ {"verify", "walk"} \subseteq InLock
  BY DEF PCs, TicketCalls, Requests, InLock, Probes
<1>b. \A t \in Tasks : frame[t] \in Frames /\ (frame[t].pc # "idle" => frame[t].to \in Hosts)
  BY <1>0 DEF Frames
<1>c. Idle \in Frames /\ Idle.pc = "idle" /\ Idle.pc \notin InLock
  BY <1>a, IdleFacts
<1>d. \A c \in Frames : /\ Send(c) \in Frames /\ Send(c).pc \notin InLock
                        /\ Refresh(c) \in Frames /\ Refresh(c).pc \notin InLock
  BY <1>0, SendFacts, RefreshFacts DEF InLock, Probes
<1>e. \A c \in Frames, p \in TicketCalls \cup Requests :
         Await(c, p) \in Frames /\ Await(c, p).pc \notin InLock
  BY <1>0, <1>a, AwaitFacts
<1>1. ASSUME NEW t \in Tasks, Connect(t) PROVE Inv'
  <2> DEFINE d == IF Password THEN Await(Idle, "signin") ELSE Refresh(Idle)
  <2>1. d \in Frames /\ d.pc \notin InLock
    BY <1>c, <1>d, <1>e DEF TicketCalls
  <2>2. Resume(t, d) /\ frame[t].pc \notin InLock
    BY <1>1, <1>a DEF Connect
  <2> QED
    BY <1>0, <1>1, <2>1, <2>2, FrameStep DEF Connect
<1>2. ASSUME NEW t \in Tasks, StartRequest(t) PROVE Inv'
  <2>1. Resume(t, Refresh(Idle)) /\ frame[t].pc \notin InLock
    BY <1>2, <1>a DEF StartRequest
  <2> QED
    BY <1>0, <1>2, <1>c, <1>d, <2>1, FrameStep DEF StartRequest
<1>3. ASSUME NEW t \in Tasks, TicketGranted(t) PROVE Inv'
  <2> DEFINE d == IF frame[t].pc = "relogin" THEN Await(frame[t], "again") ELSE Send(frame[t])
  <2>1. d \in Frames /\ d.pc \notin InLock
    BY <1>b, <1>d, <1>e DEF Requests
  <2>2. Resume(t, d) /\ frame[t].pc \notin InLock
    BY <1>3, <1>a DEF TicketGranted
  <2> QED
    BY <1>0, <1>3, <2>1, <2>2, FrameStep DEF TicketGranted
<1>4. ASSUME NEW t \in Tasks, TicketRefused(t) PROVE Inv'
  <2> DEFINE d == IF frame[t].pc = "renew" THEN Await(frame[t], "login") ELSE Idle
  <2>1. d \in Frames /\ d.pc \notin InLock
    BY <1>b, <1>c, <1>e DEF TicketCalls
  <2>2. Resume(t, d) /\ frame[t].pc \notin InLock
    BY <1>4, <1>a DEF TicketRefused
  <2> QED
    BY <1>0, <1>4, <2>1, <2>2, FrameStep DEF TicketRefused
<1>5. ASSUME NEW t \in Tasks, TicketLost(t) PROVE Inv'
  <2>1. frame[t].pc \notin InLock /\ frame[t].pc # "idle"
    BY <1>5, <1>a DEF TicketLost, TicketCalls
  <2>2. CASE Enter(t, [frame[t] EXCEPT !.why = "renewal"])
    <3> DEFINE c == [frame[t] EXCEPT !.why = "renewal"]
    <3>1. c \in Frames /\ c.pc # "idle"
      BY <1>b, <2>1 DEF Frames, Records
    <3> HIDE DEF c
    <3>2. Enter(t, c)
      BY <2>2 DEF c
    <3>3. /\ WalkTypes /\ LockDiscipline' /\ lockQ' \in Seq(Tasks)
          /\ frame' \in [Tasks -> Frames]
      BY <2>1, <3>1, <3>2, EnterFacts
    <3> QED
      BY <1>0, <1>5, <3>3, WalkStep DEF TicketLost
  <2>3. CASE Resume(t, Idle) /\ UNCHANGED <<index, baseUrl, lockQ, walk>>
    BY <1>0, <1>5, <1>c, <2>1, <2>3, FrameStep DEF TicketLost
  <2> QED
    BY <1>5, <2>2, <2>3 DEF TicketLost
<1>6. ASSUME NEW t \in Tasks, Answered(t) PROVE Inv'
  <2>1. frame[t].pc \notin InLock
    BY <1>6, <1>a DEF Answered
  <2> QED
    BY <1>0, <1>6, <1>c, <2>1, FrameStep DEF Answered
<1>7. ASSUME NEW t \in Tasks, LearnFromCluster(t) PROVE Inv'
  <2>1. frame[t].pc \notin InLock
    BY <1>7, <1>a DEF LearnFromCluster
  <2>2. PICK new \in Learnable : Learn(new, FALSE)
    BY <1>7 DEF LearnFromCluster
  <2>3. hosts' \in Seq(Hosts) /\ hosts' # << >> /\ index' \in Nat
    BY <2>2, LearnFacts
  <2> QED
    BY <1>0, <1>7, <1>c, <2>1, <2>3, FrameStep DEF LearnFromCluster
<1>8. ASSUME NEW t \in Tasks, Refused401(t) PROVE Inv'
  <2>1. frame[t].pc \notin InLock
    BY <1>8, <1>a DEF Refused401, Requests
  <2>2. Await(frame[t], "relogin") \in Frames /\ Await(frame[t], "relogin").pc \notin InLock
    BY <1>b, <1>e DEF TicketCalls
  <2> QED
    BY <1>0, <1>8, <2>1, <2>2, FrameStep DEF Refused401
<1>9. ASSUME NEW t \in Tasks, RequestLost(t) PROVE Inv'
  <2>1. frame[t].pc \notin InLock /\ frame[t].pc # "idle"
    BY <1>9, <1>a DEF RequestLost, Requests
  <2>2. CASE Enter(t, [frame[t] EXCEPT !.why = "request"])
    <3> DEFINE c == [frame[t] EXCEPT !.why = "request"]
    <3>1. c \in Frames /\ c.pc # "idle"
      BY <1>b, <2>1 DEF Frames, Records
    <3> HIDE DEF c
    <3>2. Enter(t, c)
      BY <2>2 DEF c
    <3>3. /\ WalkTypes /\ LockDiscipline' /\ lockQ' \in Seq(Tasks)
          /\ frame' \in [Tasks -> Frames]
      BY <2>1, <3>1, <3>2, EnterFacts
    <3> QED
      BY <1>0, <1>9, <3>3, WalkStep DEF RequestLost
  <2>3. CASE Resume(t, Idle) /\ UNCHANGED <<index, baseUrl, lockQ, walk>>
    BY <1>0, <1>9, <1>c, <2>1, <2>3, FrameStep DEF RequestLost
  <2> QED
    BY <1>9, <2>2, <2>3 DEF RequestLost
<1>10. ASSUME NEW t \in Tasks, Woken(t) PROVE Inv'
  <2>1. /\ frame[t].pc \in InLock /\ lockQ # << >> /\ lockQ[1] = t /\ walk = NoWalk
        /\ frame[t].pc # "idle"
    <3>1. frame[t].pc = "lock" /\ Head(lockQ) = t
      BY <1>10 DEF Woken
    <3>2. frame[t].pc \in InLock
      BY <3>1 DEF InLock
    <3>3. lockQ # << >>
      BY <3>2, OwnerFacts
    <3>4. lockQ[1] = t
      BY <1>0, <3>1, <3>3
    <3> QED
      BY <3>1, <3>2, <3>3, <3>4, OwnerFacts
  <2>2. WalkTypes
    BY <1>10, <1>b, <2>1, InsideFacts DEF Woken
  <2>3. PICK d \in Frames :
           /\ frame' = [frame EXCEPT ![t] = d]
           /\ \/ /\ d.pc \notin InLock /\ lockQ' = Tail(lockQ)
                 /\ walk' = walk \/ walk' = NoWalk
              \/ d.pc \in Probes /\ lockQ' = lockQ /\ walk' # NoWalk
    BY <1>10, <1>b, <2>1, InsideFacts DEF Woken
  <2>4. LockDiscipline' /\ lockQ' \in Seq(Tasks)
    <3>1. CASE d.pc \notin InLock /\ lockQ' = Tail(lockQ) /\ walk' = NoWalk
      BY <2>1, <2>3, <3>1, Releases
    <3>2. CASE d.pc \in Probes /\ lockQ' = lockQ /\ walk' # NoWalk
      BY <1>0, <2>1, <2>3, <3>2, Holds
    <3> QED
      BY <2>1, <2>3, <3>1, <3>2
  <2>5. frame' \in [Tasks -> Frames]
    BY <1>0, <2>3
  <2> QED
    BY <1>0, <1>10, <2>2, <2>4, <2>5, WalkStep DEF Woken
<1>11. ASSUME NEW t \in Tasks, VerifyAnswered(t) PROVE Inv'
  <2>1. frame[t].pc \in InLock /\ lockQ[1] = t
    BY <1>11, <1>a, OwnerFacts DEF VerifyAnswered, Probes
  <2>2. LockDiscipline' /\ lockQ' \in Seq(Tasks)
    BY <1>11, <1>c, <2>1, Releases DEF VerifyAnswered, Release, Resume
  <2>3. WalkTypes /\ frame' \in [Tasks -> Frames]
    BY <1>0, <1>11, <1>c, NoWalkType DEF VerifyAnswered, Resume, WalkTypes
  <2> QED
    BY <1>0, <1>11, <2>2, <2>3, WalkStep DEF VerifyAnswered
<1>12. ASSUME NEW t \in Tasks, VerifySilent(t) PROVE Inv'
  <2>1. frame[t].pc \in Probes /\ Noted(frame[t]) \in Frames /\ walk.start \in Nat
    BY <1>0, <1>12, <1>b, NotedFacts DEF VerifySilent, Probes, Walks
  <2>2. NextCandidate(t, Noted(frame[t]), walk.start, 1, hosts)
    BY <1>12 DEF VerifySilent
  <2>3. /\ WalkTypes /\ LockDiscipline' /\ lockQ' \in Seq(Tasks)
        /\ frame' \in [Tasks -> Frames]
    BY <1>0, <2>1, <2>2, NextCandidateFacts
  <2> QED
    BY <1>0, <1>12, <2>3, WalkStep DEF VerifySilent
<1>13. ASSUME NEW t \in Tasks, CandidateAnswered(t) PROVE Inv'
  <2> DEFINE d == IF ~InRange(walk.start) THEN Idle
                  ELSE IF frame[t].why = "renewal" THEN Refresh(frame[t])
                  ELSE Await(frame[t], "again")
  <2>1. frame[t].pc \in InLock /\ lockQ[1] = t /\ frame[t].to \in Hosts
    BY <1>13, <1>a, <1>b, OwnerFacts DEF CandidateAnswered, Probes
  <2>2. d \in Frames /\ d.pc \notin InLock
    BY <1>b, <1>c, <1>d, <1>e DEF Requests
  <2>3. frame' = [frame EXCEPT ![t] = d] /\ lockQ' = Tail(lockQ) /\ walk' = NoWalk
    BY <1>13 DEF CandidateAnswered, Resume, Release
  <2> HIDE DEF d
  <2>4. LockDiscipline' /\ lockQ' \in Seq(Tasks)
    BY <2>1, <2>2, <2>3, Releases
  <2>5. WalkTypes /\ frame' \in [Tasks -> Frames]
    BY <1>0, <1>13, <2>2, <2>3, NoWalkType DEF CandidateAnswered, WalkTypes
  <2> QED
    BY <1>0, <1>13, <2>1, <2>4, <2>5, WalkStep DEF CandidateAnswered
<1>14. ASSUME NEW t \in Tasks, CandidateSilent(t) PROVE Inv'
  <2>1. /\ frame[t].pc \in Probes /\ Noted(frame[t]) \in Frames /\ walk.start \in Nat
        /\ walk.offset + 1 \in Nat /\ walk.list \in Seq(Hosts)
    BY <1>0, <1>14, <1>b, NotedFacts DEF CandidateSilent, Probes, Walks
  <2>2. NextCandidate(t, Noted(frame[t]), walk.start, walk.offset + 1, walk.list)
    BY <1>14 DEF CandidateSilent
  <2>3. /\ WalkTypes /\ LockDiscipline' /\ lockQ' \in Seq(Tasks)
        /\ frame' \in [Tasks -> Frames]
    BY <2>1, <2>2, NextCandidateFacts
  <2> QED
    BY <1>0, <1>14, <2>3, WalkStep DEF CandidateSilent
<1>15. ASSUME NEW t \in Tasks, Interrupt(t) PROVE Inv'
  <2>1. frame' = [frame EXCEPT ![t] = Idle]
    BY <1>15 DEF Interrupt, Resume
  <2>2. walk' = IF frame[t].pc \in Probes THEN NoWalk ELSE walk
    BY <1>15 DEF Interrupt
  <2>3. LockDiscipline' /\ lockQ' \in Seq(Tasks)
    <3>1. ASSUME NEW i \in 1..Len(lockQ), lockQ[i] = t, lockQ' = Without(lockQ, i)
          PROVE  LockDiscipline' /\ lockQ' \in Seq(Tasks)
      BY <1>c, <2>1, <2>2, <3>1, Leaves
    <3>2. CASE t \notin Range(lockQ) /\ UNCHANGED lockQ
      <4>1. frame[t].pc \notin InLock /\ frame[t].pc \notin Probes
        BY <3>2, OwnerFacts DEF InLock
      <4> QED
        BY <1>0, <1>c, <2>1, <2>2, <3>2, <4>1, StaysOutside
    <3> QED
      BY <1>15, <3>1, <3>2 DEF Interrupt
  <2>4. WalkTypes /\ frame' \in [Tasks -> Frames]
    BY <1>0, <1>15, <1>c, <2>1, <2>2, NoWalkType DEF Interrupt, WalkTypes
  <2> QED
    BY <1>0, <1>15, <2>3, <2>4, WalkStep DEF Interrupt
<1>16. CASE LearnHosts
  <2>1. PICK new \in Learnable, replace \in BOOLEAN : Learn(new, replace)
    BY <1>16 DEF LearnHosts
  <2>2. hosts' \in Seq(Hosts) /\ hosts' # << >> /\ index' \in Nat
    BY <2>1, LearnFacts
  <2> QED
    BY <1>0, <1>16, <2>2 DEF LearnHosts, TypeOK, LockDiscipline
<1>17. CASE Age
  BY <1>17 DEF Age, TypeOK, LockDiscipline
<1>18. CASE Flap
  BY <1>18 DEF Flap, TypeOK, LockDiscipline
<1>19. CASE UNCHANGED vars
  BY <1>19 DEF vars, TypeOK, LockDiscipline
<1> QED
  BY <1>1, <1>2, <1>3, <1>4, <1>5, <1>6, <1>7, <1>8, <1>9, <1>10, <1>11, <1>12,
     <1>13, <1>14, <1>15, <1>16, <1>17, <1>18, <1>19 DEF Next, TaskStep

LEMMA AlwaysInv == Spec => []Inv
BY InitInv, NextInv, PTL DEF Spec

\* The state of a client keeps its types under every interleaving of its
\* tasks, also where a list is replaced while a failover is under way.
THEOREM TypeCorrect == Spec => []TypeOK
<1>1. Inv => TypeOK
  BY DEF Inv
<1> QED
  BY AlwaysInv, <1>1, PTL

\* _switch_lock: one failover probes at a time, it owns the lock, the tasks
\* in the queue are exactly those inside failover(), and no exit - answer,
\* silence, exception, cancellation - keeps the lock.
THEOREM LockIsDisciplined == Spec => []LockDiscipline
<1>1. Inv => LockDiscipline
  BY DEF Inv
<1> QED
  BY AlwaysInv, <1>1, PTL

-------------------------------------------------------------------------------
(* The host list and the walks over it.                                    *)
(*                                                                         *)
(* HostInv adds to HostListOK and WalkOK what a failover relies on between *)
(* its awaits: the list that bounds its loop is no longer than the list it *)
(* indexes, the host it started from is not the candidate in use, and,     *)
(* where no walk is cancelled, it is the one that answered last. The action *)
(* properties and the refinement need besides what a failover knows of the *)
(* silence of the hosts it has asked: the second invariant, inductive      *)
(* relative to the first.                                                  *)

\* The walk of the task that asks a candidate.
WalkInv(c) ==
    /\ InRange(walk.start)
    /\ walk.offset \in 1..(Len(walk.list) - 1)
    /\ Len(walk.list) <= Len(hosts)
    /\ c.to = baseUrl
    /\ baseUrl # At(walk.start)
    /\ "walk" \notin CancelAt => At(walk.start) = vouched

ProbesSound ==
    \A t \in Tasks :
        /\ frame[t].pc = "verify" => walk.start = index
        /\ frame[t].pc = "walk" => WalkInv(frame[t])

Vouching == "walk" \notin CancelAt => InUseHasAnswered

HostInv == HostListOK /\ ProbesSound /\ Vouching

\* No task but t is inside a probe.
Alone(t) == \A u \in Tasks \ {t} : frame[u].pc \notin Probes

LEMMA OwnerIsAlone ==
    ASSUME Inv, NEW t \in Tasks, lockQ = << >> \/ lockQ[1] = t
    PROVE  Alone(t)
  BY OwnerFacts DEF Alone, InLock

\* The walk wraps around the list and never returns to its start.
LEMMA CandidateIsAnother ==
    ASSUME TypeOK, NEW start \in Nat, InRange(start), NEW k \in 1..(Len(hosts) - 1)
    PROVE  Candidate(start, k) \in 0..(Len(hosts) - 1) /\ Candidate(start, k) # start
  <1> DEFINE n == Len(hosts)
  <1>1. n \in Nat \ {0} /\ start < n /\ start + k \in Nat /\ start + k < n + n
    BY DEF TypeOK, InRange
  <1>2. CASE start + k < n
    <2>1. (start + k) % n = start + k
      BY <1>1, <1>2
    <2> QED
      BY <1>1, <1>2, <2>1 DEF Candidate
  <1>3. CASE start + k >= n
    <2>1. (start + k) % n = (start + k) - n
      BY <1>1, <1>3
    <2> QED
      BY <1>1, <1>3, <2>1 DEF Candidate
  <1> QED
    BY <1>1, <1>2, <1>3

-------------------------------------------------------------------------------
(* The ways a step may treat hosts, index, base_url and walk.              *)

\* A task ends its probe, or had none: the index still names the host in use.
LEMMA SettledStep ==
    ASSUME Inv, HostInv, NEW t \in Tasks, NEW d \in Frames,
           frame' = [frame EXCEPT ![t] = d], d.pc \notin Probes, UNCHANGED hosts,
           InRange(index)', baseUrl' = At(index)',
           \/ Alone(t)
           \/ UNCHANGED <<index, baseUrl, walk, vouched>> /\ frame[t].pc \notin Probes,
           "walk" \notin CancelAt =>
              baseUrl' = vouched' \/ (frame[t].pc # "walk" /\ UNCHANGED <<baseUrl, vouched>>)
    PROVE  HostInv'
  <1>1. frame'[t] = d /\ \A u \in Tasks \ {t} : frame'[u] = frame[u]
    BY DEF Inv, TypeOK
  <1>2. HostListOK'
    BY DEF HostInv, HostListOK, HostInUseListed
  <1>3. d.pc # "verify" /\ d.pc # "walk"
    BY DEF Probes
  <1>4. ProbesSound'
    <2>1. CASE Alone(t)
      BY <1>1, <1>3, <2>1 DEF ProbesSound, Alone, Probes
    <2>2. CASE UNCHANGED <<index, baseUrl, walk, vouched>>
      BY <1>1, <1>3, <2>2 DEF HostInv, ProbesSound, WalkInv, InRange, At
    <2> QED
      BY <2>1, <2>2
  <1>5. Vouching'
    <2> SUFFICES ASSUME "walk" \notin CancelAt PROVE InUseHasAnswered'
      BY DEF Vouching
    <2>1. CASE baseUrl' = vouched'
      BY <2>1 DEF InUseHasAnswered
    <2>2. CASE frame[t].pc # "walk" /\ UNCHANGED <<baseUrl, vouched>>
      <3>1. Walking' <=> Walking
        BY <1>1, <1>3, <2>2 DEF Walking
      <3> QED
        BY <2>2, <3>1 DEF HostInv, Vouching, InUseHasAnswered
    <2> QED
      BY <2>1, <2>2
  <1> QED
    BY <1>2, <1>4, <1>5 DEF HostInv

\* A step of one task that leaves all of it alone.
LEMMA QuietStep ==
    ASSUME Inv, HostInv, NEW t \in Tasks, NEW d \in Frames, Resume(t, d),
           frame[t].pc \notin Probes, d.pc \notin Probes,
           UNCHANGED <<hosts, index, baseUrl, walk, vouched>>
    PROVE  HostInv'
  <1>1. InRange(index)' /\ baseUrl' = At(index)'
    BY DEF HostInv, HostListOK, HostInUseListed, InRange, At
  <1>2. frame[t].pc # "walk"
    BY DEF Probes
  <1> QED
    BY <1>1, <1>2, SettledStep DEF Resume

\* The host in use is asked.
LEMMA VerifyStep ==
    ASSUME Inv, HostInv, NEW t \in Tasks, NEW d \in Frames, Resume(t, d),
           frame[t].pc \notin Probes, d.pc = "verify", Alone(t), walk'.start = index,
           UNCHANGED <<hosts, index, baseUrl, vouched>>
    PROVE  HostInv'
  <1>1. frame'[t] = d /\ \A u \in Tasks \ {t} : frame'[u] = frame[u]
    BY DEF Inv, TypeOK, Resume
  <1>2. HostListOK'
    BY DEF HostInv, HostListOK, HostInUseListed, InRange, At
  <1>3. ProbesSound'
    BY <1>1 DEF ProbesSound, Alone, Probes
  <1>4. Walking' <=> Walking
    BY <1>1 DEF Walking, Probes
  <1>5. Vouching'
    BY <1>4 DEF HostInv, Vouching, InUseHasAnswered
  <1> QED
    BY <1>2, <1>3, <1>5 DEF HostInv

\* The next candidate is put in use and asked.
LEMMA AskStep ==
    ASSUME Inv, HostInv, NEW t \in Tasks, NEW c \in Frames, Alone(t),
           NEW start \in Nat, InRange(start), NEW k \in Nat \ {0},
           NEW list \in Seq(Hosts), Len(list) <= Len(hosts), Ask(t, c, start, k, list),
           "walk" \notin CancelAt => At(start) = vouched,
           UNCHANGED <<hosts, vouched>>
    PROVE  HostInv'
  <1> DEFINE next == Candidate(start, k)
             d == [c EXCEPT !.pc = "walk", !.to = At(next)]
  <1>0. hosts \in Seq(Hosts) /\ Len(hosts) \in Nat /\ DOMAIN hosts = 1..Len(hosts)
        /\ IsInjective(hosts) /\ TypeOK /\ Len(list) \in Nat
    BY DEF Inv, TypeOK, HostInv, HostListOK
  <1>1. k \in 1..(Len(list) - 1) /\ k \in 1..(Len(hosts) - 1)
    BY <1>0 DEF Ask
  <1>2. next \in 0..(Len(hosts) - 1) /\ next # start
    BY <1>0, <1>1, CandidateIsAnother
  <1>3. /\ index' = next /\ baseUrl' = At(next)
        /\ walk' = [start |-> start, offset |-> k, list |-> list]
        /\ frame' = [frame EXCEPT ![t] = d]
    BY <1>0, <1>2 DEF Ask, UseHost, InRange, Resume
  <1>4. d.to = At(next) /\ d.pc = "walk"
    BY DEF Frames, Records
  <1>5. frame'[t] = d /\ \A u \in Tasks \ {t} : frame'[u] = frame[u]
    BY <1>3 DEF Inv, TypeOK
  <1> HIDE DEF d
  <1>6. At(next) # At(start)
    <2>1. next + 1 \in DOMAIN hosts /\ start + 1 \in DOMAIN hosts /\ next + 1 # start + 1
      BY <1>0, <1>2 DEF InRange
    <2> QED
      BY <1>0, <2>1 DEF IsInjective, At
  <1> HIDE DEF next
  <1>7. HostListOK'
    BY <1>0, <1>2, <1>3 DEF HostInv, HostListOK, HostInUseListed, InRange, At
  <1>8. /\ walk'.start < Len(hosts') /\ walk'.offset \in 1..(Len(walk'.list) - 1)
        /\ Len(walk'.list) <= Len(hosts') /\ frame'[t].to = baseUrl'
        /\ baseUrl' # hosts'[walk'.start + 1]
        /\ "walk" \notin CancelAt => hosts'[walk'.start + 1] = vouched'
    <2>1. walk'.start = start /\ walk'.offset = k /\ walk'.list = list
      BY <1>3
    <2> QED
      BY <1>0, <1>1, <1>3, <1>4, <1>5, <1>6, <2>1 DEF InRange, At
  <1>9. ProbesSound'
    <2> SUFFICES ASSUME NEW u \in Tasks
                 PROVE  /\ frame'[u].pc = "verify" => walk'.start = index'
                        /\ frame'[u].pc = "walk" => WalkInv(frame[u])'
      BY DEF ProbesSound
    <2>1. CASE u = t
      BY <1>4, <1>5, <1>8, <2>1 DEF WalkInv, InRange, At
    <2>2. CASE u # t
      <3>1. frame'[u].pc \notin Probes
        BY <1>5, <2>2 DEF Alone
      <3> QED
        BY <3>1 DEF Probes
    <2> QED
      BY <2>1, <2>2
  <1>10. Vouching'
    BY <1>4, <1>5 DEF Vouching, InUseHasAnswered, Walking
  <1> QED
    BY <1>7, <1>9, <1>10 DEF HostInv

\* The walk ends without a candidate, on the host it started from.
LEMMA GiveUpStep ==
    ASSUME Inv, HostInv, NEW t \in Tasks, Alone(t),
           NEW start \in Nat, InRange(start), NEW k, NEW list, GiveUp(t, start, k, list),
           "walk" \notin CancelAt => At(start) = vouched,
           UNCHANGED <<hosts, vouched>>
    PROVE  HostInv'
  <1>1. Idle \in Frames /\ Idle.pc \notin Probes
    BY IdleFacts DEF Probes
  <1>2. frame' = [frame EXCEPT ![t] = Idle] /\ index' = start /\ baseUrl' = At(start)
    BY DEF GiveUp, UseHost, Resume
  <1>3. InRange(index)' /\ baseUrl' = At(index)'
    BY <1>2 DEF InRange, At
  <1> QED
    BY <1>1, <1>2, <1>3, SettledStep

-------------------------------------------------------------------------------
(* failover().                                                             *)

LEMMA InsideStep ==
    ASSUME Inv, HostInv, NEW t \in Tasks, NEW c \in Frames, c.pc # "idle", Alone(t),
           frame[t].pc \notin Probes, NEW held, NEW released,
           Inside(t, c, held, released), UNCHANGED <<hosts, vouched>>
    PROVE  HostInv'
  <1>0. /\ InRange(index) /\ baseUrl = At(index) /\ index \in Nat /\ hosts \in Seq(Hosts)
        /\ baseUrl \in Hosts /\ Len(hosts) \in Nat
    BY DEF Inv, TypeOK, HostInv, HostListOK, HostInUseListed
  <1>1. "walk" \notin CancelAt => At(index) = vouched
    <2>1. ~Walking
      BY DEF Walking, Alone, Probes
    <2> QED
      BY <1>0, <2>1 DEF HostInv, Vouching, InUseHasAnswered
  <1>2. CASE Resume(t, Await(c, "again")) /\ UNCHANGED <<index, baseUrl, walk>>
    <2>1. Await(c, "again") \in Frames /\ Await(c, "again").pc = "again"
      BY <1>0, AwaitFacts DEF PCs, Requests
    <2> QED
      BY <1>2, <2>1, QuietStep DEF Probes
  <1>3. CASE Resume(t, Await(c, "verify")) /\ UNCHANGED <<index, baseUrl>>
             /\ walk' = [start |-> index, offset |-> 0, list |-> hosts]
    <2>1. Await(c, "verify") \in Frames /\ Await(c, "verify").pc = "verify"
      BY <1>0, AwaitFacts DEF PCs, Probes
    <2>2. walk'.start = index
      BY <1>3
    <2> QED
      BY <1>3, <2>1, <2>2, VerifyStep
  <1>4. CASE Ask(t, Evidence(c), index, 1, hosts)
    <2>1. Evidence(c) \in Frames /\ 1 \in Nat \ {0} /\ Len(hosts) <= Len(hosts)
      BY <1>0, NotedFacts DEF Evidence
    <2> QED
      BY <1>0, <1>1, <1>4, <2>1, AskStep
  <1>5. CASE GiveUp(t, index, 1, hosts)
    BY <1>0, <1>1, <1>5, GiveUpStep
  <1> QED
    BY <1>0, <1>2, <1>3, <1>4, <1>5 DEF Inside

LEMMA EnterStep ==
    ASSUME Inv, HostInv, NEW t \in Tasks, NEW c \in Frames, c.pc # "idle",
           frame[t].pc \notin InLock, Enter(t, c), UNCHANGED <<hosts, vouched>>
    PROVE  HostInv'
  <1>0. frame[t].pc \notin Probes
    BY DEF InLock
  <1>1. CASE lockQ = << >> /\ Inside(t, c, <<t>>, << >>)
    <2>1. Alone(t)
      BY <1>1, OwnerIsAlone
    <2> QED
      BY <1>0, <1>1, <2>1, InsideStep
  <1>2. CASE Resume(t, [c EXCEPT !.pc = "lock"]) /\ UNCHANGED <<index, baseUrl, walk>>
    <2> DEFINE d == [c EXCEPT !.pc = "lock"]
    <2>1. d \in Frames /\ d.pc = "lock" /\ Resume(t, d)
      BY <1>2 DEF Frames, Records, PCs
    <2> HIDE DEF d
    <2> QED
      BY <1>0, <1>2, <2>1, QuietStep DEF Probes
  <1> QED
    BY <1>1, <1>2 DEF Enter

LEMMA NextCandidateStep ==
    ASSUME Inv, HostInv, NEW t \in Tasks, NEW c \in Frames, frame[t].pc \in Probes,
           NEW start \in Nat, InRange(start), NEW k \in Nat \ {0},
           NEW list \in Seq(Hosts), Len(list) <= Len(hosts),
           "walk" \notin CancelAt => At(start) = vouched,
           NextCandidate(t, c, start, k, list), UNCHANGED <<hosts, vouched>>
    PROVE  HostInv'
  <1>1. Alone(t)
    BY OwnerFacts, OwnerIsAlone
  <1> QED
    BY <1>1, AskStep, GiveUpStep DEF NextCandidate

-------------------------------------------------------------------------------
(* learn_hosts().                                                          *)

\* What a call to learn_hosts() leaves: a sound list, the configured host
\* first, and the index on the host it named before. A list that is not
\* replaced only grows, and the index stays.
LEMMA LearnKeeps ==
    ASSUME TypeOK, HostListOK, NEW new, NEW replace \in BOOLEAN, Learn(new, replace),
           UNCHANGED baseUrl
    PROVE  /\ HostListOK'
           /\ ~replace => /\ Len(hosts) <= Len(hosts') /\ index' = index
                          /\ \A i \in 1..Len(hosts) : hosts'[i] = hosts[i]
  <1> DEFINE base == Base(hosts, replace)
             current == At(index)
  <1>0. /\ hosts \in Seq(Hosts) /\ hosts # << >> /\ IsInjective(hosts)
        /\ index \in Nat /\ InRange(index) /\ hosts[1] = Configured /\ baseUrl = current
        /\ Len(hosts) \in Nat
    BY DEF TypeOK, HostListOK, HostInUseListed
  <1>1. base \in Seq(Hosts) /\ IsInjective(base) /\ base # << >> /\ base[1] = hosts[1]
    BY <1>0, BaseFacts
  <1>2. PICK kept \in Orders(Known(base, new)) :
           IsLearned(base, new, kept) /\ hosts' = WithCurrent(kept, current)
    BY DEF Learn
  <1>3. Known(base, new) \in SUBSET Hosts
    BY <1>1 DEF Known, Range
  <1>4. kept \in Seq(Hosts) /\ IsInjective(kept)
    BY <1>2, <1>3, OrdersAreLists
  <1>5. Len(base) <= Len(kept) /\ \A i \in 1..Len(base) : kept[i] = base[i]
    BY <1>2 DEF IsLearned
  <1>6. kept # << >> /\ kept[1] = base[1] /\ current \in Hosts
    BY <1>0, <1>1, <1>4, <1>5 DEF InRange, At
  <1>7. /\ hosts' \in Seq(Hosts) /\ hosts' # << >> /\ IsInjective(hosts')
        /\ hosts'[1] = Configured
    BY <1>0, <1>1, <1>2, <1>4, <1>6, WithCurrentFacts
  <1>8. index' \in 0..(Len(hosts') - 1) /\ hosts'[index' + 1] = current
    BY DEF Learn
  <1>9. InRange(index)' /\ baseUrl' = At(index)'
    BY <1>0, <1>7, <1>8 DEF InRange, At
  <1>10. HostListOK'
    BY <1>7, <1>9 DEF HostListOK, HostInUseListed
  <1>11. ASSUME ~replace
         PROVE  /\ Len(hosts) <= Len(hosts') /\ index' = index
                /\ \A i \in 1..Len(hosts) : hosts'[i] = hosts[i]
    <2>1. base = hosts
      BY <1>11 DEF Base
    <2>2. index + 1 \in 1..Len(hosts)
      BY <1>0 DEF InRange
    <2>3. kept[index + 1] = current /\ index + 1 \in DOMAIN kept
      BY <1>4, <1>5, <2>1, <2>2 DEF At
    <2>4. hosts' = kept
      BY <1>2, <2>3 DEF WithCurrent, Range
    <2>5. index' + 1 \in DOMAIN kept /\ kept[index' + 1] = kept[index + 1]
      BY <1>4, <1>8, <2>3, <2>4
    <2>6. index' + 1 = index + 1
      BY <1>4, <2>3, <2>5 DEF IsInjective
    <2>7. index' = index
      <3>1. index' \in Int
        BY <1>7, <1>8
      <3>2. index \in Int
        BY <1>0
      <3>3. \A a, b \in Int : a + 1 = b + 1 => a = b
        OBVIOUS
      <3> QED
        BY <2>6, <3>1, <3>2, <3>3
    <2>8. Len(hosts) <= Len(hosts') /\ \A i \in 1..Len(hosts) : hosts'[i] = hosts[i]
      BY <1>5, <2>1, <2>4
    <2> QED
      BY <2>7, <2>8
  <1> QED
    BY <1>10, <1>11

\* A failover under way goes on over a list that has grown behind it.
LEMMA LearnStep ==
    ASSUME Inv, HostInv, ReplaceWhile \subseteq {"settled"},
           NEW new, NEW replace \in BOOLEAN, MayLearn(replace), Learn(new, replace),
           UNCHANGED <<baseUrl, walk, vouched>>,
           \A t \in Tasks : frame'[t] = frame[t] \/ (frame[t].pc # "walk" /\ frame'[t] = Idle)
    PROVE  HostInv'
  <1>0. TypeOK /\ HostListOK /\ hosts \in Seq(Hosts) /\ Len(hosts) \in Nat /\ walk \in Walks
        /\ hosts' \in Seq(Hosts) /\ Len(hosts') \in Nat
    BY LearnFacts DEF Inv, TypeOK, HostInv
  <1>1. HostListOK'
    BY <1>0, LearnKeeps
  <1>2. ProbesSound'
    <2> SUFFICES ASSUME NEW t \in Tasks
                 PROVE  /\ frame'[t].pc = "verify" => walk'.start = index'
                        /\ frame'[t].pc = "walk" => WalkInv(frame[t])'
      BY DEF ProbesSound
    <2>1. CASE frame'[t].pc \notin Probes
      BY <2>1 DEF Probes
    <2>2. CASE frame'[t].pc \in Probes
      <3>1. frame'[t] = frame[t]
        BY <2>2, IdleFacts DEF Probes
      <3>2. walk # NoWalk
        BY <2>2, <3>1, OwnerFacts
      <3>3. ~replace
        BY <3>2 DEF MayLearn, Moment
      <3>4. /\ Len(hosts) <= Len(hosts') /\ index' = index
            /\ \A i \in 1..Len(hosts) : hosts'[i] = hosts[i]
        BY <1>0, <3>3, LearnKeeps
      <3>5. CASE frame[t].pc = "verify"
        BY <3>1, <3>4, <3>5 DEF HostInv, ProbesSound
      <3>6. CASE frame[t].pc = "walk"
        <4>1. WalkInv(frame[t]) /\ walk.start \in Nat /\ walk.list \in Seq(Hosts)
          BY <1>0, <3>6 DEF HostInv, ProbesSound, Walks
        <4>2. walk.start + 1 \in 1..Len(hosts) /\ InRange(walk.start)'
          BY <1>0, <3>4, <4>1 DEF WalkInv, InRange
        <4>3. At(walk.start)' = At(walk.start)
          BY <3>4, <4>2 DEF At
        <4>4. Len(walk.list)' <= Len(hosts)'
          BY <1>0, <3>4, <4>1 DEF WalkInv
        <4>5. WalkInv(frame[t])'
          BY <3>1, <4>1, <4>2, <4>3, <4>4 DEF WalkInv
        <4> QED
          BY <3>1, <3>6, <4>5
      <3> QED
        BY <2>2, <3>1, <3>5, <3>6 DEF Probes
    <2> QED
      BY <2>1, <2>2
  <1>3. Vouching'
    <2>1. Walking => Walking'
      <3> SUFFICES ASSUME NEW t \in Tasks, frame[t].pc = "walk" PROVE frame'[t].pc = "walk"
        BY DEF Walking
      <3> QED
        OBVIOUS
    <2> QED
      BY <2>1 DEF HostInv, Vouching, InUseHasAnswered
  <1> QED
    BY <1>1, <1>2, <1>3 DEF HostInv

-------------------------------------------------------------------------------
LEMMA InitHostInv == Init => HostInv
  <1> SUFFICES ASSUME Init PROVE HostInv
    OBVIOUS
  <1>1. hosts[1] = Configured /\ IsInjective(hosts) /\ InRange(index) /\ baseUrl = At(index)
    BY DEF Init, IsInjective, InRange, At
  <1>2. \A t \in Tasks : frame[t].pc = "idle"
    BY IdleFacts DEF Init
  <1>3. ProbesSound
    BY <1>2 DEF ProbesSound
  <1>4. Vouching
    BY DEF Init, Vouching, InUseHasAnswered
  <1> QED
    BY <1>1, <1>3, <1>4 DEF HostInv, HostListOK, HostInUseListed

LEMMA NextHostInv ==
    ASSUME ReplaceWhile \subseteq {"settled"}, Inv, HostInv, [Next]_vars
    PROVE  HostInv'
  <1>0. /\ baseUrl \in Hosts /\ frame \in [Tasks -> Frames] /\ hosts \in Seq(Hosts)
        /\ Len(hosts) \in Nat /\ walk \in Walks /\ index \in Nat
        /\ InRange(index) /\ baseUrl = At(index)
    BY DEF Inv, TypeOK, HostInv, HostListOK, HostInUseListed
  <1>a. /\ TicketCalls \cup Requests \subseteq PCs
        /\ \A p \in TicketCalls \cup Requests \cup {"idle", "lock"} : p \notin Probes
        /\ \A p \in TicketCalls \cup Requests : p \notin InLock /\ p # "idle" /\ p # "walk"
    BY DEF PCs, TicketCalls, Requests, InLock, Probes
  <1>b. \A t \in Tasks : frame[t] \in Frames /\ (frame[t].pc # "idle" => frame[t].to \in Hosts)
    BY <1>0 DEF Frames
  <1>c. Idle \in Frames /\ Idle.pc \notin Probes
    BY <1>a, IdleFacts
  <1>d. \A c \in Frames : /\ Send(c) \in Frames /\ Send(c).pc \notin Probes
                          /\ Refresh(c) \in Frames /\ Refresh(c).pc \notin Probes
    BY <1>0, SendFacts, RefreshFacts DEF Probes
  <1>e. \A c \in Frames, p \in TicketCalls \cup Requests :
           Await(c, p) \in Frames /\ Await(c, p).pc \notin Probes
    BY <1>0, <1>a, AwaitFacts
  <1>1. ASSUME NEW t \in Tasks, Connect(t) PROVE HostInv'
    <2> DEFINE d == IF Password THEN Await(Idle, "signin") ELSE Refresh(Idle)
    <2>1. d \in Frames /\ d.pc \notin Probes
      BY <1>c, <1>d, <1>e DEF TicketCalls
    <2>2. Resume(t, d) /\ frame[t].pc \notin Probes
      BY <1>1, <1>a DEF Connect
    <2> QED
      BY <1>1, <2>1, <2>2, QuietStep DEF Connect
  <1>2. ASSUME NEW t \in Tasks, StartRequest(t) PROVE HostInv'
    <2>1. Resume(t, Refresh(Idle)) /\ frame[t].pc \notin Probes
      BY <1>2, <1>a DEF StartRequest
    <2> QED
      BY <1>2, <1>c, <1>d, <2>1, QuietStep DEF StartRequest
  <1>3. ASSUME NEW t \in Tasks, TicketGranted(t) PROVE HostInv'
    <2> DEFINE d == IF frame[t].pc = "relogin" THEN Await(frame[t], "again") ELSE Send(frame[t])
    <2>1. d \in Frames /\ d.pc \notin Probes
      BY <1>b, <1>d, <1>e DEF Requests
    <2>2. Resume(t, d) /\ frame[t].pc \notin Probes
      BY <1>3, <1>a DEF TicketGranted
    <2> QED
      BY <1>3, <2>1, <2>2, QuietStep DEF TicketGranted
  <1>4. ASSUME NEW t \in Tasks, TicketRefused(t) PROVE HostInv'
    <2> DEFINE d == IF frame[t].pc = "renew" THEN Await(frame[t], "login") ELSE Idle
    <2>1. d \in Frames /\ d.pc \notin Probes
      BY <1>b, <1>c, <1>e DEF TicketCalls
    <2>2. Resume(t, d) /\ frame[t].pc \notin Probes
      BY <1>4, <1>a DEF TicketRefused
    <2> QED
      BY <1>4, <2>1, <2>2, QuietStep DEF TicketRefused
  <1>5. ASSUME NEW t \in Tasks, TicketLost(t) PROVE HostInv'
    <2>1. frame[t].pc \notin InLock /\ frame[t].pc # "idle" /\ frame[t].pc \notin Probes
      BY <1>5, <1>a DEF TicketLost
    <2>2. CASE Enter(t, [frame[t] EXCEPT !.why = "renewal"])
      <3> DEFINE c == [frame[t] EXCEPT !.why = "renewal"]
      <3>1. c \in Frames /\ c.pc # "idle"
        BY <1>b, <2>1 DEF Frames, Records
      <3> HIDE DEF c
      <3>2. Enter(t, c)
        BY <2>2 DEF c
      <3> QED
        BY <1>5, <2>1, <3>1, <3>2, EnterStep DEF TicketLost
    <2>3. CASE Resume(t, Idle) /\ UNCHANGED <<index, baseUrl, lockQ, walk>>
      BY <1>5, <1>c, <2>1, <2>3, QuietStep DEF TicketLost
    <2> QED
      BY <1>5, <2>2, <2>3 DEF TicketLost
  <1>6. ASSUME NEW t \in Tasks, Answered(t) PROVE HostInv'
    <2>1. frame[t].pc \notin Probes
      BY <1>6, <1>a DEF Answered
    <2> QED
      BY <1>6, <1>c, <2>1, QuietStep DEF Answered
  <1>7. ASSUME NEW t \in Tasks, LearnFromCluster(t) PROVE HostInv'
    <2>1. PICK new \in Learnable : MayLearn(FALSE) /\ Learn(new, FALSE)
      BY <1>7 DEF LearnFromCluster
    <2>2. frame[t].pc # "walk" /\ frame' = [frame EXCEPT ![t] = Idle]
      BY <1>7, <1>a DEF LearnFromCluster, Resume
    <2>3. \A u \in Tasks :
             frame'[u] = frame[u] \/ (frame[u].pc # "walk" /\ frame'[u] = Idle)
      BY <1>0, <2>2
    <2> QED
      BY <1>7, <2>1, <2>3, LearnStep DEF LearnFromCluster
  <1>8. ASSUME NEW t \in Tasks, Refused401(t) PROVE HostInv'
    <2>1. frame[t].pc \notin Probes
      BY <1>8, <1>a DEF Refused401, Requests
    <2>2. Await(frame[t], "relogin") \in Frames /\ Await(frame[t], "relogin").pc \notin Probes
      BY <1>b, <1>e DEF TicketCalls
    <2> QED
      BY <1>8, <2>1, <2>2, QuietStep DEF Refused401
  <1>9. ASSUME NEW t \in Tasks, RequestLost(t) PROVE HostInv'
    <2>1. frame[t].pc \notin InLock /\ frame[t].pc # "idle" /\ frame[t].pc \notin Probes
      BY <1>9, <1>a DEF RequestLost
    <2>2. CASE Enter(t, [frame[t] EXCEPT !.why = "request"])
      <3> DEFINE c == [frame[t] EXCEPT !.why = "request"]
      <3>1. c \in Frames /\ c.pc # "idle"
        BY <1>b, <2>1 DEF Frames, Records
      <3> HIDE DEF c
      <3>2. Enter(t, c)
        BY <2>2 DEF c
      <3> QED
        BY <1>9, <2>1, <3>1, <3>2, EnterStep DEF RequestLost
    <2>3. CASE Resume(t, Idle) /\ UNCHANGED <<index, baseUrl, lockQ, walk>>
      BY <1>9, <1>c, <2>1, <2>3, QuietStep DEF RequestLost
    <2> QED
      BY <1>9, <2>2, <2>3 DEF RequestLost
  <1>10. ASSUME NEW t \in Tasks, Woken(t) PROVE HostInv'
    <2>1. frame[t].pc = "lock" /\ frame[t].pc \notin Probes
      BY <1>10, <1>a DEF Woken
    <2>2. lockQ # << >>
      BY <2>1, OwnerFacts DEF InLock
    <2>3. lockQ[1] = t
      BY <1>10, <2>2 DEF Woken, Inv, TypeOK
    <2>4. Alone(t)
      BY <2>3, OwnerIsAlone
    <2> QED
      BY <1>10, <1>b, <2>1, <2>4, InsideStep DEF Woken
  <1>11. ASSUME NEW t \in Tasks, VerifyAnswered(t) PROVE HostInv'
    <2>1. frame[t].pc = "verify"
      BY <1>11 DEF VerifyAnswered
    <2>2. Alone(t)
      BY <2>1, OwnerFacts, OwnerIsAlone DEF Probes
    <2>3. InRange(index)' /\ baseUrl' = At(index)'
      BY <1>0, <1>11 DEF VerifyAnswered, InRange, At
    <2> QED
      BY <1>11, <1>c, <2>1, <2>2, <2>3, SettledStep DEF VerifyAnswered, Resume
  <1>12. ASSUME NEW t \in Tasks, VerifySilent(t) PROVE HostInv'
    <2>1. frame[t].pc = "verify" /\ frame[t].pc \in Probes
      BY <1>12 DEF VerifySilent, Probes
    <2>2. Noted(frame[t]) \in Frames
      BY <1>b, <2>1, NotedFacts
    <2>3. walk.start = index
      BY <2>1 DEF HostInv, ProbesSound
    <2>4. "walk" \notin CancelAt => At(index) = vouched
      <3>1. ~Walking
        BY <2>1, OwnerFacts, OwnerIsAlone DEF Walking, Alone, Probes
      <3> QED
        BY <1>0, <3>1 DEF HostInv, Vouching, InUseHasAnswered
    <2>5. NextCandidate(t, Noted(frame[t]), index, 1, hosts)
      BY <1>12, <2>3 DEF VerifySilent
    <2>6. Len(hosts) <= Len(hosts) /\ 1 \in Nat \ {0}
      BY <1>0
    <2> QED
      BY <1>0, <1>12, <2>1, <2>2, <2>4, <2>5, <2>6, NextCandidateStep DEF VerifySilent
  <1>13. ASSUME NEW t \in Tasks, CandidateAnswered(t) PROVE HostInv'
    <2> DEFINE d == IF ~InRange(walk.start) THEN Idle
                    ELSE IF frame[t].why = "renewal" THEN Refresh(frame[t])
                    ELSE Await(frame[t], "again")
    <2>1. frame[t].pc = "walk"
      BY <1>13 DEF CandidateAnswered
    <2>2. Alone(t)
      BY <2>1, OwnerFacts, OwnerIsAlone DEF Probes
    <2>3. d \in Frames /\ d.pc \notin Probes
      BY <1>b, <1>c, <1>d, <1>e DEF Requests
    <2>4. frame' = [frame EXCEPT ![t] = d]
      BY <1>13 DEF CandidateAnswered, Resume
    <2> HIDE DEF d
    <2>5. baseUrl' = vouched'
      BY <1>13, <2>1 DEF CandidateAnswered, HostInv, ProbesSound, WalkInv
    <2>6. InRange(index)' /\ baseUrl' = At(index)'
      BY <1>0, <1>13 DEF CandidateAnswered, InRange, At
    <2> QED
      BY <1>13, <2>2, <2>3, <2>4, <2>5, <2>6, SettledStep DEF CandidateAnswered
  <1>14. ASSUME NEW t \in Tasks, CandidateSilent(t) PROVE HostInv'
    <2>1. frame[t].pc = "walk" /\ frame[t].pc \in Probes
      BY <1>14 DEF CandidateSilent, Probes
    <2>2. Noted(frame[t]) \in Frames
      BY <1>b, <2>1, NotedFacts
    <2>3. WalkInv(frame[t])
      BY <2>1 DEF HostInv, ProbesSound
    <2>4. /\ walk.start \in Nat /\ walk.offset + 1 \in Nat \ {0} /\ walk.list \in Seq(Hosts)
          /\ InRange(walk.start) /\ Len(walk.list) <= Len(hosts)
          /\ "walk" \notin CancelAt => At(walk.start) = vouched
      BY <1>0, <2>3 DEF WalkInv, Walks
    <2> QED
      BY <1>14, <2>1, <2>2, <2>4, NextCandidateStep DEF CandidateSilent
  <1>15. ASSUME NEW t \in Tasks, Interrupt(t) PROVE HostInv'
    <2>1. frame' = [frame EXCEPT ![t] = Idle] /\ UNCHANGED <<hosts, index, baseUrl, vouched>>
      BY <1>15 DEF Interrupt, Resume
    <2>2. InRange(index)' /\ baseUrl' = At(index)'
      BY <1>0, <2>1 DEF InRange, At
    <2>3. "walk" \notin CancelAt => frame[t].pc # "walk"
      BY <1>15 DEF Interrupt
    <2>4. CASE frame[t].pc \in Probes
      <3>1. Alone(t)
        BY <2>4, OwnerFacts, OwnerIsAlone
      <3> QED
        BY <1>c, <2>1, <2>2, <2>3, <3>1, SettledStep
    <2>5. CASE frame[t].pc \notin Probes
      <3>1. UNCHANGED walk
        BY <1>15, <2>5 DEF Interrupt
      <3> QED
        BY <1>c, <2>1, <2>2, <2>3, <2>5, <3>1, SettledStep
    <2> QED
      BY <2>4, <2>5
  <1>16. CASE LearnHosts
    <2>1. PICK new \in Learnable, replace \in BOOLEAN : MayLearn(replace) /\ Learn(new, replace)
      BY <1>16 DEF LearnHosts
    <2> QED
      BY <1>16, <2>1, LearnStep DEF LearnHosts
  <1>17. CASE UNCHANGED <<hosts, index, baseUrl, walk, frame, vouched>>
    <2> QED
      BY <1>17 DEF HostInv, HostListOK, HostInUseListed, ProbesSound, WalkInv, InRange, At,
                   Vouching, InUseHasAnswered, Walking
  <1>18. CASE Age \/ Flap \/ UNCHANGED vars
    BY <1>17, <1>18 DEF Age, Flap, vars
  <1> QED
    BY <1>1, <1>2, <1>3, <1>4, <1>5, <1>6, <1>7, <1>8, <1>9, <1>10, <1>11, <1>12,
       <1>13, <1>14, <1>15, <1>16, <1>18 DEF Next, TaskStep

LEMMA AlwaysHostInv ==
    ASSUME ReplaceWhile \subseteq {"settled"}
    PROVE  Spec => []HostInv
  <1>1. Inv /\ HostInv /\ [Next]_vars => HostInv'
    BY NextHostInv
  <1> QED
    BY InitHostInv, AlwaysInv, <1>1, PTL DEF Spec

\* Where the list is replaced only between failovers, and however it grows
\* during them: the configured host stays first, no host is listed twice, and
\* the index names the host that requests are sent to.
THEOREM HostListStaysSound ==
    ASSUME ReplaceWhile \subseteq {"settled"}
    PROVE  Spec => []HostListOK
  <1>1. HostInv => HostListOK
    BY DEF HostInv
  <1> QED
    BY AlwaysHostInv, <1>1, PTL

\* Between the awaits of a walk its start stays in the list, its offset within
\* the list it began with, and its candidate is the host in use and not the
\* one it started from: the walk never asks a host it has already left.
THEOREM WalkStaysSound ==
    ASSUME ReplaceWhile \subseteq {"settled"}
    PROVE  Spec => []WalkOK
  <1>1. HostInv => WalkOK
    BY DEF HostInv, ProbesSound, WalkInv, WalkOK
  <1> QED
    BY AlwaysHostInv, <1>1, PTL

\* failover(), "a candidate has to answer `version` before it counts": where
\* no walk is cancelled, the client rests on the configured host or on one
\* that answered as a candidate, also after a walk that found nobody.
THEOREM HostInUseHasAnswered ==
    ASSUME ReplaceWhile \subseteq {"settled"}, "walk" \notin CancelAt
    PROVE  Spec => []InUseHasAnswered
  <1>1. HostInv => InUseHasAnswered
    BY DEF HostInv, Vouching
  <1> QED
    BY AlwaysHostInv, <1>1, PTL

-------------------------------------------------------------------------------
(* What a failover knows of the hosts it has asked.                        *)

\* The candidates before offset k, all of them asked in vain.
Tried(start, k) == {At(Candidate(start, j)) : j \in 1..(k - 1)}

\* A walk after a failed request has asked the host it started from. Over a
\* list that has not changed behind it, it has asked one candidate after the
\* other, and after a failed request nobody else.
SilenceKnown(c) ==
    /\ c.why = "request" => At(walk.start) \in c.silent
    /\ hosts = walk.list =>
          /\ c.to = At(Candidate(walk.start, walk.offset))
          /\ Tried(walk.start, walk.offset) \subseteq c.silent
          /\ c.why = "request" =>
                c.silent \subseteq Tried(walk.start, walk.offset) \cup {At(walk.start)}

SilenceInv ==
    \A t \in Tasks :
        /\ frame[t].pc \in InLock => frame[t].why # "none"
        /\ frame[t].pc = "verify" =>
              /\ frame[t].why = "request"
              /\ frame[t].to = At(walk.start)
              /\ frame[t].silent = {}
        /\ frame[t].pc = "walk" => SilenceKnown(frame[t])

\* The offsets of one walk around the list name different hosts, none of them
\* the one it started from.
LEMMA CandidatesDiffer ==
    ASSUME TypeOK, IsInjective(hosts), NEW start \in Nat, InRange(start),
           NEW j \in 1..(Len(hosts) - 1), NEW k \in 1..(Len(hosts) - 1), j # k
    PROVE  At(Candidate(start, j)) # At(Candidate(start, k))
  <1> DEFINE n == Len(hosts)
  <1>1. n \in Nat \ {0} /\ start < n /\ DOMAIN hosts = 1..n
    BY DEF TypeOK, InRange
  <1>2. \A i \in 1..(n - 1) :
           Candidate(start, i) = IF start + i < n THEN start + i ELSE (start + i) - n
    <2> SUFFICES ASSUME NEW i \in 1..(n - 1)
                 PROVE  (start + i) % n = IF start + i < n THEN start + i ELSE (start + i) - n
      BY DEF Candidate
    <2> QED
      BY <1>1
  <1>3. Candidate(start, j) # Candidate(start, k)
    BY <1>1, <1>2
  <1>4. Candidate(start, j) \in 0..(n - 1) /\ Candidate(start, k) \in 0..(n - 1)
    BY CandidateIsAnother
  <1> QED
    BY <1>1, <1>3, <1>4 DEF IsInjective, At

\* One walk around the list comes by every host but the one it started from.
LEMMA CandidatesAreAll ==
    ASSUME TypeOK, NEW start \in Nat, InRange(start)
    PROVE  Range(hosts) \ {At(start)} \subseteq Tried(start, Len(hosts))
  <1> DEFINE n == Len(hosts)
  <1>1. n \in Nat \ {0} /\ start < n /\ DOMAIN hosts = 1..n
    BY DEF TypeOK, InRange
  <1> SUFFICES ASSUME NEW i \in 1..n, hosts[i] # At(start)
               PROVE  hosts[i] \in Tried(start, n)
    BY <1>1 DEF Range
  <1>2. i # start + 1
    BY DEF At
  <1>3. PICK j \in 1..(n - 1) : Candidate(start, j) = i - 1
    <2>1. CASE i > start + 1
      <3>1. i - 1 - start \in 1..(n - 1) /\ (start + (i - 1 - start)) % n = i - 1
        BY <1>1, <2>1
      <3> QED
        BY <3>1 DEF Candidate
    <2>2. CASE i < start + 1
      <3> DEFINE j == (i - 1 - start) + n
      <3>1. j \in 1..(n - 1) /\ start + j = (i - 1) + n /\ i - 1 \in 0..(n - 1)
        BY <1>1, <2>2
      <3>2. ((i - 1) + n) % n = i - 1
        BY <1>1, <3>1
      <3> QED
        BY <3>1, <3>2 DEF Candidate
    <2> QED
      BY <1>1, <1>2, <2>1, <2>2
  <1>4. At(Candidate(start, j)) = hosts[i]
    BY <1>3 DEF At
  <1> QED
    BY <1>4 DEF Tried
-------------------------------------------------------------------------------
(* The ways a step may treat what is known of the silent hosts.            *)

\* A task ends its probe, or had none.
LEMMA SilenceOutside ==
    ASSUME Inv, SilenceInv, NEW t \in Tasks, NEW d, Resume(t, d),
           d.pc \notin Probes, d.pc = "lock" => d.why # "none",
           UNCHANGED hosts, Alone(t) \/ UNCHANGED walk
    PROVE  SilenceInv'
  <1>1. frame'[t] = d /\ \A u \in Tasks \ {t} : frame'[u] = frame[u]
    BY DEF Inv, TypeOK, Resume
  <1> SUFFICES ASSUME NEW u \in Tasks
               PROVE  /\ frame'[u].pc \in InLock => frame'[u].why # "none"
                      /\ frame'[u].pc = "verify" =>
                            /\ frame'[u].why = "request"
                            /\ frame'[u].to = At(walk.start)'
                            /\ frame'[u].silent = {}
                      /\ frame'[u].pc = "walk" => SilenceKnown(frame[u])'
    BY DEF SilenceInv
  <1>2. CASE u = t
    BY <1>1, <1>2 DEF Probes, InLock
  <1>3. CASE u # t /\ frame[u].pc \notin Probes
    BY <1>1, <1>3 DEF SilenceInv, Probes, InLock
  <1>4. CASE u # t /\ UNCHANGED walk
    BY <1>1, <1>4 DEF SilenceInv, SilenceKnown, Tried, Candidate, At
  <1> QED
    BY <1>2, <1>3, <1>4 DEF Alone

\* A task asks the host in use.
LEMMA SilenceVerifies ==
    ASSUME Inv, SilenceInv, NEW t \in Tasks, NEW d, Resume(t, d), Alone(t),
           d.pc = "verify", d.why = "request", d.to = At(walk'.start), d.silent = {},
           UNCHANGED hosts
    PROVE  SilenceInv'
  <1>1. frame'[t] = d /\ \A u \in Tasks \ {t} : frame'[u] = frame[u]
    BY DEF Inv, TypeOK, Resume
  <1>2. \A u \in Tasks \ {t} : frame'[u].pc \notin Probes
    BY <1>1 DEF Alone
  <1> QED
    BY <1>1, <1>2 DEF SilenceInv, Probes, InLock, At

\* A task asks the next candidate.
LEMMA SilenceAsks ==
    ASSUME Inv, SilenceInv, NEW t \in Tasks, NEW c \in Frames, Alone(t),
           NEW start, NEW k, NEW list, Ask(t, c, start, k, list),
           c.why # "none",
           c.why = "request" => At(start) \in c.silent,
           hosts = list =>
              /\ Tried(start, k) \subseteq c.silent
              /\ c.why = "request" => c.silent \subseteq Tried(start, k) \cup {At(start)},
           UNCHANGED hosts
    PROVE  SilenceInv'
  <1> DEFINE d == [c EXCEPT !.pc = "walk", !.to = At(Candidate(start, k))]
  <1>1. frame'[t] = d /\ \A u \in Tasks \ {t} : frame'[u] = frame[u]
    BY DEF Inv, TypeOK, Ask, Resume
  <1>2. \A u \in Tasks \ {t} : frame'[u].pc \notin Probes
    BY <1>1 DEF Alone
  <1>3. /\ d.pc = "walk" /\ d.to = At(Candidate(start, k))
        /\ d.why = c.why /\ d.silent = c.silent
    BY DEF Frames, Records
  <1> HIDE DEF d
  <1>4. walk'.start = start /\ walk'.offset = k /\ walk'.list = list
    BY DEF Ask
  <1>5. Tried(start, k)' = Tried(start, k)
    BY DEF Tried, Candidate, At
  <1>6. SilenceKnown(frame[t])'
    BY <1>1, <1>3, <1>4, <1>5 DEF SilenceKnown, Candidate, At, Tried
  <1> QED
    BY <1>1, <1>2, <1>3, <1>6 DEF SilenceInv, Probes, InLock

\* failover() once the lock is the task's own.
LEMMA SilenceInside ==
    ASSUME Inv, HostInv, SilenceInv, NEW t \in Tasks, NEW c \in Frames,
           c.pc # "idle", c.why # "none", Alone(t), NEW held, NEW released,
           Inside(t, c, held, released), UNCHANGED hosts
    PROVE  SilenceInv'
  <1>0. InRange(index) /\ baseUrl = At(index) /\ baseUrl \in Hosts
    BY DEF Inv, TypeOK, HostInv, HostListOK, HostInUseListed
  <1>1. CASE Resume(t, Await(c, "again"))
    <2>1. Await(c, "again").pc \notin Probes \cup {"lock"}
      BY <1>0, AwaitFacts DEF Probes, PCs, Requests
    <2> QED
      BY <1>1, <2>1, SilenceOutside DEF Inside, Ask, GiveUp
  <1>2. CASE /\ Verifies(c) /\ Resume(t, Await(c, "verify"))
             /\ walk' = [start |-> index, offset |-> 0, list |-> hosts]
    <2> DEFINE d == Await(c, "verify")
    <2>1. d.pc = "verify" /\ d.to = baseUrl /\ d.why = c.why
      BY <1>0, AwaitFacts DEF Probes, PCs
    <2>2. d.silent = {}
      BY DEF Await, Frames, Records
    <2>3. d.to = At(walk'.start) /\ d.why = "request"
      BY <1>0, <1>2, <2>1 DEF Verifies
    <2> HIDE DEF d
    <2>4. Resume(t, d)
      BY <1>2 DEF d
    <2> QED
      BY <2>1, <2>2, <2>3, <2>4, SilenceVerifies
  <1>3. CASE ~Verifies(c) /\ Ask(t, Evidence(c), index, 1, hosts)
    <2>1. Evidence(c) \in Frames /\ Evidence(c).why = c.why
      BY NotedFacts DEF Evidence
    <2>2. Tried(index, 1) = {}
      BY DEF Tried
    <2>3. Evidence(c).why # "request"
      BY <1>3, <2>1 DEF Verifies
    <2> QED
      BY <1>3, <2>1, <2>2, <2>3, SilenceAsks
  <1>4. CASE GiveUp(t, index, 1, hosts)
    <2>1. Resume(t, Idle) /\ Idle.pc \notin Probes \cup {"lock"}
      BY <1>4, IdleFacts DEF GiveUp, Probes
    <2> QED
      BY <2>1, SilenceOutside
  <1> QED
    BY <1>0, <1>1, <1>2, <1>3, <1>4 DEF Inside

LEMMA SilenceEnter ==
    ASSUME Inv, HostInv, SilenceInv, NEW t \in Tasks, NEW c \in Frames,
           c.pc # "idle", c.why # "none", Enter(t, c), UNCHANGED hosts
    PROVE  SilenceInv'
  <1>1. CASE lockQ = << >> /\ Inside(t, c, <<t>>, << >>)
    <2>1. Alone(t)
      BY <1>1, OwnerIsAlone
    <2> QED
      BY <1>1, <2>1, SilenceInside
  <1>2. CASE Resume(t, [c EXCEPT !.pc = "lock"]) /\ UNCHANGED walk
    <2> DEFINE d == [c EXCEPT !.pc = "lock"]
    <2>1. d.pc = "lock" /\ d.why = c.why
      BY DEF Frames, Records
    <2> HIDE DEF d
    <2>2. Resume(t, d)
      BY <1>2 DEF d
    <2> QED
      BY <1>2, <2>1, <2>2, SilenceOutside DEF Probes
  <1> QED
    BY <1>1, <1>2 DEF Enter

\* A walk goes on, or ends.
LEMMA SilenceNextCandidate ==
    ASSUME Inv, SilenceInv, NEW t \in Tasks, NEW c \in Frames, Alone(t),
           NEW start, NEW k, NEW list, NextCandidate(t, c, start, k, list),
           c.why # "none",
           c.why = "request" => At(start) \in c.silent,
           hosts = list =>
              /\ Tried(start, k) \subseteq c.silent
              /\ c.why = "request" => c.silent \subseteq Tried(start, k) \cup {At(start)},
           UNCHANGED hosts
    PROVE  SilenceInv'
  <1>1. CASE Ask(t, c, start, k, list)
    BY <1>1, SilenceAsks
  <1>2. CASE GiveUp(t, start, k, list)
    <2>1. Resume(t, Idle) /\ Idle.pc \notin Probes \cup {"lock"}
      BY <1>2, IdleFacts DEF GiveUp, Probes
    <2> QED
      BY <2>1, SilenceOutside
  <1> QED
    BY <1>1, <1>2 DEF NextCandidate

\* A list that has grown to the walk's own length was that long before.
LEMMA SilenceLearn ==
    ASSUME Inv, HostInv, SilenceInv, ReplaceWhile \subseteq {"settled"},
           NEW new, NEW replace \in BOOLEAN, MayLearn(replace), Learn(new, replace),
           UNCHANGED <<baseUrl, walk>>,
           \A t \in Tasks : frame'[t] = frame[t] \/ frame'[t] = Idle
    PROVE  SilenceInv'
  <1> SUFFICES ASSUME NEW t \in Tasks, frame'[t].pc # "idle"
               PROVE  /\ frame'[t].pc \in InLock => frame'[t].why # "none"
                      /\ frame'[t].pc = "verify" =>
                            /\ frame'[t].why = "request"
                            /\ frame'[t].to = At(walk.start)'
                            /\ frame'[t].silent = {}
                      /\ frame'[t].pc = "walk" => SilenceKnown(frame[t])'
    BY DEF SilenceInv, InLock, Probes
  <1>1. frame'[t] = frame[t]
    BY IdleFacts
  <1>2. CASE frame[t].pc \notin Probes
    BY <1>1, <1>2 DEF SilenceInv, Probes
  <1>3. CASE frame[t].pc \in Probes
    <2>1. walk # NoWalk
      BY <1>3, OwnerFacts
    <2>2. ~replace
      BY <2>1 DEF MayLearn, Moment
    <2>3. /\ Len(hosts) <= Len(hosts')
          /\ \A i \in 1..Len(hosts) : hosts'[i] = hosts[i]
      BY <2>2, LearnKeeps DEF Inv, HostInv
    <2>4. /\ hosts \in Seq(Hosts) /\ hosts' \in Seq(Hosts)
          /\ Len(hosts) \in Nat /\ Len(hosts') \in Nat /\ index \in Nat /\ walk \in Walks
      BY LearnFacts DEF Inv, TypeOK
    <2>5. walk.start \in Nat /\ InRange(walk.start)
      BY <1>3, <2>4 DEF HostInv, ProbesSound, WalkInv, HostListOK, HostInUseListed,
                        Probes, Walks
    <2>6. At(walk.start)' = At(walk.start)
      BY <2>3, <2>4, <2>5 DEF At, InRange
    <2>7. CASE frame[t].pc = "verify"
      BY <1>1, <2>6, <2>7 DEF SilenceInv, InLock, Probes
    <2>8. CASE frame[t].pc = "walk"
      <3>1. hosts' = walk.list => hosts' = hosts
        <4>1. Len(walk.list) <= Len(hosts)
          BY <2>8 DEF HostInv, ProbesSound, WalkInv
        <4>2. hosts' = walk.list => Len(hosts') = Len(hosts)
          BY <2>3, <2>4, <4>1
        <4> QED
          BY <2>3, <2>4, <4>2
      <3>2. SilenceKnown(frame[t])
        BY <2>8 DEF SilenceInv
      <3>3. SilenceKnown(frame[t])'
        BY <1>1, <2>6, <3>1, <3>2 DEF SilenceKnown, Tried, Candidate, At
      <3> QED
        BY <1>1, <2>8, <3>3 DEF SilenceInv, InLock, Probes
    <2> QED
      BY <1>1, <1>3, <2>7, <2>8 DEF Probes
  <1> QED
    BY <1>2, <1>3

LEMMA InitSilenceInv == Init => SilenceInv
  BY IdleFacts DEF Init, SilenceInv, InLock, Probes

LEMMA NextSilenceInv ==
    ASSUME ReplaceWhile \subseteq {"settled"}, Inv, HostInv, SilenceInv, [Next]_vars
    PROVE  SilenceInv'
  <1>0. /\ baseUrl \in Hosts /\ frame \in [Tasks -> Frames] /\ walk \in Walks
        /\ hosts \in Seq(Hosts)
    BY DEF Inv, TypeOK
  <1>a. /\ TicketCalls \cup Requests \subseteq PCs
        /\ \A p \in TicketCalls \cup Requests \cup {"idle"} : p \notin Probes \cup {"lock"}
        /\ \A p \in TicketCalls \cup Requests : p \notin InLock /\ p # "idle"
    BY DEF PCs, TicketCalls, Requests, InLock, Probes
  <1>b. \A t \in Tasks : frame[t] \in Frames
    BY <1>0
  <1>c. Idle \in Frames /\ Idle.pc \notin Probes \cup {"lock"}
    BY <1>a, IdleFacts
  <1>d. \A c \in Frames : /\ Send(c).pc \notin Probes \cup {"lock"}
                          /\ Refresh(c).pc \notin Probes \cup {"lock"}
    BY <1>0, SendFacts, RefreshFacts DEF Probes
  <1>e. \A c \in Frames, p \in TicketCalls \cup Requests :
           Await(c, p).pc \notin Probes \cup {"lock"}
    BY <1>0, <1>a, AwaitFacts
  <1>f. \A t \in Tasks : \A d : /\ Resume(t, d) /\ d.pc \notin Probes \cup {"lock"}
                               /\ UNCHANGED <<hosts, walk>>
                               => SilenceInv'
    BY SilenceOutside
  <1>1. ASSUME NEW t \in Tasks, Connect(t) \/ StartRequest(t) PROVE SilenceInv'
    BY <1>1, <1>c, <1>d, <1>e, <1>f DEF Connect, StartRequest, TicketCalls
  <1>2. ASSUME NEW t \in Tasks, TicketGranted(t) PROVE SilenceInv'
    BY <1>2, <1>b, <1>d, <1>e, <1>f DEF TicketGranted, Requests
  <1>3. ASSUME NEW t \in Tasks, TicketRefused(t) PROVE SilenceInv'
    BY <1>3, <1>b, <1>c, <1>e, <1>f DEF TicketRefused, TicketCalls
  <1>4. ASSUME NEW t \in Tasks, TicketLost(t) PROVE SilenceInv'
    <2>1. CASE Enter(t, [frame[t] EXCEPT !.why = "renewal"])
      <3> DEFINE c == [frame[t] EXCEPT !.why = "renewal"]
      <3>1. c \in Frames /\ c.pc # "idle" /\ c.why # "none"
        BY <1>4, <1>a, <1>b DEF TicketLost, Frames, Records
      <3> HIDE DEF c
      <3>2. Enter(t, c)
        BY <2>1 DEF c
      <3> QED
        BY <1>4, <3>1, <3>2, SilenceEnter DEF TicketLost
    <2>2. CASE Resume(t, Idle) /\ UNCHANGED <<index, baseUrl, lockQ, walk>>
      BY <1>4, <1>c, <1>f, <2>2 DEF TicketLost
    <2> QED
      BY <1>4, <2>1, <2>2 DEF TicketLost
  <1>5. ASSUME NEW t \in Tasks, Answered(t) PROVE SilenceInv'
    BY <1>5, <1>c, <1>f DEF Answered
  <1>6. ASSUME NEW t \in Tasks, LearnFromCluster(t) PROVE SilenceInv'
    <2>1. PICK new \in Learnable : MayLearn(FALSE) /\ Learn(new, FALSE)
      BY <1>6 DEF LearnFromCluster
    <2>2. \A u \in Tasks : frame'[u] = frame[u] \/ frame'[u] = Idle
      BY <1>0, <1>6 DEF LearnFromCluster, Resume
    <2> QED
      BY <1>6, <2>1, <2>2, SilenceLearn DEF LearnFromCluster
  <1>7. ASSUME NEW t \in Tasks, Refused401(t) PROVE SilenceInv'
    BY <1>7, <1>b, <1>e, <1>f DEF Refused401, TicketCalls
  <1>8. ASSUME NEW t \in Tasks, RequestLost(t) PROVE SilenceInv'
    <2>1. CASE Enter(t, [frame[t] EXCEPT !.why = "request"])
      <3> DEFINE c == [frame[t] EXCEPT !.why = "request"]
      <3>1. c \in Frames /\ c.pc # "idle" /\ c.why # "none"
        BY <1>8, <1>a, <1>b DEF RequestLost, Frames, Records
      <3> HIDE DEF c
      <3>2. Enter(t, c)
        BY <2>1 DEF c
      <3> QED
        BY <1>8, <3>1, <3>2, SilenceEnter DEF RequestLost
    <2>2. CASE Resume(t, Idle) /\ UNCHANGED <<index, baseUrl, lockQ, walk>>
      BY <1>8, <1>c, <1>f, <2>2 DEF RequestLost
    <2> QED
      BY <1>8, <2>1, <2>2 DEF RequestLost
  <1>9. ASSUME NEW t \in Tasks, Woken(t) PROVE SilenceInv'
    <2>1. frame[t].pc = "lock" /\ frame[t].pc \in InLock
      BY <1>9 DEF Woken, InLock
    <2>2. lockQ # << >>
      BY <2>1, OwnerFacts
    <2>3. lockQ[1] = t
      BY <1>9, <2>2 DEF Woken, Inv, TypeOK
    <2>4. Alone(t)
      BY <2>3, OwnerIsAlone
    <2>5. frame[t].why # "none" /\ frame[t].pc # "idle"
      BY <2>1 DEF SilenceInv
    <2> QED
      BY <1>9, <1>b, <2>4, <2>5, SilenceInside DEF Woken
  <1>10. ASSUME NEW t \in Tasks, frame[t].pc \in Probes PROVE Alone(t)
    BY <1>10, OwnerFacts, OwnerIsAlone
  <1>11. ASSUME NEW t \in Tasks, VerifyAnswered(t) PROVE SilenceInv'
    <2>1. Alone(t)
      BY <1>10, <1>11 DEF VerifyAnswered, Probes
    <2> QED
      BY <1>11, <1>c, <2>1, SilenceOutside DEF VerifyAnswered
  <1>12. ASSUME NEW t \in Tasks, VerifySilent(t) PROVE SilenceInv'
    <2>1. frame[t].pc = "verify" /\ frame[t].pc \in Probes /\ Alone(t)
      BY <1>10, <1>12 DEF VerifySilent, Probes
    <2> DEFINE c == Noted(frame[t])
    <2>2. c \in Frames /\ c.why = frame[t].why
      BY <1>b, <2>1, NotedFacts
    <2>3. c.silent = {At(walk.start)} /\ c.why = "request"
      BY <1>b, <2>1, <2>2 DEF SilenceInv, Noted, Frames, Records
    <2>4. Tried(walk.start, 1) = {}
      BY DEF Tried
    <2>5. NextCandidate(t, c, walk.start, 1, hosts) /\ UNCHANGED hosts
      BY <1>12 DEF VerifySilent
    <2> HIDE DEF c
    <2> QED
      BY <2>1, <2>2, <2>3, <2>4, <2>5, SilenceNextCandidate
  <1>13. ASSUME NEW t \in Tasks, CandidateAnswered(t) PROVE SilenceInv'
    <2> DEFINE d == IF ~InRange(walk.start) THEN Idle
                    ELSE IF frame[t].why = "renewal" THEN Refresh(frame[t])
                    ELSE Await(frame[t], "again")
    <2>1. Alone(t)
      BY <1>10, <1>13 DEF CandidateAnswered, Probes
    <2>2. d.pc \notin Probes \cup {"lock"}
      BY <1>b, <1>c, <1>d, <1>e DEF Requests
    <2>3. Resume(t, d) /\ UNCHANGED hosts
      BY <1>13 DEF CandidateAnswered
    <2> HIDE DEF d
    <2> QED
      BY <2>1, <2>2, <2>3, SilenceOutside
  <1>14. ASSUME NEW t \in Tasks, CandidateSilent(t) PROVE SilenceInv'
    <2>1. frame[t].pc = "walk" /\ frame[t].pc \in Probes /\ Alone(t)
      BY <1>10, <1>14 DEF CandidateSilent, Probes
    <2> DEFINE c == Noted(frame[t])
               next == walk.offset + 1
    <2>2. c \in Frames /\ c.why = frame[t].why
      BY <1>b, <2>1, NotedFacts
    <2>3. c.silent = frame[t].silent \cup {frame[t].to}
      BY <1>b DEF Noted, Frames, Records
    <2>4. SilenceKnown(frame[t]) /\ frame[t].why # "none"
      BY <2>1 DEF SilenceInv, InLock
    <2>5. Tried(walk.start, next)
            = Tried(walk.start, walk.offset) \cup {At(Candidate(walk.start, walk.offset))}
      <3>1. WalkInv(frame[t]) /\ Len(walk.list) \in Nat
        BY <1>0, <2>1 DEF HostInv, ProbesSound, Walks
      <3>2. 1..(next - 1) = 1..(walk.offset - 1) \cup {walk.offset}
        BY <3>1 DEF WalkInv
      <3> QED
        BY <3>2 DEF Tried
    <2>6. NextCandidate(t, c, walk.start, next, walk.list) /\ UNCHANGED hosts
      BY <1>14 DEF CandidateSilent
    <2>7. c.why = "request" => At(walk.start) \in c.silent
      BY <2>2, <2>3, <2>4 DEF SilenceKnown
    <2>8. hosts = walk.list =>
             /\ Tried(walk.start, next) \subseteq c.silent
             /\ c.why = "request" =>
                   c.silent \subseteq Tried(walk.start, next) \cup {At(walk.start)}
      BY <2>2, <2>3, <2>4, <2>5 DEF SilenceKnown
    <2> HIDE DEF c, next
    <2> QED
      BY <2>1, <2>2, <2>4, <2>6, <2>7, <2>8, SilenceNextCandidate
  <1>15. ASSUME NEW t \in Tasks, Interrupt(t) PROVE SilenceInv'
    <2>1. Alone(t) \/ UNCHANGED walk
      BY <1>10, <1>15 DEF Interrupt
    <2> QED
      BY <1>15, <1>c, <2>1, SilenceOutside DEF Interrupt
  <1>16. CASE LearnHosts
    <2>1. PICK new \in Learnable, replace \in BOOLEAN : MayLearn(replace) /\ Learn(new, replace)
      BY <1>16 DEF LearnHosts
    <2> QED
      BY <1>16, <2>1, SilenceLearn DEF LearnHosts
  <1>17. CASE UNCHANGED <<hosts, walk, frame>>
    BY <1>17 DEF SilenceInv, SilenceKnown, Tried, Candidate, At
  <1>18. CASE Age \/ Flap \/ UNCHANGED vars
    BY <1>17, <1>18 DEF Age, Flap, vars
  <1> QED
    BY <1>1, <1>2, <1>3, <1>4, <1>5, <1>6, <1>7, <1>8, <1>9, <1>11, <1>12,
       <1>13, <1>14, <1>15, <1>16, <1>18 DEF Next, TaskStep

LEMMA AlwaysSilenceInv ==
    ASSUME ReplaceWhile \subseteq {"settled"}
    PROVE  Spec => []SilenceInv
  <1>1. Inv /\ HostInv /\ SilenceInv /\ [Next]_vars => SilenceInv'
    BY NextSilenceInv
  <1> QED
    BY InitSilenceInv, AlwaysInv, AlwaysHostInv, <1>1, PTL DEF Spec

-------------------------------------------------------------------------------
(* The steps of one task, and the host the client has settled on.          *)

\* A task's frame is changed by a step of its own.
LEMMA OwnStep ==
    ASSUME TypeOK, [Next]_vars, NEW t \in Tasks, frame'[t] # frame[t]
    PROVE  Connect(t) \/ StartRequest(t) \/ TaskStep(t) \/ Interrupt(t)
  <1> DEFINE Mine(u) == Connect(u) \/ StartRequest(u) \/ TaskStep(u) \/ Interrupt(u)
  <1>1. ASSUME NEW u \in Tasks, Mine(u) PROVE \E d : Resume(u, d)
    BY <1>1 DEF Connect, StartRequest, TaskStep, Interrupt, TicketGranted, TicketRefused,
        TicketLost, Answered, LearnFromCluster, Refused401, RequestLost, Woken,
        VerifyAnswered, VerifySilent, CandidateAnswered, CandidateSilent,
        Enter, Inside, NextCandidate, Ask, GiveUp
  <1>2. ASSUME NEW u \in Tasks, NEW d, Resume(u, d) PROVE u = t
    BY <1>2 DEF Resume, TypeOK
  <1>3. ~UNCHANGED frame
    OBVIOUS
  <1>4. \E u \in Tasks : Mine(u)
    BY <1>3 DEF Next, LearnHosts, Age, Flap, vars
  <1> QED
    BY <1>1, <1>2, <1>4

\* A walk ends where a candidate answers or the last one is silent.
LEMMA WalkEnds ==
    ASSUME TypeOK, "walk" \notin CancelAt, [Next]_vars, NEW t \in Tasks,
           frame[t].pc = "walk", frame'[t].pc # "walk"
    PROVE  CandidateAnswered(t) \/ CandidateSilent(t)
  <1>1. frame'[t] # frame[t]
    OBVIOUS
  <1>2. ~Interrupt(t)
    BY DEF Interrupt
  <1> QED
    BY <1>1, <1>2, OwnStep DEF Connect, StartRequest, TaskStep, TicketGranted, TicketRefused,
        TicketLost, Answered, LearnFromCluster, Refused401, RequestLost, Woken,
        VerifyAnswered, VerifySilent, TicketCalls, Requests

\* Where no walk is cancelled, the host the client has settled on is the
\* configured one or the last that answered as a candidate, also during a walk.
LEMMA SettledIsVouched ==
    ASSUME Inv, HostInv, "walk" \notin CancelAt
    PROVE  Settled = vouched
  <1>0. InRange(index) /\ baseUrl = At(index)
    BY DEF HostInv, HostListOK, HostInUseListed
  <1>1. CASE Walking
    <2>1. PICK t \in Tasks : frame[t].pc = "walk"
      BY <1>1 DEF Walking
    <2>2. walk # NoWalk
      BY <2>1, OwnerFacts DEF Probes
    <2> QED
      BY <2>1, <2>2 DEF HostInv, ProbesSound, WalkInv, Settled
  <1>2. CASE ~Walking
    <2>1. baseUrl = vouched
      BY <1>2 DEF HostInv, Vouching, InUseHasAnswered
    <2>2. ASSUME walk # NoWalk PROVE walk.start = index
      <3>1. PICK t \in Tasks : frame[t].pc \in Probes
        BY <2>2 DEF Inv, LockDiscipline
      <3>2. frame[t].pc = "verify"
        BY <1>2, <3>1 DEF Walking, Probes
      <3> QED
        BY <3>2 DEF HostInv, ProbesSound
    <2> QED
      BY <1>0, <2>1, <2>2 DEF Settled
  <1> QED
    BY <1>1, <1>2

\* That host is listed, as are the configured one and the one in use.
SettledInv ==
    /\ Settled = vouched
    /\ {Configured, baseUrl, vouched} \subseteq Range(hosts)
    /\ Range(hosts) \subseteq Hosts

LEMMA AlwaysSettledInv ==
    ASSUME ReplaceWhile \subseteq {"settled"}, "walk" \notin CancelAt
    PROVE  Spec => []SettledInv
  <1>1. Inv /\ HostInv => SettledInv
    <2> SUFFICES ASSUME Inv, HostInv PROVE SettledInv
      OBVIOUS
    <2>1. /\ hosts \in Seq(Hosts) /\ hosts # << >> /\ DOMAIN hosts = 1..Len(hosts)
          /\ Len(hosts) \in Nat /\ index \in Nat /\ walk \in Walks
      BY DEF Inv, TypeOK
    <2>2. Settled = vouched
      BY SettledIsVouched
    <2>3. \A i \in Nat : InRange(i) => At(i) \in Range(hosts)
      <3> SUFFICES ASSUME NEW i \in Nat, InRange(i) PROVE i + 1 \in DOMAIN hosts
        BY DEF At, Range
      <3> QED
        BY <2>1 DEF InRange
    <2>4. InRange(index) /\ baseUrl = At(index) /\ InRange(0) /\ At(0) = Configured
      BY <2>1 DEF HostInv, HostListOK, HostInUseListed, InRange, At
    <2>5. vouched \in Range(hosts)
      BY <2>1, <2>2, <2>3, <2>4 DEF Settled, Walks
    <2>6. Range(hosts) \subseteq Hosts
      BY <2>1 DEF Range
    <2> QED
      BY <2>1, <2>2, <2>3, <2>4, <2>5, <2>6 DEF SettledInv
  <1> QED
    BY AlwaysInv, AlwaysHostInv, <1>1, PTL

\* What is known of a switch: the walk of one task has made it.
LEMMA SwitchStep ==
    ASSUME Inv, HostInv, [Next]_vars, vouched' # vouched
    PROVE  \E t \in Tasks : CandidateAnswered(t)
  BY DEF Next, TaskStep, Connect, StartRequest, Interrupt, TicketGranted, TicketRefused,
         TicketLost, Answered, LearnFromCluster, Refused401, RequestLost, Woken,
         VerifyAnswered, VerifySilent, CandidateSilent, LearnHosts, Age, Flap, vars

\* The candidate that answers is the host in use, and no longer on probation.
LEMMA AnsweredFacts ==
    ASSUME Inv, HostInv, NEW t \in Tasks, CandidateAnswered(t)
    PROVE  /\ frame[t].pc = "walk" /\ frame'[t].pc \notin Probes
           /\ WalkInv(frame[t]) /\ walk # NoWalk
           /\ frame[t].to \in up /\ vouched' = frame[t].to
  <1> DEFINE d == IF ~InRange(walk.start) THEN Idle
                  ELSE IF frame[t].why = "renewal" THEN Refresh(frame[t])
                  ELSE Await(frame[t], "again")
  <1>1. frame[t] \in Frames /\ baseUrl \in Hosts
    BY DEF Inv, TypeOK
  <1>2. d.pc \notin Probes
    <2>1. Await(frame[t], "again").pc = "again"
      BY <1>1, AwaitFacts DEF PCs, Requests
    <2>2. Refresh(frame[t]).pc \in {"renew", "request", "idle"}
      BY <1>1, RefreshFacts
    <2> QED
      BY <2>1, <2>2, IdleFacts DEF Probes
  <1>3. frame'[t] = d
    BY DEF Inv, TypeOK, CandidateAnswered, Resume
  <1> HIDE DEF d
  <1>4. frame[t].pc = "walk"
    BY DEF CandidateAnswered
  <1>5. WalkInv(frame[t]) /\ walk # NoWalk
    BY <1>4, OwnerFacts DEF HostInv, ProbesSound, Probes
  <1> QED
    BY <1>2, <1>3, <1>4, <1>5 DEF CandidateAnswered

-------------------------------------------------------------------------------
\* failover(), for any number of requests and hosts, no walk cancelled: a
\* switch is made by one task's walk, to a host that answered that walk, and
\* away from one that, after a failed request, was asked itself and was silent.
THEOREM SwitchesAreProven ==
    ASSUME ReplaceWhile \subseteq {"settled"}, "walk" \notin CancelAt
    PROVE  Spec => SwitchIsProven
  <1>1. Inv /\ HostInv /\ SilenceInv /\ SettledInv /\ SettledInv' /\ [Next]_vars
        => (Settled' # Settled =>
              \E t \in Tasks :
                 /\ frame[t].pc = "walk" /\ frame'[t].pc # "walk"
                 /\ Settled' = frame[t].to /\ Settled' \in up
                 /\ frame[t].why = "request" => Settled \in frame[t].silent)
    <2> SUFFICES ASSUME Inv, HostInv, SilenceInv, SettledInv, SettledInv', [Next]_vars,
                        Settled' # Settled
                 PROVE  \E t \in Tasks :
                           /\ frame[t].pc = "walk" /\ frame'[t].pc # "walk"
                           /\ Settled' = frame[t].to /\ Settled' \in up
                           /\ frame[t].why = "request" => Settled \in frame[t].silent
      OBVIOUS
    <2>1. PICK t \in Tasks : CandidateAnswered(t)
      BY SwitchStep DEF SettledInv
    <2>2. /\ frame[t].pc = "walk" /\ frame'[t].pc # "walk"
          /\ Settled' = frame[t].to /\ Settled' \in up
      BY <2>1, AnsweredFacts DEF Probes, SettledInv
    <2>3. At(walk.start) = Settled
      BY <2>1, AnsweredFacts DEF WalkInv, SettledInv
    <2>4. frame[t].why = "request" => Settled \in frame[t].silent
      BY <2>2, <2>3 DEF SilenceInv, SilenceKnown
    <2> QED
      BY <2>2, <2>4
  <1> QED
    BY AlwaysInv, AlwaysHostInv, AlwaysSilenceInv, AlwaysSettledInv, <1>1, PTL
       DEF Spec, SwitchIsProven

\* docs/failover.md, "where no host answers, the original error is raised": in
\* the same setting, a walk that gives up over a list that has not changed
\* behind it has asked every other host of the list, and none has answered.
THEOREM SilenceIsUnanimous ==
    ASSUME ReplaceWhile \subseteq {"settled"}, "walk" \notin CancelAt
    PROVE  Spec => GivesUpOnlyOnSilence
  <1>1. Inv /\ HostInv /\ SilenceInv /\ [Next]_vars
        => \A t \in Tasks :
              /\ frame[t].pc = "walk" /\ frame'[t].pc = "idle" /\ frame[t].to \notin up
              /\ hosts = walk.list
              => Range(walk.list) \ {walk.list[walk.start + 1]}
                   \subseteq frame[t].silent \cup {frame[t].to}
    <2> SUFFICES ASSUME Inv, HostInv, SilenceInv, [Next]_vars, NEW t \in Tasks,
                        frame[t].pc = "walk", frame'[t].pc = "idle", frame[t].to \notin up,
                        hosts = walk.list
                 PROVE  Range(hosts) \ {At(walk.start)}
                          \subseteq frame[t].silent \cup {frame[t].to}
      BY DEF At
    <2>1. CandidateSilent(t)
      BY WalkEnds DEF Inv, CandidateAnswered
    <2>2. TypeOK /\ Len(hosts) \in Nat /\ WalkInv(frame[t]) /\ walk \in Walks
          /\ SilenceKnown(frame[t])
      BY DEF Inv, TypeOK, HostInv, ProbesSound, SilenceInv
    <2>3. walk.offset + 1 >= Len(hosts)
      <3>1. GiveUp(t, walk.start, walk.offset + 1, walk.list)
        <4>1. frame'[t].pc # "walk"
          OBVIOUS
        <4>2. ASSUME Ask(t, Noted(frame[t]), walk.start, walk.offset + 1, walk.list)
              PROVE  frame'[t].pc = "walk"
          <5>1. frame[t] \in Frames
            BY DEF Inv, TypeOK
          <5>2. Noted(frame[t]) \in Frames
            BY <5>1, NotedFacts
          <5> QED
            BY <4>2, <5>2 DEF Ask, Resume, Inv, TypeOK, Frames, Records
        <4> QED
          BY <2>1, <4>1, <4>2 DEF CandidateSilent, NextCandidate
      <3> QED
        BY <3>1 DEF GiveUp
    <2>4. walk.offset = Len(hosts) - 1 /\ walk.offset \in 1..(Len(hosts) - 1)
      BY <2>2, <2>3 DEF WalkInv
    <2>5. Tried(walk.start, Len(hosts)) \subseteq frame[t].silent \cup {frame[t].to}
      <3> SUFFICES ASSUME NEW j \in 1..(Len(hosts) - 1)
                   PROVE  At(Candidate(walk.start, j)) \in frame[t].silent \cup {frame[t].to}
        BY DEF Tried
      <3>1. CASE j = walk.offset
        BY <2>2, <3>1 DEF SilenceKnown
      <3>2. CASE j \in 1..(walk.offset - 1)
        BY <2>2, <3>2 DEF SilenceKnown, Tried
      <3> QED
        BY <2>2, <2>4, <3>1, <3>2
    <2>6. Range(hosts) \ {At(walk.start)} \subseteq Tried(walk.start, Len(hosts))
      BY <2>2, CandidatesAreAll DEF WalkInv, Walks
    <2> QED
      BY <2>5, <2>6
  <1> QED
    BY AlwaysInv, AlwaysHostInv, AlwaysSilenceInv, <1>1, PTL DEF Spec, GivesUpOnlyOnSilence

\* Where a task that failed finds the client moved by another, it repeats its
\* request on the host the client has settled on.
LEMMA MovedRepeats ==
    ASSUME Inv, HostInv, SettledInv, NEW t \in Tasks, NEW c \in Frames, Alone(t),
           c.pc # "idle", frame[t].pc \notin Probes, NEW held, NEW released,
           Inside(t, c, held, released), frame'[t].pc = "again"
    PROVE  frame'[t].to = vouched /\ frame'[t].to # c.to
  <1>0. baseUrl \in Hosts /\ baseUrl = At(index) /\ frame \in [Tasks -> Frames]
    BY DEF Inv, TypeOK, HostInv, HostListOK, HostInUseListed
  <1>1. Resume(t, Await(c, "again")) /\ Moved(c)
    <2>1. ASSUME NEW d, Resume(t, d) PROVE frame'[t] = d
      BY <1>0, <2>1 DEF Resume
    <2>2. ~Resume(t, Idle)
      BY <2>1, IdleFacts
    <2>3. ~Resume(t, Await(c, "verify"))
      BY <1>0, <2>1, AwaitFacts DEF PCs, Probes
    <2>4. ~Ask(t, Evidence(c), index, 1, hosts)
      <3>1. Evidence(c) \in Records
        BY NotedFacts DEF Evidence, Frames
      <3> QED
        BY <2>1, <3>1 DEF Ask, Records
    <2> QED
      BY <2>2, <2>3, <2>4 DEF Inside, GiveUp
  <1>2. frame'[t].to = baseUrl
    BY <1>0, <1>1, AwaitFacts DEF Resume, PCs, Requests
  <1>3. ~Walking
    BY DEF Walking, Alone, Probes
  <1>4. baseUrl = vouched
    <2>1. ASSUME NEW u \in Tasks PROVE frame[u].pc \notin Probes
      BY DEF Alone
    <2>2. walk = NoWalk
      BY <2>1 DEF Inv, LockDiscipline
    <2> QED
      BY <2>2 DEF SettledInv, Settled
  <1> QED
    BY <1>0, <1>1, <1>2, <1>4 DEF Moved

\* docs/failover.md, "the request repeated there": the second attempt after a
\* failover goes to the host that answered last, never to the one that failed,
\* and, over a list that has not changed behind the walk, to none that the walk
\* found silent.
THEOREM RepeatsGoElsewhere ==
    ASSUME ReplaceWhile \subseteq {"settled"}, "walk" \notin CancelAt
    PROVE  Spec => RepeatIsElsewhere
  <1> DEFINE Elsewhere(t) ==
               /\ frame'[t].to = vouched'
               /\ frame[t].pc # "walk" => frame'[t].to # frame[t].to
               /\ frame[t].pc = "walk" =>
                     /\ frame'[t].to # At(walk.start)
                     /\ hosts = walk.list => frame'[t].to \notin frame[t].silent
  <1>1. Inv /\ HostInv /\ SilenceInv /\ SettledInv /\ [Next]_vars
        => \A t \in Tasks :
              frame[t].pc \in {"request", "lock", "walk"} /\ frame'[t].pc = "again"
              => Elsewhere(t)
    <2> SUFFICES ASSUME Inv, HostInv, SilenceInv, SettledInv, [Next]_vars, NEW t \in Tasks,
                        frame[t].pc \in {"request", "lock", "walk"}, frame'[t].pc = "again"
                 PROVE  Elsewhere(t)
      OBVIOUS
    <2>0. frame \in [Tasks -> Frames] /\ frame[t] \in Frames /\ baseUrl \in Hosts
          /\ TypeOK /\ IsInjective(hosts) /\ walk \in Walks
      BY DEF Inv, TypeOK, HostInv, HostListOK
    <2>1. ASSUME NEW d, Resume(t, d) PROVE frame'[t] = d
      BY <2>0, <2>1 DEF Resume
    <2>2. ~Resume(t, Idle) /\ ~Interrupt(t)
      BY <2>1, IdleFacts DEF Interrupt
    <2>3. Connect(t) \/ StartRequest(t) \/ TaskStep(t)
      BY <2>0, <2>2, OwnStep
    <2>4. CASE frame[t].pc = "request"
      <3>1. RequestLost(t)
        <4>1. ~Resume(t, Await(frame[t], "relogin"))
          BY <2>0, <2>1, AwaitFacts DEF PCs, TicketCalls
        <4> QED
          BY <2>2, <2>3, <2>4, <4>1 DEF Connect, StartRequest, TaskStep, TicketGranted,
             TicketRefused, TicketLost, Answered, LearnFromCluster, Refused401, Woken,
             VerifyAnswered, VerifySilent, CandidateAnswered, CandidateSilent, TicketCalls
      <3> DEFINE c == [frame[t] EXCEPT !.why = "request"]
      <3>2. c \in Frames /\ c.to = frame[t].to /\ c.pc # "idle" /\ Enter(t, c)
        BY <2>0, <2>2, <2>4, <3>1 DEF RequestLost, Frames, Records
      <3> HIDE DEF c
      <3>3. lockQ = << >> /\ Inside(t, c, <<t>>, << >>)
        <4>1. [c EXCEPT !.pc = "lock"].pc = "lock"
          BY <3>2 DEF Frames, Records
        <4> QED
          BY <2>1, <3>2, <4>1 DEF Enter
      <3>4. Alone(t) /\ frame[t].pc \notin Probes
        BY <2>4, <3>3, OwnerIsAlone DEF Probes
      <3>5. frame'[t].to = vouched /\ frame'[t].to # c.to
        BY <3>2, <3>3, <3>4, MovedRepeats
      <3> QED
        BY <2>4, <3>1, <3>2, <3>5 DEF RequestLost
    <2>5. CASE frame[t].pc = "lock"
      <3>1. Woken(t)
        BY <2>3, <2>5 DEF Connect, StartRequest, TaskStep, TicketGranted, TicketRefused,
           TicketLost, Answered, LearnFromCluster, Refused401, RequestLost, VerifyAnswered,
           VerifySilent, CandidateAnswered, CandidateSilent, TicketCalls, Requests
      <3>2. lockQ # << >>
        BY <2>5, OwnerFacts DEF InLock
      <3>3. lockQ[1] = t
        BY <2>0, <3>1, <3>2 DEF Woken, TypeOK
      <3>4. Alone(t) /\ frame[t].pc \notin Probes
        BY <2>5, <3>3, OwnerIsAlone DEF Probes
      <3>5. frame'[t].to = vouched /\ frame'[t].to # frame[t].to
        BY <2>0, <3>1, <3>4, MovedRepeats DEF Woken
      <3> QED
        BY <2>5, <3>1, <3>5 DEF Woken
    <2>6. CASE frame[t].pc = "walk"
      <3>1. CandidateAnswered(t)
        <4>1. ASSUME CandidateSilent(t) PROVE FALSE
          <5>1. Noted(frame[t]) \in Records
            BY <2>0 DEF Noted, Frames, Records
          <5>2. [Noted(frame[t]) EXCEPT !.pc = "walk",
                   !.to = At(Candidate(walk.start, walk.offset + 1))].pc = "walk"
            BY <5>1 DEF Records
          <5> QED
            BY <2>1, <2>2, <4>1, <5>2 DEF CandidateSilent, NextCandidate, Ask, GiveUp
        <4> QED
          BY <2>0, <2>6, <4>1, WalkEnds
      <3>2. /\ WalkInv(frame[t]) /\ vouched' = frame[t].to
            /\ SilenceKnown(frame[t]) /\ frame[t].why # "none"
        BY <2>6, <3>1, AnsweredFacts DEF SilenceInv, InLock, Probes
      <3>3. Resume(t, Await(frame[t], "again")) /\ frame[t].why # "renewal"
        <4>1. ~Resume(t, Refresh(frame[t]))
          BY <2>0, <2>1, RefreshFacts
        <4> QED
          BY <2>2, <3>1, <4>1 DEF CandidateAnswered
      <3>4. frame'[t].to = baseUrl
        BY <2>0, <2>1, <3>3, AwaitFacts DEF PCs, Requests
      <3>5. frame'[t].to = vouched' /\ frame'[t].to # At(walk.start)
        BY <3>2, <3>4 DEF WalkInv
      <3>6. ASSUME hosts = walk.list PROVE frame'[t].to \notin frame[t].silent
        <4>1. frame[t].why = "request"
          BY <2>0, <3>2, <3>3 DEF Frames, Records
        <4>2. frame'[t].to = At(Candidate(walk.start, walk.offset))
          BY <3>2, <3>4, <3>6 DEF WalkInv, SilenceKnown
        <4>3. /\ walk.start \in Nat /\ InRange(walk.start)
              /\ walk.offset \in 1..(Len(hosts) - 1) /\ Len(hosts) \in Nat
          BY <2>0, <3>2, <3>6 DEF WalkInv, Walks, TypeOK
        <4>4. At(Candidate(walk.start, walk.offset)) \notin Tried(walk.start, walk.offset)
          <5> SUFFICES ASSUME NEW j \in 1..(walk.offset - 1)
                       PROVE  At(Candidate(walk.start, walk.offset)) # At(Candidate(walk.start, j))
            BY DEF Tried
          <5>1. j \in 1..(Len(hosts) - 1) /\ j # walk.offset
            BY <4>3
          <5> QED
            BY <2>0, <4>3, <5>1, CandidatesDiffer
        <4> QED
          BY <3>2, <3>5, <3>6, <4>1, <4>2, <4>4 DEF SilenceKnown
      <3> QED
        BY <2>6, <3>5, <3>6
    <2> QED
      BY <2>4, <2>5, <2>6
  <1> QED
    BY AlwaysInv, AlwaysHostInv, AlwaysSilenceInv, AlwaysSettledInv, <1>1, PTL
       DEF Spec, RepeatIsElsewhere
-------------------------------------------------------------------------------
(* The abstract choice of a host.                                          *)

\* docs/failover.md and the docstring of failover(): whatever the tasks, the
\* lock, the probes and the lists do, the client as a whole knows some hosts,
\* is settled on one, moves only to one that answers, and learns without
\* losing the configured host or the one in use.
THEOREM HostChoiceIsImplemented ==
    ASSUME ReplaceWhile \subseteq {"settled"}, "walk" \notin CancelAt
    PROVE  Spec => ImplementsHostChoice
  <1>1. Init => Choice!Init
    BY DEF Init, Choice!Init, Settled, NoWalk, Range
  <1>2. Inv /\ HostInv /\ SettledInv /\ SettledInv' /\ [Next]_vars
        => [Choice!Next]_(Choice!vars)
    <2> SUFFICES ASSUME Inv, HostInv, SettledInv, SettledInv', [Next]_vars
                 PROVE  [Choice!Next]_(Choice!vars)
      OBVIOUS
    <2>1. CASE vouched' # vouched
      <3>1. PICK t \in Tasks : CandidateAnswered(t)
        BY <2>1, SwitchStep
      <3>2. baseUrl \in Range(hosts) \cap up /\ vouched' = baseUrl
        BY <3>1, AnsweredFacts DEF WalkInv, SettledInv
      <3>3. Choice!Move
        BY <3>1, <3>2 DEF Choice!Move, CandidateAnswered, SettledInv
      <3> QED
        BY <3>3 DEF Choice!Next
    <2>2. CASE UNCHANGED vouched /\ hosts' # hosts
      <3>1. LearnHosts \/ \E t \in Tasks : LearnFromCluster(t)
        BY <2>2 DEF Next, TaskStep, Connect, StartRequest, Interrupt, TicketGranted,
           TicketRefused, TicketLost, Answered, Refused401, RequestLost, Woken,
           VerifyAnswered, VerifySilent, CandidateAnswered, CandidateSilent, Age, Flap, vars
      <3>2. UNCHANGED up
        BY <3>1 DEF LearnHosts, LearnFromCluster
      <3>3. Choice!Learn
        BY <2>2, <3>2 DEF Choice!Learn, SettledInv
      <3> QED
        BY <3>3 DEF Choice!Next
    <2>3. CASE UNCHANGED <<vouched, hosts>>
      <3>1. UNCHANGED <<Range(hosts), Settled>>
        BY <2>3 DEF SettledInv, Range
      <3>2. UNCHANGED up \/ Flap
        BY <2>3 DEF Next, TaskStep, Connect, StartRequest, Interrupt, TicketGranted,
           TicketRefused, TicketLost, Answered, LearnFromCluster, Refused401, RequestLost,
           Woken, VerifyAnswered, VerifySilent, CandidateAnswered, CandidateSilent,
           LearnHosts, Age, vars
      <3>3. CASE Flap
        <4>1. up' \subseteq Hosts
          BY <3>3 DEF Flap, Inv, TypeOK
        <4> QED
          BY <3>1, <4>1 DEF Choice!Environment, Choice!Next
      <3>4. CASE UNCHANGED up
        BY <3>1, <3>4 DEF Choice!vars
      <3> QED
        BY <3>2, <3>3, <3>4
    <2> QED
      BY <2>1, <2>2, <2>3
  <1> QED
    BY AlwaysInv, AlwaysHostInv, AlwaysSettledInv, <1>1, <1>2, PTL
       DEF Spec, ImplementsHostChoice, Choice!Spec
===============================================================================
