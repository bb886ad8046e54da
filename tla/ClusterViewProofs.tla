--------------------------- MODULE ClusterViewProofs ---------------------------
(***************************************************************************)
(* What the client's tables say of the guests, for any number of tasks,    *)
(* nodes, guests and answers on their way.                                 *)
(*                                                                         *)
(* The first part is about the sequences themselves: a search from either  *)
(* end finds an element that passes its test.                              *)
(***************************************************************************)
EXTENDS ClusterView, ListsProofs

-------------------------------------------------------------------------------
(* Searches of a sequence.                                                 *)

\* A search from the front finds the first element that passes, if any does.
LEMMA FindFacts ==
  ASSUME NEW A, NEW view \in Seq(A), NEW vmid
  PROVE  LET found == {r \in Range(view) : IsGuestRow(r) /\ r.id = vmid} IN
         IF found = {} THEN FindNode(view, vmid) = Nowhere
                       ELSE \E r \in found : FindNode(view, vmid) = r.node
<1> DEFINE found == {r \in Range(view) : IsGuestRow(r) /\ r.id = vmid}
           I == {i \in 1..Len(view) : IsGuestRow(view[i]) /\ view[i].id = vmid}
<1>1. Len(view) \in Nat /\ DOMAIN view = 1..Len(view)
  OBVIOUS
<1>2. found = {view[i] : i \in I}
  BY <1>1 DEF Range
<1>3. FindNode(view, vmid) = NodeAt(view, IF I # {} THEN Min(I) ELSE 0)
  BY DEF FindNode, SelectInSeq
<1>4. CASE I = {}
  BY <1>2, <1>3, <1>4 DEF NodeAt
<1>5. CASE I # {}
  <2>1. I \in SUBSET Nat
    BY <1>1
  <2>2. Min(I) \in I
    <3> HIDE DEF I
    <3> QED
      BY <1>5, <2>1, Smallest DEF Min
  <2>3. Min(I) # 0
    BY <2>2
  <2>4. FindNode(view, vmid) = view[Min(I)].node
    <3> HIDE DEF I
    <3> QED
      BY <1>3, <1>5, <2>3 DEF NodeAt
  <2> QED
    BY <1>2, <2>2, <2>4
<1> QED
  BY <1>4, <1>5

\* A dictionary has the keys of the rows of its type, and each names such a row.
LEMMA IndexFacts ==
  ASSUME NEW A, NEW view \in Seq(A), NEW type
  PROVE  LET table == Index(view, type) IN
         /\ DOMAIN table = {r.id : r \in {r \in Range(view) : r.type = type}}
         /\ \A id \in DOMAIN table :
               /\ table[id] \in Range(view)
               /\ table[id].type = type /\ table[id].id = id
<1> DEFINE keys == {r.id : r \in {r \in Range(view) : r.type = type}}
           I(id) == {i \in 1..Len(view) : view[i].type = type /\ view[i].id = id}
<1>1. Len(view) \in Nat /\ DOMAIN view = 1..Len(view)
  OBVIOUS
<1>2. Index(view, type)
        = [id \in keys |-> view[IF I(id) # {} THEN Max(I(id)) ELSE 0]]
  BY DEF Index, SelectLastInSeq
<1>3. ASSUME NEW id \in keys PROVE Max(I(id)) \in I(id) /\ I(id) # {}
  <2>1. PICK r \in Range(view) : r.type = type /\ r.id = id
    OBVIOUS
  <2>2. PICK i \in 1..Len(view) : r = view[i]
    BY <1>1 DEF Range
  <2>3. i \in I(id)
    BY <2>1, <2>2
  <2>4. I(id) \in SUBSET (0..Len(view))
    BY <1>1
  <2> HIDE DEF I
  <2> QED
    BY <1>1, <2>3, <2>4, Largest DEF Max
<1>4. ASSUME NEW id \in keys
      PROVE  /\ Index(view, type)[id] \in Range(view)
             /\ Index(view, type)[id].type = type /\ Index(view, type)[id].id = id
  <2>1. Index(view, type)[id] = view[Max(I(id))]
    <3> HIDE DEF keys, I
    <3> QED
      BY <1>2, <1>3
  <2>2. \A i \in I(id) : view[i] \in Range(view) /\ view[i].type = type /\ view[i].id = id
    BY <1>1 DEF Range
  <2> QED
    BY <1>3, <2>1, <2>2
<1>5. DOMAIN Index(view, type) = keys
  BY <1>2
<1> QED
  BY <1>4, <1>5
-------------------------------------------------------------------------------
(* The invariant.                                                          *)

\* A row the cluster sends: a guest's type is that of the table it belongs to,
\* its node is one of the cluster's, and its home where it is never migrated.
Good ==
    {r \in Rows :
        /\ r.type = "qemu" <=> r.id \in Vms
        /\ r.type = "lxc" <=> r.id \in Containers
        /\ r.id \in Guests => r.node \in Nodes
        /\ r.id \in Guests \ Movable => r.node = Home[r.id]}

\* An answer, or what is kept of one: no two rows differ about a thing.
Consistent(rows) ==
    /\ rows \in Seq(Good)
    /\ \A q, r \in Range(rows) : q.id = r.id => q = r

Calls ==
    [pc : PCs, vmid : Guests \cup {Nowhere}, node : Nodes \cup {Nowhere},
     served : BOOLEAN, rows : Seq(Rows), fetches : Nat, last : Ends]

WorldInv ==
    /\ world \in [Guests -> [node : Nodes \cup {Nowhere}, ok : BOOLEAN]]
    /\ \A g \in Guests \ Movable : world[g].node \in {Home[g], Nowhere}

TablesInv ==
    /\ resources \in Seq(Readable) /\ Consistent(resources)
    /\ known \in BOOLEAN
    /\ cache = CacheOf(resources)

CallInv(f) ==
    /\ Consistent(f.rows)
    /\ f.pc \in {"fallback", "ask"} => f.vmid \in Guests
    /\ f.pc = "fallback" => f.fetches = 1
    /\ f.pc # "idle" => f.last = "none"

CallsInv ==
    /\ frame \in [Tasks -> Calls]
    /\ \A t \in Tasks : CallInv(frame[t])

Inv == WorldInv /\ TablesInv /\ CallsInv

\* An answer is sound, in whatever state the cluster gives it.
LEMMA AnswerFacts ==
  ASSUME WorldInv
  PROVE  Consistent(Answer)
<1> DEFINE all == [i \in 1..Len(Order) |-> RowOf(Order[i])]
           AllRows == {RowOf(x) : x \in Range(Order)}
<1>1. /\ Answer = Only(all, Existing)
      /\ all \in Seq(AllRows)
  <2>1. Order \in Seq(Range(Order)) /\ Len(Order) \in Nat
    BY GuestsAssumption
  <2>2. \A i \in 1..Len(Order) : Order[i] \in Range(Order)
    BY <2>1
  <2>3. all \in Seq(AllRows)
    BY <2>1, <2>2
  <2> QED
    BY <2>3 DEF Answer
<1>2. ASSUME NEW x \in Range(Order), RowOf(x) \in Existing
      PROVE  RowOf(x) \in Good /\ RowOf(x).id = x
  <2>1. /\ RowOf(x) \in Rows
        /\ RowOf(x).id \in Guests => RowOf(x).node # Nowhere
    BY <1>2 DEF Existing
  <2>2. CASE x \in Nodes
    <3>1. x \notin Guests /\ x \notin Others
      BY <2>2, GuestsAssumption
    <3>2. RowOf(x) = [type |-> "node", id |-> x, node |-> x, ok |-> TRUE]
      BY <2>2, <3>1 DEF RowOf
    <3> QED
      BY <2>1, <2>2, <3>1, <3>2 DEF Good, Guests
  <2>3. CASE x \in Others
    <3>1. x \notin Guests /\ x \notin Nodes
      BY <2>3, GuestsAssumption
    <3>2. RowOf(x) = [type |-> TypeOf[x], id |-> x, node |-> Nowhere, ok |-> TRUE]
      BY <2>3, <3>1 DEF RowOf
    <3>3. TypeOf[x] \in {"storage", "network", "other"}
      BY <2>3, GuestsAssumption
    <3> QED
      BY <2>1, <3>1, <3>2, <3>3 DEF Good, Guests
  <2>4. CASE x \in Guests
    <3>1. x \notin Nodes /\ x \notin Others
      BY <2>4, GuestsAssumption
    <3>2. RowOf(x) = [type |-> IF x \in Vms THEN "qemu" ELSE "lxc", id |-> x,
                      node |-> world[x].node, ok |-> world[x].ok]
      BY <2>4, <3>1 DEF RowOf
    <3>3. world[x].node # Nowhere
      BY <2>1, <2>4, <3>2
    <3>4. /\ world[x].node \in Nodes
          /\ x \notin Movable => world[x].node = Home[x]
      BY <2>4, <3>3 DEF WorldInv
    <3>5. x \in Vms <=> x \notin Containers
      BY <2>4, GuestsAssumption DEF Guests
    <3>6. CASE x \in Vms
      BY <2>1, <2>4, <3>2, <3>4, <3>5, <3>6 DEF Good
    <3>7. CASE x \notin Vms
      BY <2>1, <2>4, <3>2, <3>4, <3>5, <3>7 DEF Good
    <3> QED
      BY <3>6, <3>7
  <2> QED
    BY <2>2, <2>3, <2>4, GuestsAssumption
<1> HIDE DEF all
<1>3. /\ Answer \in Seq(AllRows \cap Existing)
      /\ Range(Answer) = Range(all) \cap Existing
  <2>1. /\ Only(all, Existing) \in Seq(AllRows \cap Existing)
        /\ Range(Only(all, Existing)) = Range(all) \cap Existing
    BY <1>1, OnlyFacts
  <2> QED
    BY <1>1, <2>1
<1>4. AllRows \cap Existing \subseteq Good
  BY <1>2
<1>5. Answer \in Seq(Good)
  BY <1>3, <1>4, SeqMono
<1>6. \A r \in Range(Answer) : \E x \in Range(Order) : r = RowOf(x) /\ RowOf(x) \in Existing
  <2>1. \A r \in Range(Answer) : r \in AllRows \cap Existing
    BY <1>3 DEF Range
  <2> QED
    BY <2>1
<1> QED
  BY <1>2, <1>5, <1>6 DEF Consistent

\* What is kept of an answer: its readable rows.
LEMMA ParsedFacts ==
  ASSUME NEW rows, Consistent(rows)
  PROVE  /\ Parsed(rows) \in Seq(Readable) /\ Consistent(Parsed(rows))
         /\ Range(Parsed(rows)) = Range(rows) \cap Readable
<1>1. rows \in Seq(Good)
  BY DEF Consistent
<1>2. /\ Parsed(rows) \in Seq(Good \cap Readable)
      /\ Range(Parsed(rows)) = Range(rows) \cap Readable
  BY <1>1, OnlyFacts DEF Parsed
<1>3. Parsed(rows) \in Seq(Readable) /\ Parsed(rows) \in Seq(Good)
  BY <1>2
<1> QED
  BY <1>2, <1>3 DEF Consistent

LEMMA NothingFacts == Consistent(<< >>) /\ << >> \in Seq(Readable)
  BY DEF Consistent, Range

\* The elements of a sequence of a set are in the set.
LEMMA RangeFacts ==
  ASSUME NEW A, NEW s \in Seq(A)
  PROVE  Range(s) \subseteq A
  BY DEF Range

\* A guest that is found is found on one of the cluster's nodes, and at home
\* where it is never migrated.
LEMMA FoundNode ==
  ASSUME NEW view, Consistent(view), NEW g \in Guests
  PROVE  /\ FindNode(view, g) \in Nodes \cup {Nowhere}
         /\ g \notin Movable => FindNode(view, g) \in {Home[g], Nowhere}
<1>1. view \in Seq(Good) /\ Range(view) \subseteq Good
  BY RangeFacts DEF Consistent
<1>2. FindNode(view, g) = Nowhere \/ \E r \in Range(view) : r.id = g /\ FindNode(view, g) = r.node
  BY <1>1, FindFacts
<1> QED
  BY <1>1, <1>2 DEF Good

-------------------------------------------------------------------------------
(* Frames.                                                                 *)

LEMMA EndedFacts ==
  ASSUME NEW how \in Ends
  PROVE  /\ Ended(how) \in Calls /\ CallInv(Ended(how))
         /\ Ended(how).pc = "idle" /\ Ended(how).last = how
<1>1. "idle" \in PCs /\ << >> \in Seq(Rows) /\ Nowhere \in Guests \cup {Nowhere}
      /\ Nowhere \in Nodes \cup {Nowhere} /\ 0 \in Nat
  BY DEF PCs
<1>2. Ended(how) \in Calls
  BY <1>1 DEF Ended, Calls
<1>3. Ended(how).pc = "idle" /\ Ended(how).rows = << >> /\ Ended(how).last = how
  BY DEF Ended
<1> QED
  BY <1>2, <1>3, NothingFacts DEF CallInv

LEMMA AskedFacts ==
  ASSUME NEW vmid \in Guests
  PROVE  LET e == [Ended("none") EXCEPT !.vmid = vmid] IN
         e \in Calls /\ e.vmid = vmid /\ e.fetches = 0 /\ e.last = "none"
<1>1. Ended("none") \in Calls
  BY EndedFacts DEF Ends
<1> QED
  BY <1>1 DEF Ended, Calls

\* A call that begins is the first of its frame.
LEMMA BeginFacts ==
  ASSUME NEW e \in Calls, e.fetches = 0, e.last = "none",
         NEW pc \in {"fetch", "fallback"}, pc = "fallback" => e.vmid \in Guests
  PROVE  LET f == Fetch(e, pc) IN
         f \in Calls /\ CallInv(f) /\ f.pc = pc
<1> DEFINE f == Fetch(e, pc)
<1>1. pc \in PCs /\ << >> \in Seq(Rows)
  BY DEF PCs
<1>2. f \in Calls
  <2>1. [e EXCEPT !.pc = pc, !.served = FALSE, !.rows = << >>] \in Calls
    BY <1>1 DEF Calls
  <2>2. \A c \in Calls : [c EXCEPT !.fetches = 1] \in Calls
    BY DEF Calls
  <2>3. f = [[e EXCEPT !.pc = pc, !.served = FALSE, !.rows = << >>] EXCEPT !.fetches = 1]
    BY DEF Fetch
  <2> QED
    BY <2>1, <2>2, <2>3
<1>3. /\ f.rows = << >> /\ f.pc = pc /\ f.vmid = e.vmid /\ f.fetches = 1
      /\ f.last = e.last
  BY DEF Fetch, Calls
<1> HIDE DEF f
<1>4. CallInv(f)
  BY <1>3, NothingFacts DEF CallInv
<1> QED
  BY <1>2, <1>3, <1>4 DEF f

LEMMA AskFacts ==
  ASSUME NEW f \in Calls, f.vmid \in Guests, f.last = "none", NEW node \in Nodes
  PROVE  LET a == AskAt(f, node) IN
         /\ a \in Calls /\ CallInv(a) /\ a.pc = "ask"
         /\ a.vmid = f.vmid /\ a.node = node /\ a.last = "none"
<1> DEFINE a == AskAt(f, node)
<1>1. "ask" \in PCs /\ << >> \in Seq(Rows) /\ node \in Nodes \cup {Nowhere}
  BY DEF PCs
<1>2. a \in Calls
  BY <1>1 DEF AskAt, Calls
<1>3. /\ a.pc = "ask" /\ a.rows = << >> /\ a.vmid = f.vmid /\ a.node = node
      /\ a.last = f.last
  BY DEF AskAt, Calls
<1> HIDE DEF a
<1>4. CallInv(a)
  BY <1>3, NothingFacts DEF CallInv
<1> QED
  BY <1>2, <1>3, <1>4 DEF a

LEMMA CallStep ==
  ASSUME CallsInv, NEW t \in Tasks, NEW f \in Calls, CallInv(f), Resume(t, f)
  PROVE  CallsInv'
<1>1. frame' = [frame EXCEPT ![t] = f] /\ frame \in [Tasks -> Calls]
  BY DEF CallsInv, Resume
<1>2. frame' \in [Tasks -> Calls]
  BY <1>1
<1>3. \A u \in Tasks : CallInv(frame'[u])
  BY <1>1 DEF CallsInv
<1> QED
  BY <1>2, <1>3 DEF CallsInv, CallInv, Consistent

LEMMA StoreStep ==
  ASSUME NEW rows, Consistent(rows), Store(rows)
  PROVE  TablesInv' /\ Range(resources') = Range(rows) \cap Readable
<1>1. resources' = Parsed(rows) /\ known' = TRUE /\ cache' = CacheOf(resources')
  BY DEF Store
<1> QED
  BY <1>1, ParsedFacts DEF TablesInv

-------------------------------------------------------------------------------
LEMMA InitInv == Init => Inv
<1> SUFFICES ASSUME Init PROVE Inv
  OBVIOUS
<1>1. WorldInv
  BY GuestsAssumption DEF Init, WorldInv
<1>2. TablesInv
  <2>1. Consistent(Answer)
    BY <1>1, AnswerFacts
  <2> QED
    BY <2>1, ParsedFacts, NothingFacts, GuestsAssumption DEF Init, TablesInv
<1>3. CallsInv
  <2>1. Ended("none") \in Calls /\ CallInv(Ended("none"))
    BY EndedFacts DEF Ends
  <2> QED
    BY <2>1 DEF Init, CallsInv
<1> QED
  BY <1>1, <1>2, <1>3 DEF Inv

LEMMA NextInv == Inv /\ [Next]_vars => Inv'
<1> SUFFICES ASSUME Inv, [Next]_vars PROVE Inv'
  OBVIOUS
<1>0. WorldInv /\ TablesInv /\ CallsInv
  BY DEF Inv
<1>a. UNCHANGED world => WorldInv'
  BY <1>0 DEF WorldInv
<1>b. UNCHANGED <<resources, known, cache>> => TablesInv'
  BY <1>0 DEF TablesInv
<1>c. \A t \in Tasks : frame[t] \in Calls /\ CallInv(frame[t])
  BY <1>0 DEF CallsInv
<1>d. \A t \in Tasks, how \in Ends : Resume(t, Ended(how)) => CallsInv'
  BY <1>0, CallStep, EndedFacts
<1>1. ASSUME NEW t \in Tasks, StartResources(t) PROVE Inv'
  <2>1. /\ Ended("none") \in Calls
        /\ Ended("none").fetches = 0 /\ Ended("none").last = "none"
    BY EndedFacts DEF Ended, Ends
  <2>2. CallsInv'
    BY <1>0, <1>1, <2>1, BeginFacts, CallStep DEF StartResources
  <2> QED
    BY <1>1, <1>a, <1>b, <2>2 DEF StartResources, Inv
<1>2. ASSUME NEW t \in Tasks, StartCurrent(t) PROVE Inv'
  <2>1. PICK vmid \in Guests :
           LET f == [Ended("none") EXCEPT !.vmid = vmid]
               node == FindNode(resources, vmid) IN
           Resume(t, IF ~known THEN Ended("AttributeError")
                     ELSE IF node = Nowhere THEN Fetch(f, "fallback")
                     ELSE AskAt(f, node))
    BY <1>2 DEF StartCurrent
  <2> DEFINE f == [Ended("none") EXCEPT !.vmid = vmid]
             node == FindNode(resources, vmid)
  <2>2. f \in Calls /\ f.vmid = vmid /\ f.fetches = 0 /\ f.last = "none"
    BY AskedFacts
  <2>3. node \in Nodes \cup {Nowhere}
    BY <1>0, FoundNode DEF TablesInv
  <2> HIDE DEF f, node
  <2>4. CallsInv'
    <3>1. CASE Resume(t, Ended("AttributeError"))
      BY <1>d, <3>1 DEF Ends
    <3>2. CASE Resume(t, Fetch(f, "fallback"))
      BY <1>0, <2>2, <3>2, BeginFacts, CallStep
    <3>3. CASE node # Nowhere /\ Resume(t, AskAt(f, node))
      BY <1>0, <2>2, <2>3, <3>3, AskFacts, CallStep
    <3> QED
      BY <2>1, <3>1, <3>2, <3>3 DEF f, node
  <2> QED
    BY <1>2, <1>a, <1>b, <2>4 DEF StartCurrent, Inv
<1>3. ASSUME NEW t \in Tasks, Received(t) PROVE Inv'
  <2>1. TablesInv'
    BY <1>3, <1>c, StoreStep DEF Received, CallInv
  <2>2. CallsInv'
    BY <1>3, <1>d DEF Received, Ends
  <2> QED
    BY <1>3, <1>a, <2>1, <2>2 DEF Received, Inv
<1>4. ASSUME NEW t \in Tasks, FallbackReceived(t) PROVE Inv'
  <2>1. TablesInv'
    BY <1>4, <1>c, StoreStep DEF FallbackReceived, CallInv
  <2>2. frame[t].vmid \in Guests /\ frame[t].last = "none"
    BY <1>4, <1>c DEF FallbackReceived, CallInv
  <2> DEFINE node == FindNode(resources', frame[t].vmid)
  <2>3. node \in Nodes \cup {Nowhere}
    BY <2>1, <2>2, FoundNode DEF TablesInv
  <2>4. Resume(t, IF node = Nowhere THEN Ended("not found") ELSE AskAt(frame[t], node))
    BY <1>4 DEF FallbackReceived
  <2> HIDE DEF node
  <2>5. CallsInv'
    <3>1. CASE node = Nowhere
      BY <1>d, <2>4, <3>1 DEF Ends
    <3>2. CASE node # Nowhere
      BY <1>0, <1>c, <2>2, <2>3, <2>4, <3>2, AskFacts, CallStep
    <3> QED
      BY <3>1, <3>2
  <2> QED
    BY <1>4, <1>a, <2>1, <2>5 DEF FallbackReceived, Inv
<1>5. ASSUME NEW t \in Tasks, StatusReceived(t) PROVE Inv'
  <2>1. PICK how \in Ends : Resume(t, Ended(how))
    BY <1>5 DEF StatusReceived, Ends
  <2> QED
    BY <1>5, <1>a, <1>b, <1>d, <2>1 DEF StatusReceived, Inv
<1>6. ASSUME NEW t \in Tasks, Failed(t) PROVE Inv'
  <2>1. PICK how \in Ends : Resume(t, Ended(how))
    BY <1>6 DEF Failed, Ends
  <2> QED
    BY <1>6, <1>a, <1>b, <1>d, <2>1 DEF Failed, Inv
<1>7. ASSUME NEW t \in Tasks, Serve(t) PROVE Inv'
  <2> DEFINE f == [frame[t] EXCEPT !.served = TRUE, !.rows = Answer]
  <2>1. Consistent(Answer) /\ Answer \in Seq(Rows)
    BY <1>0, AnswerFacts DEF Consistent, Good
  <2>2. f \in Calls
    BY <1>c, <2>1 DEF Calls
  <2>3. f.rows = Answer /\ f.pc = frame[t].pc /\ f.vmid = frame[t].vmid
        /\ f.fetches = frame[t].fetches /\ f.last = frame[t].last
    BY <1>c DEF Calls
  <2>4. Resume(t, f)
    BY <1>7 DEF Serve
  <2> HIDE DEF f
  <2>5. CallInv(f)
    BY <1>c, <2>1, <2>3 DEF CallInv
  <2>6. CallsInv'
    BY <1>0, <2>2, <2>4, <2>5, CallStep
  <2> QED
    BY <1>7, <1>a, <1>b, <2>6 DEF Serve, Inv
<1>8. UNCHANGED frame => CallsInv'
  BY <1>0 DEF CallsInv, CallInv
<1>9. CASE GuestMigrates
  BY <1>0, <1>8, <1>9, <1>b, GuestsAssumption DEF GuestMigrates, WorldInv, Inv
<1>10. CASE GuestVanishes
  <2>1. PICK g \in Guests : /\ world' = [world EXCEPT ![g] = [node |-> Nowhere, ok |-> TRUE]]
                            /\ UNCHANGED <<resources, known, cache, frame>>
    BY <1>10 DEF GuestVanishes
  <2>2. WorldInv'
    BY <1>0, <2>1 DEF WorldInv
  <2> QED
    BY <1>8, <1>b, <2>1, <2>2 DEF Inv
<1>11. CASE RowGarbles
  <2>1. PICK g \in Guests : /\ world' = [world EXCEPT ![g].ok = ~@]
                            /\ UNCHANGED <<resources, known, cache, frame>>
    BY <1>11 DEF RowGarbles
  <2>2. WorldInv'
    BY <1>0, <2>1 DEF WorldInv
  <2> QED
    BY <1>8, <1>b, <2>1, <2>2 DEF Inv
<1>12. CASE UNCHANGED vars
  BY <1>8, <1>12, <1>a, <1>b DEF vars, Inv
<1> QED
  BY <1>1, <1>2, <1>3, <1>4, <1>5, <1>6, <1>7, <1>9, <1>10, <1>11, <1>12 DEF Next

LEMMA AlwaysInv == Spec => []Inv
  BY InitInv, NextInv, PTL DEF Spec

\* The client's tables hold rows that parsed, whatever the cluster lists and in
\* whichever order its answers are stored.
THEOREM ViewTypeCorrect == Spec => []TypeOK
<1>1. Inv => TypeOK
  BY DEF Inv, WorldInv, TablesInv, CallsInv, Calls, TypeOK
<1> QED
  BY AlwaysInv, <1>1, PTL

\* pve_find_node_in_cache and pve_cluster_cache: the list and the dictionaries
\* built of one answer name the same node for every guest, and neither names
\* one the other lacks, for any number of guests, tasks and overtaken answers.
THEOREM LookupsAlwaysAgree == Spec => []LookupsAgree
<1>1. ASSUME Inv, NEW g \in Guests
      PROVE  FindNode(resources, g) =
                IF g \in DOMAIN cache.qemu THEN cache.qemu[g].node
                ELSE IF g \in DOMAIN cache.lxc THEN cache.lxc[g].node
                ELSE Nowhere
  <2> DEFINE found == {r \in Range(resources) : IsGuestRow(r) /\ r.id = g}
  <2>1. /\ resources \in Seq(Good) /\ Range(resources) \subseteq Good
        /\ \A q, r \in Range(resources) : q.id = r.id => q = r
        /\ cache = CacheOf(resources)
    BY <1>1, RangeFacts DEF Inv, TablesInv, Consistent
  <2>2. cache.qemu = Index(resources, "qemu") /\ cache.lxc = Index(resources, "lxc")
    BY <2>1 DEF CacheOf
  <2>3. /\ g \in DOMAIN cache.qemu => cache.qemu[g] \in found
        /\ g \in DOMAIN cache.lxc => cache.lxc[g] \in found
        /\ \A r \in found : g \in DOMAIN cache.qemu \/ g \in DOMAIN cache.lxc
    <3>1. ASSUME NEW type \in {"qemu", "lxc"}
          PROVE  LET table == Index(resources, type) IN
                 /\ g \in DOMAIN table => table[g] \in found
                 /\ \A r \in found : r.type = type => g \in DOMAIN table
      <4> DEFINE table == Index(resources, type)
      <4>1. /\ DOMAIN table = {r.id : r \in {r \in Range(resources) : r.type = type}}
            /\ \A id \in DOMAIN table :
                  /\ table[id] \in Range(resources)
                  /\ table[id].type = type /\ table[id].id = id
        BY <2>1, IndexFacts, ZenonT(40)
      <4> HIDE DEF table
      <4>2. g \in DOMAIN table => table[g] \in found
        BY <3>1, <4>1 DEF IsGuestRow
      <4>3. \A r \in found : r.type = type => g \in DOMAIN table
        BY <4>1
      <4> QED
        BY <4>2, <4>3 DEF table
    <3> QED
      BY <2>2, <3>1 DEF IsGuestRow
  <2>4. found = {} => FindNode(resources, g) = Nowhere
    BY <2>1, FindFacts
  <2>5. \A r \in found : FindNode(resources, g) = r.node
    BY <2>1, FindFacts
  <2> HIDE DEF found
  <2> QED
    BY <2>3, <2>4, <2>5
<1>2. Inv => LookupsAgree
  BY <1>1 DEF LookupsAgree
<1> QED
  BY AlwaysInv, <1>2, PTL

\* A frame is changed by a step of its own task, or by the cluster's answer.
LEMMA OwnStep ==
  ASSUME Inv, [Next]_vars, NEW t \in Tasks, frame'[t] # frame[t]
  PROVE  \/ StartResources(t) \/ StartCurrent(t) \/ Received(t) \/ FallbackReceived(t)
         \/ StatusReceived(t) \/ Failed(t) \/ Serve(t)
<1> DEFINE Mine(u) ==
             \/ StartResources(u) \/ StartCurrent(u) \/ Received(u) \/ FallbackReceived(u)
             \/ StatusReceived(u) \/ Failed(u) \/ Serve(u)
<1>1. ASSUME NEW u \in Tasks, Mine(u) PROVE \E f : Resume(u, f)
  BY <1>1 DEF StartResources, StartCurrent, Received, FallbackReceived, StatusReceived,
              Failed, Serve
<1>2. ASSUME NEW u \in Tasks, NEW f, Resume(u, f) PROVE u = t
  BY <1>2 DEF Resume, Inv, CallsInv
<1>3. \E u \in Tasks : Mine(u)
  BY DEF Next, GuestMigrates, GuestVanishes, RowGarbles, vars
<1> QED
  BY <1>1, <1>2, <1>3

\* A task of whose call the answer says that the guest is nowhere, or that it
\* is to be asked for, has just looked for it: in the tables, or in the answer
\* it fetched itself.
LEMMA LookedUp ==
  ASSUME Inv, [Next]_vars, NEW t \in Tasks, frame'[t] # frame[t],
         frame'[t].pc = "ask" \/ (frame[t].pc # "idle" /\ frame'[t].last = "not found")
  PROVE  \/ /\ FallbackReceived(t)
            /\ LET node == FindNode(resources', frame[t].vmid) IN
               frame'[t] = IF node = Nowhere THEN Ended("not found") ELSE AskAt(frame[t], node)
         \/ /\ StartCurrent(t)
            /\ \E vmid \in Guests :
                  /\ FindNode(resources, vmid) # Nowhere
                  /\ frame'[t] = AskAt([Ended("none") EXCEPT !.vmid = vmid],
                                       FindNode(resources, vmid))
         \/ Serve(t) /\ frame'[t].pc = frame[t].pc /\ frame'[t].last = frame[t].last
<1>0. frame \in [Tasks -> Calls] /\ CallInv(frame[t]) /\ frame[t] \in Calls
  BY DEF Inv, CallsInv
<1>1. \A f : Resume(t, f) => frame'[t] = f
  BY <1>0 DEF Resume
<1>2. ASSUME NEW how \in Ends \ {"not found"}, Resume(t, Ended(how)) PROVE FALSE
  BY <1>1, <1>2, EndedFacts
<1>3. ASSUME NEW e \in Calls, NEW pc \in {"fetch", "fallback"}, Resume(t, Fetch(e, pc)),
             frame[t].pc = "idle"
      PROVE  FALSE
  BY <1>1, <1>3 DEF Fetch, Calls
<1>4. CASE StartResources(t)
  <2>1. Ended("none") \in Calls
    BY EndedFacts DEF Ends
  <2> QED
    BY <1>3, <1>4, <2>1 DEF StartResources
<1>5. CASE StartCurrent(t)
  <2>1. PICK vmid \in Guests :
           LET f == [Ended("none") EXCEPT !.vmid = vmid]
               node == FindNode(resources, vmid) IN
           Resume(t, IF ~known THEN Ended("AttributeError")
                     ELSE IF node = Nowhere THEN Fetch(f, "fallback")
                     ELSE AskAt(f, node))
    BY <1>5 DEF StartCurrent
  <2> DEFINE f == [Ended("none") EXCEPT !.vmid = vmid]
             node == FindNode(resources, vmid)
  <2>2. f \in Calls /\ f.vmid = vmid /\ f.fetches = 0 /\ f.last = "none"
    BY AskedFacts
  <2>3. ~Resume(t, Ended("AttributeError"))
    BY <1>2 DEF Ends
  <2>4. ~Resume(t, Fetch(f, "fallback"))
    <3> HIDE DEF f
    <3> QED
      BY <1>3, <1>5, <2>2 DEF StartCurrent
  <2>5. node # Nowhere /\ Resume(t, AskAt(f, node))
    BY <2>1, <2>3, <2>4
  <2> QED
    BY <1>1, <1>5, <2>5
<1>6. CASE Received(t) \/ StatusReceived(t) \/ Failed(t)
  <2>1. PICK how \in Ends \ {"not found"} : Resume(t, Ended(how))
    BY <1>6 DEF Received, StatusReceived, Failed, Ends
  <2> QED
    BY <1>2, <2>1
<1>7. CASE FallbackReceived(t)
  BY <1>1, <1>7 DEF FallbackReceived
<1>8. CASE Serve(t)
  <2>1. frame'[t] = [frame[t] EXCEPT !.served = TRUE, !.rows = Answer]
    BY <1>1, <1>8 DEF Serve
  <2> QED
    BY <1>0, <1>8, <2>1 DEF Calls
<1> QED
  BY <1>4, <1>5, <1>6, <1>7, <1>8, OwnStep

\* "could not be located anywhere in the cluster" (current()), for any number
\* of tasks: said only of a guest that the one answer fetched on this very
\* call's behalf did not list readably.
THEOREM NotFoundIsOwnFinding == Spec => NotFoundMeansUnlisted
<1>1. Inv /\ [Next]_vars
      => \A t \in Tasks :
            frame[t].pc # "idle" /\ frame'[t].last = "not found" =>
               /\ frame[t].fetches = 1
               /\ \A r \in Range(frame[t].rows) : r.id = frame[t].vmid => ~r.ok
  <2> SUFFICES ASSUME Inv, [Next]_vars, NEW t \in Tasks,
                      frame[t].pc # "idle", frame'[t].last = "not found"
               PROVE  /\ frame[t].fetches = 1
                      /\ \A r \in Range(frame[t].rows) : r.id = frame[t].vmid => ~r.ok
    OBVIOUS
  <2>1. frame[t] \in Calls /\ CallInv(frame[t]) /\ frame[t].last = "none"
    BY DEF Inv, CallsInv, CallInv
  <2>2. FallbackReceived(t) /\ frame[t].pc = "fallback" /\ frame[t].vmid \in Guests
    <3>1. ~StartCurrent(t) /\ frame'[t] # frame[t] /\ frame'[t].last # frame[t].last
      BY <2>1 DEF StartCurrent
    <3>2. FallbackReceived(t)
      BY <3>1, LookedUp
    <3> QED
      BY <2>1, <3>2 DEF FallbackReceived, CallInv
  <2>3. FindNode(resources', frame[t].vmid) = Nowhere
    <3> DEFINE node == FindNode(resources', frame[t].vmid)
    <3>1. TablesInv'
      BY <2>1, <2>2, StoreStep DEF FallbackReceived, CallInv
    <3>2. node \in Nodes \cup {Nowhere}
      BY <2>2, <3>1, FoundNode DEF TablesInv
    <3>3. node # Nowhere => AskAt(frame[t], node).last = "none"
      BY <2>1, <2>2, <3>2, AskFacts
    <3>4. frame'[t] = IF node = Nowhere THEN Ended("not found") ELSE AskAt(frame[t], node)
      BY <2>2 DEF FallbackReceived, Resume, Inv, CallsInv
    <3> HIDE DEF node
    <3>5. node = Nowhere
      BY <3>3, <3>4
    <3> QED
      BY <3>5 DEF node
  <2>4. ASSUME NEW r \in Range(frame[t].rows), r.id = frame[t].vmid, r.ok PROVE FALSE
    <3>1. r \in Good
      BY <2>1, RangeFacts DEF CallInv, Consistent
    <3>2. IsGuestRow(r) /\ r \in Readable /\ r.node \in Nodes
      BY <2>2, <2>4, <3>1 DEF Good, Readable, Known, IsGuestRow, Guests
    <3>3. /\ resources' \in Seq(Good) /\ r \in Range(resources')
          /\ \A q \in Range(resources') : q.id = r.id => q = r
      <4>1. Consistent(frame[t].rows) /\ Store(frame[t].rows)
        BY <2>1, <2>2 DEF FallbackReceived, CallInv
      <4>2. TablesInv' /\ Range(resources') = Range(frame[t].rows) \cap Readable
        BY <4>1, StoreStep
      <4>3. Consistent(resources)'
        BY <4>2 DEF TablesInv
      <4>4. r \in Range(resources')
        BY <2>4, <3>2, <4>2
      <4> QED
        BY <4>3, <4>4 DEF Consistent
    <3>4. FindNode(resources', frame[t].vmid) = r.node
      <4> DEFINE found == {q \in Range(resources') :
                              IsGuestRow(q) /\ q.id = frame[t].vmid}
      <4>1. r \in found /\ \A q \in found : q = r
        BY <2>4, <3>2, <3>3
      <4>2. IF found = {} THEN FindNode(resources', frame[t].vmid) = Nowhere
            ELSE \E q \in found : FindNode(resources', frame[t].vmid) = q.node
        BY <3>3, FindFacts
      <4> HIDE DEF found
      <4> QED
        BY <4>1, <4>2
    <3> QED
      BY <2>3, <3>2, <3>4, GuestsAssumption
  <2> QED
    BY <2>1, <2>2, <2>4 DEF CallInv
<1> QED
  BY AlwaysInv, <1>1, PTL DEF Spec, NotFoundMeansUnlisted

\* current() asks for a guest that is never migrated on the node it is on, for
\* any number of tasks, whichever answers were stored, in which order and with
\* which of their rows missing.
THEOREM SettledGuestsAreAddressed == Spec => SettledGuestIsAddressed
<1>1. Inv /\ [Next]_vars
      => \A t \in Tasks :
            frame'[t].pc = "ask" /\ frame[t].pc # "ask" /\ frame'[t].vmid \notin Movable =>
               world[frame'[t].vmid].node \in {frame'[t].node, Nowhere}
  <2> SUFFICES ASSUME Inv, [Next]_vars, NEW t \in Tasks, frame'[t].pc = "ask",
                      frame[t].pc # "ask", frame'[t].vmid \notin Movable
               PROVE  world[frame'[t].vmid].node \in {frame'[t].node, Nowhere}
    OBVIOUS
  <2>1. ASSUME NEW f \in Calls, f.vmid \in Guests, f.last = "none",
               NEW view, Consistent(view), FindNode(view, f.vmid) # Nowhere,
               frame'[t] = AskAt(f, FindNode(view, f.vmid))
        PROVE  world[frame'[t].vmid].node \in {frame'[t].node, Nowhere}
    <3> DEFINE node == FindNode(view, f.vmid)
    <3>1. node \in Nodes /\ (f.vmid \notin Movable => node = Home[f.vmid])
      BY <2>1, FoundNode
    <3>2. frame'[t].vmid = f.vmid /\ frame'[t].node = node
      BY <2>1, <3>1, AskFacts
    <3>3. world[f.vmid].node \in {Home[f.vmid], Nowhere}
      BY <2>1, <3>2 DEF Inv, WorldInv
    <3> QED
      BY <3>1, <3>2, <3>3
  <2>2. CASE FallbackReceived(t)
    <3>1. /\ frame[t] \in Calls /\ CallInv(frame[t])
          /\ frame[t].vmid \in Guests /\ frame[t].last = "none"
      BY <2>2 DEF Inv, CallsInv, CallInv, FallbackReceived
    <3>2. Consistent(resources')
      BY <2>2, <3>1, StoreStep DEF FallbackReceived, CallInv, TablesInv
    <3> DEFINE node == FindNode(resources', frame[t].vmid)
    <3>3. frame'[t] = IF node = Nowhere THEN Ended("not found") ELSE AskAt(frame[t], node)
      BY <2>2 DEF FallbackReceived, Resume, Inv, CallsInv
    <3>4. node # Nowhere
      BY <3>3, EndedFacts DEF Ends
    <3> QED
      BY <2>1, <3>1, <3>2, <3>3, <3>4
  <2>3. CASE ~FallbackReceived(t)
    <3>1. PICK vmid \in Guests :
             /\ FindNode(resources, vmid) # Nowhere
             /\ frame'[t] = AskAt([Ended("none") EXCEPT !.vmid = vmid],
                                  FindNode(resources, vmid))
      BY <2>3, LookedUp
    <3> DEFINE f == [Ended("none") EXCEPT !.vmid = vmid]
    <3>2. f \in Calls /\ f.vmid = vmid /\ f.last = "none"
      BY AskedFacts
    <3>3. Consistent(resources)
      BY DEF Inv, TablesInv
    <3> HIDE DEF f
    <3>4. frame'[t] = AskAt(f, FindNode(resources, f.vmid))
      BY <3>1, <3>2 DEF f
    <3> QED
      BY <2>1, <3>1, <3>2, <3>3, <3>4
  <2> QED
    BY <2>2, <2>3
<1> QED
  BY AlwaysInv, <1>1, PTL DEF Spec, SettledGuestIsAddressed
===============================================================================
