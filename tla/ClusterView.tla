----------------------------- MODULE ClusterView -----------------------------
(***************************************************************************)
(* What the client knows about the cluster: cluster_resources and          *)
(* cluster_cache, written by ClusterEndpoint.resources(), and read by      *)
(* current() to learn which node a guest runs on (endpoints.py,            *)
(* helpers.py, model/pve.py). Guests are created, migrated and removed     *)
(* meanwhile, tasks fetch concurrently, and answers overtake each other:   *)
(* the cluster answers a call in one step, the client stores the answer in *)
(* a later one.                                                            *)
(*                                                                         *)
(* A row of an answer is a record; of its payload only what the lookups    *)
(* read is kept, and whether it parses.                                    *)
(***************************************************************************)
EXTENDS Lists, SequencesExt

CONSTANTS
    Tasks,
    Nodes,
    Vms, Containers,  \* the guests, by their vmid
    Others,           \* what else the cluster lists
    TypeOf,           \* per one of those: its type, which the client may not know
    Order,            \* the order in which the cluster lists them all
    Home,             \* the node each guest starts on
    Movable,          \* the guests that are ever migrated
    Connected         \* whether the client was connected first

Guests == Vms \cup Containers

Nowhere == "nowhere"   \* Python's None for a node

ASSUME GuestsAssumption ==
    /\ Vms \cap Containers = {} /\ Guests \cap Nodes = {}
    /\ Others \cap (Guests \cup Nodes) = {}
    /\ TypeOf \in [Others -> {"storage", "network", "other"}]
    /\ Order \in Seq(Guests \cup Nodes \cup Others)
    /\ Range(Order) = Guests \cup Nodes \cup Others
    /\ Home \in [Guests -> Nodes] /\ Movable \subseteq Guests
    /\ Connected \in BOOLEAN
    /\ Nowhere \notin Nodes

VARIABLES
    world,      \* where each guest is, and whether its row parses
    resources,  \* client.cluster_resources: the rows that parsed, in order
    known,      \* whether that attribute was ever assigned
    cache,      \* client.cluster_cache
    frame       \* per task: the call it awaits

vars == <<world, resources, known, cache, frame>>

-------------------------------------------------------------------------------
(* Answers of cluster/resources and what is made of them.                  *)

Types == {"node", "qemu", "lxc", "storage", "network", "other"}
Rows == [type : Types, id : Range(Order), node : Nodes \cup {Nowhere}, ok : BOOLEAN]

RowOf(x) ==
    CASE x \in Nodes  -> [type |-> "node", id |-> x, node |-> x, ok |-> TRUE]
      [] x \in Others -> [type |-> TypeOf[x], id |-> x, node |-> Nowhere, ok |-> TRUE]
      [] x \in Guests -> [type |-> IF x \in Vms THEN "qemu" ELSE "lxc", id |-> x,
                          node |-> world[x].node, ok |-> world[x].ok]

\* The cluster's answer: a row for each thing it has.
Existing == {r \in Rows : r.id \in Guests => r.node # Nowhere}

Answer == Only([i \in 1..Len(Order) |-> RowOf(Order[i])], Existing)

\* deserialize_resource_list(): a row of an unknown type is skipped, one that
\* does not parse is logged and skipped, and the others survive it.
Known == {"node", "qemu", "lxc", "storage", "network"}
Readable == {r \in Rows : r.type \in Known /\ r.ok}
ParsedByType(rows) == Only(rows, {r \in Rows : r.type \in Known})   \* mutant of Parsed
Parsed(rows) == Only(rows, Readable)

\* pve_find_node_in_cache(): the node of the first guest with this vmid.
IsGuestRow(r) == r.type \in {"qemu", "lxc"}

NodeAt(view, i) == IF i = 0 THEN Nowhere ELSE view[i].node

FindAnyGuest(view, vmid) ==   \* mutant of FindNode
    NodeAt(view, SelectInSeq(view, IsGuestRow))

FindNode(view, vmid) ==
    NodeAt(view, SelectInSeq(view, LAMBDA r : IsGuestRow(r) /\ r.id = vmid))

\* pve_cluster_cache(): one dictionary per type, a later row of the same key
\* replacing an earlier one.
Index(view, type) ==
    [id \in {r.id : r \in {r \in Range(view) : r.type = type}} |->
        view[SelectLastInSeq(view, LAMBDA r : r.type = type /\ r.id = id)]]

CacheOf(view) ==
    [nodes |-> Index(view, "node"), qemu |-> Index(view, "qemu"), lxc |-> Index(view, "lxc"),
     storage |-> Index(view, "storage")]

-------------------------------------------------------------------------------
(* Frames: `fetch` is resources() on its own, `fallback` the same call     *)
(* inside current(), `ask` the status call current() ends with.            *)

PCs == {"idle", "fetch", "fallback", "ask"}
Ends == {"none", "ok", "not found", "no map", "error", "AttributeError"}

\* `vmid` is the guest asked for, `node` where it is asked, `rows` the answer
\* on its way (none while `served` is FALSE), `fetches` and `last` history.
Ended(how) ==
    [pc |-> "idle", vmid |-> Nowhere, node |-> Nowhere, served |-> FALSE,
     rows |-> << >>, fetches |-> 0, last |-> how]

Resume(t, f) == frame' = [frame EXCEPT ![t] = f]

Fetch(f, pc) ==
    [f EXCEPT !.pc = pc, !.served = FALSE, !.rows = << >>, !.fetches = @ + 1]

AskAt(f, node) ==
    [f EXCEPT !.pc = "ask", !.node = node, !.served = FALSE, !.rows = << >>]

StoreUncached(rows) ==   \* mutant of Store
    /\ resources' = Parsed(rows)
    /\ known' = TRUE
    /\ UNCHANGED cache

StoreMerged(rows) ==   \* mutant of Store: nothing is evicted
    LET gone(r) == \A i \in 1..Len(rows) : rows[i].id # r.id
        all == Parsed(rows) \o Only(resources, {r \in Range(resources) : gone(r)}) IN
    /\ resources' = all
    /\ known' = TRUE
    /\ cache' = CacheOf(resources')

Store(rows) ==
    /\ resources' = Parsed(rows)
    /\ known' = TRUE
    /\ cache' = CacheOf(resources')

-------------------------------------------------------------------------------
(* The steps of a task.                                                    *)

StartResources(t) ==
    /\ frame[t].pc = "idle"
    /\ Resume(t, Fetch(Ended("none"), "fetch"))
    /\ UNCHANGED <<world, resources, known, cache>>

\* current(): the attribute is read first, which raises where nothing has
\* assigned it yet.
StartCurrent(t) ==
    /\ frame[t].pc = "idle"
    /\ \E vmid \in Guests :
          LET f == [Ended("none") EXCEPT !.vmid = vmid]
              node == FindNode(resources, vmid) IN
          Resume(t, IF ~known THEN Ended("AttributeError")
                    ELSE IF node = Nowhere THEN Fetch(f, "fallback")
                    ELSE AskAt(f, node))
    /\ UNCHANGED <<world, resources, known, cache>>

Received(t) ==
    /\ frame[t].pc = "fetch" /\ frame[t].served
    /\ Store(frame[t].rows)
    /\ Resume(t, Ended("ok"))
    /\ UNCHANGED world

\* The answer of the fallback is stored, and searched in the same step.
FallbackUnstored(t) ==   \* mutant of FallbackReceived: searched, then stored
    /\ frame[t].pc = "fallback" /\ frame[t].served
    /\ Store(frame[t].rows)
    /\ LET node == FindNode(resources, frame[t].vmid) IN
       Resume(t, IF node = Nowhere THEN Ended("not found")
                                   ELSE AskAt(frame[t], node))
    /\ UNCHANGED world

FallbackReceived(t) ==
    /\ frame[t].pc = "fallback" /\ frame[t].served
    /\ Store(frame[t].rows)
    /\ LET node == FindNode(resources', frame[t].vmid) IN
       Resume(t, IF node = Nowhere THEN Ended("not found")
                                   ELSE AskAt(frame[t], node))
    /\ UNCHANGED world

\* The guest's status, or Proxmox's error where the guest is not there. The
\* status of a VM is read with an enumeration that has no unknown member
\* (QmpStatus): a state it does not list ends the call in the parser's error.
StatusReceived(t) ==
    /\ frame[t].pc = "ask"
    /\ \E how \in IF world[frame[t].vmid].node # frame[t].node THEN {"error"}
                 ELSE IF frame[t].vmid \in Vms THEN {"ok", "error"} ELSE {"ok"} :
          Resume(t, Ended(how))
    /\ UNCHANGED <<world, resources, known, cache>>

\* The request raises, whatever the reason. A fallback makes of any error
\* that the guest could not be tracked.
Failed(t) ==
    /\ frame[t].pc # "idle"
    /\ Resume(t, Ended(IF frame[t].pc = "fallback" THEN "no map" ELSE "error"))
    /\ UNCHANGED <<world, resources, known, cache>>

-------------------------------------------------------------------------------
(* The cluster.                                                            *)

Serve(t) ==
    /\ frame[t].pc \in {"fetch", "fallback"} /\ ~frame[t].served
    /\ Resume(t, [frame[t] EXCEPT !.served = TRUE, !.rows = Answer])
    /\ UNCHANGED <<world, resources, known, cache>>

GuestMigrates ==
    /\ \E g \in Movable, n \in Nodes :
          /\ world[g].node \in Nodes \ {n}
          /\ world' = [world EXCEPT ![g].node = n]
    /\ UNCHANGED <<resources, known, cache, frame>>

\* A guest is removed for good.
GuestVanishes ==
    /\ \E g \in Guests :
          /\ world[g].node # Nowhere
          /\ world' = [world EXCEPT ![g] = [node |-> Nowhere, ok |-> TRUE]]
    /\ UNCHANGED <<resources, known, cache, frame>>

\* A row stops parsing, or parses again.
RowGarbles ==
    /\ \E g \in Guests :
          /\ world[g].node # Nowhere
          /\ world' = [world EXCEPT ![g].ok = ~@]
    /\ UNCHANGED <<resources, known, cache, frame>>

Init ==
    /\ world = [g \in Guests |-> [node |-> Home[g], ok |-> TRUE]]
    /\ known = Connected
    /\ resources = IF Connected THEN Parsed(Answer) ELSE << >>
    /\ cache = CacheOf(resources)
    /\ frame = [t \in Tasks |-> Ended("none")]

Next ==
    \/ \E t \in Tasks :
          \/ StartResources(t) \/ StartCurrent(t)
          \/ Received(t) \/ FallbackReceived(t) \/ StatusReceived(t) \/ Failed(t)
          \/ Serve(t)
    \/ GuestMigrates \/ GuestVanishes \/ RowGarbles

\* What liveness rests on: every call ends (a request has a timeout), some
\* caller keeps polling resources(), and a poll gets through again and again,
\* however many others fail.
Fairness ==
    /\ \A t \in Tasks :
          WF_vars(Failed(t) \/ Received(t) \/ FallbackReceived(t) \/ StatusReceived(t))
    /\ SF_vars(\E t \in Tasks : StartResources(t))
    /\ SF_vars(\E t \in Tasks : frame[t].pc = "fetch" /\ Serve(t))
    /\ SF_vars(\E t \in Tasks : Received(t))

Spec == Init /\ [][Next]_vars
FairSpec == Spec /\ Fairness

-------------------------------------------------------------------------------
(* Properties.                                                             *)

TypeOK ==
    /\ world \in [Guests -> [node : Nodes \cup {Nowhere}, ok : BOOLEAN]]
    /\ resources \in Seq(Readable)
    /\ known \in BOOLEAN
    /\ \A t \in Tasks :
          /\ frame[t].pc \in PCs /\ frame[t].last \in Ends
          /\ frame[t].rows \in Seq(Rows)

\* pve_find_node_in_cache and pve_cluster_cache are two readings of one
\* answer: however answers overtake each other, they name the same node for
\* every guest, and neither names one the other lacks.
LookupsAgree ==
    \A g \in Guests :
        FindNode(resources, g) =
            IF g \in DOMAIN cache.qemu THEN cache.qemu[g].node
            ELSE IF g \in DOMAIN cache.lxc THEN cache.lxc[g].node
            ELSE Nowhere

\* "could not be located anywhere in the cluster" (current()): said only of a
\* guest that the cluster did not list, readably, when it was asked on this
\* very call's behalf - not on the word of an older answer.
NotFoundMeansUnlisted ==
    [][\A t \in Tasks :
         frame[t].pc # "idle" /\ frame'[t].last = "not found" =>
            /\ frame[t].fetches = 1
            /\ \A r \in Range(frame[t].rows) : r.id = frame[t].vmid => ~r.ok
      ]_vars

\* A guest that is never migrated is only ever asked for on its own node,
\* whichever answers were stored, in which order, with which rows missing.
SettledGuestIsAddressed ==
    [][\A t \in Tasks :
         frame'[t].pc = "ask" /\ frame[t].pc # "ask" /\ frame'[t].vmid \notin Movable =>
            world[frame'[t].vmid].node \in {frame'[t].node, Nowhere}]_vars

\* "Purge stale telemetry models from cache" (pve_cluster_cache): once the
\* cluster has settled, answers that were on their way are overtaken, and the
\* tables of a client that is polled end up, and stay, what the cluster has:
\* no guest that is gone, none on a node it has left, none missing.
ViewConverges ==
    <>[][UNCHANGED world]_world =>
        <>[](resources = Parsed(Answer) /\ cache = CacheOf(resources))

-------------------------------------------------------------------------------
(* Stronger properties, which this code does not satisfy.                  *)

\* "instantly evict vanished or decommissioned resources from tracking
\* tables" (README.md): a guest that is gone, and gone from the client's
\* tables, does not come back into them.
VanishedStaysEvicted ==
    [][\A g \in Guests :
         world[g].node = Nowhere /\ known /\ FindNode(resources, g) = Nowhere =>
            FindNode(resources', g) = Nowhere]_vars

\* "dynamically inferring its host node" (current()): a guest that is not in
\* the tables is looked for, and current() ends in one of its own errors or
\* in the API's. A client that was not connected ends in AttributeError:
\* cluster_resources is declared and assigned by resources() only.
CurrentLooksForTheGuest == \A t \in Tasks : frame[t].last # "AttributeError"
===============================================================================
