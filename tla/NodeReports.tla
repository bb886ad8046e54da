------------------------------ MODULE NodeReports ------------------------------
(***************************************************************************)
(* The lists a node or a guest answers with, of which a dashboard wants    *)
(* one thing: the certificate that serves the API and the failing checks   *)
(* of Ceph (model/health.py), the snapshots (model/guest.py), the hardware *)
(* addresses of the ports (model/summary.py). They hold entries of other   *)
(* kinds too, in any order; an entry may come in anywhere, or go.          *)
(***************************************************************************)
EXTENDS NodeHealth

CONSTANTS
    Times,        \* when a certificate expires, a snapshot was taken
    MaxEntries    \* bound on a list

ASSUME NodeReportsAssumption == Times \subseteq Nat \ {0} /\ MaxEntries \in Nat

VARIABLES
    about,     \* what the list is of
    listing    \* what was answered

listVars == <<about, listing>>

\* An entry, of whichever list: its name, whether it is of the kind that is
\* wanted, and the time it carries. A port's name is its MAC-based altname,
\* a Ceph check's entry is an object or is not.
Names ==
    [certificates |-> {"pveproxy-ssl.pem", "pve-ssl.pem", "pve-root-ca.pem"},
     checks       |-> {"OSD_DOWN", "MON_DOWN"},
     snapshots    |-> {"before", "after"},
     ports        |-> {"enx01", "enx02", "enp3s0"}]

ListEntries(what) ==
    CASE what = "certificates" -> [name : Names[what], wanted : {TRUE}, time : Times]
      [] what = "checks"       -> [name : Names[what], wanted : BOOLEAN, time : {NoNumber}]
      [] what = "snapshots"    -> [name : Names[what], wanted : {TRUE},
                                   time : Times \cup {NoNumber}]
      [] what = "ports"        -> [name : Names[what], wanted : BOOLEAN, time : {NoNumber}]

\* The live state, which ends every list of snapshots.
Current == [name |-> "current", wanted |-> TRUE, time |-> NoNumber]

-------------------------------------------------------------------------------
(* What is made of a list.                                                 *)

\* serving_certificate(): by file name, the custom certificate before the one
\* of the cluster's CA.
Preference == <<"pveproxy-ssl.pem", "pve-ssl.pem">>

Certificates(names) == {e \in ListEntries("certificates") : e.name \in names}

First(list) == IF list = << >> THEN << >> ELSE <<Head(list)>>   \* if there is one

FirstListed(list) ==   \* mutant of Serving: whichever is listed first
    First(Only(list, Certificates(Range(Preference))))

Serving(list) ==
    LET custom == Only(list, Certificates({Preference[1]})) IN
    First(IF custom # << >> THEN custom ELSE Only(list, Certificates({Preference[2]})))

\* CephStatus.from_api(): what is no object is passed over.
CephChecks(list) == Only(list, {e \in ListEntries("checks") : e.wanted})

\* snapshots_taken(): all but the live state, newest first; a stable sort, here
\* by how many come before each.
TakenAt(e) == IF e.time = NoNumber THEN 0 ELSE e.time
Newer(taken, i, j) ==
    \/ TakenAt(taken[i]) > TakenAt(taken[j])
    \/ TakenAt(taken[i]) = TakenAt(taken[j]) /\ i < j
Place(taken, i) == Cardinality({j \in 1..Len(taken) : Newer(taken, j, i)}) + 1
NewestFirst(taken) ==
    [k \in 1..Len(taken) |-> taken[CHOOSE i \in 1..Len(taken) : Place(taken, i) = k]]
SnapshotsTaken(list) == NewestFirst(Only(list, ListEntries("snapshots")))

\* node_mac_addresses(): the ports with a MAC among their altnames, each once.
WithMac == {e \in ListEntries("ports") : e.wanted /\ e.name \in {"enx01", "enx02"}}
OnceEach(found) ==
    LET known(k) == \E j \in 1..(k - 1) : found[j].name = found[k].name
    IN Flat([k \in 1..Len(found) |-> IF known(k) THEN << >> ELSE <<found[k]>>])
MacAddresses(list) == OnceEach(Only(list, WithMac))

FigureOf(what, list) ==
    CASE what = "certificates" -> Serving(list)
      [] what = "checks"       -> CephChecks(list)
      [] what = "snapshots"    -> SnapshotsTaken(list)
      [] what = "ports"        -> MacAddresses(list)

-------------------------------------------------------------------------------
(* The node.                                                               *)

\* Two ports can name one address; a file, a check or a snapshot is one entry.
EntryComes ==
    /\ Len(listing) < MaxEntries
    /\ \E e \in ListEntries(about) :
          /\ about = "ports" \/ \A f \in Range(listing) : f.name # e.name
          /\ \E i \in 1..(Len(listing) + 1) :
                /\ about = "snapshots" => i <= Len(listing)
                /\ listing' = InsertAt(listing, i, e)
    /\ UNCHANGED about

EntryGoes ==
    /\ \E i \in 1..Len(listing) : listing[i] # Current /\ listing' = RemoveAt(listing, i)
    /\ UNCHANGED about

ReportsInit ==
    /\ about \in DOMAIN Names
    /\ listing = IF about = "snapshots" THEN <<Current>> ELSE << >>

ReportsNext == EntryComes \/ EntryGoes

-------------------------------------------------------------------------------
(* Properties.                                                             *)

ReportsTypeOK ==
    /\ about \in DOMAIN Names
    /\ Range(listing) \subseteq ListEntries(about) \cup {Current}

\* The entries a figure is made of.
Counts(what) ==
    CASE what = "certificates" -> Certificates({"pveproxy-ssl.pem", "pve-ssl.pem"})
      [] what = "checks"       -> {e \in ListEntries(what) : e.wanted}
      [] what = "snapshots"    -> ListEntries(what)
      [] what = "ports"        -> WithMac

\* "The cluster CA itself [...] not worth watching" (health.py), "The list
\* always ends with a `current` pseudo entry [...] it is not a snapshot"
\* (guest.py), "Bridges and bonds have no address of their own" (summary.py):
\* an entry of another kind changes nothing, wherever it comes in or goes; of
\* the wanted ones none is lost or shown after it is gone, save that only one
\* certificate serves; that one does not depend on where it is listed, and no
\* snapshot is shown before a newer one.
OnlyWhatIsMeantCounts ==
    [][LET counted(list) == Only(list, Counts(about))
           wanted(list) == Range(counted(list))
           before == FigureOf(about, listing)
           after == FigureOf(about, listing') IN
       listing' # listing =>
       /\ counted(listing) = counted(listing') => after = before
       /\ IF about = "certificates"
          THEN /\ Range(after) \subseteq wanted(listing')
               /\ after = << >> <=> wanted(listing') = {}
               /\ Serving(Reverse(listing')) = after
          ELSE {e.name : e \in Range(after)} = {e.name : e \in wanted(listing')}
       /\ about = "snapshots" =>
             \A i, j \in DOMAIN after : i < j => after[i].time >= after[j].time
      ]_listVars

\* What is noise in a report changes nothing that is shown: in a drive's, and in
\* the lists of entries.
NoiseChangesNothing == DriveNoiseChangesNothing /\ OnlyWhatIsMeantCounts
===============================================================================
