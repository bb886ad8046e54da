------------------------------ MODULE GuestReport ------------------------------
(***************************************************************************)
(* What a guest says of itself (model/guest.py): guest_disk_usage() over   *)
(* the filesystems its agent lists, while more of them are mounted, and    *)
(* primary_address() over its interfaces, of which each poll may report    *)
(* others, with other addresses, in another order.                         *)
(* An address is one of a few kinds: the sort of address and, for those    *)
(* worth showing, which one. An interface has a name of its own, and a     *)
(* container's interface, with its inet and inet6, has up to two of them.  *)
(***************************************************************************)
EXTENDS Integers, Sequences, SequencesExt, FiniteSetsExt, Lists

CONSTANTS
    Devices,
    Sizes,         \* the figures filesystems report
    Interfaces,    \* names of interfaces
    Noise,         \* sorts of addresses that are not shown: loopback, link-local,
                   \* unspecified, and what is no address at all
    MaxMounts,
    MaxInterfaces  \* bound on the interfaces of a report

ASSUME GuestReportAssumption ==
    /\ Sizes \subseteq Nat /\ MaxMounts \in Nat /\ MaxInterfaces \in Nat
    /\ {"IPv4", "IPv6"} \cap Noise = {}

VARIABLES
    filesystems,   \* the agent's get-fsinfo
    interfaces     \* network-get-interfaces, or a container's interfaces

None == -1   \* Python's None, for a number

-------------------------------------------------------------------------------
(* Disk usage.                                                             *)

\* `backed` is whether the filesystem has a disk under it at all.
Filesystems == [device : Devices, backed : BOOLEAN,
                used : Sizes \cup {None}, total : Sizes \cup {None}]

Contributes(f) == f.backed /\ f.used # None

\* The largest figure of a device, of those that contribute and have one.
Figures(fs, d, field) ==
    {f[field] : f \in {g \in Range(fs) : Contributes(g) /\ g.device = d}} \ {None}

UsedOf(fs, d) == Max(Figures(fs, d, "used"))
TotalOf(fs, d) == Max(Figures(fs, d, "total"))

Having(fs, field) == {d \in Devices : Figures(fs, d, field) # {}}

SumMounts(fs) ==   \* mutant of Usage: every mount counts
    LET mounts == {i \in 1..Len(fs) : Contributes(fs[i])} IN
    IF mounts = {} THEN [used |-> None, total |-> None]
    ELSE [used  |-> MapThenSumSet(LAMBDA i : fs[i].used, mounts),
          total |-> IF \A i \in mounts : fs[i].total # None
                    THEN MapThenSumSet(LAMBDA i : fs[i].total, mounts) ELSE None]

Usage(fs) ==
    IF Having(fs, "used") = {} THEN [used |-> None, total |-> None]
    ELSE [used  |-> SumFunction([d \in Having(fs, "used") |-> UsedOf(fs, d)]),
          total |-> IF Having(fs, "total") = Having(fs, "used")
                    THEN SumFunction([d \in Having(fs, "total") |-> TotalOf(fs, d)])
                    ELSE None]

\* An agent reports no more bytes used than a filesystem has.
Mount ==
    /\ Len(filesystems) < MaxMounts
    /\ \E f \in Filesystems :
          /\ f.used # None /\ f.total # None => f.used <= f.total
          /\ filesystems' = Append(filesystems, f)

FilesystemsInit == filesystems = << >>
FilesystemsNext == Mount

-------------------------------------------------------------------------------
(* Addresses.                                                              *)

\* The addresses worth showing.
WorthShowing == [sort : {"IPv4", "IPv6"}, of : Interfaces]
IPv4s == [sort : {"IPv4"}, of : Interfaces]
Addresses == WorthShowing \cup [sort : Noise, of : {"any"}]

\* What a poll may report: interfaces of different names, in any order, with
\* their own addresses in any order.
ListsOfAddresses(n) ==
    {as \in BoundedSeq({a \in Addresses : a.of \in {n, "any"}}, 2) : IsInjective(as)}
InterfacesNamed(n) == [name : {n}, addresses : ListsOfAddresses(n)]
InterfaceReports ==
    {is \in BoundedSeq(UNION {InterfacesNamed(n) : n \in Interfaces}, MaxInterfaces) :
        \A i, j \in 1..Len(is) : is[i].name = is[j].name => i = j}

\* guest_addresses(), flattened as primary_address() reads it.
ShownOf(is) == Flat([i \in 1..Len(is) |-> Only(is[i].addresses, WorthShowing)])

NoAddress == [sort |-> "none", of |-> "any"]

LastIPv4(found) ==   \* mutant of Primary: the last one of its kind
    LET v4 == Only(found, IPv4s) IN
    IF v4 # << >> THEN Last(v4) ELSE IF found # << >> THEN Last(found) ELSE NoAddress

Primary(found) ==
    LET v4 == Only(found, IPv4s) IN
    IF v4 # << >> THEN Head(v4) ELSE IF found # << >> THEN Head(found) ELSE NoAddress

\* An interface may have gone or come, stand elsewhere, or have gained, lost or
\* reordered its addresses since the last poll.
Poll == interfaces' \in InterfaceReports

InterfacesInit == interfaces = << >>
InterfacesNext == Poll

-------------------------------------------------------------------------------
(* Properties.                                                             *)

GuestTypeOK ==
    /\ \A f \in Range(filesystems) : f \in Filesystems
    /\ Len(filesystems) <= MaxMounts
    /\ \A i \in Range(interfaces) :
          i.name \in Interfaces /\ Range(i.addresses) \subseteq Addresses

\* "A device mounted more than once [...] counts once, at its largest reported
\* figure" (guest_disk_usage): a further mount of a device, with figures no
\* larger than those it has shown, changes neither number.
MountedAgainChangesNothing ==
    [][LET f == Last(filesystems') IN
       /\ filesystems' # filesystems
       /\ f.device \in Having(filesystems, "used")
       /\ f.used <= UsedOf(filesystems, f.device)
       /\ f.total # None => /\ f.device \in Having(filesystems, "total")
                            /\ f.total <= TotalOf(filesystems, f.device)
       => Usage(filesystems') = Usage(filesystems)
      ]_filesystems

\* One of the addresses a stands in found before any b does.
Ahead(found, a, b) ==
    \E i \in 1..Len(found) : found[i] = a /\ \A j \in 1..i : found[j] # b

\* "its first IPv4, else its first IPv6" (primary_address), from one poll to the
\* next: the address shown for a guest is given up, while the guest still has
\* it, only for an IPv4 that was not there where it is an IPv6, or for another
\* of its own sort that has come to stand ahead of it; and none is shown only
\* where there is none.
PrimaryChangesWithCause ==
    [][LET was == ShownOf(interfaces)
           is == ShownOf(interfaces')
           before == Primary(was)
           after == Primary(is) IN
       /\ after = NoAddress => is = << >>
       /\ before \in Range(is) /\ after # before =>
             \/ before.sort = "IPv6" /\ after.sort = "IPv4" /\ after \notin Range(was)
             \/ after.sort = before.sort /\ Ahead(is, after, before) /\ ~Ahead(was, after, before)
      ]_interfaces

-------------------------------------------------------------------------------
(* Stronger properties, which this code does not satisfy.                  *)

\* "The total is only given when every filesystem that contributed to the
\* used figure also reported one" (guest_disk_usage): the code asks this of
\* every device, so one mount's total stands in for another's.
TotalOnlyWhenAllReported ==
    Usage(filesystems).total # None =>
        \A f \in Range(filesystems) : Contributes(f) => f.total # None

\* The address shown does not flap: it does where an interface ahead of the one
\* it is of gains an address of the same sort, or two change places.
PrimaryDoesNotFlap ==
    [][LET before == Primary(ShownOf(interfaces))
           after == Primary(ShownOf(interfaces')) IN
       before \in Range(ShownOf(interfaces')) => after = before \/ after.sort # before.sort
      ]_interfaces
===============================================================================
