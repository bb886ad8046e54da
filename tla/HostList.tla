------------------------------- MODULE HostList -------------------------------
(***************************************************************************)
(* The list of hosts a client may use, as src/aioproxmox/__init__.py keeps *)
(* it in ProxmoxVE._hosts: the configured host first, then what the        *)
(* cluster named, no address twice, in the order it was first named.       *)
(*                                                                         *)
(* The list is described by a relation and not by a recursive function.    *)
(* That the loop of ProxmoxVE.learn_hosts computes exactly this relation   *)
(* is the subject of module LearnHosts.                                    *)
(***************************************************************************)
EXTENDS Naturals, Sequences, FiniteSets, Functions

CONSTANTS
    Hosts,   \* the addresses the API may answer on
    NoHost   \* an entry that is no address: an empty string, not a string

ASSUME HostsAssumption == IsFiniteSet(Hosts) /\ NoHost \notin Hosts

\* What a caller, or the `ip` fields of cluster/status, may hand over.
Entries == Hosts \cup {NoHost}

\* The lists that name every host of K once.
Orders(K) == {s \in [1..Cardinality(K) -> K] : IsInjective(s)}

\* The hosts of `kept` and the usable ones of `new`.
KnownUnfiltered(kept, new) == Range(kept) \cup Range(new)   \* mutant of Known
Known(kept, new) == Range(kept) \cup (Range(new) \cap Hosts)

\* `host` comes before `other` among the entries of `new` (or `other` is not
\* among them): the loop meets `host` at a moment it has not met `other`.
NamedBefore(new, host, other) ==
    \E p \in 1..Len(new) : new[p] = host /\ \A q \in 1..p : new[q] # other

\* `known` is `kept` followed by the hosts of `new` that `kept` lacks.
IsLearned(kept, new, known) ==
    /\ Len(kept) <= Len(known)
    /\ \A i \in 1..Len(kept) : known[i] = kept[i]
    /\ IsInjective(known)
    /\ Range(known) = Known(kept, new)
    /\ \A i, j \in (Len(kept) + 1)..Len(known) :
          i < j => NamedBefore(new, known[i], known[j])
\* What learn_hosts() starts from: the whole list, or the configured host.
BaseInUse(list, replace) ==   \* mutant of Base
    IF replace THEN <<list[Len(list)]>> ELSE list
Base(list, replace) == IF replace THEN <<list[1]>> ELSE list

\* What it ends with: the host in use is never dropped.
WithCurrentAgain(known, current) == Append(known, current)   \* mutant of WithCurrent
WithCurrent(known, current) ==
    IF current \in Range(known) THEN known ELSE Append(known, current)
===============================================================================
