------------------------------ MODULE LearnHosts ------------------------------
(***************************************************************************)
(* ProxmoxVE.learn_hosts (src/aioproxmox/__init__.py), one entry of its    *)
(* loop at a time. ProxmoxVE takes the whole call for one step that yields *)
(* a list in the relation IsLearned; here the loop is shown to do that.    *)
(***************************************************************************)
EXTENDS HostList

CONSTANTS
    Before,  \* the lists of hosts the client may have when it is called
    Inputs   \* the lists of entries it may be called with

ASSUME LearnAssumption ==
    /\ Before \subseteq {s \in Seq(Hosts) : s # << >> /\ IsInjective(s)}
    /\ Inputs \subseteq Seq(Entries)

VARIABLES
    hosts,    \* _hosts
    index,    \* _host_index
    new,      \* the argument `hosts`
    replace,  \* the argument `replace`
    before,   \* history: _hosts as it was when the call began
    current,  \* the local `current`
    kept,     \* the local `kept`
    taken,    \* how many entries of `new` the loop has taken
    returned  \* whether the call is over

vars == <<hosts, index, new, replace, before, current, kept, taken, returned>>

Init ==
    /\ hosts \in Before
    /\ index \in 0..(Len(hosts) - 1)
    /\ new \in Inputs
    /\ replace \in BOOLEAN
    /\ before = hosts
    /\ current = hosts[index + 1]
    /\ kept = Base(hosts, replace)
    /\ taken = 0
    /\ returned = FALSE

\* An entry that is a host not yet kept is kept, every other one passed over.
IsNewUnfiltered(entry) == entry \notin Range(kept)   \* mutant of IsNew
IsNew(entry) == entry \in Hosts /\ entry \notin Range(kept)

Take ==
    /\ taken < Len(new)
    /\ taken' = taken + 1
    /\ kept' = IF IsNew(new[taken + 1]) THEN Append(kept, new[taken + 1]) ELSE kept
    /\ UNCHANGED <<hosts, index, new, replace, before, current, returned>>

\* mutant of Finish: the index is not looked up again
FinishSameIndex ==
    /\ taken = Len(new) /\ ~returned
    /\ hosts' = WithCurrent(kept, current)
    /\ returned' = TRUE
    /\ UNCHANGED <<index, new, replace, before, current, kept, taken>>

Finish ==
    /\ taken = Len(new) /\ ~returned
    /\ hosts' = WithCurrent(kept, current)
    /\ index' \in {i \in 0..(Len(hosts') - 1) : hosts'[i + 1] = current}
    /\ returned' = TRUE
    /\ UNCHANGED <<new, replace, before, current, kept, taken>>

Next == Take \/ Finish

Spec == Init /\ [][Next]_vars

-------------------------------------------------------------------------------
TypeOK ==
    /\ hosts \in Seq(Hosts) /\ hosts # << >>
    /\ index \in 0..(Len(hosts) - 1)
    /\ new \in Seq(Entries)
    /\ replace \in BOOLEAN
    /\ before \in Seq(Hosts) /\ before # << >> /\ IsInjective(before)
    /\ current \in Range(before)
    /\ kept \in Seq(Hosts)
    /\ taken \in 0..Len(new)
    /\ returned \in BOOLEAN

\* The loop, for the proof: what is kept so far is what the entries taken so
\* far teach.
KeptIsLearned == IsLearned(Base(before, replace), SubSeq(new, 1, taken), kept)

\* The configured host stays first and no host is twice in the list, so that
\* `kept.index(current)` has one answer.
ListStaysSound == hosts[1] = before[1] /\ IsInjective(hosts)

\* learn_hosts() returns what ProxmoxVE!Learn says: the base list, then the
\* hosts it lacked in the order they were first named, then the host in use
\* where it was named by neither; no host is listed twice, the configured one
\* is first, and the index still names the host in use.
LearnsWhatItIsTold ==
    /\ ListStaysSound
    /\ returned =>
          /\ \E k \in Orders(Known(Base(before, replace), new)) :
                /\ IsLearned(Base(before, replace), new, k)
                /\ hosts = WithCurrent(k, current)
          /\ index < Len(hosts) /\ hosts[index + 1] = current
===============================================================================
