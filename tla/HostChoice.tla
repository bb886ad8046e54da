------------------------------ MODULE HostChoice ------------------------------
(***************************************************************************)
(* What ProxmoxVE promises about the host it uses (docs/failover.md),      *)
(* without tasks, locks, probes or indices: the client knows some hosts,   *)
(* uses one of them, and moves only to one that answers.                   *)
(***************************************************************************)
CONSTANTS Hosts, Configured

VARIABLES
    known,  \* the hosts the client may use
    inUse,  \* the host it has settled on
    up      \* the hosts that answer

vars == <<known, inUse, up>>

Init ==
    /\ known = {Configured}
    /\ inUse = Configured
    /\ up \in SUBSET Hosts

\* Learning hosts adds some and may forget others, never the configured one
\* and never the one in use.
Learn ==
    /\ known' \subseteq Hosts
    /\ {Configured, inUse} \subseteq known'
    /\ UNCHANGED <<inUse, up>>

\* The client moves to another known host, and only to one that answers.
Move ==
    /\ inUse' \in known \cap up
    /\ UNCHANGED <<known, up>>

\* Hosts go down and come back.
Environment ==
    /\ up' \subseteq Hosts
    /\ UNCHANGED <<known, inUse>>

Next == Learn \/ Move \/ Environment

Spec == Init /\ [][Next]_vars
===============================================================================
