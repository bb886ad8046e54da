----------------------------- MODULE ClusterSummary -----------------------------
(***************************************************************************)
(* ClusterSummary.from_resources() (model/summary.py): the nodes, the      *)
(* guests, the CPU and the memory of a cluster whose nodes fail, return,   *)
(* and change their load. The rows are those of the last cluster/resources *)
(* answer. A node that fails keeps in its row the figures it last          *)
(* reported, until they are too old; its guests are reported as unknown,   *)
(* without figures. Which rows survive that is decided by the dataclasses  *)
(* of model/pve.py: what has no default is required.                       *)
(***************************************************************************)
EXTENDS Naturals, FiniteSets, FiniteSetsExt, Functions

CONSTANTS
    Nodes,
    Cores,      \* per node: maxcpu
    Memory,     \* per node: maxmem
    Loads,      \* the values `cpu` takes, in some part of one core
    Guests,
    KindOf,     \* per guest: "qemu" or "lxc"
    Templates,  \* the guests that are templates
    HostOf      \* the node each guest is on

ASSUME ClusterAssumption ==
    /\ IsFiniteSet(Nodes) /\ IsFiniteSet(Guests)
    /\ Cores \in [Nodes -> Nat] /\ Memory \in [Nodes -> Nat]
    /\ Loads \subseteq Nat /\ Loads # {}
    /\ KindOf \in [Guests -> {"qemu", "lxc"}] /\ HostOf \in [Guests -> Nodes]
    /\ Templates \subseteq Guests

VARIABLES
    rows,   \* the node rows of cluster_resources
    words   \* per guest: the status in its row

summaryVars == <<rows, words>>

NodeRow(n) == [online : BOOLEAN, figures : BOOLEAN, cpu : Loads, mem : 0..Memory[n]]

\* "paused" is a word the client does not know.
Words == {"running", "stopped", "paused", "unknown"}

-------------------------------------------------------------------------------
(* Which rows parse, and as what.                                          *)

RequiredOfAll(kind) == {"description", "figures"}   \* mutant of Required
Required(kind) ==
    IF kind = "node" THEN {"description", "figures"} ELSE {"description"}

Parses(kind, fields) == Required(kind) \subseteq fields

Fields(hasFigures) == {"description"} \cup (IF hasFigures THEN {"figures"} ELSE {})

\* OperationalStatus reads a word it does not know as unknown.
Status(word) == IF word \in {"running", "stopped"} THEN word ELSE "unknown"

-------------------------------------------------------------------------------
(* The conversion, for any rows rs and words ws.                           *)

Total(rs) == {n \in Nodes : Parses("node", Fields(rs[n].figures))}
Online(rs) == {n \in Total(rs) : rs[n].online}
Offline(rs) == Total(rs) \ Online(rs)

GuestTotal(ws, kind) ==
    {g \in Guests \ Templates :
        KindOf[g] = kind /\ Parses(kind, Fields(ws[g] # "unknown"))}
GuestRunning(ws, kind) == {g \in GuestTotal(ws, kind) : Status(ws[g]) = "running"}

CountedAll(rs) == Nodes   \* mutant of Counted: figures of failed nodes too
Counted(rs) == Online(rs)

CoresOf(rs) == SumFunctionOnSet(Cores, Counted(rs))

\* A fraction, [num |-> 0, den |-> 0] standing for None.
Cpu(rs) ==
    [num |-> SumFunctionOnSet([n \in Nodes |-> rs[n].cpu * Cores[n]], Counted(rs)),
     den |-> CoresOf(rs)]

MemoryOf(rs) ==
    [used  |-> SumFunctionOnSet([n \in Nodes |-> rs[n].mem], Counted(rs)),
     total |-> SumFunctionOnSet(Memory, Counted(rs))]

-------------------------------------------------------------------------------
(* The cluster.                                                            *)

NodeFails(n) ==
    /\ rows[n].online
    /\ rows' = [rows EXCEPT ![n].online = FALSE]
    /\ words' = [g \in Guests |-> IF HostOf[g] = n THEN "unknown" ELSE words[g]]

\* The figures a failed node last reported are too old to be given out.
FiguresExpire(n) ==
    /\ ~rows[n].online /\ rows[n].figures
    /\ rows' = [rows EXCEPT ![n] = [online |-> FALSE, figures |-> FALSE,
                                    cpu |-> Min(Loads), mem |-> 0]]
    /\ UNCHANGED words

LiveRow(n) == {r \in NodeRow(n) : r.online /\ r.figures}

NodeReturns(n) ==
    /\ ~rows[n].online
    /\ \E r \in LiveRow(n) : rows' = [rows EXCEPT ![n] = r]
    /\ words' = [g \in Guests |-> IF HostOf[g] = n THEN "stopped" ELSE words[g]]

LoadChanges(n) ==
    /\ rows[n].online
    /\ \E r \in LiveRow(n) : rows' = [rows EXCEPT ![n] = r]
    /\ UNCHANGED words

GuestChanges(g) ==
    /\ rows[HostOf[g]].online /\ g \notin Templates
    /\ \E w \in {"running", "stopped", "paused"} : words' = [words EXCEPT ![g] = w]
    /\ UNCHANGED rows

SummaryInit ==
    /\ rows = [n \in Nodes |-> [online |-> TRUE, figures |-> TRUE, cpu |-> Min(Loads), mem |-> 0]]
    /\ words = [g \in Guests |-> "stopped"]

SummaryNext ==
    \/ \E n \in Nodes : NodeFails(n) \/ FiguresExpire(n) \/ NodeReturns(n) \/ LoadChanges(n)
    \/ \E g \in Guests : GuestChanges(g)

-------------------------------------------------------------------------------
(* Properties.                                                             *)

SummaryTypeOK ==
    /\ \A n \in Nodes : rows[n] \in NodeRow(n)
    /\ words \in [Guests -> Words]

\* "CPU used across the online nodes, weighted by each node's core count"
\* (summary.py): the figure lies between the lightest and the heaviest load
\* among the nodes that are online, and there is one while any is; the memory
\* in use fits into the memory there is.
FiguresAreOfTheLiving ==
    LET c == Cpu(rows)
        up == {n \in Nodes : rows[n].online}
        lit == {n \in up : Cores[n] > 0} IN
    /\ (c.den = 0) <=> (lit = {})
    /\ lit # {} =>
          /\ \E n \in lit : rows[n].cpu * c.den <= c.num
          /\ \E n \in lit : rows[n].cpu * c.den >= c.num
    /\ MemoryOf(rows).used <= MemoryOf(rows).total
    /\ MemoryOf(rows).total = SumFunctionOnSet(Memory, up)

\* A node that fails takes its cores and its running guests with it, and
\* nothing else: losing one that was less busy than the cluster never makes
\* the cluster look less busy, losing one that was busier never makes it look
\* busier; no guest drops out of the totals, none on another node out of those
\* that run; and the node is named as offline.
OutageIsNoRelief ==
    [][\A n \in Nodes :
         rows[n].online /\ ~rows'[n].online =>
            LET before == Cpu(rows)
                after == Cpu(rows') IN
            /\ after.den > 0 =>
                  /\ rows[n].cpu * before.den <= before.num =>
                        after.num * before.den >= before.num * after.den
                  /\ rows[n].cpu * before.den >= before.num =>
                        after.num * before.den <= before.num * after.den
            /\ Offline(rows') = Offline(rows) \cup {n}
            /\ \A kind \in {"qemu", "lxc"} :
                  /\ GuestTotal(words', kind) = GuestTotal(words, kind)
                  /\ GuestRunning(words', kind) =
                        {g \in GuestRunning(words, kind) : HostOf[g] # n}
      ]_summaryVars

-------------------------------------------------------------------------------
(* A stronger property, which this code does not satisfy.                  *)

\* The nodes that are offline are named (nodes_offline): a row without cpu or
\* mem does not parse, and its node is neither named nor counted.
OfflineNodesAreNamed == \A n \in Nodes : ~rows[n].online => n \in Offline(rows)
===============================================================================
