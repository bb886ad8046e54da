----------------------------- MODULE SharedStorage -----------------------------
(***************************************************************************)
(* shared_storage() (model/storage.py): a storage that several nodes mount *)
(* is listed once per node, and collapsed into one row, while nodes lose   *)
(* their mounts, get them back, join and leave.                            *)
(* Nodes are numbered in the order of their names.                         *)
(***************************************************************************)
EXTENDS Naturals, FiniteSets, FiniteSetsExt

CONSTANTS
    Mounting,   \* the nodes that may mount the storage, by number
    Fills       \* what the storage may hold

ASSUME MountingAssumption == Mounting \subseteq Nat /\ Fills \subseteq Nat /\ Fills # {}

VARIABLES
    mounts,   \* per node: the status of its row, or "absent" where it has none
    held      \* what the storage holds

storageVars == <<mounts, held>>

Statuses == {"absent", "available", "unknown"}

-------------------------------------------------------------------------------
(* The conversion, for any mounts ms.                                      *)

Candidates(ms) == {n \in Mounting : ms[n] # "absent"}
Available(ms) == {n \in Mounting : ms[n] = "available"}

FirstNode(ms) == Min(Candidates(ms))   \* mutant of RowNode
RowNode(ms) == Min(IF Available(ms) # {} THEN Available(ms) ELSE Candidates(ms))

\* The `disk` of a node's row: a row without figures gets the default, 0.
Figure(ms, h, n) == IF ms[n] = "available" THEN h ELSE 0

\* None is [used |-> 0, nodes |-> {}, found |-> FALSE].
Collapsed(ms, h) ==
    [found |-> Candidates(ms) # {},
     used  |-> IF Candidates(ms) = {} THEN 0 ELSE Figure(ms, h, RowNode(ms)),
     nodes |-> Available(ms)]

-------------------------------------------------------------------------------
(* The cluster.                                                            *)

MountChanges(n) ==
    /\ \E s \in Statuses \ {mounts[n]} : mounts' = [mounts EXCEPT ![n] = s]
    /\ UNCHANGED held

Fill ==
    /\ held' \in Fills \ {held}
    /\ UNCHANGED mounts

StorageInit ==
    /\ mounts = [n \in Mounting |-> "available"]
    /\ held = Min(Fills)

StorageNext == Fill \/ \E n \in Mounting : MountChanges(n)

-------------------------------------------------------------------------------
(* Properties.                                                             *)

StorageTypeOK == mounts \in [Mounting -> Statuses] /\ held \in Fills

\* "so a node that lost its mount does not zero the numbers for everyone"
\* (shared_storage): whatever happens to one node's mount, the figure shown
\* does not change while some node saw the storage before and after; and with
\* nobody seeing it, it is still named.
AMountLostChangesNoFigure ==
    [][LET before == Collapsed(mounts, held)
           after == Collapsed(mounts', held') IN
       /\ held' = held /\ before.nodes # {} /\ after.nodes # {} =>
             after.used = before.used
       /\ after.found <=> \E n \in Mounting : mounts'[n] # "absent"
      ]_storageVars
===============================================================================
