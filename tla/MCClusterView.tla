---------------------------- MODULE MCClusterView ----------------------------
(***************************************************************************)
(* Instances of ClusterView for TLC.                                       *)
(***************************************************************************)
EXTENDS ClusterView, TLC

CONSTANTS n1, n2, vm, ct, sdn, store

\* Rows of several types, in an order in which none comes first by its kind.
MixedOrder == <<ct, n1, sdn, store, vm, n2>>
TypeOfOthers == sdn :> "other" @@ store :> "storage"

\* One node is home to all: which one makes no difference to a lookup.
OneHome == [g \in {vm, ct} |-> n1]
===============================================================================
