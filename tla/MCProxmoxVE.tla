----------------------------- MODULE MCProxmoxVE -----------------------------
(***************************************************************************)
(* Instances of ProxmoxVE for TLC.                                         *)
(***************************************************************************)
EXTENDS ProxmoxVE, TLC

CONSTANTS A, B, C, D

\* What learn_hosts() is called with: the two peers of a cluster of three;
\* an empty list, one peer, and a list that repeats a peer, names the client's
\* own host and holds an entry that is no address; the peers of a cluster of
\* four, one of which is named later, and in another order.
Peers == {<<B, C>>}
MixedPeers == {<< >>, <<C>>, <<A, NoHost, C, B, C>>}
FourPeers == {<<B, C>>, <<D>>, <<C, B>>}

Symmetry == Permutations(Tasks)
===============================================================================
