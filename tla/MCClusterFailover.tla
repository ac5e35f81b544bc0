-------------------------- MODULE MCClusterFailover --------------------------
(* Instances of ClusterFailover for TLC. *)
EXTENDS ClusterFailover

\* State constraint: once a node's identity is lost nothing is claimed of what follows.
Whole == ~torn
=============================================================================
