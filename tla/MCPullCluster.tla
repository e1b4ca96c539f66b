--------------------------- MODULE MCPullCluster ---------------------------
(***************************************************************************)
(* Model of PullCluster for TLC. Metadata is interchangeable.              *)
(***************************************************************************)
EXTENDS PullCluster, TLC

Symmetry == Permutations(Metadata)
=============================================================================
