--------------------------- MODULE MCPushCluster ---------------------------
(***************************************************************************)
(* Model of PushCluster for TLC. Metadata is interchangeable.              *)
(***************************************************************************)
EXTENDS PushCluster, TLC

Symmetry == Permutations(Metadata)
=============================================================================
