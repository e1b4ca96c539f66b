------------------------- MODULE MCPendingRequests -------------------------
(***************************************************************************)
(* Model of PendingRequests for TLC. Infohashes are interchangeable.       *)
(***************************************************************************)
EXTENDS PendingRequests, TLC

Symmetry == Permutations(InfoHash)
=============================================================================
