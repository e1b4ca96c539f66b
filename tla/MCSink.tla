------------------------------- MODULE MCSink -------------------------------
(***************************************************************************)
(* Sink for TLC.                                                           *)
(***************************************************************************)
EXTENDS Sink, TLC

Symmetry == Permutations(InfoHash)
=============================================================================
