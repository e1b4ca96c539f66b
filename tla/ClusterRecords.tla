--------------------------- MODULE ClusterRecords ---------------------------
(***************************************************************************)
(* The records that worker and master exchange (cluster/transport.go, type *)
(* Record): metadata of one torrent under the ID the worker's queue gave   *)
(* it. Metadata is told apart by its infohash only.                        *)
(***************************************************************************)
EXTENDS Naturals

CONSTANT Metadata

Records == [id : Nat \ {0}, md : Metadata]

=============================================================================
