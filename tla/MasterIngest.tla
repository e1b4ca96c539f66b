---------------------------- MODULE MasterIngest ----------------------------
(***************************************************************************)
(* The master's side of a batch of worker records: ui.IngestMetadata for   *)
(* each of them, over either database (db/gorm.go, db/clover.go).          *)
(*                                                                         *)
(* InsertMetadata returns false for a record that a filter rejects and for *)
(* one that the database does not take; both callers acknowledge it all    *)
(* the same. So what the worker may rely on is that ingest was called, and *)
(* the rows of the torrent table are left out: GORM's table has a unique   *)
(* index on the infohash, Clover's has none and takes a record again each  *)
(* time it arrives.                                                        *)
(***************************************************************************)
EXTENDS ClusterRecords

VARIABLE ingested      \* metadata for which ingest was called

MasterInit == ingested = {}

\* ingest is called for every record of B.
Ingest(B) == ingested' = ingested \cup {r.md : r \in B}

=============================================================================
