---------------------------- MODULE WorkerQueue ----------------------------
(***************************************************************************)
(* The queue of records that a worker node keeps for its master            *)
(* (cluster/transport.go, type WorkerQueue), by itself: any client may     *)
(* enqueue, any client may acknowledge any IDs, the flush goroutine saves  *)
(* snapshots to the cache file, and the process may die and start again at *)
(* any point. PushCluster and PullCluster put it to use.                   *)
(*                                                                         *)
(* The slice q.items is the set of its records: IDs are handed out in      *)
(* increasing order, so the order of the slice is the order of the IDs     *)
(* (QueueOrdered says that this is so).                                    *)
(*                                                                         *)
(* saveToCache takes q.mu only to copy the slice. It is four steps: the    *)
(* compare-and-swap of cacheDirty, the copy, and the write and rename,     *)
(* which succeed or fail as one since the rename is what publishes the     *)
(* file.                                                                   *)
(***************************************************************************)
EXTENDS ClusterRecords, FiniteSets

CONSTANTS
    Limit,         \* q.limit
    Persistent,    \* is q.cachePath set? (push mode only)
    MaxID,         \* bound of the model: records enqueued
    MaxDropped     \* bound of the model: refused records counted

ASSUME QueueAssumption ==
    /\ Limit \in Nat \ {0}
    /\ Persistent \in BOOLEAN
    /\ MaxID \in Nat
    /\ MaxDropped \in Nat

VARIABLES
    items,         \* q.items
    nextID,        \* q.nextID, the last ID given out
    dropped,       \* q.dropped
    flushed,       \* q.flushed
    counting,      \* calls of Ack that have left the lock: [ids, records]
    cacheDirty,    \* q.cacheDirty
    disk,          \* the records in the cache file
    saver,         \* [pc, copy]: where the flush goroutine is in saveToCache
    loaded         \* what loadFromCache found: [count, id, ok] (history)

queueVars == <<items, nextID, dropped, flushed, counting, cacheDirty, disk, saver,
               loaded>>

IDs == 1 .. MaxID

NotSaving == [pc |-> "idle", copy |-> {}]
Savers == [pc : {"idle", "swapped", "writing"}, copy : SUBSET Records]

\* The largest ID of a set of records, 0 if there is none.
IsLastID(n, S) ==
    /\ \A r \in S : r.id <= n
    /\ S = {} => n = 0
    /\ S # {} => \E r \in S : n = r.id

\* NewWorkerQueue on a machine without a cache file.
QueueInit ==
    /\ items = {}
    /\ nextID = 0
    /\ dropped = 0
    /\ flushed = 0
    /\ counting = {}
    /\ cacheDirty = FALSE
    /\ disk = {}
    /\ saver = NotSaving
    /\ loaded = [count |-> 0, id |-> 0, ok |-> TRUE]

-----------------------------------------------------------------------------
(***************************************************************************)
(* Enqueue, Batch and Ack                                                  *)
(***************************************************************************)

\* A bug: the ID is the length of the queue, not a running number.
EnqueueByLength(md) ==
    /\ Cardinality(items) < Limit
    /\ nextID < MaxID
    /\ nextID' = nextID + 1
    /\ items' = items \cup {[id |-> Cardinality(items) + 1, md |-> md]}
    /\ cacheDirty' = TRUE
    /\ UNCHANGED <<dropped, flushed, counting, disk, saver, loaded>>

\* What follows Enqueue's lock, signalFlush, only wakes the flush goroutine,
\* which also has its ticker.
Enqueue(md) ==
    /\ Cardinality(items) < Limit
    /\ nextID < MaxID
    /\ nextID' = nextID + 1
    /\ items' = items \cup {[id |-> nextID + 1, md |-> md]}
    /\ cacheDirty' = TRUE
    /\ UNCHANGED <<dropped, flushed, counting, disk, saver, loaded>>

\* The queue is full: the record is refused and counted.
EnqueueRefused ==
    /\ Cardinality(items) >= Limit
    /\ dropped < MaxDropped
    /\ dropped' = dropped + 1
    /\ UNCHANGED <<items, nextID, flushed, counting, cacheDirty, disk, saver, loaded>>

\* B is what Batch(n) returns: the n oldest records, or all of them.
IsBatch(B, n) ==
    /\ B \subseteq items
    /\ \A r \in B, s \in items \ B : r.id < s.id
    /\ \/ n >= 1 /\ n <= Cardinality(items) /\ Cardinality(B) = n
       \/ (n < 1 \/ n > Cardinality(items)) /\ B = items

Acked(ids) == {r \in items : r.id \in ids}

\* Ack up to the unlock: the records that ids names leave the queue.
Ack(ids) ==
    /\ items' = items \ Acked(ids)
    /\ cacheDirty' = TRUE
    /\ counting' = counting \cup {[ids |-> ids, records |-> Acked(ids)]}
    /\ UNCHANGED <<nextID, dropped, flushed, disk, saver, loaded>>

\* A bug: every ID of the request is counted, known or not.
CountIDs(c) ==
    /\ flushed' = flushed + Cardinality(c.ids)
    /\ counting' = counting \ {c}
    /\ UNCHANGED <<items, nextID, dropped, cacheDirty, disk, saver, loaded>>

\* The rest of a call of Ack, without the lock: what it removed is counted, and
\* onAck lets the infohash cache forget it in time. Other calls, and the process's
\* end, may come in between.
CountFlushed(c) ==
    /\ flushed' = flushed + Cardinality(c.records)
    /\ counting' = counting \ {c}
    /\ UNCHANGED <<items, nextID, dropped, cacheDirty, disk, saver, loaded>>

-----------------------------------------------------------------------------
(***************************************************************************)
(* saveToCache and loadFromCache                                           *)
(***************************************************************************)

\* cacheDirty.CompareAndSwap(true, false) succeeded.
SaveSwap ==
    /\ Persistent
    /\ saver.pc = "idle"
    /\ cacheDirty
    /\ cacheDirty' = FALSE
    /\ saver' = [pc |-> "swapped", copy |-> {}]
    /\ UNCHANGED <<items, nextID, dropped, flushed, counting, disk, loaded>>

SaveCopy ==
    /\ saver.pc = "swapped"
    /\ saver' = [pc |-> "writing", copy |-> items]
    /\ UNCHANGED <<items, nextID, dropped, flushed, counting, cacheDirty, disk, loaded>>

\* A bug: the snapshot counts as saved whatever Enqueue and Ack did since.
SaveRenameClearing ==
    /\ saver.pc = "writing"
    /\ disk' = saver.copy
    /\ saver' = NotSaving
    /\ cacheDirty' = FALSE
    /\ UNCHANGED <<items, nextID, dropped, flushed, counting, loaded>>

\* The temporary file is written and renamed over the cache file.
SaveRename ==
    /\ saver.pc = "writing"
    /\ disk' = saver.copy
    /\ saver' = NotSaving
    /\ UNCHANGED <<items, nextID, dropped, flushed, counting, cacheDirty, loaded>>

\* MkdirAll, WriteFile or Rename failed: the file is as it was.
SaveFail ==
    /\ saver.pc = "writing"
    /\ cacheDirty' = TRUE
    /\ saver' = NotSaving
    /\ UNCHANGED <<items, nextID, dropped, flushed, counting, disk, loaded>>

\* The process died, wherever it was, and NewWorkerQueue runs again.
Load ==
    /\ items' = IF Persistent THEN disk ELSE {}
    /\ \E n \in 0 .. MaxID : IsLastID(n, items') /\ nextID' = n
    /\ loaded' = [count |-> Cardinality(items'), id |-> nextID', ok |-> TRUE]
    /\ dropped' = 0
    /\ flushed' = 0
    /\ counting' = {}
    /\ cacheDirty' = FALSE
    /\ saver' = NotSaving
    /\ UNCHANGED disk

\* The same, but the cache file could not be read or parsed: the queue starts
\* empty and the file stays until the next save. (json.Unmarshal checks the syntax
\* of the whole file before it fills q.items, and every file there is was written
\* by saveToCache from a []Record, so none parses only in part.)
LoadFail ==
    /\ Persistent
    /\ items' = {}
    /\ nextID' = 0
    /\ loaded' = [count |-> 0, id |-> 0, ok |-> FALSE]
    /\ dropped' = 0
    /\ flushed' = 0
    /\ counting' = {}
    /\ cacheDirty' = FALSE
    /\ saver' = NotSaving
    /\ UNCHANGED disk

-----------------------------------------------------------------------------

QueueNext ==
    \/ \E md \in Metadata : Enqueue(md)
    \/ EnqueueRefused
    \/ \E ids \in SUBSET IDs : Ack(ids)
    \/ \E c \in counting : CountFlushed(c)
    \/ SaveSwap
    \/ SaveCopy
    \/ SaveRename
    \/ SaveFail
    \/ Load
    \/ LoadFail

QueueSpec == QueueInit /\ [][QueueNext]_queueVars

-----------------------------------------------------------------------------
(***************************************************************************)
(* Properties                                                              *)
(***************************************************************************)

\* The type of every variable.
QueueTypeOK ==
    /\ items \subseteq Records
    /\ nextID \in 0 .. MaxID
    /\ dropped \in Nat
    /\ flushed \in Nat
    /\ counting \subseteq [ids : SUBSET IDs, records : SUBSET Records]
    /\ cacheDirty \in BOOLEAN
    /\ disk \subseteq Records
    /\ saver \in Savers
    /\ loaded \in [count : Nat, id : Nat, ok : BOOLEAN]

\* A set of records as the queue may hold it: an ID names one record, none is
\* above n, and there are no more records than the limit allows.
WellFormed(S, n) ==
    /\ \A r, s \in S : r.id = s.id => r = s
    /\ \A r \in S : r.id <= n
    /\ Cardinality(S) <= Limit

\* The queue's IDs are unique and never above nextID, so that an
\* acknowledgement removes the record it names and no other; the queue never
\* outgrows its limit, not even after records were restored from the file.
QueueOrdered == WellFormed(items, nextID)

\* Removed from the queue and not yet counted.
Uncounted == UNION {c.records : c \in counting}

\* Each record restored or enqueued since the process started is still queued, or
\* removed by a call of Ack that has yet to count it, or counted as flushed, and
\* only one of these: acknowledgements that overlap, repeat or name unknown IDs
\* count no record twice and miss none. Stats reads flushed before the length of
\* the queue, and flushed only grows, so its two numbers may fall short by the
\* records of a call under way, but no record is in both.
Conservation ==
    flushed + Cardinality(Uncounted) + Cardinality(items) =
        loaded.count + (nextID - loaded.id)

\* While cacheDirty is false and no save is under way, the cache file holds the
\* queue: a crash then loses nothing, and the flush goroutine may skip the save.
\* Records enqueued or acknowledged while a save copies or writes set the flag
\* again. (A file that could not be read is left alone until something happens.)
SnapshotCoherent ==
    Persistent /\ ~cacheDirty =>
        /\ saver.pc = "idle" => disk = items \/ (items = {} /\ ~loaded.ok)
        /\ saver.pc = "writing" => saver.copy = items

=============================================================================
