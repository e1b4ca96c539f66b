------------------------- MODULE WorkerQueueProofs -------------------------
(***************************************************************************)
(* Proofs about WorkerQueue, for every limit, set of metadata and number   *)
(* of records, and whatever clients enqueue and acknowledge.               *)
(***************************************************************************)
EXTENDS WorkerQueue, FiniteSetTheorems, TLAPS

\* A set of records that may become the queue when the process starts.
Loadable(S) ==
    /\ IsFiniteSet(S)
    /\ \A r, s \in S : r.id = s.id => r = s
    /\ Cardinality(S) <= Limit

\* The calls of Ack under way took different records out of the queue, whose IDs
\* are not given out again: so each is counted once.
CountingApart ==
    /\ IsFiniteSet(Uncounted)
    /\ \A r \in Uncounted : r.id <= nextID
    /\ \A r \in Uncounted, s \in items : r.id # s.id
    /\ \A c, d \in counting : c # d => c.records \cap d.records = {}

\* The inductive invariant. The cache file and the copy on its way there hold
\* queues of the past, so they are well formed too.
QueueInv ==
    /\ QueueTypeOK
    /\ QueueOrdered
    /\ Conservation
    /\ CountingApart
    /\ SnapshotCoherent
    /\ IsFiniteSet(items)
    /\ Loadable(disk)
    /\ Loadable(saver.copy)
    /\ loaded.id <= nextID

\* A queue without records may be loaded.
LEMMA EmptyLoadable == Loadable({})
BY FS_EmptySet, QueueAssumption DEF Loadable

\* A new queue satisfies the inductive invariant.
LEMMA InitQueueInv == QueueInit => QueueInv
<1> SUFFICES ASSUME QueueInit PROVE QueueInv
  OBVIOUS
<1>1. QueueTypeOK
  <2>1. saver \in Savers
    BY DEF QueueInit, NotSaving, Savers
  <2>2. loaded \in [count : Nat, id : Nat, ok : BOOLEAN]
    BY DEF QueueInit
  <2>3. nextID \in 0 .. MaxID
    BY QueueAssumption DEF QueueInit
  <2> QED BY <2>1, <2>2, <2>3 DEF QueueInit, QueueTypeOK
<1>2. QueueOrdered /\ Conservation /\ CountingApart
  <2>1. Uncounted = {}
    BY DEF QueueInit, Uncounted
  <2> QED
    BY <2>1, FS_EmptySet, QueueAssumption
       DEF QueueInit, QueueOrdered, WellFormed, Conservation, CountingApart
<1>3. SnapshotCoherent
  BY DEF QueueInit, SnapshotCoherent, NotSaving
<1>4. IsFiniteSet(items) /\ Loadable(disk) /\ Loadable(saver.copy)
  BY EmptyLoadable, FS_EmptySet DEF QueueInit, NotSaving
<1>5. loaded.id <= nextID
  BY DEF QueueInit
<1> QED BY <1>1, <1>2, <1>3, <1>4, <1>5 DEF QueueInv

\* A record with a new ID keeps the queue in order.
LEMMA EnqueueInv ==
    ASSUME QueueInv, NEW md \in Metadata, Enqueue(md)
    PROVE  QueueInv'
<1> DEFINE new == [id |-> nextID + 1, md |-> md]
<1>1. nextID \in Nat /\ nextID' = nextID + 1 /\ nextID' \in 0 .. MaxID
      /\ nextID + 1 \in Nat \ {0}
  BY QueueAssumption DEF QueueInv, QueueTypeOK, Enqueue
<1>2. new \in Records /\ new.id = nextID + 1
  BY <1>1 DEF Records
<1>3. items' = items \cup {new}
  BY DEF Enqueue
<1>4. new \notin items
  <2>1. \A r \in items : r.id <= nextID
    BY DEF QueueInv, QueueOrdered, WellFormed
  <2> QED BY <1>1, <1>2, <2>1
<1>5. /\ IsFiniteSet(items')
      /\ Cardinality(items') = Cardinality(items) + 1
      /\ Cardinality(items) \in Nat
  BY <1>3, <1>4, FS_AddElement, FS_CardinalityType DEF QueueInv
<1>6. QueueTypeOK'
  BY <1>1, <1>2, <1>3 DEF QueueInv, QueueTypeOK, Enqueue
<1>7. \A r \in items : r.id \in Nat /\ r.id <= nextID
  BY DEF QueueInv, QueueOrdered, WellFormed, QueueTypeOK, Records
<1>8. QueueOrdered'
  <2>1. Cardinality(items') <= Limit
    BY <1>5, QueueAssumption DEF Enqueue
  <2>2. \A r \in items' : r.id <= nextID'
    BY <1>1, <1>2, <1>3, <1>7
  <2>3. \A r, s \in items' : r.id = s.id => r = s
    <3>1. \A r, s \in items : r.id = s.id => r = s
      BY DEF QueueInv, QueueOrdered, WellFormed
    <3>2. \A r \in items : r.id # new.id
      BY <1>1, <1>2, <1>7
    <3> HIDE DEF new
    <3> QED BY <1>3, <3>1, <3>2
  <2> QED BY <2>1, <2>2, <2>3 DEF QueueOrdered, WellFormed
<1>9. Conservation' /\ CountingApart' /\ loaded'.id <= nextID'
  <2>1. Uncounted' = Uncounted /\ counting' = counting
    BY DEF Enqueue, Uncounted
  <2>2. Cardinality(Uncounted) \in Nat
    BY FS_CardinalityType DEF QueueInv, CountingApart
  <2>3. \A r \in Uncounted : r.id \in Nat /\ r.id <= nextID
    BY DEF QueueInv, QueueTypeOK, CountingApart, Uncounted, Records
  <2>4. Conservation' /\ loaded'.id <= nextID'
    BY <1>1, <1>5, <2>1, <2>2 DEF QueueInv, QueueTypeOK, Conservation, Enqueue
  <2>5. \A r \in Uncounted : r.id # new.id /\ r.id <= nextID'
    BY <1>1, <1>2, <2>3
  <2> HIDE DEF new
  <2>6. CountingApart'
    BY <1>3, <2>1, <2>5 DEF QueueInv, CountingApart
  <2> QED BY <2>4, <2>6
<1>10. SnapshotCoherent'
  BY DEF Enqueue, SnapshotCoherent
<1>11. Loadable(disk)' /\ Loadable(saver.copy)'
  BY DEF QueueInv, Enqueue, Loadable
<1> QED BY <1>5, <1>6, <1>8, <1>9, <1>10, <1>11 DEF QueueInv

\* Acknowledging any set of IDs moves records from the queue to a call's hands.
LEMMA AckInv ==
    ASSUME QueueInv, NEW ids \in SUBSET IDs, Ack(ids)
    PROVE  QueueInv'
<1> DEFINE A == Acked(ids)
           call == [ids |-> ids, records |-> A]
<1>1. /\ A \subseteq items /\ items' = items \ A
      /\ counting' = counting \cup {call}
      /\ UNCHANGED <<nextID, flushed, loaded>>
  BY DEF Ack, Acked
<1>2. /\ IsFiniteSet(items')
      /\ Cardinality(items') = Cardinality(items) - Cardinality(A)
      /\ Cardinality(A) \in Nat /\ Cardinality(items) \in Nat
      /\ Cardinality(items') \in Nat
  <2>1. IsFiniteSet(items) /\ items \cap A = A /\ IsFiniteSet(A)
    BY <1>1, FS_Subset DEF QueueInv
  <2> HIDE DEF A
  <2>2. /\ IsFiniteSet(items \ A)
        /\ Cardinality(items \ A) = Cardinality(items) - Cardinality(items \cap A)
    BY <2>1, FS_Difference
  <2>3. Cardinality(A) \in Nat /\ Cardinality(items) \in Nat
    BY <2>1, FS_CardinalityType
  <2>4. Cardinality(items \ A) \in Nat
    BY <2>2, FS_CardinalityType
  <2> QED BY <1>1, <2>1, <2>2, <2>3, <2>4
<1> HIDE DEF A
<1>3. QueueTypeOK'
  <2>1. call \in [ids : SUBSET IDs, records : SUBSET Records]
    BY <1>1 DEF QueueInv, QueueTypeOK
  <2> HIDE DEF call
  <2>2. counting' \subseteq [ids : SUBSET IDs, records : SUBSET Records]
    BY <1>1, <2>1 DEF QueueInv, QueueTypeOK
  <2> QED
    BY <1>1, <1>2, <2>2 DEF QueueInv, QueueTypeOK, Ack
<1>4. QueueOrdered'
  BY <1>1, <1>2, QueueAssumption DEF QueueInv, QueueOrdered, WellFormed, Ack
<1>5. Conservation' /\ CountingApart' /\ loaded'.id <= nextID'
  <2>1. call.records = A
    OBVIOUS
  <2> HIDE DEF call
  <2>2. Uncounted' = Uncounted \cup A
    BY <1>1, <2>1 DEF Uncounted
  <2>3. /\ IsFiniteSet(Uncounted) /\ IsFiniteSet(A)
        /\ \A r \in Uncounted, s \in items : r.id # s.id
    BY <1>1, FS_Subset DEF QueueInv, CountingApart
  <2>4. Uncounted \cap A = {}
    BY <1>1, <2>3
  <2>5. /\ IsFiniteSet(Uncounted')
        /\ Cardinality(Uncounted') = Cardinality(Uncounted) + Cardinality(A)
        /\ Cardinality(Uncounted) \in Nat
    <3>1. /\ IsFiniteSet(Uncounted \cup A)
          /\ Cardinality(Uncounted \cup A)
               = Cardinality(Uncounted) + Cardinality(A) - Cardinality(Uncounted \cap A)
      BY <2>3, FS_Union
    <3>2. Cardinality(Uncounted \cap A) = 0
      BY <2>4, FS_EmptySet
    <3>3. Cardinality(Uncounted) \in Nat /\ Cardinality(A) \in Nat
      BY <2>3, FS_CardinalityType
    <3> QED BY <2>2, <3>1, <3>2, <3>3
  <2>6. Conservation' /\ loaded'.id <= nextID'
    BY <1>1, <1>2, <2>5 DEF QueueInv, QueueTypeOK, Conservation
  <2>7. \A r \in Uncounted' : r.id <= nextID'
    BY <1>1, <2>2 DEF QueueInv, CountingApart, QueueOrdered, WellFormed
  <2>8. \A r \in Uncounted', s \in items' : r.id # s.id
    <3>1. \A r \in A : r.id \in ids
      BY DEF A, Acked
    <3>2. \A s \in items' : s.id \notin ids
      BY <1>1 DEF A, Acked
    <3> QED BY <1>1, <2>2, <2>3, <3>1, <3>2
  <2>9. \A c, d \in counting' : c # d => c.records \cap d.records = {}
    <3>1. \A c \in counting : c.records \cap A = {}
      BY <2>4 DEF Uncounted
    <3>2. \A c, d \in counting : c # d => c.records \cap d.records = {}
      BY DEF QueueInv, CountingApart
    <3> QED BY <1>1, <2>1, <3>1, <3>2
  <2> QED BY <2>5, <2>6, <2>7, <2>8, <2>9 DEF CountingApart
<1>6. SnapshotCoherent'
  BY DEF Ack, SnapshotCoherent
<1>7. Loadable(disk)' /\ Loadable(saver.copy)'
  BY DEF QueueInv, Ack, Loadable
<1> QED BY <1>2, <1>3, <1>4, <1>5, <1>6, <1>7 DEF QueueInv

\* The end of a call of Ack counts what the call had removed.
LEMMA CountInv ==
    ASSUME QueueInv, NEW c \in counting, CountFlushed(c)
    PROVE  QueueInv'
<1>1. /\ flushed' = flushed + Cardinality(c.records)
      /\ counting' = counting \ {c}
      /\ UNCHANGED <<items, nextID, dropped, cacheDirty, disk, saver, loaded>>
  BY DEF CountFlushed
<1>2. Uncounted' = Uncounted \ c.records /\ c.records \subseteq Uncounted
  BY <1>1 DEF Uncounted, QueueInv, CountingApart
<1>3. IsFiniteSet(Uncounted) /\ Uncounted \cap c.records = c.records
  BY <1>2 DEF QueueInv, CountingApart
<1>4. /\ IsFiniteSet(Uncounted')
      /\ Cardinality(Uncounted') = Cardinality(Uncounted) - Cardinality(c.records)
      /\ Cardinality(Uncounted) \in Nat /\ Cardinality(c.records) \in Nat
      /\ Cardinality(items) \in Nat
  <2>1. IsFiniteSet(c.records) /\ IsFiniteSet(items)
    BY <1>2, <1>3, FS_Subset DEF QueueInv
  <2>2. /\ IsFiniteSet(Uncounted \ c.records)
        /\ Cardinality(Uncounted \ c.records)
             = Cardinality(Uncounted) - Cardinality(Uncounted \cap c.records)
    BY <1>3, FS_Difference
  <2> QED BY <1>2, <1>3, <2>1, <2>2, FS_CardinalityType
<1>5. QueueTypeOK'
  BY <1>1, <1>4 DEF QueueInv, QueueTypeOK
<1>6. Conservation' /\ loaded'.id <= nextID'
  BY <1>1, <1>4 DEF QueueInv, QueueTypeOK, Conservation
<1>7. CountingApart'
  BY <1>1, <1>2, <1>4 DEF QueueInv, CountingApart
<1>8. QueueOrdered' /\ SnapshotCoherent' /\ IsFiniteSet(items)'
      /\ Loadable(disk)' /\ Loadable(saver.copy)'
  BY <1>1 DEF QueueInv, QueueOrdered, WellFormed, SnapshotCoherent, Loadable
<1> QED BY <1>5, <1>6, <1>7, <1>8 DEF QueueInv

\* The steps of saveToCache leave the queue itself alone.
SameQueue == UNCHANGED <<items, nextID, dropped, flushed, counting, loaded>>

\* The steps of saveToCache do not touch the queue, and publish only snapshots
\* that a queue may be loaded from.
LEMMA SaveInv ==
    ASSUME QueueInv, SaveSwap \/ SaveCopy \/ SaveRename \/ SaveFail
    PROVE  QueueInv'
<1>1. SameQueue
  BY DEF SaveSwap, SaveCopy, SaveRename, SaveFail, SameQueue
<1>2. QueueOrdered' /\ Conservation' /\ CountingApart' /\ IsFiniteSet(items)'
      /\ loaded'.id <= nextID'
  BY <1>1 DEF SameQueue, QueueInv, QueueOrdered, WellFormed, Conservation,
              CountingApart, Uncounted
<1>3. Loadable(items)
  BY DEF QueueInv, QueueOrdered, WellFormed, Loadable
<1>4. Loadable(disk)' /\ Loadable(saver.copy)'
  <2>1. CASE SaveSwap
    BY <2>1, EmptyLoadable DEF SaveSwap, QueueInv, Loadable
  <2>2. CASE SaveCopy
    BY <2>2, <1>3 DEF SaveCopy, QueueInv, Loadable
  <2>3. CASE SaveRename
    BY <2>3, EmptyLoadable DEF SaveRename, QueueInv, Loadable, NotSaving
  <2>4. CASE SaveFail
    BY <2>4, EmptyLoadable DEF SaveFail, QueueInv, Loadable, NotSaving
  <2> QED BY <2>1, <2>2, <2>3, <2>4
<1>5. saver' \in Savers /\ disk' \subseteq Records /\ cacheDirty' \in BOOLEAN
  <2>1. saver \in Savers /\ items \subseteq Records /\ disk \subseteq Records
        /\ saver.copy \subseteq Records /\ cacheDirty \in BOOLEAN
    BY DEF QueueInv, QueueTypeOK, Savers
  <2>2. CASE SaveSwap
    BY <2>1, <2>2 DEF SaveSwap, Savers
  <2>3. CASE SaveCopy
    BY <2>1, <2>3 DEF SaveCopy, Savers
  <2>4. CASE SaveRename
    BY <2>1, <2>4 DEF SaveRename, Savers, NotSaving
  <2>5. CASE SaveFail
    BY <2>1, <2>5 DEF SaveFail, Savers, NotSaving
  <2> QED BY <2>2, <2>3, <2>4, <2>5
<1>6. QueueTypeOK'
  BY <1>1, <1>5 DEF SameQueue, QueueInv, QueueTypeOK
<1>7. SnapshotCoherent'
  <2>1. CASE SaveSwap
    BY <2>1 DEF SaveSwap, SnapshotCoherent
  <2>2. CASE SaveCopy
    BY <2>2 DEF SaveCopy, SnapshotCoherent
  <2>3. CASE SaveRename
    BY <2>3 DEF SaveRename, SnapshotCoherent, QueueInv, NotSaving
  <2>4. CASE SaveFail
    BY <2>4 DEF SaveFail, SnapshotCoherent
  <2> QED BY <2>1, <2>2, <2>3, <2>4
<1> QED BY <1>2, <1>4, <1>6, <1>7 DEF QueueInv

\* A queue that was restored from the file, or that starts empty.
LEMMA LoadInv ==
    ASSUME QueueInv, Load \/ LoadFail
    PROVE  QueueInv'
<1>1. /\ Loadable(items') /\ items' \subseteq Records
      /\ nextID' \in 0 .. MaxID /\ (\A r \in items' : r.id <= nextID')
      /\ loaded'.count = Cardinality(items') /\ loaded'.id = nextID'
      /\ loaded' = [count |-> Cardinality(items'), id |-> nextID', ok |-> loaded'.ok]
      /\ loaded'.ok \in BOOLEAN
  <2>1. CASE Load
    <3>1. PICK n \in 0 .. MaxID : IsLastID(n, items') /\ nextID' = n
      BY <2>1 DEF Load
    <3>2. Loadable(items') /\ items' \subseteq Records
      BY <2>1, EmptyLoadable DEF Load, QueueInv, QueueTypeOK
    <3>3. loaded' = [count |-> Cardinality(items'), id |-> nextID', ok |-> TRUE]
      BY <2>1 DEF Load
    <3> QED BY <3>1, <3>2, <3>3 DEF IsLastID
  <2>2. CASE LoadFail
    <3>1. items' = {} /\ nextID' = 0
          /\ loaded' = [count |-> 0, id |-> 0, ok |-> FALSE]
      BY <2>2 DEF LoadFail
    <3>2. /\ Cardinality(items') = 0 /\ Loadable(items')
          /\ items' \subseteq Records /\ nextID' \in 0 .. MaxID
      BY <3>1, EmptyLoadable, FS_EmptySet, QueueAssumption
    <3> QED BY <3>1, <3>2
  <2> QED BY <2>1, <2>2
<1>2. Cardinality(items') \in Nat
  BY <1>1, FS_CardinalityType DEF Loadable
<1>3. /\ dropped' = 0 /\ flushed' = 0 /\ counting' = {} /\ cacheDirty' = FALSE
      /\ saver' = NotSaving /\ disk' = disk
  BY DEF Load, LoadFail
<1>4. QueueTypeOK'
  <2>1. saver' \in Savers
    BY <1>3 DEF Savers, NotSaving
  <2>2. loaded' \in [count : Nat, id : Nat, ok : BOOLEAN]
    BY <1>1, <1>2, QueueAssumption
  <2> QED BY <1>1, <1>3, <2>1, <2>2 DEF QueueTypeOK, QueueInv
<1>5. /\ QueueOrdered' /\ Conservation' /\ CountingApart'
      /\ loaded'.id <= nextID'
  <2>1. Uncounted' = {}
    BY <1>3 DEF Uncounted
  <2> QED
    BY <1>1, <1>2, <1>3, <2>1, FS_EmptySet, QueueAssumption
       DEF QueueOrdered, WellFormed, Conservation, CountingApart, Loadable
<1>6. SnapshotCoherent'
  <2>1. CASE Load
    BY <2>1 DEF Load, SnapshotCoherent, NotSaving
  <2>2. CASE LoadFail
    BY <2>2 DEF LoadFail, SnapshotCoherent, NotSaving
  <2> QED BY <2>1, <2>2
<1>7. Loadable(disk)' /\ Loadable(saver.copy)' /\ IsFiniteSet(items)'
  BY <1>1, <1>3, EmptyLoadable DEF QueueInv, Loadable, NotSaving
<1> QED BY <1>4, <1>5, <1>6, <1>7 DEF QueueInv

\* Every step keeps the inductive invariant.
LEMMA NextQueueInv == QueueInv /\ [QueueNext]_queueVars => QueueInv'
<1> SUFFICES ASSUME QueueInv, [QueueNext]_queueVars PROVE QueueInv'
  OBVIOUS
<1>1. ASSUME NEW md \in Metadata, Enqueue(md) PROVE QueueInv'
  BY <1>1, EnqueueInv
<1>2. CASE EnqueueRefused
  <2>1. dropped' \in Nat
    BY <1>2 DEF EnqueueRefused, QueueInv, QueueTypeOK
  <2> QED BY <1>2, <2>1 DEF EnqueueRefused, QueueInv, QueueTypeOK, QueueOrdered,
             WellFormed, Conservation, CountingApart, Uncounted,
             SnapshotCoherent, Loadable
<1>3. ASSUME NEW ids \in SUBSET IDs, Ack(ids) PROVE QueueInv'
  BY <1>3, AckInv
<1>4. CASE SaveSwap \/ SaveCopy \/ SaveRename \/ SaveFail
  BY <1>4, SaveInv
<1>5. CASE Load \/ LoadFail
  BY <1>5, LoadInv
<1>6. CASE UNCHANGED queueVars
  BY <1>6 DEF queueVars, QueueInv, QueueTypeOK, QueueOrdered, WellFormed,
              Conservation, CountingApart, Uncounted, SnapshotCoherent, Loadable
<1>7. ASSUME NEW c \in counting, CountFlushed(c) PROVE QueueInv'
  BY <1>7, CountInv
<1> QED BY <1>1, <1>2, <1>3, <1>4, <1>5, <1>6, <1>7 DEF QueueNext

\* The inductive invariant holds in every reachable state.
THEOREM QueueInvHolds == QueueSpec => []QueueInv
BY InitQueueInv, NextQueueInv, PTL DEF QueueSpec

\* Every variable keeps its type.
THEOREM QueueTypeCorrect == QueueSpec => []QueueTypeOK
<1>1. QueueInv => QueueTypeOK
  BY DEF QueueInv
<1> QED BY <1>1, QueueInvHolds, PTL

\* IDs stay unique and below nextID, and the limit holds, through any number of
\* crashes and restarts.
THEOREM QueueOrderCorrect == QueueSpec => []QueueOrdered
<1>1. QueueInv => QueueOrdered
  BY DEF QueueInv
<1> QED BY <1>1, QueueInvHolds, PTL

\* While the process lives no record is lost and none is counted twice, though
\* calls of Ack overlap, repeat, name unknown IDs and count after they unlock.
THEOREM ConservationCorrect == QueueSpec => []Conservation
<1>1. QueueInv => Conservation
  BY DEF QueueInv
<1> QED BY <1>1, QueueInvHolds, PTL

\* A clear cacheDirty means that the cache file is up to date.
THEOREM SnapshotCorrect == QueueSpec => []SnapshotCoherent
<1>1. QueueInv => SnapshotCoherent
  BY DEF QueueInv
<1> QED BY <1>1, QueueInvHolds, PTL
=============================================================================
