--------------------------- MODULE ClusterProofs ---------------------------
(***************************************************************************)
(* Proofs about the two ways in which a worker's records reach the master, *)
(* for every limit, batch size, set of metadata and number of restarts:    *)
(* what is proved of the queue holds in both, and both let a record go     *)
(* only after the master ingested it (in pull mode up to the worker's      *)
(* first restart).                                                         *)
(*                                                                         *)
(* The names of push mode are used as they are; those of pull mode have    *)
(* the prefix Pull.                                                        *)
(***************************************************************************)
EXTENDS PushCluster, WorkerQueueProofs

CONSTANT MaxBatchesPerPull

VARIABLES puller, acks, status

Pull == INSTANCE PullCluster

\* The metadata of a set of records.
MetadataOf(S) == {r.md : r \in S}

\* A record adds its metadata.
LEMMA MetadataAdd ==
    ASSUME NEW S, NEW n, NEW md
    PROVE  MetadataOf(S \cup {[id |-> n, md |-> md]}) = MetadataOf(S) \cup {md}
<1> DEFINE r == [id |-> n, md |-> md]
<1>1. r.md = md
  OBVIOUS
<1> HIDE DEF r
<1>2. MetadataOf(S \cup {r}) = MetadataOf(S) \cup {md}
  BY <1>1 DEF MetadataOf
<1> QED
  BY <1>2 DEF r

-----------------------------------------------------------------------------
(***************************************************************************)
(* Push mode: the inductive invariant                                      *)
(***************************************************************************)
Flushers ==
    [pc : {"select", "drain", "posted", "answered", "acked", "last", "done"},
     batch : SUBSET Records]

\* Whatever may become the queue, or arrive at the master, was accepted once.
AcceptedInv ==
    /\ MetadataOf(items) \subseteq accepted
    /\ MetadataOf(disk) \subseteq accepted
    /\ MetadataOf(saver.copy) \subseteq accepted
    /\ \A B \in wire : MetadataOf(B) \subseteq accepted

\* The batch that was posted is still queued, for only its own acknowledgement
\* takes it out; once it is answered, the master has ingested all of it.
BatchInv ==
    /\ flusher \in Flushers
    /\ flusher.pc \in {"posted", "answered"} => flusher.batch \subseteq items
    /\ flusher.pc = "answered" => MetadataOf(flusher.batch) \subseteq ingested

PushInv == QueueInv /\ AcceptedInv /\ BatchInv

\* The batch that was answered is exactly what its IDs name.
LEMMA AckTakesBatch ==
    ASSUME PushInv, flusher.pc = "answered"
    PROVE  Acked(BatchIDs) = flusher.batch /\ BatchIDs \in SUBSET IDs
<1>1. /\ flusher.batch \subseteq items
      /\ \A r, s \in items : r.id = s.id => r = s
      /\ \A r \in items : r.id \in Nat \ {0} /\ r.id <= nextID
      /\ nextID \in 0 .. MaxID
  BY DEF PushInv, BatchInv, QueueInv, QueueOrdered, WellFormed, QueueTypeOK,
         Records
<1>2. \A r \in items : r.id \in IDs
  BY <1>1, QueueAssumption DEF IDs
<1> QED
  BY <1>1, <1>2 DEF Acked, BatchIDs

\* A step of push mode is a step of the queue, or leaves the queue alone.
LEMMA PushQueueStep ==
    ASSUME PushInv, [Next]_vars
    PROVE  [QueueNext]_queueVars
<1>1. ASSUME NEW md \in Metadata,
             Discover(md) \/ DiscoverRefused(md) \/ CacheExpires(md)
      PROVE  [QueueNext]_queueVars
  BY <1>1 DEF Discover, DiscoverRefused, CacheExpires, QueueNext
<1>2. CASE FlushAcked
  BY <1>2, AckTakesBatch DEF FlushAcked, AckAnswer, QueueNext
<1>3. CASE FlushCounted
  BY <1>3 DEF FlushCounted, QueueNext
<1>4. CASE Save \/ FlushLoopStop
  BY <1>4 DEF Save, FlushLoopStop, QueueNext
<1>5. CASE Start
  BY <1>5 DEF Start, QueueNext
<1>6. CASE \/ FlushSend \/ FlushFail \/ FlushIdle \/ FlushLoopEnd \/ Stop \/ Exit
           \/ \E B \in wire : MasterAnswers(B) \/ MasterUnheard(B)
           \/ UNCHANGED vars
  BY <1>6 DEF FlushSend, FlushFail, FlushIdle, FlushLoopEnd, Stop, Exit,
              MasterAnswers, MasterUnheard, vars
<1> QED
  BY <1>1, <1>2, <1>4, <1>5, <1>6, <1>3 DEF Next

\* The steps that leave the queue, the master and the history alone.
LEMMA PushFrame ==
    ASSUME PushInv,
           items' = items, disk' = disk, saver' = saver, accepted' = accepted,
           \A B \in wire' : MetadataOf(B) \subseteq accepted
    PROVE  AcceptedInv'
<1>1. AcceptedInv'
  BY DEF PushInv, AcceptedInv
<1> QED
  BY <1>1 DEF PushInv

\* Saving moves a copy of the queue to the file, and nothing else.
LEMMA SaveMetadata ==
    ASSUME PushInv, SaveSwap \/ SaveCopy \/ SaveRename \/ SaveFail
    PROVE  /\ items' = items
           /\ MetadataOf(disk') \subseteq accepted
           /\ MetadataOf(saver'.copy) \subseteq accepted
<1>1. CASE SaveSwap \/ SaveFail
  BY <1>1 DEF SaveSwap, SaveFail, PushInv, AcceptedInv, MetadataOf, NotSaving
<1>2. CASE SaveCopy
  BY <1>2 DEF SaveCopy, PushInv, AcceptedInv, MetadataOf
<1>3. CASE SaveRename
  BY <1>3 DEF SaveRename, PushInv, AcceptedInv, MetadataOf, NotSaving
<1> QED
  BY <1>1, <1>2, <1>3

\* Every step of push mode keeps the inductive invariant.
LEMMA PushStep ==
    ASSUME PushInv, [Next]_vars
    PROVE  PushInv'
<1>0. /\ PushInv
      /\ QueueInv' /\ QueueInv /\ AcceptedInv /\ BatchInv
      /\ items \subseteq Records /\ flusher \in Flushers
  BY PushQueueStep, NextQueueInv DEF PushInv, BatchInv, QueueInv, QueueTypeOK
<1> SUFFICES AcceptedInv' /\ BatchInv'
  BY <1>0 DEF PushInv
<1> USE DEF queueVars, pushVars
<1>1. ASSUME NEW md \in Metadata, Discover(md)
      PROVE  AcceptedInv' /\ BatchInv'
  <2>1. /\ items' = items \cup {[id |-> nextID + 1, md |-> md]}
        /\ accepted' = accepted \cup {md}
        /\ UNCHANGED <<disk, saver, ingested, flusher, wire>>
    BY <1>1 DEF Discover, Enqueue
  <2>2. MetadataOf(items') = MetadataOf(items) \cup {md}
    BY <2>1, MetadataAdd
  <2>3. AcceptedInv'
    BY <1>0, <2>1, <2>2 DEF AcceptedInv
  <2>4. BatchInv'
    BY <1>0, <2>1 DEF BatchInv
  <2> QED
    BY <1>0, <2>1, <2>3, <2>4
<1>2. ASSUME NEW md \in Metadata, DiscoverRefused(md) \/ CacheExpires(md)
      PROVE  AcceptedInv' /\ BatchInv'
  <2>1. UNCHANGED <<items, disk, saver, ingested, accepted, flusher, wire>>
    BY <1>2 DEF DiscoverRefused, EnqueueRefused, CacheExpires
  <2>2. BatchInv'
    BY <1>0, <2>1 DEF BatchInv
  <2>3. AcceptedInv'
    BY <1>0, <2>1, PushFrame DEF AcceptedInv
  <2> QED
    BY <2>2, <2>3
<1>3. CASE FlushSend
  <2>1. PICK B \in SUBSET items :
               wire' = wire \cup {B} /\ flusher' = [pc |-> "posted", batch |-> B]
    BY <1>3 DEF FlushSend
  <2>2. UNCHANGED <<items, disk, saver, ingested, accepted>>
    BY <1>3 DEF FlushSend
  <2>3. MetadataOf(B) \subseteq accepted
    BY <1>0 DEF AcceptedInv, MetadataOf
  <2>4. BatchInv'
    BY <1>0, <2>1, <2>2 DEF BatchInv, Flushers
  <2> QED
    BY <1>0, <2>1, <2>2, <2>3, <2>4, PushFrame DEF AcceptedInv
<1>4. CASE FlushFail \/ FlushLoopEnd \/ Stop \/ Exit
  <2>1. UNCHANGED <<items, disk, saver, ingested, accepted, wire>>
    BY <1>4 DEF FlushFail, FlushLoopEnd, Stop, Exit
  <2>2. flusher' \in {flusher, Selecting, [pc |-> "done", batch |-> {}]}
    BY <1>4 DEF FlushFail, FlushLoopEnd, Stop, Exit
  <2>3. BatchInv'
    BY <1>0, <2>1, <2>2 DEF BatchInv, Flushers, Selecting
  <2> QED
    BY <1>0, <2>1, <2>3, PushFrame DEF AcceptedInv
<1>5. CASE FlushAcked \/ FlushCounted
  <2>1. /\ items' \subseteq items
        /\ flusher' \in {Selecting, [pc |-> "drain", batch |-> {}],
                        [pc |-> "acked", batch |-> {}]}
        /\ UNCHANGED <<disk, saver, ingested, accepted, wire>>
    BY <1>5 DEF FlushAcked, AckAnswer, Ack, FlushCounted, CountFlushed
  <2>2. BatchInv'
    BY <2>1 DEF BatchInv, Flushers, Selecting
  <2>3. AcceptedInv'
    BY <1>0, <2>1 DEF AcceptedInv, MetadataOf
  <2> QED
    BY <1>0, <2>1, <2>2, <2>3
<1>6. CASE Save \/ FlushLoopStop
  <2>1. /\ UNCHANGED <<ingested, accepted, wire>>
        /\ flusher' \in {flusher, [pc |-> "last", batch |-> {}]}
        /\ \/ SaveSwap \/ SaveCopy \/ SaveRename \/ SaveFail
           \/ UNCHANGED <<items, disk, saver>>
    BY <1>6 DEF Save, FlushLoopStop
  <2>2. /\ items' = items
        /\ MetadataOf(disk') \subseteq accepted
        /\ MetadataOf(saver'.copy) \subseteq accepted
    BY <1>0, <2>1, SaveMetadata DEF AcceptedInv
  <2>3. BatchInv'
    BY <1>0, <2>1, <2>2 DEF BatchInv, Flushers
  <2>4. AcceptedInv'
    BY <1>0, <2>1, <2>2 DEF AcceptedInv
  <2> QED
    BY <1>0, <2>1, <2>3, <2>4
<1>7. ASSUME NEW B \in wire, MasterAnswers(B)
      PROVE  AcceptedInv' /\ BatchInv'
  <2>1. Ingest(B)
    BY <1>7 DEF MasterAnswers
  <2>2. /\ flusher.pc = "posted" /\ flusher.batch = B
        /\ wire' = wire \ {B} /\ flusher' = [flusher EXCEPT !.pc = "answered"]
        /\ UNCHANGED <<items, disk, saver, accepted>>
    BY <1>7 DEF MasterAnswers, Answered
  <2>3. ingested' = ingested \cup MetadataOf(B)
    BY <2>1 DEF Ingest, MetadataOf
  <2>4. flusher' = [pc |-> "answered", batch |-> B] /\ B \subseteq Records
    BY <1>0, <2>2 DEF Flushers
  <2>5. BatchInv'
    BY <1>0, <2>2, <2>3, <2>4 DEF BatchInv, Flushers, MetadataOf
  <2> QED
    BY <1>0, <2>2, <2>3, <2>5 DEF AcceptedInv
<1>8. ASSUME NEW B \in wire, MasterUnheard(B)
      PROVE  AcceptedInv' /\ BatchInv'
  <2>1. PICK C \in SUBSET B : Ingest(C)
    BY <1>8 DEF MasterUnheard
  <2>2. /\ wire' = wire \ {B}
        /\ UNCHANGED <<items, disk, saver, accepted, flusher>>
    BY <1>8 DEF MasterUnheard
  <2>3. ingested' = ingested \cup MetadataOf(C)
    BY <2>1 DEF Ingest, MetadataOf
  <2>4. BatchInv'
    BY <1>0, <2>2, <2>3 DEF BatchInv
  <2> QED
    BY <1>0, <2>2, <2>3, <2>4 DEF AcceptedInv
<1>9. CASE Start
  <2>1. /\ flusher' = Selecting
        /\ UNCHANGED <<ingested, wire, accepted>>
        /\ items' \in {disk, {}} /\ disk' = disk /\ saver' = NotSaving
    BY <1>9 DEF Start, Load, LoadFail
  <2>2. BatchInv'
    BY <2>1 DEF BatchInv, Flushers, Selecting
  <2>3. AcceptedInv'
    BY <1>0, <2>1 DEF AcceptedInv, MetadataOf, NotSaving
  <2> QED
    BY <1>0, <2>1, <2>2, <2>3
<1>10. CASE FlushIdle \/ UNCHANGED vars
  <2>1. UNCHANGED <<items, disk, saver, ingested, accepted, flusher, wire>>
    BY <1>10 DEF FlushIdle, vars
  <2>2. BatchInv'
    BY <1>0, <2>1 DEF BatchInv
  <2>3. AcceptedInv'
    BY <1>0, <2>1, PushFrame DEF AcceptedInv
  <2> QED
    BY <2>2, <2>3
<1> QED
  BY <1>0, <1>1, <1>2, <1>3, <1>4, <1>5, <1>6, <1>7, <1>8, <1>9, <1>10
     DEF Next

\* The inductive invariant holds in every state of push mode.
THEOREM PushInvHolds == Spec => []PushInv
<1>1. Init => PushInv
  <2> SUFFICES ASSUME Init PROVE PushInv
    OBVIOUS
  <2>1. QueueInv
    BY InitQueueInv DEF Init
  <2>2. BatchInv
    BY DEF Init, BatchInv, Flushers, Selecting
  <2>3. AcceptedInv
    BY DEF Init, QueueInit, NotSaving, AcceptedInv, MetadataOf
  <2> QED
    BY <2>1, <2>2, <2>3 DEF PushInv
<1>2. PushInv /\ [Next]_vars => PushInv'
  BY PushStep
<1> QED
  BY <1>1, <1>2, PTL DEF Spec

\* The worker touches its queue through the operations of WorkerQueue only,
\* whatever the flush loop, the cache ticker and the process do: so all that is
\* proved of the queue holds in push mode.
LEMMA PushUsesQueue == Spec => QueueSpec
<1>1. Init => QueueInit
  BY DEF Init
<1>2. PushInv /\ [Next]_vars => [QueueNext]_queueVars
  BY PushQueueStep
<1> QED
  BY <1>1, <1>2, PushInvHolds, PTL DEF Spec, QueueSpec

\* In push mode the IDs stay unique and the limit holds through crashes and
\* restarts, each record that leaves the queue is counted once, and a clear dirty flag
\* with no save under way means that the cache file equals the queue.
THEOREM PushQueueCorrect ==
    Spec => [](QueueOrdered /\ Conservation /\ SnapshotCoherent)
<1>1. QueueInv => QueueOrdered /\ Conservation /\ SnapshotCoherent
  BY DEF QueueInv
<1> QED
  BY <1>1, PushUsesQueue, QueueInvHolds, PTL

\* A step of push mode is a step of the promise, or leaves it alone: Discover
\* accepts, the master delivers whether or not its answer gets back, only an
\* answered batch is released, and a start may hold anything once accepted.
LEMMA PushPromiseStep ==
    ASSUME PushInv, [Next]_vars
    PROVE  [Promise!Next]_(Promise!vars)
<1>0. AcceptedInv /\ BatchInv /\ Queued = MetadataOf(items)
  BY DEF PushInv, Queued, MetadataOf
<1> USE DEF pushVars, queueVars
<1>1. ASSUME NEW md \in Metadata, Discover(md)
      PROVE  Promise!Accept(md)
  <2>1. Queued' = Queued \cup {md}
    BY <1>1, MetadataAdd DEF Discover, Enqueue, Queued, MetadataOf
  <2> QED
    BY <1>1, <2>1 DEF Discover, Promise!Accept
<1>2. CASE FlushAcked
  <2>1. /\ items' = items \ flusher.batch
        /\ MetadataOf(flusher.batch) \subseteq ingested
        /\ UNCHANGED <<accepted, ingested, restarts>>
    BY <1>0, <1>2, AckTakesBatch DEF FlushAcked, AckAnswer, Ack, BatchInv
  <2> DEFINE S == Queued \ Queued'
  <2>2. Queued' \subseteq Queued /\ S \subseteq MetadataOf(flusher.batch)
    BY <2>1 DEF Queued, MetadataOf
  <2>3. Promise!Release(S)
    BY <2>1, <2>2 DEF Promise!Release
  <2> QED
    BY <2>3 DEF Promise!Next
<1>3. ASSUME NEW B \in wire, MasterAnswers(B) \/ MasterUnheard(B)
      PROVE  [Promise!Next]_(Promise!vars)
  <2>1. PICK C \in SUBSET B : ingested' = ingested \cup MetadataOf(C)
    BY <1>3 DEF MasterAnswers, MasterUnheard, Ingest, MetadataOf
  <2>2. MetadataOf(C) \in SUBSET accepted
    BY <1>0 DEF AcceptedInv, MetadataOf
  <2>3. UNCHANGED <<items, accepted, restarts>>
    BY <1>3 DEF MasterAnswers, MasterUnheard
  <2>4. Promise!Deliver(MetadataOf(C))
    BY <2>1, <2>3 DEF Promise!Deliver, Queued
  <2> QED
    BY <2>2, <2>4 DEF Promise!Next
<1>4. CASE Start
  <2>1. /\ items' \in {disk, {}} /\ restarts' = restarts + 1
        /\ UNCHANGED <<accepted, ingested>>
    BY <1>4 DEF Start, Load, LoadFail
  <2>2. Queued' \in SUBSET accepted
    BY <1>0, <2>1 DEF AcceptedInv, Queued, MetadataOf
  <2>3. Promise!Restart(Queued')
    BY <2>1 DEF Promise!Restart
  <2> QED
    BY <2>2, <2>3 DEF Promise!Next
<1>5. CASE \/ \E md \in Metadata : DiscoverRefused(md) \/ CacheExpires(md)
           \/ FlushSend \/ FlushFail \/ FlushIdle \/ FlushCounted
           \/ FlushLoopEnd \/ Stop \/ Exit \/ UNCHANGED vars
  <2>1. UNCHANGED <<items, accepted, ingested, restarts>>
    BY <1>5 DEF DiscoverRefused, EnqueueRefused, CacheExpires, FlushSend,
                FlushFail, FlushIdle, FlushCounted, CountFlushed, FlushLoopEnd,
                Stop, Exit, vars
  <2> QED
    BY <2>1 DEF Promise!vars, Queued
<1>6. CASE Save \/ FlushLoopStop
  <2>1. UNCHANGED <<items, accepted, ingested, restarts>>
    BY <1>6 DEF Save, FlushLoopStop, SaveSwap, SaveCopy, SaveRename, SaveFail
  <2> QED
    BY <2>1 DEF Promise!vars, Queued
<1> QED
  BY <1>1, <1>2, <1>3, <1>4, <1>5, <1>6 DEF Next, Promise!Next

\* Push mode implements the promise: over lost, late and repeated requests, lost
\* answers, failing saves and any number of crashes, the worker lets a record go
\* only after the master ingested it.
THEOREM PushDelivers == Spec => AtLeastOnce
<1>1. Init => Promise!Init
  BY DEF Init, QueueInit, MasterInit, Promise!Init, Queued
<1>2. PushInv /\ [Next]_vars => [Promise!Next]_(Promise!vars)
  BY PushPromiseStep
<1> QED
  BY <1>1, <1>2, PushInvHolds, PTL DEF Spec, AtLeastOnce, Promise!Spec
-----------------------------------------------------------------------------
(***************************************************************************)
(* Pull mode: its queue and its master are those of push mode              *)
(***************************************************************************)

\* The two copies of cardinality are one.
LEMMA SameCardinality == \A S : Pull!Cardinality(S) = Cardinality(S)
BY DEF Pull!Cardinality, Cardinality

\* The operations of the queue in pull mode are those of WorkerQueue.
LEMMA SameInit == Pull!QueueInit /\ Pull!MasterInit => QueueInit /\ MasterInit
BY DEF Pull!QueueInit, QueueInit, Pull!NotSaving, NotSaving, Pull!MasterInit,
       MasterInit

LEMMA SameEnqueue ==
    ASSUME NEW md, Pull!Enqueue(md)
    PROVE  Enqueue(md)
BY SameCardinality DEF Pull!Enqueue, Enqueue

LEMMA SameRefused == Pull!EnqueueRefused => EnqueueRefused
BY SameCardinality DEF Pull!EnqueueRefused, EnqueueRefused

LEMMA SameAck ==
    ASSUME NEW ids, Pull!Ack(ids)
    PROVE  Ack(ids)
BY DEF Pull!Ack, Ack, Pull!Acked, Acked

LEMMA SameCount ==
    ASSUME NEW c, Pull!CountFlushed(c)
    PROVE  CountFlushed(c)
BY SameCardinality DEF Pull!CountFlushed, CountFlushed

LEMMA SameLoad == Pull!Load => Load
BY SameCardinality DEF Pull!Load, Load, Pull!IsLastID, IsLastID,
                       Pull!NotSaving, NotSaving

-----------------------------------------------------------------------------
(***************************************************************************)
(* Pull mode: the inductive invariant                                      *)
(***************************************************************************)
Pullers ==
    [pc : {"waiting", "more", "got", "acking"}, batch : SUBSET Records,
     queued : Nat, n : Nat]

\* The batch came out of the queue, in this life of the worker or an earlier one,
\* and so did every ID on its way back; nothing is ever on disk.
TakenInv ==
    /\ puller \in Pullers
    /\ restarts \in Nat
    /\ disk = {}
    /\ MetadataOf(items) \subseteq accepted
    /\ MetadataOf(puller.batch) \subseteq accepted
    /\ Pull!IDsOf(puller.batch) \subseteq IDs
    /\ \A ids \in acks : ids \subseteq IDs

\* In the worker's first life an ID is never given out twice. So a record of the
\* queue that has the ID of one the master took is that record, and one that an
\* acknowledgement names, however late, has been ingested.
IDsNameOnce ==
    /\ \A r \in puller.batch : r.id <= nextID
    /\ \A r \in puller.batch, s \in items : r.id = s.id => r = s
    /\ \A ids \in acks : \A n \in ids : n <= nextID
    /\ \A ids \in acks : MetadataOf(Acked(ids)) \subseteq ingested

FirstLifeInv == restarts = 0 => IDsNameOnce

PullInv == QueueInv /\ TakenInv /\ FirstLifeInv

\* A step of pull mode is a step of the queue, or leaves the queue alone.
LEMMA PullQueueStep ==
    ASSUME PullInv, [Pull!Next]_(Pull!vars)
    PROVE  [QueueNext]_queueVars
<1>1. ASSUME NEW md \in Metadata, Pull!Discover(md)
      PROVE  [QueueNext]_queueVars
  BY <1>1, SameEnqueue DEF Pull!Discover, QueueNext
<1>2. ASSUME NEW md \in Metadata, Pull!DiscoverRefused(md) \/ Pull!CacheExpires(md)
      PROVE  [QueueNext]_queueVars
  BY <1>2, SameRefused
     DEF Pull!DiscoverRefused, Pull!CacheExpires, Pull!queueVars, queueVars,
         QueueNext
<1>3. CASE Pull!Start
  BY <1>3, SameLoad DEF Pull!Start, QueueNext
<1>4. ASSUME NEW ids \in acks, Pull!AckTaken(ids)
      PROVE  [QueueNext]_queueVars
  <2>1. Ack(ids) /\ ids \in SUBSET IDs
    BY <1>4, SameAck DEF Pull!AckTaken, PullInv, TakenInv
  <2> QED
    BY <2>1 DEF QueueNext
<1>5. ASSUME NEW c \in counting, Pull!AckAnswered(c) \/ Pull!AckUnheard(c)
      PROVE  [QueueNext]_queueVars
  BY <1>5, SameCount DEF Pull!AckAnswered, Pull!AckUnheard, QueueNext
<1>6. CASE \/ Pull!PullBatch \/ Pull!PullEmpty \/ Pull!PullFail \/ Pull!PullIngest
           \/ Pull!MasterRestarts \/ Pull!AckFail
           \/ \E ids \in acks : Pull!AckLost(ids)
           \/ UNCHANGED Pull!vars
  BY <1>6
     DEF Pull!queueVars, queueVars, Pull!PullBatch, Pull!PullEmpty, Pull!PullFail, Pull!PullIngest,
              Pull!MasterRestarts, Pull!AckFail, Pull!AckLost, Pull!vars
<1> QED
  BY <1>1, <1>2, <1>3, <1>4, <1>6, <1>5 DEF Pull!Next

\* The steps after which less is queued, taken or on its way back, and no less
\* is ingested: requests that fail, acknowledgements, heard or not.
LEMMA LessTaken ==
    ASSUME PullInv, QueueInv',
           items' \subseteq items, nextID' = nextID, disk' = disk,
           puller' \in Pullers, puller'.batch \subseteq puller.batch,
           acks' \subseteq acks, accepted' = accepted, restarts' = restarts,
           ingested \subseteq ingested'
    PROVE  PullInv'
<1>1. TakenInv'
  BY DEF PullInv, TakenInv, MetadataOf, Pull!IDsOf
<1>2. FirstLifeInv'
  BY DEF PullInv, FirstLifeInv, IDsNameOnce, MetadataOf, Acked
<1> QED
  BY <1>1, <1>2 DEF PullInv

\* Every step of pull mode keeps the inductive invariant.
LEMMA PullStep ==
    ASSUME PullInv, [Pull!Next]_(Pull!vars)
    PROVE  PullInv'
<1>0. /\ QueueInv' /\ QueueInv /\ TakenInv /\ FirstLifeInv
      /\ items \subseteq Records /\ IsFiniteSet(items) /\ nextID \in 0 .. MaxID
      /\ \A r, s \in items : r.id = s.id => r = s
      /\ \A r \in items : r.id \in Nat \ {0} /\ r.id <= nextID
  BY PullQueueStep, NextQueueInv
     DEF PullInv, QueueInv, QueueTypeOK, QueueOrdered, WellFormed, Records
<1> USE DEF Pull!queueVars, Pull!pullVars
<1>1. ASSUME NEW md \in Metadata, Pull!Discover(md)
      PROVE  PullInv'
  <2>1. Enqueue(md)
    BY <1>1, SameEnqueue DEF Pull!Discover
  <2> DEFINE new == [id |-> nextID + 1, md |-> md]
  <2>2. /\ items' = items \cup {new} /\ nextID' = nextID + 1 /\ disk' = disk
        /\ accepted' = accepted \cup {md}
        /\ UNCHANGED <<ingested, puller, acks, restarts>>
    BY <1>1, <2>1 DEF Pull!Discover, Enqueue
  <2>3. MetadataOf(items') = MetadataOf(items) \cup {md}
    BY <2>2, MetadataAdd
  <2>4. TakenInv'
    BY <1>0, <2>2, <2>3 DEF TakenInv
  <2>5. FirstLifeInv'
    <3> SUFFICES ASSUME restarts = 0 PROVE IDsNameOnce'
      BY <2>2 DEF FirstLifeInv
    <3>0. IDsNameOnce
      BY <1>0 DEF FirstLifeInv
    <3> USE DEF IDsNameOnce
    <3>1. \A r \in puller.batch : r.id \in IDs
      BY <1>0 DEF TakenInv, Pull!IDsOf
    <3>2. \A ids \in acks : Acked(ids)' = Acked(ids)
      BY <1>0, <2>2, <3>0 DEF Acked, TakenInv, IDs
    <3> QED
      BY <1>0, <2>2, <3>0, <3>1, <3>2 DEF IDs, TakenInv
  <2> QED
    BY <1>0, <2>2, <2>4, <2>5 DEF PullInv
<1>2. CASE \/ \E md \in Metadata : Pull!DiscoverRefused(md) \/ Pull!CacheExpires(md)
           \/ Pull!PullEmpty \/ Pull!PullFail \/ Pull!AckFail
           \/ \E ids \in acks : Pull!AckLost(ids)
           \/ UNCHANGED Pull!vars
  <2>1. /\ UNCHANGED <<items, nextID, disk, ingested, accepted, restarts>>
        /\ acks' \subseteq acks /\ puller' \in {puller, Pull!Waiting}
    BY <1>2 DEF Pull!DiscoverRefused, Pull!EnqueueRefused, Pull!CacheExpires,
                Pull!PullEmpty, Pull!PullFail, Pull!AckFail, Pull!AckLost, Pull!vars
  <2>2. puller' \in Pullers /\ puller'.batch \subseteq puller.batch
    BY <1>0, <2>1 DEF TakenInv, Pullers, Pull!Waiting
  <2> QED
    BY <1>0, <2>1, <2>2, LessTaken
<1>3. ASSUME \/ \E ids \in acks : Pull!AckTaken(ids)
             \/ \E c \in counting : Pull!AckAnswered(c) \/ Pull!AckUnheard(c)
      PROVE  PullInv'
  <2>1. /\ items' \subseteq items
        /\ UNCHANGED <<nextID, disk, ingested, accepted, restarts>>
        /\ acks' \subseteq acks
    BY <1>3 DEF Pull!AckTaken, Pull!AckAnswered, Pull!AckUnheard, Pull!Ack,
                Pull!CountFlushed
  <2>2. puller' \in {puller, Pull!Waiting,
                     [Pull!Waiting EXCEPT !.pc = "more", !.n = puller.n + 1]}
    BY <1>3 DEF Pull!AckTaken, Pull!AckAnswered, Pull!AckUnheard
  <2>3. puller.n \in Nat /\ puller \in Pullers
    BY <1>0 DEF TakenInv, Pullers
  <2>4. puller.n + 1 \in Nat
    BY <2>3
  <2>5. \A n \in Nat : LET more == [Pull!Waiting EXCEPT !.pc = "more", !.n = n]
                      IN  more \in Pullers /\ more.batch = {}
    BY DEF Pull!Waiting, Pullers
  <2>6. Pull!Waiting \in Pullers /\ Pull!Waiting.batch = {}
    BY DEF Pullers, Pull!Waiting
  <2>7. puller' \in Pullers /\ puller'.batch \subseteq puller.batch
    BY <2>2, <2>3, <2>4, <2>5, <2>6
  <2> QED
    BY <1>0, <2>1, <2>7, LessTaken
<1>4. CASE Pull!MasterRestarts
  <2>1. PICK C \in SUBSET puller.batch : Pull!Ingest(C)
    BY <1>4 DEF Pull!MasterRestarts
  <2>2. ingested \subseteq ingested'
    BY <2>1 DEF Pull!Ingest
  <2>3. /\ UNCHANGED <<items, nextID, disk, accepted, restarts, acks>>
        /\ puller' = Pull!Waiting
    BY <1>4 DEF Pull!MasterRestarts
  <2>4. puller' \in Pullers /\ puller'.batch \subseteq puller.batch
    BY <2>3 DEF Pullers, Pull!Waiting
  <2> QED
    BY <1>0, <2>2, <2>3, <2>4, LessTaken
<1>5. CASE Pull!Start
  <2>1. /\ items' = {} /\ disk' = disk /\ restarts' = restarts + 1
        /\ UNCHANGED <<ingested, accepted, puller, acks>>
    BY <1>0, <1>5 DEF Pull!Start, Pull!Load, TakenInv
  <2>2. TakenInv' /\ FirstLifeInv'
    BY <1>0, <2>1 DEF TakenInv, FirstLifeInv, MetadataOf
  <2> QED
    BY <1>0, <2>1, <2>2 DEF PullInv
<1>6. CASE Pull!PullBatch
  <2>1. PICK B \in SUBSET items :
               puller' = [puller EXCEPT !.pc = "got", !.batch = B,
                                        !.queued = Pull!Cardinality(items)]
    BY <1>6 DEF Pull!PullBatch
  <2>2. UNCHANGED <<items, nextID, disk, ingested, accepted, acks, restarts>>
    BY <1>6 DEF Pull!PullBatch
  <2>3. Pull!Cardinality(items) \in Nat
    BY <1>0, SameCardinality, FS_CardinalityType
  <2>4. puller' \in Pullers /\ puller'.batch = B
    BY <1>0, <2>1, <2>3 DEF TakenInv, Pullers
  <2>5. /\ MetadataOf(B) \subseteq accepted
        /\ Pull!IDsOf(B) \subseteq IDs
    <3>1. \A r \in items : r.id \in IDs
      BY <1>0, QueueAssumption DEF IDs
    <3> QED
      BY <1>0, <3>1 DEF TakenInv, MetadataOf, Pull!IDsOf
  <2>6. TakenInv'
    BY <1>0, <2>2, <2>4, <2>5 DEF TakenInv
  <2>7. FirstLifeInv'
    BY <1>0, <2>2, <2>4 DEF FirstLifeInv, IDsNameOnce, Acked
  <2> QED
    BY <1>0, <2>2, <2>6, <2>7 DEF PullInv
<1>7. CASE Pull!PullIngest
  <2>1. Pull!Ingest(puller.batch)
    BY <1>7 DEF Pull!PullIngest
  <2>2. ingested' = ingested \cup MetadataOf(puller.batch)
    BY <2>1 DEF Pull!Ingest, MetadataOf
  <2>3. /\ UNCHANGED <<items, nextID, disk, accepted, restarts>>
        /\ acks' = acks \cup {Pull!IDsOf(puller.batch)}
        /\ puller' = [puller EXCEPT !.pc = "acking"]
    BY <1>7 DEF Pull!PullIngest
  <2>4. puller' \in Pullers /\ puller'.batch = puller.batch
    BY <1>0, <2>3 DEF TakenInv, Pullers
  <2>5. TakenInv'
    BY <1>0, <2>3, <2>4 DEF TakenInv
  <2>6. FirstLifeInv'
    <3> SUFFICES ASSUME restarts = 0 PROVE IDsNameOnce'
      BY <2>3 DEF FirstLifeInv
    <3>1. IDsNameOnce
      BY <1>0 DEF FirstLifeInv
    <3>2. Acked(Pull!IDsOf(puller.batch)) \subseteq puller.batch
      BY <3>1 DEF IDsNameOnce, Acked, Pull!IDsOf
    <3>3. \A n \in Pull!IDsOf(puller.batch) : n <= nextID
      BY <3>1 DEF IDsNameOnce, Pull!IDsOf
    <3>4. \A ids \in acks' : MetadataOf(Acked(ids)) \subseteq ingested'
      BY <2>2, <2>3, <3>1, <3>2 DEF IDsNameOnce, MetadataOf
    <3>5. \A ids : Acked(ids)' = Acked(ids)
      BY <2>3 DEF Acked
    <3> QED
      BY <2>3, <2>4, <3>1, <3>3, <3>4, <3>5 DEF IDsNameOnce
  <2> QED
    BY <1>0, <2>2, <2>5, <2>6 DEF PullInv
<1> QED
  BY <1>1, <1>2, <1>3, <1>4, <1>5, <1>6, <1>7 DEF Pull!Next

\* The inductive invariant holds in every state of pull mode.
THEOREM PullInvHolds == Pull!Spec => []PullInv
<1>1. Pull!Init => PullInv
  <2> SUFFICES ASSUME Pull!Init PROVE PullInv
    OBVIOUS
  <2>1. QueueInit /\ MasterInit
    BY SameInit DEF Pull!Init
  <2>2. QueueInv
    BY <2>1, InitQueueInv
  <2>3. puller \in Pullers /\ puller.batch = {} /\ restarts = 0 /\ acks = {}
    BY DEF Pull!Init, Pull!Waiting, Pullers
  <2>4. TakenInv
    BY <2>1, <2>3, FS_EmptySet DEF QueueInit, TakenInv, MetadataOf, Pull!IDsOf
  <2>5. FirstLifeInv
    BY <2>3 DEF FirstLifeInv, IDsNameOnce
  <2> QED
    BY <2>2, <2>4, <2>5 DEF PullInv
<1>2. PullInv /\ [Pull!Next]_(Pull!vars) => PullInv'
  BY PullStep
<1> QED
  BY <1>1, <1>2, PTL DEF Pull!Spec

\* In pull mode too the queue is used through its operations only.
LEMMA PullUsesQueue == Pull!Spec => QueueSpec
<1>1. Pull!Init => QueueInit
  BY SameInit DEF Pull!Init
<1>2. PullInv /\ [Pull!Next]_(Pull!vars) => [QueueNext]_queueVars
  BY PullQueueStep
<1> QED
  BY <1>1, <1>2, PullInvHolds, PTL DEF Pull!Spec, QueueSpec

\* So a pull worker counts each record that leaves its queue once, over lost and
\* repeated acknowledgements and those of an earlier life.
THEOREM PullConservation == Pull!Spec => []Conservation
BY PullUsesQueue, ConservationCorrect, PTL

\* Up to the worker's first restart, a step of pull mode is a step of the
\* promise, or leaves it alone.
LEMMA PullPromiseStep ==
    ASSUME PullInv, Pull!Next, restarts' = 0
    PROVE  Promise!Next \/ UNCHANGED Promise!vars
<1>0. TakenInv /\ FirstLifeInv
  BY DEF PullInv
<1> USE DEF Pull!queueVars, Pull!pullVars
<1>1. ASSUME NEW md \in Metadata, Pull!Discover(md)
      PROVE  Promise!Accept(md)
  <2>1. Queued' = Queued \cup {md}
    BY <1>1, MetadataAdd DEF Pull!Discover, Pull!Enqueue, Queued, MetadataOf
  <2> QED
    BY <1>1, <2>1 DEF Pull!Discover, Promise!Accept
<1>2. ASSUME NEW ids \in acks, Pull!AckTaken(ids)
      PROVE  Promise!Next
  <2>1. /\ items' = items \ Acked(ids)
        /\ UNCHANGED <<accepted, ingested, restarts>>
    BY <1>2 DEF Pull!AckTaken, Pull!Ack, Pull!Acked, Acked
  <2>2. MetadataOf(Acked(ids)) \subseteq ingested
    BY <1>0, <2>1 DEF FirstLifeInv, IDsNameOnce
  <2> DEFINE S == Queued \ Queued'
  <2>3. Queued' \subseteq Queued /\ S \subseteq MetadataOf(Acked(ids))
    BY <2>1 DEF Queued, MetadataOf
  <2>4. Promise!Release(S)
    BY <2>1, <2>2, <2>3 DEF Promise!Release
  <2> QED
    BY <2>4 DEF Promise!Next
<1>3. CASE Pull!PullIngest \/ Pull!MasterRestarts
  <2>1. PICK C \in SUBSET puller.batch : ingested' = ingested \cup MetadataOf(C)
    BY <1>3 DEF Pull!PullIngest, Pull!MasterRestarts, Pull!Ingest, MetadataOf
  <2>2. MetadataOf(C) \in SUBSET accepted
    BY <1>0 DEF TakenInv, MetadataOf
  <2>3. UNCHANGED <<items, accepted, restarts>>
    BY <1>3 DEF Pull!PullIngest, Pull!MasterRestarts
  <2>4. Promise!Deliver(MetadataOf(C))
    BY <2>1, <2>3 DEF Promise!Deliver, Queued
  <2> QED
    BY <2>2, <2>4 DEF Promise!Next
<1>4. CASE Pull!Start
  BY <1>0, <1>4 DEF Pull!Start, TakenInv
<1>5. CASE \/ \E md \in Metadata : Pull!DiscoverRefused(md) \/ Pull!CacheExpires(md)
           \/ Pull!PullBatch \/ Pull!PullEmpty \/ Pull!PullFail \/ Pull!AckFail
           \/ \E ids \in acks : Pull!AckLost(ids)
           \/ \E c \in counting : Pull!AckAnswered(c) \/ Pull!AckUnheard(c)
  <2>1. UNCHANGED <<items, accepted, ingested, restarts>>
    BY <1>5 DEF Pull!DiscoverRefused, Pull!EnqueueRefused, Pull!CacheExpires,
                Pull!PullBatch, Pull!PullEmpty, Pull!PullFail, Pull!AckFail,
                Pull!AckLost, Pull!AckAnswered, Pull!AckUnheard, Pull!CountFlushed
  <2> QED
    BY <2>1 DEF Promise!vars, Queued
<1> QED
  BY <1>1, <1>2, <1>3, <1>4, <1>5 DEF Pull!Next, Promise!Next

\* Up to the worker's first restart pull mode implements the promise too, with
\* lost, late and unheard acknowledgements and a master that goes down over a
\* batch. (After a restart it does not: the IDs start over, and a late
\* acknowledgement names other records.)
THEOREM PullDelivers == Pull!Spec => OneLifeDelivery
<1>1. Pull!Init => Promise!Init
  BY DEF Pull!Init, Pull!QueueInit, Pull!MasterInit, Promise!Init, Queued
<1>2. PullInv /\ [Pull!Next]_(Pull!vars)
        => [restarts' = 0 => Promise!Next]_(Promise!vars)
  <2>1. UNCHANGED Pull!vars => UNCHANGED Promise!vars
    BY DEF Pull!vars, Pull!queueVars, Pull!pullVars,
           Promise!vars, Queued
  <2> QED
    BY <2>1, PullPromiseStep
<1> QED
  BY <1>1, <1>2, PullInvHolds, PTL DEF Pull!Spec, OneLifeDelivery

=============================================================================
