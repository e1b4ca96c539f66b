---------------------------- MODULE PullCluster ----------------------------
(***************************************************************************)
(* A worker in pull mode and the master that fetches from it               *)
(* (cluster/transport.go Handler, MasterPuller). The worker's queue lives  *)
(* in memory only: a restart empties it and starts the IDs over.           *)
(*                                                                         *)
(* The master asks for a batch, ingests it, acknowledges the IDs and, if   *)
(* more was queued, asks again at once, up to eight times per round. Each  *)
(* request may fail. The master gives up on an acknowledgement after 15    *)
(* seconds; the worker may still receive it later. Either side may go down *)
(* and come back at any point.                                             *)
(***************************************************************************)
EXTENDS Cluster

CONSTANT MaxBatchesPerPull   \* maxBatchesPerPull: 8 in the code

ASSUME PullAssumption == MaxBatchesPerPull \in Nat \ {0}

VARIABLES
    puller,      \* [pc, batch, queued, n]: where MasterPuller.Run is
    acks,        \* acknowledgements on their way to the worker
    status       \* [queued, failed]: what the master shows for the worker

pullVars == <<puller, acks, status, seen, accepted, restarts>>
vars == <<queueVars, ingested, pullVars>>

Waiting == [pc |-> "waiting", batch |-> {}, queued |-> 0, n |-> 0]
NoStatus == [queued |-> 0, failed |-> FALSE]

Init ==
    /\ QueueInit
    /\ MasterInit
    /\ puller = Waiting
    /\ acks = {}
    /\ status = NoStatus
    /\ seen = {}
    /\ accepted = {}
    /\ restarts = 0

\* A bug: the places of the records in the batch instead of their IDs.
PlacesOf(B) == 1 .. Cardinality(B)

\* The IDs that pullBatch acknowledges for a batch.
IDsOf(B) == {r.id : r \in B}

-----------------------------------------------------------------------------
(***************************************************************************)
(* The worker's crawl loop and its process                                 *)
(***************************************************************************)

Discover(md) ==
    /\ md \notin seen
    /\ Enqueue(md)
    /\ seen' = seen \cup {md}
    /\ accepted' = accepted \cup {md}
    /\ UNCHANGED <<ingested, puller, acks, status, restarts>>

DiscoverRefused(md) ==
    /\ md \notin seen
    /\ EnqueueRefused
    /\ UNCHANGED <<ingested, pullVars>>

\* The cache entry of an acknowledged record runs out after twelve hours.
CacheExpires(md) ==
    /\ md \in seen
    /\ Acknowledged(md)
    /\ seen' = seen \ {md}
    /\ UNCHANGED <<queueVars, ingested, puller, acks, status, accepted, restarts>>

\* The worker dies, or is stopped, and starts again. A request that it was
\* answering fails.
Start ==
    /\ restarts < MaxRestarts
    /\ Load
    /\ seen' = {}
    /\ restarts' = restarts + 1
    /\ UNCHANGED <<ingested, puller, acks, status, accepted>>

-----------------------------------------------------------------------------
(***************************************************************************)
(* MasterPuller                                                            *)
(***************************************************************************)

\* recordSuccess: the number still queued is what the batch said, less what
\* was taken.
RecordSuccess(queued, pulled) ==
    status' = [queued |-> IF queued > pulled THEN queued - pulled ELSE 0,
               failed |-> FALSE]

RecordFailure == status' = [status EXCEPT !.failed = TRUE]

\* GET: the worker's Handler answers with Batch(maxBatch).
PullBatch ==
    /\ puller.pc \in {"waiting", "more"}
    /\ \E B \in SUBSET items :
         /\ B # {}
         /\ IsBatch(B, BatchSize)
         /\ puller' = [puller EXCEPT !.pc = "got", !.batch = B,
                                     !.queued = Cardinality(items)]
    /\ UNCHANGED <<queueVars, ingested, acks, status, seen, accepted, restarts>>

PullEmpty ==
    /\ puller.pc \in {"waiting", "more"}
    /\ items = {}
    /\ RecordSuccess(0, 0)
    /\ puller' = Waiting
    /\ UNCHANGED <<queueVars, ingested, acks, seen, accepted, restarts>>

\* An error of the GET ends the round.
PullFail ==
    /\ puller.pc \in {"waiting", "more"}
    /\ RecordFailure
    /\ puller' = Waiting
    /\ UNCHANGED <<queueVars, ingested, acks, seen, accepted, restarts>>

\* A bug: the acknowledgement goes out before the records are ingested.
PullIngestLate ==
    /\ puller.pc = "got"
    /\ UNCHANGED ingested
    /\ acks' = acks \cup {IDsOf(puller.batch)}
    /\ puller' = [puller EXCEPT !.pc = "acking"]
    /\ UNCHANGED <<queueVars, status, seen, accepted, restarts>>

\* ingest for each record, then the acknowledgement of all of them is sent.
PullIngest ==
    /\ puller.pc = "got"
    /\ Ingest(puller.batch)
    /\ acks' = acks \cup {IDsOf(puller.batch)}
    /\ puller' = [puller EXCEPT !.pc = "acking"]
    /\ UNCHANGED <<queueVars, status, seen, accepted, restarts>>

\* The master goes down after the first records of the batch, and comes back.
MasterRestarts ==
    /\ puller.pc = "got"
    /\ \E C \in SUBSET puller.batch :
         /\ \A r \in C, s \in puller.batch \ C : r.id < s.id
         /\ Ingest(C)
    /\ puller' = Waiting
    /\ status' = NoStatus
    /\ UNCHANGED <<queueVars, acks, seen, accepted, restarts>>

\* The worker's Handler takes an acknowledgement, early or late, and runs Ack.
AckTaken(ids) ==
    /\ Ack(ids)
    /\ acks' = acks \ {ids}
    /\ UNCHANGED <<ingested, puller, status, seen, accepted, restarts>>

\* Ack ends and the Handler's answer reaches the master, which goes for the next
\* batch if more was queued when this one was cut.
AckAnswered(c) ==
    /\ puller.pc = "acking"
    /\ c.ids = IDsOf(puller.batch)
    /\ CountFlushed(c)
    /\ RecordSuccess(puller.queued, Cardinality(puller.batch))
    /\ puller' =
         IF /\ puller.queued > Cardinality(puller.batch)
            /\ puller.n + 1 < MaxBatchesPerPull
         THEN [Waiting EXCEPT !.pc = "more", !.n = puller.n + 1]
         ELSE Waiting
    /\ UNCHANGED <<ingested, acks, seen, accepted, restarts>>

\* Ack ends, but nobody hears of it.
AckUnheard(c) ==
    /\ CountFlushed(c)
    /\ UNCHANGED <<ingested, puller, acks, status, seen, accepted, restarts>>

AckLost(ids) ==
    /\ acks' = acks \ {ids}
    /\ UNCHANGED <<queueVars, ingested, puller, status, seen, accepted, restarts>>

\* The master's client gives up.
AckFail ==
    /\ puller.pc = "acking"
    /\ RecordFailure
    /\ puller' = Waiting
    /\ UNCHANGED <<queueVars, ingested, acks, seen, accepted, restarts>>

Next ==
    \/ \E md \in Metadata : Discover(md)
    \/ \E md \in Metadata : DiscoverRefused(md)
    \/ \E md \in Metadata : CacheExpires(md)
    \/ Start
    \/ PullBatch
    \/ PullEmpty
    \/ PullFail
    \/ PullIngest
    \/ MasterRestarts
    \/ \E ids \in acks : AckTaken(ids)
    \/ \E c \in counting : AckAnswered(c)
    \/ \E c \in counting : AckUnheard(c)
    \/ \E ids \in acks : AckLost(ids)
    \/ AckFail

Spec == Init /\ [][Next]_vars

\* The master asks every five seconds, and what is tried again and again gets
\* through in the end: a request that may fail, a batch that the master may go
\* down over.
Fairness ==
    /\ SF_vars(PullBatch)
    /\ SF_vars(PullIngest)
    /\ WF_vars(AckFail \/ \E c \in counting : AckAnswered(c))
    /\ SF_vars(\E ids \in acks : AckTaken(ids))

FairSpec == Spec /\ Fairness

-----------------------------------------------------------------------------
(***************************************************************************)
(* Properties                                                              *)
(***************************************************************************)

\* A queued record leaves the queue in the end, although any number of requests
\* may fail: the first batch is the oldest, so nothing is passed over for ever.
QueuedIsReleased ==
    \A md \in Metadata : md \in Queued ~> md \notin Queued

=============================================================================
