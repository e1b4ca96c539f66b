------------------------------ MODULE Cluster ------------------------------
(***************************************************************************)
(* What push mode and pull mode have in common: a worker with its queue    *)
(* and its infohash cache, a master that ingests, and the promise of the   *)
(* two. PushCluster and PullCluster say how the records get across.        *)
(***************************************************************************)
EXTENDS WorkerQueue, MasterIngest

CONSTANTS
    BatchSize,     \* q.flushBatch, or maxBatch of the worker's Handler
    MaxRestarts    \* bound of the model: times the worker starts again

ASSUME ClusterAssumption == BatchSize \in Nat \ {0} /\ MaxRestarts \in Nat

VARIABLES
    seen,          \* the worker's infohash cache
    accepted,      \* everything Enqueue ever took (history)
    restarts       \* times the worker started again

\* What the worker holds for the master.
Queued == {r.md : r \in items}

\* The cache entry of a record runs out only after onAck has set its twelve hours.
Acknowledged(md) ==
    /\ md \in ingested
    /\ \A r \in items \cup Uncounted : r.md # md

Promise == INSTANCE Delivery
           WITH held <- Queued, delivered <- ingested, epoch <- restarts

\* README.md: the worker deletes a record only after the master confirmed it, over
\* lost and late requests, lost answers and a master that goes down. A crash of the
\* worker may lose records or bring back some it had let go; what it holds after
\* that was accepted once, and is again let go only after it was ingested.
AtLeastOnce == Promise!Spec

\* The same up to the first restart of the worker, with lost, late and unheard
\* acknowledgements and a master that goes down over a batch.
OneLifeDelivery ==
    /\ Promise!Init
    /\ [][restarts' = 0 => Promise!Next]_(Promise!vars)

=============================================================================
