---------------------------- MODULE PushCluster ----------------------------
(***************************************************************************)
(* A worker in push mode and its master (cmd/dhtc/main.go runWorker;       *)
(* cluster/transport.go StartFlushLoop, Flush, NewMasterFlushHandler).     *)
(*                                                                         *)
(* The flush goroutine does one thing at a time: it posts the oldest       *)
(* records to the master and waits for the answer, or it saves a snapshot. *)
(* The crawl loop enqueues meanwhile. A request may be lost, handled after *)
(* the worker gave up on it, or handled without the answer getting back.   *)
(* SIGTERM cancels the context: the flush goroutine saves once more and    *)
(* ends, while the crawl loop is asked to stop without being waited for.   *)
(***************************************************************************)
EXTENDS Cluster

VARIABLES
    worker,        \* "up", "stopping" (context cancelled) or "exited"
    flusher,       \* [pc, batch]: where the flush goroutine is
    wire           \* requests on their way to the master

pushVars == <<worker, flusher, wire, seen, accepted, restarts>>
vars == <<queueVars, ingested, pushVars>>

Selecting == [pc |-> "select", batch |-> {}]

Init ==
    /\ QueueInit
    /\ MasterInit
    /\ worker = "up"
    /\ flusher = Selecting
    /\ wire = {}
    /\ seen = {}
    /\ accepted = {}
    /\ restarts = 0

-----------------------------------------------------------------------------
(***************************************************************************)
(* The crawl loop. It adds an infohash to the cache before the download,   *)
(* and takes it out again if the queue refuses the record.                 *)
(***************************************************************************)

Discover(md) ==
    /\ worker # "exited"
    /\ md \notin seen
    /\ Enqueue(md)
    /\ seen' = seen \cup {md}
    /\ accepted' = accepted \cup {md}
    /\ UNCHANGED <<ingested, worker, flusher, wire, restarts>>

DiscoverRefused(md) ==
    /\ worker # "exited"
    /\ md \notin seen
    /\ EnqueueRefused
    /\ UNCHANGED <<ingested, pushVars>>

\* The cache entry of an acknowledged record runs out after twelve hours.
CacheExpires(md) ==
    /\ md \in seen
    /\ Acknowledged(md)
    /\ seen' = seen \ {md}
    /\ UNCHANGED <<queueVars, ingested, worker, flusher, wire, accepted,
                   restarts>>

-----------------------------------------------------------------------------
(***************************************************************************)
(* The flush goroutine                                                     *)
(***************************************************************************)

\* The ticker, the wake-up or the loop of drainFlush starts a Flush.
FlushSend ==
    /\ worker = "up"
    /\ flusher.pc \in {"select", "drain"}
    /\ saver.pc = "idle"
    /\ items # {}
    /\ \E B \in SUBSET items :
         /\ IsBatch(B, BatchSize)
         /\ wire' = wire \cup {B}
         /\ flusher' = [pc |-> "posted", batch |-> B]
    /\ UNCHANGED <<queueVars, ingested, worker, seen, accepted, restarts>>

\* Any error of the request, a cancelled context included, ends drainFlush.
FlushFail ==
    /\ \/ flusher.pc = "posted"
       \/ flusher.pc = "drain" /\ worker = "stopping"
    /\ flusher' = Selecting
    /\ UNCHANGED <<queueVars, ingested, worker, wire, seen, accepted, restarts>>

\* A tick with an empty queue: drainFlush returns at once.
FlushIdle ==
    /\ worker = "up"
    /\ flusher.pc = "select"
    /\ items = {}
    /\ UNCHANGED vars

BatchIDs == {r.id : r \in flusher.batch}

\* A bug: everything in the queue is taken to be acknowledged.
AckEverything == Ack({r.id : r \in items})

\* A bug: the answer is read and its IDs are forgotten.
AckNothing == Ack({})

AckAnswer == Ack(BatchIDs)

\* The answer arrived: Ack takes the batch out of the queue.
FlushAcked ==
    /\ flusher.pc = "answered"
    /\ AckAnswer
    /\ flusher' = [pc |-> "acked", batch |-> {}]
    /\ UNCHANGED <<ingested, worker, wire, seen, accepted, restarts>>

\* The rest of Ack, and once more round the loop of drainFlush.
FlushCounted ==
    /\ flusher.pc = "acked"
    /\ \E c \in counting : CountFlushed(c)
    /\ flusher' = IF items # {} THEN [pc |-> "drain", batch |-> {}]
                  ELSE Selecting
    /\ UNCHANGED <<ingested, worker, wire, seen, accepted, restarts>>

\* The cache ticker: saveToCache from the loop, one step at a time.
Save ==
    /\ \/ flusher.pc = "select" /\ worker # "exited" /\ SaveSwap
       \/ SaveCopy
       \/ SaveRename
       \/ SaveFail
    /\ worker # "exited"
    /\ UNCHANGED <<ingested, pushVars>>

\* The cancelled context is noticed: the last saveToCache begins, if there is
\* something to save.
FlushLoopStop ==
    /\ worker = "stopping"
    /\ flusher.pc = "select"
    /\ saver.pc = "idle"
    /\ flusher' = [pc |-> "last", batch |-> {}]
    /\ IF Persistent /\ cacheDirty THEN SaveSwap ELSE UNCHANGED queueVars
    /\ UNCHANGED <<ingested, worker, wire, seen, accepted, restarts>>

FlushLoopEnd ==
    /\ flusher.pc = "last"
    /\ saver.pc = "idle"
    /\ flusher' = [pc |-> "done", batch |-> {}]
    /\ UNCHANGED <<queueVars, ingested, worker, wire, seen, accepted, restarts>>

-----------------------------------------------------------------------------
(***************************************************************************)
(* The master's flush handler and the network                              *)
(***************************************************************************)

Answered(B) == flusher.pc = "posted" /\ flusher.batch = B

\* The handler runs to its end and its answer gets back to the worker.
MasterAnswers(B) ==
    /\ Answered(B)
    /\ Ingest(B)
    /\ wire' = wire \ {B}
    /\ flusher' = [flusher EXCEPT !.pc = "answered"]
    /\ UNCHANGED <<queueVars, worker, seen, accepted, restarts>>

\* The handler's answer is lost, nobody waits for it any more, or the master
\* goes down after the first records of the batch.
MasterUnheard(B) ==
    /\ \E C \in SUBSET B :
         /\ \A r \in C, s \in B \ C : r.id < s.id
         /\ Ingest(C)
    /\ wire' = wire \ {B}
    /\ UNCHANGED <<queueVars, worker, flusher, seen, accepted, restarts>>

-----------------------------------------------------------------------------
(***************************************************************************)
(* The process                                                             *)
(***************************************************************************)

\* SIGTERM, or the health server failed.
Stop ==
    /\ worker = "up"
    /\ restarts < MaxRestarts
    /\ worker' = "stopping"
    /\ UNCHANGED <<queueVars, ingested, flusher, wire, seen, accepted, restarts>>

\* StopFlushLoop has returned and main ends.
Exit ==
    /\ worker = "stopping"
    /\ flusher.pc = "done"
    /\ worker' = "exited"
    /\ UNCHANGED <<queueVars, ingested, flusher, wire, seen, accepted, restarts>>

\* The process starts again, after an exit or a kill.
Start ==
    /\ restarts < MaxRestarts
    /\ Load \/ LoadFail
    /\ worker' = "up"
    /\ flusher' = Selecting
    /\ seen' = {}
    /\ restarts' = restarts + 1
    /\ UNCHANGED <<ingested, wire, accepted>>

Next ==
    \/ \E md \in Metadata : Discover(md)
    \/ \E md \in Metadata : DiscoverRefused(md)
    \/ \E md \in Metadata : CacheExpires(md)
    \/ FlushSend
    \/ FlushFail
    \/ FlushIdle
    \/ FlushAcked
    \/ FlushCounted
    \/ Save
    \/ FlushLoopStop
    \/ FlushLoopEnd
    \/ \E B \in wire : MasterAnswers(B)
    \/ \E B \in wire : MasterUnheard(B)
    \/ Stop
    \/ Exit
    \/ Start

Spec == Init /\ [][Next]_vars

\* The flush ticker keeps firing, and Go's select chooses at random among the
\* cases that are ready, so saves that keep failing cannot shut the flush out;
\* a worker that keeps trying gets an answer in the end, although failures may
\* come in between. Hence strong fairness for the two. A request whose answer
\* is lost ends in an error: the client has no timeout of its own, so this
\* leans on TCP noticing the broken connection.
Fairness ==
    /\ SF_vars(FlushSend)
    /\ WF_vars(FlushFail)
    /\ WF_vars(FlushAcked)
    /\ WF_vars(FlushCounted)
    /\ WF_vars(Save)
    /\ SF_vars(\E B \in wire : MasterAnswers(B))

FairSpec == Spec /\ Fairness

-----------------------------------------------------------------------------
(***************************************************************************)
(* Properties                                                              *)
(***************************************************************************)

\* A queued record reaches the master and leaves the queue, unless the worker is
\* stopped or killed, although any number of requests may fail.
QueuedReachesMaster ==
    \A md \in Metadata :
        md \in Queued ~> \/ md \in ingested /\ md \notin Queued
                         \/ worker # "up"
                         \/ restarts > 0

\* README.md: push mode persists the records that are not yet acknowledged.
\* After an orderly stop the cache file holds the whole queue.
StopKeepsQueue == worker = "exited" => items \subseteq disk

=============================================================================
