-------------------------------- MODULE Sink --------------------------------
(***************************************************************************)
(* One run of the crawler: the crawl loop (ui/crawler.go, crawl), the Sink *)
(* that downloads metadata (dhtc-client/sink.go) and the global infohash   *)
(* cache that keeps them from doing the same work twice (cache/cache.go).  *)
(*                                                                         *)
(* Every peer that is tried has a goroutine of its own, which may start    *)
(* the goroutine for the next peer of its infohash. The goroutines of an   *)
(* infohash are counted by phase, and so are the peers still to be tried:  *)
(* which ones they are does not matter here.                               *)
(*                                                                         *)
(*   spawned   in download, before the check of terminated                 *)
(*   waiting   past it, waiting for a token of downloadSem                 *)
(*   leeching  in Client.Do                                                *)
(*   failing   in onLeechError, past the check of terminated               *)
(*   flushing  in flush, waiting for drainMx                               *)
(*   sending   in flush, holding drainMx, at `ms.drain <- result`          *)
(*                                                                         *)
(* A worker has no database: its records go to the WorkerQueue, which      *)
(* calls back when a record is acknowledged (cmd/dhtc/main.go, onAck).     *)
(***************************************************************************)
EXTENDS Integers, Sequences, FiniteSets

CONSTANTS
    InfoHash,        \* the infohashes that the DHT reports
    MaxLeeches,      \* maxNLeeches
    MaxConcurrent,   \* capacity of downloadSem
    DrainCap,        \* capacity of the drain channel: 10 in the code
    MaxExpiring,     \* maxExpiringInfoHashes
    WorkerMode,      \* is there no database?
    MayStop,         \* does the environment stop the crawler?
    MaxPeers,        \* bound of the model: peers reported at once
    MaxResults,      \* bound of the model: results with a new infohash
    MaxWaiting       \* bound of the model: peers waiting when more are named

ASSUME SinkAssumption ==
    /\ MaxLeeches \in Nat /\ MaxConcurrent \in Nat \ {0}
    /\ DrainCap \in Nat \ {0} /\ MaxExpiring \in Nat \ {0}
    /\ WorkerMode \in BOOLEAN /\ MayStop \in BOOLEAN
    /\ MaxPeers \in Nat /\ MaxResults \in Nat /\ MaxWaiting \in Nat

VARIABLES
    terminated,   \* ms.terminated, and the two channels closed with it
    incoming,     \* ms.incomingInfoHashes: infohash -> peers left to try
    goroutines,   \* infohash -> phase -> number of download goroutines
    sem,          \* tokens taken from downloadSem
    drainMx,      \* is ms.drainMx held by a flush that waits to send?
    drain,        \* the drain channel
    cache,        \* infoHashCache
    expiring,     \* the keys of infoHashExpiry
    expired,      \* those of them whose time has come
    decided,      \* infohashes whose metadata the database has seen
    queued,       \* infohash -> its unacknowledged records in the WorkerQueue
    crawl,        \* where the crawl loop is
    stop,         \* is the stop channel closed?
    results       \* results reported so far that the cache let through

sinkVars == <<terminated, incoming, goroutines, sem, drainMx, drain>>
cacheVars == <<cache, expiring, expired>>
recordVars == <<decided, queued>>
loopVars == <<crawl, stop>>
vars == <<sinkVars, cacheVars, recordVars, loopVars, results>>

Phases == {"spawned", "waiting", "leeching", "failing", "flushing", "sending"}
CrawlStates == {"select", "terminating", "stopping", "ended"}

\* A worker in push mode may find records of its last life in its queue.
Init ==
    /\ terminated = FALSE
    /\ incoming = [h \in {} |-> 0]
    /\ goroutines = [h \in InfoHash |-> [p \in Phases |-> 0]]
    /\ sem = 0
    /\ drainMx = FALSE
    /\ drain = <<>>
    /\ cache = {} /\ expiring = {} /\ expired = {}
    /\ decided = {}
    /\ queued \in [InfoHash -> IF WorkerMode THEN {0, 1} ELSE {0}]
    /\ crawl = "select"
    /\ stop = FALSE
    /\ results = 0

-----------------------------------------------------------------------------
Tracked == DOMAIN incoming

\* The map without the key h.
Forget(h) == [g \in Tracked \ {h} |-> incoming[g]]

\* A goroutine of h goes from phase p to phase q, or ends.
Move(h, p, q) ==
    /\ goroutines[h][p] > 0
    /\ goroutines' = [goroutines EXCEPT ![h][p] = @ - 1, ![h][q] = @ + 1]

Leave(h, p) ==
    /\ goroutines[h][p] > 0
    /\ goroutines' = [goroutines EXCEPT ![h][p] = @ - 1]

-----------------------------------------------------------------------------
(***************************************************************************)
(* The infohash cache                                                      *)
(***************************************************************************)

\* InfoHashCacheAdd returns true: h is not there, or its time has come.
CanAdd(h) == h \notin cache \/ h \in expired

\* What an Add leaves of the expiry times: the expired one of h goes away.
AddKeeps(S, h) == IF h \in expired THEN S \ {h} ELSE S

CacheRemove(h) ==
    /\ cache' = cache \ {h}
    /\ expiring' = expiring \ {h}
    /\ expired' = expired \ {h}

\* The 12 hours of an acknowledged infohash are over.
Expire(h) ==
    /\ h \in expiring \ expired
    /\ expired' = expired \cup {h}
    /\ UNCHANGED <<sinkVars, cache, expiring, recordVars, loopVars, results>>

\* The infohashes that InfoHashCacheExpireAfter throws out to make room: all
\* that have expired and, if that is not enough, any one of the others.
Evictions ==
    IF Cardinality(expiring) < MaxExpiring THEN {{}}
    ELSE IF Cardinality(expiring \ expired) < MaxExpiring THEN {expired}
    ELSE {expired \cup {g} : g \in expiring \ expired}

Evict(h, out) ==
    /\ cache' = cache \ out
    /\ expiring' = (expiring \ out) \cup {h}
    /\ expired' = (expired \ out) \ {h}

\* onAck, with InfoHashCacheExpireAfter, for a record that left the queue.
OnAck(h) ==
    /\ queued[h] > 0
    /\ queued' = [queued EXCEPT ![h] = @ - 1]
    /\ IF h \in cache
       THEN \E out \in Evictions : Evict(h, out)
       ELSE UNCHANGED cacheVars
    /\ UNCHANGED <<sinkVars, decided, loopVars, results>>

-----------------------------------------------------------------------------
(***************************************************************************)
(* The crawl loop                                                          *)
(***************************************************************************)

\* A result whose infohash the cache does not know.
Report(h) ==
    /\ crawl = "select"
    /\ CanAdd(h)
    /\ results < MaxResults
    /\ results' = results + 1

\* Sink accepts a result with n valid peers.
SinkAccepts(h, n) ==
    /\ ~terminated
    /\ Cardinality(Tracked) < MaxLeeches
    /\ h \notin Tracked
    /\ n > 0

\* The cache does not know the infohash: Sink starts to download it from the
\* first peer ...
NewResult(h, n) ==
    /\ Report(h)
    /\ SinkAccepts(h, n)
    /\ cache' = cache \cup {h}
    /\ expiring' = AddKeeps(expiring, h)
    /\ expired' = AddKeeps(expired, h)
    /\ incoming' = [g \in Tracked \cup {h} |->
                       IF g = h THEN n - 1 ELSE incoming[g]]
    /\ goroutines' = [goroutines EXCEPT ![h]["spawned"] = @ + 1]
    /\ UNCHANGED <<terminated, sem, drainMx, drain, recordVars, loopVars>>

\* ... or refuses it, and the infohash leaves the cache again.
RefusedResult(h, n) ==
    /\ Report(h)
    /\ ~SinkAccepts(h, n)
    /\ CacheRemove(h)
    /\ UNCHANGED <<sinkVars, recordVars, loopVars>>

\* The model's bound on the peers that wait: the code has none.
Room(h, n) == h \in Tracked => incoming[h] + n <= MaxWaiting

\* The cache knows the infohash: AddPeers appends the n peers of the result
\* that are not waiting already, if it is being downloaded. A peer that was
\* tried is not waiting any more, so that it may be appended again.
KnownResult(h, n) ==
    /\ crawl = "select"
    /\ ~CanAdd(h)
    /\ Room(h, n)
    /\ incoming' = IF h \in Tracked /\ ~terminated
                   THEN [incoming EXCEPT ![h] = @ + n] ELSE incoming
    /\ UNCHANGED <<terminated, goroutines, sem, drainMx, drain, cacheVars,
                   recordVars, loopVars, results>>

\* A bug: the worker keeps the infohash of a record that its queue dropped.
DroppedKept(h) == UNCHANGED cacheVars

\* onMetadata refused the record of h: a worker forgets the infohash.
Dropped(h) ==
    IF WorkerMode THEN CacheRemove(h) ELSE UNCHANGED cacheVars

\* The loop takes a record from the drain and gives it to onMetadata, which is
\* IngestMetadata or, in a worker, Enqueue.
Drained(accepted) ==
    LET h == Head(drain)
    IN  /\ crawl = "select"
        /\ drain # <<>>
        /\ drain' = Tail(drain)
        /\ decided' = IF WorkerMode THEN decided ELSE decided \cup {h}
        /\ queued' = IF WorkerMode /\ accepted
                     THEN [queued EXCEPT ![h] = @ + 1] ELSE queued
        /\ IF accepted THEN UNCHANGED cacheVars ELSE Dropped(h)
        /\ UNCHANGED <<terminated, incoming, goroutines, sem, drainMx, loopVars,
                       results>>

\* The manager closes the stop channel of this run.
CloseStop ==
    /\ MayStop /\ ~stop
    /\ stop' = TRUE
    /\ UNCHANGED <<sinkVars, cacheVars, recordVars, crawl, results>>

\* The loop sees it and runs its deferred calls.
CrawlReturns ==
    /\ crawl = "select" /\ stop
    /\ crawl' = "terminating"
    /\ UNCHANGED <<sinkVars, cacheVars, recordVars, stop, results>>

\* A bug: Sink.Terminate does not take drainMx.
TerminateUnlocked == TRUE

\* Sink.Terminate takes drainMx.
TerminateLock == ~drainMx

\* Sink.Terminate
Terminate ==
    /\ crawl = "terminating"
    /\ TerminateLock
    /\ terminated' = TRUE
    /\ crawl' = "stopping"
    /\ UNCHANGED <<incoming, goroutines, sem, drainMx, drain, cacheVars,
                   recordVars, stop, results>>

\* Manager.Terminate, and the end of the loop's goroutine.
TerminateManager ==
    /\ crawl = "stopping"
    /\ crawl' = "ended"
    /\ UNCHANGED <<sinkVars, cacheVars, recordVars, stop, results>>

-----------------------------------------------------------------------------
(***************************************************************************)
(* The download goroutines                                                 *)
(***************************************************************************)
Download(h) ==
    /\ IF terminated THEN Leave(h, "spawned") ELSE Move(h, "spawned", "waiting")
    /\ UNCHANGED <<terminated, incoming, sem, drainMx, drain, cacheVars,
                   recordVars, loopVars, results>>

AcquireSem(h) ==
    /\ sem < MaxConcurrent
    /\ sem' = sem + 1
    /\ Move(h, "waiting", "leeching")
    /\ UNCHANGED <<terminated, incoming, drainMx, drain, cacheVars, recordVars,
                   loopVars, results>>

\* A peer exchange message of n peers, tried or waiting already or not: two
\* peers may name each other again and again.
OnPeers(h, n) ==
    /\ goroutines[h]["leeching"] > 0
    /\ Room(h, n)
    /\ incoming' = IF h \in Tracked THEN [incoming EXCEPT ![h] = @ + n]
                   ELSE incoming
    /\ UNCHANGED <<terminated, goroutines, sem, drainMx, drain, cacheVars,
                   recordVars, loopVars, results>>

\* Client.Do reports the metadata, or an error, before its deadline.
LeechSucceeds(h) ==
    /\ Move(h, "leeching", "flushing")
    /\ UNCHANGED <<terminated, incoming, sem, drainMx, drain, cacheVars,
                   recordVars, loopVars, results>>

\* A bug: the early return of onLeechError keeps the token.
TokenLost == sem

\* onLeechError returns at once, and download with it, if the sink is
\* terminated; otherwise the goroutine goes on with its token.
TokenAfterFailure == IF terminated THEN sem - 1 ELSE sem

LeechFails(h) ==
    /\ IF terminated
       THEN Leave(h, "leeching") ELSE Move(h, "leeching", "failing")
    /\ sem' = TokenAfterFailure
    /\ UNCHANGED <<terminated, incoming, drainMx, drain, cacheVars, recordVars,
                   loopVars, results>>

\* Some peer of h has not been tried; an absent key counts none.
PeersLeft(h) == h \in Tracked /\ incoming[h] > 0

\* A bug: the infohash leaves the cache and stays in the map.
DiscardCacheOnly(h) == CacheRemove(h) /\ UNCHANGED incoming

\* The last peer failed: the infohash leaves the map and, by onDiscard, the
\* cache.
Discard(h) == CacheRemove(h) /\ incoming' = Forget(h)

\* The rest of onLeechError and the release of the token: the next peer has
\* its turn, or the infohash is discarded.
LeechError(h) ==
    /\ sem' = sem - 1
    /\ IF PeersLeft(h)
       THEN /\ Move(h, "failing", "spawned")
            /\ incoming' = [incoming EXCEPT ![h] = @ - 1]
            /\ UNCHANGED cacheVars
       ELSE /\ Leave(h, "failing")
            /\ Discard(h)
    /\ UNCHANGED <<terminated, drainMx, drain, recordVars, loopVars, results>>

\* flush takes drainMx and forgets the infohash, or finds the sink terminated.
Flush(h) ==
    /\ ~drainMx
    /\ IF terminated
       THEN /\ Leave(h, "flushing")
            /\ sem' = sem - 1
            /\ UNCHANGED <<incoming, drainMx>>
       ELSE /\ Move(h, "flushing", "sending")
            /\ incoming' = Forget(h)
            /\ drainMx' = TRUE
            /\ UNCHANGED sem
    /\ UNCHANGED <<terminated, drain, cacheVars, recordVars, loopVars, results>>

\* `ms.drain <- result` goes through; the mutex and the token are given back.
Send(h) ==
    /\ Len(drain) < DrainCap
    /\ drain' = Append(drain, h)
    /\ Leave(h, "sending")
    /\ drainMx' = FALSE
    /\ sem' = sem - 1
    /\ UNCHANGED <<terminated, incoming, cacheVars, recordVars, loopVars, results>>

-----------------------------------------------------------------------------
Next ==
    \/ \E h \in InfoHash, n \in 0 .. MaxPeers :
          NewResult(h, n) \/ RefusedResult(h, n) \/ KnownResult(h, n)
    \/ \E accepted \in BOOLEAN : Drained(accepted)
    \/ CloseStop
    \/ CrawlReturns
    \/ Terminate
    \/ TerminateManager
    \/ \E h \in InfoHash :
          \/ Expire(h)
          \/ OnAck(h)
          \/ Download(h)
          \/ AcquireSem(h)
          \/ LeechSucceeds(h)
          \/ LeechFails(h)
          \/ LeechError(h)
          \/ Flush(h)
          \/ Send(h)
    \/ \E h \in InfoHash, n \in 1 .. MaxPeers : OnPeers(h, n)

Spec == Init /\ [][Next]_vars

\* A goroutine that can go on does. Client.Do has a deadline. The channel of
\* tokens serves its senders in turn, and a Go mutex does too once a waiter has
\* starved for a millisecond. The select of the loop chooses at random among
\* its ready cases.
Fairness ==
    /\ \A h \in InfoHash :
          /\ WF_vars(Download(h))
          /\ SF_vars(AcquireSem(h))
          /\ WF_vars(LeechSucceeds(h) \/ LeechFails(h))
          /\ WF_vars(LeechError(h))
          /\ SF_vars(Flush(h))
          /\ WF_vars(Send(h))
    /\ WF_vars(\E accepted \in BOOLEAN : Drained(accepted))
    /\ WF_vars(CrawlReturns)
    /\ SF_vars(Terminate)
    /\ WF_vars(TerminateManager)

FairSpec == Spec /\ Fairness

-----------------------------------------------------------------------------
(***************************************************************************)
(* Properties                                                              *)
(***************************************************************************)

\* The map has infohashes as keys and counts as values.
IncomingOK == Tracked \subseteq InfoHash /\ incoming \in [Tracked -> Nat]

\* The type of every variable.
TypeOK ==
    /\ terminated \in BOOLEAN
    /\ IncomingOK
    /\ goroutines \in [InfoHash -> [Phases -> Nat]]
    /\ sem \in Int
    /\ drainMx \in BOOLEAN
    /\ drain \in Seq(InfoHash)
    /\ cache \subseteq InfoHash
    /\ expiring \subseteq InfoHash /\ expired \subseteq expiring
    /\ decided \subseteq InfoHash
    /\ queued \in [InfoHash -> Nat]
    /\ crawl \in CrawlStates
    /\ stop \in BOOLEAN
    /\ results \in Nat

\* The goroutines of h that have not yet given up its entry of the map.
Downloads(h) ==
    goroutines[h]["spawned"] + goroutines[h]["waiting"]
        + goroutines[h]["leeching"] + goroutines[h]["failing"]
        + goroutines[h]["flushing"]

\* While the sink works, an infohash of the map has exactly one goroutine that
\* will take it out again or hand it on, and an infohash that is not in the map
\* has none: no slot of maxNLeeches is lost and no infohash is fetched twice.
OneDownloadPerHash ==
    ~terminated =>
        \A h \in InfoHash : Downloads(h) = IF h \in Tracked THEN 1 ELSE 0

\* Nobody is at `ms.drain <- result` once the channel is closed, which would
\* panic; and the one that is there holds the mutex.
NoSendOnClosed ==
    \A h \in InfoHash :
        goroutines[h]["sending"] > 0 => drainMx /\ ~terminated

\* The metadata of h is on its way to the loop.
InHand(h) == goroutines[h]["sending"] > 0 \/ \E i \in DOMAIN drain : drain[i] = h

\* The cache may hide h from the sink: its metadata has reached the database,
\* or it is queued for the master, or was acknowledged less than 12 hours ago.
Settled(h) == h \in decided \/ queued[h] > 0 \/ h \in expiring

\* While the sink works, an infohash in the cache is being downloaded, is in
\* hand, or is settled: no failure, refusal or eviction leaves an infohash that
\* nobody works on and that the crawler will never look at again.
CacheTracksWork ==
    ~terminated => \A h \in cache : h \in Tracked \/ InHand(h) \/ Settled(h)

\* The goroutines that are between the acquisition of a token and the end of
\* download.
Holding == {"leeching", "failing", "flushing", "sending"}
HoldersIn(counts) ==
    UNION {{<<h, p, i>> : i \in 1 .. counts[h][p]} : h \in InfoHash, p \in Holding}

\* Each of them holds one of the tokens taken: none is lost on an early return,
\* so that the sink never runs out of them, and none is given back twice.
SemExact ==
    /\ sem <= MaxConcurrent
    /\ sem = Cardinality(HoldersIn(goroutines))

\* The DHT or a peer names at least one peer to try for h.
PeersNamed(h) ==
    \E n \in 1 .. MaxPeers : KnownResult(h, n) \/ OnPeers(h, n)

\* Every download comes to an end, although the goroutines compete for the
\* tokens and for the mutex of the drain, unless the crawler is told to stop or
\* peers are named for the infohash again and again for ever: the code keeps no
\* record of those it has tried, so that two peers that name each other, and
\* fail, occupy a slot of maxNLeeches without end.
DownloadResolved ==
    \A h \in InfoHash :
        \/ h \in Tracked ~> h \notin Tracked \/ stop
        \/ []<><<PeersNamed(h)>>_vars

\* A crawler that is told to stop comes to its end.
StopCompletes == stop ~> crawl = "ended"

=============================================================================
