----------------------------- MODULE SinkProofs -----------------------------
(***************************************************************************)
(* What the model checker shows of Sink on two or three infohashes, proved *)
(* for every set of infohashes, every capacity and every number of peers.  *)
(***************************************************************************)
EXTENDS Sink, FiniteSetTheorems, TLAPS

\* At most one goroutine is at `ms.drain <- result`.
OneSender ==
    /\ \A h \in InfoHash : goroutines[h]["sending"] <= 1
    /\ \A g, h \in InfoHash :
          goroutines[g]["sending"] > 0 /\ goroutines[h]["sending"] > 0 => g = h

\* The inductive invariant. OneSender is what makes NoSendOnClosed survive the
\* release of drainMx; OneDownloadPerHash is what makes a flush of h the flush
\* of the entry of h.
SinkInv ==
    /\ TypeOK
    /\ OneDownloadPerHash
    /\ NoSendOnClosed
    /\ OneSender
    /\ CacheTracksWork

\* A goroutine that changes phase: the counts of the other infohashes and of
\* the other phases stay.
LEMMA MoveCounts ==
    ASSUME TypeOK, NEW h \in InfoHash, NEW p \in Phases, NEW q \in Phases,
           p # q, Move(h, p, q)
    PROVE  /\ goroutines' \in [InfoHash -> [Phases -> Nat]]
           /\ goroutines[h][p] > 0
           /\ goroutines'[h][p] = goroutines[h][p] - 1
           /\ goroutines'[h][q] = goroutines[h][q] + 1
           /\ \A r \in Phases \ {p, q} : goroutines'[h][r] = goroutines[h][r]
           /\ \A g \in InfoHash \ {h} : goroutines'[g] = goroutines[g]
  BY DEF Move, TypeOK

\* A goroutine that ends, likewise.
LEMMA LeaveCounts ==
    ASSUME TypeOK, NEW h \in InfoHash, NEW p \in Phases, Leave(h, p)
    PROVE  /\ goroutines' \in [InfoHash -> [Phases -> Nat]]
           /\ goroutines[h][p] > 0
           /\ goroutines'[h][p] = goroutines[h][p] - 1
           /\ \A r \in Phases \ {p} : goroutines'[h][r] = goroutines[h][r]
           /\ \A g \in InfoHash \ {h} : goroutines'[g] = goroutines[g]
  BY DEF Leave, TypeOK

-----------------------------------------------------------------------------
(***************************************************************************)
(* Type correctness                                                        *)
(***************************************************************************)

\* What the cache helpers leave is again a cache whose expired infohashes have
\* an expiry time.
LEMMA CacheTypes ==
    ASSUME TypeOK, NEW h \in InfoHash
    PROVE  /\ CacheRemove(h) =>
                /\ cache' \subseteq InfoHash /\ expiring' \subseteq InfoHash
                /\ expired' \subseteq expiring'
           /\ UNCHANGED cacheVars =>
                /\ cache' \subseteq InfoHash /\ expiring' \subseteq InfoHash
                /\ expired' \subseteq expiring'
           /\ \A out : Evict(h, out) =>
                /\ cache' \subseteq InfoHash /\ expiring' \subseteq InfoHash
                /\ expired' \subseteq expiring'
  BY DEF CacheRemove, Evict, TypeOK, cacheVars

\* Every step of the loop, of the cache and of the download goroutines keeps
\* the types.
LEMMA TypeStep ==
    ASSUME SinkAssumption, TypeOK, [Next]_vars
    PROVE  TypeOK'
<1> USE DEF recordVars, loopVars, CrawlStates
<1>1. CASE UNCHANGED vars
  BY <1>1 DEF TypeOK, vars, sinkVars, cacheVars, IncomingOK, Tracked
<1>2. ASSUME NEW h \in InfoHash, NEW n \in 0 .. MaxPeers, NewResult(h, n)
      PROVE  TypeOK'
  <2>1. goroutines' \in [InfoHash -> [Phases -> Nat]]
    BY <1>2 DEF NewResult, TypeOK, Phases
  <2>2. IncomingOK'
    BY <1>2, SinkAssumption DEF NewResult, TypeOK, SinkAccepts, SinkAssumption, IncomingOK, Tracked
  <2>3. /\ cache' \subseteq InfoHash /\ expiring' \subseteq InfoHash
        /\ expired' \subseteq expiring'
    BY <1>2 DEF NewResult, TypeOK, AddKeeps
  <2> QED
    BY <1>2, <2>1, <2>2, <2>3 DEF NewResult, TypeOK, Report
<1>3. ASSUME NEW h \in InfoHash, NEW n \in 0 .. MaxPeers, RefusedResult(h, n)
      PROVE  TypeOK'
  BY <1>3, CacheTypes DEF RefusedResult, TypeOK, Report, sinkVars, IncomingOK, Tracked
<1>4. ASSUME NEW h \in InfoHash, NEW n \in 0 .. MaxPeers, KnownResult(h, n)
      PROVE  TypeOK'
  <2>1. IncomingOK'
    BY <1>4, SinkAssumption DEF KnownResult, TypeOK, SinkAssumption, IncomingOK, Tracked
  <2> QED
    BY <1>4, <2>1 DEF KnownResult, TypeOK, cacheVars
<1>5. ASSUME NEW accepted \in BOOLEAN, Drained(accepted)
      PROVE  TypeOK'
  <2>1. /\ Head(drain) \in InfoHash /\ drain' \in Seq(InfoHash)
    BY <1>5 DEF Drained, TypeOK
  <2>2. /\ cache' \subseteq InfoHash /\ expiring' \subseteq InfoHash
        /\ expired' \subseteq expiring'
    BY <1>5, <2>1, CacheTypes DEF Drained, Dropped
  <2>3. decided' \subseteq InfoHash /\ queued' \in [InfoHash -> Nat]
    BY <1>5, <2>1 DEF Drained, TypeOK
  <2> QED
    BY <1>5, <2>1, <2>2, <2>3 DEF Drained, TypeOK, IncomingOK, Tracked
<1>6. CASE CloseStop \/ CrawlReturns \/ Terminate \/ TerminateManager
  BY <1>6 DEF CloseStop, CrawlReturns, Terminate, TerminateManager, TypeOK,
              sinkVars, cacheVars, IncomingOK, Tracked
<1>7. ASSUME NEW h \in InfoHash, Expire(h)
      PROVE  TypeOK'
  BY <1>7 DEF Expire, TypeOK, sinkVars, IncomingOK, Tracked
<1>8. ASSUME NEW h \in InfoHash, OnAck(h)
      PROVE  TypeOK'
  <2>1. queued' \in [InfoHash -> Nat]
    BY <1>8 DEF OnAck, TypeOK
  <2>2. /\ cache' \subseteq InfoHash /\ expiring' \subseteq InfoHash
        /\ expired' \subseteq expiring'
    BY <1>8, CacheTypes DEF OnAck
  <2> QED
    BY <1>8, <2>1, <2>2 DEF OnAck, TypeOK, sinkVars, IncomingOK, Tracked
<1>9. ASSUME NEW h \in InfoHash,
             Download(h) \/ AcquireSem(h) \/ LeechSucceeds(h) \/ LeechFails(h)
      PROVE  TypeOK'
  <2>1. goroutines' \in [InfoHash -> [Phases -> Nat]]
    BY <1>9, MoveCounts, LeaveCounts
       DEF Download, AcquireSem, LeechSucceeds, LeechFails, Phases
  <2>2. sem' \in Int
    BY <1>9 DEF Download, AcquireSem, LeechSucceeds, LeechFails, TypeOK,
                TokenAfterFailure
  <2> QED
    BY <1>9, <2>1, <2>2 DEF Download, AcquireSem, LeechSucceeds, LeechFails,
                            TypeOK, cacheVars, IncomingOK, Tracked
<1>10. ASSUME NEW h \in InfoHash, LeechError(h)
       PROVE  TypeOK'
  <2>1. goroutines' \in [InfoHash -> [Phases -> Nat]]
    BY <1>10, MoveCounts, LeaveCounts DEF LeechError, Phases
  <2>2. IncomingOK'
    <3>1. CASE PeersLeft(h)
      <4>1. incoming' = [incoming EXCEPT ![h] = @ - 1]
        BY <1>10, <3>1 DEF LeechError
      <4> QED
        BY <3>1, <4>1 DEF TypeOK, PeersLeft, IncomingOK, Tracked
    <3>2. CASE ~PeersLeft(h)
      <4>1. incoming' = Forget(h)
        BY <1>10, <3>2 DEF LeechError, Discard
      <4> QED
        BY <4>1 DEF TypeOK, Forget, IncomingOK, Tracked
    <3> QED
      BY <3>1, <3>2
  <2>3. /\ cache' \subseteq InfoHash /\ expiring' \subseteq InfoHash
        /\ expired' \subseteq expiring'
    BY <1>10, CacheTypes DEF LeechError, Discard
  <2> QED
    BY <1>10, <2>1, <2>2, <2>3 DEF LeechError, TypeOK
<1>11. ASSUME NEW h \in InfoHash, Flush(h)
       PROVE  TypeOK'
  <2>1. goroutines' \in [InfoHash -> [Phases -> Nat]]
    BY <1>11, MoveCounts, LeaveCounts DEF Flush, Phases
  <2>2. IncomingOK'
    BY <1>11 DEF Flush, TypeOK, Forget, IncomingOK, Tracked
  <2>3. drainMx' \in BOOLEAN
    BY <1>11, Zenon DEF Flush, TypeOK
  <2>3a. sem' \in Int
    BY <1>11 DEF Flush, TypeOK
  <2>4. UNCHANGED <<terminated, drain, cacheVars, recordVars, loopVars, results>>
    BY <1>11 DEF Flush
  <2> QED
    BY <2>1, <2>2, <2>3, <2>3a, <2>4 DEF TypeOK, cacheVars
<1>12. ASSUME NEW h \in InfoHash, Send(h)
       PROVE  TypeOK'
  <2>1. goroutines' \in [InfoHash -> [Phases -> Nat]]
    BY <1>12, LeaveCounts DEF Send, Phases
  <2>2. drainMx' \in BOOLEAN
    BY <1>12 DEF Send
  <2>3. drain' \in Seq(InfoHash) /\ sem' \in Int
    BY <1>12 DEF Send, TypeOK
  <2>4. UNCHANGED <<terminated, incoming, cacheVars, recordVars, loopVars, results>>
    BY <1>12 DEF Send
  <2> QED
    BY <2>1, <2>2, <2>3, <2>4 DEF TypeOK, cacheVars, IncomingOK, Tracked
<1>13. ASSUME NEW h \in InfoHash, NEW n \in 1 .. MaxPeers, OnPeers(h, n)
       PROVE  TypeOK'
  <2>1. IncomingOK'
    BY <1>13, SinkAssumption DEF OnPeers, TypeOK, SinkAssumption, IncomingOK, Tracked
  <2> QED
    BY <1>13, <2>1 DEF OnPeers, TypeOK, cacheVars
<1> QED
  BY <1>1, <1>2, <1>3, <1>4, <1>5, <1>6, <1>7, <1>8, <1>9, <1>10, <1>11, <1>12,
     <1>13 DEF Next

-----------------------------------------------------------------------------
(***************************************************************************)
(* The two invariants about goroutines                                     *)
(***************************************************************************)
Others == {"spawned", "waiting", "leeching", "failing", "flushing"}

\* A change of phase that keeps the entry keeps the number of downloads.
LEMMA MoveDownloads ==
    ASSUME TypeOK, NEW h \in InfoHash, NEW p \in Others, NEW q \in Others,
           p # q, Move(h, p, q)
    PROVE  /\ \A g \in InfoHash : Downloads(g)' = Downloads(g)
           /\ \A g \in InfoHash :
                 goroutines'[g]["sending"] = goroutines[g]["sending"]
<1>1. p \in Phases /\ q \in Phases /\ "sending" \notin {p, q}
  BY DEF Others, Phases
<1>2. /\ goroutines[h][p] > 0
      /\ goroutines'[h][p] = goroutines[h][p] - 1
      /\ goroutines'[h][q] = goroutines[h][q] + 1
      /\ \A r \in Phases \ {p, q} : goroutines'[h][r] = goroutines[h][r]
      /\ \A g \in InfoHash \ {h} : goroutines'[g] = goroutines[g]
  BY <1>1, MoveCounts
<1>3. \A r \in Phases : goroutines[h][r] \in Nat
  BY DEF TypeOK
<1>4. Downloads(h)' = Downloads(h)
  BY <1>1, <1>2, <1>3 DEF Downloads, Others, Phases
<1> QED
  BY <1>1, <1>2, <1>4 DEF Downloads, Phases

\* A goroutine that leaves such a phase takes one download of h away.
LEMMA LeaveDownloads ==
    ASSUME TypeOK, NEW h \in InfoHash, NEW p \in Others, Leave(h, p)
    PROVE  /\ Downloads(h)' = Downloads(h) - 1
           /\ \A g \in InfoHash \ {h} : Downloads(g)' = Downloads(g)
           /\ \A g \in InfoHash :
                 goroutines'[g]["sending"] = goroutines[g]["sending"]
<1>1. p \in Phases /\ "sending" # p
  BY DEF Others, Phases
<1>2. /\ goroutines[h][p] > 0
      /\ goroutines'[h][p] = goroutines[h][p] - 1
      /\ \A r \in Phases \ {p} : goroutines'[h][r] = goroutines[h][r]
      /\ \A g \in InfoHash \ {h} : goroutines'[g] = goroutines[g]
  BY <1>1, LeaveCounts
<1>3. \A r \in Phases : goroutines[h][r] \in Nat
  BY DEF TypeOK
<1>4. Downloads(h)' = Downloads(h) - 1
  BY <1>1, <1>2, <1>3 DEF Downloads, Others, Phases
<1> QED
  BY <1>1, <1>2, <1>4 DEF Downloads, Phases

\* A flush that takes the mutex turns one download of h into one sender.
LEMMA FlushDownloads ==
    ASSUME TypeOK, NEW h \in InfoHash, Move(h, "flushing", "sending")
    PROVE  /\ Downloads(h) > 0
           /\ Downloads(h)' = Downloads(h) - 1
           /\ goroutines'[h]["sending"] = goroutines[h]["sending"] + 1
           /\ \A g \in InfoHash \ {h} :
                 /\ Downloads(g)' = Downloads(g)
                 /\ goroutines'[g]["sending"] = goroutines[g]["sending"]
<1>1. \A r \in Phases : goroutines[h][r] \in Nat
  BY DEF TypeOK
<1>2. /\ goroutines[h]["flushing"] > 0
      /\ goroutines'[h]["flushing"] = goroutines[h]["flushing"] - 1
      /\ goroutines'[h]["sending"] = goroutines[h]["sending"] + 1
      /\ \A r \in Phases \ {"flushing", "sending"} :
            goroutines'[h][r] = goroutines[h][r]
      /\ \A g \in InfoHash \ {h} : goroutines'[g] = goroutines[g]
  BY MoveCounts DEF Phases
<1> QED
  BY <1>1, <1>2 DEF Downloads, Phases

\* A sender that is done takes nothing but itself away.
LEMMA SendDownloads ==
    ASSUME TypeOK, NEW h \in InfoHash, Leave(h, "sending")
    PROVE  /\ \A g \in InfoHash : Downloads(g)' = Downloads(g)
           /\ goroutines[h]["sending"] > 0
           /\ goroutines'[h]["sending"] = goroutines[h]["sending"] - 1
           /\ \A g \in InfoHash \ {h} :
                 goroutines'[g]["sending"] = goroutines[g]["sending"]
  BY LeaveCounts DEF Downloads, Phases

\* The steps of a goroutine before onLeechError and flush make no sender.
LEMMA PhasesKeepSenders ==
    ASSUME TypeOK, NEW h \in InfoHash,
           Download(h) \/ AcquireSem(h) \/ LeechSucceeds(h) \/ LeechFails(h)
    PROVE  \A g \in InfoHash :
              goroutines'[g]["sending"] = goroutines[g]["sending"]
<1>1. CASE terminated /\ Download(h)
  BY <1>1, LeaveDownloads DEF Download, Others
<1>2. CASE terminated /\ LeechFails(h)
  BY <1>2, LeaveDownloads DEF LeechFails, Others
<1>3. CASE ~terminated /\ (Download(h) \/ LeechFails(h))
  BY <1>3, MoveDownloads DEF Download, LeechFails, Others
<1>4. CASE AcquireSem(h) \/ LeechSucceeds(h)
  BY <1>4, MoveDownloads DEF AcquireSem, LeechSucceeds, Others
<1> QED
  BY <1>1, <1>2, <1>3, <1>4

\* The part of the inductive invariant that is about goroutines.
GoroutineInv == OneDownloadPerHash /\ NoSendOnClosed /\ OneSender

\* A step that keeps the goroutines, the map, drainMx and terminated keeps it.
LEMMA GoroutineFrame ==
    ASSUME GoroutineInv, UNCHANGED <<terminated, goroutines, drainMx>>,
           Tracked' = Tracked
    PROVE  GoroutineInv'
  BY DEF GoroutineInv, OneDownloadPerHash, NoSendOnClosed, OneSender, Downloads

\* No step gives an infohash a second download or loses the only one, and no
\* step leaves a sender without the mutex.
LEMMA GoroutineStep ==
    ASSUME SinkAssumption, TypeOK, TypeOK', GoroutineInv, [Next]_vars
    PROVE  GoroutineInv'
<1>0. /\ \A h \in InfoHash : Downloads(h) \in Nat /\ Downloads(h)' \in Nat
      /\ \A h \in InfoHash : goroutines[h]["sending"] \in Nat
      /\ \A h \in InfoHash : goroutines'[h]["sending"] \in Nat
  <2>1. \A h \in InfoHash, r \in Phases : goroutines[h][r] \in Nat
    BY DEF TypeOK
  <2>2. \A h \in InfoHash, r \in Phases : goroutines'[h][r] \in Nat
    BY DEF TypeOK
  <2> QED
    BY <2>1, <2>2 DEF Downloads, Phases
<1>1. CASE UNCHANGED vars
  BY <1>1, GoroutineFrame DEF vars, sinkVars, Tracked
<1>2. ASSUME NEW h \in InfoHash, NEW n \in 0 .. MaxPeers, NewResult(h, n)
      PROVE  GoroutineInv'
  <2>1. /\ Tracked' = Tracked \cup {h} /\ h \notin Tracked /\ ~terminated
        /\ UNCHANGED <<terminated, drainMx>>
    BY <1>2 DEF NewResult, SinkAccepts, Tracked
  <2>2. goroutines' = [goroutines EXCEPT ![h]["spawned"] = @ + 1]
    BY <1>2 DEF NewResult
  <2>3. /\ Downloads(h)' = Downloads(h) + 1
        /\ \A g \in InfoHash \ {h} : Downloads(g)' = Downloads(g)
        /\ \A g \in InfoHash :
              goroutines'[g]["sending"] = goroutines[g]["sending"]
    <3>1. /\ \A g \in InfoHash, r \in Phases : goroutines[g][r] \in Nat
          /\ goroutines \in [InfoHash -> [Phases -> Nat]]
      BY DEF TypeOK
    <3>2. /\ goroutines'[h]["spawned"] = goroutines[h]["spawned"] + 1
          /\ \A r \in Phases \ {"spawned"} : goroutines'[h][r] = goroutines[h][r]
          /\ \A g \in InfoHash \ {h} : goroutines'[g] = goroutines[g]
      BY <2>2, <3>1 DEF Phases
    <3> QED
      BY <3>1, <3>2 DEF Downloads, Phases
  <2> QED
    BY <1>0, <2>1, <2>3
       DEF GoroutineInv, OneDownloadPerHash, NoSendOnClosed, OneSender
<1>3. ASSUME NEW h \in InfoHash, NEW n \in 0 .. MaxPeers,
             RefusedResult(h, n) \/ KnownResult(h, n)
      PROVE  GoroutineInv'
  BY <1>3, GoroutineFrame DEF RefusedResult, KnownResult, sinkVars, Tracked,
                              TypeOK, IncomingOK
<1>4. ASSUME NEW accepted \in BOOLEAN, Drained(accepted)
      PROVE  GoroutineInv'
  BY <1>4, GoroutineFrame DEF Drained, Tracked
<1>5. CASE CloseStop \/ CrawlReturns \/ TerminateManager
  BY <1>5, GoroutineFrame
     DEF CloseStop, CrawlReturns, TerminateManager, sinkVars, Tracked
<1>6. CASE Terminate
  <2>1. /\ ~drainMx /\ terminated' = TRUE
        /\ UNCHANGED <<incoming, goroutines, drainMx>>
    BY <1>6 DEF Terminate, TerminateLock
  <2>2. \A h \in InfoHash : ~(goroutines'[h]["sending"] > 0)
    BY <2>1 DEF GoroutineInv, NoSendOnClosed
  <2>3. OneSender'
    BY <2>1 DEF GoroutineInv, OneSender
  <2> QED
    BY <2>1, <2>2, <2>3 DEF GoroutineInv, OneDownloadPerHash, NoSendOnClosed
<1>7. ASSUME NEW h \in InfoHash, Expire(h) \/ OnAck(h)
      PROVE  GoroutineInv'
  BY <1>7, GoroutineFrame DEF Expire, OnAck, sinkVars, Tracked
<1>8. ASSUME NEW h \in InfoHash, NEW n \in 1 .. MaxPeers, OnPeers(h, n)
      PROVE  GoroutineInv'
  BY <1>8, GoroutineFrame DEF OnPeers, Tracked, TypeOK, IncomingOK
<1>9. ASSUME NEW h \in InfoHash,
             Download(h) \/ AcquireSem(h) \/ LeechSucceeds(h) \/ LeechFails(h)
      PROVE  GoroutineInv'
  <2>1. UNCHANGED <<terminated, drainMx>> /\ Tracked' = Tracked
    BY <1>9 DEF Download, AcquireSem, LeechSucceeds, LeechFails, Tracked
  <2>2. \A g \in InfoHash : goroutines'[g]["sending"] = goroutines[g]["sending"]
    BY <1>9, PhasesKeepSenders
  <2>3. ~terminated => \A g \in InfoHash : Downloads(g)' = Downloads(g)
    BY <1>9, MoveDownloads
       DEF Download, AcquireSem, LeechSucceeds, LeechFails, Others
  <2> QED
    BY <2>1, <2>2, <2>3
       DEF GoroutineInv, OneDownloadPerHash, NoSendOnClosed, OneSender
<1>10. ASSUME NEW h \in InfoHash, LeechError(h)
       PROVE  GoroutineInv'
  <2>1. UNCHANGED <<terminated, drainMx>>
    BY <1>10 DEF LeechError
  <2>2. CASE PeersLeft(h)
    <3>1. Move(h, "failing", "spawned") /\ Tracked' = Tracked
      BY <1>10, <2>2 DEF LeechError, Tracked
    <3> QED
      BY <2>1, <3>1, MoveDownloads
         DEF Others, GoroutineInv, OneDownloadPerHash, NoSendOnClosed, OneSender
  <2>3. CASE ~PeersLeft(h)
    <3>1. Leave(h, "failing") /\ Tracked' = Tracked \ {h}
      BY <1>10, <2>3 DEF LeechError, Discard, Forget, Tracked
    <3>2. /\ Downloads(h)' = Downloads(h) - 1
          /\ \A g \in InfoHash \ {h} : Downloads(g)' = Downloads(g)
          /\ \A g \in InfoHash :
                goroutines'[g]["sending"] = goroutines[g]["sending"]
      BY <3>1, LeaveDownloads DEF Others
    <3> QED
      BY <1>0, <2>1, <3>1, <3>2
         DEF GoroutineInv, OneDownloadPerHash, NoSendOnClosed, OneSender
  <2> QED
    BY <2>2, <2>3
<1>11. ASSUME NEW h \in InfoHash, Flush(h)
       PROVE  GoroutineInv'
  <2>1. UNCHANGED terminated /\ ~drainMx
    BY <1>11 DEF Flush
  <2>2. CASE terminated
    BY <1>11, <2>1, <2>2, LeaveDownloads
       DEF Flush, Others, GoroutineInv, OneDownloadPerHash, NoSendOnClosed,
           OneSender
  <2>3. CASE ~terminated
    <3>1. Move(h, "flushing", "sending") /\ Tracked' = Tracked \ {h} /\ drainMx'
      BY <1>11, <2>3 DEF Flush, Forget, Tracked
    <3>2. \A g \in InfoHash : goroutines[g]["sending"] = 0
      BY <1>0, <2>1 DEF GoroutineInv, NoSendOnClosed
    <3>3. /\ Downloads(h) > 0
          /\ Downloads(h)' = Downloads(h) - 1
          /\ goroutines'[h]["sending"] = 1
          /\ \A g \in InfoHash \ {h} :
                /\ Downloads(g)' = Downloads(g)
                /\ goroutines'[g]["sending"] = 0
      BY <3>1, <3>2, FlushDownloads
    <3> QED
      BY <1>0, <2>1, <2>3, <3>1, <3>3
         DEF GoroutineInv, OneDownloadPerHash, NoSendOnClosed, OneSender
  <2> QED
    BY <2>2, <2>3
<1>12. ASSUME NEW h \in InfoHash, Send(h)
       PROVE  GoroutineInv'
  <2>1. Leave(h, "sending") /\ Tracked' = Tracked /\ UNCHANGED terminated
    BY <1>12 DEF Send, Tracked
  <2>2. \A g \in InfoHash : Downloads(g)' = Downloads(g)
    BY <2>1, SendDownloads
  <2>3. \A g \in InfoHash : goroutines'[g]["sending"] = 0
    BY <1>0, <2>1, SendDownloads DEF GoroutineInv, OneSender
  <2> QED
    BY <2>1, <2>2, <2>3
       DEF GoroutineInv, OneDownloadPerHash, NoSendOnClosed, OneSender
<1> QED
  BY <1>1, <1>2, <1>3, <1>4, <1>5, <1>6, <1>7, <1>8, <1>9, <1>10, <1>11, <1>12
     DEF Next

-----------------------------------------------------------------------------
(***************************************************************************)
(* The cache hides only what somebody works on                             *)
(***************************************************************************)
Working(h) == h \in Tracked \/ InHand(h) \/ Settled(h)

\* A step that keeps or extends what is worked on, and adds nothing to the
\* cache, keeps the invariant.
LEMMA WorkingFrame ==
    ASSUME CacheTracksWork, ~terminated' => ~terminated, cache' \subseteq cache,
           \A g \in cache' : Working(g) => Working(g)'
    PROVE  CacheTracksWork'
  BY DEF CacheTracksWork, Working

\* A record that enters or leaves the drain leaves the others there.
LEMMA DrainRecords ==
    ASSUME NEW S, NEW s \in Seq(S), NEW x \in S
    PROVE  /\ \E i \in DOMAIN Append(s, x) : Append(s, x)[i] = x
           /\ \A y : (\E i \in DOMAIN s : s[i] = y) =>
                      \E i \in DOMAIN Append(s, x) : Append(s, x)[i] = y
           /\ s # <<>> =>
                \A y : (\E i \in DOMAIN s : s[i] = y) =>
                       y = Head(s) \/ \E i \in DOMAIN Tail(s) : Tail(s)[i] = y
<1>1. /\ Len(s) + 1 \in DOMAIN Append(s, x) /\ Append(s, x)[Len(s) + 1] = x
      /\ \A i \in DOMAIN s : i \in DOMAIN Append(s, x) /\ Append(s, x)[i] = s[i]
  OBVIOUS
<1>2. ASSUME s # <<>>, NEW y, NEW i \in DOMAIN s, s[i] = y
      PROVE  y = Head(s) \/ \E j \in DOMAIN Tail(s) : Tail(s)[j] = y
  <2>1. CASE i = 1
    BY <1>2, <2>1
  <2>2. CASE i # 1
    <3>1. i - 1 \in DOMAIN Tail(s) /\ Tail(s)[i - 1] = s[i]
      BY <1>2, <2>2
    <3> QED
      BY <1>2, <3>1
  <2> QED
    BY <2>1, <2>2
<1> QED
  BY <1>1, <1>2

\* Every step keeps CacheTracksWork: it either takes the infohash out of the
\* cache, or hands it on to the next stage.
LEMMA CacheStep ==
    ASSUME SinkAssumption, TypeOK, TypeOK', GoroutineInv, CacheTracksWork,
           [Next]_vars
    PROVE  CacheTracksWork'
<1> USE DEF cacheVars, recordVars, loopVars
<1>1. CASE UNCHANGED vars
  BY <1>1, WorkingFrame DEF vars, sinkVars, Working, InHand, Settled, Tracked
<1>2. ASSUME NEW h \in InfoHash, NEW n \in 0 .. MaxPeers, NewResult(h, n)
      PROVE  CacheTracksWork'
  <2>1. /\ UNCHANGED <<terminated, drain, queued, decided>>
        /\ cache' = cache \cup {h} /\ Tracked' = Tracked \cup {h}
        /\ expiring \ {h} \subseteq expiring'
    BY <1>2 DEF NewResult, Tracked, AddKeeps
  <2>2. \A g \in InfoHash : goroutines'[g]["sending"] = goroutines[g]["sending"]
    BY <1>2 DEF NewResult, TypeOK, Phases
  <2> QED
    BY <2>1, <2>2 DEF CacheTracksWork, InHand, Settled, TypeOK
<1>3. ASSUME NEW h \in InfoHash, NEW n \in 0 .. MaxPeers, RefusedResult(h, n)
      PROVE  CacheTracksWork'
  <2>1. \A g \in cache' : Working(g) => Working(g)'
    BY <1>3 DEF RefusedResult, CacheRemove, sinkVars, Working, InHand, Settled,
                Tracked
  <2> QED
    BY <1>3, <2>1, WorkingFrame DEF RefusedResult, CacheRemove, sinkVars
<1>4. ASSUME NEW h \in InfoHash, NEW n \in Nat,
             KnownResult(h, n) \/ OnPeers(h, n)
      PROVE  CacheTracksWork'
  <2>1. Tracked' = Tracked
    BY <1>4 DEF KnownResult, OnPeers, Tracked, TypeOK, IncomingOK
  <2> QED
    BY <1>4, <2>1, WorkingFrame
       DEF KnownResult, OnPeers, Working, InHand, Settled
<1>5. ASSUME NEW accepted \in BOOLEAN, Drained(accepted)
      PROVE  CacheTracksWork'
  <2>1. /\ drain # <<>> /\ drain' = Tail(drain) /\ Head(drain) \in InfoHash
        /\ UNCHANGED <<terminated, goroutines>> /\ Tracked' = Tracked
    BY <1>5 DEF Drained, TypeOK, Tracked
  <2> PICK h \in InfoHash : h = Head(drain)
    BY <2>1
  <2>2. cache' \subseteq cache /\ expiring \cap cache' \subseteq expiring'
    BY <1>5 DEF Drained, Dropped, CacheRemove
  <2>3. decided \subseteq decided' /\ \A g \in InfoHash : queued[g] > 0 => queued'[g] > 0
    BY <1>5, <2>1 DEF Drained, TypeOK
  <2>4. h \in cache' => Settled(h)'
    <3>1. CASE ~WorkerMode
      BY <1>5, <3>1 DEF Drained, Settled
    <3>2. CASE WorkerMode /\ accepted
      <4>1. queued' = [queued EXCEPT ![h] = @ + 1]
        BY <1>5, <3>2 DEF Drained
      <4>2. queued[h] \in Nat /\ queued'[h] = queued[h] + 1
        BY <4>1 DEF TypeOK
      <4> QED
        BY <4>2 DEF Settled
    <3>3. CASE WorkerMode /\ ~accepted
      BY <1>5, <3>3 DEF Drained, Dropped, CacheRemove
    <3> QED
      BY <3>1, <3>2, <3>3
  <2>5. \A g : (\E i \in DOMAIN drain : drain[i] = g) =>
               g = h \/ \E i \in DOMAIN drain' : drain'[i] = g
    <3>1. drain \in Seq(InfoHash)
      BY DEF TypeOK
    <3> QED
      BY <2>1, <3>1, DrainRecords
  <2>6. \A g \in cache' : InHand(g) => InHand(g)' \/ g = h
    BY <2>1, <2>5 DEF InHand
  <2>7. \A g \in cache' : Settled(g) => Settled(g)'
    BY <2>2, <2>3 DEF Settled, TypeOK
  <2>8. \A g \in cache' : Working(g) => Working(g)'
    BY <2>1, <2>4, <2>6, <2>7 DEF Working
  <2> QED
    BY <2>1, <2>2, <2>8, WorkingFrame
<1>6. CASE CloseStop \/ CrawlReturns \/ Terminate \/ TerminateManager
  BY <1>6, WorkingFrame
     DEF CloseStop, CrawlReturns, Terminate, TerminateManager, sinkVars, Working,
         InHand, Settled, Tracked
<1>7. ASSUME NEW h \in InfoHash, Expire(h)
      PROVE  CacheTracksWork'
  BY <1>7, WorkingFrame DEF Expire, sinkVars, Working, InHand, Settled, Tracked
<1>8. ASSUME NEW h \in InfoHash, OnAck(h)
      PROVE  CacheTracksWork'
  <2>1. UNCHANGED <<sinkVars, decided>> /\ Tracked' = Tracked
    BY <1>8 DEF OnAck, sinkVars, Tracked
  <2>2. \A g \in InfoHash \ {h} : queued'[g] = queued[g]
    BY <1>8 DEF OnAck, TypeOK
  <2>3. /\ cache' \subseteq cache /\ expiring \cap cache' \subseteq expiring'
        /\ h \in cache' => h \in expiring'
    <3>1. CASE h \in cache
      <4>1. PICK out \in Evictions : Evict(h, out)
        BY <1>8, <3>1 DEF OnAck
      <4>2. cache' = cache \ out /\ expiring' = (expiring \ out) \cup {h}
        BY <4>1 DEF Evict
      <4> QED
        BY <4>2
    <3>2. CASE h \notin cache
      BY <1>8, <3>2 DEF OnAck
    <3> QED
      BY <3>1, <3>2
  <2>4. \A g \in cache' : Working(g) => Working(g)'
    BY <2>1, <2>2, <2>3 DEF Working, InHand, Settled, sinkVars, TypeOK
  <2> QED
    BY <2>1, <2>3, <2>4, WorkingFrame DEF sinkVars
<1>9. ASSUME NEW h \in InfoHash,
             Download(h) \/ AcquireSem(h) \/ LeechSucceeds(h) \/ LeechFails(h)
      PROVE  CacheTracksWork'
  <2>1. UNCHANGED <<terminated, drain, cacheVars, recordVars>> /\ Tracked' = Tracked
    BY <1>9 DEF Download, AcquireSem, LeechSucceeds, LeechFails, Tracked
  <2>2. \A g \in InfoHash : goroutines'[g]["sending"] = goroutines[g]["sending"]
    BY <1>9, PhasesKeepSenders
  <2> QED
    BY <2>1, <2>2, WorkingFrame DEF Working, InHand, Settled, TypeOK
<1>10. ASSUME NEW h \in InfoHash, LeechError(h)
       PROVE  CacheTracksWork'
  <2>1. UNCHANGED <<terminated, drain, recordVars>>
    BY <1>10 DEF LeechError
  <2>2. CASE PeersLeft(h)
    <3>1. /\ Move(h, "failing", "spawned") /\ Tracked' = Tracked
          /\ UNCHANGED cacheVars
      BY <1>10, <2>2 DEF LeechError, Tracked
    <3> QED
      BY <2>1, <3>1, MoveDownloads, WorkingFrame
         DEF Others, Working, InHand, Settled, TypeOK
  <2>3. CASE ~PeersLeft(h)
    <3>1. /\ Leave(h, "failing") /\ Tracked' = Tracked \ {h}
          /\ cache' = cache \ {h} /\ expiring' = expiring \ {h}
      BY <1>10, <2>3 DEF LeechError, Discard, Forget, Tracked, CacheRemove
    <3>2. \A g \in InfoHash : goroutines'[g]["sending"] = goroutines[g]["sending"]
      BY <3>1, LeaveDownloads DEF Others
    <3>3. \A g \in cache' : Working(g) => Working(g)'
      BY <2>1, <3>1, <3>2 DEF Working, InHand, Settled, TypeOK
    <3> QED
      BY <2>1, <3>1, <3>3, WorkingFrame
  <2> QED
    BY <2>2, <2>3
<1>11. ASSUME NEW h \in InfoHash, Flush(h)
       PROVE  CacheTracksWork'
  <2>1. UNCHANGED <<terminated, drain, cacheVars, recordVars>>
    BY <1>11 DEF Flush
  <2>2. CASE terminated
    BY <2>1, <2>2 DEF CacheTracksWork
  <2>3. CASE ~terminated
    <3>1. Move(h, "flushing", "sending") /\ Tracked' = Tracked \ {h}
      BY <1>11, <2>3 DEF Flush, Forget, Tracked
    <3>2. /\ goroutines'[h]["sending"] > 0
          /\ \A g \in InfoHash \ {h} :
                goroutines'[g]["sending"] = goroutines[g]["sending"]
      <4>1. goroutines[h]["sending"] \in Nat
        BY DEF TypeOK, Phases
      <4> QED
        BY <3>1, <4>1, FlushDownloads
    <3>3. \A g \in cache' : Working(g) => Working(g)'
      BY <2>1, <3>1, <3>2 DEF Working, InHand, Settled, TypeOK
    <3> QED
      BY <2>1, <3>3, WorkingFrame
  <2> QED
    BY <2>2, <2>3
<1>12. ASSUME NEW h \in InfoHash, Send(h)
       PROVE  CacheTracksWork'
  <2>1. /\ UNCHANGED <<terminated, cacheVars, recordVars>> /\ Tracked' = Tracked
        /\ drain' = Append(drain, h) /\ Leave(h, "sending")
    BY <1>12 DEF Send, Tracked
  <2>2. \A g \in InfoHash \ {h} :
           goroutines'[g]["sending"] = goroutines[g]["sending"]
    BY <2>1, SendDownloads
  <2>3. \A g \in InfoHash : InHand(g) => InHand(g)'
    <3>1. drain \in Seq(InfoHash)
      BY DEF TypeOK
    <3>2. /\ \E i \in DOMAIN drain' : drain'[i] = h
          /\ \A g : (\E i \in DOMAIN drain : drain[i] = g) =>
                     \E i \in DOMAIN drain' : drain'[i] = g
      BY <2>1, <3>1, DrainRecords
    <3> QED
      BY <2>2, <3>2 DEF InHand
  <2>4. \A g \in cache' : Working(g) => Working(g)'
    BY <2>1, <2>3 DEF Working, Settled, TypeOK
  <2> QED
    BY <2>1, <2>4, WorkingFrame
<1> QED
  BY <1>1, <1>2, <1>3, <1>4, <1>5, <1>6, <1>7, <1>8, <1>9, <1>10, <1>11, <1>12,
     SinkAssumption DEF Next, SinkAssumption

-----------------------------------------------------------------------------
(***************************************************************************)
(* The theorems                                                            *)
(***************************************************************************)

\* The inductive invariant holds in every reachable state.
THEOREM SinkInvHolds == Spec => []SinkInv
<1>1. Init => SinkInv
  <2> SUFFICES ASSUME Init PROVE SinkInv
    OBVIOUS
  <2>1. TypeOK
    <3>1. IncomingOK
      BY DEF Init, IncomingOK, Tracked
    <3>2. queued \in [InfoHash -> Nat]
      BY DEF Init
    <3>3. goroutines \in [InfoHash -> [Phases -> Nat]]
      BY DEF Init
    <3>4. terminated \in BOOLEAN /\ drainMx \in BOOLEAN /\ stop \in BOOLEAN
      BY DEF Init
    <3>5. drain \in Seq(InfoHash)
      BY DEF Init
    <3> QED
      BY <3>1, <3>2, <3>3, <3>4, <3>5 DEF Init, TypeOK, CrawlStates
  <2>2. \A h \in InfoHash, p \in Phases : goroutines[h][p] = 0
    BY DEF Init
  <2>3. OneDownloadPerHash /\ NoSendOnClosed /\ OneSender
    BY <2>2 DEF Init, OneDownloadPerHash, NoSendOnClosed, OneSender, Downloads,
                Tracked, Phases
  <2>4. CacheTracksWork
    BY DEF Init, CacheTracksWork
  <2> QED
    BY <2>1, <2>3, <2>4 DEF SinkInv
<1>2. SinkInv /\ [Next]_vars => SinkInv'
  BY SinkAssumption, TypeStep, GoroutineStep, CacheStep DEF SinkInv, GoroutineInv
<1> QED
  BY <1>1, <1>2, PTL DEF Spec

\* Type correctness: no peer count and no count of goroutines is ever negative,
\* whatever the order of failures, flushes and peer exchange.
THEOREM SinkTypeCorrect == Spec => []TypeOK
  BY SinkInvHolds, PTL DEF SinkInv

\* Sink never fetches an infohash twice at a time and never loses a slot.
THEOREM OneDownloadCorrect == Spec => []OneDownloadPerHash
  BY SinkInvHolds, PTL DEF SinkInv

\* Terminate never closes the drain under a sender.
THEOREM NoSendOnClosedCorrect == Spec => []NoSendOnClosed
  BY SinkInvHolds, PTL DEF SinkInv

\* Until the crawler stops, no infohash stays in the cache without a reason.
THEOREM CacheCorrect == Spec => []CacheTracksWork
  BY SinkInvHolds, PTL DEF SinkInv

-----------------------------------------------------------------------------
(***************************************************************************)
(* The tokens of downloadSem                                               *)
(***************************************************************************)
Counts == [InfoHash -> [Phases -> Nat]]

\* What a holder is.
LEMMA HolderIs ==
    ASSUME NEW f, NEW x
    PROVE  x \in HoldersIn(f) <=>
              \E h \in InfoHash, p \in Holding : \E i \in 1 .. f[h][p] : x = <<h, p, i>>
<1> DEFINE At(h, p) == {<<h, p, i>> : i \in 1 .. f[h][p]}
           All == {At(h, p) : h \in InfoHash, p \in Holding}
<1>1. x \in HoldersIn(f) <=> \E T \in All : x \in T
  BY DEF HoldersIn
<1>2. \A T : T \in All <=> \E h \in InfoHash, p \in Holding : T = At(h, p)
  OBVIOUS
<1>3. \A h, p : x \in At(h, p) <=> \E i \in 1 .. f[h][p] : x = <<h, p, i>>
  OBVIOUS
<1> HIDE DEF At, All
<1> QED
  BY <1>1, <1>2, <1>3

\* A goroutine fewer in a phase that holds a token is a holder fewer.
LEMMA OneHolderLess ==
    ASSUME NEW f \in Counts, NEW g \in Counts,
           NEW h \in InfoHash, NEW p \in Holding,
           f[h][p] > 0, g[h][p] = f[h][p] - 1,
           \A k \in InfoHash, q \in Holding :
               <<k, q>> # <<h, p>> => g[k][q] = f[k][q]
    PROVE  \E x \in HoldersIn(f) : HoldersIn(g) = HoldersIn(f) \ {x}
<1> DEFINE x == <<h, p, f[h][p]>>
<1>1. \A k \in InfoHash, q \in Holding : f[k][q] \in Nat /\ g[k][q] \in Nat
  BY DEF Counts, Holding, Phases
<1>2. x \in HoldersIn(f)
  BY <1>1, HolderIs
<1>3. \A k \in InfoHash, q \in Holding : \A i \in Nat :
         i \in 1 .. g[k][q] <=> i \in 1 .. f[k][q] /\ <<k, q, i>> # x
  BY <1>1
<1>4. ASSUME NEW y
      PROVE  y \in HoldersIn(g) <=> y \in HoldersIn(f) /\ y # x
  <2>1. /\ y \in HoldersIn(g) <=> \E k \in InfoHash, q \in Holding :
                                    \E i \in 1 .. g[k][q] : y = <<k, q, i>>
        /\ y \in HoldersIn(f) <=> \E k \in InfoHash, q \in Holding :
                                    \E i \in 1 .. f[k][q] : y = <<k, q, i>>
    BY HolderIs
  <2>2. \A k \in InfoHash, q \in Holding :
           1 .. g[k][q] \subseteq Nat /\ 1 .. f[k][q] \subseteq Nat
    BY <1>1
  <2> HIDE DEF x
  <2> QED
    BY <1>3, <2>1, <2>2, Zenon
<1> QED
  BY <1>2, <1>4

\* So the holders are counted off one by one, and counted up again.
LEMMA HoldersCounted ==
    ASSUME NEW f \in Counts, NEW g \in Counts,
           NEW h \in InfoHash, NEW p \in Holding,
           f[h][p] > 0, g[h][p] = f[h][p] - 1,
           \A k \in InfoHash, q \in Holding :
               <<k, q>> # <<h, p>> => g[k][q] = f[k][q]
    PROVE  /\ IsFiniteSet(HoldersIn(f)) <=> IsFiniteSet(HoldersIn(g))
           /\ IsFiniteSet(HoldersIn(f)) =>
                Cardinality(HoldersIn(f)) = Cardinality(HoldersIn(g)) + 1
<1>1. PICK x \in HoldersIn(f) : HoldersIn(g) = HoldersIn(f) \ {x}
  BY OneHolderLess
<1>2. HoldersIn(f) = HoldersIn(g) \cup {x}
  BY <1>1
<1>3. ASSUME IsFiniteSet(HoldersIn(f))
      PROVE  /\ IsFiniteSet(HoldersIn(g))
             /\ Cardinality(HoldersIn(f)) = Cardinality(HoldersIn(g)) + 1
  <2>1. Cardinality(HoldersIn(f)) \in Nat
    BY <1>3, FS_CardinalityType
  <2>2. /\ IsFiniteSet(HoldersIn(g))
        /\ Cardinality(HoldersIn(g)) = Cardinality(HoldersIn(f)) - 1
    BY <1>1, <1>3, FS_RemoveElement
  <2> QED
    BY <2>1, <2>2
<1>4. ASSUME IsFiniteSet(HoldersIn(g))
      PROVE  IsFiniteSet(HoldersIn(f))
  BY <1>2, <1>4, FS_AddElement
<1> QED
  BY <1>3, <1>4

\* Only the phases that hold a token matter.
LEMMA SameHolders ==
    ASSUME NEW f, NEW g,
           \A h \in InfoHash, p \in Holding : g[h][p] = f[h][p]
    PROVE  HoldersIn(g) = HoldersIn(f)
<1>1. ASSUME NEW x PROVE x \in HoldersIn(g) <=> x \in HoldersIn(f)
  BY HolderIs
<1> QED
  BY <1>1

\* The tokens taken are counted, whatever the number of infohashes.
SemInv ==
    /\ IsFiniteSet(HoldersIn(goroutines))
    /\ SemExact

\* The goroutine of h drops its token with its phase.
LEMMA HolderLeaves ==
    ASSUME TypeOK, SemInv, NEW h \in InfoHash, NEW p \in Holding, Leave(h, p)
    PROVE  /\ IsFiniteSet(HoldersIn(goroutines'))
           /\ sem - 1 = Cardinality(HoldersIn(goroutines'))
<1>1. /\ goroutines \in Counts /\ goroutines' \in Counts /\ goroutines[h][p] > 0
      /\ goroutines'[h][p] = goroutines[h][p] - 1
      /\ \A k \in InfoHash, q \in Holding :
             <<k, q>> # <<h, p>> => goroutines'[k][q] = goroutines[k][q]
  <2>1. p \in Phases /\ Holding \subseteq Phases
    BY DEF Holding, Phases
  <2>2. /\ goroutines' \in Counts /\ goroutines[h][p] > 0
        /\ goroutines'[h][p] = goroutines[h][p] - 1
        /\ \A r \in Phases \ {p} : goroutines'[h][r] = goroutines[h][r]
        /\ \A g \in InfoHash \ {h} : goroutines'[g] = goroutines[g]
    BY <2>1, LeaveCounts DEF Counts
  <2>3. goroutines \in Counts
    BY DEF TypeOK, Counts
  <2> QED
    BY <2>1, <2>2, <2>3
<1>2. /\ IsFiniteSet(HoldersIn(goroutines'))
      /\ sem = Cardinality(HoldersIn(goroutines')) + 1
  BY <1>1, HoldersCounted DEF SemInv, SemExact
<1>3. Cardinality(HoldersIn(goroutines')) \in Nat
  BY <1>2, FS_CardinalityType
<1> QED
  BY <1>2, <1>3

\* The goroutine of h changes phase: it takes a token, drops it or keeps it.
LEMMA HolderMoves ==
    ASSUME TypeOK, SemInv, NEW h \in InfoHash, NEW p \in Phases, NEW q \in Phases,
           p # q, Move(h, p, q)
    PROVE  /\ IsFiniteSet(HoldersIn(goroutines'))
           /\ Cardinality(HoldersIn(goroutines')) =
                 sem - (IF p \in Holding THEN 1 ELSE 0)
                     + (IF q \in Holding THEN 1 ELSE 0)
<1> DEFINE mid == [goroutines EXCEPT ![h][p] = @ - 1]
<1>1. /\ goroutines \in Counts /\ goroutines' \in Counts /\ mid \in Counts
      /\ goroutines[h][p] > 0
      /\ mid[h][p] = goroutines[h][p] - 1
      /\ goroutines'[h][q] = mid[h][q] + 1
      /\ \A k \in InfoHash, r \in Phases :
            /\ <<k, r>> # <<h, p>> => mid[k][r] = goroutines[k][r]
            /\ <<k, r>> # <<h, q>> => goroutines'[k][r] = mid[k][r]
  <2>1. mid \in Counts /\ goroutines \in Counts
    BY DEF Move, TypeOK, Counts
  <2>2. /\ goroutines' \in Counts /\ goroutines[h][p] > 0
        /\ goroutines'[h][p] = goroutines[h][p] - 1
        /\ goroutines'[h][q] = goroutines[h][q] + 1
        /\ \A r \in Phases \ {p, q} : goroutines'[h][r] = goroutines[h][r]
        /\ \A g \in InfoHash \ {h} : goroutines'[g] = goroutines[g]
    BY MoveCounts DEF Counts
  <2>3. /\ mid[h][p] = goroutines[h][p] - 1
        /\ \A r \in Phases \ {p} : mid[h][r] = goroutines[h][r]
        /\ \A g \in InfoHash \ {h} : mid[g] = goroutines[g]
    BY <2>1 DEF Counts
  <2> HIDE DEF mid
  <2> QED
    BY <2>1, <2>2, <2>3
<1> HIDE DEF mid
<1>2. Holding \subseteq Phases
  BY DEF Holding, Phases
<1>3. \A k \in InfoHash, r \in Phases : mid[k][r] \in Nat /\ goroutines'[k][r] \in Nat
  BY <1>1 DEF Counts
<1>4. /\ IsFiniteSet(HoldersIn(mid))
      /\ Cardinality(HoldersIn(mid)) = sem - (IF p \in Holding THEN 1 ELSE 0)
  <2>1. IsFiniteSet(HoldersIn(goroutines)) /\ sem = Cardinality(HoldersIn(goroutines))
    BY DEF SemInv, SemExact
  <2>2. CASE p \in Holding
    <3>1. IsFiniteSet(HoldersIn(mid)) /\ sem = Cardinality(HoldersIn(mid)) + 1
      BY <1>1, <1>2, <2>1, <2>2, HoldersCounted
    <3>2. Cardinality(HoldersIn(mid)) \in Nat
      BY <3>1, FS_CardinalityType
    <3> QED
      BY <2>2, <3>1, <3>2
  <2>3. CASE p \notin Holding
    <3>1. \A k \in InfoHash, r \in Holding : mid[k][r] = goroutines[k][r]
      BY <1>1, <1>2, <2>3
    <3>2. HoldersIn(mid) = HoldersIn(goroutines)
      BY <3>1, SameHolders
    <3> QED
      BY <2>1, <2>3, <3>2 DEF TypeOK
  <2> QED
    BY <2>2, <2>3
<1>5. CASE q \in Holding
  <2>1. goroutines'[h][q] > 0 /\ mid[h][q] = goroutines'[h][q] - 1
    BY <1>1, <1>3
  <2>2. \A k \in InfoHash, r \in Holding :
           <<k, r>> # <<h, q>> => mid[k][r] = goroutines'[k][r]
    BY <1>1, <1>2
  <2>3. /\ IsFiniteSet(HoldersIn(goroutines'))
        /\ Cardinality(HoldersIn(goroutines')) = Cardinality(HoldersIn(mid)) + 1
    <3> DEFINE f == goroutines'
    <3>1. /\ f \in Counts /\ mid \in Counts /\ f[h][q] > 0 /\ mid[h][q] = f[h][q] - 1
          /\ \A k \in InfoHash, r \in Holding :
                <<k, r>> # <<h, q>> => mid[k][r] = f[k][r]
      BY <1>1, <2>1, <2>2
    <3> HIDE DEF f
    <3>2. /\ IsFiniteSet(HoldersIn(f))
          /\ Cardinality(HoldersIn(f)) = Cardinality(HoldersIn(mid)) + 1
      BY <1>4, <1>5, <3>1, HoldersCounted
    <3> QED
      BY <3>2 DEF f
  <2> QED
    BY <1>4, <1>5, <2>3
<1>6. CASE q \notin Holding
  <2>1. \A k \in InfoHash, r \in Holding : goroutines'[k][r] = mid[k][r]
    BY <1>1, <1>2, <1>6
  <2>2. HoldersIn(goroutines') = HoldersIn(mid)
    BY <2>1, SameHolders
  <2> QED
    BY <1>4, <1>6, <2>2 DEF TypeOK
<1> QED
  BY <1>5, <1>6

\* Every step of the loop and of the goroutines keeps the tokens exact.
LEMMA SemStep ==
    ASSUME SinkInv, SemInv, [Next]_vars
    PROVE  SemInv'
<1>0. TypeOK /\ sem \in Int /\ IsFiniteSet(HoldersIn(goroutines))
      /\ sem <= MaxConcurrent /\ sem = Cardinality(HoldersIn(goroutines))
  BY DEF SinkInv, TypeOK, SemInv, SemExact
<1> DEFINE SemGoal ==
             /\ IsFiniteSet(HoldersIn(goroutines'))
             /\ sem' <= MaxConcurrent
             /\ sem' = Cardinality(HoldersIn(goroutines'))
<1> SUFFICES SemGoal
  BY DEF SemInv, SemExact, HoldersIn
<1> USE <1>0, SinkAssumption
<1>1. CASE \/ \E h \in InfoHash, n \in 0 .. MaxPeers :
                 RefusedResult(h, n) \/ KnownResult(h, n)
           \/ \E accepted \in BOOLEAN : Drained(accepted)
           \/ CloseStop \/ CrawlReturns \/ Terminate \/ TerminateManager
           \/ \E h \in InfoHash : Expire(h) \/ OnAck(h)
           \/ \E h \in InfoHash, n \in 1 .. MaxPeers : OnPeers(h, n)
           \/ UNCHANGED vars
  <2>1. goroutines' = goroutines /\ sem' = sem
    BY <1>1 DEF RefusedResult, KnownResult, Drained, CloseStop, CrawlReturns,
                Terminate, TerminateManager, Expire, OnAck, OnPeers, vars, sinkVars
  <2> QED
    BY <2>1
<1>2. ASSUME NEW h \in InfoHash, NEW n \in 0 .. MaxPeers, NewResult(h, n)
      PROVE  SemGoal
  <2>1. \A k \in InfoHash, r \in Holding : goroutines'[k][r] = goroutines[k][r]
    BY <1>2 DEF NewResult, TypeOK, Holding, Phases
  <2>2. sem' = sem
    BY <1>2 DEF NewResult
  <2> QED
    BY <2>1, <2>2, SameHolders
<1>3. ASSUME NEW h \in InfoHash, Download(h)
      PROVE  SemGoal
  <2>1. sem' = sem
    BY <1>3 DEF Download
  <2>2. CASE Move(h, "spawned", "waiting")
    BY <2>1, <2>2, HolderMoves DEF SemInv, Phases, Holding
  <2>3. CASE Leave(h, "spawned")
    <3>1. \A k \in InfoHash, r \in Holding : goroutines'[k][r] = goroutines[k][r]
      BY <2>3, LeaveCounts DEF Holding, Phases
    <3> QED
      BY <2>1, <3>1, SameHolders
  <2> QED
    BY <1>3, <2>2, <2>3 DEF Download
<1>4. ASSUME NEW h \in InfoHash, AcquireSem(h) \/ LeechSucceeds(h)
      PROVE  SemGoal
  BY <1>4, HolderMoves DEF AcquireSem, LeechSucceeds, SemInv, Phases, Holding,
                           SinkAssumption
<1>5. ASSUME NEW h \in InfoHash, LeechFails(h)
      PROVE  SemGoal
  BY <1>5, HolderMoves, HolderLeaves
     DEF LeechFails, TokenAfterFailure, SemInv, Phases, Holding, SinkAssumption
<1>6. ASSUME NEW h \in InfoHash, LeechError(h)
      PROVE  SemGoal
  BY <1>6, HolderMoves, HolderLeaves
     DEF LeechError, SemInv, Phases, Holding, SinkAssumption
<1>7. ASSUME NEW h \in InfoHash, Flush(h)
      PROVE  SemGoal
  BY <1>7, HolderMoves, HolderLeaves
     DEF Flush, SemInv, Phases, Holding, SinkAssumption
<1>8. ASSUME NEW h \in InfoHash, Send(h)
      PROVE  SemGoal
  BY <1>8, HolderLeaves DEF Send, SemInv, Phases, Holding, SinkAssumption
<1> QED
  BY <1>1, <1>2, <1>3, <1>4, <1>5, <1>6, <1>7, <1>8 DEF Next

\* The tokens taken from downloadSem are those of the goroutines at work, for any
\* number of infohashes and tokens: no early return loses one.
THEOREM SemCorrect == Spec => []SemExact
<1>1. Init => SemInv
  <2> SUFFICES ASSUME Init PROVE SemInv
    OBVIOUS
  <2>1. \A h \in InfoHash, p \in Holding : goroutines[h][p] = 0
    BY DEF Init, Holding, Phases
  <2>2. HoldersIn(goroutines) = {}
    <3>1. \A x : x \notin HoldersIn(goroutines)
      BY <2>1, HolderIs
    <3> QED
      BY <3>1
  <2>3. sem = 0 /\ 0 <= MaxConcurrent
    BY SinkAssumption DEF Init, SinkAssumption
  <2>4. IsFiniteSet(HoldersIn(goroutines)) /\ Cardinality(HoldersIn(goroutines)) = 0
    BY <2>2, FS_EmptySet
  <2> QED
    BY <2>3, <2>4 DEF SemInv, SemExact
<1>2. SinkInv /\ SemInv /\ [Next]_vars => SemInv'
  BY SemStep
<1>3. SemInv => SemExact
  BY DEF SemInv
<1> QED
  BY <1>1, <1>2, <1>3, SinkInvHolds, PTL DEF Spec

=============================================================================
