-------------------------- MODULE PendingRequests --------------------------
(***************************************************************************)
(* The table of outstanding get_peers queries of one IndexingService       *)
(* (dhtc-client/indexingService.go).                                       *)
(*                                                                         *)
(* Three kinds of goroutine touch the table, all under requestsMu:         *)
(*   - the transport's reader, which runs the message handlers one after   *)
(*     the other: requestPeers (called for each sampled infohash) and      *)
(*     onGetPeersResponse;                                                 *)
(*   - the index goroutine, which expires old requests every interval;     *)
(*   - callers of Status, which expire before they count.                  *)
(* requestPeers reads the clock BEFORE it takes the lock and gives the     *)
(* lock back BEFORE it hands the query to the transport, so it is three    *)
(* steps of the model; the others hold the lock from end to end.           *)
(*                                                                         *)
(* The maps of the code are functions whose domain is the set of keys.     *)
(* Time is counted in ticks; 0 stands for the zero time.Time.              *)
(***************************************************************************)
EXTENDS Naturals, FiniteSets, Sequences

CONSTANTS
    InfoHash,      \* the infohashes that samples may contain
    NumTIDs,       \* transaction IDs: 2^16 in the code
    MaxPending,    \* maxPendingGetPeersRequests
    MaxPerHash,    \* maxPendingRequestsPerInfoHash
    Timeout,       \* getPeersRequestTimeout, in ticks
    SendCap,       \* capacity of the transport's sendChan
    MaxClock,      \* bound of the model: last instant
    MaxCalls       \* bound of the model: calls of requestPeers

ASSUME PendingAssumption ==
    /\ NumTIDs \in Nat /\ MaxPending \in Nat /\ MaxPerHash \in Nat
    /\ MaxPending < NumTIDs
    /\ 0 < MaxPerHash
    /\ Timeout \in Nat \ {0}
    /\ SendCap \in Nat /\ MaxClock \in Nat /\ MaxCalls \in Nat

VARIABLES
    clock,              \* time.Now()
    stopped,            \* is.done is closed
    counter,            \* is.counter, the next transaction ID to try
    getPeersRequests,   \* transaction ID -> [infoHash, createdAt]
    pendingInfoHashes,  \* infohash -> number of its outstanding requests
    nextRequestExpiry,  \* a time before which no request can expire
    reader,             \* where the reader goroutine is in requestPeers
    sendChan,           \* queries queued in the transport
    wire,               \* queries sent whose reply may still arrive
    results,            \* <<infohash asked for, infohash reported>> of OnResult
    late,               \* some reply was a duplicate, or came after the timeout
    calls               \* calls of requestPeers so far

vars == <<clock, stopped, counter, getPeersRequests, pendingInfoHashes,
          nextRequestExpiry, reader, sendChan, wire, results, late, calls>>

TIDs == 0 .. (NumTIDs - 1)
Instants == 0 .. (MaxClock + Timeout)
Entries == [infoHash : InfoHash, createdAt : Nat]
Queries == [tid : TIDs, infoHash : InfoHash, at : Nat]

Idle == [pc |-> "idle"]
Locking(h, now) == [pc |-> "locking", infoHash |-> h, now |-> now]
Sending(h, now, t) ==
    [pc |-> "sending", infoHash |-> h, now |-> now, tid |-> t]
Readers ==
    {Idle} \cup [pc : {"locking"}, infoHash : InfoHash, now : Nat]
           \cup [pc : {"sending"}, infoHash : InfoHash, now : Nat, tid : TIDs]

Init ==
    /\ clock = 1
    /\ stopped = FALSE
    /\ counter = 0
    /\ getPeersRequests = [t \in {} |-> 0]
    /\ pendingInfoHashes = [h \in {} |-> 0]
    /\ nextRequestExpiry = 0
    /\ reader = Idle
    /\ sendChan = <<>>
    /\ wire = {}
    /\ results = {}
    /\ late = FALSE
    /\ calls = 0

-----------------------------------------------------------------------------
(***************************************************************************)
(* The helpers that run with requestsMu held.                              *)
(***************************************************************************)

\* A read of a Go map: an absent key counts zero.
Count(pending, h) == IF h \in DOMAIN pending THEN pending[h] ELSE 0

RequestsFor(h, S) == {t \in S : getPeersRequests[t].infoHash = h}

RequestsWithout(S) ==
    [t \in DOMAIN getPeersRequests \ S |-> getPeersRequests[t]]

\* A bug: the counter of the infohash is left alone.
PendingLeaked(S) == pendingInfoHashes

\* A bug: the key of an infohash stays in the map when its counter is zero.
PendingZeroKept(S) ==
    [h \in DOMAIN pendingInfoHashes |->
        pendingInfoHashes[h] - Cardinality(RequestsFor(h, S))]

\* removeGetPeersRequestLocked, called for every ID of S: the counter of an
\* infohash goes down once per removed request and its key goes away at zero.
PendingWithout(S) ==
    LET Removed(h) == Cardinality(RequestsFor(h, S))
    IN  [h \in {g \in DOMAIN pendingInfoHashes :
                    pendingInfoHashes[g] > Removed(g)} |->
            pendingInfoHashes[h] - Removed(h)]

ExpiresAt(t) == getPeersRequests[t].createdAt + Timeout

TooEarly(now) == nextRequestExpiry # 0 /\ now < nextRequestExpiry

\* The requests that expireOldGetPeersRequestsLocked(now) removes.
Expired(now) ==
    IF TooEarly(now) THEN {}
    ELSE {t \in DOMAIN getPeersRequests : ExpiresAt(t) <= now}

Kept(now) == DOMAIN getPeersRequests \ Expired(now)

\* A bug: the loop keeps the last expiry time it saw, not the earliest.
NextExpiryLatest(now, e) ==
    IF TooEarly(now) THEN e = nextRequestExpiry
    ELSE IF Kept(now) = {} THEN e = 0
    ELSE /\ \E t \in Kept(now) : e = ExpiresAt(t)
         /\ \A t \in Kept(now) : ExpiresAt(t) <= e

\* e is the value that expireOldGetPeersRequestsLocked(now) leaves in
\* nextRequestExpiry: the earliest expiry time of what remains.
NextExpiry(now, e) ==
    IF TooEarly(now) THEN e = nextRequestExpiry
    ELSE IF Kept(now) = {} THEN e = 0
    ELSE /\ \E t \in Kept(now) : e = ExpiresAt(t)
         /\ \A t \in Kept(now) : e <= ExpiresAt(t)

\* The search loop of requestPeers accepts an ID that is not in the table, or
\* whose entry has outlived the timeout.
Usable(t, now) == t \in Kept(now) => ExpiresAt(t) <= now

\* A bug: the ID under the counter is taken without looking at the table.
FirstUsableBlind(t, now) == t = counter

\* t is the ID the search loop stops at, counting up from is.counter.
FirstUsable(t, now) ==
    \E k \in TIDs :
        /\ t = (counter + k) % NumTIDs
        /\ Usable(t, now)
        /\ \A j \in 0 .. (k - 1) : ~Usable((counter + j) % NumTIDs, now)

-----------------------------------------------------------------------------
(***************************************************************************)
(* requestPeers, run by the reader.                                        *)
(***************************************************************************)

\* The check of is.stopped() and now := time.Now(), before the lock.
RequestPeers(h) ==
    /\ reader = Idle
    /\ ~stopped
    /\ calls < MaxCalls
    /\ calls' = calls + 1
    /\ reader' = Locking(h, clock)
    /\ UNCHANGED <<clock, stopped, counter, getPeersRequests, pendingInfoHashes,
                   nextRequestExpiry, sendChan, wire, results, late>>

\* expireOldGetPeersRequestsLocked(now), as a step.
Expire(now) ==
    /\ getPeersRequests' = RequestsWithout(Expired(now))
    /\ pendingInfoHashes' = PendingWithout(Expired(now))
    /\ \E e \in Instants : NextExpiry(now, e) /\ nextRequestExpiry' = e

\* Two requests for the infohash are already outstanding.
Saturated(h, now) == Count(PendingWithout(Expired(now)), h) >= MaxPerHash

\* A bug: off by one in the test of the table's size.
TableFullOffByOne(now) == Cardinality(Kept(now)) > MaxPending

TableFull(now) == Cardinality(Kept(now)) >= MaxPending

RequestDeduped ==
    /\ reader.pc = "locking"
    /\ Saturated(reader.infoHash, reader.now)
    /\ Expire(reader.now)
    /\ reader' = Idle
    /\ UNCHANGED <<clock, stopped, counter, sendChan, wire, results, late,
                   calls>>

RequestRejected ==
    /\ reader.pc = "locking"
    /\ ~Saturated(reader.infoHash, reader.now)
    /\ TableFull(reader.now)
    /\ Expire(reader.now)
    /\ reader' = Idle
    /\ UNCHANGED <<clock, stopped, counter, sendChan, wire, results, late,
                   calls>>

\* The entry, its counter and the expiry time that covers it.
Insert(t, h, now) ==
    LET pending == PendingWithout(Expired(now))
    IN  /\ getPeersRequests' =
             [u \in Kept(now) \cup {t} |->
                 IF u = t THEN [infoHash |-> h, createdAt |-> now]
                 ELSE getPeersRequests[u]]
        /\ pendingInfoHashes' =
             [g \in DOMAIN pending \cup {h} |->
                 IF g = h THEN Count(pending, h) + 1 ELSE pending[g]]
        /\ \E e \in Instants :
             /\ NextExpiry(now, e)
             /\ nextRequestExpiry' =
                   IF e = 0 \/ now + Timeout < e THEN now + Timeout ELSE e

RequestInserted ==
    /\ reader.pc = "locking"
    /\ ~Saturated(reader.infoHash, reader.now)
    /\ ~TableFull(reader.now)
    /\ \E t \in TIDs :
         /\ FirstUsable(t, reader.now)
         /\ counter' = (t + 1) % NumTIDs
         /\ Insert(t, reader.infoHash, reader.now)
         /\ reader' = Sending(reader.infoHash, reader.now, t)
    /\ UNCHANGED <<clock, stopped, sendChan, wire, results, late, calls>>

\* SendMessage returned true: the query is in the transport's queue.
SendAccepted ==
    /\ reader.pc = "sending"
    /\ Len(sendChan) < SendCap
    /\ sendChan' = Append(sendChan, [tid |-> reader.tid,
                                     infoHash |-> reader.infoHash,
                                     at |-> reader.now])
    /\ reader' = Idle
    /\ UNCHANGED <<clock, stopped, counter, getPeersRequests, pendingInfoHashes,
                   nextRequestExpiry, wire, results, late, calls>>

\* SendMessage returned false, the queue being full or the transport stopped:
\* the entry is taken back unless it expired in the meantime.
SendRefused ==
    /\ reader.pc = "sending"
    /\ Len(sendChan) = SendCap \/ stopped
    /\ LET S == {reader.tid} \cap DOMAIN getPeersRequests
       IN  /\ getPeersRequests' = RequestsWithout(S)
           /\ pendingInfoHashes' = PendingWithout(S)
    /\ reader' = Idle
    /\ UNCHANGED <<clock, stopped, counter, nextRequestExpiry, sendChan, wire,
                   results, late, calls>>

-----------------------------------------------------------------------------
(***************************************************************************)
(* The transport, the network and onGetPeersResponse.                      *)
(***************************************************************************)

\* sendLoop writes the oldest queued query to the socket.
SendLoop ==
    /\ sendChan # <<>>
    /\ sendChan' = Tail(sendChan)
    /\ wire' = wire \cup {Head(sendChan)}
    /\ UNCHANGED <<clock, stopped, counter, getPeersRequests, pendingInfoHashes,
                   nextRequestExpiry, reader, results, late, calls>>

\* The query or its reply is lost, or the reply carries no token, which makes
\* onMessage dispatch it to another handler.
Lose(q) ==
    /\ wire' = wire \ {q}
    /\ UNCHANGED <<clock, stopped, counter, getPeersRequests, pendingInfoHashes,
                   nextRequestExpiry, reader, sendChan, results, late, calls>>

\* A reply to q reaches the reader. withValues: it names peers. again: the
\* network will deliver it once more.
OnGetPeersResponse(q, withValues, again) ==
    LET known == q.tid \in DOMAIN getPeersRequests
        S == {q.tid} \cap DOMAIN getPeersRequests
    IN  /\ reader = Idle
        /\ ~stopped
        /\ late' = (late \/ again \/ q.at + Timeout <= clock)
        /\ wire' = IF again THEN wire ELSE wire \ {q}
        /\ getPeersRequests' = RequestsWithout(S)
        /\ pendingInfoHashes' = PendingWithout(S)
        /\ results' = IF known /\ withValues
                      THEN results \cup
                           {<<q.infoHash, getPeersRequests[q.tid].infoHash>>}
                      ELSE results
        /\ UNCHANGED <<clock, stopped, counter, nextRequestExpiry, reader,
                       sendChan, calls>>

-----------------------------------------------------------------------------
(***************************************************************************)
(* The other goroutines.                                                   *)
(***************************************************************************)

\* expireOldGetPeersRequests, called by runMaintenance until the service stops.
RunMaintenance ==
    /\ ~stopped
    /\ Expire(clock)
    /\ UNCHANGED <<clock, stopped, counter, reader, sendChan, wire, results,
                   late, calls>>

\* pendingGetPeersRequests, called by Status at any time.
Status ==
    /\ Expire(clock)
    /\ UNCHANGED <<clock, stopped, counter, reader, sendChan, wire, results,
                   late, calls>>

Terminate ==
    /\ ~stopped
    /\ stopped' = TRUE
    /\ UNCHANGED <<clock, counter, getPeersRequests, pendingInfoHashes,
                   nextRequestExpiry, reader, sendChan, wire, results, late,
                   calls>>

Tick ==
    /\ clock < MaxClock
    /\ clock' = clock + 1
    /\ UNCHANGED <<stopped, counter, getPeersRequests, pendingInfoHashes,
                   nextRequestExpiry, reader, sendChan, wire, results, late,
                   calls>>

Next ==
    \/ \E h \in InfoHash : RequestPeers(h)
    \/ RequestDeduped
    \/ RequestRejected
    \/ RequestInserted
    \/ SendAccepted
    \/ SendRefused
    \/ SendLoop
    \/ \E q \in wire : Lose(q)
    \/ \E q \in wire, withValues, again \in BOOLEAN :
          OnGetPeersResponse(q, withValues, again)
    \/ RunMaintenance
    \/ Status
    \/ Terminate
    \/ Tick

Spec == Init /\ [][Next]_vars

-----------------------------------------------------------------------------
(***************************************************************************)
(* Properties                                                              *)
(***************************************************************************)

\* The type of every variable; no infohash is kept with a count of zero.
TypeOK ==
    /\ clock \in Nat
    /\ stopped \in BOOLEAN
    /\ counter \in TIDs
    /\ DOMAIN getPeersRequests \subseteq TIDs
    /\ getPeersRequests \in [DOMAIN getPeersRequests -> Entries]
    /\ DOMAIN pendingInfoHashes \subseteq InfoHash
    /\ pendingInfoHashes \in [DOMAIN pendingInfoHashes -> Nat \ {0}]
    /\ nextRequestExpiry \in Nat
    /\ reader \in Readers
    /\ sendChan \in Seq(Queries)
    /\ wire \subseteq Queries
    /\ results \subseteq InfoHash \X InfoHash
    /\ late \in BOOLEAN
    /\ calls \in Nat

\* The counter that requestPeers consults for an infohash is the number of its
\* requests in the table, whichever way the others left it: by a reply, by
\* expiry on any goroutine, or because the send was refused.
AccountingExact ==
    \A h \in InfoHash :
        Count(pendingInfoHashes, h)
            = Cardinality(RequestsFor(h, DOMAIN getPeersRequests))

\* The table never holds more than maxPendingGetPeersRequests, so the search
\* for a transaction ID, which runs under the lock, always ends; and no
\* infohash has more than maxPendingRequestsPerInfoHash requests.
TableBounded ==
    /\ Cardinality(DOMAIN getPeersRequests) <= MaxPending
    /\ \A h \in InfoHash :
          Cardinality(RequestsFor(h, DOMAIN getPeersRequests)) <= MaxPerHash

\* The early return of expireOldGetPeersRequestsLocked never hides an expired
\* request: nextRequestExpiry is at or before the expiry time of each of them.
ExpiryCovers ==
    \A t \in DOMAIN getPeersRequests :
        nextRequestExpiry # 0 /\ nextRequestExpiry <= ExpiresAt(t)

\* A transaction ID is not given to another request while its own may still be
\* answered in time: an entry that is replaced had outlived the timeout.
LiveNeverOverwritten ==
    [][\A t \in DOMAIN getPeersRequests \cap DOMAIN getPeersRequests' :
          \/ getPeersRequests'[t] = getPeersRequests[t]
          \/ ExpiresAt(t) <= clock]_vars

\* As long as every reply came once and before the timeout, peers are reported
\* for the infohash that was asked for, although the transaction IDs wrap around
\* and replies overtake each other.
RepliesMatchQueries == late \/ \A r \in results : r[1] = r[2]

\* requestPeers gives up on an infohash only if enough queries, for that infohash
\* or in all, were unexpired at the time at which the call read the clock: neither
\* the early return of the sweep nor a counter left behind refuses an infohash, so
\* a call that begins after the timeouts have passed is not refused. The time is
\* read before the lock: a call that waits for the lock past a timeout may still
\* refuse on account of requests that expired while it waited, and this property
\* does not exclude it.
RefusalJustified ==
    [][reader.pc = "locking" /\ reader' = Idle =>
          LET live == {t \in DOMAIN getPeersRequests :
                          reader.now < ExpiresAt(t)}
          IN  \/ Cardinality(RequestsFor(reader.infoHash, live)) >= MaxPerHash
              \/ Cardinality(live) >= MaxPending]_vars

=============================================================================
