----------------------- MODULE PendingRequestsProofs -----------------------
(***************************************************************************)
(* Proofs about PendingRequests, for every table size, timeout, number of  *)
(* transaction IDs and set of infohashes.                                  *)
(***************************************************************************)
EXTENDS PendingRequests, FiniteSetTheorems, TLAPS

\* The part of the type invariant that is about the two maps.
MapsTyped ==
    /\ DOMAIN getPeersRequests \subseteq TIDs
    /\ getPeersRequests \in [DOMAIN getPeersRequests -> Entries]
    /\ DOMAIN pendingInfoHashes \subseteq InfoHash
    /\ pendingInfoHashes \in [DOMAIN pendingInfoHashes -> Nat \ {0}]

\* A set of transaction IDs is finite, and so are the requests of an infohash.
LEMMA TIDsFinite ==
    ASSUME NEW S \in SUBSET TIDs
    PROVE  /\ IsFiniteSet(S)
           /\ Cardinality(S) \in Nat
           /\ \A h : /\ IsFiniteSet(RequestsFor(h, S))
                     /\ Cardinality(RequestsFor(h, S)) \in Nat
<1>1. IsFiniteSet(TIDs)
  BY FS_Interval, PendingAssumption DEF TIDs
<1>2. \A T \in SUBSET TIDs : IsFiniteSet(T) /\ Cardinality(T) \in Nat
  BY <1>1, FS_Subset, FS_CardinalityType
<1>3. \A h : RequestsFor(h, S) \in SUBSET TIDs
  BY DEF RequestsFor
<1> QED BY <1>2, <1>3

\* What removeGetPeersRequestLocked leaves when it is called for every ID of S:
\* counters that again equal the number of requests that remain.
LEMMA PendingWithoutExact ==
    ASSUME MapsTyped, AccountingExact,
           NEW S \in SUBSET DOMAIN getPeersRequests
    PROVE  /\ DOMAIN PendingWithout(S) \subseteq InfoHash
           /\ PendingWithout(S) \in [DOMAIN PendingWithout(S) -> Nat \ {0}]
           /\ \A h \in InfoHash :
                 Count(PendingWithout(S), h)
                   = Cardinality(RequestsFor(h, DOMAIN getPeersRequests \ S))
<1> DEFINE D == DOMAIN getPeersRequests
           R(h) == Cardinality(RequestsFor(h, S))
<1>1. S \in SUBSET TIDs /\ D \in SUBSET TIDs /\ (D \ S) \in SUBSET TIDs
  BY DEF MapsTyped
<1>2. \A h : R(h) \in Nat
  BY <1>1, TIDsFinite
<1>3. ASSUME NEW h \in InfoHash
      PROVE  Cardinality(RequestsFor(h, D \ S))
               = Cardinality(RequestsFor(h, D)) - R(h)
  <2>1. RequestsFor(h, D \ S) = RequestsFor(h, D) \ RequestsFor(h, S)
    BY DEF RequestsFor
  <2>2. RequestsFor(h, D) \cap RequestsFor(h, S) = RequestsFor(h, S)
    BY DEF RequestsFor
  <2>3. IsFiniteSet(RequestsFor(h, D))
    BY <1>1, TIDsFinite
  <2> QED BY <2>1, <2>2, <2>3, FS_Difference
<1>4. PendingWithout(S) =
        [h \in {g \in DOMAIN pendingInfoHashes : pendingInfoHashes[g] > R(g)} |->
            pendingInfoHashes[h] - R(h)]
  BY DEF PendingWithout
<1>5. /\ DOMAIN PendingWithout(S) \subseteq InfoHash
      /\ PendingWithout(S) \in [DOMAIN PendingWithout(S) -> Nat \ {0}]
  <2> HIDE DEF R
  <2> QED BY <1>2, <1>4 DEF MapsTyped
<1>6. ASSUME NEW h \in InfoHash
      PROVE  Count(PendingWithout(S), h)
               = Cardinality(RequestsFor(h, D)) - R(h)
  <2>1. /\ Count(pendingInfoHashes, h) = Cardinality(RequestsFor(h, D))
        /\ Cardinality(RequestsFor(h, D)) \in Nat
        /\ Cardinality(RequestsFor(h, D \ S)) \in Nat
    BY <1>1, TIDsFinite DEF AccountingExact
  <2>2. Cardinality(RequestsFor(h, D)) - R(h) >= 0
    BY <2>1, <1>2, <1>3
  <2> HIDE DEF R
  <2> QED BY <1>2, <1>4, <2>1, <2>2 DEF Count, MapsTyped
<1> QED BY <1>3, <1>5, <1>6

\* The invariant that is inductive: the accounting can only be kept up if an
\* insertion never overwrites, which is what ExpiryCovers is for.
IndInv ==
    /\ TypeOK
    /\ AccountingExact
    /\ ExpiryCovers
    /\ TableBounded
    /\ reader.pc # "idle" => reader.now <= clock

\* The properties of the two maps that a step has to preserve.
MapsOK ==
    /\ MapsTyped
    /\ AccountingExact
    /\ ExpiryCovers
    /\ TableBounded

\* Removing requests, on whichever path, preserves them.
LEMMA RemoveOK ==
    ASSUME MapsOK, nextRequestExpiry \in Nat,
           NEW S \in SUBSET DOMAIN getPeersRequests,
           getPeersRequests' = RequestsWithout(S),
           pendingInfoHashes' = PendingWithout(S),
           \A t \in DOMAIN getPeersRequests \ S :
               /\ nextRequestExpiry' # 0
               /\ nextRequestExpiry' <= ExpiresAt(t)
    PROVE  MapsOK'
<1> DEFINE D == DOMAIN getPeersRequests
<1>1. DOMAIN getPeersRequests' = D \ S
  BY DEF RequestsWithout
<1>2. \A t \in D \ S : getPeersRequests'[t] = getPeersRequests[t]
  BY DEF RequestsWithout
<1>3. MapsTyped'
  <2>1. /\ DOMAIN getPeersRequests' \subseteq TIDs
        /\ getPeersRequests' \in [DOMAIN getPeersRequests' -> Entries]
    BY DEF MapsOK, MapsTyped, RequestsWithout
  <2> QED BY <2>1, PendingWithoutExact DEF MapsOK, MapsTyped
<1>4. \A h : RequestsFor(h, D \ S) = RequestsFor(h, DOMAIN getPeersRequests)'
  BY <1>1, <1>2 DEF RequestsFor
<1>5. AccountingExact'
  BY <1>4, PendingWithoutExact DEF MapsOK, AccountingExact
<1>6. ExpiryCovers'
  BY <1>1, <1>2 DEF MapsOK, ExpiryCovers, ExpiresAt
<1>7. TableBounded'
  <2>1. D \in SUBSET TIDs /\ (D \ S) \in SUBSET TIDs
    BY DEF MapsOK, MapsTyped
  <2>2. /\ Cardinality(D \ S) <= Cardinality(D)
        /\ Cardinality(D \ S) \in Nat /\ Cardinality(D) \in Nat
    BY <2>1, TIDsFinite, FS_Subset
  <2>3. \A h : /\ Cardinality(RequestsFor(h, D \ S))
                    <= Cardinality(RequestsFor(h, D))
               /\ Cardinality(RequestsFor(h, D \ S)) \in Nat
               /\ Cardinality(RequestsFor(h, D)) \in Nat
    <3>1. \A h : RequestsFor(h, D \ S) \in SUBSET RequestsFor(h, D)
      BY DEF RequestsFor
    <3> QED BY <2>1, <3>1, TIDsFinite, FS_Subset
  <2> QED BY <1>1, <1>4, <2>2, <2>3, PendingAssumption DEF MapsOK, TableBounded
<1> QED BY <1>3, <1>5, <1>6, <1>7 DEF MapsOK

\* The expiry time that a sweep leaves is sound for the requests it keeps.
LEMMA NextExpirySound ==
    ASSUME MapsOK, nextRequestExpiry \in Nat, NEW now \in Nat, NEW e,
           NextExpiry(now, e)
    PROVE  /\ e \in Nat
           /\ \A t \in Kept(now) : e # 0 /\ e <= ExpiresAt(t)
<1>1. \A t \in DOMAIN getPeersRequests : ExpiresAt(t) \in Nat \ {0}
  BY PendingAssumption DEF MapsOK, MapsTyped, Entries, ExpiresAt
<1>2. Kept(now) \subseteq DOMAIN getPeersRequests
  BY DEF Kept
<1> QED BY <1>1, <1>2 DEF NextExpiry, MapsOK, ExpiryCovers

\* A whole sweep keeps the maps in order.
LEMMA ExpireOK ==
    ASSUME MapsOK, nextRequestExpiry \in Nat, NEW now \in Nat, Expire(now)
    PROVE  MapsOK' /\ nextRequestExpiry' \in Nat
<1>1. Expired(now) \in SUBSET DOMAIN getPeersRequests
  BY DEF Expired
<1>2. /\ nextRequestExpiry' \in Nat
      /\ \A t \in Kept(now) :
            nextRequestExpiry' # 0 /\ nextRequestExpiry' <= ExpiresAt(t)
  BY NextExpirySound DEF Expire
<1> QED BY <1>1, <1>2, RemoveOK DEF Expire, Kept

\* The search for a transaction ID ends at one that the table does not hold.
LEMMA UsableIsFree ==
    ASSUME MapsOK, nextRequestExpiry \in Nat, NEW now \in Nat,
           NEW t \in TIDs, FirstUsable(t, now)
    PROVE  t \notin Kept(now)
<1>1. \A u \in DOMAIN getPeersRequests : ExpiresAt(u) \in Nat
  BY PendingAssumption DEF MapsOK, MapsTyped, Entries, ExpiresAt
<1>2. Usable(t, now)
  BY DEF FirstUsable
<1> QED BY <1>1, <1>2 DEF Usable, Kept, Expired, TooEarly, MapsOK, ExpiryCovers

\* The entry that requestPeers adds after its sweep keeps the maps in order.
LEMMA InsertOK ==
    ASSUME MapsOK, nextRequestExpiry \in Nat,
           NEW now \in Nat, NEW h \in InfoHash, NEW t \in TIDs,
           ~Saturated(h, now), ~TableFull(now),
           FirstUsable(t, now), Insert(t, h, now)
    PROVE  MapsOK' /\ nextRequestExpiry' \in Nat
<1> DEFINE K == Kept(now)
           P == PendingWithout(Expired(now))
<1>1. t \notin K
  BY UsableIsFree
<1>2. Expired(now) \in SUBSET DOMAIN getPeersRequests /\ K \in SUBSET TIDs
      /\ K = DOMAIN getPeersRequests \ Expired(now)
  BY DEF Expired, Kept, MapsOK, MapsTyped
<1>3. /\ DOMAIN P \subseteq InfoHash
      /\ P \in [DOMAIN P -> Nat \ {0}]
      /\ \A g \in InfoHash : Count(P, g) = Cardinality(RequestsFor(g, K))
  BY <1>2, PendingWithoutExact DEF MapsOK
<1>4. /\ DOMAIN getPeersRequests' = K \cup {t}
      /\ getPeersRequests'[t] = [infoHash |-> h, createdAt |-> now]
      /\ \A u \in K : getPeersRequests'[u] = getPeersRequests[u]
      /\ getPeersRequests' \in [K \cup {t} -> Entries]
  BY <1>1, <1>2 DEF Insert, MapsOK, MapsTyped, Entries
<1>5. /\ DOMAIN pendingInfoHashes' = DOMAIN P \cup {h}
      /\ \A g \in DOMAIN pendingInfoHashes' :
            pendingInfoHashes'[g] = IF g = h THEN Count(P, h) + 1 ELSE P[g]
      /\ pendingInfoHashes' = [g \in DOMAIN P \cup {h} |->
                                 IF g = h THEN Count(P, h) + 1 ELSE P[g]]
  BY DEF Insert
<1>6. \A g \in InfoHash : Count(P, g) \in Nat
  BY <1>2, <1>3, TIDsFinite
<1>7. MapsTyped'
  <2> HIDE DEF P, K
  <2>1. pendingInfoHashes' \in [DOMAIN P \cup {h} -> Nat \ {0}]
    BY <1>3, <1>5, <1>6
  <2> QED BY <1>2, <1>3, <1>4, <1>5, <2>1 DEF MapsTyped
<1>8. \A g \in InfoHash :
        RequestsFor(g, DOMAIN getPeersRequests)'
          = IF g = h THEN RequestsFor(g, K) \cup {t} ELSE RequestsFor(g, K)
  BY <1>1, <1>4 DEF RequestsFor
<1>9. \A g \in InfoHash :
        Cardinality(RequestsFor(g, DOMAIN getPeersRequests))'
          = IF g = h THEN Count(P, g) + 1 ELSE Count(P, g)
  <2>1. \A g : t \notin RequestsFor(g, K)
    BY <1>1 DEF RequestsFor
  <2>2. \A g : Cardinality(RequestsFor(g, K) \cup {t})
                 = Cardinality(RequestsFor(g, K)) + 1
    BY <1>2, <2>1, TIDsFinite, FS_AddElement
  <2> HIDE DEF P, K
  <2> QED BY <1>3, <1>8, <2>2
<1>10. AccountingExact'
  <2> HIDE DEF P, K
  <2> QED BY <1>3, <1>5, <1>9 DEF AccountingExact, Count
<1>11. ExpiryCovers' /\ nextRequestExpiry' \in Nat
  <2>1. PICK e \in Instants :
          /\ NextExpiry(now, e)
          /\ nextRequestExpiry' =
                IF e = 0 \/ now + Timeout < e THEN now + Timeout ELSE e
    BY DEF Insert
  <2>2. e \in Nat /\ \A u \in K : e # 0 /\ e <= ExpiresAt(u)
    BY <2>1, NextExpirySound
  <2>3. \A u \in K : ExpiresAt(u) \in Nat
    BY <1>2, PendingAssumption DEF MapsOK, MapsTyped, Entries, ExpiresAt
  <2>4. /\ \A u \in K : ExpiresAt(u)' = ExpiresAt(u)
        /\ ExpiresAt(t)' = now + Timeout
    BY <1>4 DEF ExpiresAt
  <2> HIDE DEF K
  <2> QED BY <1>4, <2>1, <2>2, <2>3, <2>4, PendingAssumption DEF ExpiryCovers
<1>12. TableBounded'
  <2>1. /\ Cardinality(K \cup {t}) = Cardinality(K) + 1
        /\ Cardinality(K) \in Nat
    BY <1>1, <1>2, TIDsFinite, FS_AddElement
  <2>2. Cardinality(K) < MaxPending
    BY <2>1, PendingAssumption DEF TableFull
  <2>3. Count(P, h) < MaxPerHash
    BY <1>6, PendingAssumption DEF Saturated
  <2>4. \A g \in InfoHash : Count(P, g) <= MaxPerHash
    <3>1. \A g : /\ RequestsFor(g, K)
                       \in SUBSET RequestsFor(g, DOMAIN getPeersRequests)
      BY <1>2 DEF RequestsFor
    <3>2. \A g : Cardinality(RequestsFor(g, K))
                   <= Cardinality(RequestsFor(g, DOMAIN getPeersRequests))
      BY <3>1, TIDsFinite, FS_Subset DEF MapsOK, MapsTyped
    <3>3. \A g : /\ Cardinality(RequestsFor(g, K)) \in Nat
                 /\ Cardinality(RequestsFor(g, DOMAIN getPeersRequests)) \in Nat
      BY <1>2, TIDsFinite DEF MapsOK, MapsTyped
    <3> HIDE DEF P, K
    <3> QED BY <1>3, <3>2, <3>3, PendingAssumption DEF MapsOK, TableBounded
  <2> HIDE DEF P, K
  <2> QED BY <1>4, <1>6, <1>9, <2>1, <2>2, <2>3, <2>4, PendingAssumption
          DEF TableBounded
<1> QED BY <1>7, <1>10, <1>11, <1>12 DEF MapsOK

-----------------------------------------------------------------------------
\* A new service satisfies the inductive invariant.
LEMMA InitIndInv == Init => IndInv
<1> SUFFICES ASSUME Init PROVE IndInv
  OBVIOUS
<1>1. TypeOK
  <2>1. counter \in TIDs
    BY PendingAssumption DEF Init, TIDs
  <2>2. reader \in Readers
    BY DEF Init, Readers
  <2>3. sendChan \in Seq(Queries)
    BY DEF Init
  <2>4. /\ getPeersRequests \in [DOMAIN getPeersRequests -> Entries]
        /\ DOMAIN getPeersRequests \subseteq TIDs
        /\ pendingInfoHashes \in [DOMAIN pendingInfoHashes -> Nat \ {0}]
        /\ DOMAIN pendingInfoHashes \subseteq InfoHash
    BY DEF Init
  <2> QED BY <2>1, <2>2, <2>3, <2>4 DEF Init, TypeOK
<1>2. \A h : RequestsFor(h, DOMAIN getPeersRequests) = {}
  BY DEF Init, RequestsFor
<1>3. DOMAIN getPeersRequests = {}
  BY DEF Init
<1>4. AccountingExact
  BY <1>2, FS_EmptySet DEF Init, AccountingExact, Count
<1>5. TableBounded
  BY <1>2, <1>3, FS_EmptySet, PendingAssumption DEF TableBounded
<1> QED BY <1>1, <1>3, <1>4, <1>5 DEF Init, IndInv, ExpiryCovers, Idle

\* What the lemmas about the maps need of the inductive invariant.
LEMMA IndInvMaps == IndInv => MapsOK /\ nextRequestExpiry \in Nat
BY DEF IndInv, MapsOK, MapsTyped, TypeOK

\* A step that leaves the maps alone.
LEMMA SameMaps ==
    ASSUME MapsOK,
           UNCHANGED <<getPeersRequests, pendingInfoHashes, nextRequestExpiry>>
    PROVE  MapsOK'
BY DEF MapsOK, MapsTyped, AccountingExact, ExpiryCovers, TableBounded, Count,
       RequestsFor, ExpiresAt

\* What is left to show of IndInv' once MapsOK' is known.
RestOK ==
    /\ clock \in Nat
    /\ stopped \in BOOLEAN
    /\ counter \in TIDs
    /\ nextRequestExpiry \in Nat
    /\ reader \in Readers
    /\ sendChan \in Seq(Queries)
    /\ wire \subseteq Queries
    /\ results \subseteq InfoHash \X InfoHash
    /\ late \in BOOLEAN
    /\ calls \in Nat
    /\ reader.pc # "idle" => reader.now <= clock

\* The inductive invariant is the order of the maps and the rest.
LEMMA IndInvSplit == IndInv <=> MapsOK /\ RestOK
BY DEF IndInv, MapsOK, RestOK, MapsTyped, TypeOK

\* A reader inside requestPeers carries an infohash, an instant and an ID.
LEMMA ReaderFields ==
    ASSUME reader \in Readers
    PROVE  /\ reader.pc = "locking" => reader.infoHash \in InfoHash /\ reader.now \in Nat
           /\ reader.pc = "sending" => /\ reader.infoHash \in InfoHash
                                       /\ reader.now \in Nat
                                       /\ reader.tid \in TIDs
BY DEF Readers, Idle

\* A sweep that is the only change of the service's state.
LEMMA ExpireStep ==
    ASSUME MapsOK, RestOK, NEW now \in Nat, Expire(now),
           reader' = reader \/ reader' = Idle,
           UNCHANGED <<clock, stopped, counter, sendChan, wire, results, late,
                       calls>>
    PROVE  MapsOK' /\ RestOK'
<1>1. MapsOK' /\ nextRequestExpiry' \in Nat
  BY ExpireOK DEF RestOK
<1> QED BY <1>1 DEF RestOK, Readers, Idle

\* Taking one request back, which leaves nextRequestExpiry as it is.
LEMMA RemoveOneOK ==
    ASSUME MapsOK, nextRequestExpiry \in Nat, NEW t,
           getPeersRequests' = RequestsWithout({t} \cap DOMAIN getPeersRequests),
           pendingInfoHashes' = PendingWithout({t} \cap DOMAIN getPeersRequests),
           nextRequestExpiry' = nextRequestExpiry
    PROVE  MapsOK'
<1> DEFINE S == {t} \cap DOMAIN getPeersRequests
<1>1. S \in SUBSET DOMAIN getPeersRequests
  OBVIOUS
<1>2. \A u \in DOMAIN getPeersRequests \ S :
        nextRequestExpiry' # 0 /\ nextRequestExpiry' <= ExpiresAt(u)
  BY DEF MapsOK, ExpiryCovers
<1> QED BY <1>1, <1>2, RemoveOK

\* Every step of every goroutine keeps the inductive invariant.
LEMMA NextIndInv == IndInv /\ [Next]_vars => IndInv'
<1> SUFFICES ASSUME MapsOK, RestOK, [Next]_vars PROVE MapsOK' /\ RestOK'
  <2>1. IndInv' <=> MapsOK' /\ RestOK'
    BY IndInvSplit, PTL
  <2> QED BY <2>1, IndInvSplit
<1>1. ASSUME NEW h \in InfoHash, RequestPeers(h) PROVE MapsOK' /\ RestOK'
  <2>1. /\ reader' = [pc |-> "locking", infoHash |-> h, now |-> clock]
        /\ clock' = clock /\ clock \in Nat
    BY <1>1 DEF RequestPeers, Locking, RestOK
  <2>2. reader' \in Readers /\ reader'.now <= clock'
    BY <2>1 DEF Readers
  <2> QED BY <1>1, <2>2, SameMaps DEF RequestPeers, RestOK
<1>2. CASE RequestDeduped
  BY <1>2, ReaderFields, ExpireStep DEF RequestDeduped, RestOK
<1>3. CASE RequestRejected
  BY <1>3, ReaderFields, ExpireStep DEF RequestRejected, RestOK
<1>4. CASE RequestInserted
  <2>1. PICK t \in TIDs :
          /\ FirstUsable(t, reader.now)
          /\ counter' = (t + 1) % NumTIDs
          /\ Insert(t, reader.infoHash, reader.now)
          /\ reader' = Sending(reader.infoHash, reader.now, t)
    BY <1>4 DEF RequestInserted
  <2>2. reader.infoHash \in InfoHash /\ reader.now \in Nat
    BY <1>4, ReaderFields DEF RequestInserted, RestOK
  <2>3. MapsOK' /\ nextRequestExpiry' \in Nat
    BY <1>4, <2>1, <2>2, InsertOK DEF RequestInserted, RestOK
  <2>4. counter' \in TIDs
    BY <2>1, PendingAssumption DEF TIDs
  <2>5. reader' \in Readers /\ reader'.now = reader.now
    BY <2>1, <2>2 DEF Sending, Readers
  <2>6. reader.now <= clock
    BY <1>4 DEF RequestInserted, RestOK
  <2> QED BY <1>4, <2>3, <2>4, <2>5, <2>6 DEF RequestInserted, RestOK
<1>5. CASE SendAccepted
  <2>1. [tid |-> reader.tid, infoHash |-> reader.infoHash, at |-> reader.now]
          \in Queries
    BY <1>5, ReaderFields DEF SendAccepted, RestOK, Queries
  <2>2. sendChan' \in Seq(Queries)
    BY <1>5, <2>1 DEF SendAccepted, RestOK
  <2> QED BY <1>5, <2>2, SameMaps DEF SendAccepted, RestOK, Readers, Idle
<1>6. CASE SendRefused
  <2>1. MapsOK'
    BY <1>6, RemoveOneOK DEF SendRefused, RestOK
  <2> QED BY <1>6, <2>1 DEF SendRefused, RestOK, Readers, Idle
<1>7. CASE SendLoop
  <2>1. Head(sendChan) \in Queries /\ Tail(sendChan) \in Seq(Queries)
    BY <1>7 DEF SendLoop, RestOK
  <2> QED BY <1>7, <2>1, SameMaps DEF SendLoop, RestOK
<1>8. ASSUME NEW q \in wire, Lose(q) PROVE MapsOK' /\ RestOK'
  BY <1>8, SameMaps DEF Lose, RestOK
<1>9. ASSUME NEW q \in wire, NEW withValues \in BOOLEAN, NEW again \in BOOLEAN,
             OnGetPeersResponse(q, withValues, again)
      PROVE  MapsOK' /\ RestOK'
  <2>1. MapsOK'
    BY <1>9, RemoveOneOK DEF OnGetPeersResponse, RestOK
  <2>2. q.infoHash \in InfoHash
    BY DEF RestOK, Queries
  <2>3. q.tid \in DOMAIN getPeersRequests
          => getPeersRequests[q.tid].infoHash \in InfoHash
    BY DEF MapsOK, MapsTyped, Entries
  <2>4. results' \subseteq InfoHash \X InfoHash
    BY <1>9, <2>2, <2>3 DEF OnGetPeersResponse, RestOK
  <2>5. wire' \subseteq Queries
    BY <1>9 DEF OnGetPeersResponse, RestOK
  <2> QED BY <1>9, <2>1, <2>4, <2>5 DEF OnGetPeersResponse, RestOK
<1>10. CASE RunMaintenance
  BY <1>10, ExpireStep DEF RunMaintenance, RestOK
<1>11. CASE Status
  BY <1>11, ExpireStep DEF Status, RestOK
<1>12. CASE Terminate
  BY <1>12, SameMaps DEF Terminate, RestOK
<1>13. CASE Tick
  <2>1. reader \in Readers /\ (reader.pc # "idle" => reader.now \in Nat)
    BY DEF RestOK, Readers, Idle
  <2> QED BY <1>13, <2>1, SameMaps DEF Tick, RestOK
<1>14. CASE UNCHANGED vars
  BY <1>14, SameMaps DEF vars, RestOK
<1> QED BY <1>1, <1>2, <1>3, <1>4, <1>5, <1>6, <1>7, <1>8, <1>9, <1>10, <1>11,
           <1>12, <1>13, <1>14 DEF Next

\* The inductive invariant holds in every reachable state.
THEOREM IndInvHolds == Spec => []IndInv
BY InitIndInv, NextIndInv, PTL DEF Spec

\* Every variable keeps its type, whatever the interleaving of the reader, the
\* index goroutine and the callers of Status.
THEOREM TypeCorrect == Spec => []TypeOK
<1>1. IndInv => TypeOK
  BY DEF IndInv
<1> QED BY <1>1, IndInvHolds, PTL

\* The counters requestPeers consults are exact.
THEOREM AccountingCorrect == Spec => []AccountingExact
<1>1. IndInv => AccountingExact
  BY DEF IndInv
<1> QED BY <1>1, IndInvHolds, PTL

\* The bounds on the table and on the requests of one infohash hold.
THEOREM TableBoundCorrect == Spec => []TableBounded
<1>1. IndInv => TableBounded
  BY DEF IndInv
<1> QED BY <1>1, IndInvHolds, PTL

\* The early return of the sweep hides no expired request.
THEOREM ExpiryCoversCorrect == Spec => []ExpiryCovers
<1>1. IndInv => ExpiryCovers
  BY DEF IndInv
<1> QED BY <1>1, IndInvHolds, PTL

\* An ID changes hands only when the request that held it has outlived the
\* timeout.
THEOREM NoLiveOverwrite == Spec => LiveNeverOverwritten
<1> DEFINE A == \A t \in DOMAIN getPeersRequests \cap DOMAIN getPeersRequests' :
                  \/ getPeersRequests'[t] = getPeersRequests[t]
                  \/ ExpiresAt(t) <= clock
<1>1. ASSUME IndInv, [Next]_vars PROVE A
  <2> MapsOK /\ RestOK
    BY <1>1, IndInvSplit
  <2>1. CASE RequestInserted
    <3>1. PICK t \in TIDs :
            /\ FirstUsable(t, reader.now)
            /\ Insert(t, reader.infoHash, reader.now)
      BY <2>1 DEF RequestInserted
    <3>2. reader.now \in Nat /\ reader.now <= clock /\ clock \in Nat
      BY <2>1, ReaderFields DEF RequestInserted, RestOK
    <3>3. t \notin Kept(reader.now)
      BY <3>1, <3>2, UsableIsFree DEF RestOK
    <3>4. t \in DOMAIN getPeersRequests => ExpiresAt(t) <= reader.now
      BY <3>3 DEF Kept, Expired
    <3>5. t \in DOMAIN getPeersRequests => ExpiresAt(t) \in Nat
      BY PendingAssumption DEF MapsOK, MapsTyped, Entries, ExpiresAt
    <3>6. \A u \in DOMAIN getPeersRequests' :
            u # t => getPeersRequests'[u] = getPeersRequests[u]
      BY <3>1 DEF Insert
    <3> QED BY <3>2, <3>4, <3>5, <3>6
  <2>2. CASE \E S : getPeersRequests' = RequestsWithout(S)
    BY <2>2 DEF RequestsWithout
  <2>3. CASE getPeersRequests' = getPeersRequests
    BY <2>3
  <2>4. \/ RequestInserted
        \/ \E S : getPeersRequests' = RequestsWithout(S)
        \/ getPeersRequests' = getPeersRequests
    BY <1>1 DEF Next, vars, RequestPeers, RequestDeduped, RequestRejected, Expire,
            SendAccepted, SendRefused, SendLoop, Lose, OnGetPeersResponse,
            RunMaintenance, Status, Terminate, Tick
  <2> QED BY <2>1, <2>2, <2>3, <2>4
<1>2. ASSUME IndInv, [Next]_vars PROVE [A]_vars
  BY <1>1, <1>2
<1> QED BY <1>2, IndInvHolds, PTL DEF Spec, LiveNeverOverwritten

\* What a sweep keeps can still be answered at the time it was given: the early
\* return is taken only when nothing has expired.
LEMMA KeptIsLive ==
    ASSUME MapsOK, nextRequestExpiry \in Nat, NEW now \in Nat
    PROVE  Kept(now) = {t \in DOMAIN getPeersRequests : now < ExpiresAt(t)}
<1>1. \A t \in DOMAIN getPeersRequests : ExpiresAt(t) \in Nat
  BY PendingAssumption DEF MapsOK, MapsTyped, Entries, ExpiresAt
<1>2. CASE TooEarly(now)
  <2>1. \A t \in DOMAIN getPeersRequests : now < ExpiresAt(t)
    BY <1>1, <1>2 DEF TooEarly, MapsOK, ExpiryCovers
  <2> QED BY <1>2, <2>1 DEF Kept, Expired
<1>3. CASE ~TooEarly(now)
  BY <1>1, <1>3 DEF Kept, Expired
<1> QED BY <1>2, <1>3

\* requestPeers refuses an infohash only if as many queries as the limits allow
\* were unexpired when the call read the clock.
THEOREM RefusalCorrect == Spec => RefusalJustified
<1> DEFINE Live == {t \in DOMAIN getPeersRequests : reader.now < ExpiresAt(t)}
           A == reader.pc = "locking" /\ reader' = Idle =>
                  LET live == {t \in DOMAIN getPeersRequests :
                                  reader.now < ExpiresAt(t)}
                  IN  \/ Cardinality(RequestsFor(reader.infoHash, live))
                            >= MaxPerHash
                      \/ Cardinality(live) >= MaxPending
<1>1. ASSUME IndInv, [Next]_vars PROVE A
  <2> SUFFICES ASSUME reader.pc = "locking", reader' = Idle
               PROVE  \/ Cardinality(RequestsFor(reader.infoHash, Live))
                            >= MaxPerHash
                      \/ Cardinality(Live) >= MaxPending
    OBVIOUS
  <2> MapsOK /\ RestOK
    BY <1>1, IndInvSplit
  <2>1. reader.now \in Nat /\ reader.infoHash \in InfoHash
    BY ReaderFields DEF RestOK
  <2>2. Kept(reader.now) = Live
    BY <2>1, KeptIsLive DEF RestOK
  <2>3. \/ Saturated(reader.infoHash, reader.now)
        \/ TableFull(reader.now)
    <3>1. reader # Idle /\ reader' # reader /\ reader'.pc = "idle"
      BY DEF Idle
    <3>2. ~RequestInserted
      BY <3>1 DEF RequestInserted, Sending
    <3>3. Next /\ reader.pc # "sending"
      BY <1>1, <3>1 DEF vars
    <3> QED BY <3>1, <3>2, <3>3 DEF Next, RequestPeers, RequestDeduped,
            RequestRejected, SendAccepted, SendRefused, SendLoop, Lose,
            OnGetPeersResponse, RunMaintenance, Status, Terminate, Tick
  <2>4. Expired(reader.now) \in SUBSET DOMAIN getPeersRequests
    BY DEF Expired
  <2>5. Count(PendingWithout(Expired(reader.now)), reader.infoHash)
          = Cardinality(RequestsFor(reader.infoHash, Kept(reader.now)))
    BY <2>1, <2>4, PendingWithoutExact DEF MapsOK, Kept
  <2> QED BY <2>2, <2>3, <2>5 DEF Saturated, TableFull
<1>2. ASSUME IndInv, [Next]_vars PROVE [A]_vars
  BY <1>1, <1>2
<1> QED BY <1>2, IndInvHolds, PTL DEF Spec, RefusalJustified
-----------------------------------------------------------------------------
(***************************************************************************)
(* Replies are credited to the right infohash. The argument: as long as no *)
(* reply was late or came twice, a query that can still be answered in     *)
(* time is the one its transaction ID stands for in the table, wherever it *)
(* is: with the reader, in the transport's queue or on the wire.           *)
(***************************************************************************)
Fresh(q) == clock < q.at + Timeout

Holds(q) ==
    /\ q.tid \in DOMAIN getPeersRequests
    /\ getPeersRequests[q.tid] = [infoHash |-> q.infoHash, createdAt |-> q.at]

Mine == [tid |-> reader.tid, infoHash |-> reader.infoHash, at |-> reader.now]

Places == 1 .. Len(sendChan)

\* Queries are inserted by one reader, in the order of its clock.
NotNewer(q) == q.at <= clock /\ (reader.pc # "idle" => q.at <= reader.now)

\* No two queries that can still be answered in time share an ID, and the table
\* knows each of them. (Two of them on the wire with one ID would be the same.)
Credited ==
    /\ \A r \in results : r[1] = r[2]
    /\ \A q \in wire : NotNewer(q) /\ (Fresh(q) => Holds(q))
    /\ \A i \in Places :
          /\ NotNewer(sendChan[i])
          /\ Fresh(sendChan[i]) => Holds(sendChan[i])
          /\ \A j \in Places : Fresh(sendChan[i]) /\ Fresh(sendChan[j]) /\ i # j
                                  => sendChan[i].tid # sendChan[j].tid
          /\ \A q \in wire : Fresh(sendChan[i]) /\ Fresh(q)
                                  => sendChan[i].tid # q.tid
    /\ reader.pc = "sending" /\ Fresh(Mine) =>
          /\ Holds(Mine)
          /\ \A q \in wire : Fresh(q) => q.tid # reader.tid
          /\ \A i \in Places : Fresh(sendChan[i]) => sendChan[i].tid # reader.tid

MatchInv == late \/ Credited

\* A step that may change the table, the reader and the clock, but neither the
\* queries under way nor the results.
LEMMA CreditedKept ==
    ASSUME MapsOK, RestOK, Credited,
           UNCHANGED <<sendChan, wire, results>>,
           clock' \in Nat, clock <= clock',
           \A q \in Queries : Fresh(q) /\ Holds(q) /\ NotNewer(q)
               /\ (q \in wire \/ \E i \in Places : q = sendChan[i]) => Holds(q)',
           \A q \in Queries : NotNewer(q) => NotNewer(q)',
           reader'.pc = "sending" => reader' = reader /\ (Holds(Mine) => Holds(Mine)')
    PROVE  Credited'
<1>1. /\ wire \subseteq Queries
      /\ \A i \in Places : sendChan[i] \in Queries
      /\ Places' = Places
  BY DEF RestOK, Places
<1>2. \A q \in Queries : Fresh(q)' => Fresh(q)
  BY PendingAssumption DEF Fresh, RestOK, Queries
<1>3. reader'.pc = "sending" => Mine' = Mine /\ reader.pc = "sending" /\ Mine \in Queries
  BY ReaderFields DEF Mine, RestOK, Queries
<1> QED BY <1>1, <1>2, <1>3 DEF Credited

\* A sweep at a time that is not in the future keeps every query that can still
\* be answered in time.
LEMMA SweepKeepsFresh ==
    ASSUME MapsOK, RestOK, NEW now \in Nat, now <= clock, NEW q \in Queries,
           Fresh(q), Holds(q)
    PROVE  q.tid \in Kept(now)
<1>1. ExpiresAt(q.tid) = q.at + Timeout
  BY DEF Holds, ExpiresAt
<1>2. now < ExpiresAt(q.tid)
  BY <1>1, PendingAssumption DEF Fresh, RestOK, Queries
<1> QED BY <1>2, KeptIsLive DEF Holds, RestOK

\* ... and so it keeps what is known of the queries.
LEMMA SweepCredited ==
    ASSUME MapsOK, RestOK, Credited, NEW now \in Nat, now <= clock,
           getPeersRequests' = RequestsWithout(Expired(now)),
           UNCHANGED <<clock, sendChan, wire, results>>,
           reader' = Idle \/ reader' = reader
    PROVE  Credited'
<1>1. ASSUME NEW q \in Queries, Fresh(q), Holds(q)
      PROVE  Holds(q)'
  BY <1>1, SweepKeepsFresh DEF Holds, RequestsWithout, Kept
<1>2. \A q \in Queries : NotNewer(q) => NotNewer(q)'
  BY DEF NotNewer, Idle
<1>3. CASE reader' = Idle
  BY <1>1, <1>2, <1>3, CreditedKept DEF Idle, RestOK
<1>4. CASE reader' = reader /\ ~(reader.pc = "sending" /\ Fresh(Mine))
  <2>1. /\ wire \subseteq Queries
        /\ \A i \in Places : sendChan[i] \in Queries
        /\ Places' = Places /\ Mine' = Mine
    BY <1>4 DEF RestOK, Places, Mine
  <2>2. \A q : Fresh(q)' <=> Fresh(q)
    BY DEF Fresh
  <2> QED BY <1>1, <1>2, <1>4, <2>1, <2>2 DEF Credited
<1>5. CASE reader' = reader /\ reader.pc = "sending" /\ Fresh(Mine)
  <2>1. Mine \in Queries /\ Mine' = Mine
    BY <1>5, ReaderFields DEF Mine, RestOK, Queries
  <2>2. Holds(Mine) => Holds(Mine)'
    BY <1>1, <1>5, <2>1
  <2> QED BY <1>1, <1>2, <1>5, <2>2, CreditedKept DEF RestOK
<1> QED BY <1>3, <1>4, <1>5

\* The critical section of requestPeers inserts the query under an ID that no
\* query has that can still be answered in time.
LEMMA InsertCredited ==
    ASSUME MapsOK, RestOK, Credited, RequestInserted
    PROVE  Credited'
<1>1. PICK t \in TIDs :
        /\ FirstUsable(t, reader.now)
        /\ Insert(t, reader.infoHash, reader.now)
        /\ reader' = Sending(reader.infoHash, reader.now, t)
  BY DEF RequestInserted
<1>2. /\ reader.pc = "locking" /\ reader.now \in Nat /\ reader.now <= clock
      /\ clock \in Nat
  BY ReaderFields DEF RequestInserted, RestOK
<1>3. t \notin Kept(reader.now)
  BY <1>1, <1>2, UsableIsFree DEF RestOK
<1>4. /\ DOMAIN getPeersRequests' = Kept(reader.now) \cup {t}
      /\ getPeersRequests'[t]
           = [infoHash |-> reader.infoHash, createdAt |-> reader.now]
      /\ \A u \in Kept(reader.now) : getPeersRequests'[u] = getPeersRequests[u]
  BY <1>1, <1>3 DEF Insert
<1>5. ASSUME NEW q \in Queries, Fresh(q), Holds(q)
      PROVE  Holds(q)' /\ q.tid # t
  <2>1. q.tid \in Kept(reader.now)
    BY <1>2, <1>5, SweepKeepsFresh
  <2> QED BY <1>3, <1>4, <1>5, <2>1 DEF Holds
<1>6. /\ reader'.pc = "sending" /\ reader'.tid = t /\ reader'.now = reader.now
      /\ Mine' = [tid |-> t, infoHash |-> reader.infoHash, at |-> reader.now]
  BY <1>1 DEF Sending, Mine
<1>7. Holds(Mine)'
  BY <1>4, <1>6 DEF Holds
<1>8. UNCHANGED <<clock, sendChan, wire, results>>
  BY DEF RequestInserted
<1>9. /\ \A q : Fresh(q)' <=> Fresh(q)
      /\ \A q \in Queries : NotNewer(q) => NotNewer(q)'
  BY <1>2, <1>6, <1>8 DEF Fresh, NotNewer
<1>10. /\ wire \subseteq Queries
       /\ \A i \in Places : sendChan[i] \in Queries
       /\ Places' = Places
  BY <1>8 DEF RestOK, Places
<1> QED BY <1>5, <1>6, <1>7, <1>8, <1>9, <1>10 DEF Credited

\* The query goes from the reader to the transport's queue ...
LEMMA SendCredited ==
    ASSUME MapsOK, RestOK, Credited, SendAccepted
    PROVE  Credited'
<1>1. PICK m \in Queries :
        m = Mine /\ m.tid = reader.tid /\ m.at = reader.now /\ m.at <= clock
  BY ReaderFields DEF SendAccepted, Mine, Queries, RestOK
<1>2. /\ sendChan' = Append(sendChan, m) /\ reader.pc = "sending"
      /\ reader' = Idle
      /\ UNCHANGED <<clock, getPeersRequests, wire, results>>
  BY <1>1 DEF SendAccepted, Mine
<1>3. /\ Places' = Places \cup {Len(sendChan) + 1}
      /\ \A i \in Places : sendChan'[i] = sendChan[i] /\ i # Len(sendChan) + 1
      /\ sendChan'[Len(sendChan) + 1] = m
  BY <1>1, <1>2 DEF RestOK, Places
<1>4. \A q : /\ Fresh(q)' <=> Fresh(q)
             /\ Holds(q)' <=> Holds(q)
             /\ NotNewer(q) => NotNewer(q)'
  BY <1>2 DEF Fresh, Holds, NotNewer, Idle
<1>5. NotNewer(m)'
  BY <1>1, <1>2 DEF NotNewer, Idle
<1>6. Fresh(m) => /\ Holds(m)
                  /\ \A q \in wire : Fresh(q) => q.tid # m.tid
                  /\ \A i \in Places : Fresh(sendChan[i])
                                          => sendChan[i].tid # m.tid
  BY <1>1, <1>2 DEF Credited
<1>7. ASSUME NEW i \in Places'
      PROVE  /\ NotNewer(sendChan[i])'
             /\ Fresh(sendChan[i])' => Holds(sendChan[i])'
             /\ \A q \in wire' : Fresh(sendChan[i])' /\ Fresh(q)'
                                     => sendChan'[i].tid # q.tid
  BY <1>2, <1>3, <1>4, <1>5, <1>6 DEF Credited
<1>8. ASSUME NEW i \in Places', NEW j \in Places', i # j,
             Fresh(sendChan[i])', Fresh(sendChan[j])'
      PROVE  sendChan'[i].tid # sendChan'[j].tid
  BY <1>3, <1>4, <1>6, <1>8 DEF Credited
<1> QED BY <1>2, <1>4, <1>7, <1>8 DEF Credited, Idle

\* ... or is taken back, which takes nothing from another query: its own ID is
\* still its own unless all queries before it have timed out too.
LEMMA RefusalCredited ==
    ASSUME MapsOK, RestOK, Credited, SendRefused
    PROVE  Credited'
<1>1. Mine \in Queries /\ reader.now <= clock /\ reader.pc = "sending"
  BY ReaderFields DEF SendRefused, Mine, Queries, RestOK
<1>2. /\ reader' = Idle
      /\ getPeersRequests'
           = RequestsWithout({reader.tid} \cap DOMAIN getPeersRequests)
      /\ UNCHANGED <<clock, sendChan, wire, results>>
  BY DEF SendRefused
<1>3. ASSUME NEW q \in Queries, Fresh(q), NotNewer(q)
      PROVE  Fresh(Mine)
  BY <1>1, <1>3, PendingAssumption DEF Fresh, NotNewer, Mine, Queries, RestOK
<1>4. ASSUME NEW q \in Queries, Fresh(q), Holds(q), NotNewer(q),
             q \in wire \/ \E i \in Places : q = sendChan[i]
      PROVE  Holds(q)'
  <2>1. q.tid # reader.tid
    BY <1>1, <1>3, <1>4 DEF Credited
  <2> QED BY <1>2, <1>4, <2>1 DEF Holds, RequestsWithout
<1>5. \A q \in Queries : NotNewer(q) => NotNewer(q)'
  BY <1>2 DEF NotNewer, Idle
<1> QED BY <1>2, <1>4, <1>5, CreditedKept DEF Idle, RestOK

\* sendLoop moves the oldest query to the wire.
LEMMA WireCredited ==
    ASSUME MapsOK, RestOK, Credited, SendLoop
    PROVE  Credited'
<1>1. PICK m \in Queries : m = Head(sendChan) /\ m = sendChan[1] /\ 1 \in Places
  BY DEF SendLoop, RestOK, Places
<1>2. /\ sendChan' = Tail(sendChan) /\ wire' = wire \cup {m}
      /\ UNCHANGED <<clock, getPeersRequests, reader, results>>
  BY <1>1 DEF SendLoop
<1>3. \A i \in Places' : /\ i + 1 \in Places /\ i + 1 # 1
                         /\ sendChan'[i] = sendChan[i + 1]
  BY <1>2 DEF SendLoop, RestOK, Places
<1>4. \A i, j \in Places' : i # j => i + 1 # j + 1
  BY DEF Places
<1>5. /\ Mine' = Mine
      /\ \A q : /\ Fresh(q)' <=> Fresh(q)
                /\ Holds(q)' <=> Holds(q)
                /\ NotNewer(q)' <=> NotNewer(q)
  BY <1>2 DEF Fresh, Holds, NotNewer, Mine
<1>6. \A q \in wire' : NotNewer(q)' /\ (Fresh(q)' => Holds(q)')
  BY <1>1, <1>2, <1>5 DEF Credited
<1>7. ASSUME NEW i \in Places'
      PROVE  /\ NotNewer(sendChan[i])'
             /\ Fresh(sendChan[i])' => Holds(sendChan[i])'
             /\ \A j \in Places' : Fresh(sendChan[i])' /\ Fresh(sendChan[j])'
                                      /\ i # j
                                   => sendChan'[i].tid # sendChan'[j].tid
             /\ \A q \in wire' : Fresh(sendChan[i])' /\ Fresh(q)'
                                   => sendChan'[i].tid # q.tid
  BY <1>1, <1>2, <1>3, <1>4, <1>5 DEF Credited
<1>8. reader'.pc = "sending" /\ Fresh(Mine)' =>
        /\ Holds(Mine)'
        /\ \A q \in wire' : Fresh(q)' => q.tid # reader'.tid
        /\ \A i \in Places' : Fresh(sendChan[i])'
                                 => sendChan'[i].tid # reader'.tid
  BY <1>1, <1>2, <1>3, <1>5 DEF Credited
<1> QED BY <1>2, <1>6, <1>7, <1>8 DEF Credited

\* A query or its answer that is lost stays in the table.
LEMMA LossCredited ==
    ASSUME MapsOK, RestOK, Credited, NEW m \in wire, Lose(m)
    PROVE  Credited'
<1>1. /\ wire' \subseteq wire
      /\ UNCHANGED <<clock, getPeersRequests, reader, sendChan, results>>
  BY DEF Lose
<1>2. /\ Mine' = Mine /\ Places' = Places
      /\ \A q : /\ Fresh(q)' <=> Fresh(q)
                /\ Holds(q)' <=> Holds(q)
                /\ NotNewer(q)' <=> NotNewer(q)
  BY <1>1 DEF Fresh, Holds, NotNewer, Mine, Places
<1> QED BY <1>1, <1>2 DEF Credited

\* A reply that comes once and in time finds the entry of its own query, and
\* takes no other query's entry away.
LEMMA ReplyCredited ==
    ASSUME MapsOK, RestOK, Credited, NEW m \in wire, NEW withValues \in BOOLEAN,
           NEW again \in BOOLEAN, OnGetPeersResponse(m, withValues, again)
    PROVE  late' \/ Credited'
<1> SUFFICES ASSUME ~late'
             PROVE  Credited'
  OBVIOUS
<1>1. /\ ~again /\ Fresh(m) /\ m \in Queries
      /\ reader = Idle /\ wire' = wire \ {m}
      /\ UNCHANGED <<clock, reader, sendChan>>
  <2>1. /\ late' = (late \/ again \/ m.at + Timeout <= clock)
        /\ reader = Idle
        /\ wire' = IF again THEN wire ELSE wire \ {m}
        /\ UNCHANGED <<clock, reader, sendChan>>
    BY DEF OnGetPeersResponse
  <2>2. m \in Queries /\ clock \in Nat
    BY DEF RestOK
  <2>3. ~again /\ ~(m.at + Timeout <= clock)
    BY <2>1
  <2> QED BY <2>1, <2>2, <2>3, PendingAssumption DEF Fresh, Queries
<1>2. Holds(m)
  BY <1>1 DEF Credited
<1>3. /\ getPeersRequests' = RequestsWithout({m.tid})
      /\ results' \subseteq results \cup {<<m.infoHash, m.infoHash>>}
  <2>1. {m.tid} \cap DOMAIN getPeersRequests = {m.tid}
    BY <1>2 DEF Holds
  <2>2. getPeersRequests[m.tid].infoHash = m.infoHash
    BY <1>2 DEF Holds
  <2> QED BY <2>1, <2>2 DEF OnGetPeersResponse
<1>4. ASSUME NEW q \in Queries, Holds(q), q.tid # m.tid
      PROVE  Holds(q)'
  BY <1>3, <1>4 DEF Holds, RequestsWithout
<1>5. ASSUME NEW q \in wire', Fresh(q)
      PROVE  q.tid # m.tid
  <2>1. q \in wire /\ q # m /\ q \in Queries /\ Holds(q)
    BY <1>1, <1>5 DEF Credited, RestOK
  <2>2. q.tid = m.tid => q.infoHash = m.infoHash /\ q.at = m.at
    BY <1>2, <2>1 DEF Holds
  <2> QED BY <1>1, <2>1, <2>2 DEF Queries
<1>6. ASSUME NEW i \in Places, Fresh(sendChan[i])
      PROVE  sendChan[i].tid # m.tid
  BY <1>1, <1>6 DEF Credited
<1>7. /\ Places' = Places
      /\ \A q : (Fresh(q)' <=> Fresh(q)) /\ (NotNewer(q)' <=> NotNewer(q))
      /\ wire \subseteq Queries
      /\ \A i \in Places : sendChan[i] \in Queries
  BY <1>1 DEF Fresh, NotNewer, Places, RestOK
<1> QED BY <1>1, <1>3, <1>4, <1>5, <1>6, <1>7 DEF Credited, Idle

\* Every step keeps the queries and the table together.
LEMMA NextMatch ==
    ASSUME IndInv, MatchInv, [Next]_vars
    PROVE  MatchInv'
<1> MapsOK /\ RestOK
  BY IndInvSplit
<1>1. late => late'
  BY DEF Next, vars, RequestPeers, RequestDeduped, RequestRejected,
     RequestInserted, SendAccepted, SendRefused, SendLoop, Lose,
     OnGetPeersResponse, RunMaintenance, Status, Terminate, Tick
<1> SUFFICES ASSUME Credited
             PROVE  late' \/ Credited'
  BY <1>1 DEF MatchInv
<1>2. clock \in Nat
  BY DEF RestOK
<1>3. CASE RequestDeduped \/ RequestRejected
  <2>1. reader.now \in Nat /\ reader.now <= clock
    BY <1>3, ReaderFields DEF RequestDeduped, RequestRejected, RestOK
  <2> QED BY <1>3, <2>1, SweepCredited DEF RequestDeduped, RequestRejected, Expire
<1>4. CASE RunMaintenance \/ Status
  BY <1>2, <1>4, SweepCredited DEF RunMaintenance, Status, Expire
<1>5. CASE \E h \in InfoHash : RequestPeers(h)
  <2>1. /\ reader = Idle /\ reader'.pc = "locking" /\ reader'.now = clock
        /\ UNCHANGED <<clock, getPeersRequests, sendChan, wire, results>>
    BY <1>5 DEF RequestPeers, Locking
  <2>2. /\ \A q \in Queries : Holds(q) => Holds(q)'
        /\ \A q \in Queries : NotNewer(q) => NotNewer(q)'
    BY <2>1 DEF Holds, NotNewer
  <2> QED BY <1>2, <2>1, <2>2, CreditedKept
<1>6. CASE Terminate \/ Tick \/ UNCHANGED vars
  <2>1. /\ clock' \in Nat /\ clock <= clock'
        /\ UNCHANGED <<getPeersRequests, reader, sendChan, wire, results>>
    BY <1>2, <1>6 DEF Terminate, Tick, vars
  <2>2. /\ \A q : Holds(q) => Holds(q)'
        /\ Mine' = Mine
    BY <2>1 DEF Holds, Mine
  <2>3. \A q \in Queries : NotNewer(q) => NotNewer(q)'
    BY <1>2, <2>1 DEF NotNewer, Queries
  <2> QED BY <2>1, <2>2, <2>3, CreditedKept
<1>7. CASE RequestInserted \/ SendAccepted \/ SendRefused \/ SendLoop
  BY <1>7, InsertCredited, SendCredited, RefusalCredited, WireCredited
<1>8. CASE \E q \in wire : Lose(q)
  BY <1>8, LossCredited
<1>9. CASE \E q \in wire, withValues, again \in BOOLEAN :
             OnGetPeersResponse(q, withValues, again)
  BY <1>9, ReplyCredited
<1> QED BY <1>3, <1>4, <1>5, <1>6, <1>7, <1>8, <1>9 DEF Next

\* As long as no reply was late or came twice, the peers of a reply are reported
\* for the infohash that was asked for, for every table size and timeout.
THEOREM MatchCorrect == Spec => []RepliesMatchQueries
<1>1. Init => MatchInv
  BY DEF Init, MatchInv, Credited, Places, Idle
<1>2. MatchInv => RepliesMatchQueries
  BY DEF MatchInv, Credited, RepliesMatchQueries
<1> QED BY <1>1, <1>2, NextMatch, IndInvHolds, PTL DEF Spec
=============================================================================
