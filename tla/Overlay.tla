------------------------------- MODULE Overlay -------------------------------
(***************************************************************************)
(* One DHT network of the crawler: the routing table of an IndexingService *)
(* (dhtc-client/routing_table.go, indexingService.go), its maintenance,    *)
(* its cache file, and the candidates that the IPv4 service offers to the  *)
(* IPv6 service (managers.go, NewManager).                                 *)
(*                                                                         *)
(* Three goroutines meet in it. The reader handles messages; a reply that  *)
(* lists nodes is handled node by node. The index goroutine asks, prunes   *)
(* and saves. The reader of the OTHER service looks an address up in this  *)
(* table and probes it. Each takes a lock for one call at a time.          *)
(*                                                                         *)
(* A bucket is a sequence, the most recently heard node first. In the      *)
(* place of LastSeen an entry has an age, which time increases up to the   *)
(* point where no one can tell the difference any more.                    *)
(***************************************************************************)
EXTENDS Integers, Sequences, FiniteSets

CONSTANTS
    ID,            \* node IDs
    Addr,          \* addresses of this network, no two with the same IP
    Foreign,       \* addresses of the other network, or without a port
    Contacts,      \* the nodes: [id, addr]
    Bootstrap,     \* the bootstrap addresses of this network
    Candidates,    \* the addresses that the other service hears of
    NumBuckets,    \* 160
    Layouts,       \* ID -> bucket, for each own ID that may be drawn
    KBucketSize,   \* kBucketSize
    MaxNodes,      \* maxNodes
    MinNodes,      \* below this many nodes the service bootstraps: 8
    PruneAge,      \* 5 minutes
    ProbeAge,      \* 10 minutes
    MaxListed,     \* bound of the model: nodes that a reply lists
    MaxRestarts    \* bound of the model: times the crawler starts again

ASSUME OverlayAssumption ==
    /\ Addr \cap Foreign = {}
    /\ Contacts \subseteq [id : ID, addr : Addr \cup Foreign]
    /\ Bootstrap \subseteq Addr /\ Candidates \subseteq Addr \cup Foreign
    /\ NumBuckets \in Nat
    /\ Layouts \subseteq [ID -> -1 .. (NumBuckets - 1)] /\ Layouts # {}
    /\ KBucketSize \in Nat \ {0} /\ MinNodes \in Nat
    /\ MaxNodes \in Nat /\ KBucketSize <= MaxNodes
    /\ PruneAge \in Nat \ {0} /\ ProbeAge \in Nat \ {0}
    /\ MaxListed \in Nat /\ MaxRestarts \in Nat

VARIABLES
    layout,       \* the bucket of each ID, -1 for the service's own
    buckets,      \* t.buckets
    size,         \* t.size
    loading,      \* what loadRoutingTable has still to add
    reader,       \* contacts of a reply that the reader has still to handle
    maint,        \* [pc, bootstrap, ask]: where runMaintenance is
    candidate,    \* addresses the other service's reader is about to probe
    probeCache,   \* probed address -> age of the probe
    asked,        \* addresses that were sent a query and may answer it
    disk,         \* the cache file, bucket by bucket
    vouched,      \* those of Addr that spoke, or were listed, to it
    restarts      \* times the crawler started again

Buckets == 0 .. (NumBuckets - 1)

table == <<buckets, size>>
vars == <<layout, table, loading, reader, maint, candidate, probeCache, asked,
          disk, vouched, restarts>>

Entries == [id : ID, addr : Addr \cup Foreign, age : 0 .. PruneAge]
Resting == [pc |-> "rest", bootstrap |-> FALSE, ask |-> FALSE]
NoTable == [b \in Buckets |-> <<>>]

Init ==
    /\ layout \in Layouts
    /\ buckets = NoTable /\ size = 0
    /\ loading = NoTable
    /\ reader = {}
    /\ maint = Resting
    /\ candidate = {}
    /\ probeCache = [a \in {} |-> 0]
    /\ asked = {}
    /\ disk = NoTable
    /\ vouched = {}
    /\ restarts = 0

-----------------------------------------------------------------------------
(***************************************************************************)
(* RoutingTable                                                            *)
(***************************************************************************)
\* The place of the highest bit in which an ID differs from the service's own.
XorBucketIndex(id) == layout[id]

Has(bucket, id) == \E i \in DOMAIN bucket : bucket[i].id = id

Place(bucket, id) == CHOOSE i \in DOMAIN bucket : bucket[i].id = id

\* A bug: a node that is heard again is put in front and stays where it was.
RefreshedTwice(bucket, e) == <<e>> \o bucket

\* A node that is heard again moves to the front; those before it move back.
Refreshed(bucket, e) ==
    [i \in DOMAIN bucket |-> IF i = 1 THEN e
                             ELSE IF i <= Place(bucket, e.id) THEN bucket[i - 1]
                             ELSE bucket[i]]

\* Add finds room, in the bucket and in the table.
Grows(bucket, e) ==
    /\ ~Has(bucket, e.id)
    /\ Len(bucket) < KBucketSize
    /\ size < MaxNodes

\* A full bucket gives up its last node.
Replaces(bucket, e) == ~Has(bucket, e.id) /\ Len(bucket) >= KBucketSize

BucketAfter(bucket, e) ==
    IF Has(bucket, e.id) THEN Refreshed(bucket, e)
    ELSE IF Replaces(bucket, e)
    THEN <<e>> \o SubSeq(bucket, 1, KBucketSize - 1)
    ELSE IF Grows(bucket, e) THEN <<e>> \o bucket
    ELSE bucket

SizeAfter(bucket, e) == IF Grows(bucket, e) THEN size + 1 ELSE size

\* Add returns AddedNew, as it is before the step.
Add(e) ==
    LET b == XorBucketIndex(e.id)
    IN  IF b = -1 THEN UNCHANGED table
        ELSE /\ buckets' = [buckets EXCEPT ![b] = BucketAfter(@, e)]
             /\ size' = SizeAfter(buckets[b], e)

AddedNew(e) ==
    LET b == XorBucketIndex(e.id)
    IN  b # -1 /\ (Grows(buckets[b], e) \/ Replaces(buckets[b], e))

\* The places that are taken.
Slots == UNION {{b} \X DOMAIN buckets[b] : b \in Buckets}

Nodes == {buckets[s[1]][s[2]] : s \in Slots}
Addresses == {e.addr : e \in Nodes}

\* The places of a bucket that Prune keeps, and how many there are up to j.
Kept(bucket) == {i \in DOMAIN bucket : bucket[i].age < PruneAge}
KeptUpTo(bucket, j) == Cardinality({i \in Kept(bucket) : i <= j})

\* What is kept closes up, in its order.
Pruned(bucket) ==
    [n \in 1 .. Cardinality(Kept(bucket)) |->
        bucket[CHOOSE j \in Kept(bucket) : KeptUpTo(bucket, j) = n]]

\* A bug: the size is left alone.
SizeUnpruned == size

\* The size after Prune has counted off the nodes it removed.
SizePruned ==
    size - Cardinality({s \in Slots : buckets[s[1]][s[2]].age >= PruneAge})

-----------------------------------------------------------------------------
(***************************************************************************)
(* The reader                                                              *)
(***************************************************************************)
Entry(c) == [id |-> c.id, addr |-> c.addr, age |-> 0]

\* acceptsAddress: an address of this network, with a port.
AcceptsAddress(a) == a \in Addr

\* addNode: a node that is new to the table is asked for samples.
AddNode(c) ==
    IF AcceptsAddress(c.addr)
    THEN /\ Add(Entry(c))
         /\ asked' = IF AddedNew(Entry(c)) THEN asked \cup {c.addr} ELSE asked
    ELSE UNCHANGED <<table, asked>>

Up == loading = NoTable

\* A ping, find_node or get_peers query, or the reply to a get_peers query.
OnQuery(c) ==
    /\ Up /\ reader = {}
    /\ AcceptsAddress(c.addr)
    /\ AddNode(c)
    /\ vouched' = vouched \cup {c.addr}
    /\ UNCHANGED <<layout, loading, reader, maint, candidate, probeCache, disk,
                   restarts>>

\* A reply with samples or nodes, which lists the nodes of L. It is not compared
\* with the queries that were sent. L may be empty only beside samples: a reply
\* without samples, token and nodes is to onMessage the answer to a ping, and
\* nobody handles that.
OnNodes(c, L) ==
    /\ Up /\ reader = {}
    /\ AcceptsAddress(c.addr)
    /\ Cardinality(L) <= MaxListed
    /\ Add(Entry(c))
    /\ asked' = IF AddedNew(Entry(c)) THEN asked \cup {c.addr}
                ELSE asked \ {c.addr}
    /\ reader' = L
    /\ vouched' = vouched \cup ({d.addr : d \in L \cup {c}} \cap Addr)
    /\ UNCHANGED <<layout, loading, maint, candidate, probeCache, disk,
                   restarts>>

\* c answers the find_node query that it was sent, and lists some node.
Answers(c) ==
    /\ c.addr \in asked
    /\ \E L \in SUBSET Contacts : L # {} /\ OnNodes(c, L)

\* The next of them: addNode or handleDiscoveredNode. A node of the other
\* network is none of this table's business.
Discovered(c) ==
    /\ c \in reader
    /\ AddNode(c)
    /\ reader' = reader \ {c}
    /\ UNCHANGED <<layout, loading, maint, candidate, probeCache, disk,
                   vouched, restarts>>

-----------------------------------------------------------------------------
(***************************************************************************)
(* The reader of the other service                                         *)
(***************************************************************************)

\* OnBootstrapCandidate: an address that is in the table is left alone.
Offer(a) ==
    /\ candidate = {}
    /\ a \notin Addresses
    /\ candidate' = {a}
    /\ UNCHANGED <<layout, table, loading, reader, maint, probeCache, asked,
                   disk, vouched, restarts>>

RecentlyProbed(a) == a \in DOMAIN probeCache /\ probeCache[a] < ProbeAge

ProbedNow(a) ==
    [x \in DOMAIN probeCache \cup {a} |-> IF x = a THEN 0 ELSE probeCache[x]]

\* A bug: the time is written before it is looked at, so that every offer
\* starts the ten minutes again.
ProbeTimesSliding(a) == ProbedNow(a)

ProbeTimes(a) == IF RecentlyProbed(a) THEN probeCache ELSE ProbedNow(a)

\* A bug: the candidate goes straight into the table.
ProbeInjecting(a) ==
    /\ candidate' = {}
    /\ \E c \in Contacts : c.addr = a /\ AddNode(c)
    /\ UNCHANGED <<layout, loading, reader, maint, probeCache, disk, vouched,
                   restarts>>

\* probeBootstrapCandidate
Probe(a) ==
    /\ candidate' = {}
    /\ IF AcceptsAddress(a)
       THEN /\ probeCache' = ProbeTimes(a)
            /\ asked' = IF RecentlyProbed(a) THEN asked ELSE asked \cup {a}
       ELSE UNCHANGED <<probeCache, asked>>
    /\ UNCHANGED <<layout, table, loading, reader, maint, disk, vouched,
                   restarts>>

-----------------------------------------------------------------------------
(***************************************************************************)
(* runMaintenance                                                          *)
(***************************************************************************)

\* A bug: a small table is bootstrapped and not looked after.
NeedsCareLarge == size >= MinNodes

NeedsCare == size > 0

\* The length of the table is read once.
Maintain ==
    /\ Up /\ maint.pc = "rest"
    /\ maint' = [pc |-> "asking", bootstrap |-> size < MinNodes,
                 ask |-> NeedsCare]
    /\ UNCHANGED <<layout, table, loading, reader, candidate, probeCache, asked,
                   disk, vouched, restarts>>

\* bootstrap and findNeighbors
Ask ==
    /\ maint.pc = "asking"
    /\ asked' = asked \cup (IF maint.bootstrap THEN Bootstrap ELSE {})
                      \cup (IF maint.ask THEN Addresses ELSE {})
    /\ maint' = [maint EXCEPT !.pc = IF maint.ask THEN "pruning" ELSE "saving"]
    /\ UNCHANGED <<layout, table, loading, reader, candidate, probeCache, disk,
                   vouched, restarts>>

Prune ==
    /\ maint.pc = "pruning"
    /\ buckets' = [b \in Buckets |-> Pruned(buckets[b])]
    /\ size' = SizePruned
    /\ maint' = [maint EXCEPT !.pc = "saving"]
    /\ UNCHANGED <<layout, loading, reader, candidate, probeCache, asked, disk,
                   vouched, restarts>>

\* What pruneProbeCache keeps.
ProbesKept ==
    [a \in {x \in DOMAIN probeCache : probeCache[x] <= ProbeAge}
        |-> probeCache[a]]

\* pruneProbeCache and, once a minute, saveRoutingTable, which may fail. The
\* file is written after the snapshot was taken, but nobody reads it before the
\* service starts again.
SaveRoutingTable ==
    /\ maint.pc = "saving"
    /\ probeCache' = ProbesKept
    /\ disk' \in {disk, buckets}
    /\ maint' = Resting
    /\ UNCHANGED <<layout, table, loading, reader, candidate, asked, vouched,
                   restarts>>

-----------------------------------------------------------------------------
(***************************************************************************)
(* Restarts, the network and time                                          *)
(***************************************************************************)

\* The crawler is stopped, which saves the table, or the process dies, even
\* while Start is at work; then NewIndexingService draws an ID and Start begins
\* to load the file.
Restart ==
    /\ restarts < MaxRestarts
    /\ restarts' = restarts + 1
    /\ disk' \in {disk} \cup (IF Up THEN {buckets} ELSE {})
    /\ layout' \in Layouts
    /\ buckets' = NoTable /\ size' = 0
    /\ loading' = disk'
    /\ reader' = {} /\ maint' = Resting /\ candidate' = {}
    /\ probeCache' = [a \in {} |-> 0]
    /\ asked' = {}
    /\ UNCHANGED vouched

\* loadRoutingTable adds the next entry of the file.
Load(b) ==
    /\ loading[b] # <<>>
    /\ \A c \in Buckets : c < b => loading[c] = <<>>
    /\ IF AcceptsAddress(Head(loading[b]).addr) THEN Add(Head(loading[b]))
       ELSE UNCHANGED table
    /\ loading' = [loading EXCEPT ![b] = Tail(@)]
    /\ UNCHANGED <<layout, reader, maint, candidate, probeCache, asked, disk,
                   vouched, restarts>>

\* A query or its answer is lost. The socket keeps what arrives while the reader
\* is busy, so a loss may be told apart from a delay only when it is not.
Lose(a) ==
    /\ reader = {}
    /\ asked' = asked \ {a}
    /\ UNCHANGED <<layout, table, loading, reader, maint, candidate, probeCache,
                   disk, vouched, restarts>>

Older(T) ==
    [b \in Buckets |-> [i \in DOMAIN T[b] |->
        [T[b][i] EXCEPT !.age = IF @ < PruneAge THEN @ + 1 ELSE @]]]

Tick ==
    /\ buckets' = Older(buckets)
    /\ loading' = Older(loading)
    /\ disk' = Older(disk)
    /\ probeCache' = [a \in DOMAIN probeCache |->
          probeCache[a] + IF probeCache[a] <= ProbeAge THEN 1 ELSE 0]
    /\ UNCHANGED <<layout, size, reader, maint, candidate, asked, vouched,
                   restarts>>

Next ==
    \/ \E c \in Contacts : OnQuery(c)
    \/ \E c \in Contacts, L \in SUBSET Contacts : OnNodes(c, L)
    \/ \E c \in reader : Discovered(c)
    \/ \E a \in Candidates : Offer(a)
    \/ \E a \in candidate : Probe(a)
    \/ Maintain
    \/ Ask
    \/ Prune
    \/ SaveRoutingTable
    \/ Restart
    \/ \E b \in Buckets : Load(b)
    \/ \E a \in asked : Lose(a)
    \/ Tick

Spec == Init /\ [][Next]_vars

\* The goroutines go on and time passes. A candidate is named to the other
\* service again and again, and a node that is asked again and again answers, with
\* at least one node of either network.
Fairness ==
    /\ WF_vars(\E c \in reader : Discovered(c))
    /\ WF_vars(\E a \in candidate : Probe(a))
    /\ WF_vars(Maintain \/ Ask \/ Prune \/ SaveRoutingTable)
    /\ WF_vars(\E b \in Buckets : Load(b))
    /\ WF_vars(Tick)
    /\ SF_vars(\E a \in Candidates : Offer(a))
    /\ \A a \in Addr : SF_vars(\E c \in Contacts : c.addr = a /\ Answers(c))

FairSpec == Spec /\ Fairness

-----------------------------------------------------------------------------
(***************************************************************************)
(* Properties                                                              *)
(***************************************************************************)
\* The counter that Len returns, and that decides between bootstrap and refusal,
\* is the number of nodes in the table, through refreshes, replacements, prunes
\* and loads; and neither a bucket nor the table outgrows its limit.
SizeExact ==
    /\ size = Cardinality(Slots)
    /\ size <= MaxNodes
    /\ \A b \in Buckets : Len(buckets[b]) <= KBucketSize

\* A node is in the table once, in the bucket of its ID, with an address of this
\* network; the service itself is not.
NodesPlaced ==
    /\ \A s, t \in Slots :
          buckets[s[1]][s[2]].id = buckets[t[1]][t[2]].id => s = t
    /\ \A s \in Slots :
          /\ layout[buckets[s[1]][s[2]].id] = s[1]
          /\ buckets[s[1]][s[2]].addr \in Addr

\* Until the first restart, the node that a full bucket gives up is the one that
\* was mentioned, by itself or by another node, the longest time ago. (A load
\* turns each bucket round.)
FreshestFirst ==
    restarts = 0 =>
        \A b \in Buckets : \A i, j \in DOMAIN buckets[b] :
            i < j => buckets[b][i].age <= buckets[b][j].age

\* The addresses that the other network names are candidates only: a node enters
\* the table, or the file, after it spoke to this service, or a node of this
\* network listed it, whatever the other service's reader looked up and probed
\* meanwhile. (README.md promises more: see OnlyResponders in MCOverlaySpoke.)
NoInjection ==
    \A T \in {buckets, disk, loading} : \A b \in Buckets :
        \A i \in DOMAIN T[b] : T[b][i].addr \in vouched

\* A node that neither spoke nor was listed for five minutes is mentioned again or
\* leaves.
StaleLeaves ==
    \A id \in ID :
        (\E e \in Nodes : e.id = id /\ e.age = PruneAge)
            ~> ~(\E e \in Nodes : e.id = id /\ e.age = PruneAge)

\* README.md: the IPv6 network starts by itself. An empty table gets a node in
\* the end, although probes are lost and repeated after ten minutes at most.
TableFills == size = 0 ~> size > 0

=============================================================================
