--------------------------- MODULE OverlayProofs ---------------------------
(***************************************************************************)
(* The routing table, for every number of buckets and of nodes, every      *)
(* distance of the IDs, every limit and every number of restarts: Add and  *)
(* Prune keep the counter, the places and the order, and what the table    *)
(* and its file hold was vouched for.                                      *)
(***************************************************************************)
EXTENDS Overlay, FiniteSetTheorems, TLAPS

-----------------------------------------------------------------------------
(***************************************************************************)
(* The inductive invariant                                                 *)
(***************************************************************************)
Tables == [Buckets -> Seq(Entries)]

\* A bucket b as the table may hold it, where lay is the bucket of each ID.
BucketOK(bucket, b, lay) ==
    /\ Len(bucket) <= KBucketSize
    /\ \A i, j \in 1 .. Len(bucket) : bucket[i].id = bucket[j].id => i = j
    /\ \A i \in 1 .. Len(bucket) :
          lay[bucket[i].id] = b /\ bucket[i].addr \in Addr

\* The most recently heard node is first.
InOrder(bucket) ==
    \A i, j \in 1 .. Len(bucket) : i < j => bucket[i].age <= bucket[j].age

\* Every address of the bucket is one of V.
Within(bucket, V) == \A i \in 1 .. Len(bucket) : bucket[i].addr \in V

OverlayTypes ==
    /\ layout \in [ID -> -1 .. (NumBuckets - 1)]
    /\ buckets \in Tables /\ loading \in Tables /\ disk \in Tables
    /\ reader \subseteq Contacts
    /\ restarts \in Nat

BucketsInv == \A b \in Buckets : BucketOK(buckets[b], b, layout)

OrderInv ==
    restarts = 0 => loading = NoTable /\ \A b \in Buckets : InOrder(buckets[b])

\* What the reader has still to handle, and is of this network, is vouched for.
VouchedInv ==
    /\ \A b \in Buckets : /\ Within(buckets[b], vouched)
                          /\ Within(disk[b], vouched)
                          /\ Within(loading[b], vouched)
    /\ \A c \in reader : c.addr \in Addr => c.addr \in vouched

CountInv ==
    /\ IsFiniteSet(Slots)
    /\ size = Cardinality(Slots)
    /\ size <= MaxNodes

OverlayInv ==
    OverlayTypes /\ BucketsInv /\ OrderInv /\ VouchedInv /\ CountInv

-----------------------------------------------------------------------------
(***************************************************************************)
(* Slots                                                                   *)
(***************************************************************************)

\* The places of a table.
SlotsIn(T) == UNION {{b} \X DOMAIN T[b] : b \in Buckets}

\* What a place is.
LEMMA SlotIs ==
    ASSUME NEW T \in Tables, NEW s
    PROVE  s \in SlotsIn(T) <=> \E b \in Buckets : \E i \in 1 .. Len(T[b]) : s = <<b, i>>
<1>1. \A b \in Buckets : DOMAIN T[b] = 1 .. Len(T[b])
  BY DEF Tables
<1>2. s \in SlotsIn(T) <=> \E b \in Buckets : s \in {b} \X DOMAIN T[b]
  BY DEF SlotsIn
<1> QED
  BY <1>1, <1>2

\* Tables whose buckets are as long have the same places.
LEMMA SameSlots ==
    ASSUME NEW T \in Tables, NEW U \in Tables,
           \A b \in Buckets : Len(U[b]) = Len(T[b])
    PROVE  SlotsIn(U) = SlotsIn(T)
<1>1. ASSUME NEW s PROVE s \in SlotsIn(U) <=> s \in SlotsIn(T)
  BY SlotIs
<1> QED
  BY <1>1

\* A bucket that is one longer has one place more.
LEMMA MoreSlots ==
    ASSUME NEW T \in Tables, NEW U \in Tables, NEW b \in Buckets,
           Len(U[b]) = Len(T[b]) + 1,
           \A c \in Buckets : c # b => U[c] = T[c],
           IsFiniteSet(SlotsIn(T))
    PROVE  /\ IsFiniteSet(SlotsIn(U))
           /\ Cardinality(SlotsIn(U)) = Cardinality(SlotsIn(T)) + 1
<1> DEFINE x == <<b, Len(U[b])>>
<1>0. \A c \in Buckets : Len(T[c]) \in Nat /\ Len(U[c]) \in Nat
  BY DEF Tables
<1>1. x \notin SlotsIn(T)
  BY <1>0, SlotIs
<1>2. \A s : s \in SlotsIn(U) <=> s \in SlotsIn(T) \/ s = x
  <2>1. \A c \in Buckets : \A i :
           i \in 1 .. Len(U[c]) <=> i \in 1 .. Len(T[c]) \/ <<c, i>> = x
    BY <1>0
  <2>2. \A s : /\ s \in SlotsIn(U)
                    <=> \E c \in Buckets : \E i \in 1 .. Len(U[c]) : s = <<c, i>>
               /\ s \in SlotsIn(T)
                    <=> \E c \in Buckets : \E i \in 1 .. Len(T[c]) : s = <<c, i>>
    BY SlotIs
  <2> HIDE DEF x
  <2> QED
    BY <2>1, <2>2
<1> HIDE DEF x
<1>3. SlotsIn(U) = SlotsIn(T) \cup {x}
  BY <1>2
<1> QED
  BY <1>1, <1>3, FS_AddElement

-----------------------------------------------------------------------------
(***************************************************************************)
(* Add                                                                     *)
(***************************************************************************)

\* The new bucket is e followed by nodes of the old one, in their order and with
\* other IDs.
Fronted(old, new, e) ==
    /\ Len(new) >= 1 /\ Len(new) <= KBucketSize /\ new[1] = e
    /\ \E src \in [2 .. Len(new) -> 1 .. Len(old)] :
          /\ \A i, j \in 2 .. Len(new) : i < j => src[i] < src[j]
          /\ \A j \in 2 .. Len(new) :
                new[j] = old[src[j]] /\ old[src[j]].id # e.id

\* Such a bucket is as good as the old one.
LEMMA FrontedOK ==
    ASSUME NEW old \in Seq(Entries), NEW new \in Seq(Entries), NEW e \in Entries,
           NEW b, NEW lay, BucketOK(old, b, lay), Fronted(old, new, e),
           lay[e.id] = b, e.addr \in Addr
    PROVE  /\ BucketOK(new, b, lay)
           /\ InOrder(old) /\ e.age = 0 => InOrder(new)
           /\ \A V : Within(old, V) /\ e.addr \in V => Within(new, V)
<1>0. Len(new) \in Nat /\ Len(old) \in Nat
  OBVIOUS
<1>1. PICK src \in [2 .. Len(new) -> 1 .. Len(old)] :
             /\ \A i, j \in 2 .. Len(new) : i < j => src[i] < src[j]
             /\ \A j \in 2 .. Len(new) :
                   new[j] = old[src[j]] /\ old[src[j]].id # e.id
  BY DEF Fronted
<1>2. \A j \in 2 .. Len(new) : src[j] \in 1 .. Len(old)
  BY <1>1
<1>3. \A j \in 1 .. Len(new) : j = 1 \/ j \in 2 .. Len(new)
  BY <1>0
<1>4. new[1] = e /\ Len(new) <= KBucketSize
  BY DEF Fronted
<1>5. BucketOK(new, b, lay)
  <2>1. \A i, j \in 2 .. Len(new) : new[i].id = new[j].id => i = j
    BY <1>0, <1>1, <1>2 DEF BucketOK
  <2>2. \A i, j \in 1 .. Len(new) : new[i].id = new[j].id => i = j
    BY <1>1, <1>3, <1>4, <2>1
  <2>3. \A i \in 1 .. Len(new) : lay[new[i].id] = b /\ new[i].addr \in Addr
    BY <1>1, <1>2, <1>3, <1>4 DEF BucketOK
  <2> QED
    BY <1>4, <2>2, <2>3 DEF BucketOK
<1>6. ASSUME InOrder(old), e.age = 0
      PROVE  InOrder(new)
  <2>1. \A i \in 1 .. Len(new) : new[i].age \in Nat
    <3>1. \A i \in 1 .. Len(new) : new[i] \in Entries
      OBVIOUS
    <3> QED
      BY <3>1, OverlayAssumption DEF Entries
  <2>2. \A i, j \in 2 .. Len(new) : i < j => new[i].age <= new[j].age
    BY <1>1, <1>2, <1>6 DEF InOrder
  <2> QED
    BY <1>3, <1>4, <1>6, <2>1, <2>2 DEF InOrder
<1>7. ASSUME NEW V, Within(old, V), e.addr \in V
      PROVE  Within(new, V)
  BY <1>1, <1>2, <1>3, <1>4, <1>7 DEF Within
<1> QED
  BY <1>5, <1>6, <1>7

\* Add moves a known node to the front, puts a new one there if there is room or
\* the bucket is full, and is otherwise refused.
LEMMA BucketAfterIs ==
    ASSUME NEW old \in Seq(Entries), NEW e \in Entries, NEW b, NEW lay,
           BucketOK(old, b, lay)
    PROVE  LET new == BucketAfter(old, e)
           IN  /\ new \in Seq(Entries)
               /\ new = old \/ Fronted(old, new, e)
               /\ Len(new) = IF Grows(old, e) THEN Len(old) + 1 ELSE Len(old)
<1> DEFINE new == BucketAfter(old, e)
<1>0. /\ Len(old) \in Nat /\ DOMAIN old = 1 .. Len(old) /\ Len(old) <= KBucketSize
      /\ \A i \in 1 .. Len(old) : old[i] \in Entries
      /\ KBucketSize \in Nat \ {0}
  BY OverlayAssumption DEF BucketOK
<1>1. CASE Has(old, e.id)
  <2>1. PICK p \in 1 .. Len(old) : p = Place(old, e.id) /\ old[p].id = e.id
    BY <1>0, <1>1 DEF Has, Place
  <2>2. \A i \in 1 .. Len(old) : old[i].id = e.id => i = p
    BY <2>1 DEF BucketOK
  <2>3. new = [i \in 1 .. Len(old) |-> IF i = 1 THEN e
                                      ELSE IF i <= p THEN old[i - 1] ELSE old[i]]
    BY <1>0, <1>1, <2>1 DEF BucketAfter, Refreshed
  <2>4. new \in Seq(Entries) /\ Len(new) = Len(old)
    BY <1>0, <2>3
  <2> DEFINE src == [j \in 2 .. Len(old) |-> IF j <= p THEN j - 1 ELSE j]
  <2>5. src \in [2 .. Len(old) -> 1 .. Len(old)]
    BY <1>0, <2>1
  <2>6. /\ \A i, j \in 2 .. Len(old) : i < j => src[i] < src[j]
        /\ \A j \in 2 .. Len(old) : new[j] = old[src[j]] /\ old[src[j]].id # e.id
    BY <1>0, <2>1, <2>2, <2>3
  <2>7. Len(old) >= 1 /\ new[1] = e
    BY <1>0, <2>1, <2>3
  <2> HIDE DEF src, new
  <2>8. Fronted(old, new, e)
    BY <1>0, <2>4, <2>5, <2>6, <2>7 DEF Fronted
  <2> QED
    BY <1>1, <2>4, <2>8 DEF Grows, new
<1>2. ASSUME ~Has(old, e.id), NEW rest \in Seq(Entries),
             Len(rest) <= Len(old), Len(rest) < KBucketSize,
             \A i \in 1 .. Len(rest) : rest[i] = old[i]
      PROVE  /\ <<e>> \o rest \in Seq(Entries)
             /\ Len(<<e>> \o rest) = Len(rest) + 1
             /\ Fronted(old, <<e>> \o rest, e)
  <2> DEFINE cat == <<e>> \o rest
             src == [j \in 2 .. (Len(rest) + 1) |-> j - 1]
  <2>0. Len(rest) \in Nat
    OBVIOUS
  <2>1. /\ cat \in Seq(Entries) /\ Len(cat) = Len(rest) + 1 /\ cat[1] = e
        /\ \A j \in 2 .. (Len(rest) + 1) : cat[j] = rest[j - 1]
    BY <2>0
  <2>2. /\ src \in [2 .. (Len(rest) + 1) -> 1 .. Len(old)]
        /\ \A j \in 2 .. (Len(rest) + 1) : src[j] = j - 1 /\ src[j] \in 1 .. Len(rest)
    BY <1>0, <1>2, <2>0
  <2>3. \A i \in 1 .. Len(old) : old[i].id # e.id
    BY <1>0, <1>2 DEF Has
  <2> HIDE DEF src, cat
  <2>4. \A j \in 2 .. Len(cat) : cat[j] = old[src[j]] /\ old[src[j]].id # e.id
    BY <1>0, <1>2, <2>0, <2>1, <2>2, <2>3
  <2>5. \A i, j \in 2 .. Len(cat) : i < j => src[i] < src[j]
    BY <2>0, <2>1, <2>2
  <2>6. Fronted(old, cat, e)
    <3>1. Len(cat) >= 1 /\ Len(cat) <= KBucketSize /\ cat[1] = e
      BY <1>0, <1>2, <2>0, <2>1
    <3>2. src \in [2 .. Len(cat) -> 1 .. Len(old)]
      BY <2>1, <2>2
    <3> QED
      BY <2>4, <2>5, <3>1, <3>2 DEF Fronted
  <2> QED
    BY <2>1, <2>6 DEF cat
<1>3. CASE Replaces(old, e)
  <2> DEFINE rest == SubSeq(old, 1, KBucketSize - 1)
  <2>1. /\ rest \in Seq(Entries) /\ Len(rest) = KBucketSize - 1
        /\ \A i \in 1 .. Len(rest) : rest[i] = old[i]
    BY <1>0, <1>3 DEF Replaces
  <2>2. ~Has(old, e.id) /\ Len(old) = KBucketSize /\ ~Grows(old, e)
    <3>1. ~Has(old, e.id) /\ Len(old) >= KBucketSize
      BY <1>3 DEF Replaces
    <3>2. Len(old) = KBucketSize /\ ~(Len(old) < KBucketSize)
      <4> DEFINE n == Len(old)
      <4>1. n \in Nat /\ KBucketSize \in Nat /\ n <= KBucketSize /\ n >= KBucketSize
        BY <1>0, <3>1
      <4> HIDE DEF n
      <4>2. n = KBucketSize /\ ~(n < KBucketSize)
        BY <4>1
      <4> QED
        BY <4>2 DEF n
    <3> QED
      BY <3>1, <3>2 DEF Grows
  <2>3. new = <<e>> \o rest
    BY <1>3, <2>2 DEF BucketAfter
  <2> HIDE DEF rest, new
  <2>4. /\ new \in Seq(Entries) /\ Len(new) = Len(rest) + 1 /\ Fronted(old, new, e)
    <3>1. Len(rest) <= Len(old) /\ Len(rest) < KBucketSize
      BY <1>0, <2>1, <2>2
    <3> QED
      BY <1>2, <2>1, <2>2, <2>3, <3>1
  <2> QED
    BY <1>0, <2>1, <2>2, <2>4 DEF new
<1>4. CASE Grows(old, e)
  <2>1. ~Has(old, e.id) /\ Len(old) < KBucketSize /\ ~Replaces(old, e)
    BY <1>0, <1>4 DEF Grows, Replaces
  <2>2. new = <<e>> \o old
    BY <1>4, <2>1 DEF BucketAfter
  <2> HIDE DEF new
  <2>3. /\ new \in Seq(Entries) /\ Len(new) = Len(old) + 1 /\ Fronted(old, new, e)
    BY <1>0, <1>2, <2>1, <2>2
  <2> QED
    BY <1>4, <2>3 DEF new
<1>5. CASE ~Has(old, e.id) /\ ~Replaces(old, e) /\ ~Grows(old, e)
  BY <1>5 DEF BucketAfter
<1> QED
  BY <1>1, <1>3, <1>4, <1>5

-----------------------------------------------------------------------------
(***************************************************************************)
(* Prune                                                                   *)
(***************************************************************************)

\* The place where the n-th node that is kept was.
KeptAt(bucket, n) == CHOOSE j \in Kept(bucket) : KeptUpTo(bucket, j) = n

\* The size of an interval.
LEMMA IntervalSize ==
    ASSUME NEW n \in Nat
    PROVE  IsFiniteSet(1 .. n) /\ Cardinality(1 .. n) = n
BY FS_Interval

\* Counting the places that are kept numbers them from 1 on, in their order.
LEMMA KeptNumbered ==
    ASSUME NEW old \in Seq(Entries)
    PROVE  LET K == Kept(old)
               k == Cardinality(Kept(old))
           IN  /\ k \in Nat /\ k <= Len(old)
               /\ K \subseteq 1 .. Len(old) /\ K \subseteq Nat
               /\ \A n \in 1 .. k : KeptAt(old, n) \in K
               /\ \A n, m \in 1 .. k : n < m => KeptAt(old, n) < KeptAt(old, m)
               /\ \A j \in K : \E n \in 1 .. k : KeptAt(old, n) = j
<1> DEFINE K == Kept(old)
           k == Cardinality(Kept(old))
           r(j) == KeptUpTo(old, j)
           Upto(j) == {i \in K : i <= j}
<1>0. Len(old) \in Nat
  OBVIOUS
<1>1. K \subseteq 1 .. Len(old) /\ K \subseteq Nat
  BY DEF Kept
<1>2. IsFiniteSet(1 .. Len(old)) /\ Cardinality(1 .. Len(old)) = Len(old)
  BY <1>0, IntervalSize
<1>3. IsFiniteSet(K) /\ k \in Nat /\ k <= Len(old)
  BY <1>1, <1>2, FS_Subset, FS_CardinalityType
<1>4. \A j : r(j) = Cardinality(Upto(j))
  BY DEF KeptUpTo
<1>5. \A j : Upto(j) \in SUBSET K
  OBVIOUS
<1> HIDE DEF K, k, r
<1>6. \A j : IsFiniteSet(Upto(j)) /\ r(j) \in Nat /\ r(j) <= k
  BY <1>3, <1>4, <1>5, FS_Subset, FS_CardinalityType DEF k, K
<1>7. \A j \in K : r(j) \in 1 .. k
  <2> TAKE j \in K
  <2>1. j \in Upto(j)
    BY <1>1
  <2>2. r(j) # 0
    BY <1>4, <1>6, <2>1, FS_EmptySet
  <2>3. r(j) \in Nat /\ r(j) <= k /\ k \in Nat
    BY <1>3, <1>6
  <2> QED
    BY <2>2, <2>3
<1>8. \A i, j \in K : i < j => r(i) < r(j)
  <2> SUFFICES ASSUME NEW i \in K, NEW j \in K, i < j PROVE r(i) < r(j)
    OBVIOUS
  <2>1. i \in Nat /\ j \in Nat /\ \A l \in K : l \in Nat
    BY <1>1
  <2>2. Upto(i) \in SUBSET Upto(j) /\ j \in Upto(j) /\ j \notin Upto(i)
    <3>1. \A l \in K : l <= i => l <= j
      BY <2>1
    <3>2. j <= j /\ ~(j <= i)
      BY <2>1
    <3> QED
      BY <3>1, <3>2
  <2>3. Upto(i) # Upto(j)
    BY <2>2
  <2>4. r(i) <= r(j) /\ r(i) # r(j)
    <3> HIDE DEF Upto
    <3> QED
      BY <1>4, <1>6, <2>2, <2>3, FS_Subset
  <2>5. r(i) \in Nat /\ r(j) \in Nat
    BY <1>6
  <2> QED
    BY <2>4, <2>5
<1>9. \A i, j \in K : r(i) = r(j) => i = j
  <2> SUFFICES ASSUME NEW i \in K, NEW j \in K, r(i) = r(j) PROVE i = j
    OBVIOUS
  <2>1. i \in Nat /\ j \in Nat /\ r(i) \in Nat
    BY <1>1, <1>6
  <2>2. ~(i < j) /\ ~(j < i)
    BY <1>8, <2>1
  <2> QED
    BY <2>1, <2>2
<1> DEFINE f == [j \in K |-> r(j)]
<1>10. f \in Injection(K, 1 .. k)
  BY <1>7, <1>9 DEF Injection, IsInjective
<1>11. IsFiniteSet(1 .. k) /\ Cardinality(1 .. k) = k
  BY <1>3, FS_Interval
<1>12. f \in Surjection(K, 1 .. k)
  BY <1>10, <1>11, FS_Injection DEF k, K
<1>13. \A n \in 1 .. k : \E j \in K : r(j) = n
  BY <1>12 DEF Surjection
<1>14. \A n \in 1 .. k : KeptAt(old, n) \in K /\ r(KeptAt(old, n)) = n
  BY <1>13 DEF KeptAt, K, r
<1>15. ASSUME NEW n \in 1 .. k, NEW m \in 1 .. k, n < m
       PROVE  KeptAt(old, n) < KeptAt(old, m)
  <2> DEFINE i == KeptAt(old, n)
             j == KeptAt(old, m)
  <2>1. i \in K /\ j \in K /\ r(i) = n /\ r(j) = m
    BY <1>14
  <2>2. i \in Nat /\ j \in Nat
    BY <1>1, <2>1
  <2> HIDE DEF i, j
  <2>3. ~(j < i) /\ i # j
    BY <1>3, <1>8, <1>15, <2>1
  <2>4. i < j
    BY <2>2, <2>3
  <2> QED
    BY <2>4 DEF i, j
<1>16. ASSUME NEW j \in K
       PROVE  \E n \in 1 .. k : KeptAt(old, n) = j
  BY <1>7, <1>9, <1>14
<1> QED
  BY <1>0, <1>1, <1>3, <1>14, <1>15, <1>16 DEF K, k

\* What Prune leaves of a bucket is as good as the bucket was.
LEMMA PrunedOK ==
    ASSUME NEW old \in Seq(Entries), NEW b, NEW lay, BucketOK(old, b, lay)
    PROVE  LET new == Pruned(old)
           IN  /\ new \in Seq(Entries)
               /\ Len(new) = Cardinality(Kept(old))
               /\ BucketOK(new, b, lay)
               /\ InOrder(old) => InOrder(new)
               /\ \A V : Within(old, V) => Within(new, V)
<1> DEFINE new == Pruned(old)
           k == Cardinality(Kept(old))
           at(n) == KeptAt(old, n)
<1>1. /\ k \in Nat /\ k <= Len(old)
      /\ \A n \in 1 .. k : at(n) \in 1 .. Len(old)
      /\ \A n, m \in 1 .. k : n < m => at(n) < at(m)
  BY KeptNumbered
<1>2. new = [n \in 1 .. k |-> old[at(n)]]
  BY DEF Pruned, KeptAt
<1> HIDE DEF k, at
<1>3. new \in Seq(Entries) /\ Len(new) = k
  BY <1>1, <1>2
<1>4. \A n \in 1 .. k : new[n] = old[at(n)]
  BY <1>2
<1> HIDE DEF new
<1>5. Len(new) <= KBucketSize
  BY <1>1, <1>3, OverlayAssumption DEF BucketOK
<1>6. \A n, m \in 1 .. k : at(n) = at(m) => n = m
  BY <1>1
<1>7. BucketOK(new, b, lay)
  BY <1>1, <1>3, <1>4, <1>5, <1>6 DEF BucketOK
<1>8. InOrder(old) => InOrder(new)
  BY <1>1, <1>3, <1>4 DEF InOrder
<1>9. \A V : Within(old, V) => Within(new, V)
  BY <1>1, <1>3, <1>4 DEF Within
<1> QED
  BY <1>3, <1>7, <1>8, <1>9 DEF new, k

\* Prune leaves one place for each node that it keeps.
LEMMA PrunedSlots ==
    ASSUME NEW T \in Tables, NEW U \in Tables,
           \A b \in Buckets : U[b] = Pruned(T[b]) /\ Len(U[b]) = Cardinality(Kept(T[b])),
           IsFiniteSet(SlotsIn(T))
    PROVE  LET stale == {s \in SlotsIn(T) : T[s[1]][s[2]].age >= PruneAge}
           IN  /\ IsFiniteSet(SlotsIn(U))
               /\ Cardinality(SlotsIn(U)) =
                     Cardinality(SlotsIn(T)) - Cardinality(stale)
<1> DEFINE stale == {s \in SlotsIn(T) : T[s[1]][s[2]].age >= PruneAge}
           fresh == SlotsIn(T) \ stale
           f == [s \in SlotsIn(U) |-> <<s[1], KeptAt(T[s[1]], s[2])>>]
<1>1. ASSUME NEW b \in Buckets
      PROVE  /\ T[b] \in Seq(Entries) /\ Kept(T[b]) \subseteq 1 .. Len(T[b])
             /\ Kept(T[b]) \subseteq Nat
             /\ \A i \in 1 .. Len(U[b]) : KeptAt(T[b], i) \in Kept(T[b])
             /\ \A i, j \in 1 .. Len(U[b]) :
                   i < j => KeptAt(T[b], i) < KeptAt(T[b], j)
             /\ \A j \in Kept(T[b]) : \E i \in 1 .. Len(U[b]) : KeptAt(T[b], i) = j
             /\ Len(U[b]) \in Nat
  BY KeptNumbered DEF Tables
<1>2. \A b \in Buckets : \A j \in 1 .. Len(T[b]) :
         j \in Kept(T[b]) <=> ~(T[b][j].age >= PruneAge)
  <2>1. \A b \in Buckets : T[b] \in Seq(Entries)
    BY DEF Tables
  <2>2. \A b \in Buckets : \A j \in 1 .. Len(T[b]) : T[b][j] \in Entries
    BY <2>1
  <2>3. PruneAge \in Int /\ \A e \in Entries : e.age \in Int
    BY OverlayAssumption DEF Entries
  <2> QED
    BY <2>1, <2>2, <2>3 DEF Kept
<1>3. \A s : s \in fresh <=> \E b \in Buckets : \E j \in Kept(T[b]) : s = <<b, j>>
  BY <1>1, <1>2, SlotIs
<1>4. \A s : s \in SlotsIn(U)
               <=> \E b \in Buckets : \E i \in 1 .. Len(U[b]) : s = <<b, i>>
  BY SlotIs
<1> HIDE DEF fresh
<1>5. f \in [SlotsIn(U) -> fresh]
  BY <1>1, <1>3, <1>4
<1>6. \A s, t \in SlotsIn(U) : f[s] = f[t] => s = t
  <2>1. \A b \in Buckets : \A i, j \in 1 .. Len(U[b]) :
           KeptAt(T[b], i) = KeptAt(T[b], j) => i = j
    <3> TAKE b \in Buckets
    <3> TAKE i, j \in 1 .. Len(U[b])
    <3>1. i \in Nat /\ j \in Nat
      BY <1>1
    <3>2. \A l \in Kept(T[b]) : l \in Nat
      BY <1>1
    <3>3. KeptAt(T[b], i) \in Nat /\ KeptAt(T[b], j) \in Nat
      BY <1>1, <3>2
    <3>4. /\ i < j => KeptAt(T[b], i) < KeptAt(T[b], j)
          /\ j < i => KeptAt(T[b], j) < KeptAt(T[b], i)
      BY <1>1
    <3> QED
      BY <3>1, <3>3, <3>4
  <2>2. \A b \in Buckets : \A i \in 1 .. Len(U[b]) :
           <<b, i>> \in SlotsIn(U) /\ f[<<b, i>>] = <<b, KeptAt(T[b], i)>>
    BY <1>4
  <2> HIDE DEF f
  <2> QED
    BY <1>4, <2>1, <2>2
<1>7. ASSUME NEW t \in fresh
      PROVE  \E s \in SlotsIn(U) : f[s] = t
  <2>0. PICK b \in Buckets : \E j \in Kept(T[b]) : t = <<b, j>>
    BY <1>3
  <2>1. PICK j \in Kept(T[b]) : t = <<b, j>>
    BY <2>0
  <2>2. PICK i \in 1 .. Len(U[b]) : KeptAt(T[b], i) = j
    BY <1>1
  <2>3. <<b, i>> \in SlotsIn(U) /\ f[<<b, i>>] = <<b, KeptAt(T[b], i)>>
    BY <1>4
  <2> QED
    BY <2>1, <2>2, <2>3
<1>8. IsFiniteSet(fresh) /\ Cardinality(fresh) = Cardinality(SlotsIn(T)) - Cardinality(stale)
  <2>1. SlotsIn(T) \cap stale = stale
    OBVIOUS
  <2> HIDE DEF stale
  <2>2. /\ IsFiniteSet(SlotsIn(T) \ stale)
        /\ Cardinality(SlotsIn(T) \ stale) =
              Cardinality(SlotsIn(T)) - Cardinality(SlotsIn(T) \cap stale)
    BY FS_Difference
  <2> QED
    BY <2>1, <2>2 DEF fresh
<1> HIDE DEF f, stale
<1>9. /\ IsFiniteSet(SlotsIn(U))
      /\ Cardinality(SlotsIn(U)) = Cardinality(fresh)
  BY <1>5, <1>6, <1>7, <1>8, FS_Injection DEF Injection, IsInjective, Surjection
<1> QED
  BY <1>8, <1>9 DEF stale

-----------------------------------------------------------------------------
(***************************************************************************)
(* The steps                                                               *)
(***************************************************************************)

\* Add keeps the buckets and the counter, and with a node that was heard just
\* now it keeps the order.
LEMMA AddStep ==
    ASSUME OverlayInv, NEW e \in Entries, e.addr \in Addr, Add(e), layout' = layout
    PROVE  /\ buckets' \in Tables
           /\ BucketsInv'
           /\ CountInv'
           /\ (\A b \in Buckets : InOrder(buckets[b])) /\ e.age = 0
                 => \A b \in Buckets : InOrder(buckets'[b])
           /\ \A V : (\A b \in Buckets : Within(buckets[b], V)) /\ e.addr \in V
                        => \A b \in Buckets : Within(buckets'[b], V)
<1> DEFINE b == layout[e.id]
<1>0. /\ buckets \in Tables /\ BucketsInv /\ IsFiniteSet(SlotsIn(buckets))
      /\ size = Cardinality(SlotsIn(buckets)) /\ size <= MaxNodes /\ size \in Nat
      /\ MaxNodes \in Nat
  BY OverlayAssumption, FS_CardinalityType
     DEF OverlayInv, OverlayTypes, CountInv, Slots, SlotsIn
<1>1. b \in -1 .. (NumBuckets - 1) /\ e.id \in ID
  BY DEF OverlayInv, OverlayTypes, Entries
<1>2. CASE b = -1
  <2>1. buckets' = buckets /\ size' = size
    BY <1>2 DEF Add, XorBucketIndex, table
  <2>2. BucketsInv'
    BY <1>0, <2>1 DEF BucketsInv
  <2>3. CountInv'
    BY <1>0, <2>1 DEF CountInv, Slots, SlotsIn
  <2> QED
    BY <1>0, <2>1, <2>2, <2>3
<1>3. CASE b # -1
  <2> DEFINE new == BucketAfter(buckets[b], e)
  <2>1. b \in Buckets
    BY <1>1, <1>3, OverlayAssumption DEF Buckets
  <2>2. buckets[b] \in Seq(Entries) /\ BucketOK(buckets[b], b, layout)
    BY <1>0, <2>1 DEF BucketsInv, Tables
  <2>3. buckets' = [buckets EXCEPT ![b] = new] /\ size' = SizeAfter(buckets[b], e)
    BY <1>3 DEF Add, XorBucketIndex
  <2>4. /\ new \in Seq(Entries)
        /\ new = buckets[b] \/ Fronted(buckets[b], new, e)
        /\ Len(new) = IF Grows(buckets[b], e) THEN Len(buckets[b]) + 1
                      ELSE Len(buckets[b])
    BY <2>2, BucketAfterIs
  <2>5. /\ BucketOK(new, b, layout)
        /\ InOrder(buckets[b]) /\ e.age = 0 => InOrder(new)
        /\ \A V : Within(buckets[b], V) /\ e.addr \in V => Within(new, V)
    BY <2>2, <2>4, FrontedOK
  <2> HIDE DEF new, b
  <2>6. /\ buckets' \in Tables /\ buckets'[b] = new
        /\ \A c \in Buckets : c # b => buckets'[c] = buckets[c]
    BY <1>0, <2>1, <2>3, <2>4 DEF Tables
  <2>7. BucketsInv'
    BY <1>0, <2>5, <2>6 DEF BucketsInv
  <2>8. CountInv'
    <3>1. CASE Grows(buckets[b], e)
      <4>1. /\ IsFiniteSet(SlotsIn(buckets'))
            /\ Cardinality(SlotsIn(buckets')) = Cardinality(SlotsIn(buckets)) + 1
        BY <1>0, <2>1, <2>4, <2>6, <3>1, MoreSlots
      <4>2. size' = size + 1 /\ size < MaxNodes
        BY <2>3, <3>1 DEF SizeAfter, Grows
      <4> QED
        BY <1>0, <4>1, <4>2 DEF CountInv, Slots, SlotsIn
    <3>2. CASE ~Grows(buckets[b], e)
      <4>1. SlotsIn(buckets') = SlotsIn(buckets)
        BY <1>0, <2>4, <2>6, <3>2, SameSlots
      <4>2. size' = size
        BY <2>3, <3>2 DEF SizeAfter
      <4> QED
        BY <1>0, <4>1, <4>2 DEF CountInv, Slots, SlotsIn
    <3> QED
      BY <3>1, <3>2
  <2> QED
    BY <2>1, <2>5, <2>6, <2>7, <2>8
<1> QED
  BY <1>2, <1>3

\* A step that leaves the table alone.
LEMMA TableFrame ==
    ASSUME OverlayInv, buckets' = buckets, size' = size, layout' = layout
    PROVE  buckets' \in Tables /\ BucketsInv' /\ CountInv'
  BY DEF OverlayInv, OverlayTypes, BucketsInv, CountInv, Slots

\* addNode, for a node of this network or not.
LEMMA AddNodeStep ==
    ASSUME OverlayInv, NEW c \in Contacts, AddNode(c), layout' = layout
    PROVE  /\ buckets' \in Tables
           /\ BucketsInv'
           /\ CountInv'
           /\ (\A b \in Buckets : InOrder(buckets[b]))
                 => \A b \in Buckets : InOrder(buckets'[b])
           /\ \A V : /\ \A b \in Buckets : Within(buckets[b], V)
                     /\ c.addr \in Addr => c.addr \in V
                     => \A b \in Buckets : Within(buckets'[b], V)
<1>1. /\ Entry(c) \in Entries /\ Entry(c).addr = c.addr /\ Entry(c).age = 0
  BY OverlayAssumption DEF Entry, Entries
<1>2. CASE c.addr \in Addr
  <2>1. Add(Entry(c)) /\ Entry(c).addr \in Addr
    BY <1>1, <1>2 DEF AddNode, AcceptsAddress
  <2> QED
    BY <1>1, <1>2, <2>1, AddStep
<1>3. CASE c.addr \notin Addr
  <2>1. buckets' = buckets /\ size' = size
    BY <1>3 DEF AddNode, AcceptsAddress, table
  <2> QED
    BY <2>1, TableFrame
<1> QED
  BY <1>2, <1>3

\* A step of a running service: nothing is loaded, and what is vouched for stays so.
LEMMA RunningStep ==
    ASSUME OverlayInv,
           buckets' \in Tables, BucketsInv', CountInv',
           (\A b \in Buckets : InOrder(buckets[b]))
              => \A b \in Buckets : InOrder(buckets'[b]),
           layout' = layout, loading' = loading, restarts' = restarts,
           disk' \in {disk, buckets},
           vouched \subseteq vouched',
           \A b \in Buckets : Within(buckets'[b], vouched'),
           reader' \subseteq Contacts,
           \A c \in reader' : c.addr \in Addr => c.addr \in vouched'
    PROVE  OverlayInv'
<1>1. OverlayTypes'
  BY DEF OverlayInv, OverlayTypes
<1>2. OrderInv'
  BY DEF OverlayInv, OrderInv, NoTable
<1>3. VouchedInv'
  <2>1. \A b \in Buckets : Within(disk'[b], vouched') /\ Within(loading'[b], vouched')
    BY DEF OverlayInv, VouchedInv, Within
  <2> QED
    BY <2>1 DEF VouchedInv
<1> QED
  BY <1>1, <1>2, <1>3 DEF OverlayInv

\* A step that leaves the table and what is vouched for alone.
LEMMA QuietStep ==
    ASSUME OverlayInv,
           UNCHANGED <<layout, table, loading, reader, vouched, restarts>>,
           disk' \in {disk, buckets}
    PROVE  OverlayInv'
<1>1. /\ buckets' = buckets /\ size' = size /\ layout' = layout /\ loading' = loading
      /\ reader' = reader /\ vouched' = vouched /\ restarts' = restarts
  BY DEF table
<1>2. buckets' \in Tables /\ BucketsInv' /\ CountInv'
  BY <1>1, TableFrame
<1>3. \A b \in Buckets : Within(buckets'[b], vouched')
  BY <1>1 DEF OverlayInv, VouchedInv
<1>4. /\ reader' \subseteq Contacts
      /\ \A c \in reader' : c.addr \in Addr => c.addr \in vouched'
  BY <1>1 DEF OverlayInv, OverlayTypes, VouchedInv
<1> QED
  BY <1>1, <1>2, <1>3, <1>4, RunningStep

\* The reader: a node that spoke.
LEMMA QueryStep ==
    ASSUME OverlayInv, NEW c \in Contacts, OnQuery(c)
    PROVE  OverlayInv'
<1>1. /\ AddNode(c) /\ vouched' = vouched \cup {c.addr}
      /\ layout' = layout /\ loading' = loading /\ disk' = disk
      /\ reader' = reader /\ restarts' = restarts /\ reader = {}
  BY DEF OnQuery
<1>2. \A b \in Buckets : Within(buckets[b], vouched')
  BY <1>1 DEF OverlayInv, VouchedInv, Within
<1>3. /\ buckets' \in Tables /\ BucketsInv' /\ CountInv'
      /\ (\A b \in Buckets : InOrder(buckets[b]))
            => \A b \in Buckets : InOrder(buckets'[b])
      /\ \A b \in Buckets : Within(buckets'[b], vouched')
  BY <1>1, <1>2, AddNodeStep
<1> QED
  BY <1>1, <1>3, RunningStep

\* The reader: a node that answered, and those it lists.
LEMMA NodesStep ==
    ASSUME OverlayInv, NEW c \in Contacts, NEW L \in SUBSET Contacts, OnNodes(c, L)
    PROVE  OverlayInv'
<1>1. /\ c.addr \in Addr /\ Add(Entry(c))
      /\ vouched' = vouched \cup ({d.addr : d \in L \cup {c}} \cap Addr)
      /\ layout' = layout /\ loading' = loading /\ disk' = disk
      /\ reader' = L /\ restarts' = restarts
  BY DEF OnNodes, AcceptsAddress
<1>2. \A b \in Buckets : Within(buckets[b], vouched')
  BY <1>1 DEF OverlayInv, VouchedInv, Within
<1>3. /\ Entry(c) \in Entries /\ Entry(c).addr = c.addr /\ Entry(c).age = 0
  BY OverlayAssumption DEF Entry, Entries
<1>4. c.addr \in vouched' /\ \A d \in L : d.addr \in Addr => d.addr \in vouched'
  BY <1>1
<1>5. /\ buckets' \in Tables /\ BucketsInv' /\ CountInv'
      /\ (\A b \in Buckets : InOrder(buckets[b]))
            => \A b \in Buckets : InOrder(buckets'[b])
      /\ \A b \in Buckets : Within(buckets'[b], vouched')
  BY <1>1, <1>2, <1>3, <1>4, AddStep
<1> QED
  BY <1>1, <1>4, <1>5, RunningStep

\* The reader: the next of the nodes that were listed.
LEMMA DiscoveredStep ==
    ASSUME OverlayInv, NEW c \in reader, Discovered(c)
    PROVE  OverlayInv'
<1>1. /\ AddNode(c) /\ vouched' = vouched /\ reader' = reader \ {c}
      /\ layout' = layout /\ loading' = loading /\ disk' = disk
      /\ restarts' = restarts
  BY DEF Discovered
<1>2. /\ c \in Contacts /\ reader \subseteq Contacts
      /\ \A d \in reader : d.addr \in Addr => d.addr \in vouched'
      /\ \A b \in Buckets : Within(buckets[b], vouched')
  BY <1>1 DEF OverlayInv, OverlayTypes, VouchedInv
<1>3. /\ buckets' \in Tables /\ BucketsInv' /\ CountInv'
      /\ (\A b \in Buckets : InOrder(buckets[b]))
            => \A b \in Buckets : InOrder(buckets'[b])
      /\ \A b \in Buckets : Within(buckets'[b], vouched')
  BY <1>1, <1>2, AddNodeStep
<1> QED
  BY <1>1, <1>2, <1>3, RunningStep

\* Prune: the counter falls by the nodes that left.
LEMMA PruneStep ==
    ASSUME OverlayInv, Prune
    PROVE  OverlayInv'
<1>1. /\ buckets' = [b \in Buckets |-> Pruned(buckets[b])] /\ size' = SizePruned
      /\ layout' = layout /\ loading' = loading /\ disk' = disk /\ reader' = reader
      /\ vouched' = vouched /\ restarts' = restarts
  BY DEF Prune
<1>2. /\ buckets \in Tables /\ BucketsInv /\ IsFiniteSet(SlotsIn(buckets))
      /\ size = Cardinality(SlotsIn(buckets)) /\ size <= MaxNodes
      /\ MaxNodes \in Nat
  BY OverlayAssumption DEF OverlayInv, OverlayTypes, CountInv, Slots, SlotsIn
<1>3. \A b \in Buckets :
         /\ buckets'[b] = Pruned(buckets[b])
         /\ buckets'[b] \in Seq(Entries)
         /\ Len(buckets'[b]) = Cardinality(Kept(buckets[b]))
         /\ BucketOK(buckets'[b], b, layout)
         /\ InOrder(buckets[b]) => InOrder(buckets'[b])
         /\ \A V : Within(buckets[b], V) => Within(buckets'[b], V)
  <2> TAKE b \in Buckets
  <2>1. buckets'[b] = Pruned(buckets[b])
    BY <1>1
  <2>2. buckets[b] \in Seq(Entries) /\ BucketOK(buckets[b], b, layout)
    BY <1>2 DEF Tables, BucketsInv
  <2> QED
    BY <2>1, <2>2, PrunedOK
<1>4. buckets' \in Tables
  BY <1>1, <1>3 DEF Tables
<1>5. BucketsInv'
  BY <1>1, <1>3 DEF BucketsInv
<1>6. CountInv'
  <2> DEFINE stale == {s \in SlotsIn(buckets) : buckets[s[1]][s[2]].age >= PruneAge}
  <2>1. /\ IsFiniteSet(SlotsIn(buckets'))
        /\ Cardinality(SlotsIn(buckets')) =
              Cardinality(SlotsIn(buckets)) - Cardinality(stale)
    BY <1>2, <1>3, <1>4, PrunedSlots
  <2>2. size' = size - Cardinality(stale)
    BY <1>1 DEF SizePruned, Slots, SlotsIn
  <2>3. Cardinality(stale) \in Nat /\ size \in Nat
    <3>1. IsFiniteSet(stale)
      BY <1>2, FS_Subset
    <3> HIDE DEF stale
    <3> QED
      BY <1>2, <3>1, FS_CardinalityType
  <2> HIDE DEF stale
  <2> QED
    BY <1>2, <2>1, <2>2, <2>3 DEF CountInv, Slots, SlotsIn
<1>7. /\ \A b \in Buckets : Within(buckets'[b], vouched')
      /\ reader' \subseteq Contacts
      /\ \A c \in reader' : c.addr \in Addr => c.addr \in vouched'
  BY <1>1, <1>3 DEF OverlayInv, OverlayTypes, VouchedInv
<1> QED
  BY <1>1, <1>3, <1>4, <1>5, <1>6, <1>7, RunningStep

\* An empty table.
LEMMA NoTableIs ==
    /\ NoTable \in Tables
    /\ \A b \in Buckets : NoTable[b] = <<>> /\ Len(NoTable[b]) = 0
    /\ SlotsIn(NoTable) = {}
<1>1. NoTable \in Tables /\ \A b \in Buckets : NoTable[b] = <<>> /\ Len(NoTable[b]) = 0
  BY DEF NoTable, Tables
<1>2. \A s : s \notin SlotsIn(NoTable)
  <2> TAKE s
  <2>1. \A b \in Buckets : \A i : i \notin 1 .. Len(NoTable[b])
    BY <1>1
  <2> QED
    BY <1>1, <2>1, SlotIs
<1> QED
  BY <1>1, <1>2

\* A restart: an empty table, another ID, and the file to load.
LEMMA RestartStep ==
    ASSUME OverlayInv, Restart
    PROVE  OverlayInv'
<1>1. /\ restarts' = restarts + 1 /\ layout' \in Layouts
      /\ buckets' = NoTable /\ size' = 0 /\ loading' = disk' /\ reader' = {}
      /\ disk' \in {disk, buckets} /\ vouched' = vouched
  BY DEF Restart
<1>2. OverlayTypes'
  BY <1>1, NoTableIs, OverlayAssumption DEF OverlayInv, OverlayTypes
<1>3. BucketsInv'
  BY <1>1, NoTableIs, OverlayAssumption DEF BucketsInv, BucketOK
<1>4. OrderInv'
  BY <1>1 DEF OverlayInv, OverlayTypes, OrderInv
<1>5. VouchedInv'
  <2>1. \A b \in Buckets : Within(NoTable[b], vouched)
    BY NoTableIs DEF Within
  <2>2. \A b \in Buckets : Within(disk'[b], vouched)
    BY <1>1 DEF OverlayInv, VouchedInv
  <2> QED
    BY <1>1, <2>1, <2>2 DEF VouchedInv
<1>6. CountInv'
  <2>1. Slots' = {}
    BY <1>1, NoTableIs DEF Slots, SlotsIn
  <2> QED
    BY <1>1, <2>1, FS_EmptySet, OverlayAssumption DEF CountInv
<1> QED
  BY <1>2, <1>3, <1>4, <1>5, <1>6 DEF OverlayInv

\* The next entry of the file, which may be as old as the crawler was down. It is
\* never loaded before a restart, so the order of the table is not at stake.
LEMMA LoadStep ==
    ASSUME OverlayInv, NEW b \in Buckets, Load(b)
    PROVE  OverlayInv'
<1> DEFINE e == Head(loading[b])
<1>1. /\ loading[b] # <<>> /\ loading' = [loading EXCEPT ![b] = Tail(@)]
      /\ layout' = layout /\ reader' = reader /\ disk' = disk
      /\ vouched' = vouched /\ restarts' = restarts
  BY DEF Load
<1>2. loading \in Tables /\ loading[b] \in Seq(Entries) /\ disk \in Tables
  BY DEF OverlayInv, OverlayTypes, Tables
<1>3. /\ Len(loading[b]) \in Nat /\ Len(loading[b]) >= 1 /\ e = loading[b][1]
      /\ e \in Entries /\ Tail(loading[b]) \in Seq(Entries)
      /\ Len(Tail(loading[b])) = Len(loading[b]) - 1
      /\ \A i \in 1 .. Len(Tail(loading[b])) : Tail(loading[b])[i] = loading[b][i + 1]
  BY <1>1, <1>2
<1>4. e.addr \in vouched
  BY <1>3 DEF OverlayInv, VouchedInv, Within
<1>5. restarts # 0
  BY <1>1, NoTableIs DEF OverlayInv, OrderInv
<1>6. /\ buckets' \in Tables /\ BucketsInv' /\ CountInv'
      /\ \A c \in Buckets : Within(buckets'[c], vouched')
  <2>0. \A c \in Buckets : Within(buckets[c], vouched)
    BY DEF OverlayInv, VouchedInv
  <2>1. CASE e.addr \in Addr
    <3>1. Add(e)
      BY <2>1 DEF Load, AcceptsAddress
    <3> HIDE DEF e
    <3> QED
      BY <1>1, <1>3, <1>4, <2>0, <2>1, <3>1, AddStep
  <2>2. CASE e.addr \notin Addr
    <3>1. buckets' = buckets /\ size' = size
      BY <2>2 DEF Load, AcceptsAddress, table
    <3> QED
      BY <1>1, <2>0, <3>1, TableFrame
  <2> QED
    BY <2>1, <2>2
<1>7. OverlayTypes'
  <2>1. loading' \in Tables
    BY <1>1, <1>2, <1>3 DEF Tables
  <2> QED
    BY <1>1, <1>6, <2>1 DEF OverlayInv, OverlayTypes
<1>8. VouchedInv'
  <2>1. \A c \in Buckets : Within(loading[c], vouched) /\ Within(disk[c], vouched)
    BY DEF OverlayInv, VouchedInv
  <2>2. Within(Tail(loading[b]), vouched)
    BY <1>3, <2>1 DEF Within
  <2>3. \A c \in Buckets : loading'[c] = IF c = b THEN Tail(loading[b]) ELSE loading[c]
    BY <1>1, <1>2 DEF Tables
  <2>4. \A c \in Buckets : Within(loading'[c], vouched)
    BY <2>1, <2>2, <2>3
  <2> QED
    BY <1>1, <1>6, <2>1, <2>4 DEF OverlayInv, VouchedInv
<1>9. OrderInv'
  BY <1>1, <1>5 DEF OrderInv
<1> QED
  BY <1>6, <1>7, <1>8, <1>9 DEF OverlayInv

\* Time changes ages only, and not which of two nodes is the older.
LEMMA OlderIs ==
    ASSUME NEW T \in Tables
    PROVE  /\ Older(T) \in Tables
           /\ \A b \in Buckets :
                 /\ Len(Older(T)[b]) = Len(T[b])
                 /\ \A i \in 1 .. Len(T[b]) : /\ Older(T)[b][i].id = T[b][i].id
                                              /\ Older(T)[b][i].addr = T[b][i].addr
                 /\ InOrder(T[b]) => InOrder(Older(T)[b])
<1> DEFINE older(e) == [e EXCEPT !.age = IF @ < PruneAge THEN @ + 1 ELSE @]
<1>1. ASSUME NEW e \in Entries
      PROVE  /\ older(e) \in Entries /\ older(e).id = e.id /\ older(e).addr = e.addr
             /\ older(e).age = IF e.age < PruneAge THEN e.age + 1 ELSE e.age
             /\ e.age \in 0 .. PruneAge
  BY OverlayAssumption DEF Entries
<1>2. ASSUME NEW b \in Buckets
      PROVE  /\ Older(T)[b] \in Seq(Entries) /\ Len(Older(T)[b]) = Len(T[b])
             /\ \A i \in 1 .. Len(T[b]) : /\ Older(T)[b][i] = older(T[b][i])
                                          /\ T[b][i] \in Entries
  <2>1. T[b] \in Seq(Entries) /\ Len(T[b]) \in Nat /\ DOMAIN T[b] = 1 .. Len(T[b])
    BY DEF Tables
  <2>2. \A i \in 1 .. Len(T[b]) : T[b][i] \in Entries
    BY <2>1
  <2>3. Older(T)[b] = [i \in 1 .. Len(T[b]) |-> older(T[b][i])]
    BY <2>1 DEF Older
  <2>4. \A i \in 1 .. Len(T[b]) : older(T[b][i]) \in Entries
    BY <1>1, <2>2
  <2> HIDE DEF older
  <2> QED
    BY <2>1, <2>2, <2>3, <2>4
<1>3. Older(T) \in Tables
  <2>1. Older(T) = [b \in Buckets |-> Older(T)[b]]
    BY DEF Older
  <2> QED
    BY <1>2, <2>1 DEF Tables
<1> HIDE DEF older
<1>4. ASSUME NEW b \in Buckets
      PROVE  /\ Len(Older(T)[b]) = Len(T[b])
             /\ \A i \in 1 .. Len(T[b]) : /\ Older(T)[b][i].id = T[b][i].id
                                          /\ Older(T)[b][i].addr = T[b][i].addr
             /\ InOrder(T[b]) => InOrder(Older(T)[b])
  <2>1. /\ Len(Older(T)[b]) = Len(T[b])
        /\ \A i \in 1 .. Len(T[b]) :
              /\ Older(T)[b][i].id = T[b][i].id
              /\ Older(T)[b][i].addr = T[b][i].addr
              /\ Older(T)[b][i].age =
                    IF T[b][i].age < PruneAge THEN T[b][i].age + 1 ELSE T[b][i].age
              /\ T[b][i].age \in 0 .. PruneAge
    BY <1>1, <1>2
  <2>2. ASSUME InOrder(T[b])
        PROVE  InOrder(Older(T)[b])
    <3> SUFFICES ASSUME NEW i \in 1 .. Len(T[b]), NEW j \in 1 .. Len(T[b]), i < j
                 PROVE  Older(T)[b][i].age <= Older(T)[b][j].age
      BY <2>1 DEF InOrder
    <3> DEFINE x == T[b][i].age
               y == T[b][j].age
    <3>1. x <= y
      BY <2>2 DEF InOrder
    <3>2. x \in 0 .. PruneAge /\ y \in 0 .. PruneAge
      BY <2>1
    <3>3. /\ Older(T)[b][i].age = IF x < PruneAge THEN x + 1 ELSE x
          /\ Older(T)[b][j].age = IF y < PruneAge THEN y + 1 ELSE y
      BY <2>1
    <3> HIDE DEF x, y
    <3> QED
      BY <3>1, <3>2, <3>3, OverlayAssumption
  <2> QED
    BY <2>1, <2>2
<1> QED
  BY <1>3, <1>4

\* Time.
LEMMA TickStep ==
    ASSUME OverlayInv, Tick
    PROVE  OverlayInv'
<1>1. /\ buckets' = Older(buckets) /\ loading' = Older(loading) /\ disk' = Older(disk)
      /\ layout' = layout /\ size' = size /\ reader' = reader
      /\ vouched' = vouched /\ restarts' = restarts
  BY DEF Tick
<1>2. buckets \in Tables /\ loading \in Tables /\ disk \in Tables
  BY DEF OverlayInv, OverlayTypes
<1>3. OverlayTypes'
  BY <1>1, <1>2, OlderIs DEF OverlayInv, OverlayTypes
<1>4. BucketsInv'
  <2>1. ASSUME NEW b \in Buckets
        PROVE  BucketOK(buckets'[b], b, layout)
    <3>1. /\ Len(buckets'[b]) = Len(buckets[b])
          /\ \A i \in 1 .. Len(buckets[b]) : /\ buckets'[b][i].id = buckets[b][i].id
                                             /\ buckets'[b][i].addr = buckets[b][i].addr
      BY <1>1, <1>2, OlderIs
    <3>2. BucketOK(buckets[b], b, layout)
      BY DEF OverlayInv, BucketsInv
    <3> QED
      BY <3>1, <3>2 DEF BucketOK
  <2> QED
    BY <1>1, <2>1 DEF BucketsInv
<1>5. OrderInv'
  <2> SUFFICES ASSUME restarts' = 0
               PROVE  loading' = NoTable /\ \A b \in Buckets : InOrder(buckets'[b])
    BY DEF OrderInv, NoTable
  <2>1. loading = NoTable /\ \A b \in Buckets : InOrder(buckets[b])
    BY <1>1 DEF OverlayInv, OrderInv
  <2>2. Older(NoTable) = NoTable
    <3>1. \A b \in Buckets : Older(NoTable)[b] = <<>>
      <4> TAKE b \in Buckets
      <4>1. Older(NoTable)[b] \in Seq(Entries) /\ Len(Older(NoTable)[b]) = 0
        BY NoTableIs, OlderIs DEF Tables
      <4> QED
        BY <4>1
    <3>2. Older(NoTable) = [b \in Buckets |-> Older(NoTable)[b]]
      BY DEF Older
    <3> QED
      BY <3>1, <3>2 DEF NoTable
  <2> QED
    BY <1>1, <1>2, <2>1, <2>2, OlderIs
<1>6. VouchedInv'
  <2>1. ASSUME NEW T \in Tables, \A b \in Buckets : Within(T[b], vouched)
        PROVE  \A b \in Buckets : Within(Older(T)[b], vouched)
    BY <2>1, OlderIs DEF Within
  <2>2. \A b \in Buckets : /\ Within(buckets'[b], vouched)
                           /\ Within(loading'[b], vouched)
                           /\ Within(disk'[b], vouched)
    BY <1>1, <1>2, <2>1 DEF OverlayInv, VouchedInv
  <2> QED
    BY <1>1, <2>2 DEF OverlayInv, VouchedInv
<1>7. CountInv'
  <2>1. SlotsIn(buckets') = SlotsIn(buckets)
    BY <1>1, <1>2, OlderIs, SameSlots
  <2> QED
    BY <1>1, <2>1 DEF OverlayInv, CountInv, Slots, SlotsIn
<1> QED
  BY <1>3, <1>4, <1>5, <1>6, <1>7 DEF OverlayInv

\* Every step keeps the invariant.
LEMMA OverlayStep ==
    ASSUME OverlayInv, [Next]_vars
    PROVE  OverlayInv'
<1>1. ASSUME NEW c \in Contacts, OnQuery(c)
      PROVE  OverlayInv'
  BY <1>1, QueryStep
<1>2. ASSUME NEW c \in Contacts, NEW L \in SUBSET Contacts, OnNodes(c, L)
      PROVE  OverlayInv'
  BY <1>2, NodesStep
<1>3. ASSUME NEW c \in reader, Discovered(c)
      PROVE  OverlayInv'
  BY <1>3, DiscoveredStep
<1>4. ASSUME NEW a, Offer(a)
      PROVE  OverlayInv'
  BY <1>4, QuietStep DEF Offer
<1>5. ASSUME NEW a, Probe(a)
      PROVE  OverlayInv'
  BY <1>5, QuietStep DEF Probe
<1>6. CASE Maintain
  BY <1>6, QuietStep DEF Maintain
<1>7. CASE Ask
  BY <1>7, QuietStep DEF Ask
<1>8. CASE Prune
  BY <1>8, PruneStep
<1>9. CASE SaveRoutingTable
  BY <1>9, QuietStep DEF SaveRoutingTable
<1>10. CASE Restart
  BY <1>10, RestartStep
<1>11. ASSUME NEW b \in Buckets, Load(b)
       PROVE  OverlayInv'
  BY <1>11, LoadStep
<1>12. ASSUME NEW a, Lose(a)
       PROVE  OverlayInv'
  BY <1>12, QuietStep DEF Lose
<1>13. CASE Tick
  BY <1>13, TickStep
<1>14. CASE UNCHANGED vars
  BY <1>14, QuietStep DEF vars
<1> QED
  BY <1>1, <1>2, <1>3, <1>4, <1>5, <1>6, <1>7, <1>8, <1>9, <1>10, <1>11, <1>12,
     <1>13, <1>14 DEF Next

\* An empty table and an empty file.
LEMMA OverlayStart ==
    Init => OverlayInv
<1> SUFFICES ASSUME Init PROVE OverlayInv
  OBVIOUS
<1>1. OverlayTypes
  BY NoTableIs, OverlayAssumption DEF Init, OverlayTypes
<1>2. BucketsInv
  BY NoTableIs, OverlayAssumption DEF Init, BucketsInv, BucketOK
<1>3. OrderInv
  BY NoTableIs DEF Init, OrderInv, InOrder
<1>4. VouchedInv
  BY NoTableIs DEF Init, VouchedInv, Within
<1>5. CountInv
  <2>1. Slots = {}
    BY NoTableIs DEF Init, Slots, SlotsIn
  <2> QED
    BY <2>1, FS_EmptySet, OverlayAssumption DEF Init, CountInv
<1> QED
  BY <1>1, <1>2, <1>3, <1>4, <1>5 DEF OverlayInv

-----------------------------------------------------------------------------
(***************************************************************************)
(* The theorems                                                            *)
(***************************************************************************)

\* The invariant, for every number of nodes and of restarts.
THEOREM OverlayInvHolds ==
    Spec => []OverlayInv
<1>1. Init => OverlayInv
  BY OverlayStart
<1>2. OverlayInv /\ [Next]_vars => OverlayInv'
  BY OverlayStep
<1> QED
  BY <1>1, <1>2, PTL DEF Spec

\* RoutingTable.size is the number of nodes in the buckets, through refreshes,
\* replacements, prunes and loads, and neither a bucket nor the table outgrows
\* its limit.
THEOREM SizeExactCorrect ==
    Spec => []SizeExact
<1>1. OverlayInv => SizeExact
  BY DEF OverlayInv, BucketsInv, BucketOK, CountInv, SizeExact
<1> QED
  BY <1>1, OverlayInvHolds, PTL

\* Add puts a node into the table once, in the bucket of its ID, and only with
\* an address of this network; no replacement, prune, load or new ID undoes it.
THEOREM NodesPlacedCorrect ==
    Spec => []NodesPlaced
<1>1. OverlayInv => NodesPlaced
  <2> SUFFICES ASSUME OverlayInv PROVE NodesPlaced
    OBVIOUS
  <2>1. buckets \in Tables /\ Slots = SlotsIn(buckets)
    BY DEF OverlayInv, OverlayTypes, Slots, SlotsIn
  <2>2. \A s \in Slots : /\ s[1] \in Buckets /\ s[2] \in 1 .. Len(buckets[s[1]])
                         /\ s = <<s[1], s[2]>>
    BY <2>1, SlotIs
  <2>3. \A s \in Slots : /\ layout[buckets[s[1]][s[2]].id] = s[1]
                         /\ buckets[s[1]][s[2]].addr \in Addr
    BY <2>2 DEF OverlayInv, BucketsInv, BucketOK
  <2>4. ASSUME NEW s \in Slots, NEW t \in Slots,
               buckets[s[1]][s[2]].id = buckets[t[1]][t[2]].id
        PROVE  s = t
    <3>1. s[1] = t[1]
      BY <2>3, <2>4
    <3>2. s[2] = t[2]
      BY <2>2, <2>4, <3>1 DEF OverlayInv, BucketsInv, BucketOK
    <3> QED
      BY <2>2, <3>1, <3>2
  <2> QED
    BY <2>3, <2>4 DEF NodesPlaced
<1> QED
  BY <1>1, OverlayInvHolds, PTL

\* Until the first restart, the last node of a bucket, which Add gives up when
\* the bucket is full, is the one that was mentioned the longest time ago.
THEOREM FreshestFirstCorrect ==
    Spec => []FreshestFirst
<1>1. OverlayInv => FreshestFirst
  <2>1. OverlayInv => \A b \in Buckets : DOMAIN buckets[b] = 1 .. Len(buckets[b])
    BY DEF OverlayInv, OverlayTypes, Tables
  <2> QED
    BY <2>1 DEF OverlayInv, OrderInv, InOrder, FreshestFirst
<1> QED
  BY <1>1, OverlayInvHolds, PTL

\* What is in the table, in its file or about to be loaded spoke to the service
\* or was listed by a node of its network: an address that the other service only
\* offered is not there.
THEOREM NoInjectionCorrect ==
    Spec => []NoInjection
<1>1. OverlayInv => NoInjection
  <2> SUFFICES ASSUME OverlayInv,
                      NEW T \in {buckets, disk, loading}, NEW b \in Buckets,
                      NEW i \in DOMAIN T[b]
               PROVE  T[b][i].addr \in vouched
    BY DEF NoInjection
  <2>1. T \in Tables /\ Within(T[b], vouched)
    BY DEF OverlayInv, OverlayTypes, VouchedInv
  <2>2. DOMAIN T[b] = 1 .. Len(T[b])
    BY <2>1 DEF Tables
  <2> QED
    BY <2>1, <2>2 DEF Within
<1> QED
  BY <1>1, OverlayInvHolds, PTL

=============================================================================
