------------------------ MODULE ClusterObjectsProofs ------------------------
(***************************************************************************)
(* The object codec rebuilds exactly or not at all; and claimants that had *)
(* heard of every node keep the shard of their rank, while levels stay.    *)
(***************************************************************************)
EXTENDS ClusterObjects, ClusterProofs, ObjectErasureProofs

-----------------------------------------------------------------------------
(***************************************************************************)
(* The codec.                                                              *)
(***************************************************************************)

\* No shard is junk.
LEMMA JunkIsNone ==
    ASSUME NEW data, NEW k \in Nat \ {0}, NEW i \in Nat
    PROVE  Shard(data, k, i) # Junk
  <1>1. DOMAIN Junk.of = {}
    BY DEF Junk
  <1>2. 1 \in DOMAIN Shard(data, k, i).of
    BY DEF Shard
  <1> QED
    BY <1>1, <1>2

\* Of what is fetched the good shards are verified, and nothing else.
LEMMA GoodVerified ==
    ASSUME NEW data, NEW k \in Nat \ {0}, NEW r \in Nat,
           NEW good \in SUBSET (0..k+r-1), NEW bad \in SUBSET Nat
    PROVE  LET m == Manifest(data, k, r)
           IN Verified(m, Fetched(m, good, bad)) = good
  <1> DEFINE m == Manifest(data, k, r)
             F == Fetched(m, good, bad)
  <1>1. /\ DOMAIN m.hashes = 0..k+r-1
        /\ \A i \in 0..k+r-1 : m.hashes[i] = Shard(data, k, i)
    BY DEF Manifest
  <1>2. /\ DOMAIN F = good \cup bad
        /\ \A i \in good \cup bad :
             F[i] = IF i \in good THEN m.hashes[i] ELSE Junk
    BY DEF Fetched
  <1>3. \A i \in 0..k+r-1 : m.hashes[i] # Junk
    BY <1>1, JunkIsNone
  <1> HIDE DEF m, F
  <1>4. Verified(m, F) = good
    BY <1>1, <1>2, <1>3 DEF Verified
  <1> QED
    BY <1>4 DEF m, F

\* What a read makes of good and bad answers.
LEMMA Rebuilds ==
    ASSUME NEW data \in Seq(Nat), NEW k \in Nat \ {0}, NEW r \in Nat,
           k + r <= MaxShards,
           NEW good \in SUBSET (0..k+r-1), NEW bad \in SUBSET Nat
    PROVE  RebuiltFrom(data, k, r, good, bad)
  <1> DEFINE m == Manifest(data, k, r)
             F == Fetched(m, good, bad)
  <1>1. Verified(m, F) = good
    BY GoodVerified
  <1>2. Encodable(k, r)
    BY DEF Encodable
  <1>3. Reconstruct(m, F)
          = IF Cardinality(Verified(m, F)) >= k THEN {data} ELSE {}
    <2> HIDE DEF F
    <2> QED
      BY <1>2, ReconstructExact
  <1>4. RebuiltFrom(data, k, r, good, bad)
          <=> Reconstruct(m, F) = IF Cardinality(good) >= k THEN {data} ELSE {}
    BY DEF RebuiltFrom
  <1> HIDE DEF m, F
  <1> QED
    BY <1>1, <1>3, <1>4

\* A manifest of n hashes has one length.
LEMMA DecodesExactly ==
    ASSUME NEW n \in Nat, NEW name \in Nat, NEW len \in Nat
    PROVE  Decodes(n, name, len) <=> len = Octets(name, n)
  BY DEF Decodes, Octets, HeadLen, HashLen

\* erasure.rs 99-226: for every bound, objects are rebuilt exactly or not at all
\* and manifests decoded only whole.
THEOREM CodecCorrect == CodecExact
  <1>1. ASSUME NEW data \in Samples, NEW n \in 1..MaxN, NEW k \in 1..n,
               NEW good \in SUBSET (0..n-1), NEW bad \in SUBSET ((0..n) \ good)
        PROVE  RebuiltFrom(data, k, n - k, good, bad)
    <2>1. data \in Seq(Nat)
      BY ObjectAssumption DEF Samples
    <2>2. /\ k \in Nat \ {0} /\ n - k \in Nat /\ k + (n - k) = n
          /\ n <= MaxShards
      BY ObjectAssumption DEF MaxShards
    <2>3. good \in SUBSET (0..k+(n-k)-1) /\ bad \in SUBSET Nat
      BY <2>2
    <2> QED
      BY <2>1, <2>2, <2>3, Rebuilds
  <1>2. ASSUME NEW n \in 0..MaxN, NEW name \in 0..MaxLen,
               NEW len \in 0..Octets(name, n + 1)
        PROVE  Decodes(n, name, len) <=> len = Octets(name, n)
    <2>1. n \in Nat /\ name \in Nat /\ len \in Nat
      BY ObjectAssumption
    <2> QED
      BY <2>1, DecodesExactly
  <1> QED
    BY <1>1, <1>2 DEF CodecExact
-----------------------------------------------------------------------------
(***************************************************************************)
(* What informed claimants keep.                                           *)
(***************************************************************************)

\* The nodes with capacity that really go before n, and how many they are.
Betters(n) == {m \in Node : used[m] < Watermark /\ Ahead(m, n)}

Rank(n) == Cardinality(Betters(n))

\* An informed claimant keeps the shard of its rank, which is one.
KeptInv ==
    Erasure /\ fills = 0 =>
        \A n \in informed :
            /\ used[n] < Watermark
            /\ held[n] = Rank(n) /\ Rank(n) < Factor

OInv == CInv /\ KeptInv

\* A node designated to claim an announced job has fewer than the factor of
\* nodes with capacity before it: the claimants among them count against the
\* need, and of the others fewer than the need are before it.
LEMMA DesignatedRank ==
    ASSUME NEW v \in View, NEW n \in Node, n \in Claimers(v),
           v.job = "announced"
    PROVE  LET A == {x \in Live(v) : HasCapacity(v, x) /\ Before(v, x, n)}
           IN /\ A \in SUBSET Node /\ Cardinality(A) < Factor
              /\ n \in Live(v) /\ HasCapacity(v, n)
  <1> DEFINE A == {x \in Live(v) : HasCapacity(v, x) /\ Before(v, x, n)}
             T == {m \in Live(v) \ v.claimants : HasCapacity(v, m)}
             B == {x \in T : Before(v, x, n)}
             L == LiveClaimants(v)
  <1>1. n \in T /\ Cardinality(B) < Need(v)
    BY DEF Claimers, Lowest
  <1>2. Need(v) = Factor - Cardinality(L)
    BY DEF Need, Replication
  <1>3. A \subseteq B \cup L
    BY DEF LiveClaimants
  <1>4. A \in SUBSET Node /\ B \in SUBSET Node /\ L \in SUBSET Node
    BY DEF Live, LiveClaimants
  <1>5. n \in Live(v) /\ HasCapacity(v, n)
    BY <1>1
  <1> HIDE DEF A, B, L, T
  <1>6. /\ IsFiniteSet(B) /\ Cardinality(B) \in Nat
        /\ IsFiniteSet(L) /\ Cardinality(L) \in Nat
    BY <1>4, NodeSubsets
  <1>7. Cardinality(B \cup L) <= Cardinality(B) + Cardinality(L)
    <2>1. /\ Cardinality(B \cup L)
               = Cardinality(B) + Cardinality(L) - Cardinality(B \cap L)
          /\ IsFiniteSet(B \cap L)
      BY <1>6, FS_Union, FS_Intersection
    <2>2. Cardinality(B \cap L) \in Nat
      BY <2>1, FS_CardinalityType
    <2> QED
      BY <1>6, <2>1, <2>2
  <1>8. /\ Cardinality(A) \in Nat /\ Cardinality(B \cup L) \in Nat
        /\ Cardinality(A) <= Cardinality(B \cup L)
    BY <1>3, <1>4, NodeSubsets
  <1>9. Cardinality(A) < Factor
    BY <1>1, <1>2, <1>6, <1>7, <1>8, ClusterAssumption
  <1> QED
    BY <1>4, <1>5, <1>9 DEF A

\* So it is among the holders, at its rank among all nodes with capacity.
LEMMA HolderIndex ==
    ASSUME NEW v \in View, NEW n \in Live(v), HasCapacity(v, n),
           Cardinality({x \in Live(v) : HasCapacity(v, x) /\ Before(v, x, n)})
             < Factor
    PROVE  /\ n \in ShardHolders(v)
           /\ ShardIndex(v, n)
                = Cardinality({x \in Live(v) : HasCapacity(v, x)
                                                 /\ Before(v, x, n)})
  <1> DEFINE S == {m \in Live(v) : HasCapacity(v, m)}
             A(m) == {x \in S : Before(v, x, m)}
             H == ShardHolders(v)
  <1>1. A(n) = {x \in Live(v) : HasCapacity(v, x) /\ Before(v, x, n)}
    OBVIOUS
  <1>2. H = {m \in S : Cardinality(A(m)) < Factor}
    BY DEF ShardHolders, Lowest
  <1>3. n \in H
    BY <1>1, <1>2
  <1>4. ASSUME NEW m \in A(n) PROVE m \in H
    <2>0. /\ n \in Nat /\ m \in Nat
          /\ \A x \in Node : x \in Nat /\ v.level[x] \in Nat
          /\ S \in SUBSET Node /\ n \in Node /\ m \in Node
      BY ClusterAssumption DEF View, Live
    <2>1. A(m) \in SUBSET A(n) /\ A(n) \in SUBSET Node
      <3>1. Before(v, m, n) /\ A(n) \in SUBSET Node
        BY <2>0
      <3>2. ASSUME NEW x \in S, Before(v, x, m) PROVE Before(v, x, n)
        <4>1. x \in Nat /\ v.level[x] \in Nat
          BY <2>0
        <4>2. v.level[m] \in Nat /\ v.level[n] \in Nat
          BY <2>0
        <4> HIDE DEF S
        <4> QED
          BY <2>0, <3>1, <3>2, <4>1, <4>2 DEF Before
      <3> QED
        BY <3>1, <3>2
    <2>2. m \in S
      OBVIOUS
    <2>3. Cardinality(A(n)) < Factor
      BY <1>1
    <2> HIDE DEF A, S, H
    <2>4. /\ Cardinality(A(m)) \in Nat /\ Cardinality(A(n)) \in Nat
          /\ Cardinality(A(m)) <= Cardinality(A(n))
      BY <2>1, NodeSubsets
    <2>5. Cardinality(A(m)) < Factor
      BY <2>3, <2>4, ClusterAssumption
    <2> QED
      BY <1>2, <2>2, <2>5
  <1>5. {m \in H : Before(v, m, n)} = A(n)
    BY <1>2, <1>4
  <1>6. ShardIndex(v, n) = Cardinality(A(n))
    BY <1>5 DEF ShardIndex
  <1> QED
    BY <1>1, <1>3, <1>6

\* While levels stay, a node that claims with all heard of late has the rank of
\* the holder it takes itself for.
LEMMA InformedRank ==
    ASSUME TypeOK, KnowInv, fills = 0, NEW n \in Node,
           n \notin view[n].claimants,
           LET v == WithOwnBeat(n)
           IN n \in Claimers(v) /\ Live(v) = Node /\ v.job = "announced"
    PROVE  LET w == Claimed(WithOwnBeat(n), n)
           IN /\ used[n] < Watermark /\ Rank(n) < Factor
              /\ n \in ShardHolders(w) /\ ShardIndex(w, n) = Rank(n)
  <1> DEFINE v == WithOwnBeat(n)
             w == Claimed(v, n)
             A == {x \in Live(v) : HasCapacity(v, x) /\ Before(v, x, n)}
  <1>1. v \in View /\ w \in View
    BY TickViewType
  <1>2. /\ v.level[n] = used[n]
        /\ \A m \in Node \ {n} : /\ v.age[m] = view[n].age[m]
                                 /\ v.level[m] = view[n].level[m]
    BY OwnBeat
  <1>3. \A m \in Node : v.level[m] = used[m]
    BY <1>2 DEF Live, KnowInv, LevelInv
  <1>4. w.age = v.age /\ w.level = v.level
    BY <1>1 DEF Claimed, View
  <1>5. n \in Claimers(v) /\ Live(v) = Node /\ v.job = "announced"
    OBVIOUS
  <1> HIDE DEF v, w
  <1>6. /\ Cardinality(A) < Factor
        /\ n \in Live(v) /\ HasCapacity(v, n)
    BY <1>1, <1>5, DesignatedRank
  <1>7. A = Betters(n)
    BY <1>3, <1>5 DEF Betters, HasCapacity, Before, Ahead
  <1>8. Live(w) = Node /\ HasCapacity(w, n)
    BY <1>4, <1>5, <1>6 DEF Live, HasCapacity
  <1>9. {x \in Live(w) : HasCapacity(w, x) /\ Before(w, x, n)} = Betters(n)
    BY <1>3, <1>4, <1>8 DEF Betters, HasCapacity, Before, Ahead
  <1>10. Cardinality(Betters(n)) < Factor
    BY <1>6, <1>7
  <1>11. n \in ShardHolders(w) /\ ShardIndex(w, n) = Cardinality(Betters(n))
    BY <1>1, <1>8, <1>9, <1>10, HolderIndex
  <1>12. used[n] < Watermark
    BY <1>2, <1>6 DEF HasCapacity
  <1> QED
    BY <1>10, <1>11, <1>12 DEF Rank, w, v

\* A claimant that does not let go in its tick does not claim again, and one that
\* lets go does not claim in the same tick.
LEMMA NoReclaim ==
    ASSUME TypeOK, NEW n \in Node, n \in view[n].claimants
    PROVE  LET v == WithOwnBeat(n)
           IN n \notin Claimers(Released(v, n))
  <1> DEFINE v == WithOwnBeat(n)
             v1 == Released(v, n)
             S == {x \in LiveClaimants(v) : Before(v, x, n)}
             L == LiveClaimants(v1)
  <1>1. v \in View /\ v1 \in View
    BY TickViewType
  <1>2. v.age[n] = 0 /\ v.claimants = view[n].claimants
    BY OwnBeat
  <1>3. n \in Live(v)
    BY <1>2, ClusterAssumption DEF Live
  <1> HIDE DEF v
  <1>4. CASE ~ MustRelease(v, n)
    <2>1. n \in v1.claimants
      BY <1>2, <1>4 DEF Released
    <2> HIDE DEF v1
    <2>2. n \notin Claimers(v1)
      BY <2>1 DEF Claimers, Lowest
    <2> QED
      BY <2>2 DEF v1, v
  <1>5. CASE MustRelease(v, n)
    <2>1. /\ S \in SUBSET Node /\ n \notin S
          /\ Cardinality(S) \in Nat
          /\ Cardinality(S) >= Replication(v)
      BY <1>1, <1>3, <1>5, ReleaseSees
    <2>2. /\ v1.claimants = v.claimants \ {n}
          /\ v1.age = v.age /\ v1.job = v.job
      BY <1>1, <1>5 DEF Released, View
    <2> HIDE DEF v1
    <2>3. S \in SUBSET L /\ L \in SUBSET Node
      BY <2>1, <2>2 DEF LiveClaimants, Live
    <2>4. Replication(v1) = Replication(v) /\ Replication(v) \in Nat
      BY <2>2, ClusterAssumption DEF Replication
    <2>5. Cardinality(L) \in Nat /\ Cardinality(S) <= Cardinality(L)
      <3> HIDE DEF S, L
      <3> QED
        BY <2>3, NodeSubsets
    <2>6. Need(v1) <= 0
      BY <2>1, <2>4, <2>5 DEF Need
    <2>7. ASSUME n \in Claimers(v1) PROVE FALSE
      <3> DEFINE T == {m \in Live(v1) \ v1.claimants : HasCapacity(v1, m)}
                 B == {x \in T : Before(v1, x, n)}
      <3>1. Cardinality(B) < Need(v1)
        BY <2>7 DEF Claimers, Lowest
      <3>2. B \in SUBSET Node
        BY DEF Live
      <3> HIDE DEF B
      <3>3. Cardinality(B) \in Nat
        BY <3>2, NodeSubsets
      <3>4. Need(v1) \in Int
        BY <2>4, <2>5 DEF Need
      <3> QED
        BY <2>6, <3>1, <3>3, <3>4
    <2> QED
      BY <2>7 DEF v1, v
  <1> QED
    BY <1>4, <1>5

LEMMA KeptStep ==
    ASSUME TypeOK, TypeOK', KnowInv, KeptInv, [Next]_vars
    PROVE  KeptInv'
  <1> SUFFICES ASSUME Erasure, fills' = 0, NEW n \in informed'
               PROVE  /\ used'[n] < Watermark
                      /\ held'[n] = Rank(n)' /\ Rank(n)' < Factor
    BY DEF KeptInv, Rank, Betters, Ahead
  <1>1. n \in Node
    BY DEF TypeOK
  <1>2. fills = 0 /\ used' = used
    BY EverStep
  <1>3. Rank(n)' = Rank(n)
    BY <1>2 DEF Rank, Betters, Ahead
  <1>4. n \in informed =>
          used[n] < Watermark /\ held[n] = Rank(n) /\ Rank(n) < Factor
    BY <1>2 DEF KeptInv
  <1>5. CASE n \in informed /\ held'[n] = held[n]
    BY <1>2, <1>3, <1>4, <1>5
  <1>6. CASE Tick(n)
    <2> DEFINE v == WithOwnBeat(n)
               v1 == Released(v, n)
               w == Claimed(v1, n)
               r == MustRelease(v, n)
               c == n \in Claimers(v1)
    <2>1. /\ view'[n] = w
          /\ held' = [held EXCEPT ![n] =
                        IF r THEN Nothing
                        ELSE IF c THEN Assignment(view'[n], n) ELSE held[n]]
          /\ informed' = IF c /\ WellInformed(v) THEN informed \cup {n}
                         ELSE IF c \/ r THEN informed \ {n} ELSE informed
      BY <1>1, <1>6 DEF Tick, TypeOK
    <2>2. v \in View /\ v1 \in View /\ w \in View
      BY <1>1, TickViewType
    <2>3. v.claimants = view[n].claimants
      BY <1>1, OwnBeat
    <2>4. CASE c
      <3>1. n \notin view[n].claimants
        BY <1>1, <2>4, NoReclaim
      <3>2. ~ r /\ v1 = v
        BY <2>3, <3>1 DEF MustRelease, Released
      <3>3. WellInformed(v)
        BY <2>1, <2>4
      <3> HIDE DEF v
      <3>4. n \in Claimers(v) /\ Live(v) = Node /\ v.job = "announced"
        BY <2>4, <3>2, <3>3 DEF WellInformed
      <3>5. /\ used[n] < Watermark /\ Rank(n) < Factor
            /\ n \in ShardHolders(Claimed(v, n))
            /\ ShardIndex(Claimed(v, n), n) = Rank(n)
        BY <1>1, <1>2, <3>1, <3>4, InformedRank DEF v
      <3>6. Claimed(v, n).job = "announced"
        BY <2>2, <3>4 DEF Claimed, View
      <3>7. held'[n] = Assignment(w, n)
        BY <1>1, <2>1, <2>4, <3>2 DEF TypeOK
      <3>8. held'[n] = Rank(n)
        BY <3>2, <3>5, <3>6, <3>7 DEF Assignment
      <3> QED
        BY <1>2, <1>3, <3>5, <3>8
    <2>5. CASE ~ c
      <3> HIDE DEF c, r
      <3>1. ~ r /\ n \in informed
        BY <2>1, <2>5
      <3>2. held'[n] = held[n]
        BY <1>1, <2>1, <2>5, <3>1 DEF TypeOK
      <3> QED
        BY <1>5, <3>1, <3>2
    <2> QED
      BY <2>4, <2>5
  <1>7. ASSUME NEW m \in Node, Tick(m), m # n
        PROVE  n \in informed /\ held'[n] = held[n]
    BY <1>1, <1>7 DEF Tick, TypeOK
  <1>8. ASSUME NEW m \in Node, Crash(m)
        PROVE  n \in informed /\ held'[n] = held[n]
    BY <1>1, <1>8 DEF Crash, TypeOK
  <1>9. CASE ~ (\E m \in Node : Tick(m) \/ Crash(m))
    <2>1. informed' = informed /\ held' = held
      BY <1>9 DEF Next, Environment, Announce, Deliver, Lose, Vanish, Pass, Fill,
                  vars
    <2> QED
      BY <1>5, <2>1
  <1> QED
    BY <1>5, <1>6, <1>7, <1>8, <1>9

LEMMA OInvInit == Init => OInv
  BY CInvInit DEF Init, OInv, KeptInv

LEMMA OInvStep == OInv /\ [Next]_vars => OInv'
  <1> SUFFICES ASSUME OInv, [Next]_vars PROVE OInv'
    OBVIOUS
  <1>1. CInv'
    BY CInvStep DEF OInv
  <1>2. KeptInv'
    BY <1>1, KeptStep DEF OInv, CInv
  <1> QED
    BY <1>1, <1>2 DEF OInv

\* Ranks are all different.
LEMMA RanksApart ==
    ASSUME TypeOK, NEW a \in Node, NEW b \in Node, a # b,
           used[a] < Watermark, used[b] < Watermark
    PROVE  Rank(a) # Rank(b)
  <1>0. \A m \in Node : m \in Nat /\ used[m] \in Nat
    BY ClusterAssumption DEF TypeOK
  <1>1. ASSUME NEW x \in Node, NEW y \in Node, Ahead(x, y), used[x] < Watermark
        PROVE  Rank(x) # Rank(y)
    <2>1. Betters(x) \in SUBSET Betters(y) /\ Betters(y) \in SUBSET Node
      <3>1. ASSUME NEW m \in Node, Ahead(m, x) PROVE Ahead(m, y)
        <4>1. /\ m \in Nat /\ x \in Nat /\ y \in Nat
              /\ used[m] \in Nat /\ used[x] \in Nat /\ used[y] \in Nat
          BY <1>0
        <4> QED
          BY <1>1, <3>1, <4>1 DEF Ahead
      <3> QED
        BY <3>1 DEF Betters
    <2>2. x \in Betters(y) /\ x \notin Betters(x)
      <3>1. x \in Nat /\ used[x] \in Nat
        BY <1>0
      <3> QED
        BY <1>1, <3>1 DEF Betters, Ahead
    <2>3. Betters(x) # Betters(y)
      BY <2>2
    <2>4. IsFiniteSet(Betters(y))
      BY <2>1, NodeSubsets
    <2>5. Cardinality(Betters(y)) # Cardinality(Betters(x))
      BY <2>1, <2>3, <2>4, FS_Subset
    <2> QED
      BY <2>5 DEF Rank
  <1>2. Ahead(a, b) \/ Ahead(b, a)
    <2>1. /\ a \in Nat /\ b \in Nat /\ used[a] \in Nat /\ used[b] \in Nat
      BY <1>0
    <2> QED
      BY <2>1 DEF Ahead
  <1> QED
    BY <1>1, <1>2

\* What the informed claimants keep, by their ranks.
LEMMA KeptApart ==
    ASSUME OInv, Erasure, fills = 0
    PROVE  Kept \subseteq 0..Factor-1 /\ Cardinality(Kept) = Cardinality(informed)
  <1>1. /\ TypeOK /\ informed \in SUBSET Node
        /\ \A n \in informed :
             used[n] < Watermark /\ held[n] = Rank(n) /\ Rank(n) < Factor
    BY DEF OInv, CInv, KeptInv, TypeOK
  <1>2. ASSUME NEW n \in informed PROVE held[n] \in 0..Factor-1
    <2>1. Betters(n) \in SUBSET Node
      BY DEF Betters
    <2>2. Rank(n) \in Nat
      BY <2>1, NodeSubsets DEF Rank
    <2> QED
      BY <1>1, <2>2, ClusterAssumption
  <1>3. \A a, b \in informed : held[a] = held[b] => a = b
    BY <1>1, RanksApart
  <1> DEFINE f == [n \in informed |-> held[n]]
  <1>4. f \in Bijection(informed, Kept)
    <2>1. f \in [informed -> Kept]
      BY DEF Kept
    <2>2. \A a, b \in informed : f[a] = f[b] => a = b
      BY <1>3
    <2>3. \A t \in Kept : \E s \in informed : f[s] = t
      BY DEF Kept
    <2> HIDE DEF f
    <2>4. f \in Injection(informed, Kept)
      BY <2>1, <2>2 DEF Injection, IsInjective
    <2>5. f \in Surjection(informed, Kept)
      BY <2>1, <2>3 DEF Surjection
    <2> QED
      BY <2>4, <2>5 DEF Bijection
  <1>5. IsFiniteSet(informed)
    BY <1>1, NodeSubsets
  <1>6. Cardinality(Kept) = Cardinality(informed)
    <2> HIDE DEF f
    <2> QED
      BY <1>4, <1>5, FS_Bijection DEF ExistsBijection
  <1> QED
    BY <1>2, <1>6 DEF Kept

\* erasure.rs 1-4, coord.rs 211-231, node.rs 216-221: however many nodes, ticks,
\* losses and stops, while levels stay the claimants that were informed keep
\* different shards, each one of the object's; and k of the shards rebuild it
\* exactly, fewer not at all.
THEOREM LayoutSurvivesCorrect == Spec => []LayoutSurvives
  <1>1. Spec => Init /\ [][Next]_vars
    BY DEF Spec
  <1>2. OInv => LayoutSurvives
    BY CodecCorrect, KeptApart DEF LayoutSurvives
  <1> QED
    BY <1>1, <1>2, OInvInit, OInvStep, PTL
=============================================================================
