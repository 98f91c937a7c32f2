------------------------ MODULE ObjectErasureProofs -------------------------
(***************************************************************************)
(* An object is rebuilt exactly from any K of its shards, whatever else    *)
(* comes with them, and not at all from fewer.                             *)
(***************************************************************************)
EXTENDS ObjectErasure, FiniteSetTheorems, WellFoundedInduction, TLAPS

\* Division with remainder, as the codec's arithmetic uses it.
LEMMA Division ==
    ASSUME NEW a \in Nat, NEW b \in Nat \ {0}
    PROVE  /\ a \div b \in Nat
           /\ a % b \in 0..b-1
           /\ a = (a \div b) * b + (a % b)
  OBVIOUS

\* The segments hold the whole object.
LEMMA SegmentsSuffice ==
    ASSUME NEW data, Len(data) \in Nat, NEW k \in Nat \ {0}
    PROVE  /\ ShardLen(data, k) \in Nat \ {0}
           /\ Len(data) <= k * ShardLen(data, k)
  <1> DEFINE L == Len(data)
             c == L + k - 1
             w == c \div k
  <1>0. c \in Nat
    OBVIOUS
  <1> HIDE DEF c
  <1>1. /\ w \in Nat
        /\ c % k \in 0..k-1
        /\ c = w * k + (c % k)
    BY <1>0, Division
  <1> HIDE DEF w
  <1>2. L <= w * k
    BY <1>1 DEF c
  <1>3. ShardLen(data, k) = IF w < 1 THEN 1 ELSE w
    BY DEF ShardLen, w, c
  <1>4. CASE w < 1
    <2>1. w = 0
      BY <1>1, <1>4
    <2>2. L = 0
      BY <1>2, <2>1
    <2> QED
      BY <1>3, <1>4, <2>2
  <1>5. CASE ~ (w < 1)
    BY <1>1, <1>2, <1>3, <1>5
  <1> QED
    BY <1>4, <1>5

\* The decoder takes k shards if k are verified, and none that is not.
LEMMA AbsorbedEnough ==
    ASSUME NEW V, IsFiniteSet(V), V \subseteq Nat, NEW k \in Nat,
           NEW S, S = {i \in V : Cardinality({j \in V : j < i}) < k}
    PROVE  /\ IsFiniteSet(S) /\ S \subseteq V
           /\ Cardinality(S) >= k <=> Cardinality(V) >= k
  <1>1. IsFiniteSet(S) /\ S \subseteq V /\ Cardinality(S) <= Cardinality(V)
    BY FS_Subset
  <1>2. Cardinality(S) \in Nat /\ Cardinality(V) \in Nat
    BY <1>1, FS_CardinalityType
  <1>3. CASE S = V
    BY <1>1, <1>2, <1>3
  <1>4. CASE S # V
    <2> DEFINE R == OpToRel(<, Nat)
    <2>1. PICK i \in V \ S : \A j \in V \ S : ~ (j < i)
      <3>1. V \ S # {} /\ V \ S \subseteq Nat
        BY <1>1, <1>4
      <3>2. PICK i \in V \ S : \A j \in V \ S : ~ (<<j, i>> \in R)
        BY <3>1, NatLessThanWellFounded, WFMin
      <3> QED
        BY <3>1, <3>2 DEF OpToRel
    <2> DEFINE Below == {j \in V : j < i}
    <2>2. Below \subseteq S
      BY <2>1
    <2>3. IsFiniteSet(Below) /\ Cardinality(Below) <= Cardinality(S)
      BY <1>1, <2>2, FS_Subset
    <2>4. ~ (Cardinality(Below) < k)
      BY <2>1
    <2>5. Cardinality(Below) \in Nat
      BY <2>3, FS_CardinalityType
    <2>6. Cardinality(S) >= k
      BY <1>2, <2>3, <2>4, <2>5
    <2> QED
      BY <1>1, <1>2, <2>6
  <1> QED
    BY <1>3, <1>4

\* k shards without segment i have a parity shard among them.
LEMMA ParityThere ==
    ASSUME NEW S, IsFiniteSet(S), S \subseteq Nat, NEW k \in Nat,
           Cardinality(S) >= k, NEW i \in 0..k-1, i \notin S
    PROVE  \E p \in S : p >= k
  <1> SUFFICES ASSUME \A p \in S : ~ (p >= k)
               PROVE  FALSE
    OBVIOUS
  <1> DEFINE T == (0..k-1) \ {i}
  <1>1. S \in SUBSET T
    OBVIOUS
  <1>2. IsFiniteSet(0..k-1) /\ Cardinality(0..k-1) = k
    <2>1. 0 \in Int /\ k - 1 \in Int
      OBVIOUS
    <2>2. IsFiniteSet(0..k-1)
          /\ Cardinality(0..k-1) = IF 0 > k - 1 THEN 0 ELSE (k - 1) - 0 + 1
      BY <2>1, FS_Interval
    <2> QED
      BY <2>2
  <1>3. IsFiniteSet(T) /\ Cardinality(T) = k - 1
    BY <1>2, FS_RemoveElement
  <1> HIDE DEF T
  <1>4. Cardinality(S) <= Cardinality(T)
    BY <1>1, <1>3, FS_Subset
  <1>5. Cardinality(S) \in Nat
    BY FS_CardinalityType
  <1> QED
    BY <1>3, <1>4, <1>5

\* The k segments one after the other, cut, are the object.
LEMMA JoinedIs ==
    ASSUME NEW B, NEW data \in Seq(B), NEW k \in Nat \ {0},
           NEW segment,
           segment = [i \in 0..k-1 |-> Segment(data, k, i)]
    PROVE  Joined(segment, Len(data)) = data
  <1> DEFINE l == ShardLen(data, k)
             n == Len(data)
  <1>1. n \in Nat
    OBVIOUS
  <1>2. l \in Nat \ {0} /\ n <= k * l
    BY <1>1, SegmentsSuffice
  <1>3. \A i \in 0..k-1 : segment[i] = Segment(data, k, i)
    OBVIOUS
  <1>4. Len(segment[0]) = l
    <2>1. segment[0] = Segment(data, k, 0)
      BY <1>3
    <2> DEFINE s == Segment(data, k, 0)
               at(j) == 0 * l + j
    <2>2. s = [j \in 1..l |-> IF at(j) <= n THEN data[at(j)] ELSE 0]
      BY DEF Segment
    <2>3. \A j \in 1..l : at(j) = j
      BY <1>2
    <2>4. s \in [1..l -> B \cup {0}]
      <3> SUFFICES ASSUME NEW j \in 1..l
                   PROVE  (IF at(j) <= n THEN data[at(j)] ELSE 0) \in B \cup {0}
        BY <2>2
      <3>1. at(j) = j /\ j \in Nat \ {0}
        BY <1>2, <2>3
      <3>2. j <= n => data[j] \in B
        BY <1>1, <3>1
      <3> QED
        BY <3>1, <3>2
    <2>5. s \in Seq(B \cup {0}) /\ Len(s) = l
      <3> HIDE DEF s, l
      <3> QED
        BY <1>2, <2>4
    <2> QED
      BY <2>1, <2>5
  <1> HIDE DEF l
  <1>5. Joined(segment, n) = [j \in 1..n |-> segment[(j - 1) \div l][((j - 1) % l) + 1]]
    BY <1>4 DEF Joined
  <1>6. ASSUME NEW j \in 1..n
        PROVE  segment[(j - 1) \div l][((j - 1) % l) + 1] = data[j]
    <2> DEFINE q == (j - 1) \div l
               o == (j - 1) % l
    <2>1. j - 1 \in Nat
      BY <1>1
    <2>2. q \in Nat /\ o \in 0..l-1 /\ j - 1 = q * l + o
      BY <1>2, <2>1, Division
    <2> HIDE DEF q, o
    <2>3. q < k
      <3>1. q * l < k * l
        BY <1>1, <1>2, <2>2
      <3> QED
        BY <1>2, <2>2, <3>1
    <2>4. q \in 0..k-1 /\ o + 1 \in 1..l /\ q * l + (o + 1) = j
      BY <1>2, <2>2, <2>3
    <2>5. Segment(data, k, q)[o + 1] = data[j]
      BY <1>1, <2>4 DEF Segment, l
    <2>6. segment[q][o + 1] = data[j]
      BY <1>3, <2>4, <2>5
    <2> QED
      BY <2>6 DEF q, o
  <1>7. data = [j \in 1..n |-> data[j]]
    OBVIOUS
  <1> QED
    BY <1>5, <1>6, <1>7

\* erasure.rs 1-4, 186-226: whatever the answers are, for every object and every
\* K and R, a read gives the object if K shards are verified and nothing if
\* fewer are: never other bytes.
THEOREM ReconstructExact ==
    ASSUME NEW B, NEW data \in Seq(B), NEW k \in Nat, NEW r \in Nat,
           Encodable(k, r), NEW answers
    PROVE  LET m == Manifest(data, k, r) IN
           Reconstruct(m, answers)
             = IF Cardinality(Verified(m, answers)) >= k THEN {data} ELSE {}
  <1> DEFINE m == Manifest(data, k, r)
             V == Verified(m, answers)
             S == Absorbed(m, answers)
  <1>1. k \in Nat \ {0}
    BY DEF Encodable
  <1>2. /\ m.k = k /\ m.n = k + r /\ m.len = Len(data)
        /\ DOMAIN m.hashes = 0..k+r-1
        /\ \A i \in 0..k+r-1 : m.hashes[i] = Shard(data, k, i)
    BY DEF Manifest
  <1> HIDE DEF m
  <1>3. /\ V \subseteq 0..k+r-1
        /\ \A i \in V : answers[i] = Shard(data, k, i)
    BY <1>2 DEF Verified
  <1>4. IsFiniteSet(V) /\ V \subseteq Nat
    <2>1. 0 \in Int /\ k + r - 1 \in Int
      OBVIOUS
    <2>2. IsFiniteSet(0..k+r-1)
      BY <2>1, FS_Interval
    <2> QED
      BY <1>3, <2>2, FS_Subset
  <1>5. S = {i \in V : Cardinality({j \in V : j < i}) < k}
    BY <1>2 DEF Absorbed
  <1> HIDE DEF V, S
  <1>6. /\ IsFiniteSet(S) /\ S \subseteq V
        /\ Cardinality(S) >= k <=> Cardinality(V) >= k
    BY <1>4, <1>5, AbsorbedEnough
  <1>7. Cardinality(S) \in Nat /\ Cardinality(V) \in Nat
    BY <1>4, <1>6, FS_CardinalityType
  <1>8. Encodable(m.k, m.n - m.k)
    <2>1. m.n - m.k = r
      BY <1>2
    <2> QED
      BY <1>2, <2>1
  <1>9. CASE ~ (Cardinality(V) >= k)
    <2>1. Cardinality(S) < m.k
      BY <1>2, <1>6, <1>7, <1>9
    <2>2. Reconstruct(m, answers) = {}
      BY <2>1 DEF Reconstruct, S
    <2> QED
      BY <1>9, <2>2 DEF m, V
  <1>10. CASE Cardinality(V) >= k
    <2> DEFINE segment == [i \in 0..k-1 |-> Recovered(m, answers, S, i)]
    <2>1. ASSUME NEW i \in 0..k-1
          PROVE  Recovered(m, answers, S, i) = Segment(data, k, i)
      <3>1. CASE i \in S
        <4>1. answers[i] = Shard(data, k, i)
          BY <1>3, <1>6, <3>1
        <4>2. answers[i].of[1] = Segment(data, k, i)
          BY <1>1, <4>1 DEF Shard
        <4> QED
          BY <3>1, <4>2 DEF Recovered
      <3>2. CASE i \notin S
        <4> DEFINE p == CHOOSE p \in S : p >= m.k
        <4>1. \E x \in S : x >= k
          <5>1. S \subseteq Nat /\ Cardinality(S) >= k
            BY <1>4, <1>6, <1>10
          <5> QED
            BY <1>6, <3>2, <5>1, ParityThere
        <4>2. p \in S /\ p >= k
          BY <1>2, <4>1
        <4>3. p \in Nat /\ answers[p] = Shard(data, k, p)
          BY <1>3, <1>4, <1>6, <4>2
        <4>4. Recovered(m, answers, S, i) = answers[p].of[i + 1]
          BY <3>2 DEF Recovered
        <4> HIDE DEF p
        <4>5. ~ (p < k)
          BY <4>2, <4>3
        <4>6. Shard(data, k, p).of = [j \in 1..k |-> Segment(data, k, j - 1)]
          BY <4>5 DEF Shard
        <4>7. i + 1 \in 1..k /\ (i + 1) - 1 = i
          OBVIOUS
        <4>8. Shard(data, k, p).of[i + 1] = Segment(data, k, i)
          BY <4>6, <4>7
        <4> QED
          BY <4>3, <4>4, <4>8
      <3> QED
        BY <3>1, <3>2
    <2>2. segment = [i \in 0..k-1 |-> Segment(data, k, i)]
      BY <2>1
    <2>3. Joined(segment, Len(data)) = data
      <3> HIDE DEF segment
      <3> QED
        BY <1>1, <2>2, JoinedIs
    <2>4. ~ (Cardinality(S) < m.k)
      BY <1>2, <1>6, <1>7, <1>10
    <2>5. Reconstruct(m, answers) = {Joined(segment, Len(data))}
      BY <1>2, <1>8, <2>4 DEF Reconstruct, S
    <2> QED
      BY <1>10, <2>3, <2>5 DEF m, V
  <1> QED
    BY <1>9, <1>10
=============================================================================
