--------------------------- MODULE ClusterObjects ---------------------------
(***************************************************************************)
(* The cluster's shard layout (coord.rs) under the object codec            *)
(* (erasure.rs): the node at place i of the holders keeps shard i, and a   *)
(* read fetches the shards from whoever is left.                           *)
(***************************************************************************)
EXTENDS Cluster, ObjectErasure

CONSTANTS
    MaxLen,    \* bound: the length of the objects the codec is tried on
    MaxN       \* bound: how many shards they have

ASSUME ObjectAssumption ==
    /\ MaxLen \in Nat /\ MaxN \in 0..MaxShards
    /\ Factor <= MaxN

\* Objects of every length; no two bytes alike, and none a padding.
Samples == {[j \in 1..l |-> j] : l \in 0..MaxLen}

\* Bytes that are no shard.
Junk == [parity |-> 0, of |-> <<>>]

\* What a read gets when the holders of the shards in good answer well and
\* those of the shards in bad answer with junk.
Fetched(m, good, bad) ==
    [i \in good \cup bad |-> IF i \in good THEN m.hashes[i] ELSE Junk]

\* Whatever is fetched, it is rebuilt exactly from k good shards or more, and
\* from fewer nothing is.
RebuiltFrom(data, k, r, good, bad) ==
    Reconstruct(Manifest(data, k, r), Fetched(Manifest(data, k, r), good, bad))
      = IF Cardinality(good) >= k THEN {data} ELSE {}

\* It does for every small object, number of shards and mixture of good, bad
\* and missing answers; an answer may have an index past the last.  A manifest
\* is decoded only if not an octet is missing or left over.
CodecExact ==
    /\ \A data \in Samples, n \in 1..MaxN : \A k \in 1..n :
         \A good \in SUBSET (0..n-1) : \A bad \in SUBSET ((0..n) \ good) :
           RebuiltFrom(data, k, n - k, good, bad)
    /\ \A n \in 0..MaxN, name \in 0..MaxLen :
         \A len \in 0..Octets(name, n + 1) :
           Decodes(n, name, len) <=> len = Octets(name, n)

\* What the informed claimants of the job keep.
Kept == {held[n] : n \in informed}

\* erasure.rs 1-4, coord.rs 211-231, node.rs 216-221: while levels stay,
\* claimants that knew the announcement and had heard of every node when they
\* claimed keep different shards, whenever that was and whoever claimed, stopped
\* or was thought dead meanwhile; and from k of the
\* shards, whichever they are, the object is rebuilt exactly, from fewer not at
\* all, and a holder that answers with junk spoils nothing.
LayoutSurvives ==
    /\ CodecExact
    /\ Erasure /\ fills = 0 =>
         /\ Kept \subseteq 0..Factor-1
         /\ Cardinality(Kept) = Cardinality(informed)
=============================================================================
