--------------------------- MODULE ObjectErasure ----------------------------
(***************************************************************************)
(* An object cut into shards, and rebuilt from what the holders answer     *)
(* (ndn-repo-cluster/src/erasure.rs).  The K-of-N code is a library: its   *)
(* shards are functions of the object's segments, and any K of them give   *)
(* the segments back.  A shard is taken for what it is computed from, and  *)
(* for its hash.                                                           *)
(*                                                                         *)
(* Names, signatures and the Data packets that shards and manifests travel *)
(* in are left out: a fetch ends in the bytes of a shard or in nothing,    *)
(* whether the holder has none, answers too late or with a broken packet.  *)
(* A result is a set: of one object, or empty.                             *)
(***************************************************************************)
EXTENDS Integers, Sequences, FiniteSets

MaxShards == 255

\* encode_object refuses the rest before it cuts anything.
Encodable(k, r) == k >= 1 /\ k + r <= MaxShards

\* The length of a segment; no segment is empty, not even an empty object's.
ShardLen(data, k) ==
    LET whole == (Len(data) + k - 1) \div k IN IF whole < 1 THEN 1 ELSE whole

\* Segment i, of 0..k-1: a slice of the object, padded at its end.
Segment(data, k, i) ==
    [j \in 1..ShardLen(data, k) |->
       LET at == i * ShardLen(data, k) + j
       IN IF at <= Len(data) THEN data[at] ELSE 0]

\* The first k shards are the segments, the others mix them all.
Shard(data, k, i) ==
    IF i < k THEN [parity |-> 0, of |-> <<Segment(data, k, i)>>]
    ELSE [parity |-> i, of |-> [j \in 1..k |-> Segment(data, k, j - 1)]]

\* encode_object's manifest.
Manifest(data, k, r) ==
    [k |-> k, n |-> k + r, len |-> Len(data),
     hashes |-> [i \in 0..k+r-1 |-> Shard(data, k, i)]]
-----------------------------------------------------------------------------
\* Mutant: any answer for a shard of the object counts.
VerifiedAll(m, answers) == DOMAIN answers \cap DOMAIN m.hashes

\* The shards that are what the manifest says.  answers[i] is what the fetch of
\* shard i brought, if it brought something.
Verified(m, answers) ==
    {i \in DOMAIN answers \cap DOMAIN m.hashes : answers[i] = m.hashes[i]}

\* Those the decoder takes: the first k of them.
Absorbed(m, answers) ==
    LET V == Verified(m, answers)
    IN {i \in V : Cardinality({j \in V : j < i}) < m.k}

\* Segment i, as the decoder has it from the shards in S.
Recovered(m, answers, S, i) ==
    IF i \in S THEN answers[i].of[1]
    ELSE answers[CHOOSE p \in S : p >= m.k].of[i + 1]

\* The segments one after the other, cut at the length of the object.
Joined(segment, len) ==
    LET l == Len(segment[0])
    IN [j \in 1..len |-> segment[(j - 1) \div l][((j - 1) % l) + 1]]

Reconstruct(m, answers) ==
    LET S == Absorbed(m, answers) IN
    IF ~ Encodable(m.k, m.n - m.k) \/ Cardinality(S) < m.k THEN {}
    ELSE {Joined([i \in 0..m.k-1 |-> Recovered(m, answers, S, i)], m.len)}
-----------------------------------------------------------------------------
(***************************************************************************)
(* The manifest on the wire: its octets are counted, not spelt out.        *)
(***************************************************************************)

HeadLen == 20
HashLen == 32

\* to_bytes; the length of the name is in the head.
Octets(nameLen, hashes) == HeadLen + nameLen + HashLen * hashes

\* from_bytes, given what n and the length of the name are said to be.
Decodes(n, nameLen, len) ==
    /\ len >= HeadLen
    /\ HeadLen + nameLen <= len
    /\ len - (HeadLen + nameLen) = HashLen * n
=============================================================================
