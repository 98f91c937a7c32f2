----------------------------- MODULE ClusterWire ----------------------------
(***************************************************************************)
(* The cluster's gossip on the wire (coord.rs over msg.rs): every message  *)
(* that a node publishes is encoded, and what its peers fold in is decoded.*)
(***************************************************************************)
EXTENDS Cluster, Wire

CONSTANTS
    Job,    \* the job's name
    Total   \* a store's capacity

ASSUME WireNamesAssumption == NoValue \notin Node \cup {Job}

\* What a message of Cluster stands for; a level is so many units of capacity,
\* and an erasure-coded job has one source shard.
Sent(a, m) ==
    CASE m.kind = "beat" ->
           [kind |-> "Heartbeat", node |-> a, used |-> m.level,
            total |-> Total, epoch |-> 0]
      [] m.kind = "job" ->
           [kind |-> "Job", target |-> Job, factor |-> Factor,
            erasure |-> IF Erasure THEN {<<1, Factor>>} ELSE {}]
      [] m.kind = "claim" ->
           [kind |-> "Claim", job |-> Job, node |-> a, ts |-> 0]
      [] m.kind = "release" -> [kind |-> "Release", job |-> Job, node |-> a]

\* Numbers about each width.
Numbers == UNION {{Base ^ w - 1, Base ^ w} : w \in {1, 2, 4}} \cup {0, U64 - 1}

\* Messages that nodes form: an erasure pair has no zero in it.
Formed ==
    [kind : {"Heartbeat"}, node : {1}, used : Numbers, total : Numbers,
     epoch : Numbers]
    \cup [kind : {"Job"}, target : {Job}, factor : Numbers,
          erasure : {{}} \cup {{<<k, n>>} : k, n \in {1, Base, U16 - 1}}]
    \cup [kind : {"Claim"}, job : {Job}, node : {1}, ts : Numbers]
    \cup [kind : {"Release"}, job : {Job}, node : {1}]

\* The names of a message, which decide what it is folded into.
NamesOf(m) ==
    [f \in DOMAIN m \cap {"kind", "node", "target", "job"} |-> m[f]]

\* Each comes out as it went in; a field of a type not known changes nothing,
\* and what is left when a field is cut is a message of the same node and job,
\* or none: numbers may be missing from it.
MessagesSurvive ==
    \A m \in Formed :
      LET w == EncodeMsg(m) IN
      /\ DecodeMsg(w) = {m}
      /\ DecodeMsg([w EXCEPT !.cut = TRUE]) = {}
      /\ \A i \in 1..Len(w.fields) + 1 :
           /\ DecodeMsg(With(w, i, Field("unknown", NoValue, <<>>, <<>>))) = {m}
           /\ \A x \in DecodeMsg(With(w, i, Cut)) : NamesOf(x) = NamesOf(m)

\* What its peers make of a's message m.
Heard == [a \in Node, m \in Msg |-> DecodeMsg(EncodeMsg(Sent(a, m)))]

\* ClusterNode::observe, of a decoded message.
Observe(v, x) ==
    CASE x.kind = "Heartbeat" -> [v EXCEPT !.age[x.node] = 0,
                                           !.level[x.node] = x.used]
      [] x.kind = "Job" -> [v EXCEPT !.job = "announced"]
      [] x.kind = "Claim" -> [v EXCEPT !.job = Known(@),
                                       !.claimants = @ \cup {x.node}]
      [] x.kind = "Release" -> [v EXCEPT !.claimants = @ \ {x.node}]

Larger(a, b) == IF a < b THEN b ELSE a
Smaller(a, b) == IF a < b THEN a ELSE b

\* Mutant: the sum wraps around.
ErasurePairWraps(k, r) ==
    <<Larger(k, 1), (Larger(k, 1) + Larger(r, 1)) % U16>>

\* observe_erasure_job: the pair <<k, n>> that a view keeps, n saturating.
ErasurePair(k, r) ==
    <<Larger(k, 1), Smaller(Larger(k, 1) + Larger(r, 1), U16 - 1)>>

\* ClusterNode::observe, Job: the redundancy is what n is above k, if it is.
Refolded(e) == ErasurePair(e[1], Larger(e[2] - e[1], 0))

\* The pair a node announces is the pair every peer ends up with, at the ends
\* of u16 and for parameters of 0 as well.
PairsSurvive ==
    \A k, r \in 0..U16-1 :
      LET m == [kind |-> "Job", target |-> Job, factor |-> 0,
                erasure |-> {ErasurePair(k, r)}]
      IN {Refolded(e) : e \in UNION {x.erasure : x \in DecodeMsg(EncodeMsg(m))}}
           = {ErasurePair(k, r)}

\* msg.rs, node.rs 102-126: encoded, decoded and folded in, the next message of
\* each peer does to a view what the sender meant, whatever the view; every
\* message nodes form comes out as it went in, one spoilt on the way as none or
\* as one of the same node and job, and an erasure-coded job keeps its pair.
GossipSurvives ==
    /\ MessagesSurvive /\ PairsSurvive
    /\ \A a, b \in Node :
         chan[a][b] # <<>> =>
           LET m == Head(chan[a][b])
           IN {Observe(view[b], x) : x \in Heard[a, m]} = {Fold(view[b], a, m)}
=============================================================================
