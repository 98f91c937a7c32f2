------------------------------ MODULE Cluster ------------------------------
(***************************************************************************)
(* Placement of one job among the nodes of a cluster (ndn-repo-cluster:    *)
(* coord.rs, node.rs).  Each node keeps its own ClusterState, a view of    *)
(* the others' heartbeats and of who claims the job, folds gossip into it  *)
(* and, at each tick, releases or claims the job by its own view alone.    *)
(* Jobs meet only in the capacity they use, which any node's store may     *)
(* change at any time, so the module follows one job.                      *)
(*                                                                         *)
(* Gossip is one SVS coordination group, wired as tests/end_to_end.rs does *)
(* it: a peer's publications are fetched and folded in the order they were *)
(* published, and one that cannot be fetched is skipped for good.  Time is *)
(* kept as the age of each last heartbeat, on the receiver's clock, as     *)
(* observe does: past DeadAfter every age is the same to the code, and a   *)
(* node never heard of is the same as a dead one.  Claim timestamps are    *)
(* left out, since nothing reads them.                                     *)
(***************************************************************************)
EXTENDS Integers, Sequences, FiniteSets

CONSTANTS
    Node,           \* the nodes' names, ordered as numbers
    Level,          \* how full a node may be
    Start,          \* how full the nodes may be at first
    Watermark,      \* at or above it a node takes no new job
    Factor,         \* the factor the job is announced with (N, if erasure-coded)
    DefaultFactor,  \* the factor of a job known only from a claim
    DeadAfter,      \* ages up to it are live
    Erasure,        \* the job is erasure-coded
    Prompt,         \* every tick and its gossip take less than an interval
    Nothing, Whole, \* what a node stores, when it is not one shard
    MaxFlight,      \* bound: publications in flight, of all together
    MaxPasses,      \* bound: intervals that go by, unless Prompt
    MaxFills,       \* bound: changes of a node's level
    MaxLosses,      \* bound: publications skipped
    MaxCrashes      \* bound: nodes that stop

ASSUME ClusterAssumption ==
    /\ IsFiniteSet(Node) /\ Node \subseteq Nat
    /\ Level \subseteq Nat /\ 0 \in Level /\ Watermark \in Nat
    /\ Start \subseteq [Node -> Level]
    /\ Factor \in Nat \ {0} /\ DefaultFactor \in Nat \ {0}
    /\ DeadAfter \in Nat
    /\ Erasure \in BOOLEAN /\ Prompt \in BOOLEAN
    /\ Nothing \notin Nat /\ Whole \notin Nat /\ Nothing # Whole
    /\ {MaxFlight, MaxPasses, MaxFills, MaxLosses, MaxCrashes} \subseteq Nat

Dead == DeadAfter + 1

\* A node's ClusterState: heartbeat ages, levels, the job and who claims it.
View == [age : [Node -> 0..Dead],
         level : [Node -> Level],
         job : {"unseen", "default", "announced"},
         claimants : SUBSET Node]

Msg == [kind : {"beat", "job", "claim", "release"}, level : Level]

VARIABLES
    view,    \* view[n]: what node n believes
    used,    \* used[n]: how full n's store is
    up,      \* the nodes that run
    held,    \* held[n]: what n was last told to store of the job
    chan,    \* chan[a][b]: a's publications b has yet to fetch, oldest first
    ticked,  \* the nodes that ticked in this interval
    passes, fills, losses, crashes

\* History.
VARIABLES
    ever,     \* the nodes that ever claimed the job
    informed  \* the claimants that were well informed when they claimed it

counts == <<passes, fills, losses, crashes>>
vars   == <<view, used, up, held, chan, ticked, passes, fills, losses,
            crashes, ever, informed>>
-----------------------------------------------------------------------------
(***************************************************************************)
(* Queries of a view (coord.rs).                                           *)
(***************************************************************************)

Live(v) == {m \in Node : v.age[m] <= DeadAfter}

HasCapacity(v, m) == v.level[m] < Watermark

\* The order of every ranking: by utilisation, then by name.
Before(v, a, b) ==
    \/ v.level[a] < v.level[b]
    \/ v.level[a] = v.level[b] /\ a < b

\* The first k of the nodes S in that order.
Lowest(v, S, k) == {m \in S : Cardinality({x \in S : Before(v, x, m)}) < k}

Replication(v) == IF v.job = "announced" THEN Factor ELSE DefaultFactor

\* Mutant: dead claimants count.
LiveClaimantsAll(v) == v.claimants

LiveClaimants(v) == v.claimants \cap Live(v)

Need(v) == Replication(v) - Cardinality(LiveClaimants(v))

\* designated_claimers: as many as are needed, of those that do not claim.
Claimers(v) ==
    IF v.job = "unseen" THEN {}
    ELSE Lowest(v, {m \in Live(v) \ v.claimants : HasCapacity(v, m)}, Need(v))

\* Mutant: keepers are the best live nodes, claimants or not.
KeepersRanked(v) == Lowest(v, Live(v), Replication(v))

Keepers(v) == Lowest(v, LiveClaimants(v), Replication(v))

\* jobs_to_release, for a node live in its own view.
MustRelease(v, n) == n \in v.claimants \ Keepers(v)

\* The nodes shard_holders lays the shards out on, and the index of n's.
ShardHolders(v) ==
    Lowest(v, {m \in Live(v) : HasCapacity(v, m)}, Factor)

\* Mutant: a claimant has its place among the claimants.
ShardIndexOfClaimant(v, n) ==
    Cardinality({m \in v.claimants : Before(v, m, n)})

ShardIndex(v, n) == Cardinality({m \in ShardHolders(v) : Before(v, m, n)})

\* What run tells the embedder to store when n claims the job: its shard, if
\* the job is erasure-coded and n one of the holders, else the whole of it.
Assignment(v, n) ==
    IF Erasure /\ v.job = "announced" /\ n \in ShardHolders(v)
    THEN ShardIndex(v, n) ELSE Whole
-----------------------------------------------------------------------------
\* ClusterNode::new: nothing is known, of itself either.
Fresh ==
    [age |-> [m \in Node |-> Dead],
     level |-> [m \in Node |-> 0],
     job |-> "unseen", claimants |-> {}]

Init ==
    /\ view = [n \in Node |-> Fresh]
    /\ used \in Start
    /\ up = Node
    /\ held = [n \in Node |-> Nothing]
    /\ chan = [a \in Node |-> [b \in Node |-> <<>>]]
    /\ ticked = {}
    /\ passes = 0 /\ fills = 0 /\ losses = 0 /\ crashes = 0
    /\ ever = {} /\ informed = {}

\* Mutant: a message carries another number than the level.
NoteOther(k, n) == [kind |-> k, level |-> n]

Note(k, n) == [kind |-> k, level |-> used[n]]

InFlight(c) ==
    {p \in Node \X Node \X (1..MaxFlight) : p[3] <= Len(c[p[1]][p[2]])}

\* n publishes the messages ms to every other node that runs.
Publish(n, ms) ==
    /\ chan' = [chan EXCEPT ![n] =
                  [b \in Node |-> IF b \in up \ {n} THEN @[b] \o ms ELSE @[b]]]
    /\ Cardinality(InFlight(chan')) <= MaxFlight

\* The embedder tells n of the job and gossips it.
Announce(n) ==
    /\ n \in up /\ view[n].job # "announced"
    /\ Publish(n, <<Note("job", n)>>)
    /\ view' = [view EXCEPT ![n].job = "announced"]
    /\ UNCHANGED <<used, up, held, ticked, counts, ever, informed>>

\* Mutant: a node leaves itself out of its view.
WithOwnLevel(n) == [view[n] EXCEPT !.level[n] = used[n]]

\* The heartbeat a tick records first, so that n counts itself live.
WithOwnBeat(n) ==
    [view[n] EXCEPT !.age[n] = 0, !.level[n] = used[n]]

\* What is left of v when n has released the job, if it must.
Released(v, n) ==
    IF MustRelease(v, n) THEN [v EXCEPT !.claimants = @ \ {n}] ELSE v

\* And when it has then claimed it, if it is designated.
Claimed(v, n) ==
    IF n \in Claimers(v) THEN [v EXCEPT !.claimants = @ \cup {n}] ELSE v

\* For the history: by v the erasure-coded job is announced and no node is late.
WellInformed(v) == Erasure /\ v.job = "announced" /\ Live(v) = Node

If(yes, s) == IF yes THEN s ELSE <<>>

\* tick, and the embedder told: heartbeat, then release, then claim by what
\* the release left.
Tick(n) ==
    /\ n \in up \ ticked
    /\ ticked' = ticked \cup {n}
    /\ LET v == WithOwnBeat(n)
           v1 == Released(v, n)
           releases == MustRelease(v, n)
           claims == n \in Claimers(v1)
       IN
       /\ view' = [view EXCEPT ![n] = Claimed(v1, n)]
       /\ Publish(n, <<Note("beat", n)>>
                     \o If(releases, <<Note("release", n)>>)
                     \o If(claims, <<Note("claim", n)>>))
       /\ held' = [held EXCEPT ![n] =
                     IF releases THEN Nothing
                     ELSE IF claims THEN Assignment(view'[n], n) ELSE @]
       /\ ever' = IF claims THEN ever \cup {n} ELSE ever
       /\ informed' = IF claims /\ WellInformed(v) THEN informed \cup {n}
                      ELSE IF claims \/ releases THEN informed \ {n}
                      ELSE informed
    /\ UNCHANGED <<used, up, counts>>

\* A job first heard of in a claim has the default factor.
Known(j) == IF j = "unseen" THEN "default" ELSE j

\* Mutant: a claim to a job not heard of is dropped.
FoldKnown(v, a, m) ==
    CASE m.kind = "beat" -> [v EXCEPT !.age[a] = 0, !.level[a] = m.level]
      [] m.kind = "job" -> [v EXCEPT !.job = "announced"]
      [] m.kind = "claim" -> IF v.job = "unseen" THEN v
                             ELSE [v EXCEPT !.claimants = @ \cup {a}]
      [] m.kind = "release" -> [v EXCEPT !.claimants = @ \ {a}]

\* observe: v with a message m of node a folded in.
Fold(v, a, m) ==
    CASE m.kind = "beat" -> [v EXCEPT !.age[a] = 0, !.level[a] = m.level]
      [] m.kind = "job" -> [v EXCEPT !.job = "announced"]
      [] m.kind = "claim" -> [v EXCEPT !.job = Known(@),
                                       !.claimants = @ \cup {a}]
      [] m.kind = "release" -> [v EXCEPT !.claimants = @ \ {a}]

\* The oldest publication of a that b has not fetched is folded in.
Deliver(a, b) ==
    /\ b \in up /\ chan[a][b] # <<>>
    /\ view' = [view EXCEPT ![b] = Fold(@, a, Head(chan[a][b]))]
    /\ chan' = [chan EXCEPT ![a][b] = Tail(@)]
    /\ UNCHANGED <<used, up, held, ticked, counts, ever, informed>>

\* A publication of a running node that could not be fetched is skipped.
Lose(a, b) ==
    /\ a \in up /\ b \in up /\ chan[a][b] # <<>>
    /\ losses < MaxLosses /\ losses' = losses + 1
    /\ chan' = [chan EXCEPT ![a][b] = Tail(@)]
    /\ UNCHANGED <<view, used, up, held, ticked, passes, fills, crashes, ever,
                   informed>>

\* Those of a node that stopped may be out of reach, the rest of them at once.
Vanish(a, b) ==
    /\ a \notin up /\ chan[a][b] # <<>>
    /\ chan' = [chan EXCEPT ![a][b] = <<>>]
    /\ UNCHANGED <<view, used, up, held, ticked, counts, ever, informed>>

\* An interval goes by.
Pass ==
    /\ Prompt => ticked = up /\ \A a, b \in Node : chan[a][b] = <<>>
    /\ view' = [n \in Node |->
                 [view[n] EXCEPT !.age =
                   [m \in Node |-> IF @[m] < Dead THEN @[m] + 1 ELSE Dead]]]
    /\ ticked' = {}
    /\ IF Prompt THEN UNCHANGED passes
       ELSE passes < MaxPasses /\ passes' = passes + 1
    /\ UNCHANGED <<used, up, held, chan, fills, losses, crashes, ever,
                   informed>>

\* n's store fills or empties, with other jobs' data or its own.
Fill(n, l) ==
    /\ l # used[n]
    /\ fills < MaxFills /\ fills' = fills + 1
    /\ used' = [used EXCEPT ![n] = l]
    /\ UNCHANGED <<view, up, held, chan, ticked, passes, losses, crashes, ever,
                   informed>>

\* n stops for good: what it stored is out of reach, and so is what it missed.
Crash(n) ==
    /\ n \in up
    /\ crashes < MaxCrashes /\ crashes' = crashes + 1
    /\ up' = up \ {n}
    /\ held' = [held EXCEPT ![n] = Nothing]
    /\ view' = [view EXCEPT ![n] = Fresh]
    /\ chan' = [a \in Node |-> [chan[a] EXCEPT ![n] = <<>>]]
    /\ ticked' = ticked \ {n}
    /\ informed' = informed \ {n}
    /\ UNCHANGED <<used, passes, fills, losses, ever>>

Environment ==
    \/ \E n \in Node : Announce(n) \/ Crash(n)
    \/ \E n \in Node, l \in Level : Fill(n, l)
    \/ \E a, b \in Node : Lose(a, b) \/ Vanish(a, b)

Next ==
    \/ \E n \in Node : Tick(n)
    \/ \E a, b \in Node : Deliver(a, b)
    \/ Pass
    \/ Environment

Spec == Init /\ [][Next]_vars

\* Nodes keep ticking, gossip keeps arriving and time keeps passing.  If
\* Prompt, each interval has finitely many steps, so one condition does.
Fairness ==
    WF_vars(\/ \E a, b \in Node : Deliver(a, b)
            \/ Pass
            \/ \E n \in Node : Tick(n))

FairSpec == Spec /\ Fairness
-----------------------------------------------------------------------------
(***************************************************************************)
(* Properties.                                                             *)
(***************************************************************************)

\* Every variable keeps its type.
TypeOK ==
    /\ view \in [Node -> View]
    /\ used \in [Node -> Level]
    /\ up \in SUBSET Node
    /\ held \in [Node -> {Nothing, Whole} \cup Nat]
    /\ chan \in [Node -> [Node -> Seq(Msg)]]
    /\ ticked \in SUBSET Node
    /\ {passes, fills, losses, crashes} \subseteq Nat
    /\ ever \in SUBSET Node /\ informed \in SUBSET Node

\* The nodes that hold the job, by their own account.
Covering == {n \in up : n \in view[n].claimants}

LeastFactor == IF Factor <= DefaultFactor THEN Factor ELSE DefaultFactor

\* What utilisation and name really say, whatever a view says.
Ahead(a, b) == used[a] < used[b] \/ (used[a] = used[b] /\ a < b)

\* coord.rs 352-354, 15-16: trimming never drops coverage below the factor.
\* It holds, however late or lossy the gossip, as long as no node's level
\* changes: a node with fewer than the factor of past claimants ahead of it
\* never lets go of its claim.
BestClaimantsStay ==
    fills = 0 =>
        \A n \in ever \cap up :
            Cardinality({m \in ever : Ahead(m, n)}) < LeastFactor
                => n \in view[n].claimants

\* The same, counted: the job stays covered once it is.
CoverageHolds ==
    fills = 0 /\ crashes = 0 =>
        \/ Cardinality(Covering) >= LeastFactor
        \/ ever \subseteq Covering

\* jobs_to_release, tick: a node that lets go of the job still sees, in what
\* it believes after its tick, as many live claimants as the job asks for.
ReleaseLeavesFactor ==
    [][\A n \in up \cap up' :
         n \in view[n].claimants /\ n \notin view'[n].claimants =>
           Cardinality(view'[n].claimants \cap Live(view'[n]))
             >= Replication(view'[n])]_vars

\* observe, tick: claims and releases reach a peer in the order they were
\* decided, so a peer that has heard all of a node's gossip and skipped none
\* believes of it what the node itself does.
AgreeOnceHeard ==
    losses = 0 =>
        \A a, b \in up :
            chan[a][b] = <<>> =>
                (a \in view[b].claimants <=> a \in view[a].claimants)

\* The job has as many claimants as it asks for, or fewer because no other
\* node that knows of it has capacity, and never more.
Placed ==
    /\ Cardinality(Covering) <= Factor
    /\ Cardinality(Covering) < Factor =>
         \A n \in up \ Covering :
             view[n].job = "unseen" \/ used[n] >= Watermark

\* coord.rs 10-20: coverage, balance and failover.  Whatever levels changed
\* and nodes stopped, the job ends up on exactly as many nodes as it asks for,
\* and stays there.
Settles == <>[]Placed

\* coord.rs 352-354 as written: no release takes a covered job below its
\* factor, whatever the levels.
ReleaseKeepsCoverage ==
    [][up' = up /\ Cardinality(Covering) >= Factor
         => Cardinality(Covering') >= Factor]_vars

\* Every node that runs knows of the same claims.
Agreed == \A a, b \in up : view[a].claimants = view[b].claimants

\* node.rs 381-382: once as many nodes hold the job as it has shards, and all
\* agree on it, each holds a different shard.
ShardsDistinct ==
    /\ Agreed /\ Cardinality(Covering) = Factor
    /\ \A a, b \in Node : chan[a][b] = <<>>
    => \A a, b \in Covering : a # b => held[a] # held[b]
=============================================================================
