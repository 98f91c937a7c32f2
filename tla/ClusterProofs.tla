--------------------------- MODULE ClusterProofs ---------------------------
(***************************************************************************)
(* What holds of Cluster for every set of nodes, every factor and level,   *)
(* and any number of ticks, losses, changes of level and stopped nodes.    *)
(***************************************************************************)
EXTENDS Cluster, FiniteSetTheorems, SequenceTheorems, TLAPS

\* Sets of nodes are finite, and a larger one counts for at least as many.
LEMMA NodeSubsets ==
    ASSUME NEW S \in SUBSET Node, NEW T \in SUBSET S
    PROVE  /\ IsFiniteSet(S) /\ Cardinality(S) \in Nat
           /\ IsFiniteSet(T) /\ Cardinality(T) \in Nat
           /\ Cardinality(T) <= Cardinality(S)
<1>1. IsFiniteSet(S)
  BY ClusterAssumption, FS_Subset
<1>2. IsFiniteSet(T) /\ Cardinality(T) <= Cardinality(S)
  BY <1>1, FS_Subset
<1> QED
  BY <1>1, <1>2, FS_CardinalityType

-----------------------------------------------------------------------------
(***************************************************************************)
(* Publications.                                                           *)
(***************************************************************************)

\* What Publish adds to the channels.
LEMMA PublishAdds ==
    ASSUME TypeOK, NEW n \in Node, NEW ms \in Seq(Msg), Publish(n, ms)
    PROVE  /\ chan' \in [Node -> [Node -> Seq(Msg)]]
           /\ \A a, b \in Node :
                chan'[a][b] = IF a = n /\ b \in up \ {n}
                              THEN chan[a][b] \o ms ELSE chan[a][b]
<1>1. \A b \in Node : chan[n][b] \in Seq(Msg) /\ chan[n][b] \o ms \in Seq(Msg)
  BY ConcatProperties DEF TypeOK
<1>2. chan' = [chan EXCEPT ![n] =
                 [b \in Node |-> IF b \in up \ {n} THEN chan[n][b] \o ms
                                 ELSE chan[n][b]]]
  BY DEF Publish, TypeOK
<1> DEFINE row == [b \in Node |-> IF b \in up \ {n} THEN chan[n][b] \o ms
                                  ELSE chan[n][b]]
<1>3. row \in [Node -> Seq(Msg)]
  BY <1>1
<1>4. chan' = [chan EXCEPT ![n] = row]
  BY <1>2
<1>5. chan \in [Node -> [Node -> Seq(Msg)]]
  BY DEF TypeOK
<1> HIDE DEF row
<1>6. chan' \in [Node -> [Node -> Seq(Msg)]]
  BY <1>3, <1>4, <1>5
<1>7. \A a, b \in Node : chan'[a][b] = IF a = n THEN row[b] ELSE chan[a][b]
  BY <1>4, <1>5
<1> QED
  BY <1>6, <1>7 DEF row

\* The messages a tick publishes.
Said(n, releases, claims) ==
    <<Note("beat", n)>> \o If(releases, <<Note("release", n)>>)
                        \o If(claims, <<Note("claim", n)>>)

LEMMA SaidType ==
    ASSUME TypeOK, NEW n \in Node, NEW r \in BOOLEAN, NEW c \in BOOLEAN
    PROVE  /\ Said(n, r, c) \in Seq(Msg)
           /\ \A i \in 1..Len(Said(n, r, c)) :
                /\ Said(n, r, c)[i].level = used[n]
                /\ Said(n, r, c)[i].kind = "claim" => c
<1>1. /\ Note("beat", n) \in Msg
      /\ Note("release", n) \in Msg
      /\ Note("claim", n) \in Msg
  BY DEF Note, Msg, TypeOK
<1>2. CASE r /\ c
  BY <1>1, <1>2 DEF Said, If, Note
<1>3. CASE r /\ ~ c
  BY <1>1, <1>3 DEF Said, If, Note
<1>4. CASE ~ r /\ c
  BY <1>1, <1>4 DEF Said, If, Note
<1>5. CASE ~ r /\ ~ c
  BY <1>1, <1>5 DEF Said, If, Note
<1> QED
  BY <1>2, <1>3, <1>4, <1>5

-----------------------------------------------------------------------------
(***************************************************************************)
(* Types.                                                                  *)
(***************************************************************************)

LEMMA TypeInit == Init => TypeOK
<1> SUFFICES ASSUME Init PROVE TypeOK
  OBVIOUS
<1>1. Fresh \in View
  BY ClusterAssumption DEF Fresh, View, Dead
<1>2. view \in [Node -> View] /\ used \in [Node -> Level]
  BY <1>1, ClusterAssumption DEF Init
<1>3. chan \in [Node -> [Node -> Seq(Msg)]]
  BY EmptySeq DEF Init
<1> QED
  BY <1>2, <1>3 DEF Init, TypeOK

\* What a tick makes of a node's view keeps its type.
LEMMA TickViewType ==
    ASSUME TypeOK, NEW n \in Node
    PROVE  /\ WithOwnBeat(n) \in View
           /\ \A v \in View : Released(v, n) \in View /\ Claimed(v, n) \in View
<1>1. WithOwnBeat(n) \in View
  <2>1. 0 \in 0..Dead /\ used[n] \in Level /\ view[n] \in View
    BY ClusterAssumption DEF TypeOK, Dead
  <2>2. [view[n].age EXCEPT ![n] = 0] \in [Node -> 0..Dead]
    BY <2>1 DEF View
  <2>3. [view[n].level EXCEPT ![n] = used[n]] \in [Node -> Level]
    BY <2>1 DEF View
  <2> QED
    BY <2>1, <2>2, <2>3 DEF WithOwnBeat, View
<1>2. ASSUME NEW v \in View PROVE Released(v, n) \in View /\ Claimed(v, n) \in View
  BY <1>2 DEF Released, Claimed, View
<1> QED
  BY <1>1, <1>2

LEMMA AssignmentType ==
    ASSUME NEW v \in View, NEW n \in Node
    PROVE  Assignment(v, n) \in {Nothing, Whole} \cup Nat
<1>1. ShardHolders(v) \in SUBSET Node
  BY DEF ShardHolders, Lowest, Live
<1>2. {m \in ShardHolders(v) : Before(v, m, n)} \in SUBSET Node
  BY <1>1
<1>3. ShardIndex(v, n) \in Nat
  BY <1>2, NodeSubsets DEF ShardIndex
<1> QED
  BY <1>3 DEF Assignment

LEMMA FoldType ==
    ASSUME NEW v \in View, NEW a \in Node, NEW m \in Msg
    PROVE  Fold(v, a, m) \in View
<1>1. CASE m.kind = "beat"
  <2>1. 0 \in 0..Dead /\ m.level \in Level
    BY ClusterAssumption DEF Dead, Msg
  <2>2. [v.age EXCEPT ![a] = 0] \in [Node -> 0..Dead]
    BY <2>1 DEF View
  <2>3. [v.level EXCEPT ![a] = m.level] \in [Node -> Level]
    BY <2>1 DEF View
  <2> QED
    BY <1>1, <2>2, <2>3 DEF Fold, View
<1>2. CASE m.kind = "job"
  BY <1>2 DEF Fold, View
<1>3. CASE m.kind = "claim"
  BY <1>3 DEF Fold, View, Known
<1>4. CASE m.kind = "release"
  BY <1>4 DEF Fold, View
<1> QED
  BY <1>1, <1>2, <1>3, <1>4 DEF Msg

LEMMA TypeStep == TypeOK /\ [Next]_vars => TypeOK'
<1> SUFFICES ASSUME TypeOK, [Next]_vars PROVE TypeOK'
  OBVIOUS
<1>1. ASSUME NEW n \in Node, Announce(n) PROVE TypeOK'
  <2>1. Note("job", n) \in Msg
    BY DEF Note, Msg, TypeOK
  <2>2. <<Note("job", n)>> \in Seq(Msg)
    BY <2>1
  <2>3. chan' \in [Node -> [Node -> Seq(Msg)]]
    BY <1>1, <2>2, PublishAdds DEF Announce
  <2>4. view[n] \in View
    BY DEF TypeOK
  <2>5. [view[n] EXCEPT !.job = "announced"] \in View
    BY <2>4 DEF View
  <2>6. view' \in [Node -> View]
    BY <1>1, <2>5 DEF Announce, TypeOK
  <2> QED
    BY <1>1, <2>3, <2>6 DEF Announce, counts, TypeOK
<1>2. ASSUME NEW n \in Node, Tick(n) PROVE TypeOK'
  <2> DEFINE v == WithOwnBeat(n)
             v1 == Released(v, n)
             r == MustRelease(v, n)
             c == n \in Claimers(v1)
             w == Claimed(v1, n)
  <2>1. w \in View
    BY TickViewType
  <2>2. r \in BOOLEAN /\ c \in BOOLEAN
    BY DEF MustRelease
  <2>3. Publish(n, Said(n, r, c))
    BY <1>2 DEF Tick, Said
  <2>4. chan' \in [Node -> [Node -> Seq(Msg)]]
    BY <2>2, <2>3, SaidType, PublishAdds
  <2>5. view' = [view EXCEPT ![n] = w]
    BY <1>2 DEF Tick
  <2> HIDE DEF w
  <2>6. view' \in [Node -> View] /\ view'[n] = w
    BY <2>1, <2>5 DEF TypeOK
  <2>7. Assignment(view'[n], n) \in {Nothing, Whole} \cup Nat
    BY <2>1, <2>6, AssignmentType
  <2>8. held' \in [Node -> {Nothing, Whole} \cup Nat]
    BY <1>2, <2>7 DEF Tick, TypeOK
  <2>9. ticked' \in SUBSET Node /\ ever' \in SUBSET Node
    BY <1>2 DEF Tick, TypeOK
  <2> QED
    BY <1>2, <2>4, <2>6, <2>8, <2>9 DEF Tick, counts, TypeOK
<1>3. ASSUME NEW a \in Node, NEW b \in Node, Deliver(a, b) PROVE TypeOK'
  <2>1. chan[a][b] \in Seq(Msg) /\ chan[a][b] # <<>>
    BY <1>3 DEF Deliver, TypeOK
  <2>2. Head(chan[a][b]) \in Msg /\ Tail(chan[a][b]) \in Seq(Msg)
    BY <2>1, HeadTailProperties
  <2>3. view[b] \in View
    BY DEF TypeOK
  <2>4. Fold(view[b], a, Head(chan[a][b])) \in View
    BY <2>2, <2>3, FoldType
  <2>5. view' \in [Node -> View]
    BY <1>3, <2>4 DEF Deliver, TypeOK
  <2>6. chan' \in [Node -> [Node -> Seq(Msg)]]
    BY <1>3, <2>2 DEF Deliver, TypeOK
  <2> QED
    BY <1>3, <2>5, <2>6 DEF Deliver, counts, TypeOK
<1>4. ASSUME NEW a \in Node, NEW b \in Node, Lose(a, b) PROVE TypeOK'
  <2>1. Tail(chan[a][b]) \in Seq(Msg)
    BY <1>4, HeadTailProperties DEF Lose, TypeOK
  <2>2. chan' \in [Node -> [Node -> Seq(Msg)]]
    BY <1>4, <2>1 DEF Lose, TypeOK
  <2> QED
    BY <1>4, <2>2 DEF Lose, TypeOK
<1>5. ASSUME NEW a \in Node, NEW b \in Node, Vanish(a, b) PROVE TypeOK'
  <2>1. chan' \in [Node -> [Node -> Seq(Msg)]]
    BY <1>5, EmptySeq DEF Vanish, TypeOK
  <2> QED
    BY <1>5, <2>1 DEF Vanish, counts, TypeOK
<1>6. ASSUME Pass PROVE TypeOK'
  <2> DEFINE later(n) == [m \in Node |-> IF view[n].age[m] < Dead
                                         THEN view[n].age[m] + 1 ELSE Dead]
  <2>1. ASSUME NEW n \in Node PROVE later(n) \in [Node -> 0..Dead]
    <3>1. view[n].age \in [Node -> 0..Dead]
      BY DEF TypeOK, View
    <3> QED
      BY <3>1, ClusterAssumption DEF Dead
  <2>2. \A n \in Node : view'[n] = [view[n] EXCEPT !.age = later(n)]
    BY <1>6 DEF Pass
  <2> HIDE DEF later
  <2>3. ASSUME NEW n \in Node PROVE view'[n] \in View
    <3>1. view[n] \in View
      BY DEF TypeOK
    <3> DEFINE g == later(n)
    <3>2. g \in [Node -> 0..Dead] /\ view'[n] = [view[n] EXCEPT !.age = g]
      BY <2>1, <2>2
    <3> HIDE DEF g
    <3> QED
      BY <3>1, <3>2 DEF View
  <2>4. view' \in [Node -> View]
    BY <1>6, <2>3 DEF Pass
  <2> QED
    BY <1>6, <2>4 DEF Pass, TypeOK
<1>7. ASSUME NEW n \in Node, NEW l \in Level, Fill(n, l) PROVE TypeOK'
  BY <1>7 DEF Fill, TypeOK
<1>8. ASSUME NEW n \in Node, Crash(n) PROVE TypeOK'
  <2>1. Fresh \in View
    BY ClusterAssumption DEF Fresh, View, Dead
  <2>2. chan' \in [Node -> [Node -> Seq(Msg)]]
    BY <1>8, EmptySeq DEF Crash, TypeOK
  <2> QED
    BY <1>8, <2>1, <2>2 DEF Crash, TypeOK
<1>9. ASSUME UNCHANGED vars PROVE TypeOK'
  BY <1>9 DEF vars, counts, TypeOK
<1> QED
  BY <1>1, <1>2, <1>3, <1>4, <1>5, <1>6, <1>7, <1>8, <1>9 DEF Next, Environment

\* Cluster's variables keep their types, for every set of nodes, levels,
\* factors and bounds.
THEOREM TypeCorrect == Spec => []TypeOK
<1>1. Spec => Init /\ [][Next]_vars
  BY DEF Spec
<1> QED
  BY <1>1, TypeInit, TypeStep, PTL

-----------------------------------------------------------------------------
(***************************************************************************)
(* Coverage.                                                               *)
(***************************************************************************)

\* A publication of a tells a's level and claims for a, as long as levels stay.
Sound(a, m) ==
    /\ fills = 0 => m.level = used[a]
    /\ m.kind = "claim" => a \in ever

ChanInv ==
    \A a, b \in Node :
        /\ a = b => chan[a][b] = <<>>
        /\ \A i \in 1..Len(chan[a][b]) : Sound(a, chan[a][b][i])

\* What a node knows of another that it thinks live is true.
LevelInv ==
    fills = 0 =>
        \A n, m \in Node :
            view[n].age[m] <= DeadAfter => view[n].level[m] = used[m]

EverInv == \A n \in Node : view[n].claimants \subseteq ever

UpInv == crashes = 0 => up = Node

KnowInv == ChanInv /\ LevelInv /\ EverInv /\ UpInv

\* A tick leaves n's view as its own heartbeat made it, but for n's claim.
LEMMA TickView ==
    ASSUME TypeOK, NEW n \in Node
    PROVE  LET v == WithOwnBeat(n)
               v1 == Released(v, n)
               w == Claimed(v1, n)
           IN /\ w.age = v.age /\ w.level = v.level /\ w.job = v.job
              /\ w.claimants \ {n} = view[n].claimants \ {n}
              /\ n \in w.claimants <=>
                   \/ n \in view[n].claimants /\ ~ MustRelease(v, n)
                   \/ n \in Claimers(v1)
<1> DEFINE v == WithOwnBeat(n)
           v1 == Released(v, n)
           w == Claimed(v1, n)
<1>1. v \in View /\ v1 \in View
  BY TickViewType
<1>2. v.claimants = view[n].claimants
  BY DEF WithOwnBeat, TypeOK, View
<1> HIDE DEF v
<1>3. /\ v1.age = v.age /\ v1.level = v.level /\ v1.job = v.job
      /\ v1.claimants = IF MustRelease(v, n) THEN v.claimants \ {n}
                        ELSE v.claimants
  BY <1>1 DEF Released, View
<1> HIDE DEF v1
<1>4. /\ w.age = v1.age /\ w.level = v1.level /\ w.job = v1.job
      /\ w.claimants = IF n \in Claimers(v1) THEN v1.claimants \cup {n}
                       ELSE v1.claimants
  BY <1>1 DEF Claimed, View
<1> HIDE DEF w
<1>5. w.claimants \ {n} = view[n].claimants \ {n}
  BY <1>2, <1>3, <1>4
<1>6. n \in w.claimants <=> \/ n \in view[n].claimants /\ ~ MustRelease(v, n)
                            \/ n \in Claimers(v1)
  BY <1>2, <1>3, <1>4
<1> QED
  BY <1>3, <1>4, <1>5, <1>6 DEF v, v1, w

\* The heartbeat a node gives itself.
LEMMA OwnBeat ==
    ASSUME TypeOK, NEW n \in Node
    PROVE  LET v == WithOwnBeat(n)
           IN /\ v.age[n] = 0 /\ v.level[n] = used[n]
              /\ \A m \in Node \ {n} : /\ v.age[m] = view[n].age[m]
                                       /\ v.level[m] = view[n].level[m]
              /\ v.job = view[n].job /\ v.claimants = view[n].claimants
BY DEF WithOwnBeat, TypeOK, View

LEMMA KnowInit == Init => KnowInv
<1> SUFFICES ASSUME Init PROVE KnowInv
  OBVIOUS
<1>1. \A a, b \in Node : chan[a][b] = <<>> /\ Len(chan[a][b]) = 0
  BY DEF Init
<1>2. ChanInv
  BY <1>1 DEF ChanInv
<1>3. LevelInv
  BY ClusterAssumption DEF Init, LevelInv, Fresh, Dead
<1> QED
  BY <1>2, <1>3 DEF Init, KnowInv, EverInv, UpInv, Fresh

\* The channels stay sound when messages are added or taken away.
LEMMA ChanAdds ==
    ASSUME TypeOK, ChanInv, NEW n \in Node, NEW ms \in Seq(Msg), Publish(n, ms),
           UNCHANGED <<used, fills>>, ever \subseteq ever',
           \A i \in 1..Len(ms) : /\ ms[i].level = used[n]
                                 /\ ms[i].kind = "claim" => n \in ever'
    PROVE  ChanInv'
<1>1. \A a, b \in Node :
        chan'[a][b] = IF a = n /\ b \in up \ {n}
                      THEN chan[a][b] \o ms ELSE chan[a][b]
  BY PublishAdds
<1>2. ASSUME NEW a \in Node, NEW b \in Node
      PROVE  /\ a = b => chan'[a][b] = <<>>
             /\ (\A i \in 1..Len(chan[a][b]) : Sound(a, chan[a][b][i]))'
  <2>1. \A i \in 1..Len(chan[a][b]) : Sound(a, chan[a][b][i])
    BY DEF ChanInv
  <2>2. CASE a = n /\ b \in up \ {n}
    <3>1. chan[a][b] \in Seq(Msg)
      BY DEF TypeOK
    <3>2. chan'[a][b] = chan[a][b] \o ms
      BY <1>1, <2>2
    <3>3. /\ Len(chan'[a][b]) = Len(chan[a][b]) + Len(ms)
          /\ Len(chan[a][b]) \in Nat /\ Len(ms) \in Nat
          /\ \A i \in 1..Len(chan'[a][b]) :
               chan'[a][b][i] = IF i <= Len(chan[a][b]) THEN chan[a][b][i]
                                ELSE ms[i - Len(chan[a][b])]
      BY <3>1, <3>2, ConcatProperties, LenProperties
    <3>4. ASSUME NEW i \in 1..Len(chan'[a][b])
          PROVE  \/ \E j \in 1..Len(chan[a][b]) : chan'[a][b][i] = chan[a][b][j]
                 \/ \E j \in 1..Len(ms) : chan'[a][b][i] = ms[j]
      BY <3>3
    <3>5. ASSUME NEW i \in 1..Len(chan'[a][b])
          PROVE  /\ fills' = 0 => chan'[a][b][i].level = used'[a]
                 /\ chan'[a][b][i].kind = "claim" => a \in ever'
      <4>1. CASE \E j \in 1..Len(chan[a][b]) : chan'[a][b][i] = chan[a][b][j]
        <5>1. PICK j \in 1..Len(chan[a][b]) : chan'[a][b][i] = chan[a][b][j]
          BY <4>1
        <5>2. Sound(a, chan[a][b][j])
          BY <2>1
        <5> QED
          BY <5>1, <5>2 DEF Sound
      <4>2. CASE \E j \in 1..Len(ms) : chan'[a][b][i] = ms[j]
        <5>1. PICK j \in 1..Len(ms) : chan'[a][b][i] = ms[j]
          BY <4>2
        <5> QED
          BY <2>2, <5>1
      <4> QED
        BY <3>4, <4>1, <4>2
    <3> QED
      BY <2>2, <3>5 DEF Sound
  <2>3. CASE ~ (a = n /\ b \in up \ {n})
    <3>1. chan'[a][b] = chan[a][b]
      BY <1>1, <2>3
    <3> QED
      BY <2>1, <3>1 DEF ChanInv, Sound
  <2> QED
    BY <2>2, <2>3
<1> QED
  BY <1>2 DEF ChanInv

LEMMA ChanTakes ==
    ASSUME TypeOK, ChanInv, NEW a \in Node, NEW b \in Node, chan[a][b] # <<>>,
           chan' = [chan EXCEPT ![a][b] = Tail(@)],
           UNCHANGED <<used, fills, ever>>
    PROVE  ChanInv' /\ Sound(a, Head(chan[a][b])) /\ Head(chan[a][b]) \in Msg
           /\ a # b
<1>1. chan[a][b] \in Seq(Msg)
  BY DEF TypeOK
<1>2. /\ Head(chan[a][b]) \in Msg
      /\ Tail(chan[a][b]) \in Seq(Msg)
      /\ Len(Tail(chan[a][b])) = Len(chan[a][b]) - 1
      /\ \A i \in 1..Len(Tail(chan[a][b])) :
           Tail(chan[a][b])[i] = chan[a][b][i + 1]
  BY <1>1, HeadTailProperties
<1>3. Head(chan[a][b]) = chan[a][b][1] /\ Len(chan[a][b]) \in Nat \ {0}
  BY <1>1, EmptySeq
<1>4. \A c, d \in Node :
        chan'[c][d] = IF c = a /\ d = b THEN Tail(chan[a][b]) ELSE chan[c][d]
  BY DEF TypeOK
<1>5. a # b
  BY DEF ChanInv
<1>6. ASSUME NEW c \in Node, NEW d \in Node
      PROVE  /\ c = d => chan'[c][d] = <<>>
             /\ (\A i \in 1..Len(chan[c][d]) : Sound(c, chan[c][d][i]))'
  <2>1. ASSUME NEW i \in 1..Len(chan'[c][d])
        PROVE  \E j \in 1..Len(chan[c][d]) : chan'[c][d][i] = chan[c][d][j]
    <3>1. CASE c = a /\ d = b
      <4> DEFINE s == chan[a][b]
                 r == Tail(s)
      <4>1. chan'[c][d] = r
        BY <1>4, <3>1
      <4>2. /\ Len(s) \in Nat \ {0} /\ Len(r) = Len(s) - 1
            /\ \A j \in 1..Len(r) : r[j] = s[j + 1]
        BY <1>2, <1>3
      <4> HIDE DEF r
      <4>3. i \in 1..Len(r)
        BY <4>1
      <4>4. i + 1 \in 1..Len(s) /\ chan'[c][d][i] = s[i + 1]
        BY <4>1, <4>2, <4>3
      <4> QED
        BY <3>1, <4>4
    <3>2. CASE ~ (c = a /\ d = b)
      BY <1>4, <3>2
    <3> QED
      BY <3>1, <3>2
  <2>2. ASSUME NEW i \in 1..Len(chan'[c][d])
        PROVE  /\ fills' = 0 => chan'[c][d][i].level = used'[c]
               /\ chan'[c][d][i].kind = "claim" => c \in ever'
    <3>1. PICK j \in 1..Len(chan[c][d]) : chan'[c][d][i] = chan[c][d][j]
      BY <2>1
    <3>2. Sound(c, chan[c][d][j])
      BY DEF ChanInv
    <3> QED
      BY <3>1, <3>2 DEF Sound
  <2>3. c = d => chan'[c][d] = <<>>
    BY <1>4, <1>5 DEF ChanInv
  <2> QED
    BY <2>2, <2>3 DEF Sound
<1> QED
  BY <1>2, <1>3, <1>5, <1>6 DEF ChanInv

LEMMA KnowStep == TypeOK /\ KnowInv /\ [Next]_vars => KnowInv'
<1> SUFFICES ASSUME TypeOK, KnowInv, [Next]_vars PROVE KnowInv'
  OBVIOUS
<1>0. ChanInv /\ LevelInv /\ EverInv /\ UpInv
  BY DEF KnowInv
<1>1. ASSUME NEW n \in Node, Announce(n) PROVE KnowInv'
  <2> DEFINE ms == <<Note("job", n)>>
  <2>1. ms \in Seq(Msg) /\ Len(ms) = 1 /\ ms[1].level = used[n]
        /\ ms[1].kind = "job"
    BY DEF Note, Msg, TypeOK
  <2>2. Publish(n, ms) /\ UNCHANGED <<used, fills, ever>>
    BY <1>1 DEF Announce, counts
  <2> HIDE DEF ms
  <2>3. ChanInv'
    BY <1>0, <2>1, <2>2, ChanAdds
  <2>4. \A m \in Node : /\ view'[m].age = view[m].age
                        /\ view'[m].level = view[m].level
                        /\ view'[m].claimants = view[m].claimants
    BY <1>1 DEF Announce, TypeOK, View
  <2> QED
    BY <1>0, <1>1, <2>3, <2>4
       DEF Announce, counts, KnowInv, LevelInv, EverInv, UpInv
<1>2. ASSUME NEW n \in Node, Tick(n) PROVE KnowInv'
  <2> DEFINE v == WithOwnBeat(n)
             v1 == Released(v, n)
             r == MustRelease(v, n)
             c == n \in Claimers(v1)
             w == Claimed(v1, n)
  <2>1. Publish(n, Said(n, r, c)) /\ UNCHANGED <<used, fills, up, crashes>>
    BY <1>2 DEF Tick, Said, counts
  <2>2. ever' = IF c THEN ever \cup {n} ELSE ever
    BY <1>2 DEF Tick
  <2>3. Said(n, r, c) \in Seq(Msg)
        /\ \A i \in 1..Len(Said(n, r, c)) :
             /\ Said(n, r, c)[i].level = used[n]
             /\ Said(n, r, c)[i].kind = "claim" => n \in ever'
    <3>1. r \in BOOLEAN /\ c \in BOOLEAN
      BY DEF MustRelease
    <3> HIDE DEF r, c
    <3>2. /\ Said(n, r, c) \in Seq(Msg)
          /\ \A i \in 1..Len(Said(n, r, c)) :
               /\ Said(n, r, c)[i].level = used[n]
               /\ Said(n, r, c)[i].kind = "claim" => c
      BY <3>1, SaidType
    <3>3. c => n \in ever'
      BY <2>2
    <3> QED
      BY <3>2, <3>3
  <2>4. ChanInv'
    BY <1>0, <2>1, <2>2, <2>3, ChanAdds
  <2>5. \A m \in Node : view'[m] = IF m = n THEN w ELSE view[m]
    BY <1>2 DEF Tick, TypeOK
  <2>6. /\ w.age = v.age /\ w.level = v.level
        /\ w.claimants \ {n} = view[n].claimants \ {n}
        /\ n \in w.claimants => n \in view[n].claimants \/ c
    BY TickView
  <2>7. /\ v.level[n] = used[n]
        /\ \A m \in Node \ {n} : /\ v.age[m] = view[n].age[m]
                                 /\ v.level[m] = view[n].level[m]
    BY OwnBeat
  <2> HIDE DEF v, w, c
  <2>8. LevelInv'
    BY <1>0, <2>1, <2>5, <2>6, <2>7 DEF LevelInv
  <2>9. EverInv'
    BY <1>0, <2>2, <2>5, <2>6 DEF EverInv
  <2> QED
    BY <1>0, <2>1, <2>4, <2>8, <2>9 DEF KnowInv, UpInv
<1>3. ASSUME NEW a \in Node, NEW b \in Node, Deliver(a, b) PROVE KnowInv'
  <2> DEFINE m == Head(chan[a][b])
  <2>1. ChanInv' /\ Sound(a, m) /\ m \in Msg
    BY <1>0, <1>3, ChanTakes DEF Deliver, counts
  <2>2. \A n \in Node : view'[n] = IF n = b THEN Fold(view[b], a, m) ELSE view[n]
    BY <1>3 DEF Deliver, TypeOK
  <2> HIDE DEF m
  <2>3. view[b] \in View
    BY DEF TypeOK
  <2>4. /\ \A x \in Node : Fold(view[b], a, m).age[x] <= DeadAfter =>
             \/ /\ view[b].age[x] <= DeadAfter
                /\ Fold(view[b], a, m).level[x] = view[b].level[x]
             \/ x = a /\ Fold(view[b], a, m).level[x] = m.level
        /\ Fold(view[b], a, m).claimants \subseteq
             view[b].claimants \cup (IF m.kind = "claim" THEN {a} ELSE {})
    BY <2>1, <2>3 DEF Fold, View, Msg
  <2>5. LevelInv'
    BY <1>0, <1>3, <2>1, <2>2, <2>4 DEF Deliver, counts, LevelInv, Sound
  <2>6. EverInv'
    BY <1>0, <1>3, <2>1, <2>2, <2>4 DEF Deliver, EverInv, Sound
  <2> QED
    BY <1>0, <1>3, <2>1, <2>5, <2>6 DEF Deliver, counts, KnowInv, UpInv
<1>4. ASSUME NEW a \in Node, NEW b \in Node, Lose(a, b) PROVE KnowInv'
  <2>1. ChanInv'
    BY <1>0, <1>4, ChanTakes DEF Lose
  <2> QED
    BY <1>0, <1>4, <2>1 DEF Lose, KnowInv, LevelInv, EverInv, UpInv
<1>5. ASSUME NEW a \in Node, NEW b \in Node, Vanish(a, b) PROVE KnowInv'
  <2>1. \A c, d \in Node : chan'[c][d] = chan[c][d] \/ chan'[c][d] = <<>>
    BY <1>5 DEF Vanish, TypeOK
  <2>2. Len(<<>>) = 0
    BY EmptySeq
  <2>3. ChanInv'
    BY <1>0, <1>5, <2>1, <2>2 DEF Vanish, counts, ChanInv, Sound
  <2> QED
    BY <1>0, <1>5, <2>3 DEF Vanish, counts, KnowInv, LevelInv, EverInv, UpInv
<1>6. ASSUME Pass PROVE KnowInv'
  <2>1. ASSUME NEW n \in Node
        PROVE  /\ view'[n].level = view[n].level
               /\ view'[n].claimants = view[n].claimants
               /\ \A m \in Node : view'[n].age[m] <= DeadAfter =>
                                    view[n].age[m] <= DeadAfter
    <3>1. view[n] \in View /\ view[n].age \in [Node -> 0..Dead]
      BY DEF TypeOK, View
    <3>2. view'[n] = [view[n] EXCEPT !.age =
                       [m \in Node |-> IF view[n].age[m] < Dead
                                       THEN view[n].age[m] + 1 ELSE Dead]]
      BY <1>6 DEF Pass
    <3>3. \A m \in Node : view'[n].age[m] = IF view[n].age[m] < Dead
                                            THEN view[n].age[m] + 1 ELSE Dead
      BY <3>1, <3>2 DEF View
    <3> QED
      BY <3>1, <3>2, <3>3, ClusterAssumption DEF View, Dead
  <2>2. ChanInv'
    BY <1>0, <1>6 DEF Pass, ChanInv, Sound
  <2>3. LevelInv'
    <3>1. fills' = fills /\ used' = used
      BY <1>6 DEF Pass
    <3> QED
      BY <1>0, <2>1, <3>1 DEF LevelInv
  <2>4. EverInv'
    BY <1>0, <1>6, <2>1 DEF Pass, EverInv
  <2> QED
    BY <1>0, <1>6, <2>2, <2>3, <2>4 DEF Pass, KnowInv, UpInv
<1>7. ASSUME NEW n \in Node, NEW l \in Level, Fill(n, l) PROVE KnowInv'
  <2>1. fills' # 0
    BY <1>7 DEF Fill, TypeOK
  <2> QED
    BY <1>0, <1>7, <2>1
       DEF Fill, KnowInv, ChanInv, Sound, LevelInv, EverInv, UpInv
<1>8. ASSUME NEW n \in Node, Crash(n) PROVE KnowInv'
  <2>1. \A c, d \in Node : chan'[c][d] = chan[c][d] \/ chan'[c][d] = <<>>
    BY <1>8 DEF Crash, TypeOK
  <2>2. Len(<<>>) = 0
    BY EmptySeq
  <2>3. ChanInv'
    BY <1>0, <1>8, <2>1, <2>2 DEF Crash, ChanInv, Sound
  <2>4. \A m \in Node : view'[m] = IF m = n THEN Fresh ELSE view[m]
    BY <1>8 DEF Crash, TypeOK
  <2>5. \A m \in Node : ~ (Fresh.age[m] <= DeadAfter) /\ Fresh.claimants = {}
    BY ClusterAssumption DEF Fresh, Dead
  <2>6. crashes' # 0
    BY <1>8 DEF Crash, TypeOK
  <2> QED
    BY <1>0, <1>8, <2>3, <2>4, <2>5, <2>6
       DEF Crash, KnowInv, LevelInv, EverInv, UpInv
<1>9. ASSUME UNCHANGED vars PROVE KnowInv'
  BY <1>0, <1>9
     DEF vars, counts, KnowInv, ChanInv, Sound, LevelInv, EverInv, UpInv
<1> QED
  BY <1>1, <1>2, <1>3, <1>4, <1>5, <1>6, <1>7, <1>8, <1>9 DEF Next, Environment

\* The nodes that go before n among those that ever claimed.
Rivals(n) == {m \in ever : Ahead(m, n)}

\* A node that must let go sees as many live claimants before it as the job
\* asks for.
LEMMA ReleaseSees ==
    ASSUME NEW v \in View, NEW n \in Node, n \in Live(v), MustRelease(v, n)
    PROVE  LET S == {x \in LiveClaimants(v) : Before(v, x, n)}
           IN /\ S \in SUBSET Node /\ n \notin S
              /\ Cardinality(S) \in Nat
              /\ Cardinality(S) >= Replication(v)
<1> DEFINE S == {x \in LiveClaimants(v) : Before(v, x, n)}
<1>1. n \in LiveClaimants(v)
  BY DEF MustRelease, LiveClaimants
<1>2. ~ (Cardinality(S) < Replication(v))
  BY <1>1 DEF MustRelease, Keepers, Lowest
<1>3. S \in SUBSET Node
  BY DEF LiveClaimants, Live
<1>4. n \notin S
  <2>1. v.level[n] \in Nat /\ n \in Nat
    BY ClusterAssumption DEF View
  <2> QED
    BY <2>1 DEF Before
<1>5. Cardinality(S) \in Nat
  BY <1>3, NodeSubsets
<1>6. Replication(v) \in Nat
  BY ClusterAssumption DEF Replication
<1> QED
  BY <1>2, <1>3, <1>4, <1>5, <1>6

\* While levels stay, they are all rivals of it.
LEMMA ReleaseRank ==
    ASSUME TypeOK, KnowInv, fills = 0, NEW n \in Node,
           MustRelease(WithOwnBeat(n), n)
    PROVE  Cardinality(Rivals(n)) >= LeastFactor
<1> DEFINE v == WithOwnBeat(n)
           S == {x \in LiveClaimants(v) : Before(v, x, n)}
<1>1. v \in View
  BY TickViewType
<1>2. /\ v.age[n] = 0 /\ v.level[n] = used[n]
      /\ \A m \in Node \ {n} : /\ v.age[m] = view[n].age[m]
                               /\ v.level[m] = view[n].level[m]
      /\ v.claimants = view[n].claimants
  BY OwnBeat
<1>3. n \in Live(v)
  BY <1>2, ClusterAssumption DEF Live
<1>4. \A m \in Live(v) : v.level[m] = used[m]
  BY <1>2 DEF Live, KnowInv, LevelInv
<1>5. v.claimants \subseteq ever
  BY <1>2 DEF KnowInv, EverInv
<1> HIDE DEF v
<1>6. /\ S \in SUBSET Node
      /\ Cardinality(S) \in Nat
      /\ Cardinality(S) >= Replication(v)
  BY <1>1, <1>3, ReleaseSees DEF v
<1>7. S \subseteq Rivals(n)
  BY <1>3, <1>4, <1>5 DEF Rivals, LiveClaimants, Before, Ahead
<1>8. Rivals(n) \in SUBSET Node
  BY DEF Rivals, TypeOK
<1>9. Cardinality(S) <= Cardinality(Rivals(n)) /\ Cardinality(Rivals(n)) \in Nat
  BY <1>7, <1>8, NodeSubsets
<1>10. Replication(v) >= LeastFactor /\ {Replication(v), LeastFactor} \subseteq Nat
  BY ClusterAssumption DEF Replication, LeastFactor
<1> QED
  BY <1>6, <1>9, <1>10

\* Rivals only get more.
LEMMA RivalsGrow ==
    ASSUME TypeOK, TypeOK', used' = used, ever \subseteq ever', NEW n \in Node,
           Cardinality(Rivals(n))' < LeastFactor
    PROVE  Cardinality(Rivals(n)) < LeastFactor
<1>1. Rivals(n) \subseteq Rivals(n)'
  BY DEF Rivals, Ahead
<1>2. Rivals(n)' \in SUBSET Node
  BY DEF Rivals, TypeOK
<1>3. /\ Cardinality(Rivals(n)) <= Cardinality(Rivals(n)')
      /\ Cardinality(Rivals(n)) \in Nat /\ Cardinality(Rivals(n)') \in Nat
  BY <1>1, <1>2, NodeSubsets
<1>4. LeastFactor \in Nat
  BY ClusterAssumption DEF LeastFactor
<1> QED
  BY <1>3, <1>4

LEMMA BestInit == Init => BestClaimantsStay
BY DEF Init, BestClaimantsStay

\* Who claims, by its own account, changes in a tick and in a stop alone.
LEMMA ClaimKept ==
    ASSUME TypeOK, KnowInv, [Next]_vars, NEW n \in Node,
           n \in view[n].claimants, n \notin view'[n].claimants, n \in up'
    PROVE  Tick(n) /\ MustRelease(WithOwnBeat(n), n)
<1>1. ASSUME NEW m \in Node, Announce(m) PROVE FALSE
  BY <1>1 DEF Announce, TypeOK, View
<1>2. ASSUME NEW m \in Node, Tick(m)
      PROVE  Tick(n) /\ MustRelease(WithOwnBeat(n), n)
  <2>1. m = n
    BY <1>2 DEF Tick, TypeOK
  <2>2. view'[n] = Claimed(Released(WithOwnBeat(n), n), n)
    BY <1>2, <2>1 DEF Tick, TypeOK
  <2> QED
    BY <1>2, <2>1, <2>2, TickView
<1>3. ASSUME NEW a \in Node, NEW b \in Node, Deliver(a, b) PROVE FALSE
  <2>1. a # b /\ Head(chan[a][b]) \in Msg
    BY <1>3, ChanTakes DEF Deliver, counts, KnowInv
  <2>2. view[b] \in View
    BY DEF TypeOK
  <2>3. Fold(view[b], a, Head(chan[a][b])).claimants \cup {a}
          = view[b].claimants \cup {a}
    BY <2>1, <2>2 DEF Fold, View, Msg
  <2> QED
    BY <1>3, <2>1, <2>3 DEF Deliver, TypeOK
<1>4. ASSUME NEW a \in Node, NEW b \in Node, Lose(a, b) \/ Vanish(a, b)
      PROVE  FALSE
  BY <1>4 DEF Lose, Vanish
<1>5. ASSUME Pass PROVE FALSE
  <2>1. view[n] \in View /\ view'[n].claimants = view[n].claimants
    BY <1>5 DEF Pass, TypeOK, View
  <2> QED
    BY <2>1
<1>6. ASSUME NEW m \in Node, NEW l \in Level, Fill(m, l) PROVE FALSE
  BY <1>6 DEF Fill
<1>7. ASSUME NEW m \in Node, Crash(m) PROVE FALSE
  BY <1>7 DEF Crash, TypeOK
<1>8. ASSUME UNCHANGED vars PROVE FALSE
  BY <1>8 DEF vars
<1> QED
  BY <1>1, <1>2, <1>3, <1>4, <1>5, <1>6, <1>7, <1>8 DEF Next, Environment

\* A node that has claimed is in ever, and claims when it enters it.
LEMMA EverStep ==
    ASSUME TypeOK, [Next]_vars
    PROVE  /\ ever \subseteq ever' /\ up' \subseteq up
           /\ fills' = 0 => fills = 0 /\ used' = used
           /\ \A n \in ever' \ ever : n \in view'[n].claimants
<1>1. ASSUME NEW m \in Node, Tick(m)
      PROVE  \A n \in ever' \ ever : n \in view'[n].claimants
  <2>1. view'[m] = Claimed(Released(WithOwnBeat(m), m), m)
    BY <1>1 DEF Tick, TypeOK
  <2>2. \A n \in ever' \ ever :
          n = m /\ m \in Claimers(Released(WithOwnBeat(m), m))
    BY <1>1 DEF Tick
  <2> QED
    BY <2>1, <2>2, TickView
<1>2. ASSUME NEW m \in Node, Tick(m) PROVE ever \subseteq ever' /\ up' = up
  BY <1>2 DEF Tick
<1>3. ~ (\E m \in Node : Tick(m)) => ever' = ever
  BY DEF Next, Environment, Announce, Deliver, Lose, Vanish, Pass, Fill, Crash, vars
<1>4. up' \subseteq up
  BY DEF Next, Environment, Announce, Tick, Deliver, Lose, Vanish, Pass, Fill,
         Crash, vars
<1>5. fills' = 0 => fills = 0 /\ used' = used
  <2>1. ASSUME NEW n \in Node, NEW l \in Level, Fill(n, l) PROVE fills' # 0
    BY <2>1 DEF Fill, TypeOK
  <2>2. ~ (\E n \in Node, l \in Level : Fill(n, l)) => UNCHANGED <<fills, used>>
    BY DEF Next, Environment, Announce, Tick, Deliver, Lose, Vanish, Pass, Crash,
           vars, counts
  <2> QED
    BY <2>1, <2>2
<1> QED
  BY <1>1, <1>2, <1>3, <1>4, <1>5

LEMMA BestStep ==
    ASSUME TypeOK, TypeOK', KnowInv, BestClaimantsStay, [Next]_vars
    PROVE  BestClaimantsStay'
<1> SUFFICES ASSUME fills' = 0, NEW n \in ever' \cap up',
                    Cardinality(Rivals(n))' < LeastFactor
             PROVE  n \in view'[n].claimants
  BY DEF BestClaimantsStay, Rivals, LeastFactor
<1>1. /\ ever \subseteq ever' /\ up' \subseteq up
      /\ fills = 0 /\ used' = used
      /\ n \in ever' \ ever => n \in view'[n].claimants
  BY EverStep
<1>2. n \in Node
  BY DEF TypeOK
<1>3. CASE n \in ever
  <2>1. Cardinality(Rivals(n)) < LeastFactor
    BY <1>1, <1>2, RivalsGrow
  <2>2. n \in view[n].claimants
    BY <1>1, <1>3, <2>1 DEF BestClaimantsStay, Rivals
  <2>3. SUFFICES ASSUME n \notin view'[n].claimants PROVE FALSE
    OBVIOUS
  <2>4. MustRelease(WithOwnBeat(n), n)
    BY <1>2, <2>2, <2>3, ClaimKept
  <2>5. Cardinality(Rivals(n)) >= LeastFactor
    BY <1>1, <1>2, <2>4, ReleaseRank
  <2>6. Cardinality(Rivals(n)) \in Nat /\ LeastFactor \in Nat
    BY NodeSubsets, ClusterAssumption DEF Rivals, TypeOK, LeastFactor
  <2> QED
    BY <2>1, <2>5, <2>6
<1> QED
  BY <1>1, <1>3

CInv == TypeOK /\ KnowInv /\ BestClaimantsStay

LEMMA CInvInit == Init => CInv
BY TypeInit, KnowInit, BestInit DEF CInv

LEMMA CInvStep == CInv /\ [Next]_vars => CInv'
<1> SUFFICES ASSUME CInv, [Next]_vars PROVE CInv'
  OBVIOUS
<1>1. TypeOK' /\ KnowInv'
  BY TypeStep, KnowStep DEF CInv
<1> QED
  BY <1>1, BestStep DEF CInv

\* While levels stay, the best claimants never let go, however late the gossip
\* and whatever of it is lost.
THEOREM BestClaimantsStayCorrect == Spec => []BestClaimantsStay
<1>1. Spec => Init /\ [][Next]_vars
  BY DEF Spec
<1>2. CInv => BestClaimantsStay
  BY DEF CInv
<1> QED
  BY <1>1, <1>2, CInvInit, CInvStep, PTL

\* If a node that claimed has let go, take one with the fewest rivals: its
\* rivals all hold the job, and they are as many as the job asks for.
LEMMA BestCover == CInv => CoverageHolds
<1> SUFFICES ASSUME CInv, fills = 0, crashes = 0, ~ (ever \subseteq Covering)
             PROVE  Cardinality(Covering) >= LeastFactor
  BY DEF CoverageHolds
<1>1. up = Node /\ ever \in SUBSET Node /\ Covering \in SUBSET Node
  BY DEF CInv, KnowInv, UpInv, TypeOK, Covering
<1> DEFINE Left == ever \ Covering
           T == {Rivals(n) : n \in Left}
           R == StrictSubsetOrdering(Node)
<1>2. T # {} /\ T \subseteq FiniteSubsetsOf(Node)
  <2>1. \A n \in Left : Rivals(n) \in SUBSET Node
    BY <1>1 DEF Rivals
  <2>2. FiniteSubsetsOf(Node) = SUBSET Node
    BY ClusterAssumption, FS_FiniteSubsetsOfFinite
  <2>3. Left # {}
    OBVIOUS
  <2> QED
    BY <2>1, <2>2, <2>3
<1>3. IsWellFoundedOn(R, FiniteSubsetsOf(Node))
  BY FS_StrictSubsetOrderingWellFounded, ClusterAssumption
<1>4. \E x \in T : \A y \in T : ~ (<<y, x>> \in R)
  <2> HIDE DEF R, T
  <2> QED
    BY <1>2, <1>3, WFMin
<1>5. PICK n \in Left : \A m \in Left : <<Rivals(m), Rivals(n)>> \notin R
  BY <1>4
<1>6. ASSUME NEW m \in Rivals(n) PROVE m \in Covering
  <2>1. /\ {m, n} \subseteq Node /\ m \in ever
        /\ \A x \in ever : x \in Nat /\ used[x] \in Nat
    BY <1>1, <1>5, <1>6, ClusterAssumption DEF Rivals, CInv, TypeOK
  <2>2. Rivals(m) \subseteq Rivals(n) /\ m \notin Rivals(m)
    BY <1>5, <1>6, <2>1 DEF Rivals, Ahead
  <2>3. <<Rivals(m), Rivals(n)>> \in R
    BY <1>1, <1>6, <2>2 DEF StrictSubsetOrdering, Rivals
  <2> QED
    BY <1>5, <2>1, <2>3
<1>7. Cardinality(Rivals(n)) <= Cardinality(Covering)
  BY <1>1, <1>6, NodeSubsets
<1>8. Cardinality(Rivals(n)) \in Nat /\ Cardinality(Covering) \in Nat
      /\ LeastFactor \in Nat
  BY <1>1, NodeSubsets, ClusterAssumption DEF Rivals, LeastFactor
<1>9. ~ (Cardinality(Rivals(n)) < LeastFactor)
  BY <1>1, <1>5 DEF CInv, BestClaimantsStay, Covering, Rivals
<1> QED
  BY <1>7, <1>8, <1>9

\* Once covered, the job stays covered while levels stay and nodes run.
THEOREM CoverageHoldsCorrect == Spec => []CoverageHolds
<1>1. Spec => Init /\ [][Next]_vars
  BY DEF Spec
<1> QED
  BY <1>1, BestCover, CInvInit, CInvStep, PTL

\* A node that lets go has just counted as many claimants as are asked for.
LEMMA ReleaseCounts ==
    ASSUME TypeOK, KnowInv, [Next]_vars, NEW n \in up \cap up',
           n \in view[n].claimants, n \notin view'[n].claimants
    PROVE  Cardinality(view'[n].claimants \cap Live(view'[n]))
             >= Replication(view'[n])
<1> DEFINE v == WithOwnBeat(n)
           w == view'[n]
           S == {x \in LiveClaimants(v) : Before(v, x, n)}
<1>1. n \in Node /\ Tick(n) /\ MustRelease(v, n)
  BY ClaimKept DEF TypeOK
<1>2. w = Claimed(Released(v, n), n)
  BY <1>1 DEF Tick, TypeOK
<1>3. /\ w.age = v.age /\ w.job = v.job
      /\ w.claimants \ {n} = view[n].claimants \ {n}
  BY <1>1, <1>2, TickView
<1>4. v \in View /\ v.age[n] = 0 /\ v.claimants = view[n].claimants
  BY <1>1, TickViewType, OwnBeat
<1>5. w \in View
  BY <1>1, <1>2, TickViewType
<1> HIDE DEF v, w
<1>6. n \in Live(v) /\ Live(w) = Live(v) /\ Replication(w) = Replication(v)
  BY <1>1, <1>3, <1>4, ClusterAssumption DEF Live, Replication
<1>7. /\ S \in SUBSET Node /\ n \notin S
      /\ Cardinality(S) \in Nat /\ Cardinality(S) >= Replication(v)
  BY <1>1, <1>4, <1>6, ReleaseSees
<1>8. S \subseteq w.claimants \cap Live(w)
  BY <1>3, <1>4, <1>6, <1>7 DEF LiveClaimants
<1>9. w.claimants \cap Live(w) \in SUBSET Node
  BY DEF Live
<1>10. /\ Cardinality(S) <= Cardinality(w.claimants \cap Live(w))
       /\ Cardinality(w.claimants \cap Live(w)) \in Nat
  BY <1>8, <1>9, NodeSubsets
<1>11. Replication(v) \in Nat
  BY ClusterAssumption DEF Replication
<1>12. Cardinality(w.claimants \cap Live(w)) >= Replication(w)
  BY <1>6, <1>7, <1>10, <1>11
<1> QED
  BY <1>12 DEF w

\* No node lets go of the job unless it believes it covered without it.
THEOREM ReleaseLeavesFactorCorrect == Spec => ReleaseLeavesFactor
<1>1. Spec => Init /\ [][Next]_vars
  BY DEF Spec
<1>2. CInv /\ [Next]_vars =>
        \A n \in up \cap up' :
          n \in view[n].claimants /\ n \notin view'[n].claimants =>
            Cardinality(view'[n].claimants \cap Live(view'[n]))
              >= Replication(view'[n])
  BY ReleaseCounts DEF CInv
<1> QED
  BY <1>1, <1>2, CInvInit, CInvStep, PTL DEF ReleaseLeavesFactor

-----------------------------------------------------------------------------
(***************************************************************************)
(* Agreement.                                                              *)
(***************************************************************************)

\* The messages that say who claims, and the last of them in s.
Telling(m) == m.kind \in {"claim", "release"}

LastTelling(s, i) ==
    /\ Telling(s[i])
    /\ \A j \in 1..Len(s) : i < j => ~ Telling(s[j])

\* Who believes `was' of the sender and folds in s ends up believing `is'.
Leads(s, was, is) ==
    /\ \A i \in 1..Len(s) : LastTelling(s, i) => (s[i].kind = "claim" <=> is)
    /\ (\A i \in 1..Len(s) : ~ Telling(s[i])) => (was <=> is)

TellInv ==
    losses = 0 =>
        \A a, b \in up :
            a # b => Leads(chan[a][b], a \in view[b].claimants,
                           a \in view[a].claimants)

LEMMA LeadsNone ==
    ASSUME NEW was, NEW is, was <=> is
    PROVE  Leads(<<>>, was, is)
<1>1. Len(<<>>) = 0
  BY EmptySeq
<1> QED
  BY <1>1 DEF Leads

\* What is said later leads on from what was said before.
LEMMA LeadsOn ==
    ASSUME NEW s \in Seq(Msg), NEW ms \in Seq(Msg), NEW was, NEW mid, NEW is,
           Leads(s, was, mid), Leads(ms, mid, is)
    PROVE  Leads(s \o ms, was, is)
<1> DEFINE t == s \o ms
<1>1. /\ Len(s) \in Nat /\ Len(ms) \in Nat
      /\ Len(t) = Len(s) + Len(ms)
      /\ \A i \in 1..Len(t) : t[i] = IF i <= Len(s) THEN s[i] ELSE ms[i - Len(s)]
  BY ConcatProperties, LenProperties
<1> HIDE DEF t
<1>2. /\ \A i \in 1..Len(s) : i \in 1..Len(t) /\ t[i] = s[i]
      /\ \A i \in 1..Len(ms) : Len(s) + i \in 1..Len(t) /\ t[Len(s) + i] = ms[i]
  BY <1>1
<1>3. ASSUME NEW i \in 1..Len(t), LastTelling(t, i)
      PROVE  t[i].kind = "claim" <=> is
  <2>1. CASE i <= Len(s)
    <3>1. i \in 1..Len(s) /\ t[i] = s[i]
      BY <1>1, <2>1
    <3>2. LastTelling(s, i)
      BY <1>1, <1>2, <1>3, <3>1 DEF LastTelling
    <3>3. \A j \in 1..Len(ms) : ~ Telling(ms[j])
      BY <1>1, <1>2, <1>3, <3>1 DEF LastTelling
    <3> QED
      BY <3>1, <3>2, <3>3 DEF Leads
  <2>2. CASE ~ (i <= Len(s))
    <3> DEFINE k == i - Len(s)
    <3>1. k \in 1..Len(ms) /\ t[i] = ms[k]
      BY <1>1, <2>2
    <3>2. LastTelling(ms, k)
      BY <1>1, <1>2, <1>3, <3>1 DEF LastTelling
    <3> QED
      BY <3>1, <3>2 DEF Leads
  <2> QED
    BY <2>1, <2>2
<1>4. ASSUME \A i \in 1..Len(t) : ~ Telling(t[i]) PROVE was <=> is
  <2>1. \A i \in 1..Len(s) : ~ Telling(s[i])
    BY <1>2, <1>4
  <2>2. \A i \in 1..Len(ms) : ~ Telling(ms[i])
    BY <1>2, <1>4
  <2> QED
    BY <2>1, <2>2 DEF Leads
<1> QED
  BY <1>3, <1>4 DEF Leads, t

\* What a listener believes of the sender once it has heard m.
After(m, was) == m.kind = "claim" \/ (m.kind # "release" /\ was)

\* Folding in the first message leaves the rest to lead on.
LEMMA LeadsRest ==
    ASSUME NEW s \in Seq(Msg), s # <<>>, NEW was, NEW is, Leads(s, was, is)
    PROVE  Leads(Tail(s), After(Head(s), was), is)
<1> DEFINE t == Tail(s)
           now == After(Head(s), was)
<1>1. /\ Len(s) \in Nat \ {0} /\ Len(t) = Len(s) - 1 /\ Head(s) = s[1]
      /\ \A i \in 1..Len(t) : t[i] = s[i + 1]
  BY HeadTailProperties, EmptySeq
<1> HIDE DEF t
<1>2. \A j \in 2..Len(s) : j - 1 \in 1..Len(t) /\ s[j] = t[j - 1]
  BY <1>1
<1>3. ASSUME NEW i \in 1..Len(t), LastTelling(t, i)
      PROVE  t[i].kind = "claim" <=> is
  <2>1. i + 1 \in 1..Len(s) /\ s[i + 1] = t[i]
    BY <1>1
  <2>2. LastTelling(s, i + 1)
    BY <1>1, <1>2, <1>3, <2>1 DEF LastTelling
  <2> QED
    BY <2>1, <2>2 DEF Leads
<1>4. ASSUME \A i \in 1..Len(t) : ~ Telling(t[i]) PROVE now <=> is
  <2>1. \A j \in 1..Len(s) : 1 < j => ~ Telling(s[j])
    BY <1>1, <1>2, <1>4
  <2>2. 1 \in 1..Len(s)
    BY <1>1
  <2>3. CASE Telling(s[1])
    <3>1. s[1].kind = "claim" <=> is
      BY <2>1, <2>2, <2>3 DEF LastTelling, Leads
    <3> QED
      BY <1>1, <2>3, <3>1 DEF After, Telling
  <2>4. CASE ~ Telling(s[1])
    <3>1. was <=> is
      BY <1>1, <2>1, <2>4 DEF Leads
    <3> QED
      BY <1>1, <2>4, <3>1 DEF After, Telling
  <2> QED
    BY <2>3, <2>4
<1> QED
  BY <1>3, <1>4 DEF Leads, t

\* What a tick says leads to what the tick left.
LEMMA SaidLeads ==
    ASSUME TypeOK, NEW n \in Node, NEW r \in BOOLEAN, NEW c \in BOOLEAN,
           NEW was, NEW is, is <=> ((was /\ ~ r) \/ c)
    PROVE  Leads(Said(n, r, c), was, is)
<1>1. CASE r /\ c
  BY <1>1 DEF Said, If, Note, Leads, LastTelling, Telling
<1>2. CASE r /\ ~ c
  BY <1>2 DEF Said, If, Note, Leads, LastTelling, Telling
<1>3. CASE ~ r /\ c
  BY <1>3 DEF Said, If, Note, Leads, LastTelling, Telling
<1>4. CASE ~ r /\ ~ c
  BY <1>4 DEF Said, If, Note, Leads, LastTelling, Telling
<1> QED
  BY <1>1, <1>2, <1>3, <1>4

\* What folding in a message of a does to the claims a view knows.
LEMMA FoldClaims ==
    ASSUME NEW v \in View, NEW a \in Node, NEW m \in Msg
    PROVE  /\ a \in Fold(v, a, m).claimants <=> After(m, a \in v.claimants)
           /\ \A x \in Node \ {a} :
                x \in Fold(v, a, m).claimants <=> x \in v.claimants
BY DEF Fold, View, Msg, After

LEMMA TellInit == Init => TellInv
<1> SUFFICES ASSUME Init, NEW a \in up, NEW b \in up
             PROVE  Leads(chan[a][b], a \in view[b].claimants,
                          a \in view[a].claimants)
  BY DEF TellInv
<1>1. chan[a][b] = <<>> /\ view[a].claimants = {} /\ view[b].claimants = {}
  BY DEF Init, Fresh
<1> QED
  BY <1>1, LeadsNone

\* Steps that leave claims and gossip between running nodes alone.
LEMMA TellSame ==
    ASSUME TypeOK, TellInv, losses' = 0 => losses = 0, up' \subseteq up,
           \A a, b \in up' : /\ chan'[a][b] = chan[a][b]
                             /\ a \in view'[b].claimants <=>
                                  a \in view[b].claimants
    PROVE  TellInv'
<1> SUFFICES ASSUME losses' = 0, NEW a \in up', NEW b \in up', a # b
             PROVE  Leads(chan'[a][b], a \in view'[b].claimants,
                          a \in view'[a].claimants)
  BY DEF TellInv
<1>1. Leads(chan[a][b], a \in view[b].claimants, a \in view[a].claimants)
  BY DEF TellInv
<1>2. /\ chan'[a][b] = chan[a][b]
      /\ a \in view'[b].claimants <=> a \in view[b].claimants
      /\ a \in view'[a].claimants <=> a \in view[a].claimants
  OBVIOUS
<1> QED
  BY <1>1, <1>2 DEF Leads

\* Steps in which n publishes what its own view has come to.
LEMMA TellMore ==
    ASSUME TypeOK, TellInv, losses' = losses, up' = up, NEW n \in Node,
           NEW ms \in Seq(Msg), Publish(n, ms),
           Leads(ms, n \in view[n].claimants, n \in view'[n].claimants),
           \A a, b \in up : a # n \/ b # n =>
               (a \in view'[b].claimants <=> a \in view[b].claimants)
    PROVE  TellInv'
<1> SUFFICES ASSUME losses' = 0, NEW a \in up', NEW b \in up', a # b
             PROVE  Leads(chan'[a][b], a \in view'[b].claimants,
                          a \in view'[a].claimants)
  BY DEF TellInv
<1>1. Leads(chan[a][b], a \in view[b].claimants, a \in view[a].claimants)
  BY DEF TellInv
<1>2. a \in view'[b].claimants <=> a \in view[b].claimants
  OBVIOUS
<1>3. a \in Node /\ b \in Node /\ chan[a][b] \in Seq(Msg)
  BY DEF TypeOK
<1>4. chan'[a][b] = IF a = n /\ b \in up \ {n}
                    THEN chan[a][b] \o ms ELSE chan[a][b]
  BY <1>3, PublishAdds
<1>5. CASE a = n
  <2>1. chan'[a][b] = chan[a][b] \o ms
    BY <1>4, <1>5
  <2>2. Leads(chan[a][b] \o ms, a \in view[b].claimants,
              a \in view'[a].claimants)
    BY <1>1, <1>3, <1>5, LeadsOn
  <2> QED
    BY <1>2, <2>1, <2>2 DEF Leads
<1>6. CASE a # n
  <2>1. chan'[a][b] = chan[a][b]
    BY <1>4, <1>6
  <2>2. a \in view'[a].claimants <=> a \in view[a].claimants
    BY <1>6
  <2> QED
    BY <1>1, <1>2, <2>1, <2>2 DEF Leads
<1> QED
  BY <1>5, <1>6

LEMMA TellStep ==
    ASSUME TypeOK, KnowInv, TellInv, [Next]_vars
    PROVE  TellInv'
<1>1. ASSUME NEW n \in Node, Announce(n) PROVE TellInv'
  <2> DEFINE ms == <<Note("job", n)>>
  <2>1. ms \in Seq(Msg) /\ Len(ms) = 1 /\ ms[1].kind = "job"
    BY DEF Note, Msg, TypeOK
  <2>2. Publish(n, ms) /\ losses' = losses /\ up' = up
    BY <1>1 DEF Announce, counts
  <2> HIDE DEF ms
  <2>3. \A m \in Node : view'[m].claimants = view[m].claimants
    BY <1>1 DEF Announce, TypeOK, View
  <2>4. Leads(ms, n \in view[n].claimants, n \in view'[n].claimants)
    BY <2>1, <2>3 DEF Leads, LastTelling, Telling
  <2>5. up \subseteq Node
    BY DEF TypeOK
  <2> QED
    BY <2>1, <2>2, <2>3, <2>4, <2>5, TellMore
<1>2. ASSUME NEW n \in Node, Tick(n) PROVE TellInv'
  <2> DEFINE v == WithOwnBeat(n)
             v1 == Released(v, n)
             r == MustRelease(v, n)
             c == n \in Claimers(v1)
             w == Claimed(v1, n)
  <2>1. Publish(n, Said(n, r, c)) /\ losses' = losses /\ up' = up
    BY <1>2 DEF Tick, Said, counts
  <2>2. r \in BOOLEAN /\ c \in BOOLEAN
    BY DEF MustRelease
  <2>3. \A m \in Node : view'[m] = IF m = n THEN w ELSE view[m]
    BY <1>2 DEF Tick, TypeOK
  <2>4. /\ w.claimants \ {n} = view[n].claimants \ {n}
        /\ n \in w.claimants <=> (n \in view[n].claimants /\ ~ r) \/ c
    BY TickView
  <2> HIDE DEF r, c, w
  <2>5. Said(n, r, c) \in Seq(Msg)
    BY <2>2, SaidType
  <2>6. Leads(Said(n, r, c), n \in view[n].claimants, n \in view'[n].claimants)
    BY <2>2, <2>3, <2>4, SaidLeads
  <2>7. up \subseteq Node
    BY DEF TypeOK
  <2>8. \A a, b \in up : a # n \/ b # n =>
            (a \in view'[b].claimants <=> a \in view[b].claimants)
    BY <2>3, <2>4, <2>7
  <2> QED
    BY <2>1, <2>5, <2>6, <2>8, TellMore
<1>3. ASSUME NEW a \in Node, NEW b \in Node, Deliver(a, b) PROVE TellInv'
  <2> DEFINE s == chan[a][b]
             m == Head(s)
  <2>1. a # b /\ m \in Msg
    BY <1>3, ChanTakes DEF Deliver, counts, KnowInv
  <2>2. s \in Seq(Msg) /\ s # <<>> /\ view[b] \in View
    BY <1>3 DEF Deliver, TypeOK
  <2>3. \A n \in Node : view'[n] = IF n = b THEN Fold(view[b], a, m) ELSE view[n]
    BY <1>3 DEF Deliver, TypeOK
  <2>4. \A c, d \in Node :
          chan'[c][d] = IF c = a /\ d = b THEN Tail(s) ELSE chan[c][d]
    BY <1>3 DEF Deliver, TypeOK
  <2>5. losses' = losses /\ up' = up /\ up \subseteq Node
    BY <1>3 DEF Deliver, counts, TypeOK
  <2> HIDE DEF s, m
  <2>6. /\ a \in view'[b].claimants <=> After(m, a \in view[b].claimants)
        /\ \A c, d \in Node : c # a \/ d # b =>
             (c \in view'[d].claimants <=> c \in view[d].claimants)
    BY <2>1, <2>2, <2>3, FoldClaims
  <2>7. ASSUME losses' = 0, NEW c \in up', NEW d \in up', c # d
        PROVE  Leads(chan'[c][d], c \in view'[d].claimants,
                     c \in view'[c].claimants)
    <3>1. Leads(chan[c][d], c \in view[d].claimants, c \in view[c].claimants)
      BY <2>5, <2>7 DEF TellInv
    <3>2. c \in view'[c].claimants <=> c \in view[c].claimants
      BY <2>1, <2>5, <2>6
    <3>3. CASE c = a /\ d = b
      <4>1. Leads(Tail(s), After(m, c \in view[d].claimants),
                  c \in view[c].claimants)
        BY <2>2, <3>1, <3>3, LeadsRest DEF s, m
      <4>2. chan'[c][d] = Tail(s)
        BY <2>4, <3>3
      <4>3. c \in view'[d].claimants <=> After(m, c \in view[d].claimants)
        BY <2>6, <3>3
      <4> QED
        BY <3>2, <4>1, <4>2, <4>3 DEF Leads
    <3>4. CASE ~ (c = a /\ d = b)
      <4>1. chan'[c][d] = chan[c][d]
        BY <2>4, <2>5, <3>4
      <4>2. c \in view'[d].claimants <=> c \in view[d].claimants
        BY <2>5, <2>6, <3>4
      <4> QED
        BY <3>1, <3>2, <4>1, <4>2 DEF Leads
    <3> QED
      BY <3>3, <3>4
  <2> QED
    BY <2>7 DEF TellInv
<1>4. ASSUME NEW a \in Node, NEW b \in Node, Lose(a, b) PROVE TellInv'
  <2>1. losses' # 0
    BY <1>4 DEF Lose, TypeOK
  <2> QED
    BY <2>1 DEF TellInv
<1>5. ASSUME NEW a \in Node, NEW b \in Node, Vanish(a, b) PROVE TellInv'
  <2>1. \A c, d \in up : chan'[c][d] = chan[c][d]
    BY <1>5 DEF Vanish, TypeOK
  <2> QED
    BY <1>5, <2>1, TellSame DEF Vanish, counts
<1>6. ASSUME Pass PROVE TellInv'
  <2>1. \A n \in Node : view'[n].claimants = view[n].claimants
    BY <1>6 DEF Pass, TypeOK, View
  <2>2. up \subseteq Node
    BY DEF TypeOK
  <2> QED
    BY <1>6, <2>1, <2>2, TellSame DEF Pass
<1>7. ASSUME NEW n \in Node, NEW l \in Level, Fill(n, l) PROVE TellInv'
  BY <1>7, TellSame DEF Fill
<1>8. ASSUME NEW n \in Node, Crash(n) PROVE TellInv'
  <2>1. up' \subseteq Node /\ up' \subseteq up /\ n \notin up'
    BY <1>8 DEF Crash, TypeOK
  <2>2. \A a, b \in up' : chan'[a][b] = chan[a][b] /\ view'[b] = view[b]
    BY <1>8, <2>1 DEF Crash, TypeOK
  <2> QED
    BY <1>8, <2>1, <2>2, TellSame DEF Crash
<1>9. ASSUME UNCHANGED vars PROVE TellInv'
  BY <1>9, TellSame DEF vars, counts
<1> QED
  BY <1>1, <1>2, <1>3, <1>4, <1>5, <1>6, <1>7, <1>8, <1>9 DEF Next, Environment

\* A peer that has heard all of a node's gossip believes of it what it does.
THEOREM AgreeOnceHeardCorrect == Spec => []AgreeOnceHeard
<1>1. Spec => Init /\ [][Next]_vars
  BY DEF Spec
<1>2. CInv /\ TellInv /\ [Next]_vars => TellInv'
  BY TellStep DEF CInv
<1>3. TellInv => AgreeOnceHeard
  <2>1. Len(<<>>) = 0
    BY EmptySeq
  <2> QED
    BY <2>1 DEF TellInv, Leads, AgreeOnceHeard
<1> QED
  BY <1>1, <1>2, <1>3, CInvInit, CInvStep, TellInit, PTL
=============================================================================
