------------------------- MODULE ErasureReadProofs -------------------------
(***************************************************************************)
(* What the lock-free reads of ErasureStore answer, for every K of N, any  *)
(* number of threads, wires, calls and faults; and that until the first    *)
(* fault the store implements Register.                                    *)
(***************************************************************************)
EXTENDS ErasureStoreProofs, ErasureReads, WellFoundedInduction

(***************************************************************************)
(* Rebuilding while an overwrite is under way.                             *)
(***************************************************************************)

\* A group of stripes has a first one.
LEMMA FirstIs ==
    ASSUME NEW g \in SUBSET Stripe, g # {}
    PROVE  First(g) \in g
<1> DEFINE R == OpToRel(<, Nat)
<1>1. g \subseteq Nat
  BY CodingAssumption DEF Stripe
<1>2. PICK i \in g : \A j \in g : ~ (<<j, i>> \in R)
  BY <1>1, NatLessThanWellFounded, WFMin
<1>3. \A j \in g : ~ (j < i)
  BY <1>1, <1>2 DEF OpToRel
<1>4. \A j \in g : i <= j
  BY <1>1, <1>3
<1> QED
  BY <1>4 DEF First

\* Of two groups that have no stripe in common, just one outranks the other.
LEMMA OneOutranks ==
    ASSUME NEW g \in SUBSET Stripe, NEW h \in SUBSET Stripe,
           g # {}, h # {}, g \cap h = {}
    PROVE  Outranks(g, h) <=> ~ Outranks(h, g)
<1>1. First(g) \in g /\ First(h) \in h
  BY FirstIs
<1>2. First(g) # First(h) /\ First(g) \in Nat /\ First(h) \in Nat
  <2>1. Stripe \subseteq Nat
    BY CodingAssumption DEF Stripe
  <2> QED
    BY <1>1, <2>1
<1>3. Cardinality(g) \in Nat /\ Cardinality(h) \in Nat
  BY StripeSubsets
<1> DEFINE fg == First(g)  fh == First(h)
           cg == Cardinality(g)  ch == Cardinality(h)
<1>4. /\ Outranks(g, h) <=> (cg > ch \/ (cg = ch /\ fg > fh))
      /\ Outranks(h, g) <=> (ch > cg \/ (ch = cg /\ fh > fg))
  BY Zenon DEF Outranks
<1>5. fg # fh /\ fg \in Nat /\ fh \in Nat /\ cg \in Nat /\ ch \in Nat
  BY <1>2, <1>3
<1> HIDE DEF fg, fh, cg, ch
<1>6. (cg > ch \/ (cg = ch /\ fg > fh)) <=> ~ (ch > cg \/ (ch = cg /\ fh > fg))
  BY <1>5
<1> QED
  BY <1>4, <1>6, Zenon

\* Two wires among N stripes of which 2K - 1 are sound: at least one of them
\* is in K stripes, and one of them wins.
LEMMA RebuildOneOfTwo ==
    ASSUME K > 1, NEW v, NEW a \in Wire, NEW b \in Wire, a # b,
           NEW S \in SUBSET Stripe, N - Cardinality(S) >= 2 * K - 1,
           \A i \in Stripe : v[i] \in {a, b} \cup Spoilt,
           \A i \in Stripe \ S : v[i] \in {a, b}
    PROVE  Assemble(v) \in {a, b}
<1> DEFINE A == Holders(v, a)
           B == Holders(v, b)
<1>1. A \in SUBSET Stripe /\ B \in SUBSET Stripe /\ A \cap B = {}
  BY DEF Holders
<1>2. /\ IsFiniteSet(A) /\ Cardinality(A) \in Nat
      /\ IsFiniteSet(B) /\ Cardinality(B) \in Nat
  BY <1>1, StripeSubsets
<1>3. Cardinality(A) + Cardinality(B) >= 2 * K - 1
  <2>1. /\ IsFiniteSet(Stripe) /\ Cardinality(Stripe) = N
        /\ IsFiniteSet(S) /\ Cardinality(S) \in Nat
    <3>1. IsFiniteSet(Stripe) /\ Cardinality(Stripe) = N
      BY CodingAssumption, FS_Interval DEF Stripe
    <3> QED
      BY <3>1, StripeSubsets
  <2>2. Cardinality(Stripe \ S) = N - Cardinality(Stripe \cap S)
    BY <2>1, FS_Difference
  <2>3. Stripe \cap S = S
    OBVIOUS
  <2>4. Stripe \ S \subseteq A \cup B
    BY DEF Holders
  <2>5. /\ IsFiniteSet(A \cup B)
        /\ Cardinality(A \cup B)
             = Cardinality(A) + Cardinality(B) - Cardinality(A \cap B)
    BY <1>2, FS_Union
  <2>6. Cardinality(A \cap B) = 0
    BY <1>1, FS_EmptySet
  <2>7. Cardinality(Stripe \ S) <= Cardinality(A \cup B)
    BY <2>4, <2>5, FS_Subset
  <2>8. Cardinality(Stripe \ S) = N - Cardinality(S)
    BY <2>2, <2>3
  <2> HIDE DEF A, B
  <2> QED
    BY <1>2, <2>1, <2>5, <2>6, <2>7, <2>8, CodingAssumption
<1>4. Cardinality(A) >= K \/ Cardinality(B) >= K
  <2> HIDE DEF A, B
  <2> QED
    BY <1>2, <1>3, CodingAssumption
<1>5. ASSUME NEW g \in Quorate(v) PROVE g = A \/ g = B
  <2>1. g \in Groups(v) /\ Cardinality(g) >= K
    BY DEF Quorate
  <2>2. CASE \E i \in Holders(v, BadHead) : g = {i}
    <3>1. Cardinality(g) = 1
      BY <2>2, FS_Singleton
    <3> QED
      BY <2>1, <3>1, CodingAssumption
  <2>3. CASE \E x \in Wire : g = Holders(v, x)
    <3>1. PICK x \in Wire : g = Holders(v, x)
      BY <2>3
    <3>2. g # {}
      <4>1. SUFFICES ASSUME g = {} PROVE FALSE
        OBVIOUS
      <4>2. Cardinality(g) = 0
        BY <4>1, FS_EmptySet
      <4> QED
        BY <2>1, <4>2, CodingAssumption
    <3>3. x = a \/ x = b
      BY <3>1, <3>2, ValueAssumption DEF Holders, Spoilt
    <3> QED
      BY <3>1, <3>3
  <2> QED
    BY <2>1, <2>2, <2>3 DEF Groups
<1>6. /\ A \in Quorate(v) <=> Cardinality(A) >= K
      /\ B \in Quorate(v) <=> Cardinality(B) >= K
  BY DEF Quorate, Groups
<1>7. \A g \in Quorate(v) : g # {}
  <2>1. Cardinality({}) = 0
    BY FS_EmptySet
  <2> QED
    BY <2>1, CodingAssumption DEF Quorate
<1>8. Winning(v) = {A} \/ Winning(v) = {B}
  <2> HIDE DEF A, B
  <2>1. CASE A \in Quorate(v) /\ B \notin Quorate(v)
    BY <1>5, <2>1 DEF Winning
  <2>2. CASE B \in Quorate(v) /\ A \notin Quorate(v)
    BY <1>5, <2>2 DEF Winning
  <2>3. CASE A \in Quorate(v) /\ B \in Quorate(v)
    <3>1. A # {} /\ B # {} /\ A # B
      BY <1>1, <1>7, <2>3
    <3>2. Outranks(A, B) <=> ~ Outranks(B, A)
      BY <1>1, <3>1, OneOutranks
    <3>3. Quorate(v) = {A, B}
      BY <1>5, <2>3
    <3>4. A \in Winning(v) <=> Outranks(A, B)
      BY <3>1, <3>3 DEF Winning
    <3>5. B \in Winning(v) <=> Outranks(B, A)
      BY <3>1, <3>3 DEF Winning
    <3>6. Winning(v) \subseteq {A, B}
      BY <3>3 DEF Winning
    <3> QED
      BY <3>2, <3>4, <3>5, <3>6
  <2> QED
    BY <1>4, <1>6, <2>1, <2>2, <2>3
<1>9. \A g \in Winning(v) : g # {}
  BY <1>7 DEF Winning
<1>10. \A x \in Wire : Holders(v, x) \in Winning(v) => x = a \/ x = b
  BY <1>8, <1>9 DEF Holders
<1>11. \E x \in Wire : Holders(v, x) \in Winning(v)
  BY <1>8
<1> QED
  BY <1>10, <1>11 DEF Assemble
-----------------------------------------------------------------------------
(***************************************************************************)
(* The packets the store may rightly hold, and the stripes that are hurt.  *)
(***************************************************************************)

\* There is always a rightful packet, and never infinitely many.
LegalInv ==
    /\ legal # {} /\ IsFiniteSet(legal) /\ IsFiniteSet(hist)
    /\ \A t \in Thread : IsFiniteSet(seen[t])

\* An operation counts every damaged stripe as hurt, and runs in a running
\* process.
HurtInv == \A t \in Thread : pc[t] # "idle" => up /\ damaged \subseteq hurt[t]

LInv == IInv /\ LegalInv /\ HurtInv

LEMMA LInvInit == Init => LInv
<1> SUFFICES ASSUME Init PROVE LegalInv /\ HurtInv
  BY IInvInit DEF LInv
<1>1. IsFiniteSet({None}) /\ IsFiniteSet({})
  BY FS_Singleton, FS_EmptySet
<1> QED
  BY <1>1 DEF Init, LegalInv, HurtInv

LEMMA LegalStep == IInv /\ LegalInv /\ [Next]_vars => LegalInv'
<1> SUFFICES ASSUME IInv, LegalInv, [Next]_vars PROVE LegalInv'
  OBVIOUS
<1>0. TypeOK /\ DiskInv /\ legal \subseteq hist
  BY DEF IInv, DiskInv
<1>15. \A x, y : IsFiniteSet(x) /\ IsFiniteSet(y) => IsFiniteSet(x \cup y)
  BY FS_Union
<1>16. \A x : IsFiniteSet({x})
  BY FS_Singleton
<1>17. IsFiniteSet({})
  BY FS_EmptySet
<1>1. CASE UNCHANGED <<legal, hist, seen>>
  BY <1>1 DEF LegalInv
<1>2. ASSUME NEW t \in Thread, LockWrite(t) PROVE LegalInv'
  <2>1. legal' = legal \cup {arg[t]} /\ hist' = hist \cup {arg[t]}
    BY <1>2 DEF LockWrite
  <2>2. IsFiniteSet(legal') /\ IsFiniteSet(hist')
    BY <1>15, <1>16, <2>1 DEF LegalInv
  <2>3. ASSUME NEW u \in Thread PROVE IsFiniteSet(seen'[u])
    <3>1. seen'[u] = IF u \in Busy THEN seen[u] \cup legal' ELSE {}
      BY <1>2 DEF LockWrite
    <3> QED
      BY <1>15, <1>17, <2>2, <3>1 DEF LegalInv
  <2>4. legal' # {}
    BY <2>1
  <2> QED
    BY <2>2, <2>3, <2>4 DEF LegalInv
<1>3. ASSUME NEW t \in Thread, FinishWrite(t) PROVE LegalInv'
  <2>1. /\ legal' = IF ok[t] THEN {arg[t]} ELSE legal
        /\ UNCHANGED <<hist, seen>>
    BY <1>3 DEF FinishWrite
  <2> QED
    BY <1>16, <2>1 DEF LegalInv
<1>4. ASSUME NEW t \in Thread, FinishSync(t) PROVE LegalInv'
  <2>1. /\ hist' = IF ok[t] THEN hist \cap seen[t] ELSE hist
        /\ UNCHANGED <<legal, seen>>
    BY <1>4 DEF FinishSync
  <2>2. IsFiniteSet(hist \cap seen[t])
    BY FS_Subset DEF LegalInv
  <2> QED
    BY <2>1, <2>2 DEF LegalInv
<1>5. ASSUME NEW t \in Thread, Return(t) PROVE LegalInv'
  <2>1. seen' = [seen EXCEPT ![t] = {}] /\ UNCHANGED <<legal, hist>>
    BY <1>5 DEF Return
  <2> QED
    BY <1>0, <1>17, <2>1 DEF LegalInv, TypeOK
<1>6. ASSUME NEW t \in Thread, seen' = [seen EXCEPT ![t] = legal],
             UNCHANGED <<legal, hist>>
      PROVE  LegalInv'
  BY <1>0, <1>6 DEF LegalInv, TypeOK
<1>7. CASE Kill
  BY <1>17, <1>7 DEF Kill, Stop, LegalInv
<1>8. CASE PowerLoss
  BY <1>0, <1>17, <1>8 DEF PowerLoss, Stop, LegalInv
<1>9. ASSUME NEW t \in Thread, Proceed(t) PROVE LegalInv'
  <2>1. CASE LockWrite(t) \/ FinishWrite(t) \/ FinishSync(t) \/ Return(t)
    BY <1>2, <1>3, <1>4, <1>5, <2>1
  <2>2. CASE ~ (LockWrite(t) \/ FinishWrite(t) \/ FinishSync(t) \/ Return(t))
    <3>1. UNCHANGED <<legal, hist, seen>>
      BY <1>9, <2>2
         DEF Proceed, ReadStripe, JudgeGet, JudgeContains, Rejudge, MendStripe,
             FinishMend, WriteStripe, SyncStripe, ghosts
    <3> QED
      BY <1>1, <3>1
  <2> QED
    BY <2>1, <2>2
<1>10. ASSUME NEW t \in Thread, Call(t) PROVE LegalInv'
  <2>1. CASE \E w \in Wire : RefuseInsert(t, w)
    <3>1. UNCHANGED <<legal, hist, seen>>
      BY <2>1 DEF RefuseInsert
    <3> QED
      BY <1>1, <3>1
  <2>2. CASE ~ \E w \in Wire : RefuseInsert(t, w)
    <3>1. seen' = [seen EXCEPT ![t] = legal] /\ UNCHANGED <<legal, hist>>
      BY <1>10, <2>2
         DEF Call, BeginGet, BeginContains, BeginRemove, BeginSync, BeginInsert, Begin
    <3> QED
      BY <1>6, <3>1
  <2> QED
    BY <2>1, <2>2
<1>11. ASSUME NEW t \in Thread, BackendFails(t) PROVE LegalInv'
  <2>1. UNCHANGED <<legal, hist, seen>>
    BY <1>11
       DEF BackendFails, ReadStripeFails, WriteStripeFails, SyncStripeFails, ghosts
  <2> QED
    BY <1>1, <2>1
<1>12. ASSUME NEW i \in Stripe, LoseStripe(i) \/ BitRot(i) PROVE LegalInv'
  BY <1>1, <1>12 DEF LoseStripe, BitRot
<1>13. CASE Open
  BY <1>1, <1>13 DEF Open, ghosts
<1>14. CASE UNCHANGED vars
  BY <1>1, <1>14 DEF vars
<1> QED
  BY <1>7, <1>8, <1>9, <1>10, <1>11, <1>12, <1>13, <1>14 DEF Next, Befall

LEMMA HurtStep == IInv /\ HurtInv /\ [Next]_vars => HurtInv'
<1> SUFFICES ASSUME IInv, HurtInv, [Next]_vars PROVE HurtInv'
  OBVIOUS
<1>0. TypeOK
  BY DEF IInv
<1>1. ASSUME UNCHANGED <<up, hurt>>, damaged' \subseteq damaged,
             \A u \in Thread : pc'[u] # "idle" => pc[u] # "idle"
      PROVE  HurtInv'
  BY <1>1 DEF HurtInv
<1>2. ASSUME NEW t \in Thread, Proceed(t) PROVE HurtInv'
  <2>1. CASE Return(t)
    BY <1>0, <2>1 DEF Return, Goto, store, TypeOK, HurtInv
  <2>2. CASE ~ Return(t)
    <3>1. UNCHANGED <<up, hurt>> /\ damaged' \subseteq damaged
      BY <1>2, <2>2
         DEF Proceed, ReadStripe, JudgeGet, JudgeContains, Rejudge, MendStripe,
             FinishMend, LockWrite, WriteStripe, FinishWrite, SyncStripe,
             FinishSync, Put, ghosts, store
    <3>2. pc[t] # "idle" /\ \A u \in Thread \ {t} : pc'[u] = pc[u]
      BY <1>0, <1>2, <2>2
         DEF Proceed, ReadStripe, JudgeGet, JudgeContains, Rejudge, MendStripe,
             FinishMend, LockWrite, WriteStripe, FinishWrite, SyncStripe,
             FinishSync, Goto, TypeOK
    <3> QED
      BY <1>1, <3>1, <3>2
  <2> QED
    BY <2>1, <2>2
<1>3. ASSUME NEW t \in Thread, Call(t) PROVE HurtInv'
  <2>1. CASE \E w \in Wire : RefuseInsert(t, w)
    <3>1. UNCHANGED <<up, hurt, damaged, pc>>
      BY <2>1 DEF RefuseInsert, threads
    <3> QED
      BY <1>1, <3>1
  <2>2. CASE ~ \E w \in Wire : RefuseInsert(t, w)
    <3>1. /\ up /\ UNCHANGED <<up, damaged>>
          /\ hurt' = [hurt EXCEPT ![t] = damaged]
          /\ \A u \in Thread \ {t} : pc'[u] = pc[u]
      BY <1>0, <1>3, <2>2
         DEF Call, BeginGet, BeginContains, BeginRemove, BeginSync, BeginInsert,
             Begin, store, TypeOK
    <3> QED
      BY <1>0, <3>1 DEF TypeOK, HurtInv
  <2> QED
    BY <2>1, <2>2
<1>4. ASSUME NEW t \in Thread, BackendFails(t) PROVE HurtInv'
  <2>1. CASE ReadStripeFails(t)
    BY <1>0, <2>1 DEF ReadStripeFails, store, TypeOK, HurtInv
  <2>2. CASE WriteStripeFails(t) \/ SyncStripeFails(t)
    <3>1. UNCHANGED <<up, hurt, damaged, pc>>
      BY <2>2 DEF WriteStripeFails, SyncStripeFails, ghosts, store
    <3> QED
      BY <1>1, <3>1
  <2> QED
    BY <1>4, <2>1, <2>2 DEF BackendFails
<1>5. CASE Kill \/ PowerLoss
  BY <1>5 DEF Kill, PowerLoss, Stop, HurtInv
<1>6. ASSUME NEW i \in Stripe, LoseStripe(i) PROVE HurtInv'
  BY <1>6 DEF LoseStripe, threads, HurtInv
<1>7. ASSUME NEW i \in Stripe, BitRot(i) PROVE HurtInv'
  BY <1>7 DEF BitRot, Busy, HurtInv
<1>8. CASE Open
  BY <1>8 DEF Open, threads, ghosts, HurtInv
<1>9. CASE UNCHANGED vars
  BY <1>9 DEF vars, HurtInv
<1> QED
  BY <1>2, <1>3, <1>4, <1>5, <1>6, <1>7, <1>8, <1>9 DEF Next, Befall

LEMMA LInvCorrect == Spec => []LInv
<1>1. Spec => Init /\ [][Next]_vars
  BY DEF Spec
<1>2. LInv /\ [Next]_vars => LInv'
  BY IInvStep, LegalStep, HurtStep DEF LInv
<1> QED
  BY <1>1, <1>2, LInvInit, PTL

\* A set of packets with at most two members, and not none, is one or two.
LEMMA OneOrTwo ==
    ASSUME NEW s, s # {}, IsFiniteSet(s), Cardinality(s) <= 2
    PROVE  \E a, b \in s : s = {a, b}
<1>1. PICK a \in s : TRUE
  OBVIOUS
<1>2. CASE s = {a}
  BY <1>2
<1>3. CASE s # {a}
  <2>1. PICK b \in s : b # a
    BY <1>1, <1>3
  <2>2. ASSUME NEW c \in s, c # a, c # b PROVE FALSE
    <3>1. IsFiniteSet(s \ {a}) /\ Cardinality(s \ {a}) = Cardinality(s) - 1
      BY <1>1, FS_RemoveElement
    <3>2. /\ IsFiniteSet((s \ {a}) \ {b})
          /\ Cardinality((s \ {a}) \ {b}) = Cardinality(s \ {a}) - 1
      BY <2>1, <3>1, FS_RemoveElement
    <3>3. /\ IsFiniteSet(((s \ {a}) \ {b}) \ {c})
          /\ Cardinality(((s \ {a}) \ {b}) \ {c}) = Cardinality((s \ {a}) \ {b}) - 1
      BY <2>2, <3>2, FS_RemoveElement
    <3>4. /\ Cardinality(s) \in Nat
          /\ Cardinality(((s \ {a}) \ {b}) \ {c}) \in Nat
      BY <3>3, FS_CardinalityType
    <3> QED
      BY <3>1, <3>2, <3>3, <3>4
  <2> QED
    BY <1>1, <2>1, <2>2
<1> QED
  BY <1>2, <1>3

\* Records that hold the packets of l, two at most, but in a few spoilt stripes
\* rebuild one of them.
LEMMA RebuildOneOf ==
    ASSUME K > 1, NEW m, NEW l \in SUBSET Wire,
           l # {}, IsFiniteSet(l), Cardinality(l) <= 2,
           NEW S \in SUBSET Stripe, N - Cardinality(S) >= 2 * K - 1,
           \A i \in Stripe : m[i] \in l \cup Spoilt,
           \A i \in Stripe \ S : m[i] \in l
    PROVE  Assemble(m) \in l
<1>1. PICK a, b \in l : l = {a, b}
  BY OneOrTwo
<1>2. Cardinality(S) \in Nat
  BY StripeSubsets
<1>3. /\ \A i \in Stripe : m[i] \in {a, b} \cup Spoilt
      /\ \A i \in Stripe \ S : m[i] \in {a, b}
  BY <1>1
<1>4. CASE a = b
  <2>1. Cardinality(S) <= N - K
    BY <1>2, CodingAssumption
  <2>2. Assemble(m) = a
    BY <1>1, <1>2, <1>3, <1>4, <2>1, RebuildFromK
  <2> QED
    BY <2>2
<1>5. CASE a # b
  BY <1>1, <1>2, <1>3, <1>5, RebuildOneOfTwo
<1> QED
  BY <1>4, <1>5

\* Whatever cuts an overwrite short, one of the two packets can be read from
\* 2K - 1 sound stripes.
THEOREM OneOverwriteKeepsOneCorrect == Spec => []OneOverwriteKeepsOne
<1>1. ASSUME LInv PROVE OneOverwriteKeepsOne
  <2> SUFFICES ASSUME K > 1, legal \subseteq Wire, Cardinality(legal) <= 2,
                      N - Cardinality(damaged) >= 2 * K - 1
               PROVE  Assemble(mem) \in legal
    BY DEF OneOverwriteKeepsOne
  <2>1. damaged \in SUBSET Stripe /\ legal # {} /\ IsFiniteSet(legal)
    BY <1>1 DEF LInv, LegalInv, IInv, TypeOK
  <2>2. /\ \A i \in Stripe : mem[i] \in legal \cup Spoilt
        /\ \A i \in Stripe \ damaged : mem[i] \in legal
    BY <1>1 DEF LInv, IInv, MemInv
  <2> QED
    BY <2>1, <2>2, RebuildOneOf
<1> QED
  BY <1>1, LInvCorrect, PTL
-----------------------------------------------------------------------------
(***************************************************************************)
(* What a read answers.                                                    *)
(***************************************************************************)

\* Records read while the store might hold the packets of s and the stripes of
\* h were hurt: those of any other stripe are rightful.
Faithful(v, s, h) ==
    /\ v \in [Stripe -> Cell]
    /\ \A i \in Stripe : v[i] \in s \cup Spoilt /\ (i \notin h => v[i] \in s)

\* What a read has gathered so far is faithful to the time of the read.
ViewInv(t) ==
    pc[t] = "read" =>
        \A i \in Stripe : i < nxt[t] /\ i \notin hurt[t] => view[t][i] \in seen[t]

\* A read's answer is that of records faithful to its time.
AnswerInv(t) ==
    /\ op[t] = "get" /\ pc[t] \in {"repair", "mend", "done"} =>
         \E v : Faithful(v, seen[t], hurt[t]) /\ out[t] = Assemble(v)
    /\ op[t] = "contains" /\ pc[t] = "done" =>
         \E v : Faithful(v, seen[t], hurt[t]) /\ out[t] = Contains(v)

\* A get that met no fault: a shard it saw is still there, what it has passed
\* in its repair is sound, and when it is done nothing is damaged.
HealInv(t) ==
    K > 1 /\ op[t] = "get" /\ ok[t] =>
        /\ pc[t] \in {"read", "repair"} =>
             \A i \in Stripe : view[t][i] \in Wire => i \notin damaged
        /\ pc[t] = "repair" => out[t] = Assemble(view[t])
        /\ pc[t] = "mend" =>
             \A i \in Stripe :
                 i < nxt[t] \/ view[t][i] = arg[t] => i \notin damaged
        /\ pc[t] = "done" /\ out[t] # None /\ seen[t] \subseteq {out[t]} =>
             damaged = {}

\* A step that is not thread t's leaves it where it is, or ends it.
Untouched(t) ==
    /\ pc'[t] = pc[t] /\ op'[t] = op[t] /\ arg'[t] = arg[t] /\ nxt'[t] = nxt[t]
    /\ view'[t] = view[t] /\ out'[t] = out[t]
    /\ pc[t] # "idle" => seen[t] \subseteq seen'[t] /\ hurt[t] \subseteq hurt'[t]
    /\ op[t] = "get" /\ ok'[t] => ok[t] /\ damaged' \subseteq damaged

\* The steps of a read, from its call to its return.
ReaderStep(t) ==
    \/ BeginGet(t) \/ BeginContains(t)
    \/ ReadStripe(t) \/ ReadStripeFails(t) \/ JudgeGet(t) \/ JudgeContains(t)
    \/ Rejudge(t) \/ MendStripe(t) \/ FinishMend(t)
    \/ pc[t] = "mend" /\ WriteStripeFails(t)

Reading(t) == op[t] \in {"get", "contains"} /\ pc[t] # "idle"

LEMMA ReaderOrUntouched ==
    ASSUME LInv, [Next]_vars, NEW t \in Thread, Reading(t)'
    PROVE  ReaderStep(t) \/ Untouched(t)
<1>0. TypeOK /\ LabelInv /\ HurtInv
  BY DEF LInv, IInv
<1>1. ASSUME NEW u \in Thread, Proceed(u) PROVE ReaderStep(t) \/ Untouched(t)
  <2>1. CASE u = t
    BY <1>0, <1>1, <2>1
       DEF Proceed, ReaderStep, Reading, LockWrite, WriteStripe, FinishWrite,
           SyncStripe, FinishSync, Return, Goto, TypeOK, LabelInv
  <2>2. CASE u # t
    <3>1. CASE ReadStripe(u)
      BY <1>0, <2>2, <3>1 DEF ReadStripe, Advance, store, ghosts, TypeOK, Untouched
    <3>2. CASE JudgeGet(u)
      BY <1>0, <2>2, <3>2 DEF JudgeGet, Goto, store, ghosts, TypeOK, Untouched
    <3>3. CASE JudgeContains(u)
      BY <1>0, <2>2, <3>3 DEF JudgeContains, Goto, store, ghosts, TypeOK, Untouched
    <3>4. CASE Rejudge(u)
      BY <1>0, <2>2, <3>4 DEF Rejudge, Goto, ghosts, TypeOK, Untouched
    <3>5. CASE MendStripe(u)
      BY <1>0, <2>2, <3>5 DEF MendStripe, Put, Advance, TypeOK, Untouched
    <3>6. CASE FinishMend(u)
      BY <1>0, <2>2, <3>6 DEF FinishMend, Goto, ghosts, TypeOK, Untouched
    <3>7. CASE LockWrite(u)
      BY <1>0, <2>2, <3>7 DEF LockWrite, Goto, Busy, TypeOK, Untouched
    <3>8. CASE WriteStripe(u)
      BY <1>0, <2>2, <3>8 DEF WriteStripe, Put, Advance, TypeOK, Untouched
    <3>9. CASE FinishWrite(u)
      BY <1>0, <2>2, <3>9 DEF FinishWrite, Goto, TypeOK, Untouched
    <3>10. CASE SyncStripe(u)
      BY <1>0, <2>2, <3>10 DEF SyncStripe, Advance, TypeOK, Untouched
    <3>11. CASE FinishSync(u)
      BY <1>0, <2>2, <3>11 DEF FinishSync, Goto, store, TypeOK, Untouched
    <3>12. CASE Return(u)
      BY <1>0, <2>2, <3>12 DEF Return, Goto, store, TypeOK, Untouched
    <3> QED
      BY <1>1, <3>1, <3>2, <3>3, <3>4, <3>5, <3>6, <3>7, <3>8, <3>9, <3>10,
         <3>11, <3>12 DEF Proceed
  <2> QED
    BY <2>1, <2>2
<1>2. ASSUME NEW u \in Thread, Call(u) PROVE ReaderStep(t) \/ Untouched(t)
  <2>1. CASE \E w \in Wire : RefuseInsert(u, w)
    BY <2>1 DEF RefuseInsert, threads, Untouched
  <2>2. ASSUME NEW o, NEW a, NEW l, NEW g, Begin(u, o, a, l, g), u # t
        PROVE  Untouched(t)
    BY <1>0, <2>2 DEF Begin, store, TypeOK, Untouched
  <2>3. CASE u # t
    BY <1>2, <2>1, <2>2, <2>3
       DEF Call, BeginGet, BeginContains, BeginRemove, BeginSync, BeginInsert
  <2>4. CASE u = t
    <3>1. ~ BeginRemove(t)
      BY <1>0 DEF BeginRemove, Begin, TypeOK, Reading
    <3>2. ~ BeginSync(t)
      BY <1>0 DEF BeginSync, Begin, TypeOK, Reading
    <3>3. \A w \in Wire : ~ BeginInsert(t, w)
      BY <1>0 DEF BeginInsert, Begin, TypeOK, Reading
    <3>4. BeginGet(t) \/ BeginContains(t) \/ \E w \in Wire : RefuseInsert(t, w)
      BY <1>2, <2>4, <3>1, <3>2, <3>3 DEF Call
    <3> QED
      BY <2>1, <2>4, <3>4 DEF ReaderStep
  <2> QED
    BY <2>3, <2>4
<1>3. ASSUME NEW u \in Thread, BackendFails(u) PROVE ReaderStep(t) \/ Untouched(t)
  <2>1. CASE ReadStripeFails(u)
    BY <1>0, <2>1
       DEF ReadStripeFails, Advance, store, TypeOK, Untouched, ReaderStep
  <2>2. CASE WriteStripeFails(u)
    BY <1>0, <2>2
       DEF WriteStripeFails, Advance, ghosts, TypeOK, LabelInv, Reading, Untouched,
           ReaderStep
  <2>3. CASE SyncStripeFails(u)
    BY <1>0, <2>3
       DEF SyncStripeFails, Advance, store, ghosts, TypeOK, LabelInv, Reading,
           Untouched
  <2> QED
    BY <1>3, <2>1, <2>2, <2>3 DEF BackendFails
<1>4. CASE Kill \/ PowerLoss
  BY <1>4 DEF Kill, PowerLoss, Stop, Reading
<1>5. ASSUME NEW i \in Stripe, LoseStripe(i) PROVE Untouched(t)
  BY <1>0, <1>5 DEF LoseStripe, threads, HurtInv, Reading, Untouched
<1>6. ASSUME NEW i \in Stripe, BitRot(i) PROVE Untouched(t)
  BY <1>0, <1>6 DEF BitRot, Busy, TypeOK, Untouched
<1>7. CASE Open
  BY <1>7 DEF Open, threads, ghosts, Untouched
<1>8. CASE UNCHANGED vars
  BY <1>8 DEF vars, Untouched
<1> QED
  BY <1>1, <1>2, <1>3, <1>4, <1>5, <1>6, <1>7, <1>8 DEF Next, Befall

\* Records stay faithful to a time that grows.
LEMMA FaithfulGrows ==
    ASSUME NEW v, NEW s, NEW h, NEW s2, NEW h2,
           Faithful(v, s, h), s \subseteq s2, h \subseteq h2
    PROVE  Faithful(v, s2, h2)
BY DEF Faithful

AllReaders == \A t \in Thread : ViewInv(t) /\ AnswerInv(t) /\ HealInv(t)

RInv == LInv /\ AllReaders

LEMMA UntouchedKeeps ==
    ASSUME NEW t \in Thread, ViewInv(t), AnswerInv(t), HealInv(t),
           Untouched(t), Reading(t)'
    PROVE  ViewInv(t)' /\ AnswerInv(t)' /\ HealInv(t)'
<1>1. /\ pc'[t] = pc[t] /\ op'[t] = op[t] /\ arg'[t] = arg[t] /\ nxt'[t] = nxt[t]
      /\ view'[t] = view[t] /\ out'[t] = out[t]
      /\ seen[t] \subseteq seen'[t] /\ hurt[t] \subseteq hurt'[t]
  BY DEF Untouched, Reading
<1>2. ViewInv(t)'
  BY <1>1 DEF ViewInv
<1>3. AnswerInv(t)'
  <2>1. ASSUME op'[t] = "get" /\ pc'[t] \in {"repair", "mend", "done"}
        PROVE  \E v : Faithful(v, seen'[t], hurt'[t]) /\ out'[t] = Assemble(v)
    <3>1. PICK v : Faithful(v, seen[t], hurt[t]) /\ out[t] = Assemble(v)
      BY <1>1, <2>1 DEF AnswerInv
    <3>2. Faithful(v, seen'[t], hurt'[t])
      BY <1>1, <3>1, FaithfulGrows
    <3> QED
      BY <1>1, <3>1, <3>2
  <2>2. ASSUME op'[t] = "contains" /\ pc'[t] = "done"
        PROVE  \E v : Faithful(v, seen'[t], hurt'[t]) /\ out'[t] = Contains(v)
    <3>1. PICK v : Faithful(v, seen[t], hurt[t]) /\ out[t] = Contains(v)
      BY <1>1, <2>2 DEF AnswerInv
    <3>2. Faithful(v, seen'[t], hurt'[t])
      BY <1>1, <3>1, FaithfulGrows
    <3> QED
      BY <1>1, <3>1, <3>2
  <2> QED
    BY <2>1, <2>2 DEF AnswerInv
<1>4. HealInv(t)'
  <2>1. SUFFICES ASSUME op'[t] = "get", ok'[t] PROVE HealInv(t)'
    BY DEF HealInv
  <2>2. ok[t] /\ op[t] = "get" /\ damaged' \subseteq damaged
    BY <1>1, <2>1 DEF Untouched
  <2> QED
    BY <1>1, <2>2 DEF HealInv
<1> QED
  BY <1>2, <1>3, <1>4

\* The answer of a read that has every stripe's record.
LEMMA JudgedFaithful ==
    ASSUME LInv, NEW t \in Thread, ViewInv(t), pc[t] = "read", nxt[t] > N
    PROVE  Faithful(view[t], seen[t], hurt[t])
<1>1. TypeOK /\ ReadInv
  BY DEF LInv, IInv
<1>2. \A i \in Stripe : i < nxt[t]
  BY <1>1, CodingAssumption DEF TypeOK, Stripe
<1>3. view[t] \in [Stripe -> Cell]
  BY <1>1 DEF TypeOK
<1> QED
  BY <1>1, <1>2, <1>3 DEF ReadInv, ViewInv, Faithful

\* A packet rebuilt from records is in K stripes of them.
LEMMA AssembleHasK ==
    ASSUME NEW v, Assemble(v) # None
    PROVE  Cardinality(Holders(v, Assemble(v))) >= K
<1>1. Holders(v, Assemble(v)) \in Winning(v)
  BY DEF Assemble
<1> QED
  BY <1>1 DEF Winning, Quorate

\* When a repair judges again, what its get rebuilt is still to be rebuilt, if
\* the get has met no fault and no write.
LEMMA StillRebuilt ==
    ASSUME K > 1, LInv, NEW t \in Thread, HealInv(t), op[t] = "get", ok[t],
           pc[t] = "repair", out[t] # None, seen[t] \subseteq {out[t]}
    PROVE  Assemble(mem) # None
<1> DEFINE w == out[t]
           H == Holders(view[t], w)
<1>0. TypeOK /\ MemInv /\ ReadInv /\ LegalInv
  BY DEF LInv, IInv
<1>1. w = Assemble(view[t]) /\ \A i \in Stripe : view[t][i] \in Wire => i \notin damaged
  BY DEF HealInv
<1>2. w \in Wire /\ Cardinality(H) >= K
  BY <1>1, AssembleHit, AssembleHasK
<1>3. H \cap damaged = {} /\ H \in SUBSET Stripe /\ damaged \in SUBSET Stripe
  BY <1>0, <1>1, <1>2 DEF Holders, TypeOK
<1>4. legal = {w}
  BY <1>0 DEF ReadInv, LegalInv
<1>5. Cardinality(damaged) <= N - K
  <2>1. IsFiniteSet(Stripe) /\ Cardinality(Stripe) = N
    BY CodingAssumption, FS_Interval DEF Stripe
  <2>2. Cardinality(Stripe \ H) = N - Cardinality(Stripe \cap H)
    BY <2>1, FS_Difference
  <2>3. Stripe \cap H = H
    BY <1>3
  <2>4. IsFiniteSet(Stripe \ H) /\ damaged \subseteq Stripe \ H
    BY <1>3, StripeSubsets
  <2>5. Cardinality(damaged) <= Cardinality(Stripe \ H)
    BY <2>4, FS_Subset
  <2>6. Cardinality(H) \in Nat /\ Cardinality(damaged) \in Nat
    BY <1>3, StripeSubsets
  <2>7. Cardinality(Stripe \ H) = N - Cardinality(H)
    BY <2>2, <2>3
  <2> HIDE DEF H
  <2> QED
    BY <1>2, <2>5, <2>6, <2>7, CodingAssumption
<1>6. /\ \A i \in Stripe : mem[i] \in {w} \cup Spoilt
      /\ \A i \in Stripe \ damaged : mem[i] = w
  BY <1>0, <1>4 DEF MemInv
<1>7. Assemble(mem) = w
  BY <1>2, <1>3, <1>5, <1>6, RebuildFromK
<1> QED
  BY <1>7

LEMMA ReaderStepKeeps ==
    ASSUME LInv, LInv', NEW t \in Thread, ReaderStep(t),
           ViewInv(t), AnswerInv(t), HealInv(t)
    PROVE  ViewInv(t)' /\ AnswerInv(t)' /\ HealInv(t)'
<1>0. TypeOK /\ LabelInv /\ MemInv /\ ReadInv /\ HurtInv
  BY DEF LInv, IInv
<1>10. Wire \cap Spoilt = {} /\ None \in Spoilt
  BY ValueAssumption DEF Spoilt
<1>1. CASE BeginGet(t) \/ BeginContains(t)
  <2>1. /\ nxt' = nxt /\ nxt[t] = 1 /\ pc'[t] = "read"
        /\ view' = view /\ view[t] = NoView
    BY <1>0, <1>1 DEF BeginGet, BeginContains, Begin, TypeOK, LabelInv, ReadInv
  <2>2. ViewInv(t)'
    BY <2>1 DEF ViewInv, Stripe
  <2>3. AnswerInv(t)'
    BY <2>1 DEF AnswerInv
  <2>4. HealInv(t)'
    BY <1>10, <2>1 DEF HealInv, NoView
  <2> QED
    BY <2>2, <2>3, <2>4
<1>2. CASE ReadStripe(t)
  <2>1. /\ pc[t] = "read" /\ pc' = pc /\ nxt[t] \in Stripe /\ nxt'[t] = nxt[t] + 1
        /\ view'[t] = [view[t] EXCEPT ![nxt[t]] = mem[nxt[t]]]
        /\ view[t] \in [Stripe -> Cell]
        /\ UNCHANGED <<mem, op, ok, damaged, seen, hurt>>
    BY <1>0, <1>2, CodingAssumption
       DEF ReadStripe, Advance, store, ghosts, TypeOK, Stripe
  <2>2. /\ nxt[t] \notin hurt[t] => mem[nxt[t]] \in seen[t]
        /\ mem[nxt[t]] \in Wire => nxt[t] \notin damaged
    BY <1>0, <1>10, <2>1 DEF MemInv, ReadInv, HurtInv
  <2>3. ViewInv(t)'
    <3> SUFFICES ASSUME NEW i \in Stripe, i < nxt'[t], i \notin hurt'[t]
                 PROVE  view'[t][i] \in seen'[t]
      BY DEF ViewInv
    <3>1. CASE i = nxt[t]
      BY <2>1, <2>2, <3>1
    <3>2. CASE i # nxt[t]
      <4>1. i < nxt[t]
        BY <2>1, <3>2, CodingAssumption DEF Stripe
      <4> QED
        BY <2>1, <3>2, <4>1 DEF ViewInv
    <3> QED
      BY <3>1, <3>2
  <2>4. AnswerInv(t)'
    BY <2>1 DEF AnswerInv
  <2>5. HealInv(t)'
    BY <2>1, <2>2 DEF HealInv
  <2> QED
    BY <2>3, <2>4, <2>5
<1>3. CASE ReadStripeFails(t)
  <2>1. /\ pc[t] = "read" /\ pc' = pc /\ nxt[t] \in Stripe /\ nxt'[t] = nxt[t] + 1
        /\ view' = view /\ seen' = seen /\ ~ ok'[t]
        /\ hurt'[t] = hurt[t] \cup {nxt[t]}
    BY <1>0, <1>3, CodingAssumption DEF ReadStripeFails, Advance, TypeOK, Stripe
  <2>2. ViewInv(t)'
    <3> SUFFICES ASSUME NEW i \in Stripe, i < nxt'[t], i \notin hurt'[t]
                 PROVE  view'[t][i] \in seen'[t]
      BY DEF ViewInv
    <3>1. i < nxt[t] /\ i \notin hurt[t]
      BY <2>1, CodingAssumption DEF Stripe
    <3> QED
      BY <2>1, <3>1 DEF ViewInv
  <2>3. AnswerInv(t)' /\ HealInv(t)'
    BY <2>1 DEF AnswerInv, HealInv
  <2> QED
    BY <2>2, <2>3
<1>4. CASE JudgeGet(t)
  <2>1. /\ pc[t] = "read" /\ nxt[t] > N /\ op[t] = "get" /\ out'[t] = Assemble(view[t])
        /\ pc'[t] = IF Assemble(view[t]) # None
                       /\ Holders(view[t], Assemble(view[t])) # Stripe
                    THEN "repair" ELSE "done"
        /\ UNCHANGED <<op, view, ok, damaged, seen, hurt>>
    BY <1>0, <1>4 DEF JudgeGet, Goto, ghosts, TypeOK
  <2>2. Faithful(view[t], seen[t], hurt[t])
    BY <2>1, JudgedFaithful
  <2>3. ViewInv(t)' /\ AnswerInv(t)'
    BY <2>1, <2>2 DEF ViewInv, AnswerInv
  <2>4. HealInv(t)'
    <3> SUFFICES ASSUME K > 1, ok'[t] PROVE HealInv(t)'
      BY DEF HealInv
    <3>1. \A i \in Stripe : view[t][i] \in Wire => i \notin damaged
      BY <2>1 DEF HealInv
    <3>2. CASE pc'[t] = "repair"
      BY <2>1, <3>1, <3>2 DEF HealInv
    <3>3. CASE pc'[t] = "done"
      <4>1. ASSUME Assemble(view[t]) # None PROVE damaged' = {}
        <5>1. Holders(view[t], Assemble(view[t])) = Stripe
          BY <2>1, <3>3, <4>1
        <5>2. Assemble(view[t]) \in Wire
          BY <4>1, AssembleHit
        <5>3. \A i \in Stripe : i \notin damaged
          BY <3>1, <5>1, <5>2 DEF Holders
        <5> QED
          BY <1>0, <2>1, <5>3 DEF TypeOK
      <4> QED
        BY <2>1, <3>3, <4>1 DEF HealInv
    <3> QED
      BY <2>1, <3>2, <3>3
  <2> QED
    BY <2>3, <2>4
<1>5. CASE JudgeContains(t)
  <2>1. /\ pc[t] = "read" /\ nxt[t] > N /\ op[t] = "contains"
        /\ out'[t] = Contains(view[t]) /\ pc'[t] = "done"
        /\ UNCHANGED <<op, view, seen, hurt>>
    BY <1>0, <1>5 DEF JudgeContains, Goto, ghosts, TypeOK
  <2>2. Faithful(view[t], seen[t], hurt[t])
    BY <2>1, JudgedFaithful
  <2> QED
    BY <2>1, <2>2 DEF ViewInv, AnswerInv, HealInv
<1>6. CASE Rejudge(t)
  <2>1. PICK unread \in SUBSET Stripe :
            LET v == Reread(unread)  w == Assemble(v) IN
            /\ view' = [view EXCEPT ![t] = v]
            /\ nxt' = [nxt EXCEPT ![t] = 1]
            /\ ok' = [ok EXCEPT ![t] = @ /\ unread = {}]
            /\ IF w = None \/ Holders(v, w) = Stripe
               THEN Goto(t, "done") /\ UNCHANGED <<lock, arg>>
               ELSE /\ Goto(t, "mend")
                    /\ lock' = t
                    /\ arg' = [arg EXCEPT ![t] = w]
    BY <1>6 DEF Rejudge
  <2>2. /\ pc[t] = "repair" /\ op[t] = "get"
        /\ UNCHANGED <<mem, op, out, damaged, seen, hurt>>
    BY <1>0, <1>6 DEF Rejudge, ghosts, LabelInv
  <2>3. pc'[t] \in {"mend", "done"}
    BY <1>0, <2>1 DEF Goto, TypeOK
  <2>4. ViewInv(t)' /\ AnswerInv(t)'
    BY <2>2, <2>3 DEF ViewInv, AnswerInv
  <2>5. HealInv(t)'
    <3> SUFFICES ASSUME K > 1, ok'[t] PROVE HealInv(t)'
      BY DEF HealInv
    <3>1. unread = {} /\ ok[t]
      BY <1>0, <2>1 DEF TypeOK
    <3>2. Reread(unread) = mem
      BY <1>0, <3>1 DEF Reread, TypeOK
    <3>3. \A i \in Stripe : mem[i] \in Wire => i \notin damaged
      BY <1>0, <1>10 DEF MemInv
    <3>4. view'[t] = mem /\ nxt'[t] = 1
      BY <1>0, <2>1, <3>2 DEF TypeOK
    <3>5. CASE Assemble(mem) = None
      <4>1. pc'[t] = "done"
        BY <1>0, <2>1, <3>2, <3>5 DEF Goto, TypeOK
      <4>2. ~ (out[t] # None /\ seen[t] \subseteq {out[t]})
        BY <2>2, <3>1, <3>5, StillRebuilt
      <4> QED
        BY <2>2, <4>1, <4>2 DEF HealInv
    <3>6. CASE Assemble(mem) # None /\ Holders(mem, Assemble(mem)) = Stripe
      <4>1. pc'[t] = "done"
        BY <1>0, <2>1, <3>2, <3>6 DEF Goto, TypeOK
      <4>2. Assemble(mem) \in Wire
        BY <3>6, AssembleHit
      <4>3. damaged = {}
        BY <1>0, <3>3, <3>6, <4>2 DEF Holders, TypeOK
      <4> QED
        BY <2>2, <4>1, <4>3 DEF HealInv
    <3>7. CASE Assemble(mem) # None /\ Holders(mem, Assemble(mem)) # Stripe
      <4>1. pc'[t] = "mend" /\ arg'[t] = Assemble(mem)
        BY <1>0, <2>1, <3>2, <3>7 DEF Goto, TypeOK
      <4>2. Assemble(mem) \in Wire
        BY <3>7, AssembleHit
      <4>3. \A i \in Stripe : i < nxt'[t] \/ view'[t][i] = arg'[t] => i \notin damaged'
        BY <2>2, <3>3, <3>4, <4>1, <4>2, CodingAssumption DEF Stripe
      <4> QED
        BY <4>1, <4>3 DEF HealInv
    <3> QED
      BY <3>5, <3>6, <3>7
  <2> QED
    BY <2>4, <2>5
<1>7. CASE MendStripe(t)
  <2>1. /\ pc[t] = "mend" /\ pc' = pc /\ nxt[t] \in Stripe /\ nxt'[t] = nxt[t] + 1
        /\ UNCHANGED <<op, arg, view, ok, out, seen, hurt>>
    BY <1>0, <1>7, CodingAssumption DEF MendStripe, Advance, TypeOK, Stripe
  <2>2. /\ damaged' \subseteq damaged
        /\ view[t][nxt[t]] = arg[t] \/ nxt[t] \notin damaged'
    BY <1>7 DEF MendStripe, Put
  <2>3. ViewInv(t)'
    BY <2>1 DEF ViewInv
  <2>4. AnswerInv(t)'
    BY <2>1 DEF AnswerInv
  <2>5. HealInv(t)'
    <3> SUFFICES ASSUME K > 1, op[t] = "get", ok[t],
                        NEW i \in Stripe, i < nxt[t] + 1 \/ view[t][i] = arg[t]
                 PROVE  i \notin damaged'
      BY <2>1 DEF HealInv
    <3>1. CASE i = nxt[t]
      BY <2>1, <2>2, <3>1 DEF HealInv
    <3>2. CASE i # nxt[t]
      <4>1. i < nxt[t] \/ view[t][i] = arg[t]
        BY <2>1, <3>2, CodingAssumption DEF Stripe
      <4> QED
        BY <2>1, <2>2, <4>1 DEF HealInv
    <3> QED
      BY <3>1, <3>2
  <2> QED
    BY <2>3, <2>4, <2>5
<1>8. CASE FinishMend(t)
  <2>1. /\ pc[t] = "mend" /\ nxt[t] > N /\ pc'[t] = "done"
        /\ UNCHANGED <<op, ok, out, damaged, seen, hurt>>
    BY <1>0, <1>8 DEF FinishMend, Goto, ghosts, TypeOK
  <2>2. ViewInv(t)'
    BY <2>1 DEF ViewInv
  <2>3. AnswerInv(t)'
    BY <1>0, <2>1 DEF AnswerInv, LabelInv
  <2>4. ASSUME K > 1, op[t] = "get", ok[t] PROVE damaged = {}
    <3>1. \A i \in Stripe : i < nxt[t]
      BY <1>0, <2>1, CodingAssumption DEF TypeOK, Stripe
    <3>2. \A i \in Stripe : i \notin damaged
      BY <2>1, <2>4, <3>1 DEF HealInv
    <3> QED
      BY <1>0, <3>2 DEF TypeOK
  <2>5. HealInv(t)'
    BY <2>1, <2>4 DEF HealInv
  <2> QED
    BY <2>2, <2>3, <2>5
<1>9. CASE pc[t] = "mend" /\ WriteStripeFails(t)
  <2>1. /\ pc[t] = "mend" /\ pc' = pc /\ ~ ok'[t]
        /\ UNCHANGED <<op, out, seen, hurt>>
    BY <1>0, <1>9 DEF WriteStripeFails, ghosts, TypeOK
  <2> QED
    BY <2>1 DEF ViewInv, AnswerInv, HealInv
<1> QED
  BY <1>1, <1>2, <1>3, <1>4, <1>5, <1>6, <1>7, <1>8, <1>9 DEF ReaderStep

LEMMA RInvInit == Init => RInv
<1> SUFFICES ASSUME Init PROVE AllReaders
  BY LInvInit DEF RInv
<1> QED
  BY DEF Init, AllReaders, ViewInv, AnswerInv, HealInv

LEMMA RInvStep == RInv /\ [Next]_vars => RInv'
<1> SUFFICES ASSUME RInv, [Next]_vars PROVE RInv'
  OBVIOUS
<1>1. LInv /\ LInv'
  BY IInvStep, LegalStep, HurtStep DEF RInv, LInv
<1>2. ASSUME NEW t \in Thread
      PROVE  ViewInv(t)' /\ AnswerInv(t)' /\ HealInv(t)'
  <2>1. ViewInv(t) /\ AnswerInv(t) /\ HealInv(t)
    BY DEF RInv, AllReaders
  <2>2. CASE Reading(t)'
    <3>1. ReaderStep(t) \/ Untouched(t)
      BY <1>1, <2>2, ReaderOrUntouched
    <3> QED
      BY <1>1, <2>1, <2>2, <3>1, ReaderStepKeeps, UntouchedKeeps
  <2>3. CASE ~ Reading(t)'
    <3>1. LabelInv'
      BY <1>1 DEF LInv, IInv
    <3>2. op'[t] \notin {"get", "contains"} /\ pc'[t] # "read"
      BY <2>3, <3>1 DEF Reading, LabelInv
    <3> QED
      BY <3>2 DEF ViewInv, AnswerInv, HealInv
  <2> QED
    BY <2>2, <2>3
<1> QED
  BY <1>1, <1>2 DEF RInv, AllReaders

LEMMA RInvCorrect == Spec => []RInv
<1>1. Spec => Init /\ [][Next]_vars
  BY DEF Spec
<1> QED
  BY <1>1, RInvInit, RInvStep, PTL

\* While enough stripes are unhurt, a get finds the one packet no write
\* overlapped, and one of the two an overwrite was changing.
THEOREM GetHitsCorrect == Spec => []GetHits
<1>1. ASSUME RInv PROVE GetHits
  <2> SUFFICES ASSUME NEW t \in Thread, Finished(t, "get"), K > 1,
                      seen[t] \subseteq Wire
               PROVE  /\ Cardinality(seen[t]) = 1 /\ Cardinality(hurt[t]) <= N - K
                           => out[t] \in seen[t]
                      /\ Cardinality(seen[t]) = 2
                         /\ N - Cardinality(hurt[t]) >= 2 * K - 1
                           => out[t] \in seen[t]
    BY DEF GetHits
  <2>0. LInv /\ TypeOK /\ AnswerInv(t)
    BY <1>1 DEF RInv, AllReaders, LInv, IInv
  <2>1. PICK v : Faithful(v, seen[t], hurt[t]) /\ out[t] = Assemble(v)
    BY <2>0 DEF AnswerInv, Finished
  <2>2. /\ hurt[t] \in SUBSET Stripe /\ Cardinality(hurt[t]) \in Nat
        /\ seen[t] # {} /\ IsFiniteSet(seen[t])
    BY <2>0, StripeSubsets
       DEF TypeOK, LInv, LegalInv, IInv, ReadInv, Finished
  <2>3. /\ \A i \in Stripe : v[i] \in seen[t] \cup Spoilt
        /\ \A i \in Stripe \ hurt[t] : v[i] \in seen[t]
    BY <2>1 DEF Faithful
  <2>4. ASSUME Cardinality(seen[t]) <= 2
        PROVE  \E a, b \in seen[t] : seen[t] = {a, b}
    BY <2>2, <2>4, OneOrTwo
  <2>5. ASSUME Cardinality(hurt[t]) <= N - K, NEW a \in seen[t], seen[t] = {a}
        PROVE  out[t] \in seen[t]
    <3>1. a \in Wire
      BY <2>5
    <3>2. /\ \A i \in Stripe : v[i] \in {a} \cup Spoilt
          /\ \A i \in Stripe \ hurt[t] : v[i] = a
      BY <2>3, <2>5
    <3>3. Assemble(v) = a
      BY <2>2, <2>5, <3>1, <3>2, RebuildFromK
    <3> QED
      BY <2>1, <3>3
  <2>6. ASSUME Cardinality(seen[t]) = 1, Cardinality(hurt[t]) <= N - K
        PROVE  out[t] \in seen[t]
    <3>1. PICK a, b \in seen[t] : seen[t] = {a, b}
      BY <2>4, <2>6
    <3>2. a = b
      <4>1. SUFFICES ASSUME a # b PROVE FALSE
        OBVIOUS
      <4>2. Cardinality(seen[t] \ {a}) = 0 /\ IsFiniteSet(seen[t] \ {a})
        <5>1. /\ IsFiniteSet(seen[t] \ {a})
              /\ Cardinality(seen[t] \ {a}) = Cardinality(seen[t]) - 1
          BY <2>2, <3>1, FS_RemoveElement
        <5> QED
          BY <2>6, <5>1
      <4>3. seen[t] \ {a} = {}
        BY <4>2, FS_EmptySet
      <4> QED
        BY <3>1, <4>1, <4>3
    <3> QED
      BY <2>5, <2>6, <3>1, <3>2
  <2>7. ASSUME Cardinality(seen[t]) = 2, N - Cardinality(hurt[t]) >= 2 * K - 1
        PROVE  out[t] \in seen[t]
    <3>1. PICK a, b \in seen[t] : seen[t] = {a, b}
      BY <2>4, <2>7
    <3>2. CASE a = b
      <4>1. Cardinality(hurt[t]) <= N - K
        BY <2>2, <2>7, CodingAssumption
      <4> QED
        BY <2>5, <3>1, <3>2, <4>1
    <3>3. CASE a # b
      <4>1. a \in Wire /\ b \in Wire
        BY <3>1
      <4>2. /\ \A i \in Stripe : v[i] \in {a, b} \cup Spoilt
            /\ \A i \in Stripe \ hurt[t] : v[i] \in {a, b}
        BY <2>3, <3>1
      <4>3. Assemble(v) \in {a, b}
        BY <2>2, <2>7, <3>3, <4>1, <4>2, RebuildOneOfTwo
      <4> QED
        BY <2>1, <3>1, <4>3
    <3> QED
      BY <3>2, <3>3
  <2> QED
    BY <2>6, <2>7
<1> QED
  BY <1>1, RInvCorrect, PTL

\* contains finds a stored packet in any K unhurt stripes, and none where there
\* is none, if fewer than K stripes are hurt.
THEOREM ContainsRegularCorrect == Spec => []ContainsRegular
<1>1. ASSUME RInv PROVE ContainsRegular
  <2> SUFFICES ASSUME NEW t \in Thread, Finished(t, "contains")
               PROVE  /\ \A w \in Wire :
                           seen[t] = {w} /\ Cardinality(hurt[t]) <= N - K => out[t]
                      /\ seen[t] = {None} /\ Cardinality(hurt[t]) < K => ~out[t]
    BY DEF ContainsRegular
  <2>0. LInv /\ TypeOK /\ AnswerInv(t)
    BY <1>1 DEF RInv, AllReaders, LInv, IInv
  <2>1. PICK v : Faithful(v, seen[t], hurt[t]) /\ out[t] = Contains(v)
    BY <2>0 DEF AnswerInv, Finished
  <2> DEFINE H == hurt[t]
             P == Present(v)
  <2>2. H \in SUBSET Stripe /\ Cardinality(H) \in Nat /\ IsFiniteSet(H)
    BY <2>0, StripeSubsets DEF TypeOK
  <2>3. P \in SUBSET Stripe /\ Cardinality(P) \in Nat /\ IsFiniteSet(P)
    BY StripeSubsets DEF Present
  <2>4. ASSUME NEW w \in Wire, seen[t] = {w}, Cardinality(H) <= N - K
        PROVE  Cardinality(P) >= K
    <3>1. Stripe \ H \subseteq P
      BY <2>1, <2>4, ValueAssumption DEF Faithful, Present
    <3>2. IsFiniteSet(Stripe) /\ Cardinality(Stripe) = N
      BY CodingAssumption, FS_Interval DEF Stripe
    <3>3. Cardinality(Stripe \ H) = N - Cardinality(Stripe \cap H)
      BY <3>2, FS_Difference
    <3>4. Stripe \cap H = H
      BY <2>2
    <3>5. Cardinality(Stripe \ H) <= Cardinality(P)
      BY <2>3, <3>1, FS_Subset
    <3>6. Cardinality(Stripe \ H) = N - Cardinality(H)
      BY <3>3, <3>4
    <3> HIDE DEF H, P
    <3> QED
      BY <2>2, <2>3, <2>4, <3>5, <3>6, CodingAssumption
  <2>5. ASSUME seen[t] = {None}, Cardinality(H) < K
        PROVE  ~ (Cardinality(P) >= K)
    <3>1. P \subseteq H
      BY <2>1, <2>5 DEF Faithful, Present
    <3>2. Cardinality(P) <= Cardinality(H)
      BY <2>2, <3>1, FS_Subset
    <3> HIDE DEF H, P
    <3> QED
      BY <2>2, <2>3, <2>5, <3>2, CodingAssumption
  <2>6. Contains(v) <=> Cardinality(P) >= K
    BY DEF Contains
  <2> HIDE DEF P
  <2> QED
    BY <2>1, <2>4, <2>5, <2>6
<1> QED
  BY <1>1, RInvCorrect, PTL

\* A get that met no fault and no write leaves no stripe damaged (for K > 1, where
\* no single rotten digest can outvote the packet when the repair judges again).
THEOREM ReadHealsCorrect ==
    ASSUME K > 1
    PROVE  Spec => []ReadHeals
<1>1. ASSUME RInv PROVE ReadHeals
  BY <1>1 DEF RInv, AllReaders, HealInv, Finished, ReadHeals
<1> QED
  BY <1>1, RInvCorrect, PTL
-----------------------------------------------------------------------------
(***************************************************************************)
(* What the stripes rebuild moves only with a write.                       *)
(***************************************************************************)

\* A group is at least as large as those it outranks.
LEMMA OutranksMore ==
    ASSUME NEW g, NEW h, Cardinality(g) \in Nat, Cardinality(h) \in Nat,
           Outranks(g, h)
    PROVE  Cardinality(g) >= Cardinality(h)
BY DEF Outranks

\* A packet the records rebuild is rebuilt still when one more of them is its own.
LEMMA StaysFound ==
    ASSUME NEW v \in [Stripe -> Cell], Assemble(v) # None, NEW i \in Stripe
    PROVE  Assemble([v EXCEPT ![i] = Assemble(v)]) = Assemble(v)
<1> DEFINE w == Assemble(v)
           u == [v EXCEPT ![i] = w]
           g == Holders(v, w)
           g2 == Holders(u, w)
<1>1. w \in Wire /\ g \in Winning(v) /\ g \in Quorate(v)
  BY DEF Assemble, Winning
<1>2. CASE v[i] = w
  <2>1. u = v
    BY <1>2
  <2> QED
    BY <2>1
<1>3. CASE v[i] # w
  <2>1. /\ u[i] = w /\ \A j \in Stripe : j # i => u[j] = v[j]
        /\ g \in SUBSET Stripe /\ g2 \in SUBSET Stripe
        /\ i \in g2 /\ i \notin g /\ g2 = g \cup {i}
    BY <1>3 DEF Holders
  <2>2. Cardinality(g) >= K /\ IsFiniteSet(g) /\ Cardinality(g) \in Nat
    BY <1>1, <2>1, StripeSubsets DEF Quorate
  <2>3. Cardinality(g2) = Cardinality(g) + 1
    BY <2>1, <2>2, FS_AddElement
  <2>4. ASSUME NEW x \in Wire, x # w
        PROVE  Cardinality(Holders(u, x)) < Cardinality(g2) /\ Holders(u, x) # g2
    <3> DEFINE h == Holders(u, x)
               h0 == Holders(v, x)
    <3>1. h \subseteq h0 /\ h0 \in SUBSET Stripe /\ i \notin h
      BY <2>1, <2>4 DEF Holders
    <3>2. /\ IsFiniteSet(h0) /\ Cardinality(h0) \in Nat
          /\ Cardinality(h) <= Cardinality(h0) /\ Cardinality(h) \in Nat
      BY <3>1, StripeSubsets, FS_Subset
    <3>3. ASSUME Cardinality(h0) >= K PROVE Cardinality(h0) <= Cardinality(g)
      <4>1. h0 \in Quorate(v)
        BY <3>3 DEF Quorate, Groups
      <4>2. h0 # g
        <5>1. g # {}
          BY <2>2, FS_EmptySet, CodingAssumption
        <5> QED
          BY <2>4, <5>1 DEF Holders
      <4>3. Outranks(g, h0)
        BY <1>1, <4>1, <4>2 DEF Winning
      <4> QED
        BY <2>2, <3>2, <4>3, OutranksMore
    <3>4. Cardinality(h) < Cardinality(g2) /\ h # g2
      <4> HIDE DEF h, h0, g, g2
      <4> QED
        BY <2>1, <2>2, <2>3, <3>1, <3>2, <3>3, CodingAssumption
    <3> QED
      BY <3>4
  <2>5. ASSUME NEW j \in Holders(u, BadHead)
        PROVE  Cardinality({j}) < Cardinality(g2)
    <3>1. Cardinality({j}) = 1
      BY FS_Singleton
    <3> HIDE DEF g, g2
    <3> QED
      BY <2>2, <2>3, <3>1, CodingAssumption
  <2>6. \A h \in Quorate(u) \ {g2} : Cardinality(h) < Cardinality(g2)
    BY <2>4, <2>5 DEF Quorate, Groups
  <2>7. g2 \in Quorate(u)
    <3>1. g2 \in Groups(u)
      BY <1>1 DEF Groups
    <3>2. Cardinality(g2) >= K
      BY <2>2, <2>3, CodingAssumption
    <3> QED
      BY <3>1, <3>2 DEF Quorate
  <2>8. \A h \in Quorate(u) : Cardinality(h) \in Nat
    <3>1. \A h \in Groups(u) : h \in SUBSET Stripe
      BY DEF Groups, Holders
    <3> QED
      BY <3>1, StripeSubsets DEF Quorate
  <2>9. Cardinality(g2) \in Nat
    BY <2>1, StripeSubsets
  <2>10. g2 \in Winning(u)
    <3>1. \A h \in Quorate(u) \ {g2} : Outranks(g2, h)
      BY <2>6, <2>8, <2>9 DEF Outranks
    <3> QED
      BY <2>7, <3>1 DEF Winning
  <2>11. ASSUME NEW x \in Wire, Holders(u, x) \in Winning(u) PROVE x = w
    <3>1. SUFFICES ASSUME x # w PROVE FALSE
      OBVIOUS
    <3> DEFINE h == Holders(u, x)
    <3>2. Cardinality(h) < Cardinality(g2) /\ h # g2 /\ h \in Quorate(u)
      BY <2>4, <2>11, <3>1 DEF Winning
    <3>3. Outranks(h, g2)
      BY <2>7, <2>11, <3>2 DEF Winning
    <3>4. Cardinality(h) \in Nat
      BY <2>8, <3>2
    <3>5. Cardinality(h) >= Cardinality(g2)
      BY <2>9, <3>3, <3>4, OutranksMore
    <3> HIDE DEF h, g2
    <3> QED
      BY <2>9, <3>2, <3>4, <3>5
  <2>12. Assemble(u) = w
    <3> HIDE DEF u, w
    <3> QED
      BY <1>1, <2>10, <2>11 DEF Assemble
  <2> QED
    BY <2>12
<1> QED
  BY <1>2, <1>3

\* Records of one wire rebuild it when K of them hold it, and nothing otherwise.
LEMMA OneWireFound ==
    ASSUME K > 1, NEW v, NEW w \in Wire,
           \A i \in Stripe : v[i] \in {w} \cup Spoilt
    PROVE  Assemble(v) = IF Cardinality(Holders(v, w)) >= K THEN w ELSE None
<1> DEFINE H == Holders(v, w)
<1>1. ASSUME Cardinality(H) >= K PROVE Assemble(v) = w
  <2>1. IsFiniteSet(Stripe) /\ Cardinality(Stripe) = N
    BY CodingAssumption, FS_Interval DEF Stripe
  <2>2. H \in SUBSET Stripe /\ Stripe \cap H = H
    BY DEF Holders
  <2>3. Cardinality(H) \in Nat
    BY <2>2, StripeSubsets
  <2>4. Cardinality(Stripe \ H) = N - Cardinality(H)
    BY <2>1, <2>2, FS_Difference
  <2>5. Cardinality(Stripe \ H) <= N - K
    <3> HIDE DEF H
    <3> QED
      BY <1>1, <2>3, <2>4, CodingAssumption
  <2>6. \A i \in Stripe \ (Stripe \ H) : v[i] = w
    BY DEF Holders
  <2>7. Stripe \ H \in SUBSET Stripe
    OBVIOUS
  <2> HIDE DEF H
  <2> QED
    BY <2>5, <2>6, <2>7, RebuildFromK
<1>2. ASSUME Assemble(v) # None PROVE Assemble(v) = w /\ Cardinality(H) >= K
  <2>1. Assemble(v) = w
    BY <1>2, AssembleHit, ValueAssumption DEF Spoilt
  <2> QED
    BY <1>2, <2>1, AssembleHasK
<1> HIDE DEF H
<1>3. Assemble(v) = IF Cardinality(H) >= K THEN w ELSE None
  BY <1>1, <1>2
<1> QED
  BY <1>3 DEF H

\* A repair that met no fault writes what the stripes rebuild already.
MendInv ==
    \A t \in Thread :
        pc[t] = "mend" /\ ok[t] => arg[t] # None /\ Assemble(mem) = arg[t]

\* Such a repair has just judged again, or its own step is the only one that
\* writes a stripe.
LEMMA MendsOn ==
    ASSUME LInv, [Next]_vars, NEW t \in Thread, pc'[t] = "mend", ok'[t]
    PROVE  \/ Rejudge(t) \/ MendStripe(t)
           \/ pc[t] = "mend" /\ ok[t] /\ arg'[t] = arg[t] /\ mem' = mem
<1>0. TypeOK /\ LockInv /\ LabelInv /\ HurtInv
  BY DEF LInv, IInv
<1> DEFINE Rests == pc[t] = "mend" /\ ok[t] /\ arg'[t] = arg[t] /\ mem' = mem
<1>1. ASSUME NEW u \in Thread, Proceed(u)
      PROVE  Rejudge(t) \/ MendStripe(t) \/ Rests
  <2>1. CASE MendStripe(u) \/ WriteStripe(u)
    <3>1. pc[u] \in {"mend", "write"} /\ pc' = pc
      BY <2>1 DEF MendStripe, WriteStripe
    <3>2. u = t
      BY <1>0, <3>1 DEF LockInv
    <3> QED
      BY <2>1, <3>1, <3>2 DEF WriteStripe
  <2>2. CASE Rejudge(u)
    <3>1. mem' = mem /\ (u # t => pc'[t] = pc[t] /\ ok'[t] = ok[t] /\ arg'[t] = arg[t])
      BY <1>0, <2>2 DEF Rejudge, Goto, TypeOK
    <3> QED
      BY <2>2, <3>1
  <2>3. CASE Return(u)
    <3>1. mem' = mem /\ arg' = [arg EXCEPT ![u] = None]
          /\ pc' = [pc EXCEPT ![u] = "idle"] /\ ok' = [ok EXCEPT ![u] = TRUE]
      BY <2>3 DEF Return, Goto, store
    <3> QED
      BY <1>0, <3>1 DEF TypeOK
  <2>4. CASE SyncStripe(u)
    <3>1. /\ UNCHANGED <<mem, pc, arg>> /\ pc[u] = "sync"
          /\ \A x \in Thread : ok'[x] = ok[x] \/ x = u
      BY <1>0, <2>4 DEF SyncStripe, TypeOK
    <3> QED
      BY <3>1
  <2>5. CASE ~ \/ MendStripe(u) \/ WriteStripe(u) \/ Rejudge(u) \/ Return(u)
               \/ SyncStripe(u)
    <3>1. UNCHANGED <<mem, arg, ok>> /\ (pc'[t] = pc[t] \/ pc'[t] # "mend")
      BY <1>0, <1>1, <2>5
         DEF Proceed, ReadStripe, JudgeGet, JudgeContains, FinishMend, LockWrite,
             FinishWrite, FinishSync, Goto, TypeOK, store
    <3> QED
      BY <3>1
  <2> QED
    BY <2>1, <2>2, <2>3, <2>4, <2>5
<1>2. ASSUME NEW u \in Thread, Call(u) PROVE Rests
  <2>1. CASE \E w \in Wire : RefuseInsert(u, w)
    BY <2>1 DEF RefuseInsert, threads
  <2>2. CASE ~ \E w \in Wire : RefuseInsert(u, w)
    <3>1. mem' = mem /\ pc'[u] # "mend"
      BY <1>0, <1>2, <2>2
         DEF Call, BeginGet, BeginContains, BeginRemove, BeginSync, BeginInsert,
             Begin, store, TypeOK
    <3>2. \A x \in Thread \ {u} :
             pc'[x] = pc[x] /\ arg'[x] = arg[x] /\ ok'[x] = ok[x]
      BY <1>0, <1>2, <2>2
         DEF Call, BeginGet, BeginContains, BeginRemove, BeginSync, BeginInsert,
             Begin, TypeOK
    <3> QED
      BY <3>1, <3>2
  <2> QED
    BY <2>1, <2>2
<1>3. ASSUME NEW u \in Thread, BackendFails(u) PROVE Rests
  <2>1. /\ UNCHANGED <<mem, pc, arg>>
        /\ \A x \in Thread : ok'[x] => ok[x]
    BY <1>0, <1>3
       DEF BackendFails, ReadStripeFails, WriteStripeFails, SyncStripeFails, store,
           TypeOK
  <2> QED
    BY <2>1
<1>4. CASE Kill \/ PowerLoss
  BY <1>4 DEF Kill, PowerLoss, Stop
<1>5. ASSUME NEW i \in Stripe, LoseStripe(i) PROVE FALSE
  BY <1>0, <1>5 DEF LoseStripe, threads, HurtInv
<1>6. ASSUME NEW i \in Stripe, BitRot(i) PROVE FALSE
  BY <1>0, <1>6 DEF BitRot, LabelInv
<1>7. CASE Open \/ UNCHANGED vars
  BY <1>7 DEF Open, threads, vars
<1> QED
  BY <1>1, <1>2, <1>3, <1>4, <1>5, <1>6, <1>7 DEF Next, Befall

LEMMA MendStep == LInv /\ MendInv /\ [Next]_vars => MendInv'
<1> SUFFICES ASSUME LInv, MendInv, [Next]_vars,
                    NEW t \in Thread, pc'[t] = "mend", ok'[t]
             PROVE  arg'[t] # None /\ Assemble(mem') = arg'[t]
  BY DEF MendInv
<1>0. TypeOK
  BY DEF LInv, IInv
<1>1. CASE Rejudge(t)
  <2>1. PICK unread \in SUBSET Stripe :
            /\ ok' = [ok EXCEPT ![t] = @ /\ unread = {}]
            /\ IF Assemble(Reread(unread)) = None
                  \/ Holders(Reread(unread), Assemble(Reread(unread))) = Stripe
               THEN Goto(t, "done") /\ UNCHANGED <<lock, arg>>
               ELSE /\ Goto(t, "mend")
                    /\ lock' = t
                    /\ arg' = [arg EXCEPT ![t] = Assemble(Reread(unread))]
    BY <1>1 DEF Rejudge
  <2>2. unread = {} /\ mem' = mem
    BY <1>0, <1>1, <2>1 DEF Rejudge, TypeOK
  <2>3. Reread(unread) = mem
    BY <1>0, <2>2 DEF Reread, TypeOK
  <2>4. Assemble(mem) # None /\ arg'[t] = Assemble(mem)
    BY <1>0, <2>1, <2>3 DEF Goto, TypeOK
  <2> QED
    BY <2>2, <2>4
<1>2. CASE MendStripe(t)
  <2>1. /\ arg' = arg /\ pc[t] = "mend" /\ ok[t] /\ nxt[t] \in Stripe
        /\ mem' = mem \/ mem' = [mem EXCEPT ![nxt[t]] = arg[t]]
    BY <1>0, <1>2, CodingAssumption DEF MendStripe, Put, TypeOK, Stripe
  <2>2. arg[t] # None /\ Assemble(mem) = arg[t] /\ mem \in [Stripe -> Cell]
    BY <1>0, <2>1 DEF MendInv, TypeOK
  <2> QED
    BY <2>1, <2>2, StaysFound
<1>3. CASE pc[t] = "mend" /\ ok[t] /\ arg'[t] = arg[t] /\ mem' = mem
  BY <1>3 DEF MendInv
<1> QED
  BY <1>1, <1>2, <1>3, MendsOn

\* A write of one stripe moves what the stripes rebuild to its own packet, or not
\* at all.
LEMMA WriteMovesOn ==
    ASSUME LInv, MemInv', NEW t \in Thread, WriteStripe(t),
           K > 1, Cardinality(legal) <= 2,
           None \in legal \/ N - Cardinality(damaged) >= 2 * K - 1
    PROVE  Assemble(mem') \in {Assemble(mem), arg[t]}
<1> DEFINE w == arg[t]
           i == nxt[t]
           f == Assemble(mem)
           f2 == Assemble(mem')
<1>0. TypeOK /\ MemInv /\ WriteInv /\ LegalInv
  BY DEF LInv, IInv
<1>1. /\ i \in Stripe /\ w \in legal /\ legal' = legal
      /\ mem \in [Stripe -> Cell] /\ mem' = [mem EXCEPT ![i] = w]
      /\ damaged' = damaged \ {i}
  BY <1>0, CodingAssumption DEF WriteStripe, Put, TypeOK, WriteInv, Stripe
<1>2. /\ \A j \in Stripe : mem[j] \in legal \cup Spoilt
      /\ \A j \in Stripe \ damaged : mem[j] \in legal
      /\ \A j \in Stripe : mem'[j] \in legal \cup Spoilt
      /\ \A j \in Stripe \ damaged : mem'[j] \in legal
  BY <1>0, <1>1 DEF MemInv
<1>3. PICK a, b \in legal : legal = {a, b}
  BY <1>0, OneOrTwo DEF LegalInv
<1>4. f # None /\ f = w => f2 = w
  BY <1>1, StaysFound
<1>5. CASE None \in legal
  <2>1. PICK x \in legal : legal \subseteq {None, x}
    BY <1>3, <1>5
  <2>2. \A m : (\A j \in Stripe : m[j] \in legal \cup Spoilt)
                => Assemble(m) = None \/ (x \in Wire /\ Assemble(m) = x)
    BY <2>1, AssembleHit, ValueAssumption DEF Spoilt
  <2>3. /\ f = None \/ (x \in Wire /\ f = x)
        /\ f2 = None \/ (x \in Wire /\ f2 = x)
    BY <1>2, <2>2
  <2>4. CASE w = x
    BY <1>4, <2>3, <2>4
  <2>5. CASE w = None /\ f2 # None
    <3>1. x \in Wire /\ f2 = x /\ None \in Spoilt
      BY <2>3, <2>5 DEF Spoilt
    <3>2. /\ \A j \in Stripe : mem[j] \in {x} \cup Spoilt
          /\ \A j \in Stripe : mem'[j] \in {x} \cup Spoilt
      BY <1>2, <2>1, <3>1
    <3> DEFINE H == Holders(mem, x)
               H2 == Holders(mem', x)
    <3>3. H2 \subseteq H /\ H \in SUBSET Stripe /\ H2 \in SUBSET Stripe
      BY <1>1, <2>5, <3>1, ValueAssumption DEF Holders
    <3>4. /\ IsFiniteSet(H) /\ Cardinality(H) \in Nat
          /\ Cardinality(H2) \in Nat /\ Cardinality(H2) <= Cardinality(H)
      BY <3>3, StripeSubsets, FS_Subset
    <3>5. Cardinality(H2) >= K
      BY <3>1, <2>5, AssembleHasK
    <3>6. Cardinality(H) >= K
      <4> HIDE DEF H, H2
      <4> QED
        BY <3>4, <3>5, CodingAssumption
    <3>7. f = x
      BY <3>1, <3>2, <3>6, OneWireFound
    <3> QED
      BY <3>1, <3>7
  <2> QED
    BY <1>1, <2>1, <2>4, <2>5
<1>6. CASE None \notin legal
  <2>1. /\ legal \in SUBSET Wire /\ legal # {} /\ IsFiniteSet(legal)
        /\ damaged \in SUBSET Stripe
    BY <1>0, <1>6 DEF TypeOK, Packet, LegalInv
  <2>2. f \in legal /\ f2 \in legal
    BY <1>2, <1>6, <2>1, RebuildOneOf
  <2>3. f # None
    BY <1>6, <2>2
  <2>4. f2 \in {f, w}
    <3>1. w \in {a, b} /\ f \in {a, b} /\ f2 \in {a, b}
      BY <1>1, <1>3, <2>2
    <3> HIDE DEF f, f2, w
    <3> QED
      BY <1>4, <2>3, <3>1
  <2> QED
    BY <2>4
<1> QED
  BY <1>5, <1>6

\* A repair that met no fault leaves what the stripes rebuild as it was, and a
\* write moves it only to its own packet.
THEOREM FoundMovesOnCorrect == Spec => FoundMovesOn
<1>1. Init => MendInv
  BY DEF Init, MendInv
<1>2. ASSUME LInv, MendInv, [Next]_vars, NEW t \in Thread
      PROVE  /\ MendStripe(t) /\ ok[t] => Assemble(mem') = Assemble(mem)
             /\ /\ WriteStripe(t)
                /\ K > 1 /\ Cardinality(legal) <= 2
                /\ None \in legal \/ N - Cardinality(damaged) >= 2 * K - 1
                => Assemble(mem') \in {Assemble(mem), arg[t]}
  <2>1. TypeOK /\ MemInv'
    BY <1>2, IInvStep DEF LInv, IInv
  <2>2. ASSUME MendStripe(t), ok[t] PROVE Assemble(mem') = Assemble(mem)
    <3>1. /\ pc[t] = "mend" /\ nxt[t] \in Stripe /\ mem \in [Stripe -> Cell]
          /\ mem' = mem \/ mem' = [mem EXCEPT ![nxt[t]] = arg[t]]
      BY <2>1, <2>2, CodingAssumption DEF MendStripe, Put, TypeOK, Stripe
    <3>2. arg[t] # None /\ Assemble(mem) = arg[t]
      BY <1>2, <2>2, <3>1 DEF MendInv
    <3> QED
      BY <3>1, <3>2, StaysFound
  <2> QED
    BY <1>2, <2>1, <2>2, WriteMovesOn
<1>3. LInv /\ MendInv /\ [Next]_vars =>
        [\A t \in Thread :
           /\ MendStripe(t) /\ ok[t] => Assemble(mem') = Assemble(mem)
           /\ /\ WriteStripe(t)
              /\ K > 1 /\ Cardinality(legal) <= 2
              /\ None \in legal \/ N - Cardinality(damaged) >= 2 * K - 1
              => Assemble(mem') \in {Assemble(mem), arg[t]}]_vars
  BY <1>2
<1>4. Spec => Init /\ [][Next]_vars
  BY DEF Spec
<1> QED
  BY <1>1, <1>3, <1>4, MendStep, LInvCorrect, PTL DEF FoundMovesOn

-----------------------------------------------------------------------------
(***************************************************************************)
(* The store as a register: what the stripes rebuild while one write       *)
(* replaces another, and while a get reads them.                           *)
(***************************************************************************)

\* The records of an overwrite of the packet c by a that has come to stripe p.
Cut(a, c, p) == [i \in Stripe |-> IF i < p THEN a ELSE c]

\* Of the wires that K records or more hold, the one that outranks the others is
\* rebuilt.
LEMMA OutrankingFound ==
    ASSUME NEW v, NEW x \in Wire, Holders(v, BadHead) = {},
           Cardinality(Holders(v, x)) >= K,
           \A y \in Wire \ {x} : Cardinality(Holders(v, y)) >= K
                                   => Outranks(Holders(v, x), Holders(v, y))
    PROVE  Assemble(v) = x
<1> DEFINE X == Holders(v, x)
<1>1. \A y : Holders(v, y) \in SUBSET Stripe
  BY DEF Holders
<1>2. \A S : Cardinality(S) >= K => S # {}
  BY FS_EmptySet, CodingAssumption
<1>3. Groups(v) = {Holders(v, y) : y \in Wire}
  BY DEF Groups
<1>4. X \in Quorate(v)
  BY <1>3 DEF Quorate
<1>5. X \in Winning(v)
  <2>1. ASSUME NEW h \in Quorate(v), h # X PROVE Outranks(X, h)
    <3>1. PICK y \in Wire : h = Holders(v, y)
      BY <1>3 DEF Quorate
    <3>2. y # x /\ Cardinality(Holders(v, y)) >= K
      BY <2>1, <3>1 DEF Quorate
    <3> QED
      BY <3>1, <3>2
  <2> QED
    BY <1>4, <2>1 DEF Winning
<1>6. ASSUME NEW y \in Wire, Holders(v, y) \in Winning(v), y # x PROVE FALSE
  <2> DEFINE Y == Holders(v, y)
  <2>1. Y \in Quorate(v) /\ Cardinality(Y) >= K
    BY <1>6 DEF Winning, Quorate
  <2>2. X # {} /\ Y # {} /\ X \cap Y = {}
    BY <1>2, <1>6, <2>1 DEF Holders
  <2>3. Outranks(X, Y)
    BY <1>6, <2>1
  <2>4. Outranks(Y, X)
    BY <1>4, <1>6, <2>2 DEF Winning
  <2>5. X \in SUBSET Stripe /\ Y \in SUBSET Stripe
    BY <1>1
  <2> HIDE DEF X, Y
  <2> QED
    BY <2>2, <2>3, <2>4, <2>5, OneOutranks
<1> QED
  BY <1>5, <1>6 DEF Assemble

\* What is rebuilt outranks every other wire that K records hold.
LEMMA FoundOutranks ==
    ASSUME NEW v, Assemble(v) # None, NEW y \in Wire, y # Assemble(v),
           Cardinality(Holders(v, y)) >= K
    PROVE  Outranks(Holders(v, Assemble(v)), Holders(v, y))
<1> DEFINE x == Assemble(v)
<1>1. x \in Wire /\ Holders(v, x) \in Winning(v)
  BY DEF Assemble
<1>2. Holders(v, y) \in Quorate(v)
  BY DEF Quorate, Groups
<1>3. Holders(v, y) # {}
  BY FS_EmptySet, CodingAssumption
<1>4. Holders(v, y) # Holders(v, x)
  BY <1>3 DEF Holders
<1> QED
  BY <1>1, <1>2, <1>4 DEF Winning

\* One packet in every stripe is rebuilt.
LEMMA WholeFound ==
    ASSUME NEW v, NEW a \in Packet, \A i \in Stripe : v[i] = a
    PROVE  Assemble(v) = a
<1>1. CASE a = None
  BY <1>1, AssembleHit, ValueAssumption
<1>2. CASE a # None
  <2>1. a \in Wire
    BY <1>2 DEF Packet
  <2>2. IsFiniteSet(Stripe) /\ Cardinality(Stripe) = N /\ Cardinality({}) = 0
    BY CodingAssumption, FS_Interval, FS_EmptySet DEF Stripe
  <2>3. Holders(v, a) = Stripe /\ Holders(v, BadHead) = {}
    BY <2>1, ValueAssumption DEF Holders
  <2>4. \A y \in Wire \ {a} : Holders(v, y) = {}
    BY DEF Holders
  <2>5. Cardinality(Holders(v, a)) >= K
    BY <2>2, <2>3, CodingAssumption
  <2>6. \A y \in Wire \ {a} : ~ (Cardinality(Holders(v, y)) >= K)
    BY <2>2, <2>4, CodingAssumption
  <2> QED
    BY <2>1, <2>3, <2>5, <2>6, OutrankingFound
<1> QED
  BY <1>1, <1>2

\* Who holds what while an overwrite is under way.
LEMMA CutHolders ==
    ASSUME NEW a \in Packet, NEW c \in Packet, a # c, NEW p \in 1..N+1
    PROVE  /\ Holders(Cut(a, c, p), a) = 1..p-1
           /\ Holders(Cut(a, c, p), c) = p..N
           /\ \A x : x # a /\ x # c => Holders(Cut(a, c, p), x) = {}
           /\ Cardinality(1..p-1) = p - 1
           /\ Cardinality(p..N) = N - p + 1
<1>1. p \in Nat /\ 1 <= p /\ p <= N + 1
  BY CodingAssumption
<1>2. Cardinality(1..p-1) = p - 1
  <2>1. Cardinality(1..p-1) = IF 1 > p-1 THEN 0 ELSE (p-1) - 1 + 1
    BY <1>1, FS_Interval
  <2> QED
    BY <1>1, <2>1
<1>3. Cardinality(p..N) = N - p + 1
  <2>1. Cardinality(p..N) = IF p > N THEN 0 ELSE N - p + 1
    BY <1>1, CodingAssumption, FS_Interval
  <2> QED
    BY <1>1, <2>1, CodingAssumption
<1>4. /\ \A i \in Stripe : Cut(a, c, p)[i] = IF i < p THEN a ELSE c
      /\ \A i : i \in 1..p-1 <=> i \in Stripe /\ i < p
      /\ \A i : i \in p..N <=> i \in Stripe /\ ~ (i < p)
  BY <1>1, CodingAssumption DEF Cut, Stripe
<1>5. Holders(Cut(a, c, p), a) = 1..p-1
  BY <1>4 DEF Holders
<1>6. Holders(Cut(a, c, p), c) = p..N
  BY <1>4 DEF Holders
<1>7. \A x : x # a /\ x # c => Holders(Cut(a, c, p), x) = {}
  BY <1>4 DEF Holders
<1> QED
  BY <1>2, <1>3, <1>5, <1>6, <1>7

\* The old packet comes first as long as no fewer stripes hold it.
LEMMA CutOutranks ==
    ASSUME NEW p \in 2..N
    PROVE  /\ Outranks(p..N, 1..p-1) <=> N - p + 1 >= p - 1
           /\ Outranks(1..p-1, p..N) <=> p - 1 > N - p + 1
<1>1. p \in Nat /\ 2 <= p /\ p <= N /\ p \in 1..N+1
  BY CodingAssumption
<1>2. 1..p-1 \in SUBSET Stripe /\ p..N \in SUBSET Stripe
  BY <1>1, CodingAssumption DEF Stripe
<1>3. 1..p-1 # {} /\ p..N # {}
  <2>1. 1 \in 1..p-1 /\ p \in p..N
    BY <1>1, CodingAssumption
  <2> QED
    BY <2>1
<1>4. First(1..p-1) \in 1..p-1 /\ First(p..N) \in p..N
  BY <1>2, <1>3, FirstIs
<1>5. First(p..N) > First(1..p-1) /\ First(p..N) \in Nat /\ First(1..p-1) \in Nat
  BY <1>1, <1>4, CodingAssumption
<1>6. Cardinality(1..p-1) = p - 1
  <2>1. Cardinality(1..p-1) = IF 1 > p-1 THEN 0 ELSE (p-1) - 1 + 1
    BY <1>1, FS_Interval
  <2> QED
    BY <1>1, <2>1
<1>7. Cardinality(p..N) = N - p + 1
  <2>1. Cardinality(p..N) = IF p > N THEN 0 ELSE N - p + 1
    BY <1>1, CodingAssumption, FS_Interval
  <2> QED
    BY <1>1, <2>1, CodingAssumption
<1> DEFINE fa == First(1..p-1)  fc == First(p..N)
<1>8. /\ Outranks(p..N, 1..p-1)
           <=> N - p + 1 > p - 1 \/ (N - p + 1 = p - 1 /\ fc > fa)
      /\ Outranks(1..p-1, p..N)
           <=> p - 1 > N - p + 1 \/ (p - 1 = N - p + 1 /\ fa > fc)
  BY <1>6, <1>7, Zenon DEF Outranks
<1>9. fc > fa /\ fc \in Nat /\ fa \in Nat
  BY <1>5
<1> HIDE DEF fa, fc
<1> QED
  BY <1>1, <1>8, <1>9, CodingAssumption

\* What an overwrite that has come to stripe p has the stripes rebuild.
LEMMA CutFinds ==
    ASSUME NEW a \in Packet, NEW c \in Packet, a # c, NEW p \in 1..N+1
    PROVE  LET f == Assemble(Cut(a, c, p)) IN
           /\ f \in {a, c, None}
           /\ c # None =>
                (f = c <=> /\ N - p + 1 >= K
                           /\ a = None \/ p - 1 < K \/ N - p + 1 >= p - 1)
           /\ a # None =>
                (f = a <=> /\ p - 1 >= K
                           /\ c = None \/ N - p + 1 < K \/ p - 1 > N - p + 1)
<1> DEFINE m == Cut(a, c, p)
           f == Assemble(m)
<1>1. p \in Nat /\ 1 <= p /\ p <= N + 1 /\ K \in Nat /\ K >= 1 /\ N \in Nat
  BY CodingAssumption
<1>2. /\ Holders(m, a) = 1..p-1 /\ Holders(m, c) = p..N
      /\ \A x : x # a /\ x # c => Holders(m, x) = {}
      /\ Cardinality(Holders(m, a)) = p - 1
      /\ Cardinality(Holders(m, c)) = N - p + 1
  BY CutHolders
<1>3. a # BadHead /\ c # BadHead /\ (a # None => a \in Wire) /\ (c # None => c \in Wire)
  BY ValueAssumption DEF Packet
<1>4. Holders(m, BadHead) = {}
  BY <1>2, <1>3
<1>5. ASSUME NEW x, x # a, x # c PROVE ~ (Cardinality(Holders(m, x)) >= K)
  <2>1. Holders(m, x) = {}
    BY <1>2, <1>5
  <2>2. Cardinality(Holders(m, x)) = 0
    BY <2>1, FS_EmptySet
  <2> HIDE DEF m
  <2> QED
    BY <1>1, <2>2
<1>6. \A i \in Stripe : m[i] = a \/ m[i] = c
  BY DEF Cut
<1>7. f \in {a, c, None}
  BY <1>6, AssembleHit
<1>8. p - 1 >= K /\ N - p + 1 >= K
        => p \in 2..N /\ (Outranks(Holders(m, c), Holders(m, a)) <=> N - p + 1 >= p - 1)
                      /\ (Outranks(Holders(m, a), Holders(m, c)) <=> p - 1 > N - p + 1)
  <2>1. SUFFICES ASSUME p - 1 >= K, N - p + 1 >= K
                 PROVE  /\ p \in 2..N
                        /\ (Outranks(Holders(m, c), Holders(m, a)) <=> N - p + 1 >= p - 1)
                        /\ (Outranks(Holders(m, a), Holders(m, c)) <=> p - 1 > N - p + 1)
    OBVIOUS
  <2>2. p \in 2..N
    BY <1>1, <2>1
  <2> QED
    BY <1>2, <2>2, CutOutranks
<1> HIDE DEF m
<1>9. ASSUME c # None, N - p + 1 >= K, a = None \/ p - 1 < K \/ N - p + 1 >= p - 1
      PROVE  f = c
  <2>1. ASSUME NEW y \in Wire \ {c}, Cardinality(Holders(m, y)) >= K
        PROVE  Outranks(Holders(m, c), Holders(m, y))
    <3>1. y = a /\ a # None /\ p - 1 >= K
      BY <1>2, <1>5, <2>1, ValueAssumption
    <3>2. N - p + 1 >= p - 1
      BY <1>1, <1>9, <3>1
    <3> QED
      BY <1>8, <1>9, <3>1, <3>2
  <2>2. c \in Wire /\ Cardinality(Holders(m, c)) >= K
    BY <1>2, <1>3, <1>9
  <2> QED
    BY <1>4, <2>1, <2>2, OutrankingFound
<1>10. ASSUME a # None, p - 1 >= K, c = None \/ N - p + 1 < K \/ p - 1 > N - p + 1
       PROVE  f = a
  <2>1. ASSUME NEW y \in Wire \ {a}, Cardinality(Holders(m, y)) >= K
        PROVE  Outranks(Holders(m, a), Holders(m, y))
    <3>1. y = c /\ c # None /\ N - p + 1 >= K
      BY <1>2, <1>5, <2>1, ValueAssumption
    <3>2. p - 1 > N - p + 1
      BY <1>1, <1>10, <3>1
    <3> QED
      BY <1>8, <1>10, <3>1, <3>2
  <2>2. a \in Wire /\ Cardinality(Holders(m, a)) >= K
    BY <1>2, <1>3, <1>10
  <2> QED
    BY <1>4, <2>1, <2>2, OutrankingFound
<1>11. ASSUME c # None, f = c
       PROVE  /\ N - p + 1 >= K
              /\ a = None \/ p - 1 < K \/ N - p + 1 >= p - 1
  <2>1. N - p + 1 >= K
    BY <1>2, <1>11, AssembleHasK
  <2>2. ASSUME a # None, p - 1 >= K PROVE N - p + 1 >= p - 1
    <3>1. a \in Wire /\ a # f /\ Cardinality(Holders(m, a)) >= K
      BY <1>2, <1>3, <1>11, <2>2
    <3>2. Outranks(Holders(m, f), Holders(m, a))
      BY <1>11, <3>1, FoundOutranks
    <3> QED
      BY <1>8, <1>11, <2>1, <2>2, <3>2
  <2>3. p - 1 < K \/ p - 1 >= K
    BY <1>1
  <2> QED
    BY <2>1, <2>2, <2>3
<1>12. ASSUME a # None, f = a
       PROVE  /\ p - 1 >= K
              /\ c = None \/ N - p + 1 < K \/ p - 1 > N - p + 1
  <2>1. p - 1 >= K
    BY <1>2, <1>12, AssembleHasK
  <2>2. ASSUME c # None, N - p + 1 >= K PROVE p - 1 > N - p + 1
    <3>1. c \in Wire /\ c # f /\ Cardinality(Holders(m, c)) >= K
      BY <1>2, <1>3, <1>12, <2>2
    <3>2. Outranks(Holders(m, f), Holders(m, c))
      BY <1>12, <3>1, FoundOutranks
    <3> QED
      BY <1>8, <1>12, <2>1, <2>2, <3>2
  <2>3. N - p + 1 < K \/ N - p + 1 >= K
    BY <1>1
  <2> QED
    BY <2>1, <2>2, <2>3
<1>13. /\ f \in {a, c, None}
       /\ c # None =>
            (f = c <=> /\ N - p + 1 >= K
                       /\ a = None \/ p - 1 < K \/ N - p + 1 >= p - 1)
       /\ a # None =>
            (f = a <=> /\ p - 1 >= K
                       /\ c = None \/ N - p + 1 < K \/ p - 1 > N - p + 1)
  BY <1>7, <1>9, <1>10, <1>11, <1>12
<1> QED
  BY <1>13 DEF m

\* A stripe more of an overwrite moves what is rebuilt to the new packet, or not
\* at all.
LEMMA CutMovesOn ==
    ASSUME N >= 2 * K - 1,
           NEW a \in Packet, NEW c \in Packet, NEW p \in Stripe
    PROVE  Assemble(Cut(a, c, p + 1)) \in {Assemble(Cut(a, c, p)), a}
<1>1. p \in 1..N+1 /\ p + 1 \in 1..N+1 /\ p \in Nat /\ 1 <= p /\ p <= N
      /\ K \in Nat /\ K >= 1 /\ N \in Nat
  BY CodingAssumption DEF Stripe
<1>2. CASE a = c
  <2>1. Cut(a, c, p + 1) = Cut(a, c, p)
    BY <1>2 DEF Cut
  <2> QED
    BY <2>1
<1>3. CASE a # c
  <2> DEFINE f == Assemble(Cut(a, c, p))
             g == Assemble(Cut(a, c, p + 1))
             q == p + 1
  <2>1. /\ f \in {a, c, None}
        /\ c # None =>
             (f = c <=> /\ N - p + 1 >= K
                        /\ a = None \/ p - 1 < K \/ N - p + 1 >= p - 1)
        /\ a # None =>
             (f = a <=> /\ p - 1 >= K
                        /\ c = None \/ N - p + 1 < K \/ p - 1 > N - p + 1)
    BY <1>1, <1>3, CutFinds
  <2>2. /\ g \in {a, c, None}
        /\ c # None =>
             (g = c <=> /\ N - q + 1 >= K
                        /\ a = None \/ q - 1 < K \/ N - q + 1 >= q - 1)
        /\ a # None =>
             (g = a <=> /\ q - 1 >= K
                        /\ c = None \/ N - q + 1 < K \/ q - 1 > N - q + 1)
    BY <1>1, <1>3, CutFinds
  <2>3. q = p + 1
    OBVIOUS
  <2> HIDE DEF f, g, q
  <2>4. g \in {f, a}
    <3>1. CASE a = None \/ c = None
      BY <1>1, <1>3, <2>1, <2>2, <2>3, <3>1
    <3>2. CASE a # None /\ c # None /\ g # a
      <4>1. g = c
        BY <1>1, <2>2, <2>3, <3>2
      <4>2. f = c
        BY <1>1, <2>1, <2>2, <2>3, <3>2, <4>1
      <4> QED
        BY <4>1, <4>2
    <3> QED
      BY <3>1, <3>2
  <2> QED
    BY <2>4 DEF f, g
<1> QED
  BY <1>2, <1>3

\* Records that hold one packet in every stripe before m rebuild no other wire x
\* that the stripes from m on would not outweigh it with.
LEMMA SealedUnread ==
    ASSUME NEW v \in [Stripe -> Packet], NEW x \in Wire, NEW a \in Packet \ {x},
           NEW m \in 1..N+1, \A i \in Stripe : i < m => v[i] = a,
           Assemble(v) = x
    PROVE  Assemble(Cut(a, x, m)) = x
<1> DEFINE X == Holders(v, x)
           A == Holders(v, a)
<1>1. m \in Nat /\ 1 <= m /\ m <= N + 1 /\ K \in Nat /\ K >= 1 /\ N \in Nat
  BY CodingAssumption
<1>2. x \in Packet /\ x # None /\ (a # None => a \in Wire)
  BY ValueAssumption DEF Packet
<1>3. /\ Cardinality(1..m-1) = m - 1 /\ Cardinality(m..N) = N - m + 1
  BY <1>2, CutHolders
<1>4. /\ X \in SUBSET Stripe /\ A \in SUBSET Stripe
      /\ m..N \in SUBSET Stripe /\ 1..m-1 \in SUBSET Stripe
  BY <1>1 DEF Holders, Stripe
<1>5. 1..m-1 \subseteq A /\ X \subseteq m..N /\ X \cap A = {}
  <2>1. \A i \in 1..m-1 : i \in Stripe /\ i < m
    BY <1>1 DEF Stripe
  <2>2. \A i \in Stripe : ~ (i < m) => i \in m..N
    BY <1>1 DEF Stripe
  <2> QED
    BY <2>1, <2>2 DEF Holders
<1>6. /\ Cardinality(X) \in Nat /\ Cardinality(A) \in Nat
      /\ Cardinality(X) <= N - m + 1 /\ m - 1 <= Cardinality(A)
  <2>1. IsFiniteSet(A) /\ IsFiniteSet(m..N)
    BY <1>4, StripeSubsets
  <2>2. Cardinality(X) <= Cardinality(m..N) /\ Cardinality(1..m-1) <= Cardinality(A)
    BY <1>5, <2>1, FS_Subset
  <2>3. Cardinality(X) \in Nat /\ Cardinality(A) \in Nat
    BY <1>4, StripeSubsets
  <2> HIDE DEF X, A
  <2> QED
    BY <1>3, <2>2, <2>3
<1>7. Cardinality(X) >= K
  BY <1>2, AssembleHasK
<1>8. ASSUME a # None, m - 1 >= K PROVE N - m + 1 >= m - 1
  <2>1. a \in Wire /\ a # Assemble(v) /\ Assemble(v) # None
    BY <1>2, <1>8
  <2>2. Cardinality(A) >= K
    <3> HIDE DEF A
    <3> QED
      BY <1>1, <1>6, <1>8
  <2>3. Outranks(X, A)
    BY <2>1, <2>2, FoundOutranks
  <2>4. Cardinality(X) >= Cardinality(A)
    BY <1>6, <2>3, OutranksMore
  <2> HIDE DEF A, X
  <2> QED
    BY <1>1, <1>6, <2>4
<1> HIDE DEF A, X
<1>9. N - m + 1 >= K
  BY <1>1, <1>6, <1>7
<1>10. a = None \/ m - 1 < K \/ N - m + 1 >= m - 1
  BY <1>1, <1>8
<1> QED
  BY <1>2, <1>9, <1>10, CutFinds

\* Records of a write of x over c that has come to stripe p, where nothing but the
\* two follows x, rebuild x only if the stripes do.
LEMMA ComingUnread ==
    ASSUME NEW v \in [Stripe -> Packet], NEW x \in Wire, NEW c \in Packet \ {x},
           NEW p \in 1..N+1, \A i \in Stripe : v[i] = x => i < p,
           \A i, j \in Stripe : v[i] = x /\ i < j => v[j] \in {x, c},
           Assemble(v) = x
    PROVE  Assemble(Cut(x, c, p)) = x
<1> DEFINE X == Holders(v, x)
           C == Holders(v, c)
<1>1. p \in Nat /\ 1 <= p /\ p <= N + 1 /\ K \in Nat /\ K >= 1 /\ N \in Nat
  BY CodingAssumption
<1>2. x \in Packet /\ x # None /\ (c # None => c \in Wire)
  BY ValueAssumption DEF Packet
<1>3. /\ Cardinality(1..p-1) = p - 1 /\ Cardinality(p..N) = N - p + 1
  BY <1>2, CutHolders
<1>4. /\ X \in SUBSET Stripe /\ C \in SUBSET Stripe
      /\ p..N \in SUBSET Stripe /\ 1..p-1 \in SUBSET Stripe
  BY <1>1 DEF Holders, Stripe
<1>5. X # {} /\ Cardinality(X) >= K
  BY <1>2, AssembleHit, AssembleHasK DEF Holders
<1>6. X \subseteq 1..p-1 /\ p..N \subseteq C /\ X \cap C = {}
  <2>1. \A i \in Stripe : i < p => i \in 1..p-1
    BY <1>1 DEF Stripe
  <2>2. PICK i \in Stripe : v[i] = x
    BY <1>5 DEF Holders
  <2>3. i < p
    BY <2>2
  <2>4. \A j \in p..N : j \in Stripe /\ i < j /\ ~ (j < p)
    BY <1>1, <2>3 DEF Stripe
  <2> QED
    BY <2>1, <2>2, <2>4 DEF Holders
<1>7. /\ Cardinality(X) \in Nat /\ Cardinality(C) \in Nat
      /\ Cardinality(X) <= p - 1 /\ N - p + 1 <= Cardinality(C)
  <2>1. IsFiniteSet(C) /\ IsFiniteSet(1..p-1)
    BY <1>4, StripeSubsets
  <2>2. Cardinality(X) <= Cardinality(1..p-1) /\ Cardinality(p..N) <= Cardinality(C)
    BY <1>6, <2>1, FS_Subset
  <2>3. Cardinality(X) \in Nat /\ Cardinality(C) \in Nat
    BY <1>4, StripeSubsets
  <2> HIDE DEF X, C
  <2> QED
    BY <1>3, <2>2, <2>3
<1>8. ASSUME c # None, N - p + 1 >= K PROVE p - 1 > N - p + 1
  <2>1. c \in Wire /\ c # Assemble(v) /\ Assemble(v) # None
    BY <1>2, <1>8
  <2>2. Cardinality(C) >= K
    <3> HIDE DEF C
    <3> QED
      BY <1>1, <1>7, <1>8
  <2>3. Outranks(X, C)
    BY <2>1, <2>2, FoundOutranks
  <2>4. Cardinality(X) >= Cardinality(C)
    BY <1>7, <2>3, OutranksMore
  <2>5. First(X) < First(C) \/ Cardinality(X) # Cardinality(C) \/ C # p..N
    <3>1. SUFFICES ASSUME C = p..N PROVE First(X) < First(C)
      OBVIOUS
    <3>2. C # {}
      BY <1>1, <2>2, FS_EmptySet
    <3>3. First(X) \in X /\ First(C) \in C
      BY <1>4, <1>5, <3>2, FirstIs
    <3>4. First(X) \in 1..p-1 /\ First(C) \in p..N
      BY <1>6, <3>1, <3>3
    <3> HIDE DEF X, C
    <3> QED
      BY <1>1, <3>4
  <2>6. C # p..N => Cardinality(C) > N - p + 1
    <3>1. SUFFICES ASSUME C # p..N PROVE Cardinality(C) > N - p + 1
      OBVIOUS
    <3>2. IsFiniteSet(C)
      BY <1>4, StripeSubsets
    <3>3. Cardinality(p..N) # Cardinality(C)
      BY <1>6, <3>1, <3>2, FS_Subset
    <3> HIDE DEF C
    <3> QED
      BY <1>1, <1>3, <1>7, <3>3
  <2>7. First(X) \in Nat /\ First(C) \in Nat
    <3>1. C # {}
      BY <1>1, <2>2, FS_EmptySet
    <3>2. First(X) \in Stripe /\ First(C) \in Stripe
      BY <1>4, <1>5, <3>1, FirstIs
    <3> QED
      BY <1>1, <3>2 DEF Stripe
  <2> DEFINE fx == First(X)  fc == First(C)  cx == Cardinality(X)  cc == Cardinality(C)
  <2>8. cx > cc \/ (cx = cc /\ fx > fc)
    BY <2>3, Zenon DEF Outranks
  <2>9. /\ fx \in Nat /\ fc \in Nat /\ cx \in Nat /\ cc \in Nat
        /\ fx < fc \/ cx # cc \/ C # p..N
        /\ C # p..N => cc > N - p + 1
        /\ cx <= p - 1 /\ N - p + 1 <= cc
    BY <1>7, <2>5, <2>6, <2>7
  <2> HIDE DEF fx, fc, cx, cc, C, X
  <2> QED
    BY <1>1, <2>8, <2>9
<1> HIDE DEF C, X
<1>9. p - 1 >= K
  BY <1>1, <1>5, <1>7
<1>10. c = None \/ N - p + 1 < K \/ p - 1 > N - p + 1
  BY <1>1, <1>8
<1> QED
  BY <1>2, <1>9, <1>10, CutFinds

-----------------------------------------------------------------------------
(***************************************************************************)
(* The inductive invariant, which holds until the first fault.             *)
(***************************************************************************)

\* The stripes hold one packet, but for those a writer has passed.
CutInv ==
    /\ mem[N] \in Packet
    /\ \A u \in Thread : pc[u] = "write" =>
         \A i \in Stripe : mem[i] = IF i < nxt[u] THEN arg[u] ELSE mem[N]
    /\ (\A u \in Thread : pc[u] # "write") => \A i \in Stripe : mem[i] = mem[N]
    /\ \A u \in Thread : pc[u] # "mend"

\* A get remembers what is rebuilt now.
FoundInv ==
    /\ found \in [Thread -> SUBSET Packet]
    /\ \A t \in Thread :
         IF op[t] = "get" THEN Assemble(mem) \in found[t] ELSE found[t] = {}

\* t's get has read one packet in every stripe before m, and x in none of them; all
\* of the others together would not rebuild x.
Sealed(t, x) ==
    \E a \in Packet \ {x} : \E m \in 1..N+1 :
        /\ m <= nxt[t]
        /\ \A i \in Stripe : i < m => view[t][i] = a
        /\ Assemble(Cut(a, x, m)) # x

\* What t's get has read of x is of a write of x that is still under way.
Coming(t, x) ==
    \E u \in Thread :
        /\ pc[u] = "write" /\ arg[u] = x /\ mem[N] # x
        /\ \A i \in Stripe : view[t][i] = x =>
             /\ i < nxt[u]
             /\ \A j \in Stripe : i < j /\ j < nxt[t] => view[t][j] \in {x, mem[N]}

\* The records a get has read so far.  A wire among them that was not rebuilt since
\* it began is one being written or one it can no longer answer with.
PartInv(t) ==
    /\ \A i \in Stripe : view[t][i] \in Packet /\ (i >= nxt[t] => view[t][i] = None)
    /\ \A x \in Wire \ found[t] :
         (\E i \in Stripe : view[t][i] = x) => Sealed(t, x) \/ Coming(t, x)
    /\ \A u \in Thread : pc[u] = "write" /\ mem[N] \in Wire \ found[t] =>
         \A i \in Stripe : i < nxt[t] => view[t][i] \in {arg[u], mem[N]}

GetInv(t) ==
    op[t] = "get" =>
        /\ pc[t] = "read" => PartInv(t)
        /\ pc[t] \in {"repair", "done"} => out[t] \in found[t] \cup {None}

RegInv == faults = 0 => CutInv /\ FoundInv /\ \A t \in Thread : GetInv(t)

\* found grows with the reads.
Watched ==
    found' = [t \in Thread |->
                IF op'[t] = "get" THEN found[t] \cup {Assemble(mem')} ELSE {}]

-----------------------------------------------------------------------------
\* A step that changes no stripe and starts or ends no write.
Calm ==
    /\ mem' = mem
    /\ \A u \in Thread :
         /\ pc'[u] = "write" <=> pc[u] = "write"
         /\ pc[u] = "write" => arg'[u] = arg[u] /\ nxt'[u] = nxt[u]
         /\ pc'[u] # "mend"

\* Without a fault there was none.
LEMMA NoFaultYet ==
    ASSUME TypeOK, [Next]_vars, faults' = 0
    PROVE  faults = 0
<1>0. faults \in Nat
  BY DEF TypeOK
<1>1. CASE UNCHANGED faults
  BY <1>1
<1>2. ASSUME NEW n \in Nat, Fault(n) PROVE faults = 0
  BY <1>0, <1>2 DEF Fault
<1>3. ASSUME NEW t \in Thread, Proceed(t) PROVE faults = 0
  <2>1. CASE Rejudge(t)
    <3>1. PICK unread \in SUBSET Stripe : Fault(Cardinality(unread))
      BY <2>1 DEF Rejudge
    <3> QED
      BY <1>2, <3>1, StripeSubsets
  <2>2. CASE ~ Rejudge(t)
    BY <1>1, <1>3, <2>2
       DEF Proceed, ReadStripe, JudgeGet, JudgeContains, MendStripe, FinishMend,
           LockWrite, WriteStripe, FinishWrite, SyncStripe, FinishSync, Return
  <2> QED
    BY <2>1, <2>2
<1>4. ASSUME NEW t \in Thread, Call(t) PROVE faults = 0
  BY <1>1, <1>4
     DEF Call, BeginGet, BeginContains, BeginRemove, BeginSync, BeginInsert, Begin,
         RefuseInsert
<1>5. ASSUME NEW t \in Thread, BackendFails(t) PROVE faults = 0
  BY <1>2, <1>5
     DEF BackendFails, ReadStripeFails, WriteStripeFails, SyncStripeFails
<1>6. CASE Befall
  BY <1>2, <1>6 DEF Befall, Kill, PowerLoss, LoseStripe, BitRot
<1>7. CASE Open \/ UNCHANGED vars
  BY <1>1, <1>7 DEF Open, vars
<1> QED
  BY <1>3, <1>4, <1>5, <1>6, <1>7 DEF Next

\* A step that is no fault is one of the code's.
LEMMA FaultCounts ==
    ASSUME TypeOK, faults' = 0
    PROVE  /\ \A t \in Thread : ~ BackendFails(t)
           /\ ~ Befall
<1>1. faults \in Nat
  BY DEF TypeOK
<1>2. ~ Fault(1)
  BY <1>1 DEF Fault
<1> QED
  BY <1>2
     DEF BackendFails, ReadStripeFails, WriteStripeFails, SyncStripeFails, Befall,
         Kill, PowerLoss, LoseStripe, BitRot

\* A repair that judges again finds nothing to mend.
LEMMA NothingToMend ==
    ASSUME LInv, CutInv, NEW t \in Thread, Rejudge(t), faults' = 0
    PROVE  /\ pc' = [pc EXCEPT ![t] = "done"] /\ UNCHANGED <<lock, arg>>
<1>0. TypeOK /\ LockInv
  BY DEF LInv, IInv
<1>1. PICK unread \in SUBSET Stripe :
            /\ Fault(Cardinality(unread))
            /\ IF Assemble(Reread(unread)) = None
                  \/ Holders(Reread(unread), Assemble(Reread(unread))) = Stripe
               THEN Goto(t, "done") /\ UNCHANGED <<lock, arg>>
               ELSE /\ Goto(t, "mend")
                    /\ lock' = t
                    /\ arg' = [arg EXCEPT ![t] = Assemble(Reread(unread))]
  BY DEF Rejudge
<1>2. unread = {}
  <2>1. Cardinality(unread) \in Nat /\ IsFiniteSet(unread)
    BY StripeSubsets
  <2>2. Cardinality(unread) = 0
    BY <1>0, <1>1, <2>1 DEF Fault, TypeOK
  <2> QED
    BY <2>1, <2>2, FS_EmptySet
<1>3. Reread(unread) = mem
  BY <1>0, <1>2 DEF Reread, TypeOK
<1>4. \A u \in Thread : pc[u] # "write"
  BY <1>0, ValueAssumption DEF Rejudge, LockInv
<1>5. \A i \in Stripe : mem[i] = mem[N]
  BY <1>4 DEF CutInv
<1>6. Assemble(mem) = mem[N]
  BY <1>5, WholeFound DEF CutInv
<1>7. Holders(mem, Assemble(mem)) = Stripe
  BY <1>5, <1>6 DEF Holders
<1> QED
  BY <1>1, <1>3, <1>7 DEF Goto

\* Every step but a write's is calm.
LEMMA CalmOrWrite ==
    ASSUME LInv, CutInv, [Next]_vars, faults' = 0
    PROVE  Calm \/ \E u \in Thread : LockWrite(u) \/ WriteStripe(u) \/ FinishWrite(u)
<1>0. TypeOK /\ LabelInv
  BY DEF LInv, IInv
<1>1. ASSUME NEW t \in Thread, Proceed(t),
             ~ (LockWrite(t) \/ WriteStripe(t) \/ FinishWrite(t))
      PROVE  Calm
  <2>1. CASE Rejudge(t)
    <3>1. /\ mem' = mem /\ arg' = arg /\ pc' = [pc EXCEPT ![t] = "done"]
          /\ nxt' = [nxt EXCEPT ![t] = 1] /\ pc[t] = "repair"
      BY <2>1, NothingToMend DEF Rejudge
    <3> QED
      BY <1>0, <3>1 DEF Calm, CutInv, TypeOK
  <2>2. CASE MendStripe(t) \/ FinishMend(t)
    BY <2>2 DEF MendStripe, FinishMend, CutInv
  <2>3. CASE ReadStripe(t)
    BY <1>0, <2>3 DEF ReadStripe, Advance, store, Calm, CutInv, TypeOK
  <2>4. CASE JudgeGet(t)
    BY <1>0, <2>4 DEF JudgeGet, Goto, store, Calm, CutInv, TypeOK
  <2>5. CASE JudgeContains(t)
    BY <1>0, <2>5 DEF JudgeContains, Goto, store, Calm, CutInv, TypeOK
  <2>6. CASE SyncStripe(t)
    BY <1>0, <2>6 DEF SyncStripe, Advance, Calm, CutInv, TypeOK
  <2>7. CASE FinishSync(t)
    BY <1>0, <2>7 DEF FinishSync, Goto, store, Calm, CutInv, TypeOK
  <2>8. CASE Return(t)
    BY <1>0, <2>8 DEF Return, Goto, store, Calm, CutInv, TypeOK
  <2> QED
    BY <1>1, <2>1, <2>2, <2>3, <2>4, <2>5, <2>6, <2>7, <2>8 DEF Proceed
<1>2. ASSUME NEW t \in Thread, Call(t) PROVE Calm
  <2>1. CASE \E w \in Wire : RefuseInsert(t, w)
    BY <2>1 DEF RefuseInsert, threads, Calm, CutInv
  <2>2. CASE ~ \E w \in Wire : RefuseInsert(t, w)
    <3>1. /\ mem' = mem /\ nxt' = nxt /\ pc[t] = "idle"
          /\ pc'[t] \notin {"write", "mend"}
          /\ \A u \in Thread \ {t} : pc'[u] = pc[u] /\ arg'[u] = arg[u]
      BY <1>0, <1>2, <2>2
         DEF Call, BeginGet, BeginContains, BeginRemove, BeginSync, BeginInsert,
             Begin, store, TypeOK
    <3> QED
      BY <3>1 DEF Calm, CutInv
  <2> QED
    BY <2>1, <2>2
<1>3. CASE Open
  BY <1>3 DEF Open, threads, Calm, CutInv
<1>4. CASE UNCHANGED vars
  BY <1>4 DEF vars, Calm, CutInv
<1> QED
  BY <1>0, <1>1, <1>2, <1>3, <1>4, FaultCounts DEF Next

-----------------------------------------------------------------------------
\* A write takes the lock when nobody writes, and is the only one until it is done.
LEMMA Alone ==
    ASSUME LInv, NEW u \in Thread
    PROVE  /\ LockWrite(u) => \A v \in Thread : pc[v] # "write"
           /\ pc[u] = "write" => \A v \in Thread : pc[v] = "write" => v = u
<1>1. LockInv
  BY DEF LInv, IInv
<1> QED
  BY <1>1, ValueAssumption DEF LockInv, LockWrite

\* What the stripes rebuild, in the middle of a write and outside one.
LEMMA CutFound ==
    ASSUME LInv, CutInv
    PROVE  /\ \A u \in Thread : pc[u] = "write" =>
                /\ mem = Cut(arg[u], mem[N], nxt[u])
                /\ arg[u] \in Packet /\ nxt[u] \in 1..N+1
                /\ nxt[u] > N => Assemble(mem) = arg[u]
                /\ arg[u] = mem[N] => Assemble(mem) = mem[N]
           /\ (\A u \in Thread : pc[u] # "write") => Assemble(mem) = mem[N]
<1>0. TypeOK
  BY DEF LInv, IInv
<1>1. ASSUME NEW u \in Thread, pc[u] = "write"
      PROVE  /\ mem = Cut(arg[u], mem[N], nxt[u])
             /\ arg[u] \in Packet /\ nxt[u] \in 1..N+1
             /\ nxt[u] > N => Assemble(mem) = arg[u]
             /\ arg[u] = mem[N] => Assemble(mem) = mem[N]
  <2>1. \A i \in Stripe : mem[i] = IF i < nxt[u] THEN arg[u] ELSE mem[N]
    BY <1>1 DEF CutInv
  <2>2. mem = Cut(arg[u], mem[N], nxt[u])
    BY <1>0, <2>1 DEF TypeOK, Cut
  <2>3. arg[u] \in Packet /\ nxt[u] \in 1..N+1
    BY <1>0 DEF TypeOK
  <2>4. ASSUME nxt[u] > N PROVE \A i \in Stripe : mem[i] = arg[u]
    <3>1. \A i \in Stripe : i < nxt[u]
      BY <2>3, <2>4, CodingAssumption DEF Stripe
    <3> QED
      BY <2>1, <3>1
  <2>5. ASSUME arg[u] = mem[N] PROVE \A i \in Stripe : mem[i] = arg[u]
    BY <2>1, <2>5
  <2> QED
    BY <2>2, <2>3, <2>4, <2>5, WholeFound
<1>2. ASSUME \A u \in Thread : pc[u] # "write" PROVE Assemble(mem) = mem[N]
  BY <1>2, WholeFound DEF CutInv
<1> QED
  BY <1>1, <1>2

\* What one stripe more of a write does.
LEMMA WriteGoesOn ==
    ASSUME LInv, CutInv, NEW u \in Thread, WriteStripe(u)
    PROVE  /\ nxt[u] \in Stripe /\ mem' = [mem EXCEPT ![nxt[u]] = arg[u]]
           /\ nxt' = [nxt EXCEPT ![u] = @ + 1] /\ nxt'[u] = nxt[u] + 1
           /\ pc' = pc /\ arg' = arg /\ arg[u] \in Packet
           /\ mem'[N] = IF nxt[u] = N THEN arg[u] ELSE mem[N]
           /\ \A i \in Stripe : mem'[i] = IF i < nxt'[u] THEN arg[u] ELSE mem'[N]
           /\ nxt[u] = N => Assemble(mem') = arg[u]
<1>0. TypeOK
  BY DEF LInv, IInv
<1>1. /\ nxt[u] \in Stripe /\ mem' = [mem EXCEPT ![nxt[u]] = arg[u]]
      /\ nxt' = [nxt EXCEPT ![u] = @ + 1] /\ nxt'[u] = nxt[u] + 1
      /\ pc' = pc /\ arg' = arg /\ arg[u] \in Packet /\ pc[u] = "write"
  BY <1>0, CodingAssumption DEF WriteStripe, Put, Advance, TypeOK, Stripe
<1>2. N \in Stripe /\ mem \in [Stripe -> Cell] /\ nxt[u] \in Nat /\ nxt[u] <= N
  BY <1>0, <1>1, CodingAssumption DEF Stripe, TypeOK
<1>3. mem'[N] = IF nxt[u] = N THEN arg[u] ELSE mem[N]
  BY <1>1, <1>2
<1>4. \A i \in Stripe : i \in Nat /\ i <= N
  BY CodingAssumption DEF Stripe
<1>5. \A i \in Stripe : mem[i] = IF i < nxt[u] THEN arg[u] ELSE mem[N]
  BY <1>1 DEF CutInv
<1>6. ASSUME NEW i \in Stripe
      PROVE  mem'[i] = IF i < nxt'[u] THEN arg[u] ELSE mem'[N]
  <2>1. CASE i = nxt[u]
    BY <1>1, <1>2, <2>1
  <2>2. CASE i # nxt[u]
    <3>1. mem'[i] = mem[i]
      BY <1>1, <1>2, <2>2
    <3>2. (i < nxt'[u] <=> i < nxt[u]) /\ (nxt[u] = N => i < nxt[u])
      BY <1>1, <1>2, <1>4, <2>2
    <3> QED
      BY <1>3, <1>5, <3>1, <3>2
  <2> QED
    BY <2>1, <2>2
<1>7. ASSUME nxt[u] = N PROVE Assemble(mem') = arg[u]
  <2>1. \A i \in Stripe : mem'[i] = arg[u]
    BY <1>3, <1>6, <1>7
  <2> QED
    BY <1>1, <2>1, WholeFound
<1> QED
  BY <1>1, <1>3, <1>6, <1>7

LEMMA CutStep ==
    ASSUME LInv, CutInv, [Next]_vars, faults' = 0
    PROVE  CutInv'
<1>0. TypeOK /\ \A i \in Stripe : i \in Nat /\ i <= N
  BY CodingAssumption DEF LInv, IInv, Stripe
<1>1. CASE Calm
  BY <1>1 DEF Calm, CutInv
<1>2. ASSUME NEW u \in Thread, LockWrite(u) PROVE CutInv'
  <2>1. /\ mem' = mem /\ arg' = arg /\ nxt' = nxt /\ nxt[u] = 1
        /\ pc' = [pc EXCEPT ![u] = "write"]
    BY <1>2 DEF LockWrite, Goto, LInv, IInv, LabelInv
  <2>2. \A i \in Stripe : mem[i] = mem[N]
    BY <1>2, Alone DEF CutInv
  <2>3. \A v \in Thread : pc'[v] = "write" => v = u
    BY <1>0, <1>2, <2>1, Alone DEF TypeOK
  <2>4. \A i \in Stripe : ~ (i < 1)
    BY CodingAssumption DEF Stripe
  <2> QED
    BY <1>0, <2>1, <2>2, <2>3, <2>4 DEF CutInv, TypeOK
<1>3. ASSUME NEW u \in Thread, WriteStripe(u) PROVE CutInv'
  <2>1. pc[u] = "write"
    BY <1>3 DEF WriteStripe
  <2>2. \A v \in Thread : pc[v] = "write" => v = u
    BY <2>1, Alone
  <2> QED
    BY <1>3, <2>1, <2>2, WriteGoesOn DEF CutInv
<1>4. ASSUME NEW u \in Thread, FinishWrite(u) PROVE CutInv'
  <2>1. /\ mem' = mem /\ arg' = arg /\ nxt' = nxt /\ nxt[u] > N
        /\ pc' = [pc EXCEPT ![u] = "done"] /\ pc[u] = "write"
    BY <1>4 DEF FinishWrite, Goto
  <2>2. \A i \in Stripe : i < nxt[u]
    BY <1>0, <2>1, CodingAssumption DEF TypeOK
  <2>3. \A i \in Stripe : mem[i] = arg[u]
    BY <2>1, <2>2 DEF CutInv
  <2>4. N \in Stripe
    BY CodingAssumption DEF Stripe
  <2>5. \A v \in Thread : pc'[v] # "write"
    BY <1>0, <2>1, Alone DEF TypeOK
  <2> QED
    BY <1>0, <2>1, <2>3, <2>4, <2>5 DEF CutInv, TypeOK
<1> QED
  BY <1>1, <1>2, <1>3, <1>4, CalmOrWrite

-----------------------------------------------------------------------------
(***************************************************************************)
(* A get under way, while others take their steps.                         *)
(***************************************************************************)

\* What no step of another thread changes for t, but the stripes.
Paused(t) ==
    /\ pc'[t] = pc[t] /\ op'[t] = op[t] /\ nxt'[t] = nxt[t]
    /\ view'[t] = view[t] /\ out'[t] = out[t]

LEMMA WatchedGrows ==
    ASSUME Watched, NEW t \in Thread, op'[t] = "get"
    PROVE  found[t] \subseteq found'[t] /\ Assemble(mem') \in found'[t]
BY DEF Watched

LEMMA SealedStays ==
    ASSUME NEW t \in Thread, NEW x, Sealed(t, x), Paused(t)
    PROVE  Sealed(t, x)'
BY DEF Sealed, Paused, Cut

LEMMA PausedCalm ==
    ASSUME LInv, CutInv, NEW t \in Thread, PartInv(t), op'[t] = "get",
           Watched, Paused(t), Calm
    PROVE  PartInv(t)'
<1>1. found[t] \subseteq found'[t]
  BY WatchedGrows
<1>2. ASSUME NEW x \in Wire, Coming(t, x) PROVE Coming(t, x)'
  BY <1>2 DEF Coming, Calm, Paused
<1>3. ASSUME NEW x \in Wire \ found'[t], \E i \in Stripe : view'[t][i] = x
      PROVE  Sealed(t, x)' \/ Coming(t, x)'
  <2>1. Sealed(t, x) \/ Coming(t, x)
    BY <1>1, <1>3 DEF PartInv, Paused
  <2> QED
    BY <1>2, <2>1, SealedStays
<1>4. \A u \in Thread : pc'[u] = "write" /\ mem'[N] \in Wire \ found'[t] =>
         \A i \in Stripe : i < nxt'[t] => view'[t][i] \in {arg'[u], mem'[N]}
  BY <1>1 DEF PartInv, Paused, Calm
<1>5. \A i \in Stripe : view'[t][i] \in Packet
                          /\ (i >= nxt'[t] => view'[t][i] = None)
  BY DEF PartInv, Paused
<1> QED
  BY <1>3, <1>4, <1>5 DEF PartInv

LEMMA PausedLock ==
    ASSUME LInv, CutInv, FoundInv, NEW t \in Thread, PartInv(t),
           op[t] = "get", op'[t] = "get",
           Watched, Paused(t), NEW u \in Thread, LockWrite(u)
    PROVE  PartInv(t)'
<1>1. found[t] \subseteq found'[t]
  BY WatchedGrows
<1>2. mem' = mem
  BY DEF LockWrite
<1>3. \A v \in Thread : pc[v] # "write"
  BY Alone
<1>4. mem'[N] \in found'[t]
  BY <1>1, <1>2, <1>3, CutFound DEF FoundInv
<1>5. ASSUME NEW x \in Wire \ found'[t], \E i \in Stripe : view'[t][i] = x
      PROVE  Sealed(t, x)'
  <2>1. Sealed(t, x) \/ Coming(t, x)
    BY <1>1, <1>5 DEF PartInv, Paused
  <2> QED
    BY <1>3, <2>1, SealedStays DEF Coming
<1>6. \A i \in Stripe : view'[t][i] \in Packet
                          /\ (i >= nxt'[t] => view'[t][i] = None)
  BY DEF PartInv, Paused
<1> QED
  BY <1>4, <1>5, <1>6 DEF PartInv

LEMMA PausedWrite ==
    ASSUME LInv, CutInv, NEW t \in Thread, PartInv(t), op'[t] = "get",
           Watched, Paused(t), NEW u \in Thread, WriteStripe(u)
    PROVE  PartInv(t)'
<1>1. found[t] \subseteq found'[t] /\ Assemble(mem') \in found'[t]
  BY WatchedGrows
<1>2. /\ nxt[u] \in Stripe /\ nxt'[u] = nxt[u] + 1
      /\ pc' = pc /\ arg' = arg
      /\ mem'[N] = IF nxt[u] = N THEN arg[u] ELSE mem[N]
      /\ nxt[u] = N => Assemble(mem') = arg[u]
  BY WriteGoesOn
<1>3. pc[u] = "write" /\ \A v \in Thread : pc[v] = "write" => v = u
  BY Alone DEF WriteStripe
<1>4. \A i \in Stripe : i < nxt[u] => i < nxt'[u]
  BY <1>2, CodingAssumption DEF Stripe
<1>5. ASSUME NEW x \in Wire \ found'[t], Coming(t, x) PROVE Coming(t, x)'
  <2>1. /\ arg[u] = x /\ mem[N] # x
        /\ \A i \in Stripe : view[t][i] = x =>
             /\ i < nxt[u]
             /\ \A j \in Stripe : i < j /\ j < nxt[t] => view[t][j] \in {x, mem[N]}
    BY <1>3, <1>5 DEF Coming
  <2>2. nxt[u] # N /\ mem'[N] = mem[N]
    BY <1>1, <1>2, <1>5, <2>1
  <2> QED
    BY <1>2, <1>3, <1>4, <2>1, <2>2 DEF Coming, Paused
<1>6. ASSUME NEW x \in Wire \ found'[t], \E i \in Stripe : view'[t][i] = x
      PROVE  Sealed(t, x)' \/ Coming(t, x)'
  <2>1. Sealed(t, x) \/ Coming(t, x)
    BY <1>1, <1>6 DEF PartInv, Paused
  <2> QED
    BY <1>5, <2>1, SealedStays
<1>7. ASSUME NEW v \in Thread, pc'[v] = "write", mem'[N] \in Wire \ found'[t]
      PROVE  \A i \in Stripe : i < nxt'[t] => view'[t][i] \in {arg'[v], mem'[N]}
  <2>1. v = u
    BY <1>2, <1>3, <1>7
  <2>2. mem'[N] = mem[N] /\ mem[N] \in Wire \ found[t]
    BY <1>1, <1>2, <1>7
  <2> QED
    BY <1>2, <1>3, <2>1, <2>2 DEF PartInv, Paused
<1>8. \A i \in Stripe : view'[t][i] \in Packet
                          /\ (i >= nxt'[t] => view'[t][i] = None)
  BY DEF PartInv, Paused
<1> QED
  BY <1>6, <1>7, <1>8 DEF PartInv

LEMMA PausedFinish ==
    ASSUME LInv, CutInv, FoundInv, NEW t \in Thread, PartInv(t),
           op[t] = "get", op'[t] = "get",
           Watched, Paused(t), NEW u \in Thread, FinishWrite(u)
    PROVE  PartInv(t)'
<1>1. found[t] \subseteq found'[t]
  BY WatchedGrows
<1>2. /\ pc[u] = "write" /\ nxt[u] > N /\ pc' = [pc EXCEPT ![u] = "done"]
      /\ TypeOK
  BY DEF FinishWrite, Goto, LInv, IInv
<1>3. \A v \in Thread : pc[v] = "write" => v = u
  BY <1>2, Alone
<1>4. arg[u] \in found'[t]
  BY <1>1, <1>2, CutFound DEF FoundInv
<1>5. \A v \in Thread : pc'[v] # "write"
  BY <1>2, <1>3 DEF TypeOK
<1>6. ASSUME NEW x \in Wire \ found'[t], \E i \in Stripe : view'[t][i] = x
      PROVE  Sealed(t, x)'
  <2>1. Sealed(t, x) \/ Coming(t, x)
    BY <1>1, <1>6 DEF PartInv, Paused
  <2>2. ~ Coming(t, x)
    BY <1>3, <1>4, <1>6 DEF Coming
  <2> QED
    BY <2>1, <2>2, SealedStays
<1>7. \A i \in Stripe : view'[t][i] \in Packet
                          /\ (i >= nxt'[t] => view'[t][i] = None)
  BY DEF PartInv, Paused
<1> QED
  BY <1>5, <1>6, <1>7 DEF PartInv

-----------------------------------------------------------------------------
(***************************************************************************)
(* A get's own steps.                                                      *)
(***************************************************************************)

\* The next stripe shows a wire that is rebuilt, one being written, or the one being
\* replaced; then all before it is new, or had the old one already.
LEMMA ReadsOn ==
    ASSUME LInv, CutInv, FoundInv, NEW t \in Thread, PartInv(t),
           op[t] = "get", ReadStripe(t), Watched
    PROVE  PartInv(t)'
<1> DEFINE r == nxt[t]
           w == mem[r]
<1>0. TypeOK
  BY DEF LInv, IInv
<1>1. /\ r \in Stripe /\ mem' = mem /\ op' = op /\ pc' = pc /\ arg' = arg
      /\ view' = [view EXCEPT ![t][r] = w] /\ nxt' = [nxt EXCEPT ![t] = @ + 1]
      /\ pc[t] = "read"
  BY <1>0, CodingAssumption DEF ReadStripe, Advance, store, TypeOK, Stripe
<1>2. /\ view'[t][r] = w /\ nxt'[t] = r + 1
      /\ \A i \in Stripe : i # r => view'[t][i] = view[t][i]
      /\ \A u \in Thread : u # t => nxt'[u] = nxt[u]
  BY <1>0, <1>1 DEF TypeOK
<1>3. found[t] \subseteq found'[t] /\ Assemble(mem) \in found'[t]
  BY <1>1, WatchedGrows
<1>4. /\ r \in Nat /\ N \in Nat /\ \A i \in Stripe : i \in Nat /\ i >= 1 /\ i <= N
  BY <1>1, CodingAssumption DEF Stripe
<1>5. ASSUME NEW u \in Thread, pc[u] = "write"
      PROVE  /\ u # t /\ nxt'[u] = nxt[u] /\ arg[u] \in Packet
             /\ nxt[u] \in 1..N+1
             /\ w = IF r < nxt[u] THEN arg[u] ELSE mem[N]
             /\ mem = Cut(arg[u], mem[N], nxt[u])
             /\ arg[u] = mem[N] => Assemble(mem) = mem[N]
  <2>1. u # t
    BY <1>1, <1>5
  <2> QED
    BY <1>1, <1>2, <1>5, <2>1, CutFound DEF CutInv
<1>6. (\A u \in Thread : pc[u] # "write") => w = Assemble(mem)
  BY <1>1, CutFound DEF CutInv
<1>7. mem[N] \in Packet
  BY DEF CutInv
<1> HIDE DEF r, w
<1>8. ASSUME NEW i \in Stripe
      PROVE  view'[t][i] \in Packet /\ (i >= nxt'[t] => view'[t][i] = None)
  <2>1. w \in Packet
    <3>1. CASE \A u \in Thread : pc[u] # "write"
      BY <1>6, <3>1, AssembleType
    <3>2. CASE \E u \in Thread : pc[u] = "write"
      BY <1>5, <1>7, <3>2
    <3> QED
      BY <3>1, <3>2
  <2>2. CASE i = r
    BY <1>2, <1>4, <2>1, <2>2
  <2>3. CASE i # r
    <3>1. i >= nxt'[t] => i >= r
      BY <1>2, <1>4
    <3> QED
      BY <1>2, <2>3, <3>1 DEF PartInv, r
  <2> QED
    BY <2>2, <2>3
<1>9. ASSUME NEW x \in Wire \ found'[t], Sealed(t, x) PROVE Sealed(t, x)'
  <2>1. PICK a \in Packet \ {x} : \E m \in 1..N+1 :
          /\ m <= r
          /\ \A i \in Stripe : i < m => view[t][i] = a
          /\ Assemble(Cut(a, x, m)) # x
    BY <1>9 DEF Sealed, r
  <2>2. PICK m \in 1..N+1 :
          /\ m <= r
          /\ \A i \in Stripe : i < m => view[t][i] = a
          /\ Assemble(Cut(a, x, m)) # x
    BY <2>1
  <2>3. m <= nxt'[t] /\ \A i \in Stripe : i < m => i # r
    BY <1>2, <1>4, <2>2
  <2>4. \A i \in Stripe : i < m => view'[t][i] = a
    BY <1>2, <2>2, <2>3
  <2> QED
    BY <2>2, <2>3, <2>4 DEF Sealed, Cut
<1>10. ASSUME NEW x \in Wire \ found'[t], Coming(t, x) PROVE Coming(t, x)'
  <2>1. PICK u \in Thread :
          /\ pc[u] = "write" /\ arg[u] = x /\ mem[N] # x
          /\ \A i \in Stripe : view[t][i] = x =>
               /\ i < nxt[u]
               /\ \A j \in Stripe : i < j /\ j < r => view[t][j] \in {x, mem[N]}
    BY <1>10 DEF Coming, r
  <2>2. nxt'[u] = nxt[u] /\ (w = x => r < nxt[u]) /\ w \in {x, mem[N]}
    BY <1>5, <2>1
  <2>3. ASSUME NEW i \in Stripe, view'[t][i] = x
        PROVE  /\ i < nxt[u]
               /\ \A j \in Stripe : i < j /\ j < r + 1 => view'[t][j] \in {x, mem[N]}
    <3>1. CASE i = r
      <4>1. \A j \in Stripe : ~ (i < j /\ j < r + 1)
        BY <1>4, <3>1
      <4> QED
        BY <1>2, <2>2, <2>3, <3>1, <4>1
    <3>2. CASE i # r
      <4>1. view[t][i] = x
        BY <1>2, <2>3, <3>2
      <4>2. ASSUME NEW j \in Stripe, i < j, j < r + 1
            PROVE  view'[t][j] \in {x, mem[N]}
        <5>1. CASE j = r
          BY <1>2, <2>2, <5>1
        <5>2. CASE j # r
          <6>1. j < r
            BY <1>4, <4>2, <5>2
          <6> QED
            BY <1>2, <2>1, <4>1, <4>2, <5>2, <6>1
        <5> QED
          BY <5>1, <5>2
      <4> QED
        BY <2>1, <4>1, <4>2
    <3> QED
      BY <3>1, <3>2
  <2> QED
    BY <1>1, <1>2, <2>1, <2>2, <2>3 DEF Coming
<1>11. ASSUME NEW x \in Wire \ found'[t], w = x, \A i \in Stripe : view[t][i] # x
       PROVE  Sealed(t, x)' \/ Coming(t, x)'
  <2>1. PICK u \in Thread : pc[u] = "write"
    BY <1>3, <1>6, <1>11
  <2>2. arg[u] # mem[N]
    BY <1>3, <1>5, <1>11, <2>1
  <2>3. CASE r < nxt[u]
    <3>1. arg[u] = x /\ mem[N] # x
      BY <1>5, <1>11, <2>1, <2>2, <2>3
    <3>2. \A i \in Stripe : view'[t][i] = x => i = r
      BY <1>2, <1>11
    <3>3. \A j \in Stripe : ~ (r < j /\ j < r + 1)
      BY <1>4
    <3>4. nxt'[u] = nxt[u]
      BY <1>5, <2>1
    <3> QED
      BY <1>1, <1>2, <2>1, <2>3, <3>1, <3>2, <3>3, <3>4 DEF Coming
  <2>4. CASE ~ (r < nxt[u])
    <3>1. mem[N] = x /\ arg[u] \in Packet \ {x} /\ nxt[u] \in 1..N+1
      BY <1>5, <1>11, <2>1, <2>2, <2>4
    <3>2. nxt[u] <= r /\ nxt[u] <= nxt'[t]
      BY <1>2, <1>4, <2>4, <3>1
    <3>3. Assemble(Cut(arg[u], x, nxt[u])) # x
      BY <1>3, <1>5, <1>11, <2>1, <3>1
    <3>4. ASSUME NEW i \in Stripe, i < nxt[u] PROVE view'[t][i] = arg[u]
      <4>1. i < r /\ i # r
        BY <1>4, <3>1, <3>2, <3>4
      <4>2. view[t][i] \in {arg[u], x}
        BY <1>3, <1>11, <2>1, <3>1, <4>1 DEF PartInv, r
      <4> QED
        BY <1>2, <1>11, <4>1, <4>2
    <3> QED
      BY <3>1, <3>2, <3>3, <3>4 DEF Sealed, Cut
  <2> QED
    BY <2>3, <2>4
<1>12. ASSUME NEW x \in Wire \ found'[t], \E i \in Stripe : view'[t][i] = x
       PROVE  Sealed(t, x)' \/ Coming(t, x)'
  <2>1. CASE \E i \in Stripe : view[t][i] = x
    BY <1>3, <1>9, <1>10, <1>12, <2>1 DEF PartInv
  <2>2. CASE \A i \in Stripe : view[t][i] # x
    <3>1. w = x
      BY <1>2, <1>12, <2>2
    <3> QED
      BY <1>11, <2>2, <3>1
  <2> QED
    BY <2>1, <2>2
<1>13. ASSUME NEW u \in Thread, pc'[u] = "write", mem'[N] \in Wire \ found'[t],
              NEW i \in Stripe, i < nxt'[t]
       PROVE  view'[t][i] \in {arg'[u], mem'[N]}
  <2>1. pc[u] = "write" /\ mem[N] \in Wire \ found[t] /\ i < r + 1
    BY <1>1, <1>2, <1>3, <1>13
  <2>2. CASE i = r
    BY <1>1, <1>2, <1>5, <2>1, <2>2
  <2>3. CASE i # r
    <3>1. i < r
      BY <1>4, <2>1, <2>3
    <3>2. view[t][i] \in {arg[u], mem[N]}
      BY <2>1, <3>1 DEF PartInv, r
    <3> QED
      BY <1>1, <1>2, <2>3, <3>2
  <2> QED
    BY <2>2, <2>3
<1> QED
  BY <1>8, <1>12, <1>13 DEF PartInv

\* With every stripe read, what is rebuilt was rebuilt before.
LEMMA JudgedWasFound ==
    ASSUME LInv, CutInv, FoundInv, NEW t \in Thread, PartInv(t),
           op[t] = "get", nxt[t] > N
    PROVE  Assemble(view[t]) \in found[t] \cup {None}
<1> DEFINE x == Assemble(view[t])
<1>1. SUFFICES ASSUME x # None, x \notin found[t] PROVE FALSE
  OBVIOUS
<1>0. TypeOK /\ Assemble(mem) \in found[t]
  BY DEF LInv, IInv, FoundInv
<1>2. x \in Wire /\ \E i \in Stripe : view[t][i] = x
  BY <1>1, AssembleHit
<1>3. view[t] \in [Stripe -> Packet]
  BY <1>0 DEF PartInv, TypeOK
<1>4. Sealed(t, x) \/ Coming(t, x)
  BY <1>1, <1>2 DEF PartInv
<1>5. \A i \in Stripe : i < nxt[t]
  BY <1>0, CodingAssumption DEF TypeOK, Stripe
<1> HIDE DEF x
<1>6. CASE Sealed(t, x)
  <2>1. PICK a \in Packet \ {x}, m \in 1..N+1 :
          /\ \A i \in Stripe : i < m => view[t][i] = a
          /\ Assemble(Cut(a, x, m)) # x
    BY <1>6 DEF Sealed
  <2>2. Assemble(view[t]) = x
    BY DEF x
  <2> QED
    BY <1>2, <1>3, <2>1, <2>2, SealedUnread
<1>7. CASE Coming(t, x)
  <2>1. PICK u \in Thread :
          /\ pc[u] = "write" /\ arg[u] = x /\ mem[N] # x
          /\ \A i \in Stripe : view[t][i] = x =>
               /\ i < nxt[u]
               /\ \A j \in Stripe : i < j /\ j < nxt[t] => view[t][j] \in {x, mem[N]}
    BY <1>7 DEF Coming
  <2>2. /\ mem = Cut(x, mem[N], nxt[u]) /\ nxt[u] \in 1..N+1
        /\ mem[N] \in Packet \ {x}
    BY <2>1, CutFound DEF CutInv
  <2>3. /\ \A i \in Stripe : view[t][i] = x => i < nxt[u]
        /\ \A i, j \in Stripe : view[t][i] = x /\ i < j => view[t][j] \in {x, mem[N]}
    BY <1>5, <2>1
  <2>4. Assemble(view[t]) = x
    BY DEF x
  <2>5. Assemble(Cut(x, mem[N], nxt[u])) = x
    BY <1>2, <1>3, <2>2, <2>3, <2>4, ComingUnread
  <2> QED
    BY <1>0, <1>1, <2>2, <2>5
<1> QED
  BY <1>4, <1>6, <1>7

\* One thread's get through one step.
LEMMA GetStep ==
    ASSUME LInv, CutInv, FoundInv, NEW t \in Thread, GetInv(t),
           [Next]_vars, faults' = 0, Watched
    PROVE  GetInv(t)'
<1> SUFFICES ASSUME op'[t] = "get" PROVE GetInv(t)'
  BY DEF GetInv
<1>0. TypeOK /\ LabelInv /\ ReadInv /\ TypeOK'
  BY TypeStep DEF LInv, IInv
<1>1. found[t] \subseteq found'[t]
  BY WatchedGrows
<1>2. CASE Untouched(t) /\ op[t] = "get"
  <2>1. Paused(t) /\ GetInv(t)
    BY <1>2 DEF Untouched, Paused
  <2>2. ASSUME pc'[t] = "read" PROVE PartInv(t)'
    <3>1. PartInv(t) /\ op[t] = "get"
      BY <1>2, <2>1, <2>2 DEF GetInv, Paused
    <3> QED
      BY <2>1, <3>1, CalmOrWrite, PausedCalm, PausedLock, PausedWrite, PausedFinish
  <2> QED
    BY <1>1, <1>2, <2>1, <2>2 DEF GetInv, Paused
<1>3. CASE BeginGet(t)
  <2>1. /\ pc'[t] = "read" /\ nxt' = nxt /\ view' = view
        /\ pc[t] = "idle"
    BY <1>0, <1>3 DEF BeginGet, Begin, TypeOK
  <2>2. \A i \in Stripe : view'[t][i] = None
    BY <1>0, <2>1 DEF ReadInv, NoView
  <2>3. nxt'[t] = 1 /\ \A i \in Stripe : ~ (i < 1)
    BY <1>0, <2>1, CodingAssumption DEF LabelInv, Stripe
  <2>4. PartInv(t)'
    BY <2>2, <2>3, ValueAssumption DEF PartInv, Packet
  <2> QED
    BY <2>1, <2>4 DEF GetInv
<1>4. CASE ReadStripe(t)
  <2>1. op[t] = "get" /\ pc[t] = "read" /\ pc' = pc
    BY <1>4 DEF ReadStripe
  <2>2. PartInv(t)'
    BY <1>4, <2>1, ReadsOn DEF GetInv
  <2> QED
    BY <2>1, <2>2 DEF GetInv
<1>5. CASE JudgeGet(t)
  <2>1. /\ op[t] = "get" /\ pc[t] = "read" /\ nxt[t] > N
        /\ out'[t] = Assemble(view[t]) /\ pc'[t] \in {"repair", "done"}
    BY <1>0, <1>5 DEF JudgeGet, Goto, TypeOK
  <2>2. out'[t] \in found[t] \cup {None}
    BY <2>1, JudgedWasFound DEF GetInv
  <2> QED
    BY <1>1, <2>1, <2>2 DEF GetInv
<1>6. CASE Rejudge(t)
  <2>1. out' = out /\ op' = op /\ pc[t] = "repair"
    BY <1>6 DEF Rejudge
  <2>2. pc'[t] = "done"
    BY <1>0, <1>6, NothingToMend DEF TypeOK
  <2> QED
    BY <1>1, <2>1, <2>2 DEF GetInv
<1>7. CASE JudgeContains(t) \/ BeginContains(t)
  BY <1>0, <1>7 DEF JudgeContains, BeginContains, Begin, TypeOK
<1>8. CASE MendStripe(t) \/ FinishMend(t) \/ pc[t] = "mend"
  BY <1>8 DEF MendStripe, FinishMend, CutInv
<1>9. ReaderStep(t) \/ Untouched(t)
  <2>1. CASE pc'[t] = "idle"
    <3>1. LabelInv'
      BY IInvStep DEF LInv, IInv
    <3> QED
      BY <2>1, <3>1 DEF LabelInv
  <2>2. CASE pc'[t] # "idle"
    BY <2>2, ReaderOrUntouched DEF Reading
  <2> QED
    BY <2>1, <2>2
<1>10. ~ ReadStripeFails(t)
  BY <1>0, FaultCounts DEF BackendFails
<1> QED
  BY <1>2, <1>3, <1>4, <1>5, <1>6, <1>7, <1>8, <1>9, <1>10
     DEF ReaderStep, Untouched

\* found' as ErasureReads gives it, while there is no fault.
LEMMA WatchedIs ==
    ASSUME FNext, faults' = 0
    PROVE  Watched
BY DEF FNext, Watched

LEMMA FoundStep ==
    ASSUME FoundInv, Watched
    PROVE  FoundInv'
<1>1. \A t \in Thread : Assemble(mem') \in Packet
  BY AssembleType
<1> QED
  BY <1>1 DEF FoundInv, Watched

LEMMA RegInit == FInit => LInv /\ RegInv
<1> SUFFICES ASSUME FInit PROVE RegInv
  BY LInvInit DEF FInit
<1>1. N \in Stripe
  BY CodingAssumption DEF Stripe
<1>2. CutInv
  BY <1>1 DEF FInit, Init, CutInv, NoView, Packet
<1>3. FoundInv
  BY DEF FInit, Init, FoundInv
<1>4. \A t \in Thread : GetInv(t)
  BY DEF FInit, Init, GetInv
<1> QED
  BY <1>2, <1>3, <1>4 DEF RegInv

LEMMA RegStep == LInv /\ RegInv /\ [FNext]_<<vars, found>> => RegInv'
<1> SUFFICES ASSUME LInv, RegInv, [FNext]_<<vars, found>>, faults' = 0
             PROVE  CutInv' /\ FoundInv' /\ \A t \in Thread : GetInv(t)'
  BY DEF RegInv
<1>1. [Next]_vars /\ TypeOK
  BY DEF FNext, LInv, IInv
<1>2. CutInv /\ FoundInv /\ \A t \in Thread : GetInv(t)
  BY <1>1, NoFaultYet DEF RegInv
<1>3. CutInv'
  BY <1>1, <1>2, CutStep
<1>4. CASE FNext
  BY <1>1, <1>2, <1>3, <1>4, WatchedIs, FoundStep, GetStep
<1>5. CASE UNCHANGED <<vars, found>>
  <2>1. FoundInv'
    BY <1>2, <1>5 DEF FoundInv, vars
  <2>2. \A t \in Thread : GetInv(t)'
    BY <1>2, <1>5 DEF GetInv, PartInv, Sealed, Coming, Cut, vars
  <2> QED
    BY <1>3, <2>1, <2>2
<1> QED
  BY <1>4, <1>5

-----------------------------------------------------------------------------
(***************************************************************************)
(* Every step is one of the register's, or none.                           *)
(***************************************************************************)

SameCalls == Gets' = Gets /\ Answers' = Answers

LEMMA Watches ==
    ASSUME Watched
    PROVE  Reg!Watch
BY DEF Watched, Reg!Watch, Gets

\* A step the register does not see.
LEMMA Unseen ==
    ASSUME FoundInv, Watched, faults = 0, faults' = 0,
           Assemble(mem') = Assemble(mem), Writes' = Writes, SameCalls
    PROVE  UNCHANGED Reg!vars
<1>1. \A t \in Thread : op'[t] = "get" <=> op[t] = "get"
  BY DEF SameCalls, Gets
<1>2. \A t \in Thread : found'[t] = found[t]
  BY <1>1 DEF FoundInv, Watched
<1>3. found' = found
  BY <1>2 DEF FoundInv, Watched
<1>4. (faults > 0)' = (faults > 0)
  OBVIOUS
<1> QED
  BY <1>3, <1>4 DEF Reg!vars, SameCalls

\* A step of the register by a thread.
LEMMA RegisterStep ==
    ASSUME Watched, faults = 0, faults' = 0, NEW t \in Thread, Reg!Step(t)
    PROVE  Reg!Next
BY Watches DEF Reg!Next

LEMMA CalmWrites ==
    ASSUME Calm
    PROVE  mem' = mem /\ Writes' = Writes
BY DEF Calm, Writes

\* The calls of the threads other than t go on as before.
LEMMA OwnCall ==
    ASSUME TypeOK, NEW t \in Thread,
           \A u \in Thread \ {t} :
              op'[u] = op[u] /\ pc'[u] = pc[u] /\ out'[u] = out[u]
    PROVE  /\ Gets' = {u \in Thread : u # t /\ u \in Gets}
                        \cup {u \in {t} : op'[t] = "get"}
           /\ Answers' = [Answers EXCEPT ![t] =
                            IF Finished(t, "get")' THEN {out'[t]} ELSE {}]
<1>1. ASSUME NEW u \in Thread, u # t
      PROVE  Answers'[u] = Answers[u]
  BY <1>1 DEF Answers, Finished
<1>2. Answers'[t] = IF Finished(t, "get")' THEN {out'[t]} ELSE {}
  BY DEF Answers
<1>3. /\ Answers = [u \in Thread |-> Answers[u]]
      /\ Answers' = [u \in Thread |-> Answers'[u]]
  BY DEF Answers
<1>4. Answers' = [Answers EXCEPT ![t] =
                            IF Finished(t, "get")' THEN {out'[t]} ELSE {}]
  BY <1>1, <1>2, <1>3
<1>5. Gets' = {u \in Thread : u # t /\ u \in Gets}
                        \cup {u \in {t} : op'[t] = "get"}
  BY DEF Gets
<1> QED
  BY <1>4, <1>5

\* A get's answer is one of those the register may give.
LEMMA AnswersFound ==
    ASSUME LInv, CutInv, FoundInv, NEW t \in Thread, GetInv(t),
           faults = 0, faults' = 0, Watched, Calm,
           JudgeGet(t) \/ Rejudge(t)
    PROVE  Reg!Next \/ UNCHANGED Reg!vars
<1>0. TypeOK /\ LabelInv
  BY DEF LInv, IInv
<1>1. /\ op[t] = "get" /\ op' = op /\ pc[t] \in {"read", "repair"}
      /\ pc'[t] \in {"done", "repair"}
      /\ \A u \in Thread \ {t} : pc'[u] = pc[u] /\ out'[u] = out[u]
  <2>1. CASE JudgeGet(t)
    BY <1>0, <2>1 DEF JudgeGet, Goto, TypeOK
  <2>2. CASE Rejudge(t)
    <3>1. pc[t] = "repair" /\ op' = op /\ out' = out
      BY <2>2 DEF Rejudge
    <3>2. pc' = [pc EXCEPT ![t] = "done"]
      BY <2>2, NothingToMend
    <3> QED
      BY <1>0, <3>1, <3>2 DEF LabelInv, TypeOK
  <2> QED
    BY <2>1, <2>2
<1>2. out'[t] \in found[t] \cup {None}
  <2>1. CASE JudgeGet(t)
    <3>1. nxt[t] > N /\ pc[t] = "read" /\ out'[t] = Assemble(view[t])
      BY <1>0, <2>1 DEF JudgeGet, TypeOK
    <3> QED
      BY <1>1, <3>1, JudgedWasFound DEF GetInv
  <2>2. CASE Rejudge(t)
    <3>1. pc[t] = "repair" /\ out' = out
      BY <2>2 DEF Rejudge
    <3> QED
      BY <1>1, <3>1 DEF GetInv
  <2> QED
    BY <2>1, <2>2
<1>3. mem' = mem /\ Writes' = Writes
  BY CalmWrites
<1>4. Gets' = Gets
  BY <1>1 DEF Gets
<1>5. Answers' = [Answers EXCEPT ![t] =
                    IF Finished(t, "get")' THEN {out'[t]} ELSE {}]
  BY <1>0, <1>1, OwnCall
<1>6. Answers[t] = {}
  BY <1>1 DEF Answers, Finished
<1>7. CASE pc'[t] = "done"
  <2>1. Answers' = [Answers EXCEPT ![t] = {out'[t]}]
    BY <1>1, <1>5, <1>7 DEF Finished
  <2>2. t \in Gets
    BY <1>1 DEF Gets
  <2>3. Reg!Answer(t)
    BY <1>2, <1>3, <1>4, <1>6, <2>1, <2>2 DEF Reg!Answer
  <2> QED
    BY <2>3, RegisterStep DEF Reg!Step
<1>8. CASE pc'[t] = "repair"
  <2>1. Answers' = [Answers EXCEPT ![t] = {}]
    BY <1>5, <1>8 DEF Finished
  <2>2. Answers' = Answers
    BY <1>6, <2>1 DEF Answers
  <2> QED
    BY <1>3, <1>4, <2>2, Unseen DEF SameCalls
<1> QED
  BY <1>1, <1>7, <1>8

LEMMA CalmSteps ==
    ASSUME LInv, CutInv, FoundInv, \A t \in Thread : GetInv(t),
           Next, faults = 0, faults' = 0, Watched, Calm
    PROVE  Reg!Next \/ UNCHANGED Reg!vars
<1>0. TypeOK /\ LabelInv
  BY DEF LInv, IInv
<1>1. mem' = mem /\ Writes' = Writes
  BY CalmWrites
<1>2. SUFFICES ASSUME ~ SameCalls PROVE Reg!Next \/ UNCHANGED Reg!vars
  BY <1>1, Unseen
<1>3. ASSUME NEW t \in Thread, Return(t) PROVE Reg!Next \/ UNCHANGED Reg!vars
  <2>1. /\ pc[t] = "done" /\ pc'[t] = "idle" /\ op'[t] = "none"
        /\ \A u \in Thread \ {t} :
              op'[u] = op[u] /\ pc'[u] = pc[u] /\ out'[u] = out[u]
    BY <1>0, <1>3 DEF Return, Goto, TypeOK
  <2>2. Answers' = [Answers EXCEPT ![t] = {}] /\ Gets' = Gets \ {t}
    BY <1>0, <2>1, OwnCall DEF Finished, Gets
  <2>3. CASE op[t] = "get"
    <3>1. Answers[t] # {}
      BY <2>1, <2>3 DEF Answers, Finished
    <3>2. Reg!EndRead(t)
      BY <1>1, <2>2, <3>1 DEF Reg!EndRead
    <3> QED
      BY <3>2, RegisterStep DEF Reg!Step
  <2>4. CASE op[t] # "get"
    <3>1. Answers[t] = {} /\ t \notin Gets
      BY <2>4 DEF Answers, Finished, Gets
    <3>2. Answers' = Answers
      BY <2>2, <3>1 DEF Answers
    <3> QED
      BY <1>2, <2>2, <3>1, <3>2 DEF SameCalls
  <2> QED
    BY <2>3, <2>4
<1>4. ASSUME NEW t \in Thread, BeginGet(t) PROVE Reg!Next
  <2>1. /\ pc[t] = "idle" /\ op[t] = "none" /\ pc'[t] = "read" /\ op'[t] = "get"
        /\ \A u \in Thread \ {t} :
              op'[u] = op[u] /\ pc'[u] = pc[u] /\ out'[u] = out[u]
    BY <1>0, <1>4 DEF BeginGet, Begin, TypeOK, LabelInv
  <2>2. Answers' = [Answers EXCEPT ![t] = {}] /\ Gets' = Gets \cup {t}
    BY <1>0, <2>1, OwnCall DEF Finished, Gets
  <2>3. Answers[t] = {} /\ t \notin Gets /\ Writes[t] = {}
    BY <2>1 DEF Answers, Finished, Gets, Writes
  <2>4. Answers' = Answers
    BY <2>2, <2>3 DEF Answers
  <2>5. Reg!StartRead(t)
    BY <1>1, <2>2, <2>3, <2>4 DEF Reg!StartRead
  <2> QED
    BY <2>5, RegisterStep DEF Reg!Step
<1>5. ASSUME NEW t \in Thread, op' = op,
             \A u \in Thread \ {t} : pc'[u] = pc[u] /\ out'[u] = out[u],
             op[t] # "get" \/ (pc[t] # "done" /\ pc'[t] # "done")
      PROVE  FALSE
  <2>1. Answers' = [Answers EXCEPT ![t] = {}] /\ Answers[t] = {}
    BY <1>0, <1>5, OwnCall DEF Finished, Answers
  <2>2. Answers' = Answers
    BY <2>1 DEF Answers
  <2> QED
    BY <1>2, <1>5, <2>2 DEF SameCalls, Gets
<1>6. ASSUME NEW t \in Thread, Proceed(t), ~ Return(t)
      PROVE  Reg!Next \/ UNCHANGED Reg!vars
  <2>1. CASE JudgeGet(t) \/ Rejudge(t)
    BY <2>1, AnswersFound
  <2>2. CASE LockWrite(t)
    BY <1>0, <2>2 DEF LockWrite, Goto, Calm, TypeOK
  <2>3. CASE FinishWrite(t)
    BY <1>0, <2>3 DEF FinishWrite, Goto, Calm, TypeOK
  <2>4. CASE WriteStripe(t)
    <3>1. nxt'[t] = nxt[t] /\ nxt'[t] = nxt[t] + 1 /\ nxt[t] \in Nat
      BY <1>0, <2>4, CodingAssumption
         DEF WriteStripe, Put, Advance, Calm, TypeOK
    <3> QED
      BY <3>1
  <2>5. CASE MendStripe(t) \/ FinishMend(t)
    BY <2>5 DEF MendStripe, FinishMend, CutInv
  <2>6. CASE ReadStripe(t) \/ SyncStripe(t)
    <3>1. UNCHANGED <<pc, op, out>> /\ pc[t] # "done"
      BY <2>6 DEF ReadStripe, SyncStripe
    <3> QED
      BY <1>5, <3>1
  <2>7. CASE JudgeContains(t) \/ FinishSync(t)
    <3>1. /\ op' = op /\ op[t] # "get"
          /\ \A u \in Thread \ {t} : pc'[u] = pc[u] /\ out'[u] = out[u]
      BY <1>0, <2>7 DEF JudgeContains, FinishSync, Goto, TypeOK, LabelInv
    <3> QED
      BY <1>5, <3>1
  <2> QED
    BY <1>6, <2>1, <2>2, <2>3, <2>4, <2>5, <2>6, <2>7 DEF Proceed
<1>7. ASSUME NEW t \in Thread, Call(t), ~ BeginGet(t) PROVE FALSE
  <2>1. CASE \E w \in Wire : RefuseInsert(t, w)
    <3>1. UNCHANGED <<pc, op, out>>
      BY <2>1 DEF RefuseInsert, threads
    <3> QED
      BY <1>2, <3>1 DEF SameCalls, Gets, Answers, Finished
  <2>2. CASE ~ \E w \in Wire : RefuseInsert(t, w)
    <3>1. /\ pc[t] = "idle" /\ op[t] = "none" /\ op'[t] # "get"
          /\ \A u \in Thread \ {t} :
                op'[u] = op[u] /\ pc'[u] = pc[u] /\ out'[u] = out[u]
      BY <1>0, <1>7, <2>2
         DEF Call, BeginContains, BeginRemove, BeginSync, BeginInsert, Begin,
             TypeOK, LabelInv
    <3>2. Answers' = [Answers EXCEPT ![t] = {}] /\ Gets' = Gets
      BY <1>0, <3>1, OwnCall DEF Finished, Gets
    <3>3. Answers' = Answers
      BY <3>1, <3>2 DEF Answers, Finished
    <3> QED
      BY <1>2, <3>2, <3>3 DEF SameCalls
  <2> QED
    BY <2>1, <2>2
<1>8. CASE Open
  BY <1>2, <1>8 DEF Open, threads, SameCalls, Gets, Answers, Finished
<1> QED
  BY <1>0, <1>3, <1>4, <1>6, <1>7, <1>8, FaultCounts DEF Next

LEMMA WriteSteps ==
    ASSUME N >= 2 * K - 1, LInv, CutInv, FoundInv,
           faults = 0, faults' = 0, Watched,
           NEW u \in Thread, LockWrite(u) \/ WriteStripe(u) \/ FinishWrite(u)
    PROVE  Reg!Next \/ UNCHANGED Reg!vars
<1>0. TypeOK /\ LabelInv
  BY DEF LInv, IInv
<1>1. CASE LockWrite(u)
  <2>1. /\ mem' = mem /\ arg' = arg /\ op' = op /\ out' = out
        /\ pc' = [pc EXCEPT ![u] = "write"] /\ pc[u] = "lock"
    BY <1>1 DEF LockWrite, Goto
  <2>2. op[u] # "get" /\ arg[u] \in Packet
    BY <1>0, <2>1 DEF LabelInv, TypeOK
  <2>3. Writes' = [Writes EXCEPT ![u] = {arg[u]}]
    BY <1>0, <2>1 DEF Writes, TypeOK
  <2>4. \A v \in Thread : Writes[v] = {}
    BY <1>1, Alone DEF Writes
  <2>5. Gets' = Gets /\ Answers' = Answers /\ u \notin Gets
    BY <1>0, <2>1, <2>2 DEF Gets, Answers, Finished, TypeOK
  <2>6. Reg!StartWrite(u, arg[u])
    BY <2>1, <2>3, <2>4, <2>5 DEF Reg!StartWrite
  <2> QED
    BY <2>2, <2>6, RegisterStep DEF Reg!Step
<1>2. CASE WriteStripe(u)
  <2> DEFINE p == nxt[u]
  <2>1. /\ p \in Stripe /\ nxt'[u] = p + 1 /\ pc' = pc /\ arg' = arg
        /\ mem'[N] = IF p = N THEN arg[u] ELSE mem[N]
        /\ \A i \in Stripe : mem'[i] = IF i < nxt'[u] THEN arg[u] ELSE mem'[N]
        /\ arg[u] \in Packet /\ mem' = [mem EXCEPT ![p] = arg[u]]
    BY <1>2, WriteGoesOn
  <2>2. /\ pc[u] = "write" /\ op' = op /\ out' = out
    BY <1>2 DEF WriteStripe
  <2>3. mem = Cut(arg[u], mem[N], p) /\ mem[N] \in Packet
    BY <2>2, CutFound DEF CutInv
  <2>4. mem' = Cut(arg[u], mem[N], p + 1)
    <3>1. \A i \in Stripe : mem'[i] = IF i < p + 1 THEN arg[u] ELSE mem[N]
      <4>1. p = N => \A i \in Stripe : i < p + 1
        BY CodingAssumption DEF Stripe
      <4> HIDE DEF p
      <4> QED
        BY <2>1, <4>1
    <3>2. mem' = [i \in Stripe |-> mem'[i]]
      BY <1>0, <2>1 DEF TypeOK
    <3> QED
      BY <3>1, <3>2 DEF Cut
  <2>5. Assemble(mem') \in {Assemble(mem), arg[u]}
    BY <2>1, <2>3, <2>4, CutMovesOn
  <2>6. Writes' = Writes /\ Gets' = Gets /\ Answers' = Answers
    BY <2>1, <2>2 DEF Writes, Gets, Answers, Finished
  <2>7. CASE Assemble(mem') = Assemble(mem)
    BY <2>6, <2>7, Unseen DEF SameCalls
  <2>8. CASE Assemble(mem') = arg[u]
    <3>1. Assemble(mem') \in Writes[u]
      BY <2>2, <2>8 DEF Writes
    <3>2. Reg!TakeEffect(u)
      BY <2>6, <3>1 DEF Reg!TakeEffect
    <3> QED
      BY <3>2, RegisterStep DEF Reg!Step
  <2> QED
    BY <2>5, <2>7, <2>8
<1>3. CASE FinishWrite(u)
  <2>1. /\ mem' = mem /\ arg' = arg /\ op' = op /\ out' = out /\ nxt[u] > N
        /\ pc' = [pc EXCEPT ![u] = "done"] /\ pc[u] = "write"
    BY <1>3 DEF FinishWrite, Goto
  <2>2. op[u] # "get" /\ Assemble(mem) = arg[u]
    BY <1>0, <2>1, CutFound DEF LabelInv
  <2>3. Writes' = [Writes EXCEPT ![u] = {}] /\ Writes[u] = {arg[u]}
    BY <1>0, <2>1 DEF Writes, TypeOK
  <2>4. Gets' = Gets /\ Answers' = Answers
    BY <1>0, <2>1, <2>2 DEF Gets, Answers, Finished, TypeOK
  <2>5. Reg!EndWrite(u)
    BY <2>1, <2>2, <2>3, <2>4 DEF Reg!EndWrite
  <2> QED
    BY <2>5, RegisterStep DEF Reg!Step
<1> QED
  BY <1>1, <1>2, <1>3

\* Every step of the store is a step of the register, or one it does not see.
LEMMA StepIsRegister ==
    ASSUME N >= 2 * K - 1, LInv, RegInv, [FNext]_<<vars, found>>
    PROVE  [Reg!Next]_(Reg!vars)
<1>1. CASE UNCHANGED <<vars, found>>
  BY <1>1 DEF vars, Reg!vars, Writes, Gets, Answers, Finished
<1>2. CASE FNext /\ faults' = 0
  <2>1. [Next]_vars /\ Next /\ TypeOK /\ Watched
    BY <1>2, WatchedIs DEF FNext, LInv, IInv
  <2>2. faults = 0 /\ faults' = 0
    BY <1>2, <2>1, NoFaultYet
  <2>3. CutInv /\ FoundInv /\ \A t \in Thread : GetInv(t)
    BY <2>2 DEF RegInv
  <2> QED
    BY <2>1, <2>2, <2>3, CalmOrWrite, CalmSteps, WriteSteps
<1>3. CASE FNext /\ faults' # 0
  <2>1. TypeOK'
    BY <1>3, TypeStep DEF FNext, LInv, IInv
  <2>2. faults' > 0
    BY <1>3, <2>1 DEF TypeOK
  <2> QED
    BY <2>2 DEF Reg!Next
<1> QED
  BY <1>1, <1>2, <1>3

LEMMA RegisterInit == FInit => Reg!Init
<1> SUFFICES ASSUME FInit PROVE Reg!Init
  OBVIOUS
<1>1. Assemble(mem) = None
  <2>1. None \in Packet /\ \A i \in Stripe : mem[i] = None
    BY DEF FInit, Init, NoView, Packet
  <2> QED
    BY <2>1, WholeFound
<1>2. Writes = Reg!Empty /\ Gets = {} /\ Answers = Reg!Empty /\ found = Reg!Empty
  BY DEF FInit, Init, Writes, Gets, Answers, Finished, Reg!Empty
<1>3. (faults > 0) = FALSE
  BY DEF FInit, Init
<1> QED
  BY <1>1, <1>2, <1>3 DEF Reg!Init

\* held.rs 334-343, 435-443, 464-469: until the first fault the store is a register,
\* when an overwrite leaves one of the two packets readable at every stripe.
THEOREM ReadsAreAtomic ==
    ASSUME N >= 2 * K - 1
    PROVE  FSpec => IsRegister
<1>1. FInit => Init /\ RegInv /\ Reg!Init
  BY RegInit, RegisterInit DEF FInit
<1>2. [FNext]_<<vars, found>> => [Next]_vars
  BY DEF FNext, vars
<1>3. LInv /\ [Next]_vars => LInv'
  BY IInvStep, LegalStep, HurtStep DEF LInv
<1>4. LInv /\ RegInv /\ [FNext]_<<vars, found>> => [Reg!Next]_(Reg!vars)
  BY StepIsRegister
<1> QED
  BY <1>1, <1>2, <1>3, <1>4, LInvInit, RegStep, PTL DEF FSpec, IsRegister, Reg!Spec

\* held.rs 334-343: for every K of N, until the first fault, a get that hits answers
\* with a packet the stripes rebuilt at some moment while it ran.
THEOREM HitsWereFound ==
    FSpec => [](faults = 0 => \A t \in Thread :
                  Finished(t, "get") /\ out[t] # None => out[t] \in found[t])
<1>1. FInit => Init /\ RegInv
  BY RegInit DEF FInit
<1>2. [FNext]_<<vars, found>> => [Next]_vars
  BY DEF FNext, vars
<1>3. LInv /\ [Next]_vars => LInv'
  BY IInvStep, LegalStep, HurtStep DEF LInv
<1>4. RegInv => (faults = 0 => \A t \in Thread :
                   Finished(t, "get") /\ out[t] # None => out[t] \in found[t])
  BY DEF RegInv, GetInv, Finished
<1> QED
  BY <1>1, <1>2, <1>3, <1>4, LInvInit, RegStep, PTL DEF FSpec
=============================================================================
