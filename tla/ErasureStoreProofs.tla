------------------------- MODULE ErasureStoreProofs -------------------------
(***************************************************************************)
(* What holds of ErasureStore for every K, N, set of wires and set of      *)
(* threads, and any number of operations and faults.                       *)
(***************************************************************************)
EXTENDS ErasureStore, FiniteSetTheorems, TLAPS

LEMMA StripeSubsets ==
    ASSUME NEW S \in SUBSET Stripe
    PROVE  IsFiniteSet(S) /\ Cardinality(S) \in Nat /\ Cardinality(S) <= N
<1>1. IsFiniteSet(Stripe) /\ Cardinality(Stripe) = N
  BY CodingAssumption, FS_Interval DEF Stripe
<1>2. IsFiniteSet(S) /\ Cardinality(S) <= N
  BY <1>1, FS_Subset
<1> QED
  BY <1>2, FS_CardinalityType

LEMMA AssembleType ==
    ASSUME NEW v
    PROVE  Assemble(v) \in Packet
<1>1. CASE \E w \in Wire : Holders(v, w) \in Winning(v)
  BY <1>1 DEF Assemble, Packet
<1>2. CASE ~ \E w \in Wire : Holders(v, w) \in Winning(v)
  BY <1>2 DEF Assemble, Packet
<1> QED
  BY <1>1, <1>2

LEMMA TypeInit == Init => TypeOK
<1> SUFFICES ASSUME Init PROVE TypeOK
  OBVIOUS
<1> USE DEF Init
<1>1. NoView \in [Stripe -> Cell]
  BY DEF NoView, Cell
<1>2. mem \in [Stripe -> Cell] /\ view \in [Thread -> [Stripe -> Cell]]
  BY <1>1
<1>3. /\ disk \in [Stripe -> SUBSET Cell]
      /\ failed \in [Stripe -> BOOLEAN]
      /\ nxt \in [Thread -> 1..N+1]
  BY CodingAssumption DEF Cell, Stripe
<1>4. /\ pc \in [Thread -> Label] /\ op \in [Thread -> Op]
      /\ arg \in [Thread -> Packet] /\ out \in [Thread -> Packet \cup BOOLEAN]
  BY DEF Label, Op, Packet
<1>5. /\ legal \in SUBSET Packet /\ hist \in SUBSET Packet
      /\ missed \in SUBSET Packet
  BY DEF Packet
<1> QED
  BY <1>2, <1>3, <1>4, <1>5 DEF TypeOK

LEMMA PutType ==
    ASSUME TypeOK, NEW i \in Stripe, NEW c \in Packet, Put(i, c)
    PROVE  /\ mem' \in [Stripe -> Cell]
           /\ disk' \in [Stripe -> SUBSET Cell]
           /\ damaged' \in SUBSET Stripe
<1>1. c \in Cell
  BY DEF Packet, Cell
<1>2. mem' \in [Stripe -> Cell]
  BY <1>1 DEF Put, TypeOK
<1>3. disk' \in [Stripe -> SUBSET Cell]
  BY <1>1 DEF Put, TypeOK
<1> QED
  BY <1>2, <1>3 DEF Put, TypeOK

LEMMA StopType ==
    ASSUME Stop
    PROVE  /\ failed' \in [Stripe -> BOOLEAN] /\ refused' \in BOOLEAN
           /\ lock' \in Thread \cup {Nobody} /\ up' \in BOOLEAN
           /\ pc' \in [Thread -> Label] /\ op' \in [Thread -> Op]
           /\ arg' \in [Thread -> Packet] /\ nxt' \in [Thread -> 1..N+1]
           /\ view' \in [Thread -> [Stripe -> Cell]] /\ ok' \in [Thread -> BOOLEAN]
           /\ out' \in [Thread -> Packet \cup BOOLEAN]
           /\ seen' \in [Thread -> SUBSET Packet]
           /\ missed' \in SUBSET Packet /\ owed' \in [Thread -> SUBSET Packet]
           /\ hurt' \in [Thread -> SUBSET Stripe]
<1>1. NoView \in [Stripe -> Cell]
  BY DEF NoView, Cell
<1>2. view' \in [Thread -> [Stripe -> Cell]]
  BY <1>1 DEF Stop
<1>3. /\ failed' \in [Stripe -> BOOLEAN] /\ refused' \in BOOLEAN
      /\ lock' \in Thread \cup {Nobody} /\ up' \in BOOLEAN
      /\ pc' \in [Thread -> Label] /\ op' \in [Thread -> Op]
  BY DEF Stop, Label, Op
<1>4. nxt' \in [Thread -> 1..N+1]
  BY CodingAssumption DEF Stop
<1>5. /\ arg' \in [Thread -> Packet] /\ ok' \in [Thread -> BOOLEAN]
      /\ out' \in [Thread -> Packet \cup BOOLEAN]
  BY DEF Stop, Packet
<1>6. /\ seen' \in [Thread -> SUBSET Packet]
      /\ missed' \in SUBSET Packet /\ owed' \in [Thread -> SUBSET Packet]
      /\ hurt' \in [Thread -> SUBSET Stripe]
  BY DEF Stop
<1> QED
  BY <1>2, <1>3, <1>4, <1>5, <1>6

LEMMA TypeStep == TypeOK /\ [Next]_vars => TypeOK'
<1> SUFFICES ASSUME TypeOK, [Next]_vars PROVE TypeOK'
  OBVIOUS
<1> USE CodingAssumption DEF TypeOK
<1>1. ASSUME NEW t \in Thread, Proceed(t) PROVE TypeOK'
  <2>1. CASE ReadStripe(t)
    BY <2>1 DEF ReadStripe, Advance, store, ghosts, Stripe, Cell
  <2>2. CASE JudgeGet(t)
    BY <2>2, AssembleType DEF JudgeGet, Goto, Label, store, ghosts
  <2>3. CASE JudgeContains(t)
    BY <2>3 DEF JudgeContains, Contains, Goto, Label, store, ghosts
  <2>4. CASE Rejudge(t)
    <3>1. PICK unread \in SUBSET Stripe :
            LET v == Reread(unread)  w == Assemble(v) IN
            /\ Fault(Cardinality(unread))
            /\ view' = [view EXCEPT ![t] = v]
            /\ nxt' = [nxt EXCEPT ![t] = 1]
            /\ ok' = [ok EXCEPT ![t] = @ /\ unread = {}]
            /\ IF w = None \/ Holders(v, w) = Stripe
               THEN Goto(t, "done") /\ UNCHANGED <<lock, arg>>
               ELSE /\ Goto(t, "mend")
                    /\ lock' = t
                    /\ arg' = [arg EXCEPT ![t] = w]
      BY <2>4 DEF Rejudge
    <3>2. Reread(unread) \in [Stripe -> Cell] /\ Assemble(Reread(unread)) \in Packet
      BY AssembleType DEF Reread, Cell
    <3>3. /\ view' \in [Thread -> [Stripe -> Cell]]
          /\ nxt' \in [Thread -> 1..N+1]
          /\ ok' \in [Thread -> BOOLEAN]
      BY <3>1, <3>2
    <3>4. /\ pc' \in [Thread -> Label] /\ lock' \in Thread \cup {Nobody}
          /\ arg' \in [Thread -> Packet]
      BY <3>1, <3>2 DEF Goto, Label
    <3>5. faults' \in Nat
      <4>1. Fault(Cardinality(unread))
        BY <3>1
      <4>2. Cardinality(unread) \in Nat
        BY <3>1, StripeSubsets
      <4> QED
        BY <4>1, <4>2 DEF Fault
    <3> QED
      BY <2>4, <3>3, <3>4, <3>5 DEF Rejudge, ghosts
  <2>5. CASE MendStripe(t)
    <3>1. nxt[t] \in Stripe /\ nxt' \in [Thread -> 1..N+1]
      BY <2>5 DEF MendStripe, Advance, Stripe
    <3>2. /\ mem' \in [Stripe -> Cell] /\ disk' \in [Stripe -> SUBSET Cell]
          /\ damaged' \in SUBSET Stripe
      BY <2>5, <3>1, PutType DEF MendStripe
    <3> QED
      BY <2>5, <3>1, <3>2 DEF MendStripe
  <2>6. CASE FinishMend(t)
    BY <2>6 DEF FinishMend, Goto, Label, ghosts
  <2>7. CASE LockWrite(t)
    BY <2>7 DEF LockWrite, Goto, Label, Packet
  <2>8. CASE WriteStripe(t)
    <3>1. nxt[t] \in Stripe /\ nxt' \in [Thread -> 1..N+1]
      BY <2>8 DEF WriteStripe, Advance, Stripe
    <3>2. /\ mem' \in [Stripe -> Cell] /\ disk' \in [Stripe -> SUBSET Cell]
          /\ damaged' \in SUBSET Stripe
      BY <2>8, <3>1, PutType DEF WriteStripe
    <3> QED
      BY <2>8, <3>1, <3>2 DEF WriteStripe
  <2>9. CASE FinishWrite(t)
    BY <2>9 DEF FinishWrite, Goto, Label, Packet
  <2>10. CASE SyncStripe(t)
    <3>1. nxt[t] \in Stripe /\ nxt' \in [Thread -> 1..N+1]
      BY <2>10 DEF SyncStripe, Advance, Stripe
    <3>2. disk' \in [Stripe -> SUBSET Cell]
      <4>1. CASE failed[nxt[t]]
        BY <2>10, <4>1 DEF SyncStripe
      <4>2. CASE ~failed[nxt[t]]
        <5>1. disk' = [disk EXCEPT ![nxt[t]] = {mem[nxt[t]]}]
          BY <2>10, <4>2 DEF SyncStripe
        <5>2. {mem[nxt[t]]} \in SUBSET Cell
          BY <3>1
        <5> QED
          BY <3>1, <5>1, <5>2
      <4> QED
        BY <4>1, <4>2
    <3>3. ok' \in [Thread -> BOOLEAN] /\ rotten' \in SUBSET Stripe
      BY <2>10 DEF SyncStripe
    <3> QED
      BY <2>10, <3>1, <3>2, <3>3 DEF SyncStripe
  <2>11. CASE FinishSync(t)
    BY <2>11 DEF FinishSync, Goto, Label, store
  <2>12. CASE Return(t)
    BY <2>12 DEF Return, Goto, Label, Op, Packet, NoView, Cell, Stripe, store
  <2> QED
    BY <1>1, <2>1, <2>2, <2>3, <2>4, <2>5, <2>6, <2>7, <2>8, <2>9, <2>10,
       <2>11, <2>12 DEF Proceed
<1>2. ASSUME NEW t \in Thread, Call(t) PROVE TypeOK'
  <2>1. CASE BeginGet(t)
    BY <2>1 DEF BeginGet, Begin, store, Label, Op, Packet
  <2>2. CASE BeginContains(t)
    BY <2>2 DEF BeginContains, Begin, store, Label, Op, Packet
  <2>3. CASE BeginRemove(t)
    BY <2>3 DEF BeginRemove, Begin, store, Label, Op, Packet
  <2>4. CASE BeginSync(t)
    BY <2>4 DEF BeginSync, Begin, store, Label, Op, Packet
  <2>5. ASSUME NEW w \in Wire, BeginInsert(t, w) PROVE TypeOK'
    BY <2>5 DEF BeginInsert, Begin, store, Label, Op, Packet
  <2>6. ASSUME NEW w \in Wire, RefuseInsert(t, w) PROVE TypeOK'
    BY <2>6 DEF RefuseInsert, threads, Packet
  <2> QED
    BY <1>2, <2>1, <2>2, <2>3, <2>4, <2>5, <2>6 DEF Call
<1>3. ASSUME NEW t \in Thread, BackendFails(t) PROVE TypeOK'
  <2>1. CASE ReadStripeFails(t)
    BY <2>1 DEF ReadStripeFails, Fault, Advance, store, Stripe
  <2>2. CASE WriteStripeFails(t)
    BY <2>2 DEF WriteStripeFails, Fault, Advance, ghosts, Stripe
  <2>3. CASE SyncStripeFails(t)
    BY <2>3 DEF SyncStripeFails, Fault, Advance, store, ghosts
  <2> QED
    BY <1>3, <2>1, <2>2, <2>3 DEF BackendFails
<1>4. CASE Kill
  <2>1. /\ faults' \in Nat /\ ops' \in Nat
        /\ UNCHANGED <<mem, disk, legal, hist, damaged, rotten>>
    BY <1>4 DEF Kill, Stop, Fault
  <2> QED
    BY <1>4, <2>1, StopType DEF Kill
<1>5. CASE PowerLoss
  <2>1. /\ mem' \in [Stripe -> Cell] /\ disk' \in [Stripe -> SUBSET Cell]
        /\ damaged' \in SUBSET Stripe /\ faults' \in Nat /\ ops' \in Nat
    BY <1>5 DEF PowerLoss, Stop, Fault
  <2> QED
    BY <1>5, <2>1, StopType DEF PowerLoss
<1>6. ASSUME NEW i \in Stripe, LoseStripe(i) PROVE TypeOK'
  BY <1>6 DEF LoseStripe, Fault, threads, Cell
<1>7. ASSUME NEW i \in Stripe, BitRot(i) PROVE TypeOK'
  BY <1>7 DEF BitRot, Fault, Cell
<1>8. CASE Open
  BY <1>8 DEF Open, threads, ghosts
<1>9. CASE UNCHANGED vars
  BY <1>9 DEF vars
<1> QED
  BY <1>1, <1>2, <1>3, <1>4, <1>5, <1>6, <1>7, <1>8, <1>9 DEF Next, Befall

\* The store's fields and its methods' locals keep their types.
THEOREM TypeCorrect == Spec => []TypeOK
<1>1. Spec => Init /\ [][Next]_vars
  BY DEF Spec
<1> QED
  BY <1>1, TypeInit, TypeStep, PTL
-----------------------------------------------------------------------------
(***************************************************************************)
(* The inductive invariant behind NoStaleShard, HitIsRegular and           *)
(* SyncHonest.                                                             *)
(***************************************************************************)

Spoilt == {None, Bad, BadHead}

\* The mutex is held exactly by the thread that writes stripes.
LockInv == \A t \in Thread : lock = t <=> pc[t] \in {"mend", "write"}

\* Each label belongs to its operation, and a loop starts at stripe 1.
LabelInv ==
    \A t \in Thread :
        /\ pc[t] \in {"repair", "mend"} => op[t] = "get"
        /\ pc[t] \in {"lock", "write"} => op[t] \in {"insert", "remove"}
        /\ pc[t] = "sync" => op[t] = "sync"
        /\ pc[t] = "read" => op[t] \in {"get", "contains"}
        /\ pc[t] = "idle" => op[t] = "none"
        /\ pc[t] \in {"idle", "lock"} => nxt[t] = 1 /\ ok[t]

\* What the stripes return is rightful, or the stripe is spoilt.
MemInv ==
    \A i \in Stripe :
        /\ i \notin damaged => mem[i] \in legal
        /\ i \in damaged => mem[i] \in Spoilt

\* What a writer writes is rightful, and stands in the stripes it has passed.
WriteInv ==
    \A t \in Thread :
        /\ pc[t] \in {"mend", "write"} => arg[t] \in legal
        /\ pc[t] = "write" /\ ok[t] =>
             \A j \in Stripe : j < nxt[t] /\ j \notin damaged => mem[j] = arg[t]

\* What a power loss may bring back is in hist, or the stripe is rotten.
DiskInv ==
    /\ legal \subseteq hist
    /\ damaged \subseteq rotten
    /\ \A i \in Stripe :
         /\ disk[i] \subseteq hist \cup Spoilt
         /\ i \notin rotten => disk[i] \subseteq hist

\* A sync leaves behind it only what the store rightly held during it.
SyncInv ==
    \A t \in Thread : pc[t] = "sync" /\ ok[t] =>
        \A j \in Stripe : j < nxt[t] =>
            /\ disk[j] \subseteq seen[t] \cup Spoilt
            /\ j \notin rotten => disk[j] \subseteq seen[t]

\* What a get has read, and what it returns, was rightful during it.
ReadInv ==
    \A t \in Thread :
        /\ pc[t] # "idle" => legal \subseteq seen[t]
        /\ pc[t] = "idle" => view[t] = NoView
        /\ pc[t] = "read" => \A i \in Stripe : view[t][i] \in seen[t] \cup Spoilt
        /\ pc[t] \in {"repair", "mend", "done"} /\ op[t] = "get"
             => out[t] \in seen[t] \cup {None}

IInv == /\ TypeOK /\ LockInv /\ LabelInv /\ MemInv /\ WriteInv
        /\ DiskInv /\ SyncInv /\ ReadInv
\* A packet the records rebuild is in one of them.
LEMMA AssembleHit ==
    ASSUME NEW v, Assemble(v) # None
    PROVE  Assemble(v) \in Wire /\ \E i \in Stripe : v[i] = Assemble(v)
<1> DEFINE w == Assemble(v)
<1>1. w \in Wire /\ Holders(v, w) \in Winning(v)
  BY DEF Assemble
<1>2. Cardinality(Holders(v, w)) >= K
  BY <1>1 DEF Winning, Quorate
<1>3. Holders(v, w) # {}
  BY <1>2, CodingAssumption, FS_EmptySet
<1> QED
  BY <1>1, <1>3 DEF Holders

LEMMA IInvInit == Init => IInv
<1> SUFFICES ASSUME Init PROVE IInv
  OBVIOUS
<1>1. TypeOK
  BY TypeInit
<1>2. LockInv /\ LabelInv /\ WriteInv /\ SyncInv /\ ReadInv
  BY ValueAssumption DEF Init, LockInv, LabelInv, WriteInv, SyncInv, ReadInv
<1>3. MemInv /\ DiskInv
  BY DEF Init, NoView, MemInv, DiskInv
<1> QED
  BY <1>1, <1>2, <1>3 DEF IInv

LEMMA IInvStep == IInv /\ [Next]_vars => IInv'
<1> SUFFICES ASSUME IInv, [Next]_vars PROVE IInv'
  OBVIOUS
<1> USE DEF IInv
<1>0. TypeOK /\ TypeOK'
  BY TypeStep
<1>1. ASSUME NEW t \in Thread, ReadStripe(t) PROVE IInv'
  <2>1. nxt[t] \in Stripe
    BY <1>0, <1>1, CodingAssumption DEF ReadStripe, TypeOK, Stripe
  <2>2. pc[t] = "read" /\ legal \subseteq seen[t]
    BY <1>1 DEF ReadStripe, ReadInv
  <2>3. mem[nxt[t]] \in seen[t] \cup Spoilt
    BY <2>1, <2>2 DEF MemInv
  <2>4. ReadInv'
    BY <1>0, <1>1, <2>3
       DEF ReadStripe, Advance, store, ghosts, TypeOK, ReadInv, Stripe
  <2>5. LockInv' /\ LabelInv' /\ MemInv' /\ WriteInv' /\ DiskInv' /\ SyncInv'
    BY <1>0, <1>1
       DEF ReadStripe, Advance, store, ghosts, TypeOK, LockInv, LabelInv, MemInv,
           WriteInv, DiskInv, SyncInv
  <2> QED
    BY <1>0, <2>4, <2>5
<1>2. ASSUME NEW t \in Thread, JudgeGet(t) PROVE IInv'
  <2>1. Assemble(view[t]) \in seen[t] \cup {None}
    BY <1>0, <1>2, AssembleHit, ValueAssumption DEF JudgeGet, ReadInv, Spoilt
  <2>2. ReadInv'
    BY <1>0, <1>2, <2>1 DEF JudgeGet, Goto, store, ghosts, TypeOK, ReadInv
  <2>3. LockInv' /\ LabelInv' /\ MemInv' /\ WriteInv' /\ DiskInv' /\ SyncInv'
    BY <1>0, <1>2
       DEF JudgeGet, Goto, store, ghosts, TypeOK, LockInv, LabelInv, MemInv,
           WriteInv, DiskInv, SyncInv
  <2> QED
    BY <1>0, <2>2, <2>3
<1>3. ASSUME NEW t \in Thread, JudgeContains(t) PROVE IInv'
  <2>1. LockInv' /\ LabelInv' /\ MemInv' /\ WriteInv' /\ DiskInv' /\ SyncInv' /\ ReadInv'
    BY <1>0, <1>3
       DEF JudgeContains, Goto, store, ghosts, TypeOK, LockInv, LabelInv, MemInv,
           WriteInv, DiskInv, SyncInv, ReadInv
  <2> QED
    BY <1>0, <2>1
<1>4. ASSUME NEW t \in Thread, Rejudge(t) PROVE IInv'
  <2>1. PICK unread \in SUBSET Stripe :
            IF Assemble(Reread(unread)) = None \/ Holders(Reread(unread), Assemble(Reread(unread))) = Stripe
            THEN Goto(t, "done") /\ UNCHANGED <<lock, arg>>
            ELSE /\ Goto(t, "mend")
                 /\ lock' = t
                 /\ arg' = [arg EXCEPT ![t] = Assemble(Reread(unread))]
    BY <1>4 DEF Rejudge
  <2>2. ASSUME Assemble(Reread(unread)) # None PROVE Assemble(Reread(unread)) \in legal
    BY <1>0, <2>2, AssembleHit, ValueAssumption DEF Reread, MemInv, Spoilt
  <2>3. LockInv'
    BY <1>0, <1>4, <2>1, ValueAssumption DEF Rejudge, Goto, TypeOK, LockInv
  <2>4. WriteInv'
    BY <1>0, <1>4, <2>1, <2>2 DEF Rejudge, Goto, ghosts, TypeOK, WriteInv
  <2>5. LabelInv' /\ MemInv' /\ DiskInv' /\ SyncInv' /\ ReadInv'
    BY <1>0, <1>4
       DEF Rejudge, Goto, ghosts, TypeOK, LabelInv, MemInv, DiskInv, SyncInv,
           ReadInv
  <2> QED
    BY <1>0, <2>3, <2>4, <2>5
<1>5. ASSUME NEW t \in Thread, MendStripe(t) PROVE IInv'
  <2>1. nxt[t] \in Stripe /\ arg[t] \in legal /\ arg[t] \in Packet
    BY <1>0, <1>5 DEF MendStripe, TypeOK, WriteInv, Stripe
  <2>2. \A u \in Thread \ {t} : pc[u] \notin {"mend", "write"}
    BY <1>0, <1>5 DEF MendStripe, LockInv
  <2>3. MemInv'
    BY <1>0, <1>5, <2>1 DEF MendStripe, Put, Advance, TypeOK, MemInv
  <2>4. WriteInv'
    BY <1>0, <1>5, <2>1, <2>2 DEF MendStripe, Put, Advance, TypeOK, WriteInv
  <2>5. DiskInv'
    <3>1. CASE view[t][nxt[t]] = arg[t]
      BY <1>0, <1>5, <3>1 DEF MendStripe, Advance, TypeOK, DiskInv
    <3>2. CASE Put(nxt[t], arg[t])
      <4>1. arg[t] \in hist /\ \A j \in Stripe : disk'[j] \in {disk[j], disk[j] \cup {arg[t]}}
        BY <1>0, <2>1, <3>2 DEF Put, TypeOK, DiskInv
      <4>2. UNCHANGED <<legal, hist, rotten, seen>> /\ damaged' \subseteq damaged
        BY <1>5, <3>2 DEF MendStripe, Put
      <4> QED
        BY <1>0, <1>5, <2>1, <4>1, <4>2 DEF MendStripe, TypeOK, DiskInv
    <3> QED
      BY <1>5, <3>1, <3>2 DEF MendStripe
  <2>6. SyncInv'
    <3> SUFFICES ASSUME NEW u \in Thread, pc'[u] = "sync", ok'[u],
                        NEW j \in Stripe, j < nxt'[u]
                 PROVE  /\ disk'[j] \subseteq seen'[u] \cup Spoilt
                        /\ j \notin rotten' => disk'[j] \subseteq seen'[u]
      BY DEF SyncInv
    <3>1. /\ pc[u] = "sync" /\ ok[u] /\ j < nxt[u]
          /\ seen' = seen /\ rotten' = rotten
      BY <1>0, <1>5 DEF MendStripe, Advance, TypeOK
    <3>2. disk'[j] \in {disk[j], disk[j] \cup {arg[t]}} /\ arg[t] \in seen[u]
      BY <1>0, <1>5, <2>1, <3>1 DEF MendStripe, Put, TypeOK, ReadInv
    <3> QED
      BY <3>1, <3>2 DEF SyncInv
  <2>7. LockInv' /\ LabelInv' /\ ReadInv'
    BY <1>0, <1>5 DEF MendStripe, Put, Advance, TypeOK, LockInv, LabelInv, ReadInv
  <2> QED
    BY <1>0, <2>3, <2>4, <2>5, <2>6, <2>7
<1>6. ASSUME NEW t \in Thread, FinishMend(t) PROVE IInv'
  <2>1. LockInv'
    BY <1>0, <1>6, ValueAssumption DEF FinishMend, Goto, TypeOK, LockInv
  <2>2. LabelInv' /\ MemInv' /\ WriteInv' /\ DiskInv' /\ SyncInv' /\ ReadInv'
    BY <1>0, <1>6
       DEF FinishMend, Goto, ghosts, TypeOK, LabelInv, MemInv, WriteInv, DiskInv,
           SyncInv, ReadInv
  <2> QED
    BY <1>0, <2>1, <2>2
<1>7. ASSUME NEW t \in Thread, LockWrite(t) PROVE IInv'
  <2>1. \A u \in Thread : pc[u] \notin {"mend", "write"}
    BY <1>0, <1>7, ValueAssumption DEF LockWrite, LockInv
  <2>2. LockInv'
    BY <1>0, <1>7, ValueAssumption DEF LockWrite, Goto, TypeOK, LockInv
  <2>3. nxt[t] = 1
    BY <1>7 DEF LockWrite, LabelInv
  <2>4. WriteInv'
    BY <1>0, <1>7, <2>1, <2>3 DEF LockWrite, Goto, TypeOK, WriteInv, Stripe
  <2>5. LabelInv' /\ MemInv' /\ DiskInv' /\ SyncInv' /\ ReadInv'
    BY <1>0, <1>7
       DEF LockWrite, Goto, Busy, TypeOK, LabelInv, MemInv, DiskInv, SyncInv,
           ReadInv
  <2> QED
    BY <1>0, <2>2, <2>4, <2>5
<1>8. ASSUME NEW t \in Thread, WriteStripe(t) PROVE IInv'
  <2>1. nxt[t] \in Stripe /\ arg[t] \in legal /\ arg[t] \in Packet
    BY <1>0, <1>8 DEF WriteStripe, TypeOK, WriteInv, Stripe
  <2>2. \A u \in Thread \ {t} : pc[u] \notin {"mend", "write"}
    BY <1>0, <1>8 DEF WriteStripe, LockInv
  <2>3. MemInv'
    BY <1>0, <1>8, <2>1 DEF WriteStripe, Put, Advance, TypeOK, MemInv
  <2>4. WriteInv'
    <3>1. ASSUME NEW u \in Thread, pc'[u] = "write", ok'[u],
                 NEW j \in Stripe, j < nxt'[u], j \notin damaged'
          PROVE  mem'[j] = arg'[u]
      <4>1. u = t /\ arg' = arg /\ ok[t]
        BY <1>8, <2>2, <3>1 DEF WriteStripe
      <4>2. CASE j = nxt[t]
        BY <1>0, <2>1, <1>8, <4>1, <4>2 DEF WriteStripe, Put, TypeOK
      <4>3. CASE j # nxt[t]
        <5>1. j < nxt[t] /\ j \notin damaged
          BY <1>0, <1>8, <2>1, <3>1, <4>1, <4>3
             DEF WriteStripe, Put, Advance, TypeOK, Stripe
        <5> QED
          BY <1>0, <1>8, <2>1, <4>1, <4>3, <5>1
             DEF WriteStripe, Put, TypeOK, WriteInv
      <4> QED
        BY <4>2, <4>3
    <3>2. \A u \in Thread : pc'[u] \in {"mend", "write"} => arg'[u] \in legal'
      BY <1>0, <1>8 DEF WriteStripe, WriteInv
    <3> QED
      BY <3>1, <3>2 DEF WriteInv
  <2>5. DiskInv'
    BY <1>0, <1>8, <2>1 DEF WriteStripe, Put, Advance, TypeOK, DiskInv
  <2>6. SyncInv'
    BY <1>0, <1>8, <2>1 DEF WriteStripe, Put, Advance, TypeOK, SyncInv, ReadInv
  <2>7. LockInv' /\ LabelInv'
    BY <1>0, <1>8 DEF WriteStripe, Put, Advance, TypeOK, LockInv, LabelInv
  <2>8. ReadInv'
    BY <1>0, <1>8 DEF WriteStripe, Put, Advance, TypeOK, ReadInv
  <2> QED
    BY <1>0, <2>3, <2>4, <2>5, <2>6, <2>7, <2>8
<1>9. ASSUME NEW t \in Thread, FinishWrite(t) PROVE IInv'
  <2>1. legal' \subseteq legal
    BY <1>0, <1>9 DEF FinishWrite, WriteInv
  <2>2. \A u \in Thread \ {t} : pc[u] \notin {"mend", "write"}
    BY <1>0, <1>9 DEF FinishWrite, LockInv
  <2>3. LockInv'
    BY <1>0, <1>9, ValueAssumption DEF FinishWrite, Goto, TypeOK, LockInv
  <2>4. ASSUME ok[t] PROVE \A j \in Stripe : j \notin damaged => mem[j] = arg[t]
    BY <1>0, <1>9, <2>4, CodingAssumption DEF FinishWrite, TypeOK, WriteInv, Stripe
  <2>5. MemInv'
    BY <1>0, <1>9, <2>4 DEF FinishWrite, MemInv
  <2>6. WriteInv'
    BY <1>0, <1>9, <2>2 DEF FinishWrite, Goto, TypeOK, WriteInv
  <2>7. DiskInv'
    BY <1>0, <1>9, <2>1 DEF FinishWrite, DiskInv
  <2>8. ReadInv'
    BY <1>0, <1>9, <2>1 DEF FinishWrite, Goto, TypeOK, LabelInv, ReadInv
  <2>9. LabelInv' /\ SyncInv'
    BY <1>0, <1>9 DEF FinishWrite, Goto, TypeOK, LabelInv, SyncInv
  <2> QED
    BY <1>0, <2>3, <2>5, <2>6, <2>7, <2>8, <2>9
<1>10. ASSUME NEW t \in Thread, SyncStripe(t) PROVE IInv'
  <2>1. nxt[t] \in Stripe
    BY <1>0, <1>10 DEF SyncStripe, TypeOK, Stripe
  <2>2. DiskInv'
    <3>1. CASE failed[nxt[t]]
      BY <1>0, <1>10, <3>1 DEF SyncStripe, DiskInv
    <3>2. CASE ~failed[nxt[t]]
      <4>1. /\ disk' = [disk EXCEPT ![nxt[t]] = {mem[nxt[t]]}]
            /\ rotten' = IF nxt[t] \in damaged THEN rotten ELSE rotten \ {nxt[t]}
            /\ UNCHANGED <<legal, hist, damaged>>
        BY <1>10, <3>2 DEF SyncStripe
      <4>2. /\ nxt[t] \notin damaged => mem[nxt[t]] \in hist
            /\ nxt[t] \in damaged => mem[nxt[t]] \in Spoilt /\ nxt[t] \in rotten
        BY <2>1 DEF MemInv, DiskInv
      <4> QED
        BY <1>0, <2>1, <4>1, <4>2 DEF TypeOK, DiskInv
    <3> QED
      BY <3>1, <3>2
  <2>3. ASSUME NEW u \in Thread, pc'[u] = "sync", ok'[u], NEW j \in Stripe, j < nxt'[u]
       PROVE  /\ disk'[j] \subseteq seen'[u] \cup Spoilt
              /\ j \notin rotten' => disk'[j] \subseteq seen'[u]
    <3>0. pc[u] = "sync" /\ ok[u] /\ seen'[u] = seen[u] /\ (u # t => j < nxt[u])
      BY <1>0, <1>10, <2>3 DEF SyncStripe, Advance, TypeOK
    <3>1. CASE j # nxt[t]
      <4>1. disk'[j] = disk[j] /\ (j \in rotten' <=> j \in rotten)
        BY <1>0, <1>10, <2>1, <3>1 DEF SyncStripe, TypeOK
      <4>2. j < nxt[u]
        BY <1>0, <1>10, <2>1, <2>3, <3>0, <3>1
           DEF SyncStripe, Advance, TypeOK, Stripe
      <4> QED
        BY <3>0, <4>1, <4>2 DEF SyncInv
    <3>2. CASE j = nxt[t]
      <4>1. pc[u] = "sync" /\ ok[u] /\ seen'[u] = seen[u]
        BY <3>0
      <4>2. CASE failed[j]
        <5>1. u # t /\ disk' = disk /\ rotten' = rotten
          BY <1>0, <1>10, <2>3, <3>2, <4>2 DEF SyncStripe, TypeOK
        <5> QED
          BY <3>0, <5>1 DEF SyncInv
      <4>3. CASE ~failed[j]
        <5>1. /\ disk'[j] = {mem[j]}
              /\ j \notin damaged => j \notin rotten' /\ mem[j] \in legal
              /\ j \in damaged => j \in rotten' /\ mem[j] \in Spoilt
          BY <1>0, <1>10, <2>1, <3>2, <4>3 DEF SyncStripe, TypeOK, MemInv, DiskInv
        <5>2. legal \subseteq seen[u]
          BY <4>1 DEF ReadInv
        <5> QED
          BY <4>1, <5>1, <5>2
      <4> QED
        BY <4>2, <4>3
    <3> QED
      BY <3>1, <3>2
  <2>4. SyncInv'
    BY <2>3 DEF SyncInv
  <2>5. LockInv' /\ LabelInv' /\ MemInv' /\ WriteInv' /\ ReadInv'
    BY <1>0, <1>10
       DEF SyncStripe, Advance, TypeOK, LockInv, LabelInv, MemInv, WriteInv, ReadInv
  <2> QED
    BY <1>0, <2>2, <2>4, <2>5
<1>11. ASSUME NEW t \in Thread, FinishSync(t) PROVE IInv'
  <2>1. \A j \in Stripe : j < nxt[t]
    BY <1>0, <1>11, CodingAssumption DEF FinishSync, TypeOK, Stripe
  <2>2. pc[t] = "sync" /\ legal \subseteq seen[t]
    BY <1>11 DEF FinishSync, ReadInv
  <2>3. DiskInv'
    <3>1. CASE ~ok[t]
      BY <1>11, <3>1 DEF FinishSync, store, DiskInv
    <3>2. CASE ok[t]
      <4>1. hist' = hist \cap seen[t] /\ UNCHANGED <<legal, disk, damaged, rotten>>
        BY <1>11, <3>2 DEF FinishSync, store
      <4>2. \A j \in Stripe :
              /\ disk[j] \subseteq seen[t] \cup Spoilt
              /\ j \notin rotten => disk[j] \subseteq seen[t]
        BY <2>1, <2>2, <3>2 DEF SyncInv
      <4>3. legal' \subseteq hist' /\ damaged' \subseteq rotten'
        BY <2>2, <4>1 DEF DiskInv
      <4>4. ASSUME NEW j \in Stripe
            PROVE  /\ disk'[j] \subseteq hist' \cup Spoilt
                   /\ j \notin rotten' => disk'[j] \subseteq hist'
        BY <4>1, <4>2 DEF DiskInv
      <4> QED
        BY <4>3, <4>4 DEF DiskInv
    <3> QED
      BY <1>0, <3>1, <3>2 DEF TypeOK
  <2>4. ReadInv'
    BY <1>0, <1>11 DEF FinishSync, Goto, store, TypeOK, LabelInv, ReadInv
  <2>5. LockInv' /\ LabelInv' /\ MemInv' /\ WriteInv' /\ SyncInv'
    BY <1>0, <1>11
       DEF FinishSync, Goto, store, TypeOK, LockInv, LabelInv, MemInv, WriteInv,
           SyncInv
  <2> QED
    BY <1>0, <2>3, <2>4, <2>5
<1>12. ASSUME NEW t \in Thread, Return(t) PROVE IInv'
  <2>1. LabelInv' /\ ReadInv'
    BY <1>0, <1>12 DEF Return, Goto, store, TypeOK, LabelInv, ReadInv
  <2>2. LockInv' /\ MemInv' /\ WriteInv' /\ DiskInv' /\ SyncInv'
    BY <1>0, <1>12
       DEF Return, Goto, store, TypeOK, LockInv, MemInv, WriteInv, DiskInv, SyncInv
  <2> QED
    BY <1>0, <2>1, <2>2
<1>13. ASSUME NEW t \in Thread, BeginGet(t) PROVE IInv'
  <2>1. ReadInv'
    BY <1>0, <1>13 DEF BeginGet, Begin, NoView, TypeOK, ReadInv, Spoilt
  <2>2. LockInv' /\ LabelInv' /\ MemInv' /\ WriteInv' /\ DiskInv' /\ SyncInv'
    BY <1>0, <1>13
       DEF BeginGet, Begin, store, TypeOK, LockInv, LabelInv, MemInv, WriteInv,
           DiskInv, SyncInv
  <2> QED
    BY <1>0, <2>1, <2>2
<1>14. ASSUME NEW t \in Thread, BeginContains(t) PROVE IInv'
  <2>1. ReadInv'
    BY <1>0, <1>14 DEF BeginContains, Begin, NoView, TypeOK, ReadInv, Spoilt
  <2>2. LockInv' /\ LabelInv' /\ MemInv' /\ WriteInv' /\ DiskInv' /\ SyncInv'
    BY <1>0, <1>14
       DEF BeginContains, Begin, store, TypeOK, LockInv, LabelInv, MemInv, WriteInv,
           DiskInv, SyncInv
  <2> QED
    BY <1>0, <2>1, <2>2
<1>15. ASSUME NEW t \in Thread, BeginRemove(t) PROVE IInv'
  <2>1. LockInv' /\ LabelInv' /\ MemInv' /\ WriteInv' /\ DiskInv' /\ SyncInv' /\ ReadInv'
    BY <1>0, <1>15
       DEF BeginRemove, Begin, store, TypeOK, LockInv, LabelInv, MemInv, WriteInv,
           DiskInv, SyncInv, ReadInv
  <2> QED
    BY <1>0, <2>1
<1>16. ASSUME NEW t \in Thread, BeginSync(t) PROVE IInv'
  <2>1. nxt[t] = 1
    BY <1>16 DEF BeginSync, Begin, LabelInv
  <2>2. SyncInv'
    BY <1>0, <1>16, <2>1 DEF BeginSync, Begin, store, TypeOK, SyncInv, Stripe
  <2>3. LockInv' /\ LabelInv' /\ MemInv' /\ WriteInv' /\ DiskInv' /\ ReadInv'
    BY <1>0, <1>16
       DEF BeginSync, Begin, store, TypeOK, LockInv, LabelInv, MemInv, WriteInv,
           DiskInv, ReadInv
  <2> QED
    BY <1>0, <2>2, <2>3
<1>17. ASSUME NEW t \in Thread, NEW w \in Wire, BeginInsert(t, w) PROVE IInv'
  <2>1. LockInv' /\ LabelInv' /\ MemInv' /\ WriteInv' /\ DiskInv' /\ SyncInv' /\ ReadInv'
    BY <1>0, <1>17
       DEF BeginInsert, Begin, store, TypeOK, LockInv, LabelInv, MemInv, WriteInv,
           DiskInv, SyncInv, ReadInv
  <2> QED
    BY <1>0, <2>1
<1>18. ASSUME NEW t \in Thread, NEW w \in Wire, RefuseInsert(t, w) PROVE IInv'
  <2>1. LockInv' /\ LabelInv' /\ MemInv' /\ WriteInv' /\ DiskInv' /\ SyncInv' /\ ReadInv'
    BY <1>0, <1>18
       DEF RefuseInsert, threads, Busy, TypeOK, LockInv, LabelInv, MemInv, WriteInv,
           DiskInv, SyncInv, ReadInv
  <2> QED
    BY <1>0, <2>1
<1>19. ASSUME NEW t \in Thread, ReadStripeFails(t) PROVE IInv'
  <2>1. LockInv' /\ LabelInv' /\ MemInv' /\ WriteInv' /\ DiskInv' /\ SyncInv' /\ ReadInv'
    BY <1>0, <1>19
       DEF ReadStripeFails, Advance, store, TypeOK, LockInv, LabelInv, MemInv,
           WriteInv, DiskInv, SyncInv, ReadInv
  <2> QED
    BY <1>0, <2>1
<1>20. ASSUME NEW t \in Thread, WriteStripeFails(t) PROVE IInv'
  <2>1. LockInv' /\ LabelInv' /\ MemInv' /\ WriteInv' /\ DiskInv' /\ SyncInv' /\ ReadInv'
    BY <1>0, <1>20
       DEF WriteStripeFails, Advance, ghosts, TypeOK, LockInv, LabelInv, MemInv,
           WriteInv, DiskInv, SyncInv, ReadInv
  <2> QED
    BY <1>0, <2>1
<1>21. ASSUME NEW t \in Thread, SyncStripeFails(t) PROVE IInv'
  <2>1. LockInv' /\ LabelInv' /\ MemInv' /\ WriteInv' /\ DiskInv' /\ SyncInv' /\ ReadInv'
    BY <1>0, <1>21
       DEF SyncStripeFails, Advance, store, ghosts, TypeOK, LockInv, LabelInv,
           MemInv, WriteInv, DiskInv, SyncInv, ReadInv
  <2> QED
    BY <1>0, <2>1
<1>22. CASE Kill
  <2>1. LockInv'
    BY <1>0, <1>22, ValueAssumption DEF Kill, Stop, LockInv
  <2>2. LabelInv' /\ MemInv' /\ WriteInv' /\ DiskInv' /\ SyncInv' /\ ReadInv'
    BY <1>0, <1>22
       DEF Kill, Stop, TypeOK, LabelInv, MemInv, WriteInv, DiskInv, SyncInv, ReadInv
  <2> QED
    BY <1>0, <2>1, <2>2
<1>23. CASE PowerLoss
  <2>1. LockInv'
    BY <1>0, <1>23, ValueAssumption DEF PowerLoss, Stop, LockInv
  <2>2. ASSUME NEW j \in Stripe PROVE mem'[j] \in hist \cup Spoilt /\ (j \notin rotten => mem'[j] \in hist)
    BY <1>0, <1>23 DEF PowerLoss, TypeOK, DiskInv
  <2>3. MemInv'
    BY <1>23, <2>2 DEF PowerLoss, MemInv
  <2>4. DiskInv'
    BY <1>0, <1>23, <2>2 DEF PowerLoss, DiskInv
  <2>5. LabelInv' /\ WriteInv' /\ SyncInv' /\ ReadInv'
    BY <1>0, <1>23 DEF PowerLoss, Stop, TypeOK, LabelInv, WriteInv, SyncInv, ReadInv
  <2> QED
    BY <1>0, <2>1, <2>3, <2>4, <2>5
<1>24. ASSUME NEW i \in Stripe, LoseStripe(i) PROVE IInv'
  <2>1. MemInv'
    BY <1>0, <1>24 DEF LoseStripe, TypeOK, MemInv, Spoilt
  <2>2. DiskInv'
    BY <1>0, <1>24 DEF LoseStripe, TypeOK, DiskInv, Spoilt
  <2>3. SyncInv'
    BY <1>0, <1>24 DEF LoseStripe, threads, TypeOK, SyncInv, Spoilt
  <2>4. LockInv' /\ LabelInv' /\ WriteInv' /\ ReadInv'
    BY <1>0, <1>24
       DEF LoseStripe, threads, TypeOK, LockInv, LabelInv, WriteInv, ReadInv
  <2> QED
    BY <1>0, <2>1, <2>2, <2>3, <2>4
<1>25. ASSUME NEW i \in Stripe, BitRot(i) PROVE IInv'
  <2>1. MemInv'
    BY <1>0, <1>25 DEF BitRot, TypeOK, MemInv, Spoilt
  <2>2. DiskInv'
    BY <1>0, <1>25 DEF BitRot, TypeOK, DiskInv, Spoilt
  <2>3. SyncInv'
    BY <1>0, <1>25 DEF BitRot, TypeOK, SyncInv, Spoilt
  <2>4. LockInv' /\ LabelInv' /\ WriteInv' /\ ReadInv'
    BY <1>0, <1>25 DEF BitRot, Busy, TypeOK, LockInv, LabelInv, WriteInv, ReadInv
  <2> QED
    BY <1>0, <2>1, <2>2, <2>3, <2>4
<1>26. CASE Open
  <2>1. LockInv' /\ LabelInv' /\ MemInv' /\ WriteInv' /\ DiskInv' /\ SyncInv' /\ ReadInv'
    BY <1>0, <1>26
       DEF Open, threads, ghosts, TypeOK, LockInv, LabelInv, MemInv, WriteInv,
           DiskInv, SyncInv, ReadInv
  <2> QED
    BY <1>0, <2>1
<1>27. CASE UNCHANGED vars
  <2>1. LockInv' /\ LabelInv' /\ MemInv' /\ WriteInv' /\ DiskInv' /\ SyncInv' /\ ReadInv'
    BY <1>0, <1>27
       DEF vars, TypeOK, LockInv, LabelInv, MemInv, WriteInv, DiskInv, SyncInv,
           ReadInv
  <2> QED
    BY <1>0, <2>1
<1> QED
  BY <1>1, <1>2, <1>3, <1>4, <1>5, <1>6, <1>7, <1>8, <1>9, <1>10, <1>11, <1>12,
     <1>13, <1>14, <1>15, <1>16, <1>17, <1>18, <1>19, <1>20, <1>21, <1>22, <1>23,
     <1>24, <1>25, <1>26, <1>27
  DEF Next, Proceed, Call, BackendFails, Befall

LEMMA IInvCorrect == Spec => []IInv
<1>1. Spec => Init /\ [][Next]_vars
  BY DEF Spec
<1> QED
  BY <1>1, IInvInit, IInvStep, PTL

\* Between the insert or remove that replaced a packet and the next write, no
\* stripe holds a shard of it: no repair writes one back.
THEOREM NoStaleShardCorrect == Spec => []NoStaleShard
<1>1. IInv => NoStaleShard
  BY DEF IInv, MemInv, Spoilt, NoStaleShard
<1> QED
  BY <1>1, IInvCorrect, PTL

\* What a get returns, the store rightly held during the get.
THEOREM HitIsRegularCorrect == Spec => []HitIsRegular
<1>1. IInv => HitIsRegular
  BY DEF IInv, ReadInv, Finished, HitIsRegular
<1> QED
  BY <1>1, IInvCorrect, PTL
-----------------------------------------------------------------------------
(***************************************************************************)
(* Any K shards rebuild the packet.                                        *)
(***************************************************************************)

\* Records that hold one wire w but in at most N - K spoilt stripes rebuild w.
\* A shard under a rotten digest is a group of one, so it takes K > 1.
LEMMA RebuildFromK ==
    ASSUME K > 1, NEW m, NEW w \in Wire, NEW S \in SUBSET Stripe,
           Cardinality(S) <= N - K,
           \A i \in Stripe : m[i] \in {w} \cup Spoilt,
           \A i \in Stripe \ S : m[i] = w
    PROVE  Assemble(m) = w
<1> DEFINE H == Holders(m, w)
<1>1. Stripe \ S \subseteq H /\ H \in SUBSET Stripe
  BY DEF Holders
<1>2. Cardinality(H) >= K
  <2>1. /\ IsFiniteSet(Stripe) /\ Cardinality(Stripe) = N
        /\ IsFiniteSet(S) /\ Cardinality(S) \in Nat
    BY CodingAssumption, FS_Interval, StripeSubsets DEF Stripe
  <2>2. Cardinality(Stripe \ S) = N - Cardinality(Stripe \cap S)
    BY <2>1, FS_Difference
  <2>3. Stripe \cap S = S
    OBVIOUS
  <2>4. IsFiniteSet(H) /\ Cardinality(H) \in Nat
    BY <1>1, StripeSubsets
  <2>5. Cardinality(Stripe \ S) <= Cardinality(H)
    BY <1>1, <2>4, FS_Subset
  <2>6. Cardinality(Stripe \ S) >= K
    BY <2>1, <2>2, <2>3, CodingAssumption
  <2>7. Cardinality(Stripe \ S) \in Nat
    BY StripeSubsets
  <2> QED
    BY <2>4, <2>5, <2>6, <2>7, CodingAssumption
<1>3. ASSUME NEW g \in Quorate(m) PROVE g = H
  <2>1. g \in Groups(m) /\ Cardinality(g) >= K
    BY DEF Quorate
  <2>2. CASE \E i \in Holders(m, BadHead) : g = {i}
    <3>1. Cardinality(g) = 1
      BY <2>2, FS_Singleton
    <3> QED
      BY <2>1, <3>1, CodingAssumption
  <2>3. CASE \E x \in Wire : g = Holders(m, x)
    <3>1. PICK x \in Wire : g = Holders(m, x)
      BY <2>3
    <3>2. g # {}
      <4>1. Cardinality({}) = 0
        BY FS_EmptySet
      <4> QED
        BY <2>1, <4>1, CodingAssumption
    <3>3. x = w
      BY <3>1, <3>2, ValueAssumption DEF Holders, Spoilt
    <3> QED
      BY <3>1, <3>3
  <2> QED
    BY <2>1, <2>2, <2>3 DEF Groups
<1>4. H \in Quorate(m)
  BY <1>2 DEF Quorate, Groups
<1>5. Winning(m) = {H}
  BY <1>3, <1>4 DEF Winning
<1>6. H # {}
  BY <1>2, CodingAssumption, FS_EmptySet
<1>7. \A x \in Wire : Holders(m, x) \in Winning(m) <=> x = w
  BY <1>5, <1>6 DEF Holders
<1> QED
  BY <1>7 DEF Assemble

\* With the packet stored and at most N - K stripes lost or rotten, a read
\* rebuilds it (for K > 1: with K = 1 one rotten digest can hide it).
THEOREM AnyKRebuildCorrect ==
    ASSUME K > 1
    PROVE  Spec => []AnyKRebuild
<1>1. ASSUME IInv PROVE AnyKRebuild
  <2> SUFFICES ASSUME NEW w \in Wire, legal = {w}, Cardinality(damaged) <= N - K
               PROVE  Assemble(mem) = w
    BY DEF AnyKRebuild
  <2>1. damaged \in SUBSET Stripe
    BY <1>1 DEF IInv, TypeOK
  <2>2. /\ \A i \in Stripe : mem[i] \in {w} \cup Spoilt
        /\ \A i \in Stripe \ damaged : mem[i] = w
    BY <1>1 DEF IInv, MemInv
  <2> QED
    BY <2>1, <2>2, RebuildFromK
<1> QED
  BY <1>1, IInvCorrect, PTL

\* A packet that an Ok sync covered, and nothing was written over since, is
\* rebuilt after any power loss that leaves at most N - K rotten stripes.
THEOREM SyncedSurvivesCorrect == Spec => []SyncedSurvives
<1>1. ASSUME IInv PROVE SyncedSurvives
  <2> SUFFICES ASSUME NEW w \in Wire, hist = {w}, K > 1,
                      Cardinality(rotten) <= N - K,
                      NEW m \in [Stripe -> Cell],
                      \A i \in Stripe : m[i] \in disk[i]
               PROVE  Assemble(m) = w
    BY DEF SyncedSurvives
  <2>1. rotten \in SUBSET Stripe
    BY <1>1 DEF IInv, TypeOK
  <2>2. /\ \A i \in Stripe : m[i] \in {w} \cup Spoilt
        /\ \A i \in Stripe \ rotten : m[i] = w
    BY <1>1 DEF IInv, DiskInv
  <2> QED
    BY <2>1, <2>2, RebuildFromK
<1> QED
  BY <1>1, IInvCorrect, PTL
-----------------------------------------------------------------------------
(***************************************************************************)
(* An Ok sync is honest.                                                   *)
(***************************************************************************)

Flagged == refused \/ \E i \in Stripe : failed[i]

\* What was missed left a flag behind, which nothing but a reopening takes down.
MissInv == missed # {} => Flagged

\* A sync that began with something missed has failed already, or has a flag
\* still to meet.
HonestInv ==
    \A t \in Thread :
        /\ pc[t] = "sync" /\ ok[t] =>
             \/ owed[t] = {}
             \/ \E j \in Stripe : nxt[t] <= j /\ failed[j]
        /\ Finished(t, "sync") /\ out[t] = TRUE => owed[t] = {}

HInv == IInv /\ MissInv /\ HonestInv

LEMMA HInvInit == Init => HInv
BY IInvInit DEF Init, HInv, MissInv, HonestInv, Finished

LEMMA HInvStep == HInv /\ [Next]_vars => HInv'
<1> SUFFICES ASSUME HInv, [Next]_vars PROVE MissInv' /\ HonestInv'
  BY IInvStep DEF HInv
<1> USE DEF HInv
<1>0. TypeOK /\ LabelInv
  BY DEF IInv
<1>1. ASSUME NEW t \in Thread, ReadStripe(t) PROVE MissInv' /\ HonestInv'
  BY <1>0, <1>1
     DEF ReadStripe, Advance, store, ghosts, TypeOK, LabelInv, MissInv, HonestInv,
         Flagged, Finished
<1>2. ASSUME NEW t \in Thread, JudgeGet(t) PROVE MissInv' /\ HonestInv'
  BY <1>0, <1>2
     DEF JudgeGet, Goto, store, ghosts, TypeOK, LabelInv, MissInv, HonestInv,
         Flagged, Finished
<1>3. ASSUME NEW t \in Thread, JudgeContains(t) PROVE MissInv' /\ HonestInv'
  BY <1>0, <1>3
     DEF JudgeContains, Goto, store, ghosts, TypeOK, LabelInv, MissInv, HonestInv,
         Flagged, Finished
<1>4. ASSUME NEW t \in Thread, Rejudge(t) PROVE MissInv' /\ HonestInv'
  <2>1. MissInv'
    BY <1>0, <1>4 DEF Rejudge, Goto, ghosts, TypeOK, MissInv, Flagged
  <2>2. /\ op[t] = "get"
        /\ \A u \in Thread \ {t} : pc'[u] = pc[u] /\ ok'[u] = ok[u] /\ nxt'[u] = nxt[u]
        /\ pc'[t] \in {"done", "mend"}
        /\ UNCHANGED <<op, out, failed, owed>>
    BY <1>0, <1>4 DEF Rejudge, Goto, ghosts, TypeOK, LabelInv
  <2>3. HonestInv'
    BY <1>0, <2>2 DEF HonestInv, Finished
  <2> QED
    BY <2>1, <2>3
<1>5. ASSUME NEW t \in Thread, MendStripe(t) PROVE MissInv' /\ HonestInv'
  BY <1>0, <1>5
     DEF MendStripe, Advance, TypeOK, LabelInv, MissInv, HonestInv, Flagged,
         Finished
<1>6. ASSUME NEW t \in Thread, FinishMend(t) PROVE MissInv' /\ HonestInv'
  BY <1>0, <1>6
     DEF FinishMend, Goto, ghosts, TypeOK, LabelInv, MissInv, HonestInv, Flagged,
         Finished
<1>7. ASSUME NEW t \in Thread, LockWrite(t) PROVE MissInv' /\ HonestInv'
  BY <1>0, <1>7
     DEF LockWrite, Goto, TypeOK, LabelInv, MissInv, HonestInv, Flagged, Finished
<1>8. ASSUME NEW t \in Thread, WriteStripe(t) PROVE MissInv' /\ HonestInv'
  BY <1>0, <1>8
     DEF WriteStripe, Advance, TypeOK, LabelInv, MissInv, HonestInv, Flagged,
         Finished
<1>9. ASSUME NEW t \in Thread, FinishWrite(t) PROVE MissInv' /\ HonestInv'
  BY <1>0, <1>9
     DEF FinishWrite, Goto, TypeOK, LabelInv, MissInv, HonestInv, Flagged, Finished
<1>10. ASSUME NEW t \in Thread, SyncStripe(t) PROVE MissInv' /\ HonestInv'
  <2>1. MissInv'
    BY <1>0, <1>10 DEF SyncStripe, TypeOK, MissInv, Flagged
  <2>2. ASSUME NEW j \in Stripe, nxt[t] <= j, failed[j], ok'[t]
        PROVE  nxt'[t] <= j
    BY <1>0, <1>10, <2>2, CodingAssumption DEF SyncStripe, Advance, TypeOK, Stripe
  <2>3. /\ pc' = pc /\ op' = op /\ out' = out /\ failed' = failed
        /\ owed' = owed
    BY <1>10 DEF SyncStripe
  <2>4. \A u \in Thread \ {t} : nxt'[u] = nxt[u] /\ ok'[u] = ok[u]
    BY <1>0, <1>10 DEF SyncStripe, Advance, TypeOK
  <2>5. ok'[t] => ok[t]
    BY <1>0, <1>10 DEF SyncStripe, TypeOK
  <2>6. ASSUME NEW u \in Thread, pc'[u] = "sync", ok'[u]
        PROVE  \/ owed'[u] = {}
               \/ \E j \in Stripe : nxt'[u] <= j /\ failed'[j]
    <3>1. \/ owed[u] = {}
          \/ \E j \in Stripe : nxt[u] <= j /\ failed[j]
      BY <1>0, <2>3, <2>4, <2>5, <2>6 DEF HonestInv
    <3>2. CASE u = t
      BY <2>2, <2>3, <2>6, <3>1, <3>2
    <3>3. CASE u # t
      BY <2>3, <2>4, <3>1, <3>3
    <3> QED
      BY <3>2, <3>3
  <2>7. HonestInv'
    BY <1>0, <2>3, <2>6 DEF HonestInv, Finished
  <2> QED
    BY <2>1, <2>7
<1>11. ASSUME NEW t \in Thread, FinishSync(t) PROVE MissInv' /\ HonestInv'
  <2>1. MissInv'
    BY <1>0, <1>11 DEF FinishSync, Goto, store, TypeOK, MissInv, Flagged
  <2>2. ~ \E j \in Stripe : nxt[t] <= j
    BY <1>0, <1>11, CodingAssumption DEF FinishSync, TypeOK, Stripe
  <2>3. ok[t] => owed[t] = {}
    BY <1>11, <2>2 DEF FinishSync, HonestInv
  <2>4. HonestInv'
    BY <1>0, <1>11, <2>3 DEF FinishSync, Goto, store, TypeOK, HonestInv, Finished
  <2> QED
    BY <2>1, <2>4
<1>12. ASSUME NEW t \in Thread, Return(t) PROVE MissInv' /\ HonestInv'
  BY <1>0, <1>12
     DEF Return, Goto, store, TypeOK, LabelInv, MissInv, HonestInv, Flagged,
         Finished
<1>13. ASSUME NEW t \in Thread, BeginGet(t) PROVE MissInv' /\ HonestInv'
  BY <1>0, <1>13
     DEF BeginGet, Begin, store, TypeOK, LabelInv, MissInv, HonestInv, Flagged,
         Finished
<1>14. ASSUME NEW t \in Thread, BeginContains(t) PROVE MissInv' /\ HonestInv'
  BY <1>0, <1>14
     DEF BeginContains, Begin, store, TypeOK, LabelInv, MissInv, HonestInv,
         Flagged, Finished
<1>15. ASSUME NEW t \in Thread, BeginRemove(t) PROVE MissInv' /\ HonestInv'
  BY <1>0, <1>15
     DEF BeginRemove, Begin, store, TypeOK, LabelInv, MissInv, HonestInv, Flagged,
         Finished
<1>16. ASSUME NEW t \in Thread, BeginSync(t) PROVE MissInv' /\ HonestInv'
  <2>1. MissInv'
    BY <1>0, <1>16 DEF BeginSync, Begin, store, TypeOK, MissInv, Flagged
  <2>2. nxt'[t] = 1 /\ failed' = failed
    BY <1>0, <1>16 DEF BeginSync, Begin, store, LabelInv
  <2>3. ok'[t] => \/ owed'[t] = {}
                  \/ \E j \in Stripe : nxt'[t] <= j /\ failed'[j]
    BY <1>0, <1>16, <2>2, CodingAssumption
       DEF BeginSync, Begin, TypeOK, MissInv, Flagged, Stripe
  <2>4. HonestInv'
    BY <1>0, <1>16, <2>3 DEF BeginSync, Begin, store, TypeOK, HonestInv, Finished
  <2> QED
    BY <2>1, <2>4
<1>17. ASSUME NEW t \in Thread, NEW w \in Wire, BeginInsert(t, w) PROVE MissInv' /\ HonestInv'
  BY <1>0, <1>17
     DEF BeginInsert, Begin, store, TypeOK, LabelInv, MissInv, HonestInv, Flagged,
         Finished
<1>18. ASSUME NEW t \in Thread, NEW w \in Wire, RefuseInsert(t, w) PROVE MissInv' /\ HonestInv'
  BY <1>0, <1>18
     DEF RefuseInsert, threads, Busy, TypeOK, LabelInv, MissInv, HonestInv,
         Flagged, Finished
<1>19. ASSUME NEW t \in Thread, ReadStripeFails(t) PROVE MissInv' /\ HonestInv'
  BY <1>0, <1>19
     DEF ReadStripeFails, Advance, store, TypeOK, LabelInv, MissInv, HonestInv,
         Flagged, Finished
<1>20. ASSUME NEW t \in Thread, WriteStripeFails(t) PROVE MissInv' /\ HonestInv'
  <2>1. nxt[t] \in Stripe
    BY <1>0, <1>20, CodingAssumption DEF WriteStripeFails, TypeOK, Stripe
  <2>2. MissInv'
    BY <1>0, <1>20, <2>1 DEF WriteStripeFails, ghosts, TypeOK, MissInv, Flagged
  <2>3. /\ pc' = pc /\ op' = op /\ out' = out /\ owed' = owed
    BY <1>20 DEF WriteStripeFails, ghosts
  <2>4. pc[t] # "sync" /\ (\A u \in Thread \ {t} : nxt'[u] = nxt[u] /\ ok'[u] = ok[u])
    BY <1>0, <1>20 DEF WriteStripeFails, Advance, TypeOK
  <2>5. \A j \in Stripe : failed[j] => failed'[j]
    BY <1>0, <1>20 DEF WriteStripeFails, TypeOK
  <2>6. HonestInv'
    BY <1>0, <2>3, <2>4, <2>5 DEF HonestInv, Finished
  <2> QED
    BY <2>2, <2>6
<1>21. ASSUME NEW t \in Thread, SyncStripeFails(t) PROVE MissInv' /\ HonestInv'
  BY <1>0, <1>21
     DEF SyncStripeFails, Advance, store, ghosts, TypeOK, LabelInv, MissInv,
         HonestInv, Flagged, Finished
<1>22. ASSUME Kill PROVE MissInv' /\ HonestInv'
  BY <1>0, <1>22
     DEF Kill, Stop, TypeOK, LabelInv, MissInv, HonestInv, Flagged, Finished
<1>23. ASSUME PowerLoss PROVE MissInv' /\ HonestInv'
  BY <1>0, <1>23
     DEF PowerLoss, Stop, TypeOK, LabelInv, MissInv, HonestInv, Flagged, Finished
<1>24. ASSUME NEW i \in Stripe, LoseStripe(i) PROVE MissInv' /\ HonestInv'
  BY <1>0, <1>24
     DEF LoseStripe, threads, TypeOK, LabelInv, MissInv, HonestInv, Flagged,
         Finished
<1>25. ASSUME NEW i \in Stripe, BitRot(i) PROVE MissInv' /\ HonestInv'
  BY <1>0, <1>25
     DEF BitRot, Busy, TypeOK, LabelInv, MissInv, HonestInv, Flagged, Finished
<1>26. ASSUME Open PROVE MissInv' /\ HonestInv'
  BY <1>0, <1>26
     DEF Open, threads, ghosts, TypeOK, LabelInv, MissInv, HonestInv, Flagged,
         Finished
<1>27. ASSUME UNCHANGED vars PROVE MissInv' /\ HonestInv'
  BY <1>0, <1>27 DEF vars, TypeOK, LabelInv, MissInv, HonestInv, Flagged, Finished
<1> QED
  BY <1>1, <1>2, <1>3, <1>4, <1>5, <1>6, <1>7, <1>8, <1>9, <1>10, <1>11, <1>12,
     <1>13, <1>14, <1>15, <1>16, <1>17, <1>18, <1>19, <1>20, <1>21, <1>22, <1>23,
     <1>24, <1>25, <1>26, <1>27
  DEF Next, Proceed, Call, BackendFails, Befall

\* A sync that returns Ok hides no refused insert and no failed write.
THEOREM SyncHonestCorrect == Spec => []SyncHonest
<1>1. Spec => Init /\ [][Next]_vars
  BY DEF Spec
<1>2. HInv => SyncHonest
  BY DEF HInv, HonestInv, SyncHonest
<1> QED
  BY <1>1, <1>2, HInvInit, HInvStep, PTL
=============================================================================
