--------------------------- MODULE HeldScanProofs ---------------------------
(***************************************************************************)
(* What holds of HeldScan for every k of n, every set of names and any     *)
(* number of writes, failing stripes and kills: a listing under way may be *)
(* overtaken by whole writes, and still passes over nothing that stayed.   *)
(***************************************************************************)
EXTENDS HeldScan, FiniteSetTheorems, TLAPS

\* Stripes are finitely many, and more of them count for at least as many.
LEMMA StripeSubsets ==
    ASSUME NEW S \in SUBSET Stripe, NEW T \in SUBSET S
    PROVE  /\ IsFiniteSet(S) /\ Cardinality(S) \in Nat
           /\ IsFiniteSet(T) /\ Cardinality(T) \in Nat
           /\ Cardinality(T) <= Cardinality(S)
<1>1. IsFiniteSet(Stripe)
  BY ScanAssumption, FS_Interval DEF Stripe
<1>2. IsFiniteSet(S)
  BY <1>1, FS_Subset
<1>3. IsFiniteSet(T) /\ Cardinality(T) <= Cardinality(S)
  BY <1>2, FS_Subset
<1> QED
  BY <1>2, <1>3, FS_CardinalityType

\* A name is among the rebuildable ones if K of the stripes have it: at least
\* one does, so that it is a row.
LEMMA AmongIs ==
    ASSUME NEW h \in [Stripe -> SUBSET Name], NEW I \in SUBSET Stripe, NEW x
    PROVE  x \in Among(h, I) <=> Cardinality({i \in I : x \in h[i]}) >= K
<1> DEFINE having == {i \in I : x \in h[i]}
<1>1. CASE having = {}
  <2>1. Cardinality(having) = 0
    BY <1>1, FS_EmptySet
  <2>2. ~ (0 >= K)
    BY ScanAssumption
  <2> QED
    BY <2>1, <2>2 DEF Among
<1>2. CASE having # {}
  <2>1. x \in Rows(h)
    BY <1>2 DEF Rows
  <2> QED
    BY <2>1 DEF Among
<1> QED
  BY <1>1, <1>2

\* More stripes with more names rebuild at least as much.
LEMMA AmongGrows ==
    ASSUME NEW h \in [Stripe -> SUBSET Name], NEW I \in SUBSET Stripe,
           NEW g \in [Stripe -> SUBSET Name], NEW J \in SUBSET Stripe,
           NEW x \in Among(h, I),
           \A i \in I : x \in h[i] => i \in J /\ x \in g[i]
    PROVE  x \in Among(g, J)
<1> DEFINE few == {i \in I : x \in h[i]}
           many == {i \in J : x \in g[i]}
<1>1. few \subseteq many
  OBVIOUS
<1>2. Cardinality(few) \in Nat /\ Cardinality(many) \in Nat
      /\ Cardinality(few) <= Cardinality(many)
  BY <1>1, StripeSubsets
<1>3. Cardinality(few) >= K
  BY AmongIs
<1>4. Cardinality(many) >= K
  BY <1>2, <1>3, ScanAssumption
<1> QED
  BY <1>4, AmongIs

\* The packet a repair writes back is the only one it may make rebuildable,
\* and it was.
LEMMA MendedIs ==
    ASSUME NEW h \in [Stripe -> SUBSET (Name \ Own)], NEW x \in Name
    PROVE  /\ Mended(h, x) \in [Stripe -> SUBSET (Name \ Own)]
           /\ \A i \in Stripe : h[i] \subseteq Mended(h, x)[i]
           /\ Rows(Mended(h, x)) = Rows(h)
           /\ Rebuildable(Mended(h, x)) \subseteq Rebuildable(h)
<1>1. CASE x \notin Rebuildable(h)
  BY <1>1 DEF Mended
<1>2. CASE x \in Rebuildable(h)
  <2> DEFINE g == [i \in Stripe |-> h[i] \cup {x}]
  <2>1. Mended(h, x) = g
    BY <1>2 DEF Mended
  <2>2. x \in Rows(h)
    BY <1>2 DEF Rebuildable, Among
  <2>3. x \in Name \ Own
    BY <2>2 DEF Rows
  <2>4. g \in [Stripe -> SUBSET (Name \ Own)]
    BY <2>3
  <2>5. Rows(g) = Rows(h)
    <3>1. \A y : y \in Rows(g) => y \in Rows(h)
      BY <2>2 DEF Rows
    <3>2. \A y : y \in Rows(h) => y \in Rows(g)
      BY DEF Rows
    <3> QED
      BY <3>1, <3>2
  <2>6. ASSUME NEW y \in Rebuildable(g) PROVE y \in Rebuildable(h)
    <3>1. CASE y = x
      BY <1>2, <3>1
    <3>2. CASE y # x
      <4>1. {i \in Stripe : y \in g[i]} = {i \in Stripe : y \in h[i]}
        BY <3>2
      <4>2. y \in Rows(h) /\ Cardinality({i \in Stripe : y \in g[i]}) >= K
        BY <2>5, <2>6 DEF Rebuildable, Among
      <4> QED
        BY <4>1, <4>2 DEF Rebuildable, Among
    <3> QED
      BY <3>1, <3>2
  <2> QED
    BY <2>1, <2>4, <2>5, <2>6
<1> QED
  BY <1>1, <1>2
-----------------------------------------------------------------------------
(***************************************************************************)
(* Types.                                                                  *)
(***************************************************************************)

\* At first no listing and no write is under way, and nothing is stored.
LEMMA InitTypes == Init => TypeOK
<1> SUFFICES ASSUME Init PROVE TypeOK
  OBVIOUS
<1>1. 1 \in Stripe
  BY ScanAssumption DEF Stripe
<1>2. Nothing \in [Stripe -> SUBSET (Name \ Own)]
  BY DEF Nothing
<1> QED
  BY <1>1, <1>2, ScanAssumption DEF Init, TypeOK

\* Reading keeps the types, whatever names a stripe's scan brings.
LEMMA BroughtTypes ==
    ASSUME TypeOK, NEW S \in SUBSET (Name \ Own), Brought(S),
           kept' = kept, keptOwn' = keptOwn, ever' = ever, overlap' = overlap,
           failed' \in SUBSET Stripe
    PROVE  TypeOK'
<1>1. got' \in [Stripe -> SUBSET (Name \ Own)]
  BY DEF Brought, TypeOK
<1>2. at' \in Stripe
  BY ScanAssumption DEF Brought, TypeOK, Stripe
<1>3. phase' \in {"idle", "read", "judge", "done"}
  BY DEF Brought, TypeOK
<1> QED
  BY <1>1, <1>2, <1>3 DEF Brought, TypeOK

\* What is rebuilt is among the names that are no own ones.
LEMMA RebuildableNames ==
    ASSUME NEW h \in [Stripe -> SUBSET (Name \ Own)]
    PROVE  Rows(h) \subseteq Name \ Own /\ Rebuildable(h) \subseteq Name \ Own
BY DEF Rows, Rebuildable, Among

\* Every step of a listing keeps the types.
LEMMA ListTypes == TypeOK /\ List => TypeOK'
<1> SUFFICES ASSUME TypeOK, List PROVE TypeOK'
  OBVIOUS
<1>0. /\ 1 \in Stripe /\ Nothing \in [Stripe -> SUBSET (Name \ Own)]
      /\ Own \subseteq Name
  BY ScanAssumption DEF Stripe, Nothing
<1>1. ASSUME NEW l \in Limits, BeginScan(l) PROVE TypeOK'
  <2>1. Rebuildable(held) \subseteq Name
    BY RebuildableNames DEF TypeOK
  <2>2. overlap' \in 0..MaxBeside+1
    BY <1>1, ScanAssumption DEF BeginScan
  <2>3. ever' \in SUBSET Name
    BY <1>0, <1>1, <2>1 DEF BeginScan, TypeOK
  <2> QED
    BY <1>0, <1>1, <2>2, <2>3 DEF BeginScan, TypeOK
<1>2. CASE ReadStripe
  <2>1. PICK S \in SUBSET held[at] : Brought(S)
    BY <1>2 DEF ReadStripe
  <2>2. S \in SUBSET (Name \ Own)
    BY DEF TypeOK
  <2> QED
    BY <1>2, <2>1, <2>2, BroughtTypes DEF ReadStripe, history, TypeOK
<1>3. CASE ReadStripeFails
  <2>1. failed' \in SUBSET Stripe
    BY <1>3 DEF ReadStripeFails, TypeOK
  <2> QED
    BY <1>3, <2>1, BroughtTypes DEF ReadStripeFails
<1>4. ASSUME NEW x \in Name, JudgeRow(x) PROVE TypeOK'
  <2>1. Mended(held, x) \in [Stripe -> SUBSET (Name \ Own)]
    BY MendedIs DEF TypeOK
  <2>2. held' \in [Stripe -> SUBSET (Name \ Own)]
    BY <1>4, <2>1 DEF JudgeRow, TypeOK
  <2> QED
    BY <1>4, <2>2 DEF JudgeRow, TypeOK, history
<1>5. CASE ScanAgain
  BY <1>0, <1>5 DEF ScanAgain, TypeOK, history
<1>6. CASE Merge
  <2>1. Out \subseteq Name
    BY RebuildableNames DEF Out, TypeOK
  <2>2. listed' \in SUBSET Name
    BY <1>0, <1>6, <2>1 DEF Merge, TypeOK
  <2> QED
    BY <1>6, <2>2 DEF Merge, TypeOK, history
<1>7. CASE MergeHeldOnly
  <2>1. Out \subseteq Name
    BY RebuildableNames DEF Out, TypeOK
  <2>2. listed' \in SUBSET Name
    BY <1>7, <2>1 DEF MergeHeldOnly, TypeOK
  <2>3. Cardinality(failed) \in Nat
    BY StripeSubsets DEF TypeOK
  <2>4. overlap' \in 0..MaxBeside+1
    BY <1>7, <2>3, ScanAssumption DEF MergeHeldOnly, TypeOK
  <2> QED
    BY <1>7, <2>2, <2>4 DEF MergeHeldOnly, TypeOK
<1>8. CASE Return
  BY <1>0, <1>8, ScanAssumption DEF Return, NoListing, TypeOK
<1> QED
  BY <1>1, <1>2, <1>3, <1>4, <1>5, <1>6, <1>7, <1>8 DEF List

\* And so does a change of what is stored.
LEMMA StoredTypes ==
    ASSUME TypeOK, NEW h \in [Stripe -> SUBSET (Name \ Own)],
           NEW o \in SUBSET Own, Stored(h, o)
    PROVE  /\ held' \in [Stripe -> SUBSET (Name \ Own)] /\ own' \in SUBSET Own
           /\ kept' \in [Stripe -> SUBSET (Name \ Own)]
           /\ keptOwn' \in SUBSET Own /\ ever' \in SUBSET Name
<1>1. Rebuildable(h) \subseteq Name /\ Own \subseteq Name
  BY RebuildableNames, ScanAssumption
<1>2. ever' \in SUBSET Name
  BY <1>1 DEF Stored, TypeOK
<1>3. kept' \in [Stripe -> SUBSET (Name \ Own)]
  BY DEF Stored, TypeOK
<1> QED
  BY <1>2, <1>3 DEF Stored, TypeOK

\* Writes beside a listing are counted up to the bound, one of them at its start.
LEMMA OverlapsTypes ==
    ASSUME TypeOK, Overlaps
    PROVE  overlap' \in 0..MaxBeside+1
<1>1. Cardinality(failed) \in Nat
  BY StripeSubsets DEF TypeOK
<1> QED
  BY <1>1, ScanAssumption DEF Overlaps, TypeOK

\* A write goes from a stripe to the next and keeps the types.
LEMMA WriteTypes ==
    ASSUME TypeOK, WriteStripe
    PROVE  TypeOK'
<1> DEFINE i == write.next
           x == write.name
           h == [held EXCEPT ![i] =
                   IF write.op = "insert" THEN @ \cup {x} ELSE @ \ {x}]
<1>1. /\ write.op \in {"insert", "remove"} /\ x \in Name \ Own /\ i \in Stripe
      /\ write \in [op : {"insert", "remove"}, name : Name \ Own, next : Stripe]
  BY DEF WriteStripe, TypeOK
<1>2. h \in [Stripe -> SUBSET (Name \ Own)]
  BY <1>1 DEF TypeOK
<1>3. Stored(h, own)
  BY DEF WriteStripe
<1>4. write' \in [op : {"insert", "remove"}, name : Name \ Own, next : Stripe]
                   \cup {NoWrite}
  BY <1>1, ScanAssumption DEF WriteStripe, Stripe
<1>5. gone' \in SUBSET (Name \ Own)
  BY <1>1 DEF WriteStripe, TypeOK
<1>6. own \in SUBSET Own
  BY DEF TypeOK
<1>7. /\ held' \in [Stripe -> SUBSET (Name \ Own)] /\ own' \in SUBSET Own
      /\ kept' \in [Stripe -> SUBSET (Name \ Own)]
      /\ keptOwn' \in SUBSET Own /\ ever' \in SUBSET Name
  <2> HIDE DEF h
  <2> QED
    BY <1>2, <1>3, <1>6, StoredTypes
<1>8. UNCHANGED <<listing, failed, overlap>>
  BY DEF WriteStripe
<1> QED
  BY <1>4, <1>5, <1>7, <1>8 DEF TypeOK, listing

\* Every other step keeps them too.
LEMMA OtherTypes ==
    ASSUME TypeOK,
           \/ \E op \in {"insert", "remove"}, x \in Name :
                WriteOwn(op, x) \/ BeginWrite(op, x)
           \/ Kill \/ \E i \in Stripe : LoseStripe(i)
    PROVE  TypeOK'
<1>0. 1 \in Stripe /\ Nothing \in [Stripe -> SUBSET (Name \ Own)]
  BY ScanAssumption DEF Stripe, Nothing
<1>1. ASSUME NEW op \in {"insert", "remove"}, NEW x \in Name, WriteOwn(op, x)
      PROVE  TypeOK'
  <2> DEFINE o == IF op = "insert" THEN own \cup {x} ELSE own \ {x}
  <2>1. o \in SUBSET Own /\ held \in [Stripe -> SUBSET (Name \ Own)]
    BY <1>1 DEF WriteOwn, TypeOK
  <2>2. Stored(held, o) /\ Overlaps /\ UNCHANGED <<write, listing, failed, gone>>
    BY <1>1 DEF WriteOwn
  <2> HIDE DEF o
  <2>3. /\ held' \in [Stripe -> SUBSET (Name \ Own)] /\ own' \in SUBSET Own
        /\ kept' \in [Stripe -> SUBSET (Name \ Own)]
        /\ keptOwn' \in SUBSET Own /\ ever' \in SUBSET Name
    BY <2>1, <2>2, StoredTypes
  <2> QED
    BY <2>2, <2>3, OverlapsTypes DEF TypeOK, listing
<1>2. ASSUME NEW op \in {"insert", "remove"}, NEW x \in Name, BeginWrite(op, x)
      PROVE  TypeOK'
  BY <1>0, <1>2, OverlapsTypes DEF BeginWrite, TypeOK, listing
<1>3. CASE Kill
  BY <1>0, <1>3, ScanAssumption DEF Kill, NoListing, TypeOK
<1>4. ASSUME NEW i \in Stripe, LoseStripe(i) PROVE TypeOK'
  BY <1>4 DEF LoseStripe, TypeOK, listing, history
<1> QED
  BY <1>1, <1>2, <1>3, <1>4

\* So every step keeps them.
LEMMA TypeStep == TypeOK /\ [Next]_vars => TypeOK'
<1>1. TypeOK /\ UNCHANGED vars => TypeOK'
  BY DEF vars, listing, history, TypeOK
<1> QED
  BY <1>1, ListTypes, WriteTypes, OtherTypes DEF Next

\* Every variable keeps its type, for every k of n, names and bounds.
THEOREM TypeCorrect == Spec => []TypeOK
<1> QED
  BY InitTypes, TypeStep, PTL DEF Spec
-----------------------------------------------------------------------------
(***************************************************************************)
(* The invariant.                                                          *)
(***************************************************************************)

\* Stripe i was scanned in this round.
HasRead(i) == phase \in {"judge", "done"} \/ (phase = "read" /\ i < at)

\* What was kept is still there; what can be read counts as having been.
KeptInv ==
    /\ \A i \in Stripe : kept[i] \subseteq held[i]
    /\ keptOwn \subseteq own
    /\ phase = "idle" => \A i \in Stripe : kept[i] = {}

EverInv == phase # "idle" => own \cup Rebuildable(held) \subseteq ever

\* A round starts from nothing.
ReadInv ==
    phase = "read" => row = 0 /\ \A i \in Stripe : i >= at => got[i] = {}

\* A stripe scanned without failing shows what it kept, or is cut short before.
ViewInv ==
    \A i \in Stripe \ failed : HasRead(i) =>
      \A y \in kept[i] :
        y \in got[i] \/ (i \in CutShort /\ \A x \in got[i] : x < y)

\* No row is judged past what every stripe showed.
RowInv == row # 0 => phase \in {"judge", "done"} /\ Seen(row)

\* The stripes that have shown x, or may show it yet in this round.
Possible(x) ==
    {i \in Stripe : x \in got[i] \/ (phase = "read" /\ i >= at /\ x \in held[i])}

\* A name that could at no time be read cannot come out of the mixture.
MixInv ==
    phase # "idle" =>
      \A x \in Name \ Own : x \notin ever => Cardinality(Possible(x)) < K

\* An insert has written the stripes before the next.
WriteInv ==
    write.op = "insert" =>
      \A j \in Stripe : j < write.next => write.name \in held[j]

GoneInv == RemovedStaysGone /\ (write # NoWrite => write.name \notin gone)

IInv ==
    /\ TypeOK /\ KeptInv /\ EverInv /\ ReadInv /\ ViewInv /\ RowInv
    /\ MixInv /\ WriteInv /\ GoneInv /\ NoGap

\* Fewer than K stripes have a name that cannot be rebuilt.
LEMMA FewHave ==
    ASSUME NEW h \in [Stripe -> SUBSET (Name \ Own)], NEW x,
           x \notin Rebuildable(h)
    PROVE  Cardinality({i \in Stripe : x \in h[i]}) < K
<1> DEFINE having == {i \in Stripe : x \in h[i]}
<1>1. ~ (Cardinality(having) >= K)
  <2>1. h \in [Stripe -> SUBSET Name]
    OBVIOUS
  <2> QED
    BY <2>1, AmongIs DEF Rebuildable
<1>2. Cardinality(having) \in Nat
  BY StripeSubsets
<1> QED
  BY <1>1, <1>2, ScanAssumption

\* With nothing stored, kept or listed, every part of it holds.
LEMMA InitIInv == Init => IInv
<1> SUFFICES ASSUME Init PROVE IInv
  OBVIOUS
<1>1. TypeOK
  BY InitTypes
<1>2. KeptInv
  BY DEF Init, KeptInv, Nothing
<1>3. EverInv /\ MixInv /\ ReadInv /\ RowInv /\ WriteInv /\ NoGap
  BY DEF Init, EverInv, MixInv, ReadInv, RowInv, WriteInv, NoGap, NoWrite
<1>4. ViewInv
  BY DEF Init, ViewInv, HasRead
<1>5. GoneInv
  BY DEF Init, GoneInv, RemovedStaysGone, Rows, Nothing
<1> QED
  BY <1>1, <1>2, <1>3, <1>4, <1>5 DEF IInv

\* A step beside the listing, which only takes away what was kept and adds to
\* what could be read.
LEMMA Beside ==
    ASSUME IInv, TypeOK', UNCHANGED <<listing, failed>>,
           \A i \in Stripe : kept'[i] \subseteq kept[i],
           keptOwn' \subseteq keptOwn, phase # "idle" => ever \subseteq ever'
    PROVE  ReadInv' /\ ViewInv' /\ RowInv' /\ NoGap'
<1>1. /\ phase' = phase /\ limit' = limit /\ cap' = cap /\ at' = at
      /\ got' = got /\ row' = row /\ listed' = listed /\ failed' = failed
  BY DEF listing
<1>2. ReadInv'
  BY <1>1 DEF IInv, ReadInv
<1>3. ViewInv'
  BY <1>1 DEF IInv, ViewInv, HasRead, CutShort
<1>4. RowInv'
  BY <1>1 DEF IInv, RowInv, Seen, CutShort
<1>5. Steady' \subseteq Steady
  <2>1. /\ kept \in [Stripe -> SUBSET Name] /\ kept' \in [Stripe -> SUBSET Name]
        /\ Stripe \ failed \in SUBSET Stripe
    BY DEF IInv, TypeOK
  <2>2. ASSUME NEW y \in Among(kept', Stripe \ failed)
        PROVE  y \in Among(kept, Stripe \ failed)
    BY <2>1, AmongGrows
  <2> QED
    BY <1>1, <2>2 DEF Steady
<1>6. NoGap'
  BY <1>1, <1>5 DEF IInv, NoGap
<1> QED
  BY <1>2, <1>3, <1>4, <1>6

\* Storing h and o: what is kept is still there, and what can be read is noted.
LEMMA StoredKeeps ==
    ASSUME IInv, NEW h \in [Stripe -> SUBSET (Name \ Own)],
           NEW o \in SUBSET Own, Stored(h, o), phase' = phase
    PROVE  /\ KeptInv' /\ EverInv'
           /\ \A i \in Stripe : kept'[i] \subseteq kept[i]
           /\ keptOwn' \subseteq keptOwn
           /\ phase # "idle" => ever \subseteq ever'
<1>1. held' = h /\ own' = o /\ keptOwn' = keptOwn \cap o
  BY DEF Stored
<1>2. \A i \in Stripe : kept'[i] = kept[i] \cap h[i]
  BY DEF Stored
<1>3. phase # "idle" => ever' = ever \cup o \cup Rebuildable(h)
  BY DEF Stored
<1>4. Rebuildable(held)' = Rebuildable(h)
  BY <1>1
<1>5. KeptInv'
  BY <1>1, <1>2 DEF IInv, KeptInv
<1>6. EverInv'
  BY <1>1, <1>3, <1>4 DEF EverInv
<1> QED
  BY <1>1, <1>2, <1>3, <1>5, <1>6

\* A stripe is written.  An insert that overtakes the scan has written every
\* stripe the scan has read: what the scan may yet show, the stripes hold.
LEMMA WriteKeeps ==
    ASSUME IInv, WriteStripe
    PROVE  IInv'
<1> DEFINE i == write.next
           x == write.name
           h == [held EXCEPT ![i] =
                   IF write.op = "insert" THEN @ \cup {x} ELSE @ \ {x}]
<1>0. TypeOK /\ TypeOK'
  BY WriteTypes DEF IInv
<1>1. /\ write.op \in {"insert", "remove"} /\ x \in Name \ Own /\ i \in Stripe
      /\ held \in [Stripe -> SUBSET (Name \ Own)] /\ own \in SUBSET Own
  BY <1>0 DEF WriteStripe, TypeOK
<1>2. /\ Stored(h, own) /\ UNCHANGED <<listing, failed, overlap>>
      /\ write' = IF i = N THEN NoWrite ELSE [write EXCEPT !.next = i + 1]
      /\ gone' = IF i = N /\ x \notin Rows(h) THEN gone \cup {x} ELSE gone
  BY DEF WriteStripe
<1>3. h \in [Stripe -> SUBSET (Name \ Own)]
  BY <1>1
<1>4. /\ phase' = phase /\ at' = at /\ got' = got
      /\ held' = h /\ own' = own
  BY <1>2 DEF listing, Stored
<1>5. /\ \A j \in Stripe : j # i => h[j] = held[j]
      /\ h[i] = IF write.op = "insert" THEN held[i] \cup {x} ELSE held[i] \ {x}
  BY <1>1
<1>6. /\ KeptInv' /\ EverInv'
      /\ \A j \in Stripe : kept'[j] \subseteq kept[j]
      /\ keptOwn' \subseteq keptOwn
      /\ phase # "idle" => ever \subseteq ever'
  <2> HIDE DEF h
  <2> QED
    BY <1>1, <1>2, <1>3, <1>4, StoredKeeps
<1>7. ReadInv' /\ ViewInv' /\ RowInv' /\ NoGap'
  BY <1>0, <1>2, <1>6, Beside
<1>8. WriteInv'
  <2>1. SUFFICES ASSUME write'.op = "insert", NEW j \in Stripe, j < write'.next
                 PROVE  write'.name \in h[j]
    BY <1>4 DEF WriteInv
  <2>2. i # N
    BY <1>2, <2>1 DEF NoWrite
  <2>3. /\ write' = [write EXCEPT !.next = i + 1]
        /\ write \in [op : {"insert", "remove"}, name : Name \ Own, next : Stripe]
    BY <1>0, <1>2, <2>2 DEF WriteStripe, TypeOK
  <2>4. write.op = "insert" /\ write'.name = x /\ write'.next = i + 1
    BY <2>1, <2>3
  <2>5. CASE j = i
    BY <1>5, <2>4, <2>5
  <2>6. CASE j # i
    <3>1. j < i
      BY <1>1, <2>1, <2>4, <2>6, ScanAssumption DEF Stripe
    <3>2. x \in held[j]
      BY <2>4, <3>1 DEF IInv, WriteInv
    <3> QED
      BY <1>5, <2>4, <2>6, <3>2
  <2> QED
    BY <2>5, <2>6
<1>9. MixInv'
  <2> SUFFICES ASSUME phase # "idle", NEW z \in Name \ Own, z \notin ever'
               PROVE  Cardinality(Possible(z)') < K
    BY <1>4 DEF MixInv
  <2> DEFINE having == {j \in Stripe : z \in h[j]}
             P == Possible(z)
             Q == Possible(z)'
  <2>1. Cardinality(P) < K
    BY <1>6 DEF IInv, MixInv
  <2>2. Cardinality(having) < K
    <3>1. z \notin Rebuildable(h)
      BY <1>4, <1>6 DEF EverInv
    <3> HIDE DEF h
    <3> QED
      BY <1>3, <3>1, FewHave
  <2>3. Q = {j \in Stripe : z \in got[j] \/ (phase = "read" /\ j >= at /\ z \in h[j])}
    BY <1>4 DEF Possible
  <2>4. Q \subseteq P \/ Q \subseteq having
    <3>1. CASE write.op = "insert" /\ z = x /\ i >= at /\ phase = "read"
      <4>1. ASSUME NEW j \in Stripe, z \in got[j] PROVE z \in h[j]
        <5>1. at \in Stripe /\ j < at
          BY <1>0, <3>1, <4>1, ScanAssumption DEF IInv, ReadInv, TypeOK, Stripe
        <5>2. j < i
          BY <1>1, <3>1, <5>1, ScanAssumption DEF Stripe
        <5>3. z \in held[j]
          BY <3>1, <5>2 DEF IInv, WriteInv
        <5> QED
          BY <1>5, <3>1, <5>3
      <4> HIDE DEF h
      <4> QED
        BY <2>3, <4>1
    <3>2. CASE ~ (write.op = "insert" /\ z = x /\ i >= at /\ phase = "read")
      <4>1. ASSUME NEW j \in Stripe, phase = "read", j >= at, z \in h[j]
            PROVE  z \in held[j]
        BY <1>5, <3>2, <4>1
      <4> HIDE DEF h
      <4> QED
        BY <2>3, <4>1 DEF Possible
    <3> QED
      BY <3>1, <3>2
  <2>5. P \in SUBSET Stripe /\ having \in SUBSET Stripe /\ Q \in SUBSET Stripe
    BY <2>3 DEF Possible
  <2> HIDE DEF P, Q, having
  <2>6. ASSUME NEW T \in SUBSET Stripe, Q \subseteq T, Cardinality(T) < K
        PROVE  Cardinality(Q) < K
    <3>1. /\ Cardinality(Q) \in Nat /\ Cardinality(T) \in Nat
          /\ Cardinality(Q) <= Cardinality(T)
      BY <2>6, StripeSubsets
    <3> QED
      BY <2>6, <3>1, ScanAssumption
  <2>7. Cardinality(Q) < K
    BY <2>1, <2>2, <2>4, <2>5, <2>6
  <2> QED
    BY <2>7 DEF Q
<1>10. GoneInv'
  <2>1. x \notin gone /\ gone \cap Rows(held) = {}
    BY DEF IInv, GoneInv, RemovedStaysGone, WriteStripe
  <2>2. \A y : y \in Rows(h) => y = x \/ y \in Rows(held)
    BY <1>5 DEF Rows
  <2>3. gone' \cap Rows(h) = {}
    <3> HIDE DEF h
    <3> QED
      BY <1>2, <2>1, <2>2
  <2>4. write' # NoWrite => write'.name \notin gone'
    <3>1. CASE i = N
      BY <1>2, <3>1
    <3>2. CASE i # N
      <4>1. write' = [write EXCEPT !.next = i + 1] /\ gone' = gone
        BY <1>2, <3>2
      <4>2. write \in [op : {"insert", "remove"}, name : Name \ Own, next : Stripe]
        BY <1>0 DEF WriteStripe, TypeOK
      <4> QED
        BY <2>1, <4>1, <4>2
    <3> QED
      BY <3>1, <3>2
  <2>5. RemovedStaysGone'
    BY <1>4, <2>3 DEF RemovedStaysGone
  <2> QED
    BY <2>4, <2>5 DEF GoneInv
<1> QED
  BY <1>0, <1>6, <1>7, <1>8, <1>9, <1>10 DEF IInv

\* A write to the own names, one that takes the lock, a kill and a lost stripe.
LEMMA OtherKeep ==
    ASSUME IInv,
           \/ \E op \in {"insert", "remove"}, x \in Name :
                WriteOwn(op, x) \/ BeginWrite(op, x)
           \/ Kill \/ \E i \in Stripe : LoseStripe(i)
    PROVE  IInv'
<1>0. TypeOK /\ TypeOK'
  BY OtherTypes DEF IInv
<1>1. ASSUME NEW op \in {"insert", "remove"}, NEW x \in Name, WriteOwn(op, x)
      PROVE  IInv'
  <2> DEFINE o == IF op = "insert" THEN own \cup {x} ELSE own \ {x}
  <2>1. /\ o \in SUBSET Own /\ held \in [Stripe -> SUBSET (Name \ Own)]
        /\ Stored(held, o) /\ UNCHANGED <<write, listing, failed, gone>>
    BY <1>0, <1>1 DEF WriteOwn, TypeOK
  <2> HIDE DEF o
  <2>2. /\ phase' = phase /\ at' = at /\ got' = got /\ held' = held
        /\ write' = write /\ gone' = gone
    BY <2>1 DEF listing, Stored
  <2>3. /\ KeptInv' /\ EverInv'
        /\ \A j \in Stripe : kept'[j] \subseteq kept[j]
        /\ keptOwn' \subseteq keptOwn
        /\ phase # "idle" => ever \subseteq ever'
    BY <2>1, <2>2, StoredKeeps
  <2>4. ReadInv' /\ ViewInv' /\ RowInv' /\ NoGap'
    BY <1>0, <2>1, <2>3, Beside
  <2>5. WriteInv' /\ GoneInv'
    BY <2>2 DEF IInv, WriteInv, GoneInv, RemovedStaysGone
  <2>6. MixInv'
    <3>1. \A z : Possible(z)' = Possible(z)
      BY <2>2 DEF Possible
    <3> QED
      BY <2>2, <2>3, <3>1 DEF IInv, MixInv
  <2> QED
    BY <1>0, <2>3, <2>4, <2>5, <2>6 DEF IInv
<1>2. ASSUME NEW op \in {"insert", "remove"}, NEW x \in Name, BeginWrite(op, x)
      PROVE  IInv'
  <2>1. /\ write' = [op |-> op, name |-> x, next |-> 1] /\ gone' = gone \ {x}
        /\ UNCHANGED <<held, own, listing, kept, keptOwn, ever, failed>>
    BY <1>2 DEF BeginWrite
  <2>2. /\ phase' = phase /\ at' = at /\ got' = got
    BY <2>1 DEF listing
  <2>3. ReadInv' /\ ViewInv' /\ RowInv' /\ NoGap'
    BY <1>0, <2>1, Beside
  <2>4. KeptInv' /\ EverInv'
    BY <2>1, <2>2 DEF IInv, KeptInv, EverInv
  <2>5. WriteInv'
    <3>1. write'.next = 1
      BY <2>1
    <3>2. \A j \in Stripe : ~ (j < 1)
      BY ScanAssumption DEF Stripe
    <3> QED
      BY <3>1, <3>2 DEF WriteInv
  <2>6. GoneInv'
    BY <2>1 DEF IInv, GoneInv, RemovedStaysGone
  <2>7. MixInv'
    <3>1. \A z : Possible(z)' = Possible(z)
      BY <2>1, <2>2 DEF Possible
    <3> QED
      BY <2>1, <2>2, <3>1 DEF IInv, MixInv
  <2> QED
    BY <1>0, <2>3, <2>4, <2>5, <2>6, <2>7 DEF IInv
<1>3. CASE Kill
  <2>1. /\ write' = NoWrite /\ held' = held /\ own' = own
        /\ gone' = (Name \ Own) \ Rows(held)
        /\ phase' = "idle" /\ row' = 0 /\ kept' = Nothing /\ keptOwn' = {}
    BY <1>3 DEF Kill, NoListing
  <2>2. KeptInv' /\ EverInv' /\ ReadInv' /\ RowInv' /\ MixInv' /\ NoGap'
    BY <2>1 DEF KeptInv, EverInv, ReadInv, RowInv, MixInv, NoGap, Nothing
  <2>3. ViewInv'
    BY <2>1 DEF ViewInv, HasRead
  <2>4. WriteInv' /\ GoneInv'
    BY <2>1 DEF WriteInv, GoneInv, RemovedStaysGone, NoWrite
  <2> QED
    BY <1>0, <2>2, <2>3, <2>4 DEF IInv
<1>4. ASSUME NEW i \in Stripe, LoseStripe(i) PROVE IInv'
  <2>1. /\ phase = "idle" /\ write = NoWrite
        /\ held' = [held EXCEPT ![i] = {}]
        /\ gone' = (Name \ Own) \ Rows(held')
        /\ UNCHANGED <<own, write, listing, history>>
    BY <1>4 DEF LoseStripe
  <2>2. /\ phase' = "idle" /\ row' = row /\ at' = at /\ write' = NoWrite
        /\ got' = got /\ kept' = kept /\ keptOwn' = keptOwn
    BY <2>1 DEF listing, history
  <2>3. \A j \in Stripe : kept[j] = {}
    BY <2>1 DEF IInv, KeptInv
  <2>4. KeptInv'
    BY <2>1, <2>2, <2>3 DEF IInv, KeptInv
  <2>5. EverInv' /\ ReadInv' /\ RowInv' /\ MixInv' /\ NoGap'
    BY <2>1, <2>2 DEF IInv, EverInv, ReadInv, RowInv, MixInv, NoGap
  <2>6. ViewInv'
    BY <2>2 DEF ViewInv, HasRead
  <2>7. WriteInv' /\ GoneInv'
    BY <2>1, <2>2 DEF WriteInv, GoneInv, RemovedStaysGone, NoWrite
  <2> QED
    BY <1>0, <2>4, <2>5, <2>6, <2>7 DEF IInv
<1> QED
  BY <1>1, <1>2, <1>3, <1>4

\* A listing begins: nothing was read, and everything held is kept.
LEMMA BeginKeeps ==
    ASSUME IInv, NEW l \in Limits, BeginScan(l)
    PROVE  IInv'
<1>0. TypeOK /\ TypeOK'
  BY ListTypes DEF IInv, List
<1>1. /\ phase' = "read" /\ at' = 1 /\ got' = Nothing /\ row' = 0
      /\ kept' = held /\ keptOwn' = own /\ ever' = own \cup Rebuildable(held)
      /\ held' = held /\ own' = own /\ write' = write /\ gone' = gone
  BY DEF BeginScan
<1>2. KeptInv' /\ RowInv' /\ NoGap' /\ WriteInv' /\ GoneInv'
  BY <1>1 DEF IInv, KeptInv, RowInv, NoGap, WriteInv, GoneInv, RemovedStaysGone
<1>3. EverInv'
  BY <1>1 DEF EverInv
<1>4. ReadInv'
  BY <1>1 DEF ReadInv, Nothing
<1>5. ViewInv'
  BY <1>1, ScanAssumption DEF ViewInv, HasRead, Stripe
<1>6. MixInv'
  <2> SUFFICES ASSUME NEW z \in Name \ Own, z \notin Rebuildable(held)
               PROVE  Cardinality(Possible(z)') < K
    BY <1>1 DEF MixInv
  <2>1. Possible(z)' = {j \in Stripe : z \in held[j]}
    BY <1>1, ScanAssumption DEF Possible, Nothing, Stripe
  <2> QED
    BY <1>0, <2>1, FewHave DEF TypeOK
<1> QED
  BY <1>0, <1>2, <1>3, <1>4, <1>5, <1>6 DEF IInv

\* It begins again: what could at no time be read no K stripes hold now.
LEMMA AgainKeeps ==
    ASSUME IInv, ScanAgain
    PROVE  IInv'
<1>0. TypeOK /\ TypeOK'
  BY ListTypes DEF IInv, List
<1>1. /\ phase = "judge" /\ phase' = "read" /\ at' = 1 /\ got' = Nothing
      /\ row' = 0 /\ UNCHANGED <<held, own, write, listed, history, gone>>
  BY DEF ScanAgain
<1>2. /\ KeptInv' /\ EverInv' /\ RowInv' /\ NoGap' /\ WriteInv' /\ GoneInv'
  BY <1>1 DEF IInv, KeptInv, EverInv, RowInv, NoGap, WriteInv, GoneInv,
              RemovedStaysGone, history
<1>3. ReadInv'
  BY <1>1 DEF ReadInv, Nothing
<1>4. ViewInv'
  BY <1>1, ScanAssumption DEF ViewInv, HasRead, Stripe
<1>5. MixInv'
  <2> SUFFICES ASSUME NEW z \in Name \ Own, z \notin ever
               PROVE  Cardinality(Possible(z)') < K
    BY <1>1 DEF MixInv, history
  <2>1. Possible(z)' = {j \in Stripe : z \in held[j]}
    BY <1>1, ScanAssumption DEF Possible, Nothing, Stripe
  <2>2. z \notin Rebuildable(held)
    BY <1>1 DEF IInv, EverInv
  <2> QED
    BY <1>0, <2>1, <2>2, FewHave DEF TypeOK
<1> QED
  BY <1>0, <1>2, <1>3, <1>4, <1>5 DEF IInv

\* A stripe is read: some of what it holds, the rest of it lies past the last
\* name read; or, should its scan fail, nothing.
LEMMA ReadKeeps ==
    ASSUME IInv, ReadStripe \/ ReadStripeFails
    PROVE  IInv'
<1>0. TypeOK /\ TypeOK'
  BY ListTypes DEF IInv, List
<1>1. PICK S \in SUBSET held[at] :
        /\ Brought(S)
        /\ at \in failed' \/ IsFirst(S, held[at], cap)
        /\ failed \subseteq failed'
        /\ UNCHANGED <<kept, keptOwn, ever>>
  BY DEF ReadStripe, ReadStripeFails, history
<1>2. /\ phase = "read" /\ at \in Stripe
      /\ got' = [got EXCEPT ![at] = S]
      /\ UNCHANGED <<held, own, write, limit, cap, row, listed, gone>>
      /\ (at < N /\ at' = at + 1 /\ phase' = "read")
         \/ (at = N /\ at' = at /\ phase' = "judge")
  BY <1>0, <1>1, ScanAssumption DEF Brought, TypeOK, Stripe
<1>3. /\ KeptInv' /\ EverInv' /\ NoGap' /\ WriteInv' /\ GoneInv'
  BY <1>1, <1>2 DEF IInv, KeptInv, EverInv, NoGap, WriteInv, GoneInv,
                    RemovedStaysGone
<1>4. row = 0 /\ \A j \in Stripe : j >= at => got[j] = {}
  BY <1>2 DEF IInv, ReadInv
<1>5. /\ got \in [Stripe -> SUBSET (Name \ Own)]
      /\ \A j \in Stripe : got'[j] = IF j = at THEN S ELSE got[j]
  BY <1>0, <1>2 DEF TypeOK
<1>6. \A j \in Stripe : phase' = "read" /\ j >= at' => j > at
  BY <1>2 DEF Stripe
<1>7. ReadInv' /\ RowInv'
  <2>1. row' = 0
    BY <1>2, <1>4
  <2>2. RowInv'
    BY <2>1 DEF RowInv
  <2>3. \A j \in Stripe : j > at => got'[j] = {}
    BY <1>2, <1>4, <1>5 DEF Stripe
  <2> QED
    BY <1>6, <2>1, <2>2, <2>3 DEF ReadInv
<1>8. ViewInv'
  <2> SUFFICES ASSUME NEW j \in Stripe \ failed', HasRead(j)', NEW y \in kept[j]
               PROVE  \/ y \in got'[j]
                      \/ j \in CutShort' /\ \A x \in got'[j] : x < y
    BY <1>1 DEF ViewInv
  <2>1. cap' = cap
    BY <1>2
  <2>2. CASE j = at
    <3>1. /\ got'[j] = S /\ IsFirst(S, held[j], cap)
          /\ y \in held[j]
      BY <1>1, <1>5, <2>2 DEF IInv, KeptInv
    <3>2. CASE y \in S
      BY <3>1, <3>2
    <3>3. CASE y \notin S
      <4>1. \A x \in S : x < y
        BY <3>1, <3>3 DEF IsFirst
      <4>2. cap > 0 /\ Cardinality(S) = cap
        BY <3>1, <3>3 DEF IsFirst
      <4>3. cap \in Nat
        BY <1>0, ScanAssumption DEF TypeOK
      <4>4. j \in CutShort'
        BY <2>1, <3>1, <4>2, <4>3 DEF CutShort
      <4> QED
        BY <3>1, <4>1, <4>4
    <3> QED
      BY <3>2, <3>3
  <2>3. CASE j # at
    <3>1. j < at
      BY <1>2, <2>3 DEF HasRead, Stripe
    <3>2. HasRead(j) /\ j \notin failed /\ got'[j] = got[j]
      BY <1>1, <1>2, <1>5, <2>3, <3>1 DEF HasRead
    <3>3. j \in CutShort => j \in CutShort'
      BY <2>1, <3>2 DEF CutShort
    <3> QED
      BY <3>2, <3>3 DEF IInv, ViewInv
  <2> QED
    BY <2>2, <2>3
<1>9. MixInv'
  <2> SUFFICES ASSUME NEW z \in Name \ Own, z \notin ever
               PROVE  Cardinality(Possible(z)') < K
    BY <1>1 DEF MixInv
  <2> DEFINE P == Possible(z)
             Q == Possible(z)'
  <2>1. Cardinality(P) < K
    BY <1>2 DEF IInv, MixInv
  <2>2. Q \subseteq P
    <3> SUFFICES ASSUME NEW j \in Q PROVE j \in P
      OBVIOUS
    <3>1. CASE j = at
      BY <1>2, <1>4, <1>5, <1>6, <3>1 DEF Possible, Stripe
    <3>2. CASE j # at
      BY <1>2, <1>5, <1>6, <3>2 DEF Possible, Stripe
    <3> QED
      BY <3>1, <3>2
  <2>3. P \in SUBSET Stripe
    BY DEF Possible
  <2> HIDE DEF P, Q
  <2>4. Cardinality(Q) \in Nat /\ Cardinality(P) \in Nat
        /\ Cardinality(Q) <= Cardinality(P)
    BY <2>2, <2>3, StripeSubsets
  <2>5. Cardinality(Q) < K
    BY <2>1, <2>4, ScanAssumption
  <2> QED
    BY <2>5 DEF Q
<1> QED
  BY <1>0, <1>3, <1>7, <1>8, <1>9 DEF IInv

\* A row is judged: the repair writes back, under the lock, what can still be
\* rebuilt, so that no row appears.
LEMMA JudgeKeeps ==
    ASSUME IInv, NEW x \in Name, JudgeRow(x)
    PROVE  IInv'
<1>0. TypeOK /\ TypeOK'
  BY ListTypes DEF IInv, List
<1>1. /\ phase = "judge" /\ phase' = "judge" /\ Seen(x) /\ row' = x
      /\ cap' = cap /\ at' = at /\ got' = got /\ write' = write /\ gone' = gone
      /\ own' = own /\ UNCHANGED history
      /\ held' = held \/ held' = Mended(held, x)
  BY DEF JudgeRow
<1>2. /\ kept' = kept /\ keptOwn' = keptOwn /\ ever' = ever
      /\ failed' = failed
  BY <1>1 DEF history
<1>3. /\ \A i \in Stripe : held[i] \subseteq held'[i]
      /\ Rows(held') = Rows(held)
      /\ Rebuildable(held') \subseteq Rebuildable(held)
  <2>1. /\ \A i \in Stripe : held[i] \subseteq Mended(held, x)[i]
        /\ Rows(Mended(held, x)) = Rows(held)
        /\ Rebuildable(Mended(held, x)) \subseteq Rebuildable(held)
    BY <1>0, MendedIs DEF TypeOK
  <2>2. CASE held' = held
    BY <2>2
  <2>3. CASE held' = Mended(held, x)
    BY <2>1, <2>3
  <2> QED
    BY <1>1, <2>2, <2>3
<1>4. KeptInv'
  BY <1>1, <1>2, <1>3 DEF IInv, KeptInv
<1>5. EverInv'
  BY <1>1, <1>2, <1>3 DEF IInv, EverInv
<1>6. ReadInv' /\ NoGap'
  BY <1>1 DEF ReadInv, NoGap
<1>7. ViewInv'
  BY <1>1, <1>2 DEF IInv, ViewInv, HasRead, CutShort
<1>8. RowInv'
  BY <1>1 DEF RowInv, Seen, CutShort
<1>9. MixInv'
  <2>1. \A z : Possible(z)' = Possible(z)
    BY <1>1 DEF Possible
  <2> QED
    BY <1>1, <1>2, <2>1 DEF IInv, MixInv
<1>10. WriteInv'
  BY <1>1, <1>3 DEF IInv, WriteInv
<1>11. GoneInv'
  BY <1>1, <1>3 DEF IInv, GoneInv, RemovedStaysGone
<1> QED
  BY <1>0, <1>4, <1>5, <1>6, <1>7, <1>8, <1>9, <1>10, <1>11 DEF IInv

\* What a full view shows of a name that stayed: it has been rebuilt.
LEMMA SteadyOut ==
    ASSUME IInv, phase = "judge",
           NEW y \in Among(kept, Stripe \ failed), row # 0, y <= row
    PROVE  y \in Out
<1>0. TypeOK /\ Seen(row)
  BY DEF IInv, RowInv
<1>1. /\ kept \in [Stripe -> SUBSET Name] /\ got \in [Stripe -> SUBSET Name]
      /\ Stripe \ failed \in SUBSET Stripe
  BY <1>0 DEF TypeOK
<1>2. y \in Nat /\ row \in Nat /\ \A i \in Stripe : got[i] \subseteq Nat
  <2>1. y \in Name
    BY <1>1 DEF Among, Rows
  <2> QED
    BY <1>0, <1>1, <2>1, ScanAssumption DEF TypeOK
<1>3. ASSUME NEW i \in Stripe \ failed, y \in kept[i] PROVE y \in got[i]
  <2>1. y \in got[i] \/ (i \in CutShort /\ \A x \in got[i] : x < y)
    BY <1>3 DEF IInv, ViewInv, HasRead
  <2>2. i \in CutShort => \E x \in got[i] : row <= x
    BY <1>0 DEF Seen
  <2>3. \A x \in got[i] : row <= x => ~ (x < y)
    BY <1>2
  <2> QED
    BY <2>1, <2>2, <2>3
<1>4. y \in Rebuildable(got)
  <2>1. y \in Among(got, Stripe)
    BY <1>1, <1>3, AmongGrows
  <2> QED
    BY <2>1 DEF Rebuildable
<1> QED
  BY <1>4 DEF Out

\* The rows and the own names that were scanned, o, are merged, which ends the
\* listing.
LEMMA MergedKeeps ==
    ASSUME IInv, TypeOK',
           phase = "judge", phase' = "done",
           UNCHANGED <<held, own, write, limit, cap, at, got, row, kept, ever,
                       failed, gone>>,
           NEW o \in SUBSET own, keptOwn' = keptOwn \cap o,
           NEW L \in SUBSET (o \cup Out), IsFirst(L, o \cup Out, limit),
           listed' = L
    PROVE  IInv'
<1>0. TypeOK /\ TypeOK'
  BY DEF IInv
<1>1. /\ phase = "judge" /\ phase' = "done"
      /\ UNCHANGED <<held, own, write, limit, cap, at, got, row, gone>>
  OBVIOUS
<1>2. /\ kept' = kept /\ keptOwn' \subseteq keptOwn /\ ever' = ever
      /\ failed' = failed
  OBVIOUS
<1>3. /\ KeptInv' /\ EverInv' /\ WriteInv' /\ GoneInv'
  BY <1>1, <1>2 DEF IInv, KeptInv, EverInv, WriteInv, GoneInv,
                    RemovedStaysGone
<1>4. ReadInv' /\ RowInv'
  BY <1>1 DEF IInv, ReadInv, RowInv, Seen, CutShort
<1>5. ViewInv'
  BY <1>1, <1>2 DEF IInv, ViewInv, HasRead, CutShort
<1>6. MixInv'
  <2>1. \A z : Possible(z)' = Possible(z)
    BY <1>1 DEF Possible
  <2> QED
    BY <1>1, <1>2, <2>1 DEF IInv, MixInv
<1>7. L \subseteq o \cup Out /\ IsFirst(L, o \cup Out, limit) /\ listed' = L
  OBVIOUS
<1>8. Out \subseteq ever
  <2> SUFFICES ASSUME NEW x \in Out, x \notin ever PROVE FALSE
    OBVIOUS
  <2>1. x \in Name \ Own /\ x \in Rebuildable(got)
    BY <1>0, RebuildableNames DEF Out, TypeOK
  <2>2. Possible(x) = {i \in Stripe : x \in got[i]}
    BY <1>1 DEF Possible
  <2>3. Cardinality(Possible(x)) < K
    BY <1>1, <2>1 DEF IInv, MixInv
  <2>4. Cardinality({i \in Stripe : x \in got[i]}) >= K
    BY <2>1 DEF Rebuildable, Among
  <2>5. Cardinality({i \in Stripe : x \in got[i]}) \in Nat
    BY StripeSubsets
  <2> QED
    BY <2>2, <2>3, <2>4, <2>5, ScanAssumption
<1>9. listed' \subseteq ever
  BY <1>1, <1>7, <1>8 DEF IInv, EverInv
<1>10. Steady' = (keptOwn \cap o) \cup Among(kept, Stripe \ failed)
  BY DEF Steady
<1>11. ASSUME NEW x \in L, NEW y \in Steady', y < x, x \in Own => y \in Own
       PROVE  y \in L
  <2>0. Among(kept, Stripe \ failed) \cap Own = {}
    BY <1>0 DEF Among, Rows, TypeOK
  <2>1. y \in o \cup Out
    <3>1. CASE y \in keptOwn \cap o
      BY <3>1
    <3>2. CASE y \notin keptOwn \cap o
      <4>1. y \in Among(kept, Stripe \ failed)
        BY <1>10, <3>2
      <4>2. x \in Out
        BY <1>0, <1>7, <1>11, <2>0, <4>1 DEF TypeOK
      <4>3. x \in Name /\ y \in Name /\ row \in Nat /\ x <= row
        <5>1. x \in Rebuildable(got) /\ x <= row
          BY <4>2 DEF Out
        <5>2. Rebuildable(got) \subseteq Name /\ row \in Nat
          BY <1>0, RebuildableNames, ScanAssumption DEF TypeOK
        <5>3. y \in Name
          BY <1>0, <4>1 DEF Among, Rows, TypeOK
        <5> QED
          BY <5>1, <5>2, <5>3
      <4>4. y <= row /\ row # 0
        BY <1>11, <4>3, ScanAssumption
      <4> QED
        BY <1>1, <4>1, <4>4, SteadyOut
    <3> QED
      BY <3>1, <3>2
  <2>2. x \in Nat /\ y \in Nat
    <3>1. o \cup Out \subseteq Name
      BY <1>0, RebuildableNames, ScanAssumption DEF Out, TypeOK
    <3> QED
      BY <1>7, <2>1, <3>1, ScanAssumption
  <2>3. y \notin L => x < y
    BY <1>7, <2>1 DEF IsFirst
  <2> QED
    BY <1>11, <2>2, <2>3
<1>12. NoGap'
  BY <1>2, <1>7, <1>9, <1>10, <1>11 DEF NoGap
<1> QED
  BY <1>0, <1>3, <1>4, <1>5, <1>6, <1>12 DEF IInv

\* Whether the plain store's scan failed or not.
LEMMA MergeKeeps ==
    ASSUME IInv, Merge \/ MergeHeldOnly
    PROVE  IInv'
<1>0. TypeOK'
  BY ListTypes DEF IInv, List
<1>1. CASE Merge
  <2>1. PICK L \in SUBSET (own \cup Out) :
          IsFirst(L, own \cup Out, limit) /\ listed' = L
    BY <1>1 DEF Merge
  <2>2. /\ phase = "judge" /\ phase' = "done"
        /\ UNCHANGED <<held, own, write, limit, cap, at, got, row, kept, ever,
                       failed, gone>>
        /\ keptOwn' = keptOwn
    BY <1>1 DEF Merge, history
  <2>3. keptOwn' = keptOwn \cap own
    BY <2>2 DEF IInv, KeptInv
  <2> QED
    BY <1>0, <2>1, <2>2, <2>3, MergedKeeps
<1>2. CASE MergeHeldOnly
  <2>1. PICK L \in SUBSET Out : IsFirst(L, Out, limit) /\ listed' = L
    BY <1>2 DEF MergeHeldOnly
  <2>2. /\ phase = "judge" /\ phase' = "done"
        /\ UNCHANGED <<held, own, write, limit, cap, at, got, row, kept, ever,
                       failed, gone>>
        /\ keptOwn' = keptOwn \cap {}
    BY <1>2 DEF MergeHeldOnly
  <2>3. {} \in SUBSET own /\ {} \cup Out = Out
    OBVIOUS
  <2>4. L \in SUBSET ({} \cup Out) /\ IsFirst(L, {} \cup Out, limit)
    BY <2>1, <2>3
  <2> QED
    BY <1>0, <2>1, <2>2, <2>3, <2>4, MergedKeeps
<1> QED
  BY <1>1, <1>2

\* A listing that returns leaves nothing behind.
LEMMA ReturnKeeps ==
    ASSUME IInv, Return
    PROVE  IInv'
<1>0. TypeOK /\ TypeOK'
  BY ListTypes DEF IInv, List
<1>1. /\ UNCHANGED <<held, own, write, gone>>
      /\ phase' = "idle" /\ row' = 0 /\ kept' = Nothing /\ keptOwn' = {}
  BY DEF Return, NoListing
<1>2. KeptInv' /\ EverInv' /\ ReadInv' /\ RowInv' /\ MixInv' /\ NoGap'
  BY <1>1 DEF KeptInv, EverInv, ReadInv, RowInv, MixInv, NoGap, Nothing
<1>3. ViewInv'
  BY <1>1 DEF ViewInv, HasRead
<1>4. WriteInv' /\ GoneInv'
  BY <1>1 DEF IInv, WriteInv, GoneInv, RemovedStaysGone
<1> QED
  BY <1>0, <1>2, <1>3, <1>4 DEF IInv

\* Nothing changes.
LEMMA StutterKeeps ==
    ASSUME IInv, UNCHANGED vars
    PROVE  IInv'
<1>1. /\ UNCHANGED <<held, own, write, listing, history, gone>>
      /\ UNCHANGED <<phase, limit, cap, at, got, row, listed>>
      /\ UNCHANGED <<kept, keptOwn, ever, failed, overlap>>
  BY DEF vars, listing, history
<1>2. TypeOK'
  BY <1>1, TypeStep DEF IInv, vars
<1>3. ReadInv' /\ ViewInv' /\ RowInv' /\ NoGap'
  BY <1>1, <1>2, Beside
<1>4. KeptInv' /\ EverInv' /\ WriteInv' /\ GoneInv'
  BY <1>1 DEF IInv, KeptInv, EverInv, WriteInv, GoneInv, RemovedStaysGone
<1>5. MixInv'
  <2>1. \A z : Possible(z)' = Possible(z)
    BY <1>1 DEF Possible
  <2> QED
    BY <1>1, <2>1 DEF IInv, MixInv
<1> QED
  BY <1>2, <1>3, <1>4, <1>5 DEF IInv

\* Every step keeps the invariant.
LEMMA Inductive == IInv /\ [Next]_vars => IInv'
<1> SUFFICES ASSUME IInv, [Next]_vars PROVE IInv'
  OBVIOUS
<1>1. CASE List
  BY <1>1, BeginKeeps, ReadKeeps, JudgeKeeps, AgainKeeps, MergeKeeps,
     ReturnKeeps DEF List
<1>2. CASE WriteStripe
  BY <1>2, WriteKeeps
<1>3. CASE \/ \E op \in {"insert", "remove"}, x \in Name :
                WriteOwn(op, x) \/ BeginWrite(op, x)
           \/ Kill \/ \E i \in Stripe : LoseStripe(i)
  BY <1>3, OtherKeep
<1>4. CASE UNCHANGED vars
  BY <1>4, StutterKeeps
<1> QED
  BY <1>1, <1>2, <1>3, <1>4 DEF Next

\* scan, scan_under: whatever is written, repaired, killed or fails meanwhile,
\* what a listing returns could be read at some time of it, and it passes over
\* no name that could be read throughout.
THEOREM NoGapCorrect == Spec => []NoGap
<1>1. IInv => NoGap
  BY DEF IInv
<1> QED
  BY <1>1, InitIInv, Inductive, PTL DEF Spec

\* repair: it takes the lock and reads the stripes again, so that what was
\* removed from every stripe since the scan does not come back.
THEOREM RemovedStaysGoneCorrect == Spec => []RemovedStaysGone
<1>1. IInv => RemovedStaysGone
  BY DEF IInv, GoneInv
<1> QED
  BY <1>1, InitIInv, Inductive, PTL DEF Spec
-----------------------------------------------------------------------------
(***************************************************************************)
(* A listing with nothing beside it is full unless too much is broken.     *)
(***************************************************************************)

Quiet == phase # "idle" /\ overlap = 0 /\ failed = {}

\* Only the listing's own repairs touch the stripes then: what it has read is
\* still there, and nothing can be read that could not be when it began.
QuietInv ==
    Quiet => /\ write = NoWrite
             /\ \A i \in Stripe : got[i] \subseteq held[i]
             /\ Rebuildable(held) \subseteq Rebuildable(kept)

\* Names are finitely many.
LEMMA NameSubsets ==
    ASSUME NEW T \in SUBSET Name
    PROVE  /\ IsFiniteSet(T) /\ Cardinality(T) \in Nat
           /\ \A S \in SUBSET T :
                /\ IsFiniteSet(S) /\ Cardinality(S) \in Nat
                /\ Cardinality(S) <= Cardinality(T)
BY ScanAssumption, FS_Subset, FS_CardinalityType

\* The first k of some names and of O, which are k at least and the first of R,
\* are the first k of the names and of R.
LEMMA FirstOfMore ==
    ASSUME NEW A \in SUBSET Name, NEW R \in SUBSET Name, NEW O \in SUBSET R,
           \A x \in O, y \in R \ O : x < y,
           NEW k \in Nat \ {0}, Cardinality(O) >= k,
           NEW L, IsFirst(L, A \cup O, k)
    PROVE  IsFirst(L, A \cup R, k)
<1>1. /\ L \subseteq A \cup O /\ A \cup O \subseteq Name
      /\ Name \subseteq Nat /\ O \in SUBSET Name
  BY ScanAssumption DEF IsFirst
<1>2. /\ Cardinality(L) \in Nat /\ Cardinality(O) \in Nat
      /\ Cardinality(O) <= Cardinality(A \cup O)
      /\ IsFiniteSet(O) /\ Cardinality(L) <= k
  BY <1>1, NameSubsets DEF IsFirst
<1>3. ASSUME NEW x \in L PROVE \E o \in O : x <= o
  <2> SUFFICES ASSUME \A o \in O : ~ (x <= o) PROVE FALSE
    OBVIOUS
  <2>1. x \in Nat /\ O \subseteq Nat
    BY <1>1
  <2>2. \A o \in O : ~ (x < o)
    BY <2>1
  <2>3. O \subseteq L
    BY <2>2 DEF IsFirst
  <2>4. x \notin O
    BY <2>1
  <2>5. Cardinality(O \cup {x}) = Cardinality(O) + 1
    BY <1>2, <2>4, FS_AddElement
  <2>6. O \cup {x} \in SUBSET L /\ L \in SUBSET Name
    BY <1>1, <2>3
  <2>7. Cardinality(O \cup {x}) <= Cardinality(L)
    BY <2>6, NameSubsets
  <2> QED
    BY <1>2, <2>5, <2>7
<1>4. ASSUME NEW x \in L, NEW y \in (A \cup R) \ L PROVE x < y
  <2>1. CASE y \in A \cup O
    BY <2>1 DEF IsFirst
  <2>2. CASE y \notin A \cup O
    <3>1. PICK o \in O : x <= o
      BY <1>3
    <3>2. o < y
      BY <2>2
    <3>3. x \in Nat /\ o \in Nat /\ y \in Nat
      BY <1>1
    <3> QED
      BY <3>1, <3>2, <3>3
  <2> QED
    BY <2>1, <2>2
<1>5. Cardinality(L) = k
  <2>1. L = A \cup O \/ Cardinality(L) = k
    BY DEF IsFirst
  <2> QED
    BY <1>2, <2>1
<1> QED
  BY <1>1, <1>2, <1>4, <1>5 DEF IsFirst

\* What can be read and lies before the last row was rebuilt; what lies past it
\* is past all that was.
LEMMA QuietOut ==
    ASSUME IInv, QuietInv, Quiet, phase = "judge"
    PROVE  /\ Out \subseteq Rebuildable(held)
           /\ \A y \in Rebuildable(held) : y <= row => y \in Out
           /\ \A x \in Out, y \in Rebuildable(held) \ Out : x < y
<1>0. /\ TypeOK /\ row \in Nat
      /\ Rebuildable(held) \subseteq Name /\ Name \subseteq Nat \ {0}
      /\ \A i \in Stripe : got[i] \subseteq held[i]
  BY RebuildableNames, ScanAssumption DEF IInv, TypeOK, QuietInv
<1>1. /\ got \in [Stripe -> SUBSET Name] /\ held \in [Stripe -> SUBSET Name]
  BY <1>0 DEF TypeOK
<1>2. ASSUME NEW x \in Out PROVE x \in Rebuildable(held)
  <2>1. x \in Among(got, Stripe)
    BY DEF Out, Rebuildable
  <2>2. x \in Among(held, Stripe)
    BY <1>0, <1>1, <2>1, AmongGrows
  <2> QED
    BY <2>2 DEF Rebuildable
<1>3. ASSUME NEW y \in Rebuildable(held), y <= row PROVE y \in Out
  <2>1. y \in Among(kept, Stripe \ failed)
    <3>1. Stripe \ failed = Stripe
      BY DEF Quiet
    <3>2. y \in Rebuildable(kept)
      BY DEF QuietInv
    <3> QED
      BY <3>1, <3>2 DEF Rebuildable
  <2>2. row # 0
    <3>1. y \in Nat /\ y # 0
      BY <1>0
    <3>2. row \in Nat
      BY <1>0
    <3> QED
      BY <1>3, <3>1, <3>2
  <2> QED
    BY <1>3, <2>1, <2>2, SteadyOut
<1>4. ASSUME NEW x \in Out, NEW y \in Rebuildable(held) \ Out PROVE x < y
  <2>1. x <= row /\ ~ (y <= row)
    BY <1>3 DEF Out
  <2>2. x \in Nat /\ y \in Nat
    BY <1>0, <1>2
  <2> QED
    BY <1>0, <2>1, <2>2
<1> QED
  BY <1>2, <1>3, <1>4

\* A stripe cut short before a name past all rows has shown a name beyond repair,
\* unless enough were rebuilt.
LEMMA CutShortIsBroken ==
    ASSUME IInv, QuietInv, Quiet, phase = "judge",
           limit > 0 => ~ (Cardinality(Out) >= limit),
           \A x \in Rows(got) : x <= row,
           NEW i \in CutShort
    PROVE  i \in Broken
<1>0. TypeOK /\ Out \subseteq Name
  BY RebuildableNames DEF IInv, TypeOK, Out
<1>1. /\ i \in Stripe /\ cap > 0 /\ Cardinality(got[i]) >= cap
  BY DEF CutShort
<1>2. cap \in Nat /\ cap = limit
  BY <1>0, <1>1, ScanAssumption DEF TypeOK
<1>3. got[i] \subseteq Name
  BY <1>0, <1>1 DEF TypeOK
<1>4. ~ (got[i] \subseteq Out)
  <2>1. Cardinality(Out) \in Nat /\ Cardinality(got[i]) \in Nat
        /\ (got[i] \subseteq Out => Cardinality(got[i]) <= Cardinality(Out))
    BY <1>0, <1>3, NameSubsets
  <2>2. ~ (Cardinality(Out) >= limit)
    BY <1>1, <1>2
  <2> QED
    BY <1>1, <1>2, <2>1, <2>2
<1>5. PICK x \in got[i] : x \notin Out
  BY <1>4
<1>6. x <= row
  BY <1>1 DEF Rows
<1>7. x \notin Rebuildable(held)
  BY <1>5, <1>6, QuietOut
<1>8. x \in held[i]
  BY <1>1 DEF QuietInv
<1> QED
  BY <1>1, <1>7, <1>8 DEF Broken

\* With every row judged and fewer than K stripes broken, everything that can be
\* read was rebuilt, or as many packets as were asked for.
LEMMA AllOut ==
    ASSUME IInv, QuietInv, Quiet, phase = "judge", Left = {},
           limit > 0 => ~ (Cardinality(Out) >= limit),
           Cardinality(Broken) < K
    PROVE  Rebuildable(held) = Out
<1>0. /\ TypeOK /\ row \in Nat /\ failed = {}
      /\ Name \subseteq Nat /\ got \in [Stripe -> SUBSET Name]
      /\ kept \in [Stripe -> SUBSET Name]
  BY ScanAssumption DEF IInv, TypeOK, Quiet
<1>1. \A x \in Rows(got) : x <= row
  <2>1. {x \in Rows(got) : row < x} = {}
    BY DEF Left
  <2>2. Rows(got) \subseteq Nat
    BY <1>0 DEF Rows
  <2> QED
    BY <1>0, <2>1, <2>2
<1>2. ASSUME NEW y \in Rebuildable(held), y \notin Out PROVE FALSE
  <2> DEFINE having == {i \in Stripe : y \in kept[i]}
  <2>1. ~ (y <= row)
    BY <1>2, QuietOut
  <2>2. Cardinality(having) >= K
    BY DEF QuietInv, Rebuildable, Among
  <2>3. having \subseteq Broken
    <3> SUFFICES ASSUME NEW i \in having PROVE i \in Broken
      OBVIOUS
    <3>1. i \in Stripe \ failed /\ HasRead(i) /\ y \in kept[i]
      BY <1>0 DEF HasRead
    <3>2. y \notin got[i]
      BY <1>1, <2>1 DEF Rows
    <3>3. i \in CutShort
      BY <3>1, <3>2 DEF IInv, ViewInv
    <3> QED
      BY <1>1, <3>3, CutShortIsBroken
  <2>4. Broken \in SUBSET Stripe
    BY DEF Broken
  <2> HIDE DEF having
  <2>5. Cardinality(having) \in Nat /\ Cardinality(Broken) \in Nat
        /\ Cardinality(having) <= Cardinality(Broken)
    BY <2>3, <2>4, StripeSubsets
  <2> QED
    BY <2>2, <2>5, ScanAssumption
<1> QED
  BY <1>2, QuietOut

\* So a listing that ends with nothing beside it is full.
LEMMA MergeFull ==
    ASSUME IInv, QuietInv, Quiet, Merge, Cardinality(Broken) < K
    PROVE  IsFirst(listed', Readable, limit)
<1>0. TypeOK
  BY DEF IInv
<1>1. PICK L \in SUBSET (own \cup Out) :
        IsFirst(L, own \cup Out, limit) /\ listed' = L
  BY DEF Merge
<1>2. phase = "judge" /\ Left = {}
  BY DEF Merge
<1>3. CASE limit > 0 /\ Cardinality(Out) >= limit
  <2>1. /\ Out \in SUBSET Rebuildable(held)
        /\ \A x \in Out, y \in Rebuildable(held) \ Out : x < y
    BY <1>2, QuietOut
  <2>2. Rebuildable(held) \in SUBSET Name /\ own \in SUBSET Name
    BY <1>0, RebuildableNames, ScanAssumption DEF TypeOK
  <2>3. limit \in Nat \ {0} /\ Cardinality(Out) >= limit
    BY <1>0, <1>3, ScanAssumption DEF TypeOK
  <2> HIDE DEF Out
  <2>4. IsFirst(L, own \cup Rebuildable(held), limit)
    BY <1>1, <2>1, <2>2, <2>3, FirstOfMore
  <2> QED
    BY <1>1, <2>4 DEF Readable
<1>4. CASE ~ (limit > 0 /\ Cardinality(Out) >= limit)
  <2>1. Rebuildable(held) = Out
    BY <1>2, <1>4, AllOut
  <2> QED
    BY <1>1, <2>1 DEF Readable
<1> QED
  BY <1>3, <1>4

\* A scan of the plain store that fails is counted.
LEMMA CountedHeldOnly ==
    ASSUME TypeOK, MergeHeldOnly
    PROVE  ~ Quiet'
<1>1. overlap \in Nat /\ overlap' = overlap + 1 /\ phase' = "done"
  BY ScanAssumption DEF MergeHeldOnly, TypeOK
<1> QED
  BY <1>1 DEF Quiet

\* What begins beside a listing is counted.
LEMMA CountedBeside ==
    ASSUME TypeOK, \E op \in {"insert", "remove"}, x \in Name :
                     WriteOwn(op, x) \/ BeginWrite(op, x)
    PROVE  ~ Quiet'
<1>1. overlap \in Nat /\ Overlaps /\ phase' = phase
  BY ScanAssumption DEF WriteOwn, BeginWrite, listing, TypeOK
<1>2. CASE phase = "idle"
  BY <1>1, <1>2 DEF Quiet
<1>3. CASE phase # "idle"
  <2>1. overlap' = overlap + 1
    BY <1>1, <1>3 DEF Overlaps
  <2> QED
    BY <1>1, <2>1 DEF Quiet
<1> QED
  BY <1>2, <1>3

\* Every step keeps what a quiet listing is sure of.
LEMMA QuietStep ==
    ASSUME IInv, QuietInv, [Next]_vars
    PROVE  QuietInv'
<1> SUFFICES ASSUME Quiet' PROVE QuietInv'
  BY DEF QuietInv
<1>0. TypeOK
  BY DEF IInv
<1>1. ASSUME NEW l \in Limits, BeginScan(l) PROVE QuietInv'
  <2>1. /\ write' = write /\ held' = held /\ kept' = held /\ got' = Nothing
        /\ write = NoWrite
    BY <1>1 DEF BeginScan, Quiet
  <2> QED
    BY <2>1 DEF QuietInv, Nothing
<1>2. CASE ReadStripe
  <2>1. PICK S \in SUBSET held[at] : Brought(S)
    BY <1>2 DEF ReadStripe
  <2>2. Quiet /\ kept' = kept
    BY <1>2, <2>1 DEF ReadStripe, Brought, history, Quiet
  <2>3. /\ write' = write /\ held' = held /\ got' = [got EXCEPT ![at] = S]
    BY <2>1 DEF Brought
  <2>4. \A i \in Stripe : got'[i] \subseteq held[i]
    BY <1>0, <2>2, <2>3 DEF QuietInv, TypeOK
  <2> QED
    BY <2>2, <2>3, <2>4 DEF QuietInv
<1>3. CASE ReadStripeFails
  BY <1>3 DEF ReadStripeFails, Quiet
<1>4. ASSUME NEW x \in Name, JudgeRow(x) PROVE QuietInv'
  <2>1. /\ Quiet /\ write' = write /\ got' = got /\ kept' = kept
        /\ held' = held \/ held' = Mended(held, x)
    BY <1>4 DEF JudgeRow, history, Quiet
  <2>2. /\ \A i \in Stripe : held[i] \subseteq held'[i]
        /\ Rebuildable(held') \subseteq Rebuildable(held)
    <3>1. /\ \A i \in Stripe : held[i] \subseteq Mended(held, x)[i]
          /\ Rebuildable(Mended(held, x)) \subseteq Rebuildable(held)
      BY <1>0, MendedIs DEF TypeOK
    <3>2. CASE held' = held
      BY <3>2
    <3>3. CASE held' = Mended(held, x)
      BY <3>1, <3>3
    <3> QED
      BY <2>1, <3>2, <3>3
  <2> QED
    BY <2>1, <2>2 DEF QuietInv
<1>5. CASE ScanAgain
  <2>1. /\ Quiet /\ write' = write /\ held' = held /\ kept' = kept
        /\ got' = Nothing
    BY <1>5 DEF ScanAgain, history, Quiet
  <2> QED
    BY <2>1 DEF QuietInv, Nothing
<1>6. CASE Merge
  <2>1. /\ Quiet /\ write' = write /\ held' = held /\ kept' = kept /\ got' = got
    BY <1>6 DEF Merge, history, Quiet
  <2> QED
    BY <2>1 DEF QuietInv
<1>7. CASE Return \/ Kill
  BY <1>7 DEF Return, Kill, NoListing, Quiet
<1>8. CASE \E op \in {"insert", "remove"}, x \in Name :
             WriteOwn(op, x) \/ BeginWrite(op, x)
  BY <1>0, <1>8, CountedBeside
<1>9. CASE WriteStripe
  <2>1. Quiet /\ write # NoWrite
    BY <1>9 DEF WriteStripe, listing, Quiet
  <2> QED
    BY <2>1 DEF QuietInv
<1>10. ASSUME NEW i \in Stripe, LoseStripe(i) PROVE QuietInv'
  BY <1>10 DEF LoseStripe, listing, Quiet
<1>11. CASE UNCHANGED vars
  <2>1. /\ Quiet /\ write' = write /\ held' = held /\ kept' = kept /\ got' = got
    BY <1>11 DEF vars, listing, history, Quiet
  <2> QED
    BY <2>1 DEF QuietInv
<1>12. CASE MergeHeldOnly
  BY <1>0, <1>12, CountedHeldOnly
<1> QED
  BY <1>1, <1>2, <1>3, <1>4, <1>5, <1>6, <1>7, <1>8, <1>9, <1>10, <1>11,
     <1>12 DEF Next, List

\* A listing that has ended stays as it was found, until something begins beside
\* it or it returns.
LEMMA FullStep ==
    ASSUME IInv, QuietInv, FullUnlessBroken, [Next]_vars
    PROVE  FullUnlessBroken'
<1> SUFFICES ASSUME Undisturbed', Cardinality(Broken)' < K
             PROVE  IsFirst(listed, Readable, limit)'
  BY DEF FullUnlessBroken
<1>0. TypeOK /\ Quiet' /\ phase' = "done"
  BY DEF IInv, Quiet, Undisturbed
<1>1. CASE Merge
  <2>1. /\ own' = own /\ held' = held /\ limit' = limit /\ Quiet
    BY <1>1 DEF Merge, history, Undisturbed, Quiet
  <2>2. Broken' = Broken /\ Readable' = Readable
    BY <2>1 DEF Broken, Readable
  <2>3. IsFirst(listed', Readable, limit)
    BY <1>1, <2>1, <2>2, MergeFull
  <2> QED
    BY <2>1, <2>2, <2>3 DEF IsFirst
<1>2. CASE UNCHANGED vars
  <2>1. /\ own' = own /\ held' = held /\ limit' = limit /\ listed' = listed
        /\ Undisturbed
    BY <1>2 DEF vars, listing, history, Undisturbed
  <2>2. Broken' = Broken /\ Readable' = Readable
    BY <2>1 DEF Broken, Readable
  <2>3. IsFirst(listed, Readable, limit)
    BY <2>1, <2>2 DEF FullUnlessBroken
  <2> QED
    BY <2>1, <2>2, <2>3 DEF IsFirst
<1>3. CASE WriteStripe
  <2>1. Quiet /\ write # NoWrite
    BY <1>0, <1>3 DEF WriteStripe, listing, Quiet
  <2> QED
    BY <2>1 DEF QuietInv
<1>4. CASE \/ MergeHeldOnly
           \/ \E op \in {"insert", "remove"}, x \in Name :
                WriteOwn(op, x) \/ BeginWrite(op, x)
  BY <1>0, <1>4, CountedBeside, CountedHeldOnly DEF IInv
<1>5. ASSUME \/ \E l \in Limits : BeginScan(l)
             \/ ReadStripe \/ ReadStripeFails
             \/ \E x \in Name : JudgeRow(x)
             \/ ScanAgain \/ Return \/ Kill
             \/ \E i \in Stripe : LoseStripe(i)
      PROVE  phase' # "done"
  BY <1>5 DEF BeginScan, ReadStripe, ReadStripeFails, Brought, JudgeRow,
              ScanAgain, Return, Kill, NoListing, LoseStripe, listing
<1> QED
  BY <1>0, <1>1, <1>2, <1>3, <1>4, <1>5 DEF Next, List

\* scan_under: a listing with nothing beside it but its own repairs gives the
\* first `limit' readable names, held and own ones merged, although each stripe
\* showed only its first few: unless K stripes or more have shards of names that
\* cannot be rebuilt, which took the places of readable ones.
THEOREM FullUnlessBrokenCorrect == Spec => []FullUnlessBroken
<1> DEFINE FInv == IInv /\ QuietInv /\ FullUnlessBroken
<1>1. Init => FInv
  BY InitIInv DEF Init, QuietInv, Quiet, FullUnlessBroken, Undisturbed
<1>2. FInv /\ [Next]_vars => FInv'
  BY Inductive, QuietStep, FullStep
<1>3. FInv => FullUnlessBroken
  OBVIOUS
<1> QED
  BY <1>1, <1>2, <1>3, PTL DEF Spec
=============================================================================
