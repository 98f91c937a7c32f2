------------------------------ MODULE HeldScan ------------------------------
(***************************************************************************)
(* Listing a holder's packets in name order (ndn-repo/src/held.rs: scan,   *)
(* scan_under and find_under of ErasureStore and of HolderStore), beside   *)
(* inserts, removes and kills.                                             *)
(*                                                                         *)
(* A scan reads the stripes' first names, one stripe after the other and   *)
(* with no lock, judges the rows it has a complete view of, repairs, under *)
(* the lock, those it lists, and scans again with no limit when it needs a *)
(* row past them.  A write holds the lock from its first stripe to its     *)
(* last; a kill cuts it short.                                             *)
(*                                                                         *)
(* What a stripe holds of a name is here a good shard or nothing:          *)
(* ErasureStore tells wires apart and spoils records.  Names are numbers,  *)
(* in the order of their keys, all of them under the prefix asked for,     *)
(* which spans the device's own names too.                                 *)
(***************************************************************************)
EXTENDS Integers, FiniteSets

CONSTANTS
    K, N,        \* the erasure parameters
    Name,        \* the names under the prefix
    Own,         \* those under the device's prefix or /localhost
    Limits,      \* the limits callers ask for; 0 is none
    MaxBeside    \* bound: writes that begin within a listing and scans that
                 \* fail in it, together

ASSUME ScanAssumption ==
    /\ K \in Nat \ {0} /\ N \in Nat /\ K <= N
    /\ Name \subseteq Nat \ {0} /\ IsFiniteSet(Name)
    /\ Own \subseteq Name /\ Limits \subseteq Nat
    /\ MaxBeside \in Nat

Stripe == 1..N

VARIABLES
    held,     \* held[i]: the names stripe i has a shard of
    own,      \* the names in the plain store
    write,    \* the write that has the lock: what, which name, the next stripe
    phase,    \* the listing: "idle", "read", "judge", or "done"
    limit,    \* what it was asked for
    cap,      \* the limit each stripe is scanned with
    at,       \* the stripe it reads next
    got,      \* got[i]: the names stripe i's scan brought
    row,      \* the last row it judged
    listed    \* the names it returned

listing == <<phase, limit, cap, at, got, row, listed>>

\* History, of the listing under way: kept[i], the names stripe i held ever
\* since it began, and keptOwn, those of the plain store, none once its scan
\* failed; ever, the names that could be read at some time of it; failed, the
\* stripes whose scan failed; overlap, the writes beside it and the plain
\* store's scan if it failed.
\* gone: the names removed from every stripe and not inserted since.
VARIABLES kept, keptOwn, ever, failed, overlap, gone

history == <<kept, keptOwn, ever, failed, overlap>>

vars == <<held, own, write, listing, history, gone>>
-----------------------------------------------------------------------------
\* S is the first k of the names T, or all of them: fewer than k, or k = 0.
IsFirst(S, T, k) ==
    /\ S \subseteq T
    /\ \A x \in S, y \in T \ S : x < y
    /\ k > 0 => Cardinality(S) <= k
    /\ S = T \/ (k > 0 /\ Cardinality(S) = k)

Rows(h) == UNION {h[i] : i \in Stripe}

Among(h, I) == {x \in Rows(h) : Cardinality({i \in I : x \in h[i]}) >= K}

Rebuildable(h) == Among(h, Stripe)

\* The stripes whose scan may have stopped before its last name.
CutShort == {i \in Stripe : cap > 0 /\ Cardinality(got[i]) >= cap}

\* Mutant: the view is taken to be complete up to the last name of them all.
SeenBeyond(x) ==
    \A i \in CutShort : \E j \in CutShort : \E y \in got[j] : x <= y

\* Whether a complete view of name x was had: no scan was cut short before it.
Seen(x) == \A i \in CutShort : \E y \in got[i] : x <= y

\* What the scan has rebuilt so far.
Out == {x \in Rebuildable(got) : x <= row}

\* The rows it has yet to judge, while it has fewer packets than asked for.
Left == IF limit > 0 /\ Cardinality(Out) >= limit THEN {}
        ELSE {x \in Rows(got) : row < x}

\* x is the first of these.
IsNext(x) == x \in Left /\ \A y \in Left : x <= y

Nothing == [i \in Stripe |-> {}]
NoWrite == [op |-> "none", name |-> 0, next |-> 1]

Init ==
    /\ held = Nothing /\ own = {} /\ write = NoWrite
    /\ phase = "idle" /\ limit = 0 /\ cap = 0 /\ at = 1 /\ row = 0
    /\ got = Nothing /\ listed = {}
    /\ kept = Nothing /\ keptOwn = {} /\ ever = {} /\ failed = {}
    /\ overlap = 0
    /\ gone = Name \ Own
-----------------------------------------------------------------------------
(***************************************************************************)
(* The listing.                                                            *)
(***************************************************************************)

\* No listing is under way any more.
NoListing ==
    /\ phase' = "idle" /\ limit' = 0 /\ cap' = 0 /\ at' = 1 /\ row' = 0
    /\ got' = Nothing /\ listed' = {}
    /\ kept' = Nothing /\ keptOwn' = {} /\ ever' = {} /\ failed' = {}
    /\ overlap' = 0

\* scan_under: the stripes are limited to l first.
BeginScan(l) ==
    /\ phase = "idle"
    /\ phase' = "read" /\ limit' = l /\ cap' = l
    /\ at' = 1 /\ got' = Nothing /\ row' = 0
    /\ kept' = held /\ keptOwn' = own
    /\ ever' = own \cup Rebuildable(held)
    /\ overlap' = IF write = NoWrite THEN 0 ELSE 1
    /\ UNCHANGED <<held, own, write, listed, failed, gone>>

Brought(S) ==
    /\ phase = "read"
    /\ got' = [got EXCEPT ![at] = S]
    /\ IF at < N THEN at' = at + 1 /\ UNCHANGED phase
       ELSE phase' = "judge" /\ UNCHANGED at
    /\ UNCHANGED <<held, own, write, limit, cap, row, listed, gone>>

ReadStripe ==
    /\ \E S \in SUBSET held[at] : IsFirst(S, held[at], cap) /\ Brought(S)
    /\ UNCHANGED history

\* A stripe whose scan fails looks empty.
ReadStripeFails ==
    /\ overlap + Cardinality(failed) < MaxBeside
    /\ Brought({})
    /\ failed' = failed \cup {at}
    /\ UNCHANGED <<kept, keptOwn, ever, overlap>>

\* Mutant: the repair goes by what the scan read.
MendedAnyway(h, x) == [i \in Stripe |-> h[i] \cup {x}]

\* repair: a packet that can still be rebuilt has a shard in every stripe again.
Mended(h, x) ==
    IF x \in Rebuildable(h) THEN [i \in Stripe |-> h[i] \cup {x}] ELSE h

\* The next row is judged; the repair waits for the lock.
JudgeRow(x) ==
    /\ phase = "judge" /\ IsNext(x) /\ Seen(x)
    /\ row' = x
    /\ IF x \in Rebuildable(got) /\ \E i \in Stripe : x \notin got[i]
       THEN write = NoWrite /\ held' = Mended(held, x)
       ELSE UNCHANGED held
    /\ UNCHANGED <<own, write, phase, limit, cap, at, got, listed, history,
                   gone>>

\* Mutant: a scan cut short keeps what it has instead of scanning again.
ScanAgainNot ==
    /\ phase = "judge" /\ \E x \in Left : IsNext(x) /\ ~ Seen(x)
    /\ phase' = "done"
    /\ \E S \in SUBSET (own \cup Out) :
         IsFirst(S, own \cup Out, limit) /\ listed' = S
    /\ UNCHANGED <<held, own, write, limit, cap, at, got, row, history, gone>>

\* It is past what every stripe showed: everything is scanned again, unlimited.
ScanAgain ==
    /\ phase = "judge" /\ \E x \in Left : IsNext(x) /\ ~ Seen(x)
    /\ phase' = "read" /\ cap' = 0
    /\ at' = 1 /\ got' = Nothing /\ row' = 0
    /\ UNCHANGED <<held, own, write, limit, listed, history, gone>>

\* HolderStore's scan_under: the own names are scanned last, and merged.
Merge ==
    /\ phase = "judge" /\ Left = {}
    /\ phase' = "done"
    /\ \E S \in SUBSET (own \cup Out) :
         IsFirst(S, own \cup Out, limit) /\ listed' = S
    /\ UNCHANGED <<held, own, write, limit, cap, at, got, row, history, gone>>

\* The plain store's scan fails and looks empty.
MergeHeldOnly ==
    /\ phase = "judge" /\ Left = {}
    /\ overlap + Cardinality(failed) < MaxBeside
    /\ phase' = "done"
    /\ \E S \in SUBSET Out : IsFirst(S, Out, limit) /\ listed' = S
    /\ keptOwn' = {} /\ overlap' = overlap + 1
    /\ UNCHANGED <<held, own, write, limit, cap, at, got, row, kept, ever, failed,
                   gone>>

Return ==
    /\ phase = "done"
    /\ NoListing
    /\ UNCHANGED <<held, own, write, gone>>

List ==
    \/ \E l \in Limits : BeginScan(l)
    \/ ReadStripe \/ ReadStripeFails
    \/ (\E x \in Name : JudgeRow(x)) \/ ScanAgain
    \/ Merge \/ MergeHeldOnly \/ Return
-----------------------------------------------------------------------------
(***************************************************************************)
(* Writes, and what befalls the process and its disks.                     *)
(***************************************************************************)

\* The stores hold h and o after a step; a listing under way takes note.
Stored(h, o) ==
    /\ held' = h /\ own' = o
    /\ kept' = [i \in Stripe |-> kept[i] \cap h[i]]
    /\ keptOwn' = keptOwn \cap o
    /\ ever' = IF phase = "idle" THEN {} ELSE ever \cup o \cup Rebuildable(h)

\* One more write beside the listing, if there is one.
Overlaps ==
    IF phase = "idle" THEN UNCHANGED overlap
    ELSE /\ overlap + Cardinality(failed) < MaxBeside
         /\ overlap' = overlap + 1

\* A name under the device's prefix or /localhost goes to the plain store.
WriteOwn(op, x) ==
    /\ x \in Own
    /\ Stored(held, IF op = "insert" THEN own \cup {x} ELSE own \ {x})
    /\ Overlaps
    /\ UNCHANGED <<write, listing, failed, gone>>

\* Mutant: every name goes to the stripes.
BeginWriteAny(op, x) ==
    /\ write = NoWrite
    /\ write' = [op |-> op, name |-> x, next |-> 1]
    /\ gone' = gone \ {x}
    /\ Overlaps
    /\ UNCHANGED <<held, own, listing, kept, keptOwn, ever, failed>>

\* Any other takes the lock of the stripes.
BeginWrite(op, x) ==
    /\ x \notin Own
    /\ write = NoWrite
    /\ write' = [op |-> op, name |-> x, next |-> 1]
    /\ gone' = gone \ {x}
    /\ Overlaps
    /\ UNCHANGED <<held, own, listing, kept, keptOwn, ever, failed>>

\* It is done after the last stripe.
WriteStripe ==
    LET i == write.next
        x == write.name
        h == [held EXCEPT ![i] =
                IF write.op = "insert" THEN @ \cup {x} ELSE @ \ {x}]
    IN
    /\ write # NoWrite
    /\ Stored(h, own)
    /\ write' = IF i = N THEN NoWrite ELSE [write EXCEPT !.next = @ + 1]
    /\ gone' = IF i = N /\ x \notin Rows(h) THEN gone \cup {x} ELSE gone
    /\ UNCHANGED <<listing, failed, overlap>>

\* kill -9: a write and a listing under way end where they are.
Kill ==
    /\ write' = NoWrite
    /\ NoListing
    /\ gone' = (Name \ Own) \ Rows(held)
    /\ UNCHANGED <<held, own>>

\* With no process running, a stripe comes back empty.
LoseStripe(i) ==
    /\ phase = "idle" /\ write = NoWrite
    /\ held' = [held EXCEPT ![i] = {}]
    /\ gone' = (Name \ Own) \ Rows(held')
    /\ UNCHANGED <<own, write, listing, history>>

Next ==
    \/ List
    \/ \E op \in {"insert", "remove"}, x \in Name :
         WriteOwn(op, x) \/ BeginWrite(op, x)
    \/ WriteStripe \/ Kill
    \/ \E i \in Stripe : LoseStripe(i)

Spec == Init /\ [][Next]_vars
-----------------------------------------------------------------------------
(***************************************************************************)
(* Properties.                                                             *)
(***************************************************************************)

\* Every variable keeps its type.
TypeOK ==
    /\ held \in [Stripe -> SUBSET (Name \ Own)]
    /\ own \in SUBSET Own
    /\ write \in [op : {"insert", "remove"}, name : Name \ Own, next : Stripe]
                  \cup {NoWrite}
    /\ phase \in {"idle", "read", "judge", "done"}
    /\ limit \in Limits \cup {0} /\ cap \in {0, limit}
    /\ at \in Stripe /\ got \in [Stripe -> SUBSET (Name \ Own)]
    /\ row \in Name \cup {0} /\ listed \in SUBSET Name
    /\ kept \in [Stripe -> SUBSET (Name \ Own)] /\ keptOwn \in SUBSET Own
    /\ ever \in SUBSET Name /\ failed \in SUBSET Stripe
    /\ overlap \in 0..MaxBeside+1 /\ gone \in SUBSET (Name \ Own)

\* What could be read throughout, from stores whose scans did not fail.
Steady == keptOwn \cup Among(kept, Stripe \ failed)

\* scan, scan_under: whatever is written, repaired or fails meanwhile, what is
\* listed could be read at some time of the listing, and no name that could be
\* throughout is passed over, though each stripe showed only its first few and
\* each at another time.  (Past the last held name listed, own ones may follow
\* though held ones are missing: NonePassedOver.)
NoGap ==
    phase = "done" =>
        /\ listed \subseteq ever
        /\ \A x \in listed, y \in Steady :
             y < x /\ (x \in Own => y \in Own) => y \in listed

\* held.rs 341-369: the repair of a listed row never brings back a packet that
\* was removed from every stripe since the row was read.
RemovedStaysGone == gone \cap Rows(held) = {}

Readable == own \cup Rebuildable(held)

\* A listing has just ended that had nothing beside it.
Undisturbed == phase = "done" /\ overlap = 0 /\ failed = {}

\* The stripes with a shard of a name that cannot be rebuilt.
Broken == {i \in Stripe : ~ (held[i] \subseteq Rebuildable(held))}

\* scan_under: a listing with nothing beside it is the first `limit' readable
\* names while fewer than K stripes hold shards of names that cannot be rebuilt
\* (a write cut short left them, or a loss beyond repair).
FullUnlessBroken ==
    Undisturbed /\ Cardinality(Broken) < K => IsFirst(listed, Readable, limit)

\* held.rs 371-374, 614: a scan is done again when it was cut short before
\* `limit' packets were judged, and own names are merged with held ones in
\* name order, so that a listing passes over no readable name.
NonePassedOver ==
    Undisturbed => \A x \in listed, y \in Readable : y < x => y \in listed
=============================================================================
