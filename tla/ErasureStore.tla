---------------------------- MODULE ErasureStore ----------------------------
(***************************************************************************)
(* The erasure-coded store of a custody holder (ndn-repo/src/held.rs): one *)
(* packet name kept as N shards in N stripes, any K of which rebuild it.   *)
(*                                                                         *)
(* Names never interact below scan, so the module follows one name.  Any   *)
(* number of threads call insert, remove, get, contains and sync on it.    *)
(* Reads gather the stripes' records one stripe at a time and take no      *)
(* lock; insert, remove and the repair a read triggers write stripe after  *)
(* stripe under the `writes' mutex; sync takes no lock.  The process may   *)
(* be killed or lose power between any two of these steps, a stripe may be *)
(* lost while the holder is down, and a record may rot at any time.        *)
(*                                                                         *)
(* A stripe is an FjallStore (store.rs): its in-process journal and fsync  *)
(* are library code, modelled by what they promise: a write that returned  *)
(* survives a kill, one before a returned sync survives a power loss, and  *)
(* a failed write fails every later sync until the store is reopened.      *)
(***************************************************************************)
EXTENDS Integers, FiniteSets

CONSTANTS
    K, N,        \* the erasure parameters: any K of N shards rebuild a packet
    Wire,        \* the wires inserts may carry
    Uncodable,   \* those encode refuses (over 4 GiB)
    Thread,      \* the callers of the store
    None,        \* no record; as a result, no packet
    Bad,         \* a record that fails its own digest, length or index check
    BadHead,     \* a shard that passes them under a rotten wire digest
    Nobody,      \* the mutex is free
    MaxOps,      \* bound: operations begun
    MaxFaults    \* bound: faults, of every kind together

ASSUME CodingAssumption == K \in Nat \ {0} /\ N \in Nat /\ K <= N

ASSUME ValueAssumption ==
    /\ None \notin Wire /\ Bad \notin Wire /\ BadHead \notin Wire
    /\ None # Bad /\ None # BadHead /\ Bad # BadHead
    /\ Uncodable \subseteq Wire
    /\ Nobody \notin Thread

Stripe == 1..N
Packet == Wire \cup {None}                  \* what the name may hold
Cell   == Wire \cup {None, Bad, BadHead}    \* what a stripe may hold of it
Op     == {"none", "get", "contains", "insert", "remove", "sync"}
Label  == {"idle", "read", "repair", "mend",
           "lock", "write", "sync", "done"}

VARIABLES
    mem,      \* mem[i]: the record stripe i's lookup returns
    disk,     \* disk[i]: the records a power loss may leave in stripe i
    failed,   \* failed[i]: a write of stripe i failed since it was opened
    refused,  \* an insert was refused since the store was opened
    lock,     \* the holder of `writes'
    up,       \* the holder process runs
    pc, op,   \* where each thread is, and in which operation
    arg,      \* the wire it writes (None: it removes)
    nxt,      \* the next stripe of its loop
    view,     \* the records it has read
    ok,       \* nothing has failed under its operation so far
    out,      \* what it returns
    ops, faults

(***************************************************************************)
(* History variables, which no step of the code reads.                     *)
(***************************************************************************)
VARIABLES
    legal,    \* the packets the store may rightly hold now
    hist,     \* the packets a power loss may rightly bring back
    damaged,  \* stripes whose record was spoilt and not yet rewritten
    rotten,   \* stripes a power loss may bring a spoilt record back in
    seen,     \* seen[t]: the union of legal over t's operation
    hurt,     \* hurt[t]: stripes spoilt or unreadable at some time during it
    missed,   \* the packets an insert or a remove of which was refused, or it
              \* or a repair lost a stripe's write, since the store was opened
    owed      \* owed[t]: those missed when t's operation began

store   == <<mem, disk, failed, refused, lock, up>>
threads == <<pc, op, arg, nxt, view, ok, out>>
ghosts  == <<legal, hist, damaged, rotten, seen, hurt, missed, owed>>
vars    == <<mem, disk, failed, refused, lock, up, pc, op, arg, nxt, view, ok,
             out, ops, faults, legal, hist, damaged, rotten, seen, hurt, missed,
             owed>>

NoView == [i \in Stripe |-> None]

(***************************************************************************)
(* Rebuilding a packet from the stripes' records.                          *)
(***************************************************************************)

Holders(v, w) == {i \in Stripe : v[i] = w}

\* Good shards grouped by the wire digest in their header: the shards of one
\* wire together, a shard under a rotten digest by itself.
Groups(v) == {Holders(v, w) : w \in Wire} \cup {{i} : i \in Holders(v, BadHead)}

\* Mutant: one shard more than K asked for.
QuorateAboveK(v) == {g \in Groups(v) : Cardinality(g) > K}

Quorate(v) == {g \in Groups(v) : Cardinality(g) >= K}

\* Groups are in the order of their first stripe, and max_by_key keeps the
\* last of the largest.
First(g) == CHOOSE i \in g : \A j \in g : i <= j
Outranks(g, h) ==
    \/ Cardinality(g) > Cardinality(h)
    \/ Cardinality(g) = Cardinality(h) /\ First(g) > First(h)

\* Mutant: shards of a second wire make the packet unreadable.
WinningAlone(v) == {g \in Quorate(v) : Groups(v) \subseteq {g, {}}}

Winning(v) == {g \in Quorate(v) : \A h \in Quorate(v) \ {g} : Outranks(g, h)}

\* The packet the records rebuild, or None: no group is large enough, or the
\* winning one does not decode to its digest.
Assemble(v) ==
    IF \E w \in Wire : Holders(v, w) \in Winning(v)
    THEN CHOOSE w \in Wire : Holders(v, w) \in Winning(v)
    ELSE None

Present(v) == {i \in Stripe : v[i] # None}

\* Mutant: K records are not enough.
ContainsAboveK(v) == Cardinality(Present(v)) > K

\* What contains answers: enough stripes have a record, whatever it is.
Contains(v) == Cardinality(Present(v)) >= K
-----------------------------------------------------------------------------
\* ErasureStore::open on empty directories.
Init ==
    /\ mem = NoView
    /\ disk = [i \in Stripe |-> {None}]
    /\ failed = [i \in Stripe |-> FALSE]
    /\ refused = FALSE
    /\ lock = Nobody
    /\ up = TRUE
    /\ pc = [t \in Thread |-> "idle"]
    /\ op = [t \in Thread |-> "none"]
    /\ arg = [t \in Thread |-> None]
    /\ nxt = [t \in Thread |-> 1]
    /\ view = [t \in Thread |-> NoView]
    /\ ok = [t \in Thread |-> TRUE]
    /\ out = [t \in Thread |-> None]
    /\ ops = 0
    /\ faults = 0
    /\ legal = {None}
    /\ hist = {None}
    /\ damaged = {}
    /\ rotten = {}
    /\ seen = [t \in Thread |-> {}]
    /\ hurt = [t \in Thread |-> {}]
    /\ missed = {}
    /\ owed = [t \in Thread |-> {}]

\* A fault of the environment, within the bound.
Fault(n) == faults + n <= MaxFaults /\ faults' = faults + n

Busy == {t \in Thread : pc[t] # "idle"}

\* Thread t begins operation o with argument a, at label l; good says whether
\* nothing speaks against it already.
Begin(t, o, a, l, good) ==
    /\ up /\ pc[t] = "idle"
    /\ ops < MaxOps /\ ops' = ops + 1
    /\ pc' = [pc EXCEPT ![t] = l]
    /\ op' = [op EXCEPT ![t] = o]
    /\ arg' = [arg EXCEPT ![t] = a]
    /\ ok' = [ok EXCEPT ![t] = good]
    /\ seen' = [seen EXCEPT ![t] = legal]
    /\ hurt' = [hurt EXCEPT ![t] = damaged]
    /\ owed' = [owed EXCEPT ![t] = missed]
    /\ UNCHANGED <<store, nxt, view, out, faults, legal, hist, damaged, rotten,
                   missed>>

Goto(t, l) == pc' = [pc EXCEPT ![t] = l]

\* The loop over the stripes goes on to the next one.
Advance(t) == nxt' = [nxt EXCEPT ![t] = @ + 1]
-----------------------------------------------------------------------------
(***************************************************************************)
(* Reads: get and contains.                                                *)
(***************************************************************************)

BeginGet(t)      == Begin(t, "get", None, "read", TRUE)
BeginContains(t) == Begin(t, "contains", None, "read", TRUE)

\* records: the next stripe is looked up, whatever a writer is doing.
ReadStripe(t) ==
    /\ pc[t] = "read" /\ nxt[t] <= N
    /\ view' = [view EXCEPT ![t][nxt[t]] = mem[nxt[t]]]
    /\ Advance(t)
    /\ UNCHANGED <<store, pc, op, arg, ok, out, ops, faults, ghosts>>

\* A lookup the backend fails is logged and taken for a miss.
ReadStripeFails(t) ==
    /\ pc[t] = "read" /\ nxt[t] <= N
    /\ Fault(1)
    /\ Advance(t)
    /\ ok' = [ok EXCEPT ![t] = FALSE]
    /\ hurt' = [hurt EXCEPT ![t] = @ \cup {nxt[t]}]
    /\ UNCHANGED <<store, pc, op, arg, view, out, ops, legal, hist, damaged,
                   rotten, seen, missed, owed>>

\* Mutant: only a missing record, not a spoilt one, calls for a repair.
JudgeGetMissing(t) ==
    /\ pc[t] = "read" /\ nxt[t] > N /\ op[t] = "get"
    /\ LET w == Assemble(view[t]) IN
       /\ out' = [out EXCEPT ![t] = w]
       /\ Goto(t, IF w # None /\ Holders(view[t], None) # {}
                  THEN "repair" ELSE "done")
    /\ UNCHANGED <<store, op, arg, nxt, view, ok, ops, faults, ghosts>>

\* rebuild: the records assemble to a packet or to none, and a packet some
\* stripe lacks a good shard of is to be repaired first.
JudgeGet(t) ==
    /\ pc[t] = "read" /\ nxt[t] > N /\ op[t] = "get"
    /\ LET w == Assemble(view[t]) IN
       /\ out' = [out EXCEPT ![t] = w]
       /\ Goto(t, IF w # None /\ Holders(view[t], w) # Stripe
                  THEN "repair" ELSE "done")
    /\ UNCHANGED <<store, op, arg, nxt, view, ok, ops, faults, ghosts>>

JudgeContains(t) ==
    /\ pc[t] = "read" /\ nxt[t] > N /\ op[t] = "contains"
    /\ out' = [out EXCEPT ![t] = Contains(view[t])]
    /\ Goto(t, "done")
    /\ UNCHANGED <<store, op, arg, nxt, view, ok, ops, faults, ghosts>>
-----------------------------------------------------------------------------
(***************************************************************************)
(* Repair, on the way of a get.                                            *)
(***************************************************************************)

\* What the stripes hold now, read under the lock (only rot can change it
\* meanwhile, so one step reads them all), but for the lookups that fail.
Reread(unread) == [i \in Stripe |-> IF i \in unread THEN None ELSE mem[i]]

\* Mutant: the repair trusts the records its get read without the lock.
RejudgeNot(t) ==
    /\ pc[t] = "repair" /\ lock = Nobody
    /\ nxt' = [nxt EXCEPT ![t] = 1]
    /\ Goto(t, "mend")
    /\ lock' = t
    /\ arg' = [arg EXCEPT ![t] = out[t]]
    /\ UNCHANGED <<mem, disk, failed, refused, up, op, view, ok, out, ops,
                   faults, ghosts>>

\* repair takes the lock and judges again; it keeps the lock only to rewrite
\* the stripes that lack a shard of what it rebuilt.
Rejudge(t) ==
    /\ pc[t] = "repair" /\ lock = Nobody
    /\ \E unread \in SUBSET Stripe :
         LET v == Reread(unread)  w == Assemble(v) IN
         /\ Fault(Cardinality(unread))
         /\ view' = [view EXCEPT ![t] = v]
         /\ nxt' = [nxt EXCEPT ![t] = 1]
         /\ ok' = [ok EXCEPT ![t] = @ /\ unread = {}]
         /\ IF w = None \/ Holders(v, w) = Stripe
            THEN Goto(t, "done") /\ UNCHANGED <<lock, arg>>
            ELSE /\ Goto(t, "mend")
                 /\ lock' = t
                 /\ arg' = [arg EXCEPT ![t] = w]
    /\ UNCHANGED <<mem, disk, failed, refused, up, op, out, ops, ghosts>>

\* A stripe takes the record c of the packet.
Put(i, c) ==
    /\ mem' = [mem EXCEPT ![i] = c]
    /\ disk' = [disk EXCEPT ![i] = @ \cup {c}]
    /\ damaged' = damaged \ {i}

\* The stripe that had a good shard is passed over, a stale one rewritten.
MendStripe(t) ==
    /\ pc[t] = "mend" /\ nxt[t] <= N
    /\ IF view[t][nxt[t]] = arg[t]
       THEN UNCHANGED <<mem, disk, damaged>>
       ELSE Put(nxt[t], arg[t])
    /\ Advance(t)
    /\ UNCHANGED <<failed, refused, lock, up, pc, op, arg, view, ok, out, ops,
                   faults, legal, hist, rotten, seen, hurt, missed, owed>>

\* A write the stripe's backend fails, in a repair, an insert or a remove:
\* logged, remembered for sync, and the loop goes on.
WriteStripeFails(t) ==
    /\ pc[t] \in {"mend", "write"} /\ nxt[t] <= N
    /\ pc[t] = "mend" => view[t][nxt[t]] # arg[t]
    /\ Fault(1)
    /\ failed' = [failed EXCEPT ![nxt[t]] = TRUE]
    /\ missed' = missed \cup {arg[t]}
    /\ ok' = [ok EXCEPT ![t] = FALSE]
    /\ Advance(t)
    /\ UNCHANGED <<mem, disk, refused, lock, up, pc, op, arg, view, out, ops,
                   legal, hist, damaged, rotten, seen, hurt, owed>>

FinishMend(t) ==
    /\ pc[t] = "mend" /\ nxt[t] > N
    /\ lock' = Nobody
    /\ Goto(t, "done")
    /\ UNCHANGED <<mem, disk, failed, refused, up, op, arg, nxt, view, ok, out,
                   ops, faults, ghosts>>
-----------------------------------------------------------------------------
(***************************************************************************)
(* Writes: insert and remove.                                              *)
(***************************************************************************)

\* insert refuses a wire encode cannot code, before it touches a stripe; the
\* caller is told nothing until its next sync.
RefuseInsert(t, w) ==
    /\ w \in Uncodable
    /\ up /\ pc[t] = "idle"
    /\ ops < MaxOps /\ ops' = ops + 1
    /\ refused' = TRUE
    /\ missed' = missed \cup {w}
    /\ UNCHANGED <<mem, disk, failed, lock, up, threads, faults, legal, hist,
                   damaged, rotten, seen, hurt, owed>>

BeginInsert(t, w) == w \notin Uncodable /\ Begin(t, "insert", w, "lock", TRUE)
BeginRemove(t)    == Begin(t, "remove", None, "lock", TRUE)

\* Mutant: a write does not wait for the one in progress.
LockWriteNow(t) ==
    /\ pc[t] = "lock"
    /\ lock' = t
    /\ Goto(t, "write")
    /\ legal' = legal \cup {arg[t]}
    /\ hist' = hist \cup {arg[t]}
    /\ seen' = [u \in Thread |-> IF u \in Busy THEN seen[u] \cup legal' ELSE {}]
    /\ UNCHANGED <<mem, disk, failed, refused, up, op, arg, nxt, view, ok, out,
                   ops, faults, damaged, rotten, hurt, missed, owed>>

\* From here on the packet may turn out to be the new one.
LockWrite(t) ==
    /\ pc[t] = "lock" /\ lock = Nobody
    /\ lock' = t
    /\ Goto(t, "write")
    /\ legal' = legal \cup {arg[t]}
    /\ hist' = hist \cup {arg[t]}
    /\ seen' = [u \in Thread |-> IF u \in Busy THEN seen[u] \cup legal' ELSE {}]
    /\ UNCHANGED <<mem, disk, failed, refused, up, op, arg, nxt, view, ok, out,
                   ops, faults, damaged, rotten, hurt, missed, owed>>

WriteStripe(t) ==
    /\ pc[t] = "write" /\ nxt[t] <= N
    /\ Put(nxt[t], arg[t])
    /\ Advance(t)
    /\ UNCHANGED <<failed, refused, lock, up, pc, op, arg, view, ok, out, ops,
                   faults, legal, hist, rotten, seen, hurt, missed, owed>>

\* Mutant: a write returns with the mutex held.
FinishWriteLocked(t) ==
    /\ pc[t] = "write" /\ nxt[t] > N
    /\ Goto(t, "done")
    /\ legal' = IF ok[t] THEN {arg[t]} ELSE legal
    /\ UNCHANGED <<mem, disk, failed, refused, lock, up, op, arg, nxt, view,
                   ok, out, ops, faults, hist, damaged, rotten, seen, hurt,
                   missed, owed>>

\* Mutant: a write that goes well makes up for one that was refused.
FinishWriteForgiven(t) ==
    /\ pc[t] = "write" /\ nxt[t] > N
    /\ lock' = Nobody
    /\ Goto(t, "done")
    /\ legal' = IF ok[t] THEN {arg[t]} ELSE legal
    /\ refused' = (refused /\ ~ ok[t])
    /\ UNCHANGED <<mem, disk, failed, up, op, arg, nxt, view, ok, out, ops,
                   faults, hist, damaged, rotten, seen, hurt, missed, owed>>

\* The write returns, and is done unless a stripe failed it.
FinishWrite(t) ==
    /\ pc[t] = "write" /\ nxt[t] > N
    /\ lock' = Nobody
    /\ Goto(t, "done")
    /\ legal' = IF ok[t] THEN {arg[t]} ELSE legal
    /\ UNCHANGED <<mem, disk, failed, refused, up, op, arg, nxt, view, ok, out,
                   ops, faults, hist, damaged, rotten, seen, hurt, missed,
                   owed>>
-----------------------------------------------------------------------------
(***************************************************************************)
(* Sync: every stripe in turn, without the lock.                           *)
(***************************************************************************)

BeginSync(t) == Begin(t, "sync", None, "sync", ~refused)

\* Mutant: a failed write is reported by one sync only.
SyncStripeOnce(t) ==
    /\ pc[t] = "sync" /\ nxt[t] <= N
    /\ LET i == nxt[t] IN
       IF failed[i]
       THEN /\ ok' = [ok EXCEPT ![t] = FALSE]
            /\ failed' = [failed EXCEPT ![i] = FALSE]
            /\ UNCHANGED <<disk, rotten>>
       ELSE /\ disk' = [disk EXCEPT ![i] = {mem[i]}]
            /\ rotten' = IF i \in damaged THEN rotten ELSE rotten \ {i}
            /\ UNCHANGED <<ok, failed>>
    /\ Advance(t)
    /\ UNCHANGED <<mem, refused, lock, up, pc, op, arg, view, out, ops, faults,
                   legal, hist, damaged, seen, hurt, missed, owed>>

SyncStripe(t) ==
    /\ pc[t] = "sync" /\ nxt[t] <= N
    /\ LET i == nxt[t] IN
       IF failed[i]
       THEN /\ ok' = [ok EXCEPT ![t] = FALSE]
            /\ UNCHANGED <<disk, rotten>>
       ELSE /\ disk' = [disk EXCEPT ![i] = {mem[i]}]
            /\ rotten' = IF i \in damaged THEN rotten ELSE rotten \ {i}
            /\ UNCHANGED ok
    /\ Advance(t)
    /\ UNCHANGED <<mem, failed, refused, lock, up, pc, op, arg, view, out, ops,
                   faults, legal, hist, damaged, seen, hurt, missed, owed>>

\* Mutant: a stripe's fsync error is dropped.
SyncStripeLost(t) ==
    /\ pc[t] = "sync" /\ nxt[t] <= N
    /\ Fault(1)
    /\ Advance(t)
    /\ UNCHANGED <<store, pc, op, arg, view, ok, out, ops, ghosts>>

\* Mutant: the loop has one stripe too many.
SyncStripeBeyond(t) ==
    /\ pc[t] = "sync" /\ nxt[t] <= N + 1
    /\ Fault(1)
    /\ ok' = [ok EXCEPT ![t] = FALSE]
    /\ Advance(t)
    /\ UNCHANGED <<store, pc, op, arg, view, out, ops, ghosts>>

\* The fsync itself fails.
SyncStripeFails(t) ==
    /\ pc[t] = "sync" /\ nxt[t] <= N
    /\ Fault(1)
    /\ ok' = [ok EXCEPT ![t] = FALSE]
    /\ Advance(t)
    /\ UNCHANGED <<store, pc, op, arg, view, out, ops, ghosts>>

\* An Ok promises every packet written before the sync began.
FinishSync(t) ==
    /\ pc[t] = "sync" /\ nxt[t] > N
    /\ out' = [out EXCEPT ![t] = ok[t]]
    /\ hist' = IF ok[t] THEN hist \cap seen[t] ELSE hist
    /\ Goto(t, "done")
    /\ UNCHANGED <<store, op, arg, nxt, view, ok, ops, faults, legal, damaged,
                   rotten, seen, hurt, missed, owed>>
-----------------------------------------------------------------------------
\* The operation returns to its caller.
Return(t) ==
    /\ pc[t] = "done"
    /\ Goto(t, "idle")
    /\ op' = [op EXCEPT ![t] = "none"]
    /\ arg' = [arg EXCEPT ![t] = None]
    /\ nxt' = [nxt EXCEPT ![t] = 1]
    /\ view' = [view EXCEPT ![t] = NoView]
    /\ ok' = [ok EXCEPT ![t] = TRUE]
    /\ out' = [out EXCEPT ![t] = None]
    /\ seen' = [seen EXCEPT ![t] = {}]
    /\ hurt' = [hurt EXCEPT ![t] = {}]
    /\ owed' = [owed EXCEPT ![t] = {}]
    /\ UNCHANGED <<store, ops, faults, legal, hist, damaged, rotten, missed>>
-----------------------------------------------------------------------------
(***************************************************************************)
(* What befalls the holder.                                                *)
(***************************************************************************)

\* The process is gone, with every operation in it, its mutex and its flags.
Stop ==
    /\ up' = FALSE
    /\ lock' = Nobody
    /\ failed' = [i \in Stripe |-> FALSE]
    /\ refused' = FALSE
    /\ pc' = [t \in Thread |-> "idle"]
    /\ op' = [t \in Thread |-> "none"]
    /\ arg' = [t \in Thread |-> None]
    /\ nxt' = [t \in Thread |-> 1]
    /\ view' = [t \in Thread |-> NoView]
    /\ ok' = [t \in Thread |-> TRUE]
    /\ out' = [t \in Thread |-> None]
    /\ seen' = [t \in Thread |-> {}]
    /\ hurt' = [t \in Thread |-> {}]
    /\ missed' = {}
    /\ owed' = [t \in Thread |-> {}]
    /\ UNCHANGED ops

\* kill -9: every write that returned is kept.
Kill ==
    /\ up /\ Fault(1)
    /\ Stop
    /\ UNCHANGED <<mem, disk, legal, hist, damaged, rotten>>

\* Power is lost: each stripe keeps a prefix of its writes that reaches at
\* least to its last sync.
PowerLoss ==
    /\ Fault(1)
    /\ Stop
    /\ mem' \in {m \in [Stripe -> Cell] : \A i \in Stripe : m[i] \in disk[i]}
    /\ disk' = [i \in Stripe |-> {mem'[i]}]
    /\ legal' = hist
    /\ damaged' = {i \in rotten : mem'[i] \notin hist}
    /\ UNCHANGED <<hist, rotten>>

\* A stripe's directory is deleted, or its disk replaced by an empty one,
\* while the holder is down.
LoseStripe(i) ==
    /\ ~up /\ Fault(1)
    /\ mem[i] # None
    /\ mem' = [mem EXCEPT ![i] = None]
    /\ disk' = [disk EXCEPT ![i] = {None}]
    /\ damaged' = damaged \cup {i}
    /\ rotten' = rotten \cup {i}
    /\ UNCHANGED <<failed, refused, lock, up, threads, ops, legal, hist, seen,
                   hurt, missed, owed>>

\* A shard's record rots, in its shard or in the wire digest of its header.
BitRot(i) ==
    /\ mem[i] \in Wire /\ Fault(1)
    /\ \E c \in {Bad, BadHead} :
         /\ mem' = [mem EXCEPT ![i] = c]
         /\ disk' = [disk EXCEPT ![i] = (@ \ {mem[i]}) \cup {c}]
    /\ damaged' = damaged \cup {i}
    /\ rotten' = rotten \cup {i}
    /\ hurt' = [t \in Thread |-> IF t \in Busy THEN hurt[t] \cup {i} ELSE {}]
    /\ ok' = [t \in Thread |-> ok[t] /\ op[t] # "get"]
    /\ UNCHANGED <<failed, refused, lock, up, pc, op, arg, nxt, view, out, ops,
                   legal, hist, seen, missed, owed>>

\* ErasureStore::open on what is on the disks.
Open ==
    /\ ~up /\ up' = TRUE
    /\ UNCHANGED <<mem, disk, failed, refused, lock, threads, ops, faults, ghosts>>
-----------------------------------------------------------------------------
\* A step of the code within an operation, one that is none of a fault's.
Proceed(t) ==
    \/ ReadStripe(t) \/ JudgeGet(t) \/ JudgeContains(t)
    \/ Rejudge(t) \/ MendStripe(t) \/ FinishMend(t)
    \/ LockWrite(t) \/ WriteStripe(t) \/ FinishWrite(t)
    \/ SyncStripe(t) \/ FinishSync(t)
    \/ Return(t)

Call(t) ==
    \/ BeginGet(t) \/ BeginContains(t) \/ BeginRemove(t) \/ BeginSync(t)
    \/ \E w \in Wire : BeginInsert(t, w) \/ RefuseInsert(t, w)

BackendFails(t) == ReadStripeFails(t) \/ WriteStripeFails(t) \/ SyncStripeFails(t)

Befall == Kill \/ PowerLoss \/ \E i \in Stripe : LoseStripe(i) \/ BitRot(i)

Next ==
    \/ \E t \in Thread : Proceed(t) \/ Call(t) \/ BackendFails(t)
    \/ Befall
    \/ Open

Spec == Init /\ [][Next]_vars

\* A thread that is scheduled goes on; a started holder is started again.  No
\* caller need call, and no fault need happen.
Fairness == WF_vars(Open) /\ \A t \in Thread : WF_vars(Proceed(t))

FairSpec == Spec /\ Fairness
-----------------------------------------------------------------------------
(***************************************************************************)
(* Properties.                                                             *)
(***************************************************************************)

\* Every variable keeps its type (the fields of ErasureStore, the locals of
\* its methods).
TypeOK ==
    /\ mem \in [Stripe -> Cell]
    /\ disk \in [Stripe -> SUBSET Cell]
    /\ failed \in [Stripe -> BOOLEAN]
    /\ refused \in BOOLEAN
    /\ lock \in Thread \cup {Nobody}
    /\ up \in BOOLEAN
    /\ pc \in [Thread -> Label]
    /\ op \in [Thread -> Op]
    /\ arg \in [Thread -> Packet]
    /\ nxt \in [Thread -> 1..N+1]
    /\ view \in [Thread -> [Stripe -> Cell]]
    /\ ok \in [Thread -> BOOLEAN]
    /\ out \in [Thread -> Packet \cup BOOLEAN]
    /\ ops \in Nat /\ faults \in Nat
    /\ legal \in SUBSET Packet /\ hist \in SUBSET Packet
    /\ damaged \in SUBSET Stripe /\ rotten \in SUBSET Stripe
    /\ seen \in [Thread -> SUBSET Packet]
    /\ hurt \in [Thread -> SUBSET Stripe]
    /\ missed \in SUBSET Packet /\ owed \in [Thread -> SUBSET Packet]

Finished(t, o) == pc[t] = "done" /\ op[t] = o

\* No stripe holds a shard of a packet that a completed insert replaced or a
\* completed remove deleted, and one not spoilt holds a rightful record: what
\* the `writes' mutex is for (a repair racing an insert never writes back).
NoStaleShard ==
    \A i \in Stripe :
        /\ mem[i] \in legal \cup {None, Bad, BadHead}
        /\ i \notin damaged => mem[i] \in legal

\* A get that returns a packet returns one the store rightly held at some
\* time during the get, however the lock-free reads and the writers interleave.
HitIsRegular ==
    \A t \in Thread : Finished(t, "get") /\ out[t] # None => out[t] \in seen[t]

\* The module's promise: with a packet stored and up to N - K stripes lost or
\* rotten, any K shards rebuild it.
AnyKRebuild ==
    \A w \in Wire :
        legal = {w} /\ Cardinality(damaged) <= N - K => Assemble(mem) = w

\* An overwrite cut short (by a kill, a power loss, a failed stripe) leaves the
\* old or the new packet readable when 2K - 1 stripes are sound; with N < 2K - 1
\* both can be lost.
OneOverwriteKeepsOne ==
    /\ K > 1
    /\ legal \subseteq Wire /\ Cardinality(legal) <= 2
    /\ N - Cardinality(damaged) >= 2 * K - 1
    => Assemble(mem) \in legal

\* A get finds the packet while up to N - K stripes are spoilt or unreadable if
\* no write overlaps it, and one of two packets while an overwrite does.
GetHits ==
    \A t \in Thread : Finished(t, "get") /\ K > 1 /\ seen[t] \subseteq Wire =>
        /\ Cardinality(seen[t]) = 1 /\ Cardinality(hurt[t]) <= N - K
             => out[t] \in seen[t]
        /\ Cardinality(seen[t]) = 2 /\ N - Cardinality(hurt[t]) >= 2 * K - 1
             => out[t] \in seen[t]

\* A get that met no fault leaves every stripe with a good shard of the packet
\* it returns: reads repair.
ReadHeals ==
    \A t \in Thread :
        Finished(t, "get") /\ ok[t] /\ out[t] # None /\ seen[t] = {out[t]}
            => damaged = {}

\* contains, with no write overlapping it: a stored packet is there while N - K
\* stripes are spoilt, an absent one is not while fewer than K are.
ContainsRegular ==
    \A t \in Thread : Finished(t, "contains") =>
        /\ \A w \in Wire : seen[t] = {w} /\ Cardinality(hurt[t]) <= N - K => out[t]
        /\ seen[t] = {None} /\ Cardinality(hurt[t]) < K => ~out[t]

\* sync (held.rs 470-472): since the store was opened no insert was refused and no
\* stripe lost a write before a sync that returns Ok began, whatever was written
\* well since and whatever syncs have reported it already.
SyncHonest ==
    \A t \in Thread : Finished(t, "sync") /\ out[t] = TRUE => owed[t] = {}

\* What an Ok sync covered, and nothing has been written over since, outlives a
\* power loss, whatever each stripe keeps of its unsynced writes.
SyncedSurvives ==
    \A w \in Wire : hist = {w} /\ K > 1 /\ Cardinality(rotten) <= N - K =>
        \A m \in {c \in [Stripe -> Cell] : \A i \in Stripe : c[i] \in disk[i]} :
            Assemble(m) = w

\* contains answers for "the shards get would rebuild it from": with no shard
\* spoilt and no operation under way, it says there is a packet exactly when
\* get returns one.
ContainsAgreesWithGet ==
    up /\ Busy = {} /\ damaged = {} => (Contains(mem) <=> Assemble(mem) # None)

\* What the stripes rebuild moves only with a write, and to the write's own packet:
\* a repair that met no fault never changes it, and an overwrite changes it once.
FoundMovesOn ==
    [][\A t \in Thread :
         /\ MendStripe(t) /\ ok[t] => Assemble(mem') = Assemble(mem)
         /\ /\ WriteStripe(t)
            /\ K > 1 /\ Cardinality(legal) <= 2
            /\ None \in legal \/ N - Cardinality(damaged) >= 2 * K - 1
            => Assemble(mem') \in {Assemble(mem), arg[t]}]_vars

\* Every call returns, unless the process goes down first.
Returns == \A t \in Thread : pc[t] # "idle" ~> pc[t] = "idle"
=============================================================================
