---------------------------- MODULE HonestVector ----------------------------
(***************************************************************************)
(* What a group member promises the others by the vector it advertises     *)
(* (ndn-repo/src/ingest.rs 20-41).  In two-phase mode an entry q for a     *)
(* publisher says that the member holds that publisher's first q           *)
(* publications; in eager mode it says only that it has heard of them.     *)
(* Either way nothing rejected is stored but what was pushed, and no entry *)
(* goes back while the member runs.                                        *)
(*                                                                         *)
(* How updates are queued, fetched and acknowledged is left to Ingest,     *)
(* which implements this specification.                                    *)
(***************************************************************************)
EXTENDS Integers

CONSTANTS
    Publisher,     \* the group's publishers
    Publications,  \* the publications <<p, q>> they make: the q-th of p
    Bad,           \* those the ingest validator rejects
    Member         \* the repo's instances in the group, one after the other

VARIABLES
    mode,       \* "eager" or "two-phase", for good
    store,      \* the publications <<p, q>> the repo holds
    vec,        \* vec[i][p]: the entry of instance i for p
    running,    \* the instances that advertise their vector
    pushed      \* the rejected publications that a push has stored

vars == <<mode, store, vec, running, pushed>>

\* The first q publications of p.
UpTo(p, q) == {p} \X (1..q)

Init ==
    /\ mode \in {"eager", "two-phase"}
    /\ store = {}
    /\ vec = [i \in Member |-> [p \in Publisher |-> 0]]
    /\ running = {}
    /\ pushed = {}

\* An instance that never ran joins: it has heard of nothing.
Start(i) ==
    /\ i \notin running
    /\ \A p \in Publisher : vec[i][p] = 0
    /\ running' = running \cup {i}
    /\ UNCHANGED <<mode, store, vec, pushed>>

Stop(i) ==
    /\ running' = running \ {i}
    /\ UNCHANGED <<mode, store, vec, pushed>>

\* The process goes down, and may take with it what no sync had made durable.
Down ==
    /\ running' = {}
    /\ store' \subseteq store
    /\ UNCHANGED <<mode, vec, pushed>>

Store(x) ==
    /\ x \notin Bad
    /\ store' = store \cup {x}
    /\ UNCHANGED <<mode, vec, running, pushed>>

\* What is pushed is stored, rejected or not.
Push(x) ==
    /\ store' = store \cup {x}
    /\ pushed' = pushed \cup ({x} \cap Bad)
    /\ UNCHANGED <<mode, vec, running>>

Advance(i, p, q) ==
    /\ i \in running
    /\ vec[i][p] < q
    /\ mode = "two-phase" => UpTo(p, q) \subseteq store
    /\ vec' = [vec EXCEPT ![i][p] = q]
    /\ UNCHANGED <<mode, store, running, pushed>>

Next ==
    \/ \E i \in Member : Start(i) \/ Stop(i)
    \/ Down
    \/ \E x \in Publications : Store(x) \/ Push(x)
    \/ \E i \in Member, x \in Publications : Advance(i, x[1], x[2])

Spec == Init /\ [][Next]_vars
-----------------------------------------------------------------------------
\* ingest.rs 32-38: in two-phase mode a running member holds every publication
\* its vector counts.
Honest ==
    mode = "two-phase" =>
        \A i \in running, p \in Publisher : UpTo(p, vec[i][p]) \subseteq store
=============================================================================
