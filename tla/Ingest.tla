------------------------------- MODULE Ingest -------------------------------
(***************************************************************************)
(* The durable ingestion of one group (ndn-repo/src/ingest.rs), eager or   *)
(* two-phase: the loop takes the updates of its instance of the sync       *)
(* protocol (a library) one at a time, fetches each publication the update *)
(* counts and, in two-phase mode, acknowledges those the store has and     *)
(* breaks at the first it lacks.                                           *)
(*                                                                         *)
(* Beside the loop, the library goes on hearing the peers' vectors and     *)
(* queuing updates, and the group may be left and joined again: the new    *)
(* instance has an empty vector over the store of the old one, whose loop  *)
(* may still be at its last update.  BlobFetch puts publications into the  *)
(* same store: those fetched by name pass the ingest validator, those      *)
(* pushed inline do not.  A publication is one Data packet.                *)
(***************************************************************************)
EXTENDS Integers, Sequences, FiniteSets

CONSTANTS
    Publisher,  \* the group's publishers
    Last,       \* Last[p]: bound: the publications p makes; a peer's vector may
                \* already count any number of them
    Bad,        \* the publications <<p, q>> the ingest validator rejects
    MaxJoins,   \* bound: times the group is joined
    MaxFails,   \* bound: fetches that fail
    MaxQueue    \* bound: updates that wait for a loop

ASSUME IngestAssumption ==
    /\ Last \in [Publisher -> Nat]
    /\ MaxJoins \in Nat /\ MaxFails \in Nat /\ MaxQueue \in Nat \ {0}

Member == 1..MaxJoins

Publications == UNION {{p} \X (1..Last[p]) : p \in Publisher}

\* A SyncUpdate, and the publication of it the loop is at.
Updates == [pub : Publisher, low : Nat, high : Nat]

VARIABLES
    mode,       \* the repo's configuration: "eager" or "two-phase"
    store,      \* the repo's store
    made,       \* the instances made so far are 1..made
    cancelled,  \* those whose token is cancelled
    vec,        \* vec[i]: the state vector of instance i
    queue,      \* queue[i]: the updates the loop of i has yet to take
    at,         \* at[i]: where that loop is
    job,        \* job[i]: the rest of the update it is at
    fails

\* History.
VARIABLES
    failed,     \* failed[i]: the publications whose fetch for i failed
    pushed      \* the publications a push stored that the validator rejects

vars == <<mode, store, made, cancelled, vec, queue, at, job, fails, failed,
          pushed>>

Running == {i \in 1..made : at[i] # "ended"}

Zero == [p \in Publisher |-> 0]

NoJob == [pub |-> CHOOSE p \in Publisher : TRUE, low |-> 1, high |-> 0]

Init ==
    /\ mode \in {"eager", "two-phase"}
    /\ store = {}
    /\ made = 0 /\ cancelled = {}
    /\ vec = [i \in Member |-> Zero]
    /\ queue = [i \in Member |-> <<>>]
    /\ at = [i \in Member |-> "idle"]
    /\ job = [i \in Member |-> NoJob]
    /\ fails = 0 /\ failed = [i \in Member |-> {}] /\ pushed = {}
-----------------------------------------------------------------------------
(***************************************************************************)
(* The loop.                                                               *)
(***************************************************************************)

Goto(i, l) == at' = [at EXCEPT ![i] = l]

\* An update is taken; a token cancelled at the same time may wait its turn.
Take(i) ==
    /\ i \in Running /\ at[i] = "idle" /\ queue[i] # <<>>
    /\ job' = [job EXCEPT ![i] = Head(queue[i])]
    /\ queue' = [queue EXCEPT ![i] = Tail(@)]
    /\ Goto(i, "fetch")
    /\ UNCHANGED <<mode, store, made, cancelled, vec, fails, failed, pushed>>

\* The token is looked at between two updates only.
Ends(i) ==
    /\ i \in Running /\ at[i] = "idle" /\ i \in cancelled
    /\ Goto(i, "ended")
    /\ queue' = [queue EXCEPT ![i] = <<>>]
    /\ UNCHANGED <<mode, store, made, cancelled, vec, job, fails, failed, pushed>>

\* The publication the loop of i is at.
Current(i) == <<job[i].pub, job[i].low>>

\* The rest of the update is dropped.
Break(i) ==
    /\ Goto(i, "idle")
    /\ job' = [job EXCEPT ![i] = NoJob]

\* Mutant: the loop runs past the end of its update.
ForwardPast(i) ==
    IF job[i].low <= job[i].high
    THEN Goto(i, "fetch") /\ job' = [job EXCEPT ![i].low = @ + 1]
    ELSE Break(i)

\* The loop goes on to the next publication of its update, if there is one.
Forward(i) ==
    IF job[i].low < job[i].high
    THEN Goto(i, "fetch") /\ job' = [job EXCEPT ![i].low = @ + 1]
    ELSE Break(i)

\* Eager: on to the next publication, fetched or not.
\* Two-phase: the store is asked for the publication next.
AfterFetch(i) ==
    IF mode = "eager" THEN Forward(i)
    ELSE Goto(i, "check") /\ UNCHANGED job

\* Mutant: the validator is not asked.
FetchedUnasked(i) ==
    /\ at[i] = "fetch"
    /\ Current(i) \notin store
    /\ store' = store \cup {Current(i)}
    /\ AfterFetch(i)
    /\ UNCHANGED <<mode, made, cancelled, vec, queue, fails, failed, pushed>>

\* ingest_publication: what is new and valid is stored.
Fetched(i) ==
    /\ at[i] = "fetch"
    /\ Current(i) \notin Bad \cup store
    /\ store' = store \cup {Current(i)}
    /\ AfterFetch(i)
    /\ UNCHANGED <<mode, made, cancelled, vec, queue, fails, failed, pushed>>

\* Mutant: an answer of 0 is taken for a hole, the store not asked.
FetchedNothingBreaks(i) ==
    /\ at[i] = "fetch"
    /\ Current(i) \in Bad \cup store
    /\ IF mode = "eager" THEN AfterFetch(i) ELSE Break(i)
    /\ UNCHANGED <<mode, store, made, cancelled, vec, queue, fails, failed,
                   pushed>>

\* It answers 0 of what is stored already, and of what is rejected.
FetchedNothing(i) ==
    /\ at[i] = "fetch"
    /\ Current(i) \in Bad \cup store
    /\ AfterFetch(i)
    /\ UNCHANGED <<mode, store, made, cancelled, vec, queue, fails, failed,
                   pushed>>

\* Mutant: a failed fetch ends the update in either mode.
FetchFailsBreaks(i) ==
    /\ at[i] = "fetch"
    /\ Current(i) \notin store
    /\ fails < MaxFails /\ fails' = fails + 1
    /\ failed' = [failed EXCEPT ![i] = @ \cup {Current(i)}]
    /\ Break(i)
    /\ UNCHANGED <<mode, store, made, cancelled, vec, queue, pushed>>

\* And of what nobody gave it in time.
FetchFails(i) ==
    /\ at[i] = "fetch"
    /\ Current(i) \notin store
    /\ fails < MaxFails /\ fails' = fails + 1
    /\ failed' = [failed EXCEPT ![i] = @ \cup {Current(i)}]
    /\ AfterFetch(i)
    /\ UNCHANGED <<mode, store, made, cancelled, vec, queue, pushed>>

\* Mutant: a hole does not stop the loop.
CheckPast(i) ==
    /\ at[i] = "check"
    /\ IF Current(i) \in store THEN Goto(i, "ack") /\ UNCHANGED job
       ELSE Forward(i)
    /\ UNCHANGED <<mode, store, made, cancelled, vec, queue, fails, failed,
                   pushed>>

\* A publication in the store will be acknowledged; at a hole the rest of the
\* update is dropped.
Check(i) ==
    /\ at[i] = "check"
    /\ IF Current(i) \in store THEN Goto(i, "ack") /\ UNCHANGED job
       ELSE Break(i)
    /\ UNCHANGED <<mode, store, made, cancelled, vec, queue, fails, failed,
                   pushed>>

\* Mutant: the whole update is acknowledged with its first publication.
AckHigh(i) ==
    /\ at[i] = "ack"
    /\ vec' = [vec EXCEPT ![i][job[i].pub] = job[i].high]
    /\ Forward(i)
    /\ UNCHANGED <<mode, store, made, cancelled, queue, fails, failed, pushed>>

\* The vector moves up to an acknowledged publication, never back.
Acked(v, q) == IF v < q THEN q ELSE v

Ack(i) ==
    /\ at[i] = "ack"
    /\ vec' = [vec EXCEPT ![i][job[i].pub] = Acked(@, job[i].low)]
    /\ Forward(i)
    /\ UNCHANGED <<mode, store, made, cancelled, queue, fails, failed, pushed>>

Loop(i) ==
    \/ Take(i) \/ Ends(i)
    \/ Fetched(i) \/ FetchedNothing(i) \/ FetchFails(i)
    \/ Check(i) \/ Ack(i)
-----------------------------------------------------------------------------
(***************************************************************************)
(* What goes on beside it.                                                 *)
(***************************************************************************)

\* start_group: an instance with an empty vector, once there is none.
Join ==
    /\ made < MaxJoins /\ 1..made \subseteq cancelled
    /\ made' = made + 1
    /\ UNCHANGED <<mode, store, cancelled, vec, queue, at, job,
                   fails, failed, pushed>>

\* stop_group: the token is cancelled, the loop goes on to the next update.
Leave ==
    /\ ~ (1..made \subseteq cancelled)
    /\ cancelled' = 1..made
    /\ UNCHANGED <<mode, store, made, vec, queue, at, job, fails, failed,
                   pushed>>

\* The process goes down; a power loss may take any of what is not durable.
Restart ==
    /\ Running # {}
    /\ at' = [i \in Member |-> IF i <= made THEN "ended" ELSE at[i]]
    /\ queue' = [i \in Member |-> <<>>]
    /\ job' = [i \in Member |-> NoJob]
    /\ cancelled' = 1..made
    /\ store' \in SUBSET store
    /\ UNCHANGED <<mode, made, vec, fails, failed, pushed>>

\* A BlobFetch by name stores what the network answers, if it is valid.
FetchedByName(p, q) ==
    /\ <<p, q>> \notin Bad \cup store
    /\ store' = store \cup {<<p, q>>}
    /\ UNCHANGED <<mode, made, cancelled, vec, queue, at, job, fails, failed,
                   pushed>>

\* A Data packet pushed in a BlobFetch is stored without asking the validator.
Push(p, q) ==
    /\ store' = store \cup {<<p, q>>}
    /\ pushed' = pushed \cup ({<<p, q>>} \cap Bad)
    /\ UNCHANGED <<mode, made, cancelled, vec, queue, at, job, fails, failed>>

\* The library merges an entry of a peer's vector, possibly an old one, and
\* queues an update for the gap.  With auto_ack the vector moves at once.
Hear(i, p, h) ==
    /\ i \in Running /\ vec[i][p] < h
    /\ Len(queue[i]) < MaxQueue
    /\ queue' = [queue EXCEPT ![i] =
                   Append(@, [pub |-> p, low |-> vec[i][p] + 1, high |-> h])]
    /\ vec' = IF mode = "eager" THEN [vec EXCEPT ![i][p] = h] ELSE vec
    /\ UNCHANGED <<mode, store, made, cancelled, at, job, fails, failed,
                   pushed>>

Environment ==
    \/ Join \/ Leave \/ Restart
    \/ \E x \in Publications : FetchedByName(x[1], x[2]) \/ Push(x[1], x[2])
    \/ \E i \in Member, x \in Publications : Hear(i, x[1], x[2])

Next == Environment \/ \E i \in Member : Loop(i)

Spec == Init /\ [][Next]_vars

\* The loop runs.  The peers send their vectors again and again, and the
\* newest of them finds room among the updates some time.
Fairness ==
    /\ \A i \in Member : WF_vars(Loop(i))
    /\ \A i \in Member, p \in Publisher : SF_vars(Hear(i, p, Last[p]))

FairSpec == Spec /\ Fairness
-----------------------------------------------------------------------------
(***************************************************************************)
(* Properties.                                                             *)
(***************************************************************************)

\* Every variable keeps its type.
TypeOK ==
    /\ mode \in {"eager", "two-phase"}
    /\ store \subseteq Publications /\ pushed \subseteq Publications
    /\ made \in 0..MaxJoins /\ cancelled \subseteq 1..made
    /\ vec \in [Member -> [Publisher -> Nat]]
    /\ queue \in [Member -> Seq(Updates)]
    /\ at \in [Member -> {"idle", "fetch", "check", "ack", "ended"}]
    /\ job \in [Member -> Updates \cup {NoJob}]
    /\ fails \in Nat /\ failed \in [Member -> SUBSET Publications]

H == INSTANCE HonestVector WITH running <- Running

\* ingest.rs 33-41: the loop keeps what the vector promises, whatever is
\* queued, fails, is rejected, or is stored by another loop or request: it
\* stores nothing rejected itself, and counts only what is stored.
KeepsPromise == H!Spec

\* ingest.rs 32-38: two-phase, a running instance has in the store every
\* publication its vector counts: no acknowledgement passes a hole.
Honest == H!Honest

\* The publications of p before the first that is rejected and was not pushed.
Good(p) == {q \in 1..Last[p] : \A r \in 1..q : <<p, r>> \notin Bad \ store}

\* ingest.rs 33-40, 57-62: two-phase, the open gap of a failed fetch is filled
\* in the end and what the store had is acknowledged, so that the vector of a
\* group that stays joined stops right before the first rejected publication
\* that the store does not have from a push.
Converges ==
    <>[](mode = "two-phase" /\ 1..made \ cancelled # {} =>
           \A p \in Publisher : 1..vec[made][p] = Good(p))

\* ingest.rs 28-31: eager, a hole does not stop the loop: every publication is
\* stored in the end but those rejected and those whose fetch failed.
StoresAllButFailed ==
    <>[](mode = "eager" /\ 1..made \ cancelled # {} =>
           \A p \in Publisher : \A q \in 1..Last[p] :
             <<p, q>> \in Bad \cup failed[made] \cup store)
=============================================================================
