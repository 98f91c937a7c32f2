---------------------------- MODULE RepoService ----------------------------
(***************************************************************************)
(* RepoService (service.rs) over a Repo (repo.rs): the one loop that takes *)
(* what the forwarder sends and what the control channel says, the groups  *)
(* it runs, and the bounded channels between them.                         *)
(*                                                                         *)
(* The groups exist twice: in the Repo, where commands put them, and in    *)
(* the service, which runs an instance of the sync protocol and an ingest  *)
(* task for each.  The loop handles one message at a time and awaits room  *)
(* in three channels; what its instances fetch comes back through it.      *)
(***************************************************************************)
EXTENDS Naturals, Sequences, FiniteSets

CONSTANTS
    Group,      \* group names
    Name,       \* names of data
    Prefixes,   \* Prefixes[n]: the groups whose name is a prefix of n
    Initial,    \* the groups joined at startup, in order
    MaxInputs,  \* bound: messages and controls that arrive
    InCap, CtlCap, OutCap, RegCap, NetCap   \* rooms of the channels

Command == [kind : {"join", "leave"}, of : Group]
             \cup [kind : {"fetch", "push"}, of : Name]
             \cup {[kind |-> "refused"]}
Packet  == [kind : {"interest", "sync", "data"}, of : Name]
Control == [kind : {"start", "stop"}, of : Group]

ASSUME ServiceAssumption ==
    /\ Prefixes \in [Name -> SUBSET Group]
    /\ Initial \in Seq(Group)
    /\ MaxInputs \in Nat
    /\ {InCap, CtlCap, OutCap, RegCap, NetCap} \subseteq Nat \ {0}

\* Instances are numbered as they are started, 0 is none; no run starts more.
MaxSvs == Len(Initial) + MaxInputs
Svs == 1..MaxSvs

\* A fetch of an instance, for its ingest task or for a BlobFetch: whether its
\* Interest is out, and whether the loop took the reply while the instance ran.
Fetch == [svs : Svs, name : Name, by : {"task", "blob"}, asked : BOOLEAN,
          heard : BOOLEAN]

VARIABLES
    inq,       \* recv: what the forwarder sent
    ctl,       \* control_rx
    out,       \* send: how many packets are on their way to the forwarder
    reg,       \* register_tx: how many prefixes wait to be registered
    netin,     \* netin[s]: net_in of instance s
    joined,    \* Repo's groups
    store,     \* names the store holds
    initial,   \* groups still to be joined at startup
    handle,    \* handle[g]: the instance the service runs for g
    made,      \* how many instances were started
    grp,       \* grp[s]: the group s was started for
    cancelled, \* instances whose token is cancelled
    task,      \* task[s]: the ingest task of s
    told,      \* told[s]: publications its updates still tell the task of
    fetch,     \* fetches under way
    stopping,  \* the service's own token is cancelled
    pc,        \* what the loop does or awaits
    job,       \* the message or control it handles
    to,        \* the instance it routes to
    inputs,    \* messages and controls so far
    outband,   \* history: groups started or stopped other than by command
    missed     \* history: a fetch timed out although its reply was taken

chans == <<inq, ctl, out, reg, netin>>
svs   == <<handle, made, grp, cancelled, task, told>>
ghosts == <<inputs, outband, missed>>
vars  == <<chans, svs, joined, store, initial, fetch, stopping, pc, job, to,
           ghosts>>

Nothing == [kind |-> "refused"]

TypeOK ==
    /\ inq \in Seq(Command \cup Packet) /\ Len(inq) <= InCap
    /\ ctl \in Seq(Control) /\ Len(ctl) <= CtlCap
    /\ out \in 0..OutCap /\ reg \in 0..RegCap
    /\ netin \in [Svs -> Seq(Packet)] /\ \A s \in Svs : Len(netin[s]) <= NetCap
    /\ joined \in SUBSET Group
    /\ store \in SUBSET Name
    /\ initial \in Seq(Group)
    /\ handle \in [Group -> 0..made]
    /\ made \in 0..MaxSvs
    /\ grp \in Seq(Group) /\ Len(grp) = made
    /\ cancelled \in SUBSET (1..made)
    /\ task \in [Svs -> {"unborn", "idle", "busy", "ended"}]
    /\ told \in [Svs -> SUBSET Name]
    /\ fetch \in SUBSET Fetch
    /\ stopping \in BOOLEAN
    /\ pc \in {"loop", "register", "route", "send", "ended"}
    /\ job \in Command \cup Packet \cup Control
    /\ to \in 0..made
    /\ inputs \in 0..MaxInputs
    /\ outband \in SUBSET Group
    /\ missed \in BOOLEAN

\* run has asked for its command prefix; nothing else has happened.
Init ==
    /\ inq = <<>> /\ ctl = <<>> /\ out = 0 /\ reg = 1
    /\ netin = [s \in Svs |-> <<>>]
    /\ joined = {} /\ store = {}
    /\ initial = Initial
    /\ handle = [g \in Group |-> 0]
    /\ made = 0 /\ grp = <<>>
    /\ cancelled = {} /\ fetch = {}
    /\ task = [s \in Svs |-> "unborn"]
    /\ told = [s \in Svs |-> {}]
    /\ stopping = FALSE
    /\ pc = "loop" /\ job = Nothing /\ to = 0
    /\ inputs = 0 /\ outband = {} /\ missed = FALSE

Running == {g \in Group : handle[g] # 0}

\* The loop goes on with what it has at hand, or back to its select.
Await(l, m) == pc' = l /\ job' = m
Turn        == pc' = "loop" /\ job' = Nothing
-----------------------------------------------------------------------------
(***************************************************************************)
(* Starting and stopping a group.                                          *)
(***************************************************************************)

\* start_group for message m: a running group is left alone, another waits for
\* room in the registration channel first.
Start(m, next) ==
    /\ IF m.of \notin Running THEN Await("register", m)
       ELSE IF next = "send" THEN Await("send", m) ELSE Turn
    /\ UNCHANGED svs

\* start_group, once the prefix is registered: an instance and its ingest task,
\* whose token is a child of the service's.
Register ==
    /\ pc = "register" /\ reg < RegCap
    /\ reg' = reg + 1
    /\ made' = made + 1
    /\ grp' = Append(grp, job.of)
    /\ handle' = [handle EXCEPT ![job.of] = made']
    /\ task' = [task EXCEPT ![made'] = "idle"]
    /\ cancelled' = IF stopping THEN cancelled \cup {made'} ELSE cancelled
    /\ IF job.kind = "join" THEN Await("send", job) ELSE Turn
    /\ UNCHANGED <<inq, ctl, out, netin, joined, store, initial, told, fetch,
                   stopping, to, ghosts>>

\* Mutant: the handle goes, its token is forgotten.
StopForgetting(g) ==
    /\ handle' = [handle EXCEPT ![g] = 0]
    /\ UNCHANGED <<made, grp, cancelled, task, told>>

\* stop_group.
Stop(g) ==
    /\ handle' = [handle EXCEPT ![g] = 0]
    /\ cancelled' = cancelled \cup ({handle[g]} \ {0})
    /\ UNCHANGED <<made, grp, task, told>>

AtLoop == pc = "loop" /\ initial = <<>>

\* Groups of the operator's configuration, before the first turn of the loop.
StartInitial ==
    /\ pc = "loop" /\ initial # <<>>
    /\ initial' = Tail(initial)
    /\ Start([kind |-> "start", of |-> Head(initial)], "loop")
    /\ outband' = outband \cup {Head(initial)}
    /\ UNCHANGED <<chans, joined, store, fetch, stopping, to, inputs, missed>>

TakeControl ==
    /\ AtLoop /\ ctl # <<>>
    /\ ctl' = Tail(ctl)
    /\ \/ Head(ctl).kind = "start" /\ Start(Head(ctl), "loop")
       \/ Head(ctl).kind = "stop" /\ Stop(Head(ctl).of) /\ Turn
    /\ outband' = outband \cup {Head(ctl).of}
    /\ UNCHANGED <<inq, out, reg, netin, joined, store, initial, fetch,
                   stopping, to, inputs, missed>>
-----------------------------------------------------------------------------
(***************************************************************************)
(* dispatch: commands.  Each ends in a reply, for which the loop awaits    *)
(* room in the outgoing channel.                                           *)
(***************************************************************************)

msg == Head(inq)

Take(kind) ==
    /\ AtLoop /\ inq # <<>> /\ msg.kind = kind
    /\ inq' = Tail(inq)
    /\ UNCHANGED <<ctl, out, reg, netin, initial, stopping, ghosts>>

TakeJoin ==
    /\ Take("join")
    /\ joined' = joined \cup {msg.of}
    /\ Start(msg, "send")
    /\ UNCHANGED <<store, fetch, to>>

\* Mutant: the Repo leaves, the service is not told.
TakeLeaveRepoOnly ==
    /\ Take("leave")
    /\ joined' = joined \ {msg.of}
    /\ Await("send", msg)
    /\ UNCHANGED <<svs, store, fetch, to>>

\* Leaving a group that no command joined is refused, even if the service runs
\* it.
TakeLeave ==
    /\ Take("leave")
    /\ joined' = joined \ {msg.of}
    /\ IF msg.of \in joined THEN Stop(msg.of) ELSE UNCHANGED svs
    /\ Await("send", msg)
    /\ UNCHANGED <<store, fetch, to>>

\* Mutant: any group that runs will do.
OwnersAny(n) == Running

\* The running groups a name is under; the code takes the first it meets in a
\* hash map, which may be any.
Owners(n) == Prefixes[n] \cap Running

\* drive_pending_fetches: the name just queued is handed to an instance, on a
\* task of its own, or dropped if it is under no running group.
TakeFetch ==
    /\ Take("fetch")
    /\ IF Owners(msg.of) = {} THEN UNCHANGED fetch
       ELSE \E g \in Owners(msg.of) :
              fetch' = fetch \cup {[svs |-> handle[g], name |-> msg.of,
                                    by |-> "blob", asked |-> FALSE,
                                    heard |-> FALSE]}
    /\ Await("send", msg)
    /\ UNCHANGED <<svs, joined, store, to>>

\* BlobFetch with the data inline.
TakePush ==
    /\ Take("push")
    /\ store' = store \cup {msg.of}
    /\ Await("send", msg)
    /\ UNCHANGED <<svs, joined, fetch, to>>

\* Another protocol, no group, a threshold too low: 400.  Nothing that parses to
\* store or fetch: 200.  Either way nothing changes.
TakeRefused ==
    /\ Take("refused")
    /\ Await("send", msg)
    /\ UNCHANGED <<svs, joined, store, fetch, to>>

\* Mutant: what a BlobFetch asked for is awaited before the reply is sent.
SendFetched ==
    /\ pc = "send" /\ out < OutCap
    /\ job.kind = "fetch" => \A f \in fetch : f.by = "task" \/ f.name # job.of
    /\ out' = out + 1
    /\ Turn
    /\ UNCHANGED <<inq, ctl, reg, netin, svs, joined, store, initial, fetch,
                   stopping, to, ghosts>>

\* The reply to a command, or a stored packet.
Send ==
    /\ pc = "send" /\ out < OutCap
    /\ out' = out + 1
    /\ Turn
    /\ UNCHANGED <<inq, ctl, reg, netin, svs, joined, store, initial, fetch,
                   stopping, to, ghosts>>
-----------------------------------------------------------------------------
(***************************************************************************)
(* dispatch: packets under a group.                                        *)
(***************************************************************************)

\* route_to_group: the loop awaits room in the instance's channel.
RouteTo(m) ==
    IF Owners(m.of) = {} THEN Turn /\ UNCHANGED to
    ELSE \E g \in Owners(m.of) : Await("route", m) /\ to' = handle[g]

\* A stored name is served; find_under and get answer alike for these names.
TakeInterest ==
    /\ Take("interest")
    /\ IF Owners(msg.of) # {} /\ msg.of \in store
       THEN Await("send", msg) /\ UNCHANGED to
       ELSE RouteTo(msg)
    /\ UNCHANGED <<svs, joined, store, fetch>>

TakeSync ==
    /\ Take("sync")
    /\ RouteTo(msg)
    /\ UNCHANGED <<svs, joined, store, fetch>>

TakeData ==
    /\ Take("data")
    /\ RouteTo(msg)
    /\ fetch' = {[f EXCEPT !.heard = @ \/ /\ f.asked /\ f.name = msg.of
                                          /\ handle[grp[f.svs]] = f.svs] :
                 f \in fetch}
    /\ UNCHANGED <<svs, joined, store>>

\* Mutant: the channel's room is not awaited.
RouteOver ==
    /\ pc = "route"
    /\ netin' = [netin EXCEPT ![to] = Append(@, job)]
    /\ Turn
    /\ to' = 0
    /\ UNCHANGED <<inq, ctl, out, reg, svs, joined, store, initial, fetch,
                   stopping, ghosts>>

Route ==
    /\ pc = "route" /\ Len(netin[to]) < NetCap
    /\ netin' = [netin EXCEPT ![to] = Append(@, job)]
    /\ Turn
    /\ to' = 0
    /\ UNCHANGED <<inq, ctl, out, reg, svs, joined, store, initial, fetch,
                   stopping, ghosts>>

Ends ==
    /\ pc' = "ended"
    /\ handle' = [g \in Group |-> 0]
    /\ cancelled' = cancelled \cup {handle[g] : g \in Running}
    /\ inq' = <<>> /\ ctl' = <<>>
    /\ UNCHANGED <<out, reg, netin, made, grp, task, told, joined, store,
                   initial, fetch, stopping, job, to, ghosts>>

\* Back at its select the loop sees that it is cancelled, or that the embedder
\* closed recv; it cancels what runs, and what still comes in is dropped.
EndCancelled == AtLoop /\ stopping /\ Ends
EndClosed    == AtLoop /\ inq = <<>> /\ Ends

Driver ==
    \/ StartInitial \/ TakeControl
    \/ TakeJoin \/ TakeLeave \/ TakeFetch \/ TakePush \/ TakeRefused
    \/ TakeInterest \/ TakeSync \/ TakeData
    \/ Register \/ Send \/ Route \/ EndCancelled
-----------------------------------------------------------------------------
(***************************************************************************)
(* An instance of the sync protocol (a library) and its ingest task.       *)
(***************************************************************************)

\* Something still refers to the instance.
Alive(s) ==
    /\ s <= made
    /\ \/ \E g \in Group : handle[g] = s
       \/ task[s] # "ended"
       \/ \E f \in fetch : f.svs = s

\* The fetches F end; the task goes back to its updates if one was its own.
EndFetches(F) ==
    /\ fetch' = fetch \ F
    /\ task' = [s \in Svs |-> IF \E f \in F : f.by = "task" /\ f.svs = s
                              THEN "idle" ELSE task[s]]

\* The ingest task takes an update and fetches the publication it tells of.
Update(s, n) ==
    /\ task[s] = "idle" /\ n \in told[s]
    /\ told' = [told EXCEPT ![s] = @ \ {n}]
    /\ task' = [task EXCEPT ![s] = "busy"]
    /\ fetch' = fetch \cup {[svs |-> s, name |-> n, by |-> "task",
                             asked |-> FALSE, heard |-> FALSE]}
    /\ UNCHANGED <<chans, handle, made, grp, cancelled, joined, store, initial,
                   stopping, pc, job, to, ghosts>>

\* Mutant: the task watches the service's token and not its own.
TaskEndsLate(s) ==
    /\ task[s] = "idle" /\ s \in cancelled /\ stopping
    /\ task' = [task EXCEPT ![s] = "ended"]
    /\ UNCHANGED <<chans, handle, made, grp, cancelled, told, joined, store,
                   initial, fetch, stopping, pc, job, to, ghosts>>

\* Between two updates, and only there, the task sees that it is cancelled.
TaskEnds(s) ==
    /\ task[s] = "idle" /\ s \in cancelled
    /\ task' = [task EXCEPT ![s] = "ended"]
    /\ UNCHANGED <<chans, handle, made, grp, cancelled, told, joined, store,
                   initial, fetch, stopping, pc, job, to, ghosts>>

\* A fetch sends its Interest, unless the store has the name by now.
Ask(f) ==
    /\ ~f.asked
    /\ IF f.name \in store
       THEN EndFetches({f}) /\ UNCHANGED out
       ELSE /\ out < OutCap /\ out' = out + 1
            /\ fetch' = (fetch \ {f}) \cup {[f EXCEPT !.asked = TRUE]}
            /\ UNCHANGED task
    /\ UNCHANGED <<inq, ctl, reg, netin, handle, made, grp, cancelled, told,
                   joined, store, initial, stopping, pc, job, to, ghosts>>

\* The instance takes what was routed to it: data ends the fetches that wait for
\* it, a sync Interest becomes an update, another Interest is answered.
Absorb(s) ==
    /\ Alive(s) /\ netin[s] # <<>>
    /\ netin' = [netin EXCEPT ![s] = Tail(@)]
    /\ LET m == Head(netin[s])
           F == {f \in fetch : f.svs = s /\ f.asked /\ f.name = m.of} IN
       \/ /\ m.kind = "data"
          /\ EndFetches(F)
          /\ store' = IF F = {} THEN store ELSE store \cup {m.of}
          /\ UNCHANGED <<out, told>>
       \/ /\ m.kind = "sync"
          /\ told' = [told EXCEPT ![s] = @ \cup {m.of}]
          /\ UNCHANGED <<out, fetch, task, store>>
       \/ /\ m.kind = "interest"
          /\ out < OutCap /\ out' = out + 1
          /\ UNCHANGED <<told, fetch, task, store>>
    /\ UNCHANGED <<inq, ctl, reg, handle, made, grp, cancelled, joined, initial,
                   stopping, pc, job, to, ghosts>>

\* The reply to f is on its way through the service.
Coming(f) ==
    LET reply == [kind |-> "data", of |-> f.name] IN
    \/ \E i \in 1..Len(inq) : inq[i] = reply
    \/ pc = "route" /\ to = f.svs /\ job = reply
    \/ \E i \in 1..Len(netin[f.svs]) : netin[f.svs][i] = reply

\* No reply came; the timeout is longer than the way through the service.
Timeout(f) ==
    /\ f.asked /\ ~Coming(f)
    /\ EndFetches({f})
    /\ missed' = (missed \/ f.heard)
    /\ UNCHANGED <<chans, handle, made, grp, cancelled, told, joined, store,
                   initial, stopping, pc, job, to, inputs, outband>>
-----------------------------------------------------------------------------
(***************************************************************************)
(* The embedder, the network and the operator.                             *)
(***************************************************************************)

Forward == /\ out > 0 /\ out' = out - 1
           /\ UNCHANGED <<inq, ctl, reg, netin, svs, joined, store, initial,
                          fetch, stopping, pc, job, to, ghosts>>

Registered == /\ reg > 0 /\ reg' = reg - 1
              /\ UNCHANGED <<inq, ctl, out, netin, svs, joined, store, initial,
                             fetch, stopping, pc, job, to, ghosts>>

Arrive(m) ==
    /\ pc # "ended" /\ inputs < MaxInputs /\ Len(inq) < InCap
    /\ inputs' = inputs + 1
    /\ inq' = Append(inq, m)
    /\ UNCHANGED <<ctl, out, reg, netin, svs, joined, store, initial, fetch,
                   stopping, pc, job, to, outband, missed>>

Order(c) ==
    /\ pc # "ended" /\ inputs < MaxInputs /\ Len(ctl) < CtlCap
    /\ inputs' = inputs + 1
    /\ ctl' = Append(ctl, c)
    /\ UNCHANGED <<inq, out, reg, netin, svs, joined, store, initial, fetch,
                   stopping, pc, job, to, outband, missed>>

\* The service's token is cancelled, and with it its children.
Cancel ==
    /\ ~stopping
    /\ stopping' = TRUE
    /\ cancelled' = 1..made
    /\ UNCHANGED <<chans, handle, made, grp, task, told, joined, store, initial,
                   fetch, pc, job, to, ghosts>>

Instance(s) ==
    \/ TaskEnds(s) \/ Absorb(s) \/ \E n \in Name : Update(s, n)
    \/ \E f \in fetch : f.svs = s /\ (Ask(f) \/ Timeout(f))

Next ==
    \/ Driver \/ EndClosed
    \/ \E s \in Svs : Instance(s)
    \/ Forward \/ Registered \/ Cancel
    \/ \E m \in Command \cup Packet : Arrive(m)
    \/ \E c \in Control : Order(c)

Spec == Init /\ [][Next]_vars

\* The loop and the instances go on when they can, and the embedder empties its
\* channels.  Nothing need arrive, and nobody need cancel or close anything.
Fairness ==
    /\ WF_vars(Driver)
    /\ \A s \in Svs : WF_vars(Instance(s))
    /\ WF_vars(Forward) /\ WF_vars(Registered)

FairSpec == Spec /\ Fairness
-----------------------------------------------------------------------------
(***************************************************************************)
(* Properties.                                                             *)
(***************************************************************************)

\* What goes on ingesting is what the service runs: an instance whose token is
\* live is the handle of its group, and a handle's token is live unless the
\* service stops (start_group and stop_group, across rejoins, late tasks, and a
\* join handled while the service stops).
LiveIsHandled ==
    /\ \A s \in 1..made : s \notin cancelled => handle[grp[s]] = s /\ ~stopping
    /\ \A g \in Running : grp[handle[g]] = g /\ (handle[g] \in cancelled => stopping)

\* The Repo's groups are those the service runs, but for a group started or
\* stopped other than by command, and for the join being handled (repo.rs
\* handle_sync_join against service.rs start_group).
CopiesAgree ==
    pc # "ended" =>
        \A g \in Group \ outband :
            g \in joined <=> \/ g \in Running
                             \/ pc = "register" /\ job.of = g

\* What an instance is handed, hears of and fetches is under the group it was
\* started for, however groups are left, joined again and stopped while packets
\* wait (route_to_group and drive_pending_fetches pick the instance by its group).
Under(s, n) == s \in 1..made /\ grp[s] \in Prefixes[n]

KeepsToGroup ==
    /\ pc = "route" => Under(to, job.of)
    /\ \A s \in Svs :
         /\ \A i \in 1..Len(netin[s]) : Under(s, netin[s][i].of)
         /\ \A n \in told[s] : Under(s, n)
    /\ \A f \in fetch : Under(f.svs, f.name)

\* A reply that the loop took while the fetch's instance ran ends the fetch: it
\* never times out all the same (route_to_group).  It takes groups of which none
\* is a prefix of another.
RepliesReach == ~missed

\* The loop always gets back to its select, and takes all that came in.
Serves == inq # <<>> \/ pc # "loop" ~> pc = "ended" \/ (inq = <<>> /\ pc = "loop")

\* A group that was left, or the whole service, once cancelled comes to rest: its
\* task ends, its fetches end, and nothing refers to the instance any more.
LeftComesToRest == \A s \in Svs : s \in cancelled ~> ~Alive(s)
=============================================================================
