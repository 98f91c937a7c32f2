------------------------- MODULE RepoServiceProofs -------------------------
(***************************************************************************)
(* What holds of RepoService for every set of groups and names, any rooms  *)
(* of the channels and any number of messages and controls.                *)
(***************************************************************************)
EXTENDS RepoService, SequenceTheorems, TLAPS

\* Every start is paid for by a message, a control or a configured group.
CountInv ==
    made + Len(initial) + Len(inq) + Len(ctl)
      + (IF pc = "register" THEN 1 ELSE 0) <= Len(Initial) + inputs

\* What the loop has at hand fits what it does with it.
JobInv ==
    /\ pc = "register" =>
         /\ job.of \in Group /\ job.of \notin Running
         /\ job.kind = "join" => job.of \in joined
         /\ job.kind # "join" => job.of \in outband
    /\ pc = "route" => job \in Packet /\ to \in 1..made

IInv == TypeOK /\ CountInv /\ JobInv

-----------------------------------------------------------------------------
(***************************************************************************)
(* Queues, and what the loop takes from them.                              *)
(***************************************************************************)

LEMMA HeadAndTail ==
    ASSUME NEW S, NEW q \in Seq(S), q # <<>>
    PROVE  /\ Head(q) \in S /\ Tail(q) \in Seq(S)
           /\ Len(Tail(q)) = Len(q) - 1 /\ Len(q) \in Nat
BY HeadTailProperties, LenProperties

LEMMA Appended ==
    ASSUME NEW S, NEW q \in Seq(S), NEW e \in S
    PROVE  /\ Append(q, e) \in Seq(S) /\ Len(Append(q, e)) = Len(q) + 1
           /\ Len(q) \in Nat
BY AppendProperties, LenProperties

\* What kind a message is says what it is about.
LEMMA Kinds ==
    ASSUME NEW m \in Command \cup Packet
    PROVE  /\ m.kind \in {"join", "leave"} => m.of \in Group
           /\ m.kind \in {"fetch", "push"} => m.of \in Name
           /\ m.kind \in {"interest", "sync", "data"} => m \in Packet /\ m.of \in Name
           /\ m.kind \notin {"start", "stop"}
BY DEF Command, Packet

\* A message taken leaves the queue, and pays for the start it may lead to.
LEMMA Taken ==
    ASSUME IInv, NEW k, Take(k)
    PROVE  /\ msg \in Command \cup Packet /\ msg.kind = k
           /\ inq' \in Seq(Command \cup Packet) /\ Len(inq') = Len(inq) - 1
           /\ Len(inq) \in Nat /\ pc = "loop"
           /\ <<ctl, out, reg, netin, initial, stopping, inputs, outband,
                missed>>'
              = <<ctl, out, reg, netin, initial, stopping, inputs, outband,
                  missed>>
           /\ Len(inq') <= InCap
<1>1. inq \in Seq(Command \cup Packet) /\ inq # <<>>
  BY DEF IInv, TypeOK, Take
<1>2. /\ Head(inq) \in Command \cup Packet
      /\ Tail(inq) \in Seq(Command \cup Packet)
      /\ Len(Tail(inq)) = Len(inq) - 1 /\ Len(inq) \in Nat
  BY <1>1, HeadAndTail
<1> QED
  BY <1>2, ServiceAssumption DEF IInv, TypeOK, Take, AtLoop, msg, ghosts

-----------------------------------------------------------------------------
(***************************************************************************)
(* Types, counts and what is at hand are invariant.                        *)
(***************************************************************************)

LEMMA Bounds == MaxSvs \in Nat /\ Len(Initial) \in Nat /\ MaxInputs \in Nat
BY ServiceAssumption, LenProperties DEF MaxSvs

LEMMA InvInit == Init => IInv
<1> SUFFICES ASSUME Init PROVE IInv
  OBVIOUS
<1>1. CountInv
  <2>1. /\ initial = Initial /\ made = 0 /\ inputs = 0 /\ pc = "loop"
        /\ Len(inq) = 0 /\ Len(ctl) = 0
    BY DEF Init
  <2> QED
    BY <2>1, Bounds DEF CountInv
<1>2. JobInv
  BY DEF Init, JobInv
<1>3. Nothing \in Command
  BY DEF Nothing, Command
<1>4. /\ inq \in Seq(Command \cup Packet) /\ Len(inq) <= InCap
      /\ ctl \in Seq(Control) /\ Len(ctl) <= CtlCap
      /\ netin \in [Svs -> Seq(Packet)] /\ \A s \in Svs : Len(netin[s]) <= NetCap
      /\ initial \in Seq(Group) /\ grp \in Seq(Group) /\ Len(grp) = made
  BY EmptySeq, ServiceAssumption DEF Init
<1>5. /\ out \in 0..OutCap /\ reg \in 0..RegCap
      /\ made \in 0..MaxSvs /\ inputs \in 0..MaxInputs
  BY Bounds, ServiceAssumption DEF Init
<1>6. /\ handle \in [Group -> 0..made] /\ cancelled \in SUBSET (1..made)
      /\ to \in 0..made
  BY DEF Init
<1>7. /\ joined \in SUBSET Group /\ store \in SUBSET Name
      /\ outband \in SUBSET Group /\ fetch \in SUBSET Fetch
      /\ task \in [Svs -> {"unborn", "idle", "busy", "ended"}]
      /\ told \in [Svs -> SUBSET Name]
  BY DEF Init
<1>8. job \in Command \cup Packet \cup Control
  BY <1>3 DEF Init
<1>9. TypeOK
  BY <1>4, <1>5, <1>6, <1>7, <1>8 DEF Init, TypeOK
<1> QED
  BY <1>1, <1>2, <1>9 DEF IInv

\* start_group, up to where it awaits room.
LEMMA Starts ==
    ASSUME IInv, NEW m \in Command \cup Packet \cup Control, m.of \in Group,
           NEW next \in {"send", "loop"}, Start(m, next)
    PROVE  /\ pc' \in {"register", "send", "loop"}
           /\ job' \in Command \cup Packet \cup Control
           /\ pc' = "register" => job' = m /\ m.of \notin Running
           /\ handle' = handle /\ made' = made /\ grp' = grp
           /\ cancelled' = cancelled /\ task' = task /\ told' = told
<1>1. Nothing \in Command
  BY DEF Nothing, Command
<1>2. CASE m.of \notin Running
  BY <1>2 DEF Start, Await, svs
<1>3. CASE m.of \in Running /\ next = "send"
  BY <1>3 DEF Start, Await, svs
<1>4. CASE m.of \in Running /\ next = "loop"
  BY <1>1, <1>4 DEF Start, Turn, svs
<1> QED
  BY <1>2, <1>3, <1>4

\* stop_group.
LEMMA Stops ==
    ASSUME IInv, NEW g \in Group, Stop(g)
    PROVE  /\ handle' = [handle EXCEPT ![g] = 0]
           /\ handle' \in [Group -> 0..made]
           /\ cancelled' \in SUBSET (1..made)
           /\ cancelled' = cancelled \cup ({handle[g]} \ {0})
           /\ made' = made /\ grp' = grp /\ task' = task /\ told' = told
<1>1. /\ handle' = [handle EXCEPT ![g] = 0] /\ made' = made /\ grp' = grp
      /\ cancelled' = cancelled \cup ({handle[g]} \ {0})
      /\ task' = task /\ told' = told
  BY DEF Stop
<1>2. /\ handle \in [Group -> 0..made] /\ cancelled \in SUBSET (1..made)
      /\ made \in Nat /\ handle[g] \in 0..made
  BY Bounds DEF IInv, TypeOK
<1>3. {handle[g]} \ {0} \subseteq 1..made
  BY <1>2
<1>4. handle' \in [Group -> 0..made]
  BY <1>1, <1>2
<1>5. cancelled' \in SUBSET (1..made)
  BY <1>1, <1>2, <1>3
<1> QED
  BY <1>1, <1>4, <1>5

\* What a step of the loop that takes a message may do with the rest.
LEMMA TakeKeeps ==
    ASSUME IInv, NEW k, Take(k),
           handle' \in [Group -> 0..made], made' = made, grp' = grp,
           cancelled' \in SUBSET (1..made), task' = task, told' = told,
           joined' \in SUBSET Group, store' \in SUBSET Name,
           fetch' \in SUBSET Fetch, to' \in 0..made,
           pc' \in {"loop", "register", "route", "send"},
           job' \in Command \cup Packet \cup Control
    PROVE  TypeOK' /\ CountInv'
<1>1. TypeOK'
  BY Taken DEF IInv, TypeOK
<1>2. CountInv'
  <2>1. /\ made \in Nat /\ Len(initial) \in Nat /\ Len(ctl) \in Nat
        /\ Len(inq) \in Nat /\ inputs \in Nat
    BY Taken, LenProperties DEF IInv, TypeOK
  <2> QED
    BY <2>1, Taken, Bounds DEF IInv, CountInv
<1> QED
  BY <1>1, <1>2

\* route_to_group, up to where it awaits room.
LEMMA Routes ==
    ASSUME IInv, NEW m \in Packet, RouteTo(m)
    PROVE  /\ pc' \in {"route", "loop"} /\ job' \in Command \cup Packet \cup Control
           /\ to' \in 0..made
           /\ pc' = "route" => /\ job' = m /\ to' \in 1..made
                               /\ \E g \in Owners(m.of) : to' = handle[g]
<1>1. Nothing \in Command /\ to \in 0..made
  BY DEF Nothing, Command, IInv, TypeOK
<1>2. CASE Owners(m.of) = {}
  BY <1>1, <1>2 DEF RouteTo, Turn
<1>3. CASE Owners(m.of) # {}
  <2>1. PICK g \in Owners(m.of) : Await("route", m) /\ to' = handle[g]
    BY <1>3 DEF RouteTo
  <2>2. handle[g] \in 0..made /\ handle[g] # 0 /\ made \in Nat
    BY Bounds DEF Owners, Running, IInv, TypeOK
  <2> QED
    BY <2>1, <2>2 DEF Await
<1> QED
  BY <1>2, <1>3

\* The loop takes a message.
LEMMA TakeStep ==
    ASSUME IInv, \/ TakeJoin \/ TakeLeave \/ TakeFetch \/ TakePush
                 \/ TakeRefused \/ TakeInterest \/ TakeSync \/ TakeData
    PROVE  IInv'
<1>0. /\ handle \in [Group -> 0..made] /\ cancelled \in SUBSET (1..made)
      /\ joined \in SUBSET Group /\ store \in SUBSET Name
      /\ fetch \in SUBSET Fetch /\ to \in 0..made /\ made \in 0..MaxSvs
  BY DEF IInv, TypeOK
<1>1. CASE TakeJoin
  <2>1. Take("join") /\ Start(msg, "send")
    BY <1>1 DEF TakeJoin
  <2>2. msg \in Command \cup Packet /\ msg.kind = "join" /\ msg.of \in Group
    BY <2>1, Taken, Kinds
  <2>3. /\ pc' \in {"register", "send", "loop"}
        /\ job' \in Command \cup Packet \cup Control
        /\ pc' = "register" => job' = msg /\ msg.of \notin Running
        /\ handle' = handle /\ made' = made /\ grp' = grp
        /\ cancelled' = cancelled /\ task' = task /\ told' = told
    BY <2>1, <2>2, Starts
  <2>4. joined' = joined \cup {msg.of} /\ to' = to /\ fetch' = fetch /\ store' = store
    BY <1>1 DEF TakeJoin
  <2>5. TypeOK' /\ CountInv'
    BY <1>0, <2>1, <2>2, <2>3, <2>4, TakeKeeps
  <2>6. JobInv'
    BY <2>2, <2>3, <2>4 DEF JobInv, Running
  <2> QED
    BY <2>5, <2>6 DEF IInv
<1>2. CASE TakeLeave
  <2>1. Take("leave") /\ Await("send", msg)
    BY <1>2 DEF TakeLeave
  <2>2. msg \in Command \cup Packet /\ msg.kind = "leave" /\ msg.of \in Group
    BY <2>1, Taken, Kinds
  <2>3. /\ handle' \in [Group -> 0..made] /\ cancelled' \in SUBSET (1..made)
        /\ made' = made /\ grp' = grp /\ task' = task /\ told' = told
    <3>1. CASE msg.of \in joined
      BY <1>2, <2>2, <3>1, Stops DEF TakeLeave
    <3>2. CASE msg.of \notin joined
      BY <1>0, <1>2, <3>2 DEF TakeLeave, svs
    <3> QED
      BY <3>1, <3>2
  <2>4. joined' = joined \ {msg.of} /\ to' = to /\ fetch' = fetch /\ store' = store
    BY <1>2 DEF TakeLeave
  <2>5. TypeOK' /\ CountInv'
    BY <1>0, <2>1, <2>2, <2>3, <2>4, TakeKeeps DEF Await
  <2> QED
    BY <2>1, <2>5 DEF IInv, JobInv, Await
<1>3. CASE TakeFetch
  <2>1. Take("fetch") /\ Await("send", msg) /\ UNCHANGED <<svs, joined, store, to>>
    BY <1>3 DEF TakeFetch
  <2>2. msg \in Command \cup Packet /\ msg.kind = "fetch" /\ msg.of \in Name
    BY <2>1, Taken, Kinds
  <2>3. fetch' \in SUBSET Fetch
    <3>1. CASE Owners(msg.of) = {}
      BY <1>0, <1>3, <3>1 DEF TakeFetch
    <3>2. CASE Owners(msg.of) # {}
      <4>1. PICK g \in Owners(msg.of) :
              fetch' = fetch \cup {[svs |-> handle[g], name |-> msg.of,
                                    by |-> "blob", asked |-> FALSE,
                                    heard |-> FALSE]}
        BY <1>3, <3>2 DEF TakeFetch
      <4>2. handle[g] \in Svs
        BY <1>0, Bounds DEF Owners, Running, Svs
      <4>3. [svs |-> handle[g], name |-> msg.of, by |-> "blob",
             asked |-> FALSE, heard |-> FALSE] \in Fetch
        BY <2>2, <4>2 DEF Fetch
      <4> QED
        BY <1>0, <4>1, <4>3
    <3> QED
      BY <3>1, <3>2
  <2>4. TypeOK' /\ CountInv'
    BY <1>0, <2>1, <2>2, <2>3, TakeKeeps DEF Await, svs
  <2> QED
    BY <2>1, <2>4 DEF IInv, JobInv, Await
<1>4. CASE TakePush
  <2>1. Take("push") /\ Await("send", msg) /\ store' = store \cup {msg.of}
    BY <1>4 DEF TakePush
  <2>2. msg \in Command \cup Packet /\ msg.kind = "push" /\ msg.of \in Name
    BY <2>1, Taken, Kinds
  <2>3. TypeOK' /\ CountInv'
    BY <1>0, <1>4, <2>1, <2>2, TakeKeeps DEF TakePush, Await, svs
  <2> QED
    BY <2>1, <2>3 DEF IInv, JobInv, Await
<1>5. CASE TakeRefused
  <2>1. Take("refused") /\ Await("send", msg)
    BY <1>5 DEF TakeRefused
  <2>2. msg \in Command \cup Packet
    BY <2>1, Taken
  <2>3. TypeOK' /\ CountInv'
    BY <1>0, <1>5, <2>1, <2>2, TakeKeeps DEF TakeRefused, Await, svs
  <2> QED
    BY <2>1, <2>3 DEF IInv, JobInv, Await
<1>6. CASE TakeInterest
  <2>1. Take("interest") /\ UNCHANGED <<svs, joined, store, fetch>>
    BY <1>6 DEF TakeInterest
  <2>2. msg \in Command \cup Packet /\ msg \in Packet
    BY <2>1, Taken, Kinds
  <2>3. /\ pc' \in {"route", "loop", "send"}
        /\ job' \in Command \cup Packet \cup Control /\ to' \in 0..made
        /\ pc' = "route" => job' = msg /\ to' \in 1..made
    <3>1. CASE Owners(msg.of) # {} /\ msg.of \in store
      BY <1>0, <1>6, <2>2, <3>1 DEF TakeInterest, Await
    <3>2. CASE ~(Owners(msg.of) # {} /\ msg.of \in store)
      BY <1>6, <2>2, <3>2, Routes DEF TakeInterest
    <3> QED
      BY <3>1, <3>2
  <2>4. TypeOK' /\ CountInv'
    BY <1>0, <2>1, <2>3, TakeKeeps DEF svs
  <2> QED
    BY <2>1, <2>2, <2>3, <2>4 DEF IInv, JobInv, svs
<1>7. CASE TakeSync
  <2>1. Take("sync") /\ UNCHANGED <<svs, joined, store, fetch>> /\ RouteTo(msg)
    BY <1>7 DEF TakeSync
  <2>2. msg \in Packet
    BY <2>1, Taken, Kinds
  <2>3. /\ pc' \in {"route", "loop"}
        /\ job' \in Command \cup Packet \cup Control /\ to' \in 0..made
        /\ pc' = "route" => job' = msg /\ to' \in 1..made
    BY <2>1, <2>2, Routes
  <2>4. TypeOK' /\ CountInv'
    BY <1>0, <2>1, <2>3, TakeKeeps DEF svs
  <2> QED
    BY <2>1, <2>2, <2>3, <2>4 DEF IInv, JobInv, svs
<1>8. CASE TakeData
  <2>1. Take("data") /\ UNCHANGED <<svs, joined, store>> /\ RouteTo(msg)
    BY <1>8 DEF TakeData
  <2>2. msg \in Packet
    BY <2>1, Taken, Kinds
  <2>3. /\ pc' \in {"route", "loop"}
        /\ job' \in Command \cup Packet \cup Control /\ to' \in 0..made
        /\ pc' = "route" => job' = msg /\ to' \in 1..made
    BY <2>1, <2>2, Routes
  <2>4. fetch' \in SUBSET Fetch
    <3>1. ASSUME NEW f \in Fetch, NEW b \in BOOLEAN
          PROVE  [f EXCEPT !.heard = b] \in Fetch
      BY DEF Fetch
    <3>2. \A f \in fetch :
            [f EXCEPT !.heard = @ \/ /\ f.asked /\ f.name = msg.of
                                     /\ handle[grp[f.svs]] = f.svs] \in Fetch
      BY <1>0, <3>1 DEF Fetch
    <3> QED
      BY <1>8, <3>2 DEF TakeData
  <2>5. TypeOK' /\ CountInv'
    BY <1>0, <2>1, <2>3, <2>4, TakeKeeps DEF svs
  <2> QED
    BY <2>1, <2>2, <2>3, <2>5 DEF IInv, JobInv, svs
<1> QED
  BY <1>1, <1>2, <1>3, <1>4, <1>5, <1>6, <1>7, <1>8

\* The loop starts a group, awaits room, or ends.
LEMMA LoopStep ==
    ASSUME IInv, \/ StartInitial \/ TakeControl \/ Register \/ Send \/ Route
                 \/ EndCancelled \/ EndClosed
    PROVE  IInv'
<1>0. /\ handle \in [Group -> 0..made] /\ cancelled \in SUBSET (1..made)
      /\ made \in Nat /\ made <= MaxSvs /\ MaxSvs \in Nat /\ to \in 0..made
      /\ Len(initial) \in Nat /\ Len(inq) \in Nat /\ Len(ctl) \in Nat
      /\ inputs \in Nat /\ inputs <= MaxInputs
      /\ Nothing \in Command
  BY Bounds, LenProperties DEF IInv, TypeOK, Nothing, Command
<1>1. CASE StartInitial
  <2> DEFINE m == [kind |-> "start", of |-> Head(initial)]
  <2>1. /\ initial # <<>> /\ initial' = Tail(initial) /\ Start(m, "loop")
        /\ outband' = outband \cup {Head(initial)}
        /\ UNCHANGED <<chans, joined, store, fetch, stopping, to, inputs, missed>>
    BY <1>1 DEF StartInitial
  <2>2. /\ Head(initial) \in Group /\ Tail(initial) \in Seq(Group)
        /\ Len(Tail(initial)) = Len(initial) - 1
    BY <2>1, HeadAndTail DEF IInv, TypeOK
  <2>3. m \in Control /\ m.of = Head(initial) /\ m.kind # "join"
    BY <2>2 DEF Control
  <2> HIDE DEF m
  <2>4. /\ pc' \in {"register", "send", "loop"}
        /\ job' \in Command \cup Packet \cup Control
        /\ pc' = "register" => job' = m /\ m.of \notin Running
        /\ handle' = handle /\ made' = made /\ grp' = grp
        /\ cancelled' = cancelled /\ task' = task /\ told' = told
    BY <2>1, <2>2, <2>3, Starts
  <2>5. TypeOK'
    BY <2>1, <2>2, <2>4 DEF IInv, TypeOK, chans
  <2>6. CountInv'
    BY <1>0, <2>1, <2>2, <2>4 DEF IInv, CountInv, chans
  <2>7. JobInv'
    BY <1>1, <2>1, <2>2, <2>3, <2>4 DEF JobInv, Running, Start, Await, Turn
  <2> QED
    BY <2>5, <2>6, <2>7 DEF IInv
<1>2. CASE TakeControl
  <2> DEFINE m == Head(ctl)
  <2>1. /\ AtLoop /\ ctl # <<>> /\ ctl' = Tail(ctl)
        /\ \/ m.kind = "start" /\ Start(m, "loop")
           \/ m.kind = "stop" /\ Stop(m.of) /\ Turn
        /\ outband' = outband \cup {m.of}
        /\ UNCHANGED <<inq, out, reg, netin, joined, store, initial, fetch,
                       stopping, to, inputs, missed>>
    BY <1>2 DEF TakeControl
  <2>2. /\ m \in Control /\ ctl' \in Seq(Control) /\ Len(ctl') = Len(ctl) - 1
    BY <2>1, HeadAndTail DEF IInv, TypeOK
  <2>3. m.of \in Group /\ m.kind # "join"
    BY <2>2 DEF Control
  <2> HIDE DEF m
  <2>4. /\ pc' \in {"register", "send", "loop"}
        /\ job' \in Command \cup Packet \cup Control
        /\ pc' = "register" => job' = m /\ m.of \notin Running /\ handle' = handle
        /\ handle' \in [Group -> 0..made] /\ cancelled' \in SUBSET (1..made)
        /\ made' = made /\ grp' = grp /\ task' = task /\ told' = told
    <3>1. CASE m.kind = "start" /\ Start(m, "loop")
      BY <1>0, <2>2, <2>3, <3>1, Starts
    <3>2. CASE m.kind = "stop" /\ Stop(m.of) /\ Turn
      BY <1>0, <2>3, <3>2, Stops DEF Turn
    <3> QED
      BY <2>1, <3>1, <3>2
  <2>5. Len(ctl') <= CtlCap
    BY <1>0, <2>2, ServiceAssumption DEF IInv, TypeOK
  <2>6. TypeOK'
    BY <2>1, <2>2, <2>3, <2>4, <2>5 DEF IInv, TypeOK
  <2>7. CountInv'
    BY <1>0, <2>1, <2>2, <2>4 DEF IInv, CountInv, AtLoop
  <2>8. pc' # "route"
    BY <2>4
  <2>9. JobInv'
    BY <2>1, <2>3, <2>4, <2>8 DEF JobInv, Running
  <2> QED
    BY <2>6, <2>7, <2>9 DEF IInv
<1>3. CASE Register
  <2>1. /\ pc = "register" /\ job.of \in Group /\ reg < RegCap
        /\ reg' = reg + 1 /\ made' = made + 1 /\ grp' = Append(grp, job.of)
        /\ handle' = [handle EXCEPT ![job.of] = made']
        /\ task' = [task EXCEPT ![made'] = "idle"]
        /\ cancelled' = IF stopping THEN cancelled \cup {made'} ELSE cancelled
        /\ IF job.kind = "join" THEN Await("send", job) ELSE Turn
        /\ UNCHANGED <<inq, ctl, out, netin, joined, store, initial, told,
                       fetch, stopping, to, ghosts>>
    BY <1>3 DEF Register, IInv, JobInv
  <2>2. made' \in 1..MaxSvs
    BY <1>0, <2>1, Bounds DEF IInv, CountInv, MaxSvs
  <2>3. grp' \in Seq(Group) /\ Len(grp') = made'
    BY <2>1, Appended DEF IInv, TypeOK
  <2>4. handle' \in [Group -> 0..made'] /\ cancelled' \in SUBSET (1..made')
    <3>1. handle \in [Group -> 0..made'] /\ cancelled \in SUBSET (1..made')
      BY <1>0, <2>1
    <3>2. made' \in 0..made' /\ made' \in 1..made'
      BY <1>0, <2>1
    <3>3. handle' \in [Group -> 0..made']
      BY <2>1, <3>1, <3>2
    <3>4. cancelled' \in SUBSET (1..made')
      BY <2>1, <3>1, <3>2
    <3> QED
      BY <3>3, <3>4
  <2>5. reg' \in 0..RegCap
    BY <2>1, ServiceAssumption DEF IInv, TypeOK
  <2>6. task' \in [Svs -> {"unborn", "idle", "busy", "ended"}]
    BY <2>1, <2>2 DEF IInv, TypeOK, Svs
  <2>7. /\ pc' \in {"send", "loop"} /\ job' \in Command \cup Packet \cup Control
    BY <1>0, <2>1 DEF Await, Turn, IInv, TypeOK
  <2>8. to' \in 0..made' /\ made' \in 0..MaxSvs
    BY <1>0, <2>1, <2>2
  <2>9. TypeOK'
    BY <2>1, <2>3, <2>4, <2>5, <2>6, <2>7, <2>8 DEF IInv, TypeOK, ghosts
  <2>10. CountInv'
    BY <1>0, <2>1, <2>7 DEF IInv, CountInv, ghosts
  <2> QED
    BY <2>7, <2>9, <2>10 DEF IInv, JobInv
<1>4. CASE Send
  <2>1. out' \in 0..OutCap
    BY <1>4, ServiceAssumption DEF Send, IInv, TypeOK
  <2>2. TypeOK'
    BY <1>0, <1>4, <2>1 DEF Send, Turn, svs, ghosts, IInv, TypeOK
  <2>3. CountInv'
    BY <1>0, <1>4 DEF Send, Turn, svs, ghosts, IInv, CountInv
  <2> QED
    BY <1>4, <2>2, <2>3 DEF Send, Turn, IInv, JobInv
<1>5. CASE Route
  <2>1. /\ pc = "route" /\ job \in Packet /\ to \in Svs /\ Len(netin[to]) < NetCap
        /\ netin' = [netin EXCEPT ![to] = Append(netin[to], job)]
    BY <1>0, <1>5 DEF Route, IInv, JobInv, Svs
  <2>2. netin \in [Svs -> Seq(Packet)] /\ \A s \in Svs : Len(netin[s]) <= NetCap
    BY DEF IInv, TypeOK
  <2>3. /\ Append(netin[to], job) \in Seq(Packet)
        /\ Len(Append(netin[to], job)) = Len(netin[to]) + 1
        /\ Len(netin[to]) \in Nat
    BY <2>1, <2>2, Appended
  <2>4. netin' \in [Svs -> Seq(Packet)] /\ \A s \in Svs : Len(netin'[s]) <= NetCap
    BY <2>1, <2>2, <2>3, ServiceAssumption
  <2>5. TypeOK'
    BY <1>0, <1>5, <2>4 DEF Route, Turn, svs, ghosts, IInv, TypeOK
  <2>6. CountInv'
    BY <1>0, <1>5 DEF Route, Turn, svs, ghosts, IInv, CountInv
  <2> QED
    BY <1>5, <2>5, <2>6 DEF Route, Turn, IInv, JobInv
<1>6. CASE EndCancelled \/ EndClosed
  <2>1. Ends
    BY <1>6 DEF EndCancelled, EndClosed
  <2>2. inq' = <<>> /\ ctl' = <<>> /\ Len(inq') = 0 /\ Len(ctl') = 0
    BY <2>1 DEF Ends
  <2>3. handle' \in [Group -> 0..made]
    BY <1>0, <2>1 DEF Ends
  <2>4. cancelled' \in SUBSET (1..made)
    <3>1. \A g \in Running : handle[g] \in 1..made
      BY <1>0 DEF Running
    <3>2. cancelled' = cancelled \cup {handle[g] : g \in Running}
      BY <2>1 DEF Ends
    <3> QED
      BY <1>0, <3>1, <3>2
  <2>5. TypeOK'
    BY <2>1, <2>2, <2>3, <2>4, ServiceAssumption, EmptySeq
       DEF Ends, ghosts, IInv, TypeOK
  <2>6. CountInv'
    BY <1>0, <2>1, <2>2 DEF Ends, ghosts, IInv, CountInv
  <2> QED
    BY <2>1, <2>5, <2>6 DEF Ends, IInv, JobInv
<1> QED
  BY <1>1, <1>2, <1>3, <1>4, <1>5, <1>6

\* Fetches that end leave fetches, and tasks that are idle again.
LEMMA FetchesEnd ==
    ASSUME IInv, NEW F, EndFetches(F)
    PROVE  /\ fetch' \in SUBSET Fetch
           /\ task' \in [Svs -> {"unborn", "idle", "busy", "ended"}]
BY DEF EndFetches, IInv, TypeOK

\* A step of an instance: it fetches, sends, takes what was routed to it, ends.
LEMMA InstanceStep ==
    ASSUME IInv, NEW s \in Svs, Instance(s)
    PROVE  IInv'
<1>0. /\ fetch \in SUBSET Fetch /\ store \in SUBSET Name
      /\ told \in [Svs -> SUBSET Name] /\ netin \in [Svs -> Seq(Packet)]
      /\ task \in [Svs -> {"unborn", "idle", "busy", "ended"}]
      /\ \A t \in Svs : Len(netin[t]) <= NetCap
      /\ out \in 0..OutCap /\ OutCap \in Nat
  BY ServiceAssumption DEF IInv, TypeOK
<1> DEFINE Kept ==
           /\ UNCHANGED <<inq, ctl, reg, handle, made, grp, cancelled, joined,
                          initial, stopping, pc, job, to, inputs, outband>>
           /\ missed' \in BOOLEAN
<1>1. Kept
  <2>1. missed \in BOOLEAN /\ \A f \in fetch : f.heard \in BOOLEAN
    BY DEF IInv, TypeOK, Fetch
  <2>2. ASSUME NEW f \in fetch, Ask(f) PROVE Kept
    BY <2>1, <2>2 DEF Ask, ghosts
  <2>3. ASSUME NEW f \in fetch, Timeout(f) PROVE Kept
    BY <2>1, <2>3 DEF Timeout, chans
  <2>4. ASSUME TaskEnds(s) \/ Absorb(s) \/ \E n \in Name : Update(s, n)
        PROVE Kept
    BY <2>1, <2>4 DEF TaskEnds, Absorb, Update, chans, ghosts
  <2> QED
    BY <2>2, <2>3, <2>4 DEF Instance
<1> DEFINE Typed ==
           /\ out' \in 0..OutCap /\ store' \in SUBSET Name
           /\ fetch' \in SUBSET Fetch
           /\ task' \in [Svs -> {"unborn", "idle", "busy", "ended"}]
           /\ told' \in [Svs -> SUBSET Name]
           /\ netin' \in [Svs -> Seq(Packet)]
           /\ \A t \in Svs : Len(netin'[t]) <= NetCap
<1>3. TaskEnds(s) => Typed
  BY <1>0 DEF TaskEnds, chans
<1>4. ASSUME NEW n \in Name, Update(s, n) PROVE Typed
  <2>1. [svs |-> s, name |-> n, by |-> "task", asked |-> FALSE,
         heard |-> FALSE] \in Fetch
    BY DEF Fetch
  <2> QED
    BY <1>0, <1>4, <2>1 DEF Update, chans
<1>5. ASSUME NEW f \in fetch, Ask(f) PROVE Typed
  <2> DEFINE a == [f EXCEPT !.asked = TRUE]
  <2>1. a \in Fetch
    BY <1>0 DEF Fetch
  <2>2. CASE f.name \in store
    BY <1>0, <1>5, <2>2, FetchesEnd DEF Ask
  <2>3. CASE f.name \notin store
    <3>1. /\ fetch' = (fetch \ {f}) \cup {a} /\ out < OutCap /\ out' = out + 1
          /\ <<task, store, told, netin>>' = <<task, store, told, netin>>
      BY <1>5, <2>3 DEF Ask
    <3> HIDE DEF a
    <3> QED
      BY <1>0, <2>1, <3>1
  <2> QED
    BY <2>2, <2>3
<1>6. ASSUME NEW f \in fetch, Timeout(f) PROVE Typed
  BY <1>0, <1>6, FetchesEnd DEF Timeout, chans
<1>7. ASSUME Absorb(s) PROVE Typed
  <2> DEFINE m == Head(netin[s])
             F == {f \in fetch : f.svs = s /\ f.asked /\ f.name = m.of}
  <2>1. netin[s] \in Seq(Packet) /\ netin[s] # <<>> /\ Len(netin[s]) <= NetCap
    BY <1>0, <1>7 DEF Absorb
  <2>2. /\ m \in Packet /\ m.of \in Name
        /\ Tail(netin[s]) \in Seq(Packet)
        /\ Len(Tail(netin[s])) <= NetCap
    <3>1. m \in Packet /\ Tail(netin[s]) \in Seq(Packet)
      BY <2>1, HeadAndTail
    <3>2. Len(Tail(netin[s])) = Len(netin[s]) - 1 /\ Len(netin[s]) \in Nat
      BY <2>1, HeadAndTail
    <3>3. Len(Tail(netin[s])) <= NetCap
      BY <2>1, <3>2, ServiceAssumption
    <3> QED
      BY <3>1, <3>3 DEF Packet
  <2>3. netin' = [netin EXCEPT ![s] = Tail(netin[s])]
    BY <1>7 DEF Absorb
  <2>4. netin' \in [Svs -> Seq(Packet)] /\ \A t \in Svs : Len(netin'[t]) <= NetCap
    BY <1>0, <2>2, <2>3
  <2>5. \/ /\ EndFetches(F)
           /\ store' = IF F = {} THEN store ELSE store \cup {m.of}
           /\ UNCHANGED <<out, told>>
        \/ /\ told' = [told EXCEPT ![s] = told[s] \cup {m.of}]
           /\ UNCHANGED <<out, fetch, task, store>>
        \/ /\ out < OutCap /\ out' = out + 1
           /\ UNCHANGED <<told, fetch, task, store>>
    BY <1>7 DEF Absorb
  <2> HIDE DEF m, F
  <2>6. EndFetches(F) => fetch' \in SUBSET Fetch
                /\ task' \in [Svs -> {"unborn", "idle", "busy", "ended"}]
    BY FetchesEnd
  <2>7. out' \in 0..OutCap
    BY <1>0, <2>5
  <2>8. store' \in SUBSET Name /\ told' \in [Svs -> SUBSET Name]
    BY <1>0, <2>2, <2>5
  <2>9. /\ fetch' \in SUBSET Fetch
        /\ task' \in [Svs -> {"unborn", "idle", "busy", "ended"}]
    BY <1>0, <2>5, <2>6
  <2> QED
    BY <2>4, <2>7, <2>8, <2>9
<1> HIDE DEF Typed, Kept
<1>8. CASE Typed
  <2>1. TypeOK'
    BY <1>1, <1>8 DEF Kept, Typed, IInv, TypeOK
  <2>2. CountInv'
    BY <1>1 DEF Kept, IInv, CountInv
  <2>3. JobInv'
    BY <1>1 DEF Kept, IInv, JobInv, Running
  <2> QED
    BY <2>1, <2>2, <2>3 DEF IInv
<1> QED
  BY <1>3, <1>4, <1>5, <1>6, <1>7, <1>8 DEF Instance

\* A step of the embedder, the network or the operator.
LEMMA OutsideStep ==
    ASSUME IInv, \/ Forward \/ Registered \/ Cancel \/ UNCHANGED vars
                 \/ \E m \in Command \cup Packet : Arrive(m)
                 \/ \E c \in Control : Order(c)
    PROVE  IInv'
<1>0. /\ out \in 0..OutCap /\ reg \in 0..RegCap /\ made \in Nat
      /\ inputs \in 0..MaxInputs /\ MaxInputs \in Nat
      /\ Len(inq) \in Nat /\ Len(ctl) \in Nat /\ Len(initial) \in Nat
      /\ Len(Initial) \in Nat /\ OutCap \in Nat /\ RegCap \in Nat
      /\ InCap \in Nat /\ CtlCap \in Nat
  BY ServiceAssumption, Bounds, LenProperties DEF IInv, TypeOK
<1>1. CASE Forward
  <2>1. out' \in 0..OutCap
    BY <1>0, <1>1 DEF Forward
  <2> QED
    BY <1>1, <2>1 DEF Forward, svs, ghosts, IInv, TypeOK, CountInv, JobInv, Running
<1>2. CASE Registered
  <2>1. reg' \in 0..RegCap
    BY <1>0, <1>2 DEF Registered
  <2> QED
    BY <1>2, <2>1 DEF Registered, svs, ghosts, IInv, TypeOK, CountInv, JobInv, Running
<1>3. CASE Cancel
  <2>1. TypeOK'
    BY <1>3 DEF Cancel, chans, ghosts, IInv, TypeOK
  <2>2. CountInv'
    BY <1>3 DEF Cancel, chans, ghosts, IInv, CountInv
  <2>3. JobInv'
    BY <1>3 DEF Cancel, chans, ghosts, IInv, JobInv, Running
  <2> QED
    BY <2>1, <2>2, <2>3 DEF IInv
<1>4. ASSUME NEW m \in Command \cup Packet, Arrive(m) PROVE IInv'
  <2>1. /\ inq' \in Seq(Command \cup Packet) /\ Len(inq') = Len(inq) + 1
        /\ Len(inq') <= InCap /\ inputs' = inputs + 1 /\ inputs' \in 0..MaxInputs
    BY <1>0, <1>4, Appended DEF Arrive, IInv, TypeOK
  <2>2. TypeOK'
    BY <1>4, <2>1 DEF Arrive, svs, IInv, TypeOK
  <2>3. CountInv'
    BY <1>0, <1>4, <2>1 DEF Arrive, svs, IInv, CountInv
  <2>4. JobInv'
    BY <1>4 DEF Arrive, svs, IInv, JobInv, Running
  <2> QED
    BY <2>2, <2>3, <2>4 DEF IInv
<1>5. ASSUME NEW c \in Control, Order(c) PROVE IInv'
  <2>1. /\ ctl' \in Seq(Control) /\ Len(ctl') = Len(ctl) + 1
        /\ Len(ctl') <= CtlCap /\ inputs' = inputs + 1 /\ inputs' \in 0..MaxInputs
    BY <1>0, <1>5, Appended DEF Order, IInv, TypeOK
  <2>2. TypeOK'
    BY <1>5, <2>1 DEF Order, svs, IInv, TypeOK
  <2>3. CountInv'
    BY <1>0, <1>5, <2>1 DEF Order, svs, IInv, CountInv
  <2>4. JobInv'
    BY <1>5 DEF Order, svs, IInv, JobInv, Running
  <2> QED
    BY <2>2, <2>3, <2>4 DEF IInv
<1>6. CASE UNCHANGED vars
  BY <1>6 DEF vars, chans, svs, ghosts, IInv, TypeOK, CountInv, JobInv, Running
<1> QED
  BY <1>1, <1>2, <1>3, <1>4, <1>5, <1>6

LEMMA InvStep == IInv /\ [Next]_vars => IInv'
<1> SUFFICES ASSUME IInv, [Next]_vars PROVE IInv'
  OBVIOUS
<1>1. CASE Driver \/ EndClosed
  BY <1>1, TakeStep, LoopStep DEF Driver
<1>2. CASE \E s \in Svs : Instance(s)
  BY <1>2, InstanceStep
<1>3. CASE \/ Forward \/ Registered \/ Cancel \/ UNCHANGED vars
           \/ \E m \in Command \cup Packet : Arrive(m)
           \/ \E c \in Control : Order(c)
  BY <1>3, OutsideStep
<1> QED
  BY <1>1, <1>2, <1>3 DEF Next

\* Every channel keeps to its room, the instances started are those the inputs
\* paid for, and what the loop has at hand is a message it can handle (run,
\* dispatch, start_group, whatever arrives and in whatever order).
THEOREM TypeCorrect == Spec => []TypeOK
<1>1. Spec => []IInv
  BY InvInit, InvStep, PTL DEF Spec
<1>2. IInv => TypeOK
  BY DEF IInv
<1> QED
  BY <1>1, <1>2, PTL
-----------------------------------------------------------------------------
(***************************************************************************)
(* What is live is what the service runs.                                  *)
(***************************************************************************)

\* A step leaves instances and tokens alone, unless it stops a group, starts
\* one, ends the loop or cancels the service.
LEMMA TokenSteps ==
    ASSUME IInv, [Next]_vars
    PROVE  \/ UNCHANGED <<handle, made, grp, cancelled, stopping>>
           \/ \E g \in Group : Stop(g) /\ stopping' = stopping
           \/ Register \/ Ends \/ Cancel
<1>1. CASE UNCHANGED vars
  BY <1>1 DEF vars, svs
<1>2. CASE TakeJoin \/ TakeFetch \/ TakePush \/ TakeRefused \/ TakeInterest
           \/ TakeSync \/ TakeData
  BY <1>2 DEF TakeJoin, TakeFetch, TakePush, TakeRefused, TakeInterest,
              TakeSync, TakeData, Take, Start, svs
<1>3. CASE StartInitial \/ Send \/ Route
  BY <1>3 DEF StartInitial, Send, Route, Start, svs
<1>4. CASE TakeControl
  <2>1. ctl \in Seq(Control) /\ ctl # <<>>
    BY <1>4 DEF TakeControl, IInv, TypeOK
  <2>2. Head(ctl) \in Control
    BY <2>1, HeadAndTail
  <2>3. stopping' = stopping /\ (Start(Head(ctl), "loop") \/ Stop(Head(ctl).of))
    BY <1>4 DEF TakeControl
  <2>4. Head(ctl).of \in Group
    BY <2>2 DEF Control
  <2> QED
    BY <2>3, <2>4 DEF Start, svs
<1>5. CASE TakeLeave
  <2>1. msg.of \in Group /\ stopping' = stopping
    BY <1>5, Taken, Kinds DEF TakeLeave
  <2> QED
    BY <1>5, <2>1 DEF TakeLeave, svs
<1>6. CASE \E s \in Svs : Instance(s)
  BY <1>6 DEF Instance, TaskEnds, Absorb, Update, Ask, Timeout
<1>7. CASE \/ Forward \/ Registered
           \/ \E m \in Command \cup Packet : Arrive(m)
           \/ \E c \in Control : Order(c)
  BY <1>7 DEF Forward, Registered, Arrive, Order, svs
<1> QED
  BY <1>1, <1>2, <1>3, <1>4, <1>5, <1>6, <1>7
     DEF Next, Driver, EndCancelled, EndClosed

LEMMA LiveInit == Init => LiveIsHandled
BY DEF Init, LiveIsHandled, Running

LEMMA LiveStep == IInv /\ LiveIsHandled /\ [Next]_vars => LiveIsHandled'
<1> SUFFICES ASSUME IInv, LiveIsHandled, [Next]_vars PROVE LiveIsHandled'
  OBVIOUS
<1>0. /\ handle \in [Group -> 0..made] /\ cancelled \in SUBSET (1..made)
      /\ made \in Nat /\ grp \in Seq(Group) /\ Len(grp) = made
      /\ stopping \in BOOLEAN
      /\ \A s \in 1..made : grp[s] \in Group
  BY Bounds DEF IInv, TypeOK
<1>1. CASE UNCHANGED <<handle, made, grp, cancelled, stopping>>
  BY <1>1 DEF LiveIsHandled, Running
<1>2. ASSUME NEW g \in Group, Stop(g), stopping' = stopping
      PROVE  LiveIsHandled'
  <2>1. /\ handle' = [handle EXCEPT ![g] = 0] /\ made' = made /\ grp' = grp
        /\ cancelled' = cancelled \cup ({handle[g]} \ {0})
    BY <1>2 DEF Stop
  <2>2. ASSUME NEW s \in 1..made', s \notin cancelled'
        PROVE  handle'[grp'[s]] = s /\ ~stopping'
    <3>1. handle[grp[s]] = s /\ ~stopping /\ s # handle[g]
      BY <2>1, <2>2 DEF LiveIsHandled
    <3> QED
      BY <1>0, <1>2, <2>1, <3>1
  <2>3. ASSUME NEW h \in Running'
        PROVE  grp'[handle'[h]] = h /\ (handle'[h] \in cancelled' => stopping')
    <3>1. h \in Running /\ h # g /\ handle'[h] = handle[h]
      BY <1>0, <2>1, <2>3 DEF Running
    <3>2. grp[handle[h]] = h /\ (handle[h] \in cancelled => stopping)
      BY <3>1 DEF LiveIsHandled
    <3>3. handle[h] # handle[g] \/ handle[g] = 0
      BY <3>1, <3>2 DEF LiveIsHandled, Running
    <3> QED
      BY <1>2, <2>1, <3>1, <3>2, <3>3 DEF Running
  <2> QED
    BY <2>2, <2>3 DEF LiveIsHandled
<1>3. CASE Register
  <2>1. /\ job.of \in Group /\ handle[job.of] = 0
        /\ made' = made + 1 /\ grp' = Append(grp, job.of)
        /\ handle' = [handle EXCEPT ![job.of] = made']
        /\ cancelled' = IF stopping THEN cancelled \cup {made'} ELSE cancelled
        /\ stopping' = stopping
    BY <1>3 DEF Register, IInv, JobInv, Running
  <2>2. grp'[made'] = job.of /\ \A s \in 1..made : grp'[s] = grp[s]
    BY <1>0, <2>1, AppendProperties
  <2> DEFINE live(n) == n \in cancelled' => stopping'
  <2>3. live(made') /\ \A n \in 1..made : live(n) <=> (n \in cancelled => stopping)
    BY <1>0, <2>1
  <2>4. ASSUME NEW s \in 1..made', s \notin cancelled'
        PROVE  handle'[grp'[s]] = s /\ ~stopping'
    <3>1. CASE s = made'
      BY <1>0, <2>1, <2>2, <2>4, <3>1
    <3>2. CASE s # made'
      <4>1. s \in 1..made /\ s \notin cancelled
        BY <1>0, <2>1, <2>4, <3>2
      <4>2. handle[grp[s]] = s /\ ~stopping /\ grp[s] \in Group
        BY <1>0, <4>1 DEF LiveIsHandled
      <4>3. grp[s] # job.of
        BY <2>1, <4>1, <4>2
      <4> QED
        BY <1>0, <2>1, <2>2, <4>1, <4>2, <4>3
    <3> QED
      BY <3>1, <3>2
  <2>5. ASSUME NEW h \in Running'
        PROVE  grp'[handle'[h]] = h /\ (handle'[h] \in cancelled' => stopping')
    <3>1. CASE h = job.of
      <4>1. handle'[h] = made'
        BY <1>0, <2>1, <3>1
      <4> QED
        BY <2>2, <2>3, <3>1, <4>1
    <3>2. CASE h # job.of
      <4>1. handle'[h] = handle[h] /\ h \in Running /\ handle[h] \in 1..made
        BY <1>0, <2>1, <2>5, <3>2 DEF Running
      <4>2. grp[handle[h]] = h /\ (handle[h] \in cancelled => stopping)
        BY <4>1 DEF LiveIsHandled
      <4>3. grp'[handle[h]] = h
        BY <2>2, <4>1, <4>2
      <4> QED
        BY <2>3, <4>1, <4>2, <4>3
    <3> QED
      BY <3>1, <3>2
  <2> QED
    BY <2>4, <2>5 DEF LiveIsHandled
<1>4. CASE Ends
  <2>1. /\ handle' = [g \in Group |-> 0] /\ made' = made /\ grp' = grp
        /\ cancelled' = cancelled \cup {handle[g] : g \in Running}
    BY <1>4 DEF Ends
  <2>2. Running' = {}
    BY <2>1 DEF Running
  <2>3. ASSUME NEW s \in 1..made' PROVE s \in cancelled'
    <3>1. CASE s \in cancelled
      BY <2>1, <3>1
    <3>2. CASE s \notin cancelled
      <4>1. handle[grp[s]] = s /\ grp[s] \in Group /\ s # 0
        BY <1>0, <2>1, <3>2 DEF LiveIsHandled
      <4>2. grp[s] \in Running
        BY <4>1 DEF Running
      <4> QED
        BY <2>1, <4>1, <4>2
    <3> QED
      BY <3>1, <3>2
  <2> QED
    BY <2>2, <2>3 DEF LiveIsHandled
<1>5. CASE Cancel
  BY <1>0, <1>5 DEF Cancel, LiveIsHandled, Running
<1> QED
  BY <1>1, <1>2, <1>3, <1>4, <1>5, TokenSteps

\* However joins, leaves, operator controls, rejoins and the end of the service
\* interleave, an instance whose token is live is the one the service runs for
\* its group, and a group it runs has a live token until the service stops
\* (start_group, stop_group and the end of run).
THEOREM LiveIsHandledCorrect == Spec => []LiveIsHandled
<1>1. Init => IInv /\ LiveIsHandled
  BY InvInit, LiveInit
<1>2. IInv /\ LiveIsHandled /\ [Next]_vars => (IInv /\ LiveIsHandled)'
  BY InvStep, LiveStep
<1> QED
  BY <1>1, <1>2, PTL DEF Spec
-----------------------------------------------------------------------------
(***************************************************************************)
(* The Repo's groups and the service's.                                    *)
(***************************************************************************)

\* What CopiesAgree says of one group.
Agrees(g) == g \in joined <=> g \in Running \/ (pc = "register" /\ job.of = g)

\* A step that neither joins, leaves, starts nor stops keeps the two sets; one
\* that does touches a single group.
LEMMA CopiesStep ==
    ASSUME IInv, CopiesAgree, [Next]_vars
    PROVE  CopiesAgree'
<1>0. pc # "ended" => \A g \in Group \ outband : Agrees(g)
  BY DEF CopiesAgree, Agrees
<1> SUFFICES ASSUME pc' # "ended", NEW g \in Group, g \notin outband'
             PROVE  Agrees(g)'
  BY DEF CopiesAgree, Agrees
<1>1. handle \in [Group -> 0..made] /\ joined \in SUBSET Group /\ made \in Nat
  BY Bounds DEF IInv, TypeOK
<1>2. CASE TakeJoin
  <2>1. /\ pc = "loop" /\ outband' = outband /\ msg.of \in Group
        /\ joined' = joined \cup {msg.of} /\ Start(msg, "send")
    BY <1>2, Taken, Kinds DEF TakeJoin
  <2>2. g \in joined <=> g \in Running
    BY <1>0, <2>1 DEF Agrees
  <2>3. Running' = Running
    BY <2>1 DEF Start, svs, Running
  <2> QED
    BY <2>1, <2>2, <2>3 DEF Agrees, Start, Await
<1>3. CASE TakeLeave
  <2>1. /\ pc = "loop" /\ outband' = outband /\ msg.of \in Group
        /\ joined' = joined \ {msg.of} /\ pc' = "send"
    BY <1>3, Taken, Kinds DEF TakeLeave, Await
  <2>2. g \in joined <=> g \in Running
    BY <1>0, <2>1 DEF Agrees
  <2>3. CASE msg.of \in joined
    <3>1. handle' = [handle EXCEPT ![msg.of] = 0]
      BY <1>3, <2>3 DEF TakeLeave, Stop
    <3>2. g \in Running' <=> g \in Running /\ g # msg.of
      BY <1>1, <3>1 DEF Running
    <3> QED
      BY <2>1, <2>2, <3>2 DEF Agrees
  <2>4. CASE msg.of \notin joined
    <3>1. Running' = Running
      BY <1>3, <2>4 DEF TakeLeave, svs, Running
    <3> QED
      BY <2>1, <2>2, <2>4, <3>1 DEF Agrees
  <2> QED
    BY <2>3, <2>4
<1>4. CASE StartInitial \/ TakeControl
  <2>1. PICK m : /\ outband' = outband \cup {m.of} /\ pc = "loop"
                 /\ joined' = joined
                 /\ Start(m, "loop") \/ (Stop(m.of) /\ Turn)
    <3>1. CASE StartInitial
      <4>1. [kind |-> "start", of |-> Head(initial)].of = Head(initial)
        OBVIOUS
      <4> QED
        BY <3>1, <4>1 DEF StartInitial
    <3>2. CASE TakeControl
      BY <3>2 DEF TakeControl, AtLoop
    <3> QED
      BY <1>4, <3>1, <3>2
  <2>2. g # m.of /\ (g \in joined <=> g \in Running)
    BY <1>0, <2>1 DEF Agrees
  <2>3. CASE Start(m, "loop")
    <3>1. Running' = Running /\ ~(pc' = "register" /\ job'.of = g)
      BY <2>2, <2>3 DEF Start, svs, Running, Await, Turn
    <3> QED
      BY <2>1, <2>2, <3>1 DEF Agrees
  <2>4. CASE Stop(m.of) /\ Turn
    <3>1. handle'[g] = handle[g] /\ pc' = "loop"
      BY <1>1, <2>2, <2>4 DEF Stop, Turn
    <3> QED
      BY <2>1, <2>2, <3>1 DEF Agrees, Running
  <2> QED
    BY <2>1, <2>3, <2>4
<1>5. CASE Register
  <2>1. /\ pc = "register" /\ joined' = joined /\ outband' = outband
        /\ handle' = [handle EXCEPT ![job.of] = made'] /\ made' = made + 1
        /\ pc' # "register"
    BY <1>5 DEF Register, ghosts, Await, Turn
  <2>2. Agrees(g)
    BY <1>0, <2>1
  <2>3. g \in Running' <=> g \in Running \/ job.of = g
    BY <1>1, <2>1 DEF Running
  <2> QED
    BY <2>1, <2>2, <2>3 DEF Agrees
<1>6. CASE TakeFetch \/ TakePush \/ TakeRefused \/ TakeInterest \/ TakeSync
           \/ TakeData \/ Send \/ Route
  <2>1. /\ pc \in {"loop", "send", "route"} /\ joined' = joined
        /\ handle' = handle /\ outband' = outband
    BY <1>6 DEF TakeFetch, TakePush, TakeRefused, TakeInterest, TakeSync,
                TakeData, Take, AtLoop, Send, Route, svs, ghosts
  <2>2. pc' # "register"
    BY <1>6 DEF TakeFetch, TakePush, TakeRefused, TakeInterest, TakeSync,
                TakeData, RouteTo, Send, Route, Await, Turn
  <2> QED
    BY <1>0, <2>1, <2>2 DEF Agrees, Running
<1>7. CASE EndCancelled \/ EndClosed
  BY <1>7 DEF EndCancelled, EndClosed, Ends
<1>8. CASE \/ \E s \in Svs : Instance(s)
           \/ Forward \/ Registered \/ Cancel \/ UNCHANGED vars
           \/ \E m \in Command \cup Packet : Arrive(m)
           \/ \E c \in Control : Order(c)
  <2>1. <<joined, handle, outband, pc, job>>' = <<joined, handle, outband, pc, job>>
    BY <1>8 DEF Instance, TaskEnds, Absorb, Update, Ask, Timeout, Forward,
                Registered, Cancel, Arrive, Order, vars, svs, ghosts
  <2> QED
    BY <1>0, <2>1 DEF Agrees, Running
<1> QED
  BY <1>2, <1>3, <1>4, <1>5, <1>6, <1>7, <1>8 DEF Next, Driver

\* The Repo's groups are those the service runs, but for those started or stopped
\* other than by command and the join the loop is at: the refusal of a leave, a
\* repeated join and a failed one never part them (handle_sync_join and
\* handle_sync_leave against start_group and stop_group).
THEOREM CopiesAgreeCorrect == Spec => []CopiesAgree
<1>1. Init => IInv /\ CopiesAgree
  BY InvInit DEF Init, CopiesAgree, Running
<1>2. IInv /\ CopiesAgree /\ [Next]_vars => (IInv /\ CopiesAgree)'
  BY InvStep, CopiesStep
<1> QED
  BY <1>1, <1>2, PTL DEF Spec
-----------------------------------------------------------------------------
(***************************************************************************)
(* An instance keeps to its group, and replies reach their fetches.        *)
(***************************************************************************)

\* No name is under two groups: none of the groups is a prefix of another.
GroupsApart == \A n \in Name : \A g, h \in Prefixes[n] : g = h

Reply(f) == [kind |-> "data", of |-> f.name]

\* The reply to f is past the loop's choice, and before f's instance.
Routed(f) ==
    \/ pc = "route" /\ to = f.svs /\ job = Reply(f)
    \/ \E i \in 1..Len(netin[f.svs]) : netin[f.svs][i] = Reply(f)

\* A fetch whose reply was taken has asked for it, and need only wait.
HeardInv == ~missed /\ \A f \in fetch : f.heard => f.asked /\ Routed(f)

\* Instances keep their number and their group.
LEMMA UnderStays ==
    ASSUME IInv, [Next]_vars, NEW s, NEW n, Under(s, n)
    PROVE  Under(s, n)'
<1>0. made \in Nat /\ grp \in Seq(Group) /\ Len(grp) = made /\ s \in 1..made
  BY Bounds DEF IInv, TypeOK, Under
<1>1. CASE Register
  <2>1. made' = made + 1 /\ grp' = Append(grp, job.of)
    BY <1>1 DEF Register
  <2>2. s \in 1..made' /\ grp'[s] = grp[s]
    BY <1>0, <2>1, AppendProperties
  <2> QED
    BY <2>2 DEF Under
<1>2. CASE UNCHANGED <<made, grp>>
  BY <1>2 DEF Under
<1> QED
  BY <1>1, <1>2, TokenSteps DEF Stop, Ends, Cancel

\* The instance the loop picks for a name is one of a group the name is under.
LEMMA OwnersAreUnder ==
    ASSUME IInv, LiveIsHandled, NEW n, NEW g \in Owners(n)
    PROVE  Under(handle[g], n)
<1>1. handle \in [Group -> 0..made] /\ made \in Nat
  BY Bounds DEF IInv, TypeOK
<1>2. g \in Running /\ g \in Group /\ g \in Prefixes[n]
  BY DEF Owners, Running
<1> QED
  BY <1>1, <1>2 DEF Under, LiveIsHandled, Running

\* Where the loop's choice of an instance comes from.
LEMMA RouteSteps ==
    ASSUME IInv, [Next]_vars, pc' = "route"
    PROVE  \/ pc = "route" /\ to' = to /\ job' = job
           \/ \E g \in Owners(job'.of) : to' = handle[g]
<1>1. CASE TakeInterest \/ TakeSync \/ TakeData
  <2>1. msg \in Packet /\ RouteTo(msg)
    <3>1. \/ Take("interest") \/ Take("sync") \/ Take("data")
      BY <1>1 DEF TakeInterest, TakeSync, TakeData
    <3>2. msg \in Packet
      BY <3>1, Taken, Kinds
    <3>3. pc' # "send"
      OBVIOUS
    <3> QED
      BY <1>1, <3>2, <3>3 DEF TakeInterest, TakeSync, TakeData, Await
  <2> QED
    BY <2>1, Routes
<1>2. CASE StartInitial \/ TakeControl \/ TakeJoin \/ TakeLeave \/ TakeFetch
           \/ TakePush \/ TakeRefused \/ Register \/ Send \/ Route
  BY <1>2 DEF StartInitial, TakeControl, TakeJoin, TakeLeave, TakeFetch,
              TakePush, TakeRefused, Register, Send, Route, Start, Await, Turn
<1>3. CASE EndCancelled \/ EndClosed
  BY <1>3 DEF EndCancelled, EndClosed, Ends
<1>4. CASE \/ \E s \in Svs : Instance(s)
           \/ Forward \/ Registered \/ Cancel \/ UNCHANGED vars
           \/ \E m \in Command \cup Packet : Arrive(m)
           \/ \E c \in Control : Order(c)
  BY <1>4 DEF Instance, TaskEnds, Absorb, Update, Ask, Timeout, Forward,
              Registered, Cancel, Arrive, Order, vars
<1> QED
  BY <1>1, <1>2, <1>3, <1>4 DEF Next, Driver

\* The instances' channels fill from the loop and empty from the front.
LEMMA NetSteps ==
    ASSUME IInv, [Next]_vars
    PROVE  \/ UNCHANGED netin
           \/ Route
           \/ \E s \in Svs : Absorb(s)
<1>1. CASE Driver /\ ~Route
  BY <1>1 DEF Driver, StartInitial, TakeControl, TakeJoin, TakeLeave, TakeFetch,
              TakePush, TakeRefused, TakeInterest, TakeSync, TakeData, Take,
              Register, Send, EndCancelled, Ends, chans
<1>2. CASE EndClosed
  BY <1>2 DEF EndClosed, Ends
<1>3. ASSUME NEW s \in Svs, Instance(s) PROVE UNCHANGED netin \/ Absorb(s)
  BY <1>3 DEF Instance, TaskEnds, Update, Ask, Timeout, chans
<1>4. CASE \/ Forward \/ Registered \/ Cancel \/ UNCHANGED vars
           \/ \E m \in Command \cup Packet : Arrive(m)
           \/ \E c \in Control : Order(c)
  BY <1>4 DEF Forward, Registered, Cancel, Arrive, Order, vars, chans
<1> QED
  BY <1>1, <1>2, <1>3, <1>4 DEF Next

\* A fetch is there from before, or is new: a BlobFetch's of a group that runs,
\* or a task's of what its instance heard of.
LEMMA FetchSteps ==
    ASSUME IInv, [Next]_vars, NEW f \in fetch'
    PROVE  \/ \E e \in fetch :
                /\ f.svs = e.svs /\ f.name = e.name
                /\ e.asked => f.asked
                /\ \/ f.heard = e.heard
                   \/ TakeData
           \/ /\ ~f.heard
              /\ \/ \E g \in Owners(f.name) : f.svs = handle[g]
                 \/ f.svs \in Svs /\ f.name \in told[f.svs]
<1>0. fetch \in SUBSET Fetch
  BY DEF IInv, TypeOK
<1>1. CASE fetch' \subseteq fetch
  BY <1>1
<1>2. CASE TakeFetch
  <2>1. CASE Owners(msg.of) = {}
    BY <1>1, <1>2, <2>1 DEF TakeFetch
  <2>2. CASE Owners(msg.of) # {}
    <3>1. PICK g \in Owners(msg.of) :
            fetch' = fetch \cup {[svs |-> handle[g], name |-> msg.of,
                                  by |-> "blob", asked |-> FALSE,
                                  heard |-> FALSE]}
      BY <1>2, <2>2 DEF TakeFetch
    <3>2. CASE f \in fetch
      BY <3>2
    <3>3. CASE f \notin fetch
      BY <3>1, <3>3
    <3> QED
      BY <3>2, <3>3
  <2> QED
    BY <2>1, <2>2
<1>3. CASE TakeData
  <2>1. PICK e \in fetch :
          f = [e EXCEPT !.heard = e.heard \/ /\ e.asked /\ e.name = msg.of
                                             /\ handle[grp[e.svs]] = e.svs]
    BY <1>3 DEF TakeData
  <2>2. f.svs = e.svs /\ f.name = e.name /\ f.asked = e.asked
    BY <1>0, <2>1 DEF Fetch
  <2> QED
    BY <1>3, <2>2
<1>4. ASSUME NEW s \in Svs, NEW n \in Name, Update(s, n)
      PROVE  \/ f \in fetch
             \/ ~f.heard /\ f.svs \in Svs /\ f.name \in told[f.svs]
  BY <1>4 DEF Update
<1>5. ASSUME NEW d \in fetch, Ask(d)
      PROVE  \E e \in fetch : /\ f.svs = e.svs /\ f.name = e.name
                              /\ e.asked => f.asked
                              /\ f.heard = e.heard
  <2>1. CASE d.name \in store
    BY <1>5, <2>1 DEF Ask, EndFetches
  <2>2. CASE d.name \notin store
    <3>1. f \in fetch \/ f = [d EXCEPT !.asked = TRUE]
      BY <1>5, <2>2 DEF Ask
    <3>2. f = [d EXCEPT !.asked = TRUE] =>
            f.svs = d.svs /\ f.name = d.name /\ f.asked /\ f.heard = d.heard
      BY <1>0 DEF Fetch
    <3> QED
      BY <3>1, <3>2
  <2> QED
    BY <2>1, <2>2
<1>6. CASE (Driver /\ ~TakeFetch /\ ~TakeData) \/ EndClosed
  <2>1. fetch' = fetch
    BY <1>6 DEF Driver, StartInitial, TakeControl, TakeJoin, TakeLeave,
                TakePush, TakeRefused, TakeInterest, TakeSync, Register,
                Send, Route, EndCancelled, EndClosed, Ends
  <2> QED
    BY <1>1, <2>1
<1>7. ASSUME NEW s \in Svs, \/ TaskEnds(s) \/ Absorb(s)
                            \/ \E d \in fetch : Timeout(d)
      PROVE  fetch' \subseteq fetch
  BY <1>7 DEF TaskEnds, Absorb, Timeout, EndFetches
<1>8. CASE \/ Forward \/ Registered \/ Cancel \/ UNCHANGED vars
           \/ \E m \in Command \cup Packet : Arrive(m)
           \/ \E c \in Control : Order(c)
  <2>1. fetch' = fetch
    BY <1>8 DEF Forward, Registered, Cancel, Arrive, Order, vars
  <2> QED
    BY <1>1, <2>1
<1>9. CASE \E s \in Svs : Instance(s)
  BY <1>1, <1>4, <1>5, <1>7, <1>9 DEF Instance
<1> QED
  BY <1>2, <1>3, <1>6, <1>8, <1>9 DEF Next

\* What an instance's updates tell of came through its channel.
LEMMA ToldSteps ==
    ASSUME IInv, [Next]_vars, NEW s \in Svs, NEW n \in told'[s]
    PROVE  n \in told[s] \/ (netin[s] # <<>> /\ n = Head(netin[s]).of)
<1>0. told \in [Svs -> SUBSET Name]
  BY DEF IInv, TypeOK
<1>1. CASE told' = told
  BY <1>1
<1>2. ASSUME NEW t \in Svs, NEW m \in Name, Update(t, m)
      PROVE  n \in told[s]
  BY <1>0, <1>2 DEF Update
<1>3. ASSUME NEW t \in Svs, Absorb(t)
      PROVE  n \in told[s] \/ (netin[s] # <<>> /\ n = Head(netin[s]).of)
  BY <1>0, <1>3 DEF Absorb
<1>4. CASE Driver \/ EndClosed
  <2>1. told' = told
    <3>1. CASE TakeControl
      BY <3>1 DEF TakeControl, Start, Stop, svs
    <3>2. CASE ~TakeControl
      BY <1>4, <3>2 DEF Driver, StartInitial, TakeJoin, TakeLeave,
                TakeFetch, TakePush, TakeRefused, TakeInterest, TakeSync,
                TakeData, Register, Send, Route, EndCancelled, EndClosed, Ends,
                Start, Stop, svs
    <3> QED
      BY <3>1, <3>2
  <2> QED
    BY <1>1, <2>1
<1>5. ASSUME NEW t \in Svs, TaskEnds(t) \/ \E d \in fetch : Ask(d) \/ Timeout(d)
      PROVE  told' = told
  BY <1>5 DEF TaskEnds, Ask, Timeout
<1>6. CASE \/ Forward \/ Registered \/ Cancel \/ UNCHANGED vars
           \/ \E m \in Command \cup Packet : Arrive(m)
           \/ \E c \in Control : Order(c)
  BY <1>1, <1>6 DEF Forward, Registered, Cancel, Arrive, Order, vars, svs
<1>7. CASE \E t \in Svs : Instance(t)
  BY <1>1, <1>2, <1>3, <1>5, <1>7 DEF Instance
<1> QED
  BY <1>4, <1>6, <1>7 DEF Next

\* The loop hands what it has at hand to an instance that was started.
LEMMA Hands ==
    ASSUME IInv, Route
    PROVE  /\ pc = "route" /\ job \in Packet /\ to \in Svs
           /\ netin' = [netin EXCEPT ![to] = Append(netin[to], job)]
<1>1. pc = "route" /\ netin' = [netin EXCEPT ![to] = Append(netin[to], job)]
  BY DEF Route
<1>2. job \in Packet /\ to \in 1..made
  BY <1>1 DEF IInv, JobInv
<1>3. made \in 0..MaxSvs
  BY DEF IInv, TypeOK
<1>4. to \in Svs
  BY <1>2, <1>3, Bounds DEF Svs
<1> QED
  BY <1>1, <1>2, <1>4

LEMMA KeepsStep ==
    ASSUME IInv, LiveIsHandled, KeepsToGroup, [Next]_vars
    PROVE  KeepsToGroup'
<1>0. /\ netin \in [Svs -> Seq(Packet)] /\ made \in Nat
      /\ \A s \in Svs : Len(netin[s]) \in Nat
  BY Bounds, LenProperties DEF IInv, TypeOK
<1>1. ASSUME pc' = "route" PROVE Under(to, job.of)'
  <2>1. CASE pc = "route" /\ to' = to /\ job' = job
    <3>1. Under(to, job.of)
      BY <2>1 DEF KeepsToGroup
    <3> QED
      BY <2>1, <3>1, UnderStays DEF Under
  <2>2. ASSUME NEW g \in Owners(job'.of), to' = handle[g] PROVE Under(to, job.of)'
    <3>1. Under(handle[g], job'.of)
      BY OwnersAreUnder
    <3> QED
      BY <2>2, <3>1, UnderStays DEF Under
  <2> QED
    BY <1>1, <2>1, <2>2, RouteSteps
<1>2. ASSUME NEW s \in Svs, NEW i \in 1..Len(netin'[s])
      PROVE  Under(s, netin[s][i].of)'
  <2>1. ASSUME NEW j \in 1..Len(netin[s]), netin'[s][i] = netin[s][j]
        PROVE  Under(s, netin[s][i].of)'
    <3>1. Under(s, netin[s][j].of)
      BY DEF KeepsToGroup
    <3> QED
      BY <2>1, <3>1, UnderStays DEF Under
  <2>2. CASE UNCHANGED netin
    BY <2>1, <2>2
  <2>3. CASE Route
    <3>1. /\ pc = "route" /\ job \in Packet /\ to \in Svs
          /\ netin' = [netin EXCEPT ![to] = Append(netin[to], job)]
      BY <2>3, Hands
    <3>2. CASE s # to
      BY <1>0, <2>1, <3>1, <3>2
    <3>3. CASE s = to
      <4>1. netin'[s] = Append(netin[s], job) /\ Len(netin'[s]) = Len(netin[s]) + 1
        BY <1>0, <3>1, <3>3, Appended
      <4>2. CASE i <= Len(netin[s])
        <5>1. i \in 1..Len(netin[s])
          BY <1>0, <4>2
        <5>2. netin'[s][i] = netin[s][i]
          BY <1>0, <3>1, <4>1, <5>1, AppendProperties
        <5> QED
          BY <2>1, <5>1, <5>2
      <4>3. CASE i > Len(netin[s])
        <5>1. i = Len(netin[s]) + 1
          BY <1>0, <4>1, <4>3
        <5>2. netin'[s][i] = job
          BY <1>0, <3>1, <4>1, <5>1, AppendProperties
        <5>3. Under(s, job.of)
          BY <3>1, <3>3 DEF KeepsToGroup
        <5> QED
          BY <5>2, <5>3, UnderStays DEF Under
      <4> QED
        BY <1>0, <4>2, <4>3
    <3> QED
      BY <3>2, <3>3
  <2>4. ASSUME NEW t \in Svs, Absorb(t) PROVE Under(s, netin[s][i].of)'
    <3>1. netin[t] # <<>> /\ netin' = [netin EXCEPT ![t] = Tail(netin[t])]
      BY <2>4 DEF Absorb
    <3>2. CASE s # t
      BY <1>0, <2>1, <3>1, <3>2
    <3>3. CASE s = t
      <4>1. netin'[s] = Tail(netin[s]) /\ Len(netin'[s]) = Len(netin[s]) - 1
        BY <1>0, <3>1, <3>3, HeadAndTail
      <4>2. i + 1 \in 1..Len(netin[s]) /\ netin'[s][i] = netin[s][i + 1]
        BY <1>0, <3>1, <3>3, <4>1, HeadTailProperties
      <4> QED
        BY <2>1, <4>2
    <3> QED
      BY <3>2, <3>3
  <2> QED
    BY <2>2, <2>3, <2>4, NetSteps
<1>3. ASSUME NEW s \in Svs, NEW n \in told'[s] PROVE Under(s, n)'
  <2>1. CASE n \in told[s]
    BY <2>1, UnderStays DEF KeepsToGroup
  <2>2. CASE netin[s] # <<>> /\ n = Head(netin[s]).of
    <3>1. 1 \in 1..Len(netin[s]) /\ Head(netin[s]) = netin[s][1]
      BY <1>0, <2>2, HeadTailProperties, LenProperties
    <3>2. Under(s, n)
      BY <2>2, <3>1 DEF KeepsToGroup
    <3> QED
      BY <3>2, UnderStays
  <2> QED
    BY <2>1, <2>2, ToldSteps
<1>4. ASSUME NEW f \in fetch' PROVE Under(f.svs, f.name)'
  <2>1. ASSUME NEW e \in fetch, f.svs = e.svs, f.name = e.name
        PROVE  Under(f.svs, f.name)'
    <3>1. Under(f.svs, f.name)
      BY <2>1 DEF KeepsToGroup
    <3> QED
      BY <3>1, UnderStays
  <2>2. ASSUME NEW g \in Owners(f.name), f.svs = handle[g]
        PROVE  Under(f.svs, f.name)'
    BY <2>2, OwnersAreUnder, UnderStays
  <2>3. ASSUME f.svs \in Svs, f.name \in told[f.svs]
        PROVE  Under(f.svs, f.name)'
    BY <2>3, UnderStays DEF KeepsToGroup
  <2> QED
    BY <2>1, <2>2, <2>3, FetchSteps
<1> QED
  BY <1>1, <1>2, <1>3, <1>4 DEF KeepsToGroup

LEMMA KeepsInit == Init => KeepsToGroup
BY DEF Init, KeepsToGroup

\* Whatever is left, joined again or stopped while packets and names wait, an
\* instance is handed, hears of and fetches only what is under the group it was
\* started for (route_to_group, drive_pending_fetches).
THEOREM KeepsToGroupCorrect == Spec => []KeepsToGroup
<1>1. Init => IInv /\ LiveIsHandled /\ KeepsToGroup
  BY InvInit, LiveInit, KeepsInit
<1>2. IInv /\ LiveIsHandled /\ KeepsToGroup /\ [Next]_vars
        => (IInv /\ LiveIsHandled /\ KeepsToGroup)'
  BY InvStep, LiveStep, KeepsStep
<1> QED
  BY <1>1, <1>2, PTL DEF Spec

\* A reply on its way to a fetch stays on its way, until the instance takes it.
LEMMA RoutedStays ==
    ASSUME IInv, [Next]_vars, NEW f, f.svs \in Svs, Routed(f)
    PROVE  \/ Routed(f)'
           \/ Absorb(f.svs) /\ Head(netin[f.svs]) = Reply(f)
<1>0. /\ netin \in [Svs -> Seq(Packet)] /\ made \in Nat
      /\ \A s \in Svs : Len(netin[s]) \in Nat
  BY Bounds, LenProperties DEF IInv, TypeOK
<1> DEFINE s == f.svs
<1>1. CASE Route
  <2>1. /\ pc = "route" /\ job \in Packet /\ to \in Svs
        /\ netin' = [netin EXCEPT ![to] = Append(netin[to], job)]
    BY <1>1, Hands
  <2>2. CASE to = s
    <3>1. /\ netin'[s] = Append(netin[s], job) /\ Len(netin'[s]) = Len(netin[s]) + 1
          /\ netin'[s][Len(netin[s]) + 1] = job
          /\ \A i \in 1..Len(netin[s]) : netin'[s][i] = netin[s][i]
      BY <1>0, <2>1, <2>2, Appended, AppendProperties
    <3>2. \E i \in 1..Len(netin'[s]) : netin'[s][i] = Reply(f)
      <4>1. CASE job = Reply(f)
        BY <1>0, <3>1, <4>1
      <4>2. ASSUME NEW i \in 1..Len(netin[s]), netin[s][i] = Reply(f)
            PROVE  \E j \in 1..Len(netin'[s]) : netin'[s][j] = Reply(f)
        BY <1>0, <3>1, <4>2
      <4> QED
        BY <4>1, <4>2 DEF Routed
    <3> QED
      BY <3>2 DEF Routed, Reply
  <2>3. CASE to # s
    BY <1>0, <2>1, <2>3 DEF Routed, Reply
  <2> QED
    BY <2>2, <2>3
<1>2. ASSUME ~Route, pc = "route" PROVE <<pc, to, job>>' = <<pc, to, job>>
  <2>1. CASE \E t \in Svs : Instance(t)
    BY <2>1 DEF Instance, TaskEnds, Absorb, Update, Ask, Timeout
  <2>2. CASE \/ Forward \/ Registered \/ Cancel \/ UNCHANGED vars
             \/ \E m \in Command \cup Packet : Arrive(m)
             \/ \E c \in Control : Order(c)
    BY <2>2 DEF Forward, Registered, Cancel, Arrive, Order, vars
  <2>3. ~(Driver \/ EndClosed)
    BY <1>2 DEF Driver, StartInitial, TakeControl, TakeJoin, TakeLeave, TakeFetch,
                TakePush, TakeRefused, TakeInterest, TakeSync, TakeData, Take,
                Register, Send, EndCancelled, EndClosed, AtLoop
  <2> QED
    BY <2>1, <2>2, <2>3 DEF Next
<1>3. CASE pc = "route" /\ to = s /\ job = Reply(f) /\ ~Route
  BY <1>2, <1>3 DEF Routed, Reply
<1>4. ASSUME NEW i \in 1..Len(netin[s]), netin[s][i] = Reply(f), ~Route
      PROVE  Routed(f)' \/ (Absorb(s) /\ Head(netin[s]) = Reply(f))
  <2>1. CASE UNCHANGED netin
    BY <1>4, <2>1 DEF Routed, Reply
  <2>2. ASSUME NEW t \in Svs, Absorb(t)
        PROVE  Routed(f)' \/ (Absorb(s) /\ Head(netin[s]) = Reply(f))
    <3>1. netin[t] # <<>> /\ netin' = [netin EXCEPT ![t] = Tail(netin[t])]
      BY <2>2 DEF Absorb
    <3>2. CASE s # t
      BY <1>0, <1>4, <3>1, <3>2 DEF Routed, Reply
    <3>3. CASE s = t /\ i = 1
      BY <1>0, <1>4, <2>2, <3>1, <3>3, HeadTailProperties
    <3>4. CASE s = t /\ i # 1
      <4>1. netin'[s] = Tail(netin[s]) /\ Len(netin'[s]) = Len(netin[s]) - 1
        BY <1>0, <3>1, <3>4, HeadAndTail
      <4>2. i - 1 \in 1..Len(netin'[s])
        BY <1>0, <3>4, <4>1
      <4>3. netin'[s][i - 1] = netin[s][i]
        BY <1>0, <3>1, <3>4, <4>1, <4>2, HeadTailProperties
      <4> QED
        BY <1>4, <4>2, <4>3 DEF Routed, Reply
    <3> QED
      BY <3>2, <3>3, <3>4
  <2> QED
    BY <1>4, <2>1, <2>2, NetSteps
<1> QED
  BY <1>1, <1>3, <1>4 DEF Routed

\* An instance that takes the reply ends every fetch that waits for it.
LEMMA AbsorbEnds ==
    ASSUME NEW f \in fetch, f.asked, Absorb(f.svs),
           Head(netin[f.svs]) = Reply(f)
    PROVE  f \notin fetch'
<1>1. Head(netin[f.svs]).kind = "data" /\ Head(netin[f.svs]).of = f.name
  BY DEF Reply
<1> QED
  BY <1>1 DEF Absorb, EndFetches

LEMMA HeardStep ==
    ASSUME GroupsApart, IInv, LiveIsHandled, KeepsToGroup, HeardInv, [Next]_vars
    PROVE  HeardInv'
<1>0. /\ fetch \in SUBSET Fetch /\ made \in Nat /\ 1..made \subseteq Svs
      /\ handle \in [Group -> 0..made] /\ grp \in Seq(Group) /\ Len(grp) = made
      /\ \A s \in 1..made : grp[s] \in Group
  BY Bounds DEF IInv, TypeOK, Svs
<1>1. \A f \in fetch : Under(f.svs, f.name) /\ f.svs \in Svs
  BY <1>0 DEF KeepsToGroup, Under
<1>2. ~missed'
  <2>1. ASSUME NEW f \in fetch, Timeout(f) PROVE ~missed'
    <3>1. f.heard => Coming(f)
      BY DEF HeardInv, Routed, Coming, Reply
    <3> QED
      BY <2>1, <3>1 DEF Timeout, HeardInv
  <2>2. CASE Driver \/ EndClosed
    BY <2>2 DEF Driver, StartInitial, TakeControl, TakeJoin, TakeLeave, TakeFetch,
                TakePush, TakeRefused, TakeInterest, TakeSync, TakeData, Take,
                Register, Send, Route, EndCancelled, EndClosed, Ends, ghosts,
                HeardInv
  <2>3. ASSUME NEW s \in Svs, \/ TaskEnds(s) \/ Absorb(s)
                              \/ \E n \in Name : Update(s, n)
                              \/ \E f \in fetch : Ask(f)
        PROVE  ~missed'
    BY <2>3 DEF TaskEnds, Absorb, Update, Ask, ghosts, HeardInv
  <2>4. CASE \/ Forward \/ Registered \/ Cancel \/ UNCHANGED vars
             \/ \E m \in Command \cup Packet : Arrive(m)
             \/ \E c \in Control : Order(c)
    BY <2>4 DEF Forward, Registered, Cancel, Arrive, Order, vars, ghosts, HeardInv
  <2> QED
    BY <2>1, <2>2, <2>3, <2>4 DEF Next, Instance
<1>3. ASSUME NEW f \in fetch', f.heard, ~TakeData
      PROVE  f.asked /\ Routed(f)'
  <2>1. PICK e \in fetch : /\ f.svs = e.svs /\ f.name = e.name
                           /\ e.asked => f.asked
                           /\ f.heard = e.heard
    BY <1>3, FetchSteps
  <2>2. f.asked /\ e.asked /\ Routed(e)
    BY <1>3, <2>1 DEF HeardInv
  <2>3. Reply(f) = Reply(e)
    BY <2>1 DEF Reply
  <2>4. CASE Routed(e)'
    BY <2>1, <2>2, <2>3, <2>4 DEF Routed, Reply
  <2>5. CASE Absorb(e.svs) /\ Head(netin[e.svs]) = Reply(e)
    <3>1. f \in fetch
      BY <2>5 DEF Absorb, EndFetches
    <3>2. FALSE
      BY <2>1, <2>2, <2>3, <2>5, <3>1, AbsorbEnds
    <3> QED
      BY <3>2
  <2> QED
    BY <1>1, <2>2, <2>4, <2>5, RoutedStays
<1>4. ASSUME NEW f \in fetch', f.heard, TakeData
      PROVE  f.asked /\ Routed(f)'
  <2>1. PICK e \in fetch :
          f = [e EXCEPT !.heard = e.heard \/ /\ e.asked /\ e.name = msg.of
                                             /\ handle[grp[e.svs]] = e.svs]
    BY <1>4 DEF TakeData
  <2>2. /\ f.svs = e.svs /\ f.name = e.name /\ f.asked = e.asked
        /\ f.heard = (e.heard \/ /\ e.asked /\ e.name = msg.of
                                 /\ handle[grp[e.svs]] = e.svs)
    BY <1>0, <2>1 DEF Fetch
  <2>3. Reply(f) = Reply(e)
    BY <2>2 DEF Reply
  <2>4. CASE e.heard
    <3>1. e.asked /\ Routed(e)
      BY <2>4 DEF HeardInv
    <3>2. netin' = netin
      BY <1>4 DEF TakeData, Take
    <3>3. pc = "loop"
      BY <1>4 DEF TakeData, Take, AtLoop
    <3> QED
      BY <2>2, <2>3, <3>1, <3>2, <3>3 DEF Routed, Reply
  <2>5. CASE e.asked /\ e.name = msg.of /\ handle[grp[e.svs]] = e.svs
    <3>1. Take("data") /\ RouteTo(msg)
      BY <1>4 DEF TakeData
    <3>2. msg \in Packet /\ msg.kind = "data" /\ msg.of \in Name
      BY <3>1, Taken, Kinds
    <3>3. msg = Reply(e)
      BY <2>5, <3>2 DEF Packet, Reply
    <3>4. e.svs \in 1..made /\ grp[e.svs] \in Prefixes[msg.of]
      BY <1>1, <2>5 DEF Under
    <3>5. grp[e.svs] \in Owners(msg.of)
      BY <1>0, <2>5, <3>4 DEF Owners, Running
    <3>6. \A g \in Owners(msg.of) : g = grp[e.svs]
      BY <3>2, <3>4 DEF Owners, GroupsApart
    <3>7. pc' = "route" /\ job' = msg /\ to' = e.svs
      BY <2>5, <3>1, <3>5, <3>6 DEF RouteTo, Await
    <3> QED
      BY <2>2, <2>3, <2>5, <3>3, <3>7 DEF Routed, Reply
  <2> QED
    BY <1>4, <2>2, <2>4, <2>5
<1> QED
  BY <1>2, <1>3, <1>4 DEF HeardInv

\* Where no group is a prefix of another, a reply that the loop takes while the
\* fetch's instance runs is on its way to that instance until it takes it, across
\* full channels, leaves, rejoins and the end of the service: the fetch never times
\* out all the same (route_to_group).
THEOREM RepliesReachCorrect ==
    ASSUME GroupsApart
    PROVE  Spec => []RepliesReach
<1> DEFINE RInv == IInv /\ LiveIsHandled /\ KeepsToGroup /\ HeardInv
<1>1. Init => RInv
  BY InvInit, LiveInit, KeepsInit DEF HeardInv, Init
<1>2. RInv /\ [Next]_vars => RInv'
  BY InvStep, LiveStep, KeepsStep, HeardStep
<1>3. RInv => RepliesReach
  BY DEF HeardInv, RepliesReach
<1> QED
  BY <1>1, <1>2, <1>3, PTL DEF Spec
=============================================================================
