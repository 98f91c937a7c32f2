---------------------------- MODULE IngestProofs ----------------------------
(***************************************************************************)
(* Proofs about Ingest: every variable keeps its type, the vector of a     *)
(* running two-phase instance counts only what the store has, and the loop *)
(* implements the promise HonestVector states.                             *)
(*                                                                         *)
(* The vector moves at Ack, by what an update said and a check found some  *)
(* steps ago, so the invariant follows an update from Hear on: it starts   *)
(* at most one past the vector, and so does what is left of it, since the  *)
(* loop acknowledges a publication before it goes on to the next.          *)
(***************************************************************************)
EXTENDS Ingest, TLAPS

\* An update counts publications that exist.
Real(u) == 1 <= u.low /\ u.low <= u.high /\ u.high <= Last[u.pub]

Busy(i) == at[i] \in {"fetch", "check", "ack"}

\* What waits for a loop, or is left of the update it is at, is real.
UpdatesReal ==
    \A i \in Member :
        /\ \A k \in 1..Len(queue[i]) : Real(queue[i][k])
        /\ Busy(i) => job[i] \in Updates /\ Real(job[i])

\* An instance not yet made is untouched.
Unmade ==
    \A i \in Member : i > made =>
        vec[i] = Zero /\ queue[i] = <<>> /\ at[i] = "idle"

\* Only two-phase loops check; what one acknowledges is in the store.
Checked ==
    \A i \in Member :
        /\ at[i] \in {"check", "ack"} => mode = "two-phase"
        /\ at[i] = "ack" => Current(i) \in store

\* Two-phase, no update starts more than one past the vector.
Next1(i, u) == u.low <= vec[i][u.pub] + 1

NoneAhead ==
    mode = "two-phase" =>
        \A i \in Member :
            /\ \A k \in 1..Len(queue[i]) : Next1(i, queue[i][k])
            /\ Busy(i) => Next1(i, job[i])

\* A running two-phase instance holds what its vector counts.
Held ==
    mode = "two-phase" =>
        \A i \in Running, p \in Publisher, q \in Nat :
            1 <= q /\ q <= vec[i][p] => <<p, q>> \in store

IInv == TypeOK /\ UpdatesReal /\ Unmade /\ Checked /\ NoneAhead /\ Held
-----------------------------------------------------------------------------
\* The publication a busy loop is at exists.
LEMMA CurrentExists ==
    ASSUME TypeOK, UpdatesReal, NEW i \in Member, Busy(i)
    PROVE  /\ job[i] \in Updates /\ Real(job[i])
           /\ Current(i) \in Publications
<1>1. job[i] \in Updates /\ Real(job[i])
  BY DEF UpdatesReal
<1>2. job[i].low \in 1..Last[job[i].pub] /\ job[i].pub \in Publisher
  BY <1>1, IngestAssumption DEF Real, Updates
<1> QED
  BY <1>1, <1>2 DEF Current, Publications

\* A publication, taken apart.
LEMMA Parts ==
    ASSUME NEW x \in Publications
    PROVE  /\ x = <<x[1], x[2]>>
           /\ x[1] \in Publisher /\ x[2] \in Nat
           /\ 1 <= x[2] /\ x[2] <= Last[x[1]]
  BY IngestAssumption DEF Publications

\* After a restart no loop runs, and none has an update.
LEMMA RestartStops ==
    ASSUME TypeOK, Unmade, Restart
    PROVE  /\ \A j \in Member :
                /\ at'[j] \in {"idle", "ended"}
                /\ j > made => at'[j] = "idle"
                /\ queue'[j] = <<>> /\ job'[j] = NoJob
           /\ Running' = {} /\ made' = made /\ vec' = vec /\ mode' = mode
<1>1. /\ made' = made /\ vec' = vec /\ mode' = mode
      /\ \A j \in Member : queue'[j] = <<>> /\ job'[j] = NoJob
      /\ \A j \in Member : at'[j] = IF j <= made THEN "ended" ELSE at[j]
  BY DEF Restart
<1>2. made \in Nat /\ made <= MaxJoins
  BY IngestAssumption DEF TypeOK
<1>3. \A j \in Member : j \in Nat /\ (j > made => at[j] = "idle")
  BY IngestAssumption DEF Unmade, Member
<1>4. \A j \in 1..made' : j \in Member /\ at'[j] = "ended"
  BY <1>1, <1>2, IngestAssumption DEF Member
<1> QED
  BY <1>1, <1>2, <1>3, <1>4 DEF Running

\* What hearing an entry changes: one queue and, eager, one vector.
LEMMA HearAdds ==
    ASSUME TypeOK, NEW i \in Member, NEW x \in Publications,
           Hear(i, x[1], x[2])
    PROVE  LET u == queue'[i][Len(queue[i]) + 1] IN
           /\ i \in Running /\ i <= made
           /\ u \in Updates /\ Real(u)
           /\ u.pub = x[1] /\ u.low = vec[i][x[1]] + 1
           /\ queue' \in [Member -> Seq(Updates)]
           /\ \A j \in Member : j # i => queue'[j] = queue[j]
           /\ Len(queue'[i]) = Len(queue[i]) + 1
           /\ \A k \in 1..Len(queue[i]) : queue'[i][k] = queue[i][k]
<1> DEFINE u == [pub |-> x[1], low |-> vec[i][x[1]] + 1, high |-> x[2]]
<1>1. x[1] \in Publisher /\ x[2] \in Nat /\ x[2] <= Last[x[1]]
  BY Parts
<1>2. vec[i][x[1]] \in Nat /\ vec[i][x[1]] < x[2]
  BY <1>1 DEF Hear, TypeOK
<1>3. u \in Updates /\ Real(u) /\ u.pub = x[1] /\ u.low = vec[i][x[1]] + 1
  BY <1>1, <1>2 DEF Updates, Real
<1>4. queue' = [queue EXCEPT ![i] = Append(queue[i], u)]
  BY DEF Hear, TypeOK
<1>5. queue \in [Member -> Seq(Updates)]
  BY DEF TypeOK
<1>6. i \in Running /\ i <= made
  BY IngestAssumption DEF Hear, Running, TypeOK
<1> HIDE DEF u
<1>7. queue[i] \in Seq(Updates) /\ Append(queue[i], u) \in Seq(Updates)
  BY <1>3, <1>5
<1>8. /\ Len(Append(queue[i], u)) = Len(queue[i]) + 1
      /\ \A k \in 1..Len(queue[i]) : Append(queue[i], u)[k] = queue[i][k]
      /\ Append(queue[i], u)[Len(queue[i]) + 1] = u
  BY <1>3, <1>7
<1>9. queue' \in [Member -> Seq(Updates)] /\ queue'[i] = Append(queue[i], u)
      /\ \A j \in Member : j # i => queue'[j] = queue[j]
  BY <1>4, <1>5, <1>7
<1> QED
  BY <1>3, <1>6, <1>8, <1>9

\* What taking an update changes: it goes from the queue to the loop.
LEMMA TakeTakes ==
    ASSUME TypeOK, UpdatesReal, NEW i \in Member, Take(i)
    PROVE  /\ Len(queue[i]) \in Nat \ {0}
           /\ job' = [job EXCEPT ![i] = queue[i][1]]
           /\ queue[i][1] \in Updates /\ Real(queue[i][1])
           /\ queue' \in [Member -> Seq(Updates)]
           /\ \A j \in Member : j # i => queue'[j] = queue[j]
           /\ Len(queue'[i]) = Len(queue[i]) - 1
           /\ \A k \in 1..Len(queue[i]) - 1 : queue'[i][k] = queue[i][k + 1]
<1>1. queue \in [Member -> Seq(Updates)] /\ queue[i] \in Seq(Updates)
  BY DEF TypeOK
<1>2. queue[i] # <<>> /\ queue' = [queue EXCEPT ![i] = Tail(queue[i])]
      /\ job' = [job EXCEPT ![i] = Head(queue[i])]
  BY <1>1 DEF Take
<1>3. /\ Len(queue[i]) \in Nat \ {0}
      /\ Head(queue[i]) = queue[i][1] /\ queue[i][1] \in Updates
      /\ Tail(queue[i]) \in Seq(Updates)
      /\ Len(Tail(queue[i])) = Len(queue[i]) - 1
      /\ \A k \in 1..Len(queue[i]) - 1 : Tail(queue[i])[k] = queue[i][k + 1]
  BY <1>1, <1>2
<1>4. Real(queue[i][1])
  BY <1>3 DEF UpdatesReal
<1>5. queue' \in [Member -> Seq(Updates)] /\ queue'[i] = Tail(queue[i])
      /\ \A j \in Member : j # i => queue'[j] = queue[j]
  BY <1>1, <1>2, <1>3
<1> QED
  BY <1>2, <1>3, <1>4, <1>5

\* The loop goes on to the next publication of its update, or is done.
LEMMA ForwardGoes ==
    ASSUME TypeOK, UpdatesReal, NEW i \in Member, Busy(i), Forward(i)
    PROVE  /\ \A j \in Member : j # i => at'[j] = at[j] /\ job'[j] = job[j]
           /\ \/ at'[i] = "idle"
              \/ /\ at'[i] = "fetch"
                 /\ job'[i] \in Updates /\ Real(job'[i])
                 /\ job'[i].low = job[i].low + 1 /\ job'[i].pub = job[i].pub
<1>1. job[i] \in Updates /\ Real(job[i])
  BY CurrentExists
<1>2. DOMAIN at = Member /\ DOMAIN job = Member
  BY DEF TypeOK
<1>3. CASE job[i].low < job[i].high
  <2>1. at' = [at EXCEPT ![i] = "fetch"]
        /\ job' = [job EXCEPT ![i] = [pub |-> job[i].pub, low |-> job[i].low + 1,
                                      high |-> job[i].high]]
    BY <1>1, <1>2, <1>3 DEF Forward, Goto, Updates
  <2>2. Last[job[i].pub] \in Nat
    BY <1>1, IngestAssumption DEF Updates
  <2> QED
    BY <1>1, <1>2, <1>3, <2>1, <2>2 DEF Updates, Real
<1>4. CASE ~ (job[i].low < job[i].high)
  BY <1>2, <1>4 DEF Forward, Break, Goto
<1> QED
  BY <1>3, <1>4

\* A step of a busy loop leaves its publication, its update, or both.
LEMMA BusySteps ==
    ASSUME TypeOK, UpdatesReal, NEW i \in Member,
           \/ Fetched(i) \/ FetchedNothing(i) \/ FetchFails(i)
           \/ Check(i) \/ Ack(i)
    PROVE  /\ Busy(i) /\ queue' = queue /\ made' = made /\ mode' = mode
           /\ \A j \in Member : j # i => at'[j] = at[j] /\ job'[j] = job[j]
           /\ \/ at'[i] = "idle"
              \/ at'[i] \in {"check", "ack"} /\ job'[i] = job[i]
              \/ /\ at'[i] = "fetch" /\ (mode = "eager" \/ at[i] = "ack")
                 /\ job'[i] \in Updates /\ Real(job'[i])
                 /\ job'[i].low = job[i].low + 1 /\ job'[i].pub = job[i].pub
<1>1. /\ Busy(i) /\ queue' = queue /\ made' = made /\ mode' = mode
      /\ DOMAIN at = Member /\ DOMAIN job = Member
  BY DEF Fetched, FetchedNothing, FetchFails, Check, Ack, Busy, TypeOK
<1>2. CASE Fetched(i) \/ FetchedNothing(i) \/ FetchFails(i)
  <2>1. AfterFetch(i)
    BY <1>2 DEF Fetched, FetchedNothing, FetchFails
  <2>2. CASE mode = "eager"
    BY <1>1, <2>1, <2>2, ForwardGoes DEF AfterFetch
  <2>3. CASE mode # "eager"
    BY <1>1, <2>1, <2>3 DEF AfterFetch, Goto
  <2> QED
    BY <2>2, <2>3
<1>3. CASE Check(i)
  BY <1>1, <1>3 DEF Check, Break, Goto
<1>4. CASE Ack(i)
  <2>1. Forward(i) /\ at[i] = "ack"
    BY <1>4 DEF Ack
  <2> QED
    BY <1>1, <2>1, ForwardGoes
<1> QED
  BY <1>2, <1>3, <1>4

-----------------------------------------------------------------------------
\* What is not made stays untouched.
LEMMA UnmadeStep ==
    ASSUME TypeOK, Unmade, [Next]_vars
    PROVE  Unmade'
<1>1. ASSUME NEW i \in Member, Take(i) PROVE Unmade'
  BY <1>1 DEF Take, Goto, TypeOK, Unmade, Running, Member, Zero
<1>2. ASSUME NEW i \in Member, Ends(i) PROVE Unmade'
  BY <1>2 DEF Ends, Goto, TypeOK, Unmade, Running, Member, Zero
<1>3. ASSUME NEW i \in Member, Fetched(i) PROVE Unmade'
  BY <1>3 DEF Fetched, AfterFetch, Forward, Break, Goto, TypeOK, Unmade, Running, Member, Zero
<1>4. ASSUME NEW i \in Member, FetchedNothing(i) PROVE Unmade'
  BY <1>4 DEF FetchedNothing, AfterFetch, Forward, Break, Goto, TypeOK, Unmade, Running, Member, Zero
<1>5. ASSUME NEW i \in Member, FetchFails(i) PROVE Unmade'
  BY <1>5 DEF FetchFails, AfterFetch, Forward, Break, Goto, TypeOK, Unmade, Running, Member, Zero
<1>6. ASSUME NEW i \in Member, Check(i) PROVE Unmade'
  BY <1>6 DEF Check, Break, Goto, TypeOK, Unmade, Running, Member, Zero
<1>7. ASSUME NEW i \in Member, Ack(i) PROVE Unmade'
  BY <1>7 DEF Ack, Acked, Forward, Break, Goto, TypeOK, Unmade, Running, Member, Zero
<1>8. ASSUME Join PROVE Unmade'
  BY <1>8 DEF Join, TypeOK, Unmade, Running, Member, Zero
<1>9. ASSUME Leave PROVE Unmade'
  BY <1>9 DEF Leave, TypeOK, Unmade, Running, Member, Zero
<1>10. ASSUME Restart PROVE Unmade'
  BY <1>10, RestartStops DEF Unmade
<1>11. ASSUME NEW x \in Publications,
              FetchedByName(x[1], x[2]) \/ Push(x[1], x[2])
       PROVE  Unmade'
  BY <1>11 DEF FetchedByName, Push, TypeOK, Unmade, Running, Member, Zero
<1>12. ASSUME NEW i \in Member, NEW x \in Publications, Hear(i, x[1], x[2]) PROVE Unmade'
<2>1. i <= made /\ made' = made /\ at' = at
      /\ \A j \in Member : j # i => queue'[j] = queue[j]
  BY <1>12, HearAdds DEF Hear
<2>2. \A j \in Member : j # i => vec'[j] = vec[j]
  BY <1>12 DEF Hear, TypeOK
<2>3. \A j \in Member : j \in Nat
  BY IngestAssumption DEF Member
<2>4. made \in Nat
  BY DEF TypeOK
<2> QED
  BY <2>1, <2>2, <2>3, <2>4 DEF Unmade
<1>13. CASE UNCHANGED vars
  BY <1>13 DEF vars, TypeOK, Unmade, Running, Member, Zero
<1> QED
  BY <1>1, <1>2, <1>3, <1>4, <1>5, <1>6, <1>7, <1>8, <1>9, <1>10, <1>11, <1>12, <1>13 DEF Next, Environment, Loop

\* A check is made in two-phase mode only, and what it found stays.
LEMMA CheckedStep ==
    ASSUME TypeOK, Unmade, Checked, [Next]_vars
    PROVE  Checked'
<1>1. ASSUME NEW i \in Member, Take(i) PROVE Checked'
  BY <1>1 DEF Take, Goto, TypeOK, Unmade, Checked, Running, Member, Current
<1>2. ASSUME NEW i \in Member, Ends(i) PROVE Checked'
  BY <1>2 DEF Ends, Goto, TypeOK, Unmade, Checked, Running, Member, Current
<1>3. ASSUME NEW i \in Member, Fetched(i) PROVE Checked'
  BY <1>3 DEF Fetched, AfterFetch, Forward, Break, Goto, TypeOK, Unmade, Checked, Running, Member, Current
<1>4. ASSUME NEW i \in Member, FetchedNothing(i) PROVE Checked'
  BY <1>4 DEF FetchedNothing, AfterFetch, Forward, Break, Goto, TypeOK, Unmade, Checked, Running, Member, Current
<1>5. ASSUME NEW i \in Member, FetchFails(i) PROVE Checked'
  BY <1>5 DEF FetchFails, AfterFetch, Forward, Break, Goto, TypeOK, Unmade, Checked, Running, Member, Current
<1>6. ASSUME NEW i \in Member, Check(i) PROVE Checked'
  BY <1>6 DEF Check, Break, Goto, TypeOK, Unmade, Checked, Running, Member, Current
<1>7. ASSUME NEW i \in Member, Ack(i) PROVE Checked'
  BY <1>7 DEF Ack, Acked, Forward, Break, Goto, TypeOK, Unmade, Checked, Running, Member, Current
<1>8. ASSUME Join PROVE Checked'
  BY <1>8 DEF Join, TypeOK, Unmade, Checked, Running, Member, Current
<1>9. ASSUME Leave PROVE Checked'
  BY <1>9 DEF Leave, TypeOK, Unmade, Checked, Running, Member, Current
<1>10. ASSUME Restart PROVE Checked'
  BY <1>10, RestartStops DEF Checked
<1>11. ASSUME NEW x \in Publications,
              FetchedByName(x[1], x[2]) \/ Push(x[1], x[2])
       PROVE  Checked'
  BY <1>11 DEF FetchedByName, Push, TypeOK, Unmade, Checked, Running, Member, Current
<1>12. ASSUME NEW i \in Member, NEW x \in Publications, Hear(i, x[1], x[2]) PROVE Checked'
  BY <1>12 DEF Hear, TypeOK, Unmade, Checked, Running, Member, Current
<1>13. CASE UNCHANGED vars
  BY <1>13 DEF vars, TypeOK, Unmade, Checked, Running, Member, Current
<1> QED
  BY <1>1, <1>2, <1>3, <1>4, <1>5, <1>6, <1>7, <1>8, <1>9, <1>10, <1>11, <1>12, <1>13 DEF Next, Environment, Loop

\* Updates stay real.
LEMMA UpdatesRealStep ==
    ASSUME TypeOK, UpdatesReal, Unmade, [Next]_vars
    PROVE  UpdatesReal'
<1>1. ASSUME NEW i \in Member, Take(i) PROVE UpdatesReal'
<2>1. /\ at' = [at EXCEPT ![i] = "fetch"] /\ job' = [job EXCEPT ![i] = queue[i][1]]
      /\ DOMAIN at = Member /\ DOMAIN job = Member
  BY <1>1, TakeTakes DEF Take, Goto, TypeOK
<2>2. ASSUME NEW j \in Member PROVE Busy(j)' => job'[j] \in Updates /\ Real(job'[j])
  BY <1>1, <2>1, TakeTakes DEF UpdatesReal, Busy
<2>3. ASSUME NEW j \in Member, NEW k \in 1..Len(queue'[j]) PROVE Real(queue'[j][k])
  BY <1>1, TakeTakes DEF UpdatesReal
<2> QED
  BY <2>2, <2>3 DEF UpdatesReal, Real
<1>2. ASSUME NEW i \in Member, Ends(i) PROVE UpdatesReal'
  BY <1>2 DEF Ends, Goto, TypeOK, UpdatesReal, Busy, Real
<1>3. ASSUME NEW i \in Member, Fetched(i) PROVE UpdatesReal'
  BY <1>3, BusySteps DEF UpdatesReal, Busy
<1>4. ASSUME NEW i \in Member, FetchedNothing(i) PROVE UpdatesReal'
  BY <1>4, BusySteps DEF UpdatesReal, Busy
<1>5. ASSUME NEW i \in Member, FetchFails(i) PROVE UpdatesReal'
  BY <1>5, BusySteps DEF UpdatesReal, Busy
<1>6. ASSUME NEW i \in Member, Check(i) PROVE UpdatesReal'
  BY <1>6, BusySteps DEF UpdatesReal, Busy
<1>7. ASSUME NEW i \in Member, Ack(i) PROVE UpdatesReal'
  BY <1>7, BusySteps DEF UpdatesReal, Busy
<1>8. ASSUME Join PROVE UpdatesReal'
  BY <1>8 DEF Join, TypeOK, UpdatesReal, Busy, Real
<1>9. ASSUME Leave PROVE UpdatesReal'
  BY <1>9 DEF Leave, TypeOK, UpdatesReal, Busy, Real
<1>10. ASSUME Restart PROVE UpdatesReal'
<2>1. \A j \in Member : queue'[j] = <<>> /\ at'[j] \in {"idle", "ended"}
  BY <1>10, RestartStops
<2> QED
  BY <2>1 DEF UpdatesReal, Busy
<1>11. ASSUME NEW x \in Publications,
              FetchedByName(x[1], x[2]) \/ Push(x[1], x[2])
       PROVE  UpdatesReal'
  BY <1>11 DEF FetchedByName, Push, TypeOK, UpdatesReal, Busy, Real
<1>12. ASSUME NEW i \in Member, NEW x \in Publications, Hear(i, x[1], x[2]) PROVE UpdatesReal'
<2>1. at' = at /\ job' = job
  BY <1>12 DEF Hear
<2>2. ASSUME NEW j \in Member, NEW k \in 1..Len(queue'[j]) PROVE Real(queue'[j][k])
  <3>1. Len(queue[i]) \in Nat
    BY DEF TypeOK
  <3>2. CASE j = i /\ k = Len(queue[i]) + 1
    BY <1>12, <3>2, HearAdds
  <3>3. CASE j = i /\ k \in 1..Len(queue[i])
    BY <1>12, <3>3, HearAdds DEF UpdatesReal
  <3>4. CASE j # i
    BY <1>12, <3>4, HearAdds DEF UpdatesReal
  <3> QED
    <4>1. Len(queue'[i]) = Len(queue[i]) + 1
      BY <1>12, HearAdds
    <4>2. j = i => k \in 1..Len(queue[i]) \/ k = Len(queue[i]) + 1
      BY <3>1, <4>1
    <4> QED
      BY <3>2, <3>3, <3>4, <4>2
<2> QED
  BY <2>1, <2>2 DEF UpdatesReal, Busy, Real
<1>13. CASE UNCHANGED vars
  BY <1>13 DEF vars, TypeOK, UpdatesReal, Busy, Real
<1> QED
  BY <1>1, <1>2, <1>3, <1>4, <1>5, <1>6, <1>7, <1>8, <1>9, <1>10, <1>11, <1>12, <1>13 DEF Next, Environment, Loop

\* What an acknowledgement changes: one entry, up to the publication it is of.
LEMMA AckRaises ==
    ASSUME TypeOK, UpdatesReal, NEW i \in Member, Ack(i)
    PROVE  /\ vec' \in [Member -> [Publisher -> Nat]]
           /\ job[i].pub \in Publisher
           /\ job[i].low <= vec'[i][job[i].pub]
           /\ \A j \in Member, p \in Publisher :
                \/ vec'[j][p] = vec[j][p]
                \/ /\ j = i /\ p = job[i].pub
                   /\ vec[j][p] < job[i].low /\ vec'[j][p] = job[i].low
<1>1. job[i] \in Updates
  BY CurrentExists DEF Ack, Busy
<1>2. job[i].pub \in Publisher /\ job[i].low \in Nat
  BY <1>1 DEF Updates
<1>3. vec \in [Member -> [Publisher -> Nat]]
  BY DEF TypeOK
<1> DEFINE top == IF vec[i][job[i].pub] < job[i].low THEN job[i].low
                  ELSE vec[i][job[i].pub]
<1>4. vec' = [vec EXCEPT ![i] = [vec[i] EXCEPT ![job[i].pub] = top]]
  BY <1>3 DEF Ack, Acked
<1>5. /\ top \in Nat /\ job[i].low <= top
      /\ \/ top = vec[i][job[i].pub]
         \/ vec[i][job[i].pub] < job[i].low /\ top = job[i].low
  <2>1. vec[i][job[i].pub] \in Nat
    BY <1>2, <1>3
  <2>2. /\ vec[i][job[i].pub] < job[i].low => top = job[i].low
        /\ ~ (vec[i][job[i].pub] < job[i].low) => top = vec[i][job[i].pub]
    OBVIOUS
  <2> HIDE DEF top
  <2> QED
    BY <1>2, <2>1, <2>2
<1> HIDE DEF top
<1>6. vec[i] \in [Publisher -> Nat]
  BY <1>3
<1> DEFINE row == [vec[i] EXCEPT ![job[i].pub] = top]
<1>7. row \in [Publisher -> Nat] /\ row[job[i].pub] = top
      /\ \A p \in Publisher : p # job[i].pub => row[p] = vec[i][p]
  BY <1>2, <1>5, <1>6
<1> HIDE DEF row
<1>8. vec' = [vec EXCEPT ![i] = row]
  BY <1>4 DEF row
<1>9. vec' \in [Member -> [Publisher -> Nat]] /\ vec'[i] = row
      /\ \A j \in Member : j # i => vec'[j] = vec[j]
  BY <1>3, <1>7, <1>8
<1> QED
  BY <1>2, <1>5, <1>7, <1>9

\* No update gets more than one ahead of its vector.
LEMMA NoneAheadStep ==
    ASSUME TypeOK, UpdatesReal, Unmade, NoneAhead, [Next]_vars
    PROVE  NoneAhead'
<1>1. ASSUME NEW i \in Member, Take(i) PROVE NoneAhead'
<2>1. /\ at' = [at EXCEPT ![i] = "fetch"] /\ job' = [job EXCEPT ![i] = queue[i][1]]
      /\ DOMAIN at = Member /\ DOMAIN job = Member /\ vec' = vec /\ mode' = mode
  BY <1>1, TakeTakes DEF Take, Goto, TypeOK
<2> SUFFICES ASSUME mode = "two-phase", NEW j \in Member
             PROVE  /\ \A k \in 1..Len(queue'[j]) : Next1(j, queue'[j][k])
                    /\ Busy(j)' => Next1(j, job'[j])
  BY <2>1 DEF NoneAhead, Next1
<2>2. ASSUME NEW k \in 1..Len(queue[j]) PROVE Next1(j, queue[j][k])
  BY DEF NoneAhead
<2>3. Busy(j)' => Next1(j, job'[j])
  <3>1. 1 \in 1..Len(queue[i])
    BY <1>1, TakeTakes
  <3>2. CASE j = i
    BY <2>1, <2>2, <3>1, <3>2
  <3>3. CASE j # i
    BY <2>1, <3>3 DEF NoneAhead, Busy
  <3> QED
    BY <3>2, <3>3
<2>4. ASSUME NEW k \in 1..Len(queue'[j]) PROVE Next1(j, queue'[j][k])
  <3>1. CASE j = i
    <4>1. k + 1 \in 1..Len(queue[j]) /\ queue'[j][k] = queue[j][k + 1]
      BY <1>1, <3>1, TakeTakes
    <4> QED
      BY <2>2, <4>1
  <3>2. CASE j # i
    BY <1>1, <2>2, <3>2, TakeTakes
  <3> QED
    BY <3>1, <3>2
<2> QED
  BY <2>3, <2>4
<1>2. ASSUME NEW i \in Member, Ends(i) PROVE NoneAhead'
  BY <1>2 DEF Ends, Goto, TypeOK, NoneAhead, Next1, Busy
<1>3. ASSUME NEW i \in Member, Fetched(i) PROVE NoneAhead'
<2>1. /\ Busy(i) /\ queue' = queue /\ mode' = mode
      /\ \A j \in Member : j # i => at'[j] = at[j] /\ job'[j] = job[j]
      /\ \/ at'[i] = "idle"
         \/ at'[i] \in {"check", "ack"} /\ job'[i] = job[i]
         \/ /\ at'[i] = "fetch" /\ (mode = "eager" \/ at[i] = "ack")
            /\ job'[i].low = job[i].low + 1 /\ job'[i].pub = job[i].pub
  BY <1>3, BusySteps
<2>2. vec' = vec /\ at[i] # "ack"
  BY <1>3 DEF Fetched
<2> SUFFICES ASSUME mode = "two-phase", NEW j \in Member
             PROVE  /\ \A k \in 1..Len(queue[j]) : Next1(j, queue[j][k])'
                    /\ Busy(j)' => Next1(j, job[j])'
  BY <2>1 DEF NoneAhead
<2>3. Busy(j)' => Busy(j) /\ job'[j] = job[j]
  BY <2>1, <2>2 DEF Busy
<2> QED
  BY <2>1, <2>2, <2>3 DEF NoneAhead, Next1
<1>4. ASSUME NEW i \in Member, FetchedNothing(i) PROVE NoneAhead'
<2>1. /\ Busy(i) /\ queue' = queue /\ mode' = mode
      /\ \A j \in Member : j # i => at'[j] = at[j] /\ job'[j] = job[j]
      /\ \/ at'[i] = "idle"
         \/ at'[i] \in {"check", "ack"} /\ job'[i] = job[i]
         \/ /\ at'[i] = "fetch" /\ (mode = "eager" \/ at[i] = "ack")
            /\ job'[i].low = job[i].low + 1 /\ job'[i].pub = job[i].pub
  BY <1>4, BusySteps
<2>2. vec' = vec /\ at[i] # "ack"
  BY <1>4 DEF FetchedNothing
<2> SUFFICES ASSUME mode = "two-phase", NEW j \in Member
             PROVE  /\ \A k \in 1..Len(queue[j]) : Next1(j, queue[j][k])'
                    /\ Busy(j)' => Next1(j, job[j])'
  BY <2>1 DEF NoneAhead
<2>3. Busy(j)' => Busy(j) /\ job'[j] = job[j]
  BY <2>1, <2>2 DEF Busy
<2> QED
  BY <2>1, <2>2, <2>3 DEF NoneAhead, Next1
<1>5. ASSUME NEW i \in Member, FetchFails(i) PROVE NoneAhead'
<2>1. /\ Busy(i) /\ queue' = queue /\ mode' = mode
      /\ \A j \in Member : j # i => at'[j] = at[j] /\ job'[j] = job[j]
      /\ \/ at'[i] = "idle"
         \/ at'[i] \in {"check", "ack"} /\ job'[i] = job[i]
         \/ /\ at'[i] = "fetch" /\ (mode = "eager" \/ at[i] = "ack")
            /\ job'[i].low = job[i].low + 1 /\ job'[i].pub = job[i].pub
  BY <1>5, BusySteps
<2>2. vec' = vec /\ at[i] # "ack"
  BY <1>5 DEF FetchFails
<2> SUFFICES ASSUME mode = "two-phase", NEW j \in Member
             PROVE  /\ \A k \in 1..Len(queue[j]) : Next1(j, queue[j][k])'
                    /\ Busy(j)' => Next1(j, job[j])'
  BY <2>1 DEF NoneAhead
<2>3. Busy(j)' => Busy(j) /\ job'[j] = job[j]
  BY <2>1, <2>2 DEF Busy
<2> QED
  BY <2>1, <2>2, <2>3 DEF NoneAhead, Next1
<1>6. ASSUME NEW i \in Member, Check(i) PROVE NoneAhead'
<2>1. /\ Busy(i) /\ queue' = queue /\ mode' = mode
      /\ \A j \in Member : j # i => at'[j] = at[j] /\ job'[j] = job[j]
      /\ \/ at'[i] = "idle"
         \/ at'[i] \in {"check", "ack"} /\ job'[i] = job[i]
         \/ /\ at'[i] = "fetch" /\ (mode = "eager" \/ at[i] = "ack")
            /\ job'[i].low = job[i].low + 1 /\ job'[i].pub = job[i].pub
  BY <1>6, BusySteps
<2>2. vec' = vec /\ at[i] # "ack"
  BY <1>6 DEF Check
<2> SUFFICES ASSUME mode = "two-phase", NEW j \in Member
             PROVE  /\ \A k \in 1..Len(queue[j]) : Next1(j, queue[j][k])'
                    /\ Busy(j)' => Next1(j, job[j])'
  BY <2>1 DEF NoneAhead
<2>3. Busy(j)' => Busy(j) /\ job'[j] = job[j]
  BY <2>1, <2>2 DEF Busy
<2> QED
  BY <2>1, <2>2, <2>3 DEF NoneAhead, Next1
<1>7. ASSUME NEW i \in Member, Ack(i) PROVE NoneAhead'
<2>1. /\ Busy(i) /\ queue' = queue /\ mode' = mode
      /\ \A j \in Member : j # i => at'[j] = at[j] /\ job'[j] = job[j]
      /\ \/ at'[i] = "idle"
         \/ at'[i] \in {"check", "ack"} /\ job'[i] = job[i]
         \/ /\ at'[i] = "fetch" /\ (mode = "eager" \/ at[i] = "ack")
            /\ job'[i].low = job[i].low + 1 /\ job'[i].pub = job[i].pub
  BY <1>7, BusySteps
<2>2. /\ vec' \in [Member -> [Publisher -> Nat]]
      /\ job[i].low <= vec'[i][job[i].pub]
      /\ \A j \in Member, p \in Publisher : vec[j][p] <= vec'[j][p]
  <3>1. job[i] \in Updates /\ job[i].low \in Nat
    BY <1>7, CurrentExists DEF Updates, Ack, Busy
  <3>2. \A j \in Member, p \in Publisher : vec[j][p] \in Nat
    BY DEF TypeOK
  <3> QED
    BY <1>7, <3>1, <3>2, AckRaises
<2> SUFFICES ASSUME mode = "two-phase", NEW j \in Member
             PROVE  /\ \A k \in 1..Len(queue[j]) : Next1(j, queue[j][k])'
                    /\ Busy(j)' => Next1(j, job[j])'
  BY <2>1 DEF NoneAhead
<2>3. \A u \in Updates : Next1(j, u) => u.low <= vec'[j][u.pub] + 1
  BY <2>2 DEF Next1, TypeOK, Updates
<2>4. ASSUME NEW k \in 1..Len(queue[j]) PROVE Next1(j, queue[j][k])'
  <3>1. queue[j][k] \in Updates /\ Next1(j, queue[j][k])
    BY DEF NoneAhead, TypeOK
  <3> QED
    BY <2>1, <2>3, <3>1 DEF Next1
<2>5. CASE j # i
  <3>1. Busy(j)' => job[j] \in Updates /\ Next1(j, job[j]) /\ job'[j] = job[j]
    BY <2>1, <2>5 DEF NoneAhead, Busy, UpdatesReal
  <3> QED
    BY <2>1, <2>3, <2>4, <3>1 DEF Next1
<2>6. CASE j = i
  <3>1. job[i] \in Updates /\ Next1(i, job[i])
    BY <2>1 DEF NoneAhead, UpdatesReal
  <3>2. CASE job'[i] = job[i]
    BY <2>1, <2>3, <2>4, <2>6, <3>1, <3>2 DEF Next1
  <3>3. CASE job'[i].low = job[i].low + 1 /\ job'[i].pub = job[i].pub
    <4>1. job[i].pub \in Publisher /\ job[i].low \in Nat
      BY <3>1 DEF Updates
    <4> QED
      BY <2>1, <2>2, <2>4, <2>6, <3>3, <4>1 DEF Next1
  <3> QED
    BY <2>1, <2>4, <2>6, <3>2, <3>3 DEF Busy
<2> QED
  BY <2>5, <2>6
<1>8. ASSUME Join PROVE NoneAhead'
  BY <1>8 DEF Join, TypeOK, NoneAhead, Next1, Busy
<1>9. ASSUME Leave PROVE NoneAhead'
  BY <1>9 DEF Leave, TypeOK, NoneAhead, Next1, Busy
<1>10. ASSUME Restart PROVE NoneAhead'
<2>1. \A j \in Member : queue'[j] = <<>> /\ at'[j] \in {"idle", "ended"}
  BY <1>10, RestartStops
<2> QED
  BY <2>1 DEF NoneAhead, Busy
<1>11. ASSUME NEW x \in Publications,
              FetchedByName(x[1], x[2]) \/ Push(x[1], x[2])
       PROVE  NoneAhead'
  BY <1>11 DEF FetchedByName, Push, TypeOK, NoneAhead, Next1, Busy
<1>12. ASSUME NEW i \in Member, NEW x \in Publications, Hear(i, x[1], x[2]) PROVE NoneAhead'
<2>1. at' = at /\ job' = job /\ mode' = mode
  BY <1>12 DEF Hear
<2> SUFFICES ASSUME mode = "two-phase", NEW j \in Member
             PROVE  /\ \A k \in 1..Len(queue'[j]) : Next1(j, queue'[j][k])
                    /\ Busy(j)' => Next1(j, job'[j])
  BY <1>12, <2>1 DEF NoneAhead, Next1, Hear
<2>2. vec' = vec
  BY <1>12 DEF Hear
<2>3. ASSUME NEW k \in 1..Len(queue'[j]) PROVE Next1(j, queue'[j][k])
  <3>1. Len(queue[i]) \in Nat /\ vec[i][x[1]] \in Nat
    BY Parts DEF TypeOK
  <3>2. CASE j = i /\ k = Len(queue[i]) + 1
    <4>1. queue'[j][k].low = vec[i][x[1]] + 1 /\ queue'[j][k].pub = x[1]
      BY <1>12, <3>2, HearAdds
    <4> QED
      BY <3>1, <3>2, <4>1 DEF Next1
  <3>3. CASE j = i /\ k \in 1..Len(queue[i])
    BY <1>12, <3>3, HearAdds DEF NoneAhead
  <3>4. CASE j # i
    BY <1>12, <3>4, HearAdds DEF NoneAhead
  <3> QED
    <4>1. Len(queue'[i]) = Len(queue[i]) + 1
      BY <1>12, HearAdds
    <4>2. j = i => k \in 1..Len(queue[i]) \/ k = Len(queue[i]) + 1
      BY <3>1, <4>1
    <4> QED
      BY <3>2, <3>3, <3>4, <4>2
<2> QED
  BY <2>1, <2>2, <2>3 DEF NoneAhead, Busy, Next1
<1>13. CASE UNCHANGED vars
  BY <1>13 DEF vars, TypeOK, NoneAhead, Next1, Busy
<1> QED
  BY <1>1, <1>2, <1>3, <1>4, <1>5, <1>6, <1>7, <1>8, <1>9, <1>10, <1>11, <1>12, <1>13 DEF Next, Environment, Loop

-----------------------------------------------------------------------------
\* A step of a loop's own, its last one aside, leaves it running.
LEMMA LoopRuns ==
    ASSUME TypeOK, UpdatesReal, NEW i \in Member,
           \/ Take(i) \/ Fetched(i) \/ FetchedNothing(i) \/ FetchFails(i)
           \/ Check(i) \/ Ack(i)
    PROVE  Running' = Running
<1>1. CASE Take(i)
  BY <1>1 DEF Take, Goto, TypeOK, Running, Member
<1>2. CASE ~ Take(i)
  <2>1. /\ made' = made /\ at[i] # "ended" /\ at'[i] # "ended"
        /\ \A j \in Member : j # i => at'[j] = at[j]
    BY <1>2, BusySteps DEF Busy
  <2>2. 1..made \subseteq Member
    BY IngestAssumption DEF TypeOK, Member
  <2> QED
    BY <2>1, <2>2 DEF Running
<1> QED
  BY <1>1, <1>2

\* While a vector stands and the store keeps what it has, Held does.
LEMMA HeldKept ==
    ASSUME TypeOK, Held, mode' = mode, vec' = vec, Running' \subseteq Running,
           store \subseteq store'
    PROVE  Held'
  BY DEF Held

\* What a running two-phase vector counts stays, or comes to be, held.
LEMMA HeldStep ==
    ASSUME IInv, [Next]_vars
    PROVE  Held'
<1>1. ASSUME NEW i \in Member, Take(i) PROVE Held'
<2>0. TypeOK /\ UpdatesReal /\ Held
  BY DEF IInv
<2>1. Running' = Running
  BY <1>1, <2>0, LoopRuns
<2> QED
  BY <1>1, <2>0, <2>1, HeldKept DEF Take
<1>2. ASSUME NEW i \in Member, Ends(i) PROVE Held'
<2>1. Running' \subseteq Running
  BY <1>2 DEF Ends, Goto, Running, IInv, TypeOK, Member
<2> QED
  BY <1>2, <2>1, HeldKept DEF Ends, IInv
<1>3. ASSUME NEW i \in Member, Fetched(i) PROVE Held'
<2>0. TypeOK /\ UpdatesReal /\ Held
  BY DEF IInv
<2>1. Running' = Running
  BY <1>3, <2>0, LoopRuns
<2> QED
  BY <1>3, <2>0, <2>1, HeldKept DEF Fetched
<1>4. ASSUME NEW i \in Member, FetchedNothing(i) PROVE Held'
<2>0. TypeOK /\ UpdatesReal /\ Held
  BY DEF IInv
<2>1. Running' = Running
  BY <1>4, <2>0, LoopRuns
<2> QED
  BY <1>4, <2>0, <2>1, HeldKept DEF FetchedNothing
<1>5. ASSUME NEW i \in Member, FetchFails(i) PROVE Held'
<2>0. TypeOK /\ UpdatesReal /\ Held
  BY DEF IInv
<2>1. Running' = Running
  BY <1>5, <2>0, LoopRuns
<2> QED
  BY <1>5, <2>0, <2>1, HeldKept DEF FetchFails
<1>6. ASSUME NEW i \in Member, Check(i) PROVE Held'
<2>0. TypeOK /\ UpdatesReal /\ Held
  BY DEF IInv
<2>1. Running' = Running
  BY <1>6, <2>0, LoopRuns
<2> QED
  BY <1>6, <2>0, <2>1, HeldKept DEF Check
<1>7. ASSUME NEW i \in Member, Ack(i) PROVE Held'
<2>1. TypeOK /\ UpdatesReal /\ Checked /\ NoneAhead /\ Held
  BY DEF IInv
<2>2. /\ Running' = Running /\ mode' = mode /\ store' = store
      /\ i \in Running /\ at[i] = "ack"
  <3>1. i <= made /\ i \in Nat /\ i >= 1
    BY <1>7, IngestAssumption DEF Ack, Unmade, IInv, Member, TypeOK
  <3>2. Running' = Running
    BY <1>7, <2>1, LoopRuns
  <3>3. at[i] = "ack" /\ mode' = mode /\ store' = store
    BY <1>7 DEF Ack
  <3>4. i \in Running
    BY <2>1, <3>1, <3>3 DEF Running, TypeOK
  <3> QED
    BY <3>2, <3>3, <3>4
<2>3. job[i] \in Updates /\ <<job[i].pub, job[i].low>> \in store
  BY <2>1, <2>2, CurrentExists DEF Checked, Busy, Current
<2>4. mode = "two-phase" => job[i].low <= vec[i][job[i].pub] + 1
  BY <2>1, <2>2 DEF NoneAhead, Busy, Next1
<2> SUFFICES ASSUME mode = "two-phase", NEW j \in Running, NEW p \in Publisher,
                    NEW q \in Nat, 1 <= q, q <= vec'[j][p]
             PROVE  <<p, q>> \in store
  BY <2>2 DEF Held
<2>5. j \in Member /\ vec[j][p] \in Nat /\ job[i].low \in Nat
  BY <2>1, <2>3, IngestAssumption DEF Running, Member, TypeOK, Updates
<2>6. CASE vec'[j][p] = vec[j][p]
  BY <2>1, <2>6 DEF Held
<2>7. CASE j = i /\ p = job[i].pub /\ vec'[j][p] = job[i].low
  <3>1. q <= vec[j][p] \/ q = job[i].low
    BY <2>4, <2>5, <2>7
  <3> QED
    BY <2>1, <2>3, <2>7, <3>1 DEF Held
<2> QED
  BY <1>7, <2>1, <2>5, <2>6, <2>7, AckRaises
<1>8. ASSUME Join PROVE Held'
<2>1. /\ mode' = mode /\ vec' = vec /\ store' = store
      /\ made \in Nat /\ made + 1 \in Member
  BY <1>8, IngestAssumption DEF Join, IInv, TypeOK, Member
<2>2. Running' \subseteq Running \cup {made + 1}
  BY <1>8, <2>1 DEF Join, Running
<2>3. \A p \in Publisher : vec[made + 1][p] = 0
  BY <2>1 DEF IInv, Unmade, Zero
<2>4. \A q \in Nat : ~ (1 <= q /\ q <= 0)
  OBVIOUS
<2> QED
  BY <2>1, <2>2, <2>3, <2>4 DEF IInv, Held
<1>9. ASSUME Leave PROVE Held'
<2>1. Running' = Running
  BY <1>9 DEF Leave, Running
<2> QED
  BY <1>9, <2>1, HeldKept DEF Leave, IInv
<1>10. ASSUME Restart PROVE Held'
<2>1. Running' = {}
  BY <1>10, RestartStops DEF IInv
<2> QED
  BY <2>1 DEF Held
<1>11. ASSUME NEW x \in Publications,
              FetchedByName(x[1], x[2]) \/ Push(x[1], x[2])
       PROVE  Held'
<2>1. Running' = Running
  BY <1>11 DEF FetchedByName, Push, Running
<2> QED
  BY <1>11, <2>1, HeldKept DEF FetchedByName, Push, IInv
<1>12. ASSUME NEW i \in Member, NEW x \in Publications, Hear(i, x[1], x[2]) PROVE Held'
<2>1. Running' = Running /\ mode' = mode /\ store' = store
  BY <1>12 DEF Hear, Running
<2>2. CASE mode = "eager"
  BY <2>1, <2>2 DEF Held
<2>3. CASE mode # "eager"
  BY <1>12, <2>1, <2>3, HeldKept DEF Hear, IInv
<2> QED
  BY <2>2, <2>3
<1>13. CASE UNCHANGED vars
<2>1. Running' = Running
  BY <1>13 DEF vars, Running
<2> QED
  BY <1>13, <2>1, HeldKept DEF vars, IInv
<1> QED
  BY <1>1, <1>2, <1>3, <1>4, <1>5, <1>6, <1>7, <1>8, <1>9, <1>10, <1>11, <1>12, <1>13 DEF Next, Environment, Loop

-----------------------------------------------------------------------------
\* Going on to the next publication keeps the types.
LEMMA ForwardTypes ==
    ASSUME TypeOK, NEW i \in Member, job[i] \in Updates, Forward(i)
    PROVE  /\ at' \in [Member -> {"idle", "fetch", "check", "ack", "ended"}]
           /\ job' \in [Member -> Updates \cup {NoJob}]
<1>1. CASE job[i].low < job[i].high
  <2>1. /\ at' = [at EXCEPT ![i] = "fetch"]
        /\ job' = [job EXCEPT ![i] = [pub |-> job[i].pub, low |-> job[i].low + 1,
                                      high |-> job[i].high]]
    BY <1>1 DEF Forward, Goto, Updates, TypeOK
  <2>2. [pub |-> job[i].pub, low |-> job[i].low + 1, high |-> job[i].high]
          \in Updates
    BY DEF Updates
  <2> QED
    BY <2>1, <2>2 DEF TypeOK
<1>2. CASE ~ (job[i].low < job[i].high)
  BY <1>2 DEF Forward, Break, Goto, TypeOK
<1> QED
  BY <1>1, <1>2

\* What comes after a fetch keeps the places and the updates of the loops.
LEMMA AfterFetchTypes ==
    ASSUME TypeOK, NEW i \in Member, job[i] \in Updates, AfterFetch(i)
    PROVE  /\ at' \in [Member -> {"idle", "fetch", "check", "ack", "ended"}]
           /\ job' \in [Member -> Updates \cup {NoJob}]
  BY ForwardTypes DEF AfterFetch, Goto, TypeOK

\* Every step keeps the types.
LEMMA TypeStep ==
    ASSUME IInv, [Next]_vars
    PROVE  TypeOK'
<1>1. ASSUME NEW i \in Member, Take(i) PROVE TypeOK'
<2>1. /\ queue' \in [Member -> Seq(Updates)]
      /\ job' \in [Member -> Updates \cup {NoJob}]
  BY <1>1, TakeTakes DEF IInv, TypeOK
<2> QED
  BY <1>1, <2>1 DEF Take, Goto, IInv, TypeOK
<1>2. ASSUME NEW i \in Member, Ends(i) PROVE TypeOK'
  BY <1>2 DEF Ends, Goto, IInv, TypeOK
<1>3. ASSUME NEW i \in Member, Fetched(i) PROVE TypeOK'
<2>1. job[i] \in Updates /\ Current(i) \in Publications
  BY <1>3, CurrentExists DEF Fetched, Busy, IInv
<2>2. /\ at' \in [Member -> {"idle", "fetch", "check", "ack", "ended"}]
      /\ job' \in [Member -> Updates \cup {NoJob}]
  BY <1>3, <2>1, AfterFetchTypes DEF Fetched, IInv
<2> QED
  BY <1>3, <2>1, <2>2 DEF Fetched, IInv, TypeOK
<1>4. ASSUME NEW i \in Member, FetchedNothing(i) PROVE TypeOK'
<2>1. job[i] \in Updates /\ Current(i) \in Publications
  BY <1>4, CurrentExists DEF FetchedNothing, Busy, IInv
<2>2. /\ at' \in [Member -> {"idle", "fetch", "check", "ack", "ended"}]
      /\ job' \in [Member -> Updates \cup {NoJob}]
  BY <1>4, <2>1, AfterFetchTypes DEF FetchedNothing, IInv
<2> QED
  BY <1>4, <2>1, <2>2 DEF FetchedNothing, IInv, TypeOK
<1>5. ASSUME NEW i \in Member, FetchFails(i) PROVE TypeOK'
<2>1. job[i] \in Updates /\ Current(i) \in Publications
  BY <1>5, CurrentExists DEF FetchFails, Busy, IInv
<2>2. /\ at' \in [Member -> {"idle", "fetch", "check", "ack", "ended"}]
      /\ job' \in [Member -> Updates \cup {NoJob}]
  BY <1>5, <2>1, AfterFetchTypes DEF FetchFails, IInv
<2>3. failed' \in [Member -> SUBSET Publications]
  BY <1>5, <2>1 DEF FetchFails, IInv, TypeOK
<2> QED
  BY <1>5, <2>2, <2>3 DEF FetchFails, IInv, TypeOK
<1>6. ASSUME NEW i \in Member, Check(i) PROVE TypeOK'
  BY <1>6 DEF Check, Break, Goto, IInv, TypeOK
<1>7. ASSUME NEW i \in Member, Ack(i) PROVE TypeOK'
<2>1. job[i] \in Updates /\ Current(i) \in Publications
  BY <1>7, CurrentExists DEF Ack, Busy, IInv
<2>2. /\ at' \in [Member -> {"idle", "fetch", "check", "ack", "ended"}]
      /\ job' \in [Member -> Updates \cup {NoJob}]
  BY <1>7, <2>1, ForwardTypes DEF Ack, IInv
<2>3. vec' \in [Member -> [Publisher -> Nat]]
  BY <1>7, AckRaises DEF IInv
<2> QED
  BY <1>7, <2>2, <2>3 DEF Ack, IInv, TypeOK
<1>8. ASSUME Join PROVE TypeOK'
<2>1. made' \in 0..MaxJoins /\ 1..made \subseteq 1..made'
  BY <1>8, IngestAssumption DEF Join, IInv, TypeOK
<2> QED
  BY <1>8, <2>1 DEF Join, IInv, TypeOK
<1>9. ASSUME Leave PROVE TypeOK'
  BY <1>9 DEF Leave, IInv, TypeOK
<1>10. ASSUME Restart PROVE TypeOK'
<2>1. /\ at' \in [Member -> {"idle", "fetch", "check", "ack", "ended"}]
      /\ queue' \in [Member -> Seq(Updates)]
      /\ job' \in [Member -> Updates \cup {NoJob}]
  BY <1>10 DEF Restart, IInv, TypeOK
<2> QED
  BY <1>10, <2>1 DEF Restart, IInv, TypeOK
<1>11. ASSUME NEW x \in Publications,
              FetchedByName(x[1], x[2]) \/ Push(x[1], x[2])
       PROVE  TypeOK'
  BY <1>11, Parts DEF FetchedByName, Push, IInv, TypeOK
<1>12. ASSUME NEW i \in Member, NEW x \in Publications, Hear(i, x[1], x[2]) PROVE TypeOK'
<2>1. queue' \in [Member -> Seq(Updates)]
  BY <1>12, HearAdds DEF IInv
<2>2. x[1] \in Publisher /\ x[2] \in Nat
  BY Parts
<2>3. vec' \in [Member -> [Publisher -> Nat]]
  BY <1>12, <2>2 DEF Hear, IInv, TypeOK
<2> QED
  BY <1>12, <2>1, <2>3 DEF Hear, IInv, TypeOK
<1>13. CASE UNCHANGED vars
  BY <1>13 DEF vars, IInv, TypeOK
<1> QED
  BY <1>1, <1>2, <1>3, <1>4, <1>5, <1>6, <1>7, <1>8, <1>9, <1>10, <1>11, <1>12, <1>13 DEF Next, Environment, Loop

\* At first nothing is published, fetched or held.
LEMMA InitIInv ==
    ASSUME Init
    PROVE  IInv
<1>1. TypeOK
  BY IngestAssumption DEF Init, TypeOK, Zero
<1>2. UpdatesReal /\ Unmade /\ Checked /\ NoneAhead /\ Held
  BY DEF Init, UpdatesReal, Unmade, Checked, NoneAhead, Held, Busy, Running
<1> QED
  BY <1>1, <1>2 DEF IInv

\* Every step keeps each part of the invariant.
LEMMA Inductive ==
    ASSUME IInv, [Next]_vars
    PROVE  IInv'
<1>1. TypeOK /\ UpdatesReal /\ Unmade /\ Checked /\ NoneAhead /\ Held
  BY DEF IInv
<1>2. TypeOK' /\ Held'
  BY TypeStep, HeldStep
<1>3. UpdatesReal' /\ Unmade' /\ Checked' /\ NoneAhead'
  BY <1>1, UpdatesRealStep, UnmadeStep, CheckedStep, NoneAheadStep
<1> QED
  BY <1>2, <1>3 DEF IInv

\* So it holds of every behaviour; the theorems below read it off.
LEMMA Invariant == Spec => []IInv
<1>1. Init => IInv
  BY InitIInv
<1>2. IInv /\ [Next]_vars => IInv'
  BY Inductive
<1> QED
  BY <1>1, <1>2, PTL DEF Spec

\* Every variable keeps its type, for any publishers, publications, rejected
\* ones, joins and bounds.
THEOREM TypeCorrect == Spec => []TypeOK
<1>1. IInv => TypeOK
  BY DEF IInv
<1> QED
  BY <1>1, Invariant, PTL

\* ingest.rs 32-38: no acknowledgement passes a hole.  A running two-phase
\* instance holds every publication its vector counts, whatever failed, was
\* rejected, came by another way or was lost with an earlier process.
THEOREM HonestCorrect == Spec => []Honest
<1>1. IInv => Honest
  <2> SUFFICES ASSUME IInv, mode = "two-phase", NEW i \in Running,
                      NEW p \in Publisher, NEW x \in {p} \X (1..vec[i][p])
               PROVE  x \in store
    BY DEF Honest, H!Honest, H!UpTo
  <2>1. x = <<p, x[2]>> /\ x[2] \in Nat /\ 1 <= x[2] /\ x[2] <= vec[i][p]
    BY IngestAssumption DEF IInv, TypeOK, Running, Member
  <2> QED
    BY <2>1 DEF IInv, Held
<1> QED
  BY <1>1, Invariant, PTL

\* Every step of the loop and of what goes on beside it is a step of the
\* promise, or leaves it as it is.
LEMMA StepKeepsPromise ==
    ASSUME IInv, [Next]_vars
    PROVE  [H!Next]_(H!vars)
<1>1. TypeOK /\ UpdatesReal /\ Unmade /\ Checked /\ NoneAhead /\ Held
  BY DEF IInv
<1>2. Running \subseteq Member
  BY <1>1, IngestAssumption DEF Running, Member, TypeOK
<1>3. ASSUME NEW i \in Member,
             \/ Take(i) \/ FetchedNothing(i) \/ FetchFails(i) \/ Check(i)
      PROVE  UNCHANGED H!vars
  <2>1. Running' = Running
    BY <1>1, <1>3, LoopRuns
  <2> QED
    BY <1>3, <2>1 DEF Take, FetchedNothing, FetchFails, Check, H!vars
<1>4. ASSUME NEW i \in Member, Ends(i) PROVE H!Next
  <2>1. Running' = Running \ {i}
    BY <1>1, <1>4, IngestAssumption DEF Ends, Goto, Running, TypeOK, Member
  <2> QED
    BY <1>4, <2>1 DEF Ends, H!Next, H!Stop
<1>5. ASSUME NEW i \in Member, Fetched(i) PROVE H!Next
  <2>1. Running' = Running
    BY <1>1, <1>5, LoopRuns
  <2>2. Current(i) \in Publications
    BY <1>1, <1>5, CurrentExists DEF Fetched, Busy
  <2> QED
    BY <1>5, <2>1, <2>2 DEF Fetched, H!Next, H!Store
<1>6. ASSUME NEW i \in Member, Ack(i) PROVE [H!Next]_(H!vars)
  <2>1. /\ Running' = Running /\ mode' = mode /\ store' = store
        /\ pushed' = pushed /\ at[i] = "ack" /\ i \in Running
    <3>1. at[i] = "ack" /\ mode' = mode /\ store' = store /\ pushed' = pushed
      BY <1>6 DEF Ack
    <3>2. i \in 1..made
      BY <1>1, <3>1, IngestAssumption DEF Unmade, Member, TypeOK
    <3>3. i \in Running
      BY <3>1, <3>2 DEF Running
    <3> QED
      BY <1>1, <1>6, <3>1, <3>3, LoopRuns
  <2>2. /\ job[i] \in Updates /\ Current(i) \in Publications
        /\ Current(i) \in store /\ mode = "two-phase"
    BY <1>1, <2>1, CurrentExists DEF Checked, Busy
  <2> DEFINE p == job[i].pub
             q == job[i].low
  <2>3. p \in Publisher /\ q \in Nat /\ vec[i][p] \in Nat
    BY <1>1, <2>2 DEF Updates, TypeOK
  <2>4. q <= vec[i][p] + 1
    BY <1>1, <2>1, <2>2 DEF NoneAhead, Busy, Next1
  <2>5. vec' = [vec EXCEPT ![i][p] = IF vec[i][p] < q THEN q ELSE vec[i][p]]
    BY <1>1, <1>6 DEF Ack, Acked, TypeOK
  <2>6. <<p, q>> \in Publications /\ <<p, q>> \in store
    BY <2>2 DEF Current
  <2> HIDE DEF p, q
  <2>7. CASE vec[i][p] < q
    <3>1. ASSUME NEW x \in {p} \X (1..q) PROVE x \in store
      <4>1. x = <<p, x[2]>> /\ x[2] \in Nat /\ 1 <= x[2] /\ x[2] <= q
        BY <2>3
      <4>2. x[2] <= vec[i][p] \/ x[2] = q
        BY <2>3, <2>4, <4>1
      <4> QED
        BY <1>1, <2>1, <2>2, <2>3, <2>6, <4>1, <4>2 DEF Held
    <3>2. H!Advance(i, p, q)
      BY <2>1, <2>5, <2>7, <3>1 DEF H!Advance, H!UpTo
    <3>3. H!Advance(i, <<p, q>>[1], <<p, q>>[2])
      BY <3>2
    <3> QED
      BY <2>6, <3>3 DEF H!Next
  <2>8. CASE ~ (vec[i][p] < q)
    <3>1. vec' = [vec EXCEPT ![i][p] = vec[i][p]]
      BY <2>5, <2>8
    <3>2. vec' = vec
      BY <1>1, <2>3, <3>1 DEF TypeOK
    <3> QED
      BY <2>1, <3>2 DEF H!vars
  <2> QED
    BY <2>7, <2>8
<1>7. ASSUME Join PROVE H!Next
  <2>1. /\ made \in Nat /\ made + 1 \in Member /\ made' = made + 1 /\ at' = at
        /\ mode' = mode /\ vec' = vec /\ store' = store /\ pushed' = pushed
    BY <1>1, <1>7, IngestAssumption DEF Join, TypeOK, Member
  <2>2. vec[made + 1] = Zero /\ at[made + 1] = "idle"
    BY <1>1, <2>1 DEF Unmade
  <2>3. 1..made + 1 = (1..made) \cup {made + 1} /\ made + 1 \notin 1..made
    BY <2>1
  <2>4. Running' = Running \cup {made + 1} /\ made + 1 \notin Running
    BY <2>1, <2>2, <2>3 DEF Running
  <2>5. H!Start(made + 1)
    BY <2>1, <2>2, <2>4 DEF H!Start, Zero
  <2> QED
    BY <2>1, <2>5 DEF H!Next
<1>8. ASSUME Leave PROVE UNCHANGED H!vars
  BY <1>8 DEF Leave, H!vars, Running
<1>9. ASSUME Restart PROVE H!Next
  <2>1. Running' = {}
    BY <1>1, <1>9, RestartStops
  <2> QED
    BY <1>9, <2>1 DEF Restart, H!Next, H!Down
<1>10. ASSUME NEW x \in Publications,
              FetchedByName(x[1], x[2]) \/ Push(x[1], x[2])
       PROVE  H!Next
  <2>1. Running' = Running /\ x = <<x[1], x[2]>>
    BY <1>10, Parts DEF FetchedByName, Push, Running
  <2>2. H!Store(x) \/ H!Push(x)
    BY <1>10, <2>1 DEF FetchedByName, Push, H!Store, H!Push
  <2> QED
    BY <2>2 DEF H!Next
<1>11. ASSUME NEW i \in Member, NEW x \in Publications, Hear(i, x[1], x[2])
       PROVE  [H!Next]_(H!vars)
  <2>1. /\ Running' = Running /\ i \in Running
        /\ mode' = mode /\ store' = store
    BY <1>11 DEF Hear, Running
  <2>2. CASE mode = "eager"
    <3>1. H!Advance(i, x[1], x[2])
      BY <1>11, <2>1, <2>2 DEF Hear, H!Advance
    <3> QED
      BY <3>1 DEF H!Next
  <2>3. CASE mode # "eager"
    BY <1>11, <2>1, <2>3 DEF Hear, H!vars
  <2> QED
    BY <2>2, <2>3
<1>12. CASE UNCHANGED vars
  BY <1>12 DEF vars, H!vars, Running
<1> QED
  BY <1>3, <1>4, <1>5, <1>6, <1>7, <1>8, <1>9, <1>10, <1>11, <1>12
     DEF Next, Environment, Loop

\* ingest.rs 20-41: Ingest implements the promise HonestVector states.
THEOREM PromiseKept == Spec => KeepsPromise
<1>1. Init => H!Init
  BY IngestAssumption DEF Init, H!Init, Zero, Running
<1>2. IInv /\ [Next]_vars => [H!Next]_(H!vars)
  BY StepKeepsPromise
<1> QED
  BY <1>1, <1>2, Invariant, PTL DEF Spec, KeepsPromise, H!Spec
=============================================================================
