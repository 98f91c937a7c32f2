---------------------------- MODULE ErasureReads ----------------------------
(***************************************************************************)
(* ErasureStore as its callers see it (ndn-repo/src/held.rs): one packet,  *)
(* read and written at once, although a read gathers its records stripe by *)
(* stripe, without the lock, while writers replace them stripe by stripe.  *)
(*                                                                         *)
(* To say what a read may answer, this module remembers what the stripes   *)
(* rebuilt while the read ran.  No step of the code reads that.            *)
(***************************************************************************)
EXTENDS ErasureStore

VARIABLE found    \* found[t]: the packets the stripes rebuilt during t's get,
                  \* as long as there was no fault

FInit == Init /\ found = [t \in Thread |-> {}]

FNext ==
    /\ Next
    /\ found' = [t \in Thread |->
                   IF op'[t] = "get" /\ faults' = 0
                   THEN found[t] \cup {Assemble(mem')} ELSE {}]

FSpec == FInit /\ [][FNext]_<<vars, found>>

FairFSpec == FSpec /\ Fairness
-----------------------------------------------------------------------------
\* What each thread is writing, while it replaces records under the lock.
Writes == [t \in Thread |-> IF pc[t] = "write" THEN {arg[t]} ELSE {}]

Gets == {t \in Thread : op[t] = "get"}

\* A get answers when all it does, its repair too, is done.
Answers == [t \in Thread |-> IF Finished(t, "get") THEN {out[t]} ELSE {}]

Reg == INSTANCE Register WITH
        Caller  <- Thread,
        Value   <- Packet,
        Nothing <- None,
        held    <- Assemble(mem),
        writing <- Writes,
        reading <- Gets,
        window  <- found,
        answer  <- Answers,
        broken  <- faults > 0

\* Until the first fault the store is a register: an insert or a remove takes
\* effect at one moment, and a get that hits answers for one moment, however
\* their steps interleave (held.rs 334-343, 435-443, 464-469: get reads without
\* the lock, insert and remove write under it).
IsRegister == Reg!Spec
=============================================================================
