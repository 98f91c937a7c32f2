------------------------------ MODULE Register ------------------------------
(***************************************************************************)
(* What a store of one packet promises its callers while nothing fails.    *)
(* Calls overlap, yet each write takes effect at one moment between its    *)
(* call and its return, and a read that answers with a packet answers with *)
(* the one held at some moment between its own.  A read may also miss.     *)
(*                                                                         *)
(* How a packet is kept and rebuilt is left to ErasureStore, which         *)
(* ErasureReads shows to implement this until the first fault.             *)
(***************************************************************************)

CONSTANTS
    Caller,
    Value,       \* the packets, and Nothing
    Nothing      \* no packet; as an answer, a miss

VARIABLES
    held,        \* the packet held
    writing,     \* writing[c]: the packet c is writing, if it writes
    reading,     \* the callers that read
    window,      \* window[c]: the packets held since c's read began
    answer,      \* answer[c]: what c's read is about to return
    broken       \* a fault happened: the promise is over

vars == <<held, writing, reading, window, answer, broken>>

Empty == [c \in Caller |-> {}]

Init ==
    /\ held = Nothing
    /\ writing = Empty
    /\ reading = {}
    /\ window = Empty /\ answer = Empty
    /\ broken = FALSE

\* One write at a time.
StartWrite(c, v) ==
    /\ c \notin reading
    /\ \A d \in Caller : writing[d] = {}
    /\ writing' = [writing EXCEPT ![c] = {v}]
    /\ UNCHANGED <<held, reading, answer>>

TakeEffect(c) ==
    /\ held' \in writing[c]
    /\ UNCHANGED <<writing, reading, answer>>

\* A write returns when it has taken effect, and nothing since has undone it.
EndWrite(c) ==
    /\ writing[c] = {held}
    /\ writing' = [writing EXCEPT ![c] = {}]
    /\ UNCHANGED <<held, reading, answer>>

StartRead(c) ==
    /\ c \notin reading /\ writing[c] = {}
    /\ reading' = reading \cup {c}
    /\ UNCHANGED <<held, writing, answer>>

Answer(c) ==
    /\ c \in reading /\ answer[c] = {}
    /\ \E v \in window[c] \cup {Nothing} : answer' = [answer EXCEPT ![c] = {v}]
    /\ UNCHANGED <<held, writing, reading>>

EndRead(c) ==
    /\ answer[c] # {}
    /\ reading' = reading \ {c}
    /\ answer' = [answer EXCEPT ![c] = {}]
    /\ UNCHANGED <<held, writing>>

\* Every read under way sees what is held now.
Watch ==
    window' = [c \in Caller |->
                 IF c \in reading' THEN window[c] \cup {held'} ELSE {}]

Step(c) ==
    \/ \E v \in Value : StartWrite(c, v)
    \/ TakeEffect(c) \/ EndWrite(c)
    \/ StartRead(c) \/ Answer(c) \/ EndRead(c)

Next ==
    \/ broken'
    \/ /\ ~ broken /\ ~ broken'
       /\ Watch
       /\ \E c \in Caller : Step(c)

Spec == Init /\ [][Next]_vars
=============================================================================
