---------------------------- MODULE RepoCommands ----------------------------
(***************************************************************************)
(* What the service handles when a client sends a command: the wire form   *)
(* (tlv.rs), the Repo's handlers (repo.rs) and the service's loop together. *)
(***************************************************************************)
EXTENDS RepoService, Wire

CONSTANTS SvsV3, OtherProtocol, Text

ASSUME CommandsAssumption ==
    NoValue \notin Name \cup Group \cup {SvsV3, OtherProtocol, Text}

MinHistoryThreshold == 10

\* A command that is answered, and nothing else.
Refused == <<[kind |-> "refused"]>>

\* handle_blob_fetch: inline data comes before the name to fetch; data that does
\* not parse (no name) is dropped without a word.
Blobs(c) ==
    LET parsed == SelectSeq(c.data, LAMBDA n : n # NoValue)
    IN [i \in 1..Len(parsed) |-> [kind |-> "push", of |-> parsed[i]]]
       \o (IF c.name = NoValue THEN <<>>
           ELSE <<[kind |-> "fetch", of |-> c.name]>>)

\* handle_sync_join, handle_sync_leave, handle_blob_fetch: what a command asks
\* of the loop, in order.
Handled(c) ==
    CASE c.kind = "SyncJoin" ->
           IF \/ c.protocol \notin {NoValue, SvsV3}
              \/ c.group = NoValue
              \/ \E t \in c.threshold : t < MinHistoryThreshold
           THEN Refused ELSE <<[kind |-> "join", of |-> c.group]>>
      [] c.kind = "SyncLeave" ->
           IF c.group = NoValue THEN Refused
           ELSE <<[kind |-> "leave", of |-> c.group]>>
      [] c.kind = "BlobFetch" ->
           IF Blobs(c) = <<>> THEN Refused ELSE Blobs(c)
-----------------------------------------------------------------------------
\* Numbers about each width, and about the least threshold.
Numbers == UNION {{Base ^ w - 1, Base ^ w} : w \in {1, 2, 4}}
             \cup {0, 9, 10, U64 - 1}

Maybe(S) == S \cup {NoValue}

\* The commands that clients form.
Formed ==
    [kind : {"SyncJoin"}, protocol : Maybe({SvsV3, OtherProtocol}),
     group : Maybe(Group), multicast : Maybe(Group),
     threshold : {{}} \cup {{t} : t \in Numbers}, security : Maybe({Text})]
    \cup [kind : {"SyncLeave"}, protocol : Maybe({SvsV3}), group : Maybe(Group)]
    \cup [kind : {"BlobFetch"}, name : Maybe(Name),
          data : {<<>>} \cup {<<n>> : n \in Maybe(Name)}
                   \cup {<<m, n>> : m, n \in Maybe(Name)}]

\* Each is understood as it was meant; a field of a type not known changes
\* nothing wherever it stands, one that comes again last overrules the first
\* even with a name that does not parse, and one that is cut spoils the command.
Understood ==
    \A c \in Formed :
      LET w == EncodeCmd(c) IN
      /\ DecodeCmd(w) = {c}
      /\ DecodeCmd([w EXCEPT !.cut = TRUE]) = {}
      /\ \A i \in 1..Len(w.fields) + 1 :
           /\ DecodeCmd(With(w, i, Field("unknown", Text, <<>>, <<>>))) = {c}
           /\ DecodeCmd(With(w, i, Cut)) = {}
      /\ c.kind # "BlobFetch" => \A g \in Maybe(Group) :
           DecodeCmd(With(w, Len(w.fields) + 1, Field("GROUP", g, <<>>, <<>>)))
             = {[c EXCEPT !.group = g]}

\* Numbers of any width are understood, and so is every reply.
NumbersUnderstood ==
    /\ \A v \in Numbers, pad \in 0..9 : DecodeNni([i \in 1..pad |-> 0] \o Nni(v)) = v
    /\ \A res \in [status : {200, 400, 500}, message : Maybe({Text})] :
         DecodeRes(EncodeRes(res)) = {res}

\* What a wire that was understood asks of the loop.
Asked == {Handled(c) : c \in UNION {DecodeCmd(EncodeCmd(f)) : f \in Formed}}

\* tlv.rs 1-8, 260-290, repo.rs 97-168: what waits for the loop is what some
\* client's command comes to when encoded, decoded and judged by the Repo's
\* handlers, whatever is in front of it; and every command that a client forms
\* comes to what the client meant, to nothing if its wire was cut short.
CommandsArrive ==
    /\ Understood /\ NumbersUnderstood
    /\ Asked \subseteq Seq(Command)
    /\ \A i \in 1..Len(inq) : inq[i] \in Command => <<inq[i]>> \in Asked
=============================================================================
