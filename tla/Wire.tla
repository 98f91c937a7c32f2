-------------------------------- MODULE Wire --------------------------------
(***************************************************************************)
(* The wire forms of repo commands and replies (ndn-repo/src/tlv.rs) and   *)
(* of the cluster's gossip (ndn-repo-cluster/src/msg.rs).                  *)
(*                                                                         *)
(* A wire is its first TLV: a type and the fields in its value, or cut     *)
(* short somewhere in that value.  A field has a type and, by its type, a  *)
(* value that is a name or a packet, the digits of a number, or fields of  *)
(* its own.  Types are known by name and values are not spelt out, but for *)
(* numbers, whose octets are digits in a smaller base.  Decoders answer    *)
(* the set of what they make of a wire: one thing, or nothing.             *)
(***************************************************************************)
EXTENDS Integers, Sequences, FiniteSets
LOCAL INSTANCE SequencesExt

CONSTANTS
    Base,     \* how many values an octet has
    NoValue   \* no name, no packet; as a field's value, one that does not parse

ASSUME WireAssumption == Base \in Nat \ {0, 1}
-----------------------------------------------------------------------------
(***************************************************************************)
(* Numbers and fields.                                                     *)
(***************************************************************************)

\* u16 and u64.
U16 == Base ^ 2
U64 == Base ^ 8

\* The width of a non-negative integer: the least of four.
Width(v) == CHOOSE w \in {1, 2, 4, 8} :
              v < Base ^ w /\ \A x \in {1, 2, 4, 8} : v < Base ^ x => w <= x

\* write_nni: the most significant digit first.
Nni(v) == [i \in 1..Width(v) |-> (v \div Base ^ (Width(v) - i)) % Base]

\* Mutant: the least significant digit first.
DecodeNniReversed(digits) ==
    FoldRight(LAMBDA b, v : (v * Base + b) % U64, digits, 0)

\* decode_nni takes any number of digits, and lets the topmost fall out.
DecodeNni(digits) == FoldLeft(LAMBDA v, b : (v * Base + b) % U64, 0, digits)

Field(t, x, digits, sub) ==
    [type |-> t, value |-> x, digits |-> digits, sub |-> sub]

\* A name container or a packet, left out if there is none.
Value(t, x) == IF x = NoValue THEN <<>> ELSE <<Field(t, x, <<>>, <<>>)>>

Number(t, v) == <<Field(t, NoValue, Nni(v), <<>>)>>

\* Where the reader finds that a field does not end within what it is in.
Cut == Field("cut", NoValue, <<>>, <<>>)

Tlv(t, fields) == [type |-> t, cut |-> FALSE, fields |-> fields]

\* Of several fields of a type the last one counts.
Occurs(fields, t) == {i \in 1..Len(fields) : fields[i].type = t}

LastOf(fields, t) ==
    fields[CHOOSE i \in Occurs(fields, t) : \A j \in Occurs(fields, t) : j <= i]

\* Even if it does not parse.
ValueOf(fields, t) ==
    IF Occurs(fields, t) = {} THEN NoValue ELSE LastOf(fields, t).value

NumbersOf(fields, t) ==
    IF Occurs(fields, t) = {} THEN {} ELSE {DecodeNni(LastOf(fields, t).digits)}

OrZero(numbers) == IF numbers = {} THEN 0 ELSE CHOOSE v \in numbers : TRUE

\* All the values of a type, in order.
ValuesOf(fields, t) ==
    LET these == SelectSeq(fields, LAMBDA f : f.type = t)
    IN [i \in 1..Len(these) |-> these[i].value]

Sound(fields) == Occurs(fields, "cut") = {}
-----------------------------------------------------------------------------
(***************************************************************************)
(* tlv.rs: commands and replies.                                           *)
(***************************************************************************)

\* RepoCmd::encode.  A command is a record; threshold is a set, of one or none.
EncodeCmd(c) ==
    CASE c.kind = "SyncJoin" ->
           Tlv("SYNC_JOIN",
               Value("PROTOCOL", c.protocol) \o Value("GROUP", c.group)
                \o Value("MULTICAST_PREFIX", c.multicast)
                \o (IF c.threshold = {} THEN <<>>
                    ELSE <<Field("HISTORY_SNAPSHOT", NoValue, <<>>,
                             Number("HISTORY_THRESHOLD", OrZero(c.threshold)))>>)
                \o Value("SECURITY_CONFIG", c.security))
      [] c.kind = "SyncLeave" ->
           Tlv("SYNC_LEAVE",
                Value("PROTOCOL", c.protocol) \o Value("GROUP", c.group))
      [] c.kind = "BlobFetch" ->
           Tlv("BLOB_FETCH",
                Value("BLOB_NAME", c.name)
                \o [i \in 1..Len(c.data) |->
                      Field("BLOB_DATA", c.data[i], <<>>, <<>>)])

\* The thresholds of all the snapshot fields, as if they were one.
Snapshots(fields) ==
    FlattenSeq([i \in 1..Len(fields) |->
                  IF fields[i].type = "HISTORY_SNAPSHOT" THEN fields[i].sub
                  ELSE <<>>])

\* decode_sync_join, decode_sync_leave, decode_blob_fetch.
JoinOf(fields) ==
    [kind |-> "SyncJoin",
     protocol |-> ValueOf(fields, "PROTOCOL"),
     group |-> ValueOf(fields, "GROUP"),
     multicast |-> ValueOf(fields, "MULTICAST_PREFIX"),
     threshold |-> NumbersOf(Snapshots(fields), "HISTORY_THRESHOLD"),
     security |-> ValueOf(fields, "SECURITY_CONFIG")]

LeaveOf(fields) ==
    [kind |-> "SyncLeave", protocol |-> ValueOf(fields, "PROTOCOL"),
     group |-> ValueOf(fields, "GROUP")]

BlobOf(fields) ==
    [kind |-> "BlobFetch", name |-> ValueOf(fields, "BLOB_NAME"),
     data |-> ValuesOf(fields, "BLOB_DATA")]

\* RepoCmd::decode: one field that is cut and there is no command.
DecodeCmd(w) ==
    IF w.cut \/ ~ Sound(w.fields) THEN {}
    ELSE CASE w.type = "SYNC_JOIN" ->
                IF Sound(Snapshots(w.fields)) THEN {JoinOf(w.fields)} ELSE {}
           [] w.type = "SYNC_LEAVE" -> {LeaveOf(w.fields)}
           [] w.type = "BLOB_FETCH" -> {BlobOf(w.fields)}
           [] OTHER -> {}

\* RepoCmdRes: a reply has no type of its own, so it is its fields.
EncodeRes(res) ==
    Number("RES_STATUS", res.status) \o Value("RES_MESSAGE", res.message)

\* A message that is no text spoils the reply.
DecodeRes(fields) ==
    IF ~ Sound(fields) \/ NoValue \in Range(ValuesOf(fields, "RES_MESSAGE"))
    THEN {}
    ELSE {[status |-> OrZero(NumbersOf(fields, "RES_STATUS")),
           message |-> ValueOf(fields, "RES_MESSAGE")]}
-----------------------------------------------------------------------------
(***************************************************************************)
(* msg.rs: gossip.                                                         *)
(***************************************************************************)

\* ClusterMsg::encode.  erasure is a set, of one pair or none.
EncodeMsg(m) ==
    CASE m.kind = "Heartbeat" ->
           Tlv("HEARTBEAT",
                Value("NODE", m.node) \o Number("CAP_USED", m.used)
                \o Number("CAP_TOTAL", m.total) \o Number("EPOCH", m.epoch))
      [] m.kind = "Job" ->
           Tlv("JOB",
                Value("TARGET", m.target) \o Number("REPL", m.factor)
                \o (IF m.erasure = {} THEN <<>>
                    ELSE LET e == CHOOSE e \in m.erasure : TRUE
                         IN Number("EC_K", e[1]) \o Number("EC_N", e[2])))
      [] m.kind = "Claim" ->
           Tlv("CLAIM", Value("JOB_REF", m.job) \o Value("NODE", m.node)
                         \o Number("TS", m.ts))
      [] m.kind = "Release" ->
           Tlv("RELEASE", Value("JOB_REF", m.job) \o Value("NODE", m.node))

\* Fields::parse keeps what it had when it meets a field that is cut.
Read(fields) ==
    SubSeq(fields, 1,
           IF Sound(fields) THEN Len(fields)
           ELSE (CHOOSE i \in Occurs(fields, "cut") :
                   \A j \in Occurs(fields, "cut") : i <= j) - 1)

\* Zero or absent, either of them, is no erasure; then they are cut to u16.
ErasureOf(fields) ==
    LET k == OrZero(NumbersOf(fields, "EC_K"))
        n == OrZero(NumbersOf(fields, "EC_N"))
    IN IF k # 0 /\ n # 0 THEN {<<k % U16, n % U16>>} ELSE {}

\* The message that the fields of a type make up; numbers may be missing.
MsgOf(type, fields) ==
    LET number(t) == OrZero(NumbersOf(fields, t)) IN
    CASE type = "HEARTBEAT" ->
           [kind |-> "Heartbeat", node |-> ValueOf(fields, "NODE"),
            used |-> number("CAP_USED"), total |-> number("CAP_TOTAL"),
            epoch |-> number("EPOCH")]
      [] type = "JOB" ->
           [kind |-> "Job", target |-> ValueOf(fields, "TARGET"),
            factor |-> number("REPL"), erasure |-> ErasureOf(fields)]
      [] type = "CLAIM" ->
           [kind |-> "Claim", job |-> ValueOf(fields, "JOB_REF"),
            node |-> ValueOf(fields, "NODE"), ts |-> number("TS")]
      [] type = "RELEASE" ->
           [kind |-> "Release", job |-> ValueOf(fields, "JOB_REF"),
            node |-> ValueOf(fields, "NODE")]

\* The names a message cannot be without.
Needs(type) == CASE type = "HEARTBEAT" -> {"NODE"}
                 [] type = "JOB" -> {"TARGET"}
                 [] type \in {"CLAIM", "RELEASE"} -> {"JOB_REF", "NODE"}

MsgTypes == {"HEARTBEAT", "JOB", "CLAIM", "RELEASE"}

\* ClusterMsg::decode.
DecodeMsg(w) ==
    IF w.cut \/ w.type \notin MsgTypes
       \/ \E t \in Needs(w.type) : ValueOf(Read(w.fields), t) = NoValue
    THEN {} ELSE {MsgOf(w.type, Read(w.fields))}
-----------------------------------------------------------------------------
\* w with a field f put in at place i.
With(w, i, f) == [w EXCEPT !.fields = InsertAt(@, i, f)]
=============================================================================
