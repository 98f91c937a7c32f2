# ndn-repo: models and proofs

TLA+ models of ndn-repo, an NDN repository: a service that ingests the
publications of sync groups and serves them (`crates/ndn-repo`), an
erasure-coded store for holders that keep other devices' data (`held.rs` in the
same crate), and a coordinator that places jobs on the nodes of a cluster
(`crates/ndn-repo-cluster`).  TLC checks small instances of the models; TLAPS
proves their main safety properties for every value of the constants.

## The system

| Component | Source | State | Operations | Talks to |
|---|---|---|---|---|
| Stripe store (`FjallStore`) | `ndn-repo/src/store.rs` | an on-disk ordered map, a sticky "a write failed" flag | insert, get, contains, remove, sync, scan_under, find_under | the file system, through fjall |
| `ErasureStore` | `held.rs` 1-490 | N stripe stores, the `writes` mutex, the sticky `refused` flag | the same, plus repair on reads | its stripes |
| `HolderStore` | `held.rs` 492-654 | a plain store for the device's own names, an `ErasureStore` for the rest, the erasure record on disk | the same, routed by name; open | both stores |
| `Repo` | `repo.rs` | joined groups, pending fetches, the store | SyncJoin, SyncLeave, BlobFetch, store_data, get | the service drains its pending fetches |
| `RepoService` | `service.rs` | one `GroupHandle` per running group, bounded channels | dispatch, start_group, stop_group, control messages | forwarder, groups, `Repo` |
| Two-phase ingest | `ingest.rs` | the group's state vector (in the sync library) | fetch, store, acknowledge, cancel | the sync library, the store |
| Command TLV | `tlv.rs` | none | encode, decode | |
| `ClusterState` | `cluster/src/coord.rs` | heartbeats, jobs and claimants as one node knows them | observe_*, designated_claimers, designated_keepers, jobs_to_release, shard_holders | |
| `ClusterNode`, `run` | `cluster/src/node.rs` | one `ClusterState`, own capacity | tick, observe, announce, run | gossip, and the embedder over two channels (ingest, drop) |
| Cluster messages | `cluster/src/msg.rs` | none | encode, decode | |
| Object erasure codec | `cluster/src/erasure.rs` | none | choose parameters, encode, reconstruct | |
| Daemon | `bin/ndn-repo.rs` | configuration | argument and key loading | wires the rest |

What is hard, and what makes each part correct:

* **ErasureStore.**  Reads take no lock and look stripes up one at a time while a
  writer rewrites them; a read that finds a stripe stale repairs it, under the
  lock, on what it reads again.  A kill or a power loss can come between any two
  stripes, each stripe keeping its own part of what was not synced; writes report
  no failure, so `sync` has to.  It is correct if any K good shards rebuild the
  packet, if no repair brings a replaced packet back, if a read answers for some
  moment of its duration, if what an Ok sync covered survives, and if an Ok sync
  hides no refusal or failed write.
* **Listing.**  Each stripe's scan is cut at the limit, so the stripes show
  different runs of names, and each shows them at another time, for a listing takes
  no lock.  It is correct if it returns only what could be read at some time of it,
  passes over no name that could be read throughout, and is no shorter than it need
  be; and if the repairs it makes bring back nothing that was removed meanwhile.
* **Cluster.**  Every node decides on its own view; views differ by messages in
  flight, skipped, or not yet sent, and by heartbeats that each node ages by
  itself.  It is correct if a covered job stays covered while excess claims are
  trimmed, if views meet again once the gossip is heard, and if the job comes to
  rest on as many nodes as it asks for after nodes fill up or stop.
* **Repo, service, ingest.**  The service's groups and the `Repo`'s set are two
  copies of one thing, with two ways to change them; cancelled ingest tasks may
  overlap their successors; channels between the driver and its groups are
  bounded both ways; an acknowledgement must never pass over a hole, whatever is
  fetched, fails, is rejected or is stored by somebody else.
* **Wire forms and the object codec.**  Fields come in any order, repeated, cut off
  or of unknown types, and numbers in four widths narrower than what they are put
  in.  An object is rebuilt from whichever holders answer, some of them wrongly.
  They are correct if what arrives is what was meant, or nothing.

`PROJECT.json` lists each hazard at its line with the properties that are for it.

## Modules

| Module | What it is |
|---|---|
| `ErasureStore` | one packet name in N stripes: every call of every thread, stripe by stripe, with faults |
| `MCErasureStore` | sets of threads and wires, symmetry |
| `Register` | abstract: one packet, read and written as if at one moment each |
| `ErasureReads` | `ErasureStore` as its callers see it; implements `Register` until the first fault |
| `MCErasureReads` | `ErasureReads` with the sets of `MCErasureStore` |
| `ErasureStoreProofs` | theorems about `ErasureStore` |
| `ErasureReadProofs` | theorems about what its lock-free reads answer, the refinement among them |
| `HeldScan` | a listing, stripe by stripe, beside writes, failing stripes and kills |
| `HeldScanProofs` | theorems about `HeldScan` |
| `Cluster` | one job among the nodes of a cluster |
| `ObjectErasure` | an object cut into shards, its manifest, and reconstruction |
| `ObjectErasureProofs` | a theorem about `ObjectErasure` |
| `ClusterObjects` | `Cluster` with `ObjectErasure`: which shards the claimants keep and what they save |
| `ClusterObjectsProofs` | theorems about `ClusterObjects` |
| `Wire` | the wire forms of commands, replies and cluster messages |
| `ClusterWire` | `Cluster` with `Wire`: its gossip encoded and decoded |
| `MCCluster` | `ClusterWire`, sets of nodes and levels |
| `MCClusterObjects` | `ClusterObjects`, sets of nodes and levels |
| `ClusterProofs` | theorems about `Cluster` |
| `RepoService` | the service's loop over the `Repo`'s groups, the instances it runs for them, the channels between |
| `RepoCommands` | `RepoService` with `Wire`: what a command's wire asks of the loop |
| `MCRepoService` | `RepoCommands`, sets of groups and names, which groups a name is under |
| `RepoServiceProofs` | theorems about `RepoService` |
| `HonestVector` | abstract: what a group member promises by the vector it advertises |
| `Ingest` | the ingestion loop of a group, eager or two-phase; implements `HonestVector` |
| `MCIngest` | publishers and publications |
| `IngestProofs` | theorems about `Ingest`, the refinement among them |

Operators marked "Mutant" are plausible mistakes in the operator defined after
them.  No specification uses one; putting it in the place of its original makes
TLC refute the property paired with it in `PROJECT.json`.

### ErasureStore

Names meet only in listings, so the module follows one.  `mem[i]` is what stripe
`i` answers, `disk[i]` the set of records a power loss may leave there, `failed`
and `refused` the sticky flags, `lock` the mutex; `pc`, `op`, `arg`, `nxt`,
`view`, `ok` and `out` are the locals of the threads' calls.

A record is abstracted to the wire it is a shard of, `None`, `Bad` (fails its own
digest) or `BadHead` (passes it under a rotten wire digest, which the shard's
digest does not cover).  `Assemble` is `assemble`: group the good shards by wire
digest, drop the groups below K, take the last of the largest.

| Action | Code |
|---|---|
| `BeginGet`, `ReadStripe`, `ReadStripeFails`, `JudgeGet` | `get`, `records`, `rebuild` |
| `Rejudge`, `MendStripe`, `FinishMend` | `repair` under the mutex |
| `BeginContains`, `JudgeContains` | `contains` |
| `BeginInsert`, `RefuseInsert`, `BeginRemove`, `LockWrite`, `WriteStripe`, `WriteStripeFails`, `FinishWrite` | `insert`, `remove` |
| `BeginSync`, `SyncStripe`, `SyncStripeFails`, `FinishSync` | `sync` |
| `Kill`, `PowerLoss`, `LoseStripe`, `BitRot`, `Open` | the environment, and reopening |

History variables say what may rightly be answered: `legal` (the packets the store
may hold now), `hist` (what a power loss may bring back), `damaged`, `rotten`,
`missed` (the inserts that were refused and the writes that some stripe lost since
the store was opened, of which callers are told nothing), and per call `seen`,
`hurt` and `owed` (`missed` when it began).  No good write makes `missed` smaller,
so `SyncHonest` asks of an Ok sync that nothing was missed before it, whatever
came after.  No step of the code reads them.

A stripe is taken by its documented promises (`store.rs` 11-15): a write that
returned survives a kill, one before a returned sync survives a power loss, a
power loss keeps a prefix of the rest, and a failed write fails later syncs.

### ErasureReads and Register

`Register` says what callers that know nothing of stripes may expect while nothing
fails: a write takes effect at one moment between its call and its return and is in
effect when it returns, and a read that hits answers with what was held at one moment
between its own.  It allows a read to miss: while two packets are mixed a get may
find neither, and the code does not promise that it will.

`ErasureReads` maps the store to it.  What is held is what the stripes rebuild
(`Assemble(mem)`), wherever a write is; a write is under way while its thread holds
the mutex; a get answers when all it does is done, its repair too.  The one variable
it adds, `found`, remembers what the stripes rebuilt during each get, for the mapping
to name the moment a get answers for.  With the first fault the promise ends (a
failed stripe or a rotten record may bring an older packet back; `legal` of
`ErasureStore` says which, and its own properties go on from there).

### HeldScan

A stripe holds a set of names.  A listing is a machine of its own: `phase` is
`"read"` while it scans the stripes, `at` the one it scans next and `got` what the
others showed; `"judge"` while it goes through the rows, `row` being the last; and
`"done"` with `listed` its answer.

| Action | Code |
|---|---|
| `BeginScan` | `scan_under` and `find_under` of `HolderStore`, down to the first stripe |
| `ReadStripe`, `ReadStripeFails` | the loop over the stripes in `scan`; a stripe whose scan fails looks empty |
| `JudgeRow` | the loop over the rows, with `rebuild` and `repair` under the mutex |
| `ScanAgain` | a row past `complete_to`: `scan` answers `None` and is called again, unlimited |
| `Merge`, `Return` | the own names are scanned and merged in |
| `MergeHeldOnly` | the own store's scan fails and looks empty |
| `BeginWrite`, `WriteStripe` | `insert` and `remove` of held names, a stripe at a time, the mutex held in `write` |
| `WriteOwn` | the same of own names |
| `Kill`, `LoseStripe` | the environment |

`kept`, `keptOwn` and `ever` are history: what every stripe and the own store held
ever since the listing began (nothing, of a store whose scan failed), and what could
be read at some time of it.  `gone` are the names
that were removed from every stripe, `failed` and `overlap` what was beside the
listing.  A stripe has a shard of a name or none: that the shards of a row may be
of two packets, or spoilt, is in `ErasureStore`, whose `Assemble` tells them apart.
One listing is under way at a time; two would share only the stripes and the mutex,
and what one of them repairs only adds shards to rows there are.  The repair of a
row is one step: that a lookup or a write fails within it is in `ErasureStore`.

### Cluster

`view[n]` is node n's `ClusterState`: heartbeat ages, levels, whether the job is
known by a Job (`announced`) or only by a Claim (`default`, with the default
factor), and the claimants.  `used[n]` is how full n's store really is.
`chan[a][b]` holds a's publications that b has not fetched, in order, as the
wiring of `tests/end_to_end.rs` has it; `Lose` skips one for good.

| Action | Code |
|---|---|
| `Tick` | `tick` and what `run` does with its outcome: heartbeat, `Released`, `Claimed`, publications, shard plan |
| `Deliver` | `observe` |
| `Announce` | `announce_job`, `announce_erasure_job` |
| `Pass` | an interval goes by: each heartbeat ages, each node may tick once more |
| `Lose`, `Vanish` | a publication not fetched; those of a stopped node |
| `Fill`, `Crash` | a store's level changes; a node stops for good |

What the abstraction leaves out, and why it may:

* One job.  Jobs meet only through the level of a store, and `Fill` changes a
  level at any time.
* Levels are a few numbers, not fractions of capacity; a store of capacity 0
  counts as level 0, as `utilization` has it.
* Ages are on the receiver's clock, as `observe_heartbeat` stamps them, and stop
  at the first that counts as dead.
* Ticks that tokio makes up for in a burst count as one per interval.
* Claim timestamps and heartbeat epochs are read nowhere.
* Stopped nodes do not come back; see below.

### Wire, ClusterWire and RepoCommands

A wire is a type and a list of fields, or one cut short; a field has a type and a
value, the digits of a number, or fields of its own.  Octets are digits in a base
(`Base`): the widths 1, 2, 4 and 8 and what is lost when a number is narrowed to
fewer are the code's for any base.  `EncodeCmd`, `DecodeCmd`, `EncodeRes`,
`DecodeRes`, `EncodeMsg` and `DecodeMsg` are the functions of `tlv.rs` and
`msg.rs`: what must be there and what may be missing, that the last of several
fields counts, that a name that does not parse counts as none in a command while a
text that is none spoils a reply, and that a missing number of a message is zero.

`RepoCommands` adds `Handled`, what `handle_sync_join`, `handle_sync_leave` and
`handle_blob_fetch` ask of the service's loop, and states that every input of
`RepoService` is what some client's wire comes to and every client's command comes
to what was meant.  `ClusterWire` adds `Observe`, the folding of a decoded message,
and states that `Cluster`'s `Fold` of the message itself is the same, for every
message in flight in every state.  Names and packets, and the reader of TLVs, are
the NDN library's.

### ObjectErasure and ClusterObjects

The K-of-N code is a library: a shard is taken for what it is computed from (one
segment, or all of them and its index), so a hash or a segment that is not right
shows.  `Manifest`, `Segment`, `ShardLen`, `Verified`, `Absorbed`, `Reconstruct`
and `Decodes` are `encode_object`, `ErasureManifest` and `reconstruct` with its two
callers that fetch: which parameters are refused, the padding of the last segment,
what is verified against the manifest, when too few shards are left, and that no
octet of a manifest may be missing or left over.

`ClusterObjects` asks what the claimants keep.  `run` fixes a node's shard when it
claims, by its view of that moment, and never again, so nodes that claim unheard of
each other keep the same one (`cluster_shards`).  `informed`, history in `Cluster`, is
the claimants that claimed when the job had been announced to them and every node's
heartbeat was live in their view; `LayoutSurvives` says that these keep different
shards of 0..N-1, although they claimed at different times and on different views,
with claims late, lost or not yet heard of.

### RepoService

The loop of `run` is a small machine: `pc` is `"loop"` at its select, and
`"register"`, `"route"` or `"send"` while it awaits room in the registration
channel, in a group's channel or in the outgoing one; `job` is the message or
control it handles.  `joined` is the set the `Repo` keeps, `handle[g]` the instance
the service runs for group g.  Each `start_group` makes an instance with a number
of its own, so that an old one and its successor are told apart; `grp`,
`cancelled`, `task` and `told` are an instance's group, token, ingest task and
updates, and `fetch` the fetches under way, each of a task or of a BlobFetch.

| Action | Code |
|---|---|
| `StartInitial`, `Start`, `Register` | `run` before its loop; `start_group` up to `emit_register`, and after it |
| `TakeControl`, `Stop` | the control branch of the select, `stop_group` |
| `TakeJoin`, `TakeLeave`, `TakePush`, `TakeRefused` | `handle_command_interest` with `handle_sync_join`, `handle_sync_leave`, `handle_blob_fetch` |
| `TakeFetch` | the same for a BlobFetch by name, with `drive_pending_fetches` |
| `TakeInterest`, `TakeSync`, `TakeData`, `Route` | `dispatch` of packets under a group, `serve_from_store`, `route_to_group` |
| `Send` | the reply or the stored packet goes out |
| `EndCancelled`, `EndClosed` | the two ways out of the loop, and what comes after it |
| `Update`, `TaskEnds` | `ingest_group` |
| `Ask`, `Absorb`, `Timeout` | an instance of the sync library, as `service.rs` and `ingest.rs` use it |
| `Arrive`, `Order`, `Forward`, `Registered`, `Cancel` | the embedder (the daemon's tasks), the operator |

What the abstraction leaves out, and why it may:

* A message is its kind and the group or name it is about; a command that the
  `Repo` answers with 400 is `Nothing` whatever the reason, and so is a BlobFetch
  with nothing in it that parses, which is answered with 200.  A BlobFetch with data
  and a name is a push followed by a fetch.
* `Prefixes[n]` are the groups a name is under.  The code takes the first match of
  a hash map's iteration, which is any: a choice.
* The queue of pending fetches is filled and drained by one handler without an
  await between, so it is empty in every state and not a variable.
* Two fetches of one name for the same purpose by one instance are one.
* A fetch's timeout is longer than a reply's way through the service: `Timeout`
  waits while one is `Coming`.
* An update tells of one publication; what a task acknowledges, and in which
  order, is for `Ingest`.
* `outband` and `missed` are history: which groups were touched other than by
  command, and whether a fetch timed out whose reply the loop had taken.

### Ingest and HonestVector

`Ingest` follows one group: `at[i]` is where the loop of its i-th instance is
(waiting, fetching, asking the store, acknowledging, ended), `job[i]` the rest of
its update, `queue[i]` the updates it has not taken, `vec[i]` the state vector its
instance advertises.  A group that is left and joined again gets a new instance
with an empty vector over the same store, while the old loop may finish its update.

| Action | Code |
|---|---|
| `Take`, `Ends` | the select of `ingest_group` |
| `Fetched`, `FetchedNothing`, `FetchFails` | `ingest_publication`: stored; refused or already there; not answered |
| `Check`, `Ack` | two-phase: `find_under`, then `ack`, or the `break` at a hole |
| `Join`, `Leave`, `Restart` | `start_group`, `stop_group`, the process going down |
| `FetchedByName` | a BlobFetch by name stores a publication that the validator accepts |
| `Push` | a BlobFetch with the data inline stores it, without asking the validator |
| `Hear` | the sync library merges a peer's vector and queues an update |

`HonestVector` says what the vector promises and nothing of queues, fetches or
loops: in two-phase mode an entry advances only over publications the store holds,
and nothing rejected is stored but by a push (`pushed`, history).
`Ingest` implements it with its running instances for `running`.

## Runs

Bounds are constants, named in the modules and set in the .cfg files.

| Run | Instance | Shows |
|---|---|---|
| `erasure_faults` | 2 of 4, one caller, 3 wires of which one is too big to code, 3 calls, 3 faults | `TypeOK`, `AnyKRebuild`, `OneOverwriteKeepsOne`, `ReadHeals`, `SyncedSurvives`, `SyncHonest` |
| `erasure_threads` | 2 of 3, two callers, 3 calls, 1 fault, fair | `NoStaleShard`, `HitIsRegular`, `GetHits`, `ContainsRegular`, `FoundMovesOn`, `IsRegister`, `Returns` |
| `erasure_contains` | 3 of 4, 2 calls, 1 fault | **violated** `ContainsAgreesWithGet` |
| `erasure_mirror` | 1 of 2, 2 calls, 1 fault | **violated** `AnyKRebuild` |
| `scan_listing` | 2 of 3, 5 names (the fourth an own one), limit 2, one write or failing scan within a listing | `TypeOK`, `NoGap`, `RemovedStaysGone`, `FullUnlessBroken` |
| `scan_own` | 2 of 3, 5 names (the fifth an own one), limit 2, nothing beside a listing | **violated** `NonePassedOver` |
| `cluster_gossip` | 3 nodes of uneven level, 2 shards, factor 3 until the job is announced, every node forgotten after one interval, 2 intervals, 1 loss | `TypeOK`, `BestClaimantsStay`, `CoverageHolds`, `ReleaseLeavesFactor`, `LayoutSurvives` |
| `cluster_settles` | 3 nodes, factor 2, timely gossip, 1 change of level, 1 stop, fair | `AgreeOnceHeard`, `GossipSurvives`, `Settles` |
| `cluster_release` | 3 nodes, factor 2, timely gossip, 1 change of level | **violated** `ReleaseKeepsCoverage` |
| `cluster_shards` | 3 nodes, 2 shards, timely gossip | **violated** `ShardsDistinct` |
| `service_groups` | 2 groups, one joined at startup, a name under each, 3 messages or controls, inbound channel of 2 slots and the others of 1, fair | `TypeOK`, `LiveIsHandled`, `CopiesAgree`, `KeepsToGroup`, `RepliesReach`, `CommandsArrive`, `Serves`, `LeftComesToRest` |
| `ingest` | one publisher with 3 publications, the second rejected, 2 joins, 1 failing fetch, 1 update queued, fair | `TypeOK`, `Honest`, `KeepsPromise`, `Converges`, `StoresAllButFailed` |

Why the bounds are enough for the cases that matter.  The hazards of the store
need an old and a new packet, one writer cut short or running beside one reader
that repairs, and a fault: two wires, two threads and three calls hold each of
them (a packet stored, an overwrite, and a get that repairs or a look-up beside it);
what a call after these would find shows in what is there.  Three faults let one
stripe be lost, one rot and the process stop in one run; 2 of 3 leaves one stripe to
spare, 2 of 4 leaves two and makes a tie possible.  In the
cluster, an excess claim needs factor + 1 nodes; a release on stale news needs
one interval to claim and one to release, with a skipped or late publication
between them; a node that fills or stops makes the others claim and release
once more.  `MaxFlight` bounds the publications in flight together,
and stops senders, not receivers; the runs with timely gossip set it to what a
whole interval can send, so that it stops nobody.  The runs without timely gossip
may stop at their bounds, as the store's runs may when their calls are used up:
`CHECK_DEADLOCK FALSE` stands in those.  The service too comes to rest, when it has
ended and its instances have, or when no more inputs come.  Three inputs on top of
the group joined at startup make a leave with a rejoin, a fetch with its reply
under a cancellation, and two groups side by side; with channels of one slot the
loop finds each of them full.

A listing is cut short, judged and done again only if the stripes show different
names, which two of three stripes with four held names do; two names beyond repair
before readable ones are the least that makes it pass something over.  `MaxBeside`
bounds what begins within one listing.  One write is enough to come between two
stripes or before a repair, or to run from before the listing into it, stripe by
stripe; the proofs need no bound.  Writes before a listing are not bounded, so the
listings start from whatever kills and lost stripes can leave.

The codec is tried on objects of up to 5 octets (`MaxLen`) and up to 5 shards
(`MaxN`): shorter than k, a multiple of k, and one more or less, with any mixture of
good, bad and missing answers.  `Base` is 4, so that a number of each of the four
widths, and the ends of each, are small; the numbers tried are 0, the last of each
width and the first after it.  Of `Ingest`, three publications are one to
acknowledge, one that is rejected or pushed, and one past it, the second join an
instance over a store that has them; a queue of one update makes the library wait.
Publishers meet only in the queue.  In `cluster_gossip` the default factor differs from the announced one,
so nodes that know the job by a claim alone claim and release by another factor.

Fairness.  `erasure_threads` assumes a thread that is in a call goes on when it can
(weak fairness of `Proceed(t)`: the mutex is held for a bounded number of steps,
and each call ends, so waiting for it need not be strongly fair in these bounds)
and a holder that went down is opened again; no caller need call and no fault need
happen.  The cluster's runs assume that ticks fire, time passes and gossip in
flight arrives (one weak fairness over the three: under `Prompt` an interval has
finitely many steps, so none can starve the others); it is what `run`'s interval
and the sync group's fetch loop do while a node runs.  Nothing is assumed of
`Announce`, `Fill`, `Lose`, `Crash`.  `Prompt` says that ticks and their gossip
take less than an interval, as the coordinator supposes when it waits several
intervals before it takes a node for dead; safety of coverage is checked and
proved without it.
`service_groups` assumes that the loop goes on
when it can, that an instance does (the runtime polls a task that is ready, and a
fetch that is not answered times out) and that the embedder empties the outgoing
and the registration channel, as the daemon's tasks do; weak fairness is enough, as
the bounded inputs leave no cycle in which room comes and goes for ever.  Nothing
need arrive, and nobody need cancel.
`ingest` assumes that each loop goes on (a fetch is answered or times out) and, of
the sync library, that an entry of a peer's vector that is still news is heard when
it is so again and again (strong fairness of `Hear` for a publisher's newest
publication): peers send their vectors periodically, and the library derives the
gap anew each time, which is what the code itself counts on when it breaks at a
hole ("its gap stays open and re-derives", `ingest.rs` 38-40).  Nobody need join,
leave, push or fetch anything by a command, and fetches may fail up to the bound.

## What the violated properties say

1. `erasure_contains`: a power loss in the middle of an overwrite, the old packet not
   yet synced, can leave the new record in one of four stripes and the old one in two.
   `get` then has no three shards of one packet, yet `contains` says true: it counts
   records of both packets together.  A kill leaves the like only after two of the
   four stripes; after one there are three old shards, and `get` answers with the old
   packet.
2. `erasure_mirror`: with K = 1, a rotten wire digest in the last stripe makes a
   group as large as the good one, which wins the tie; `get` decodes that group
   only, fails, and never tries the good shard.
3. `scan_own`: if all cut-short stripes stop at the same name and rows before it
   cannot be rebuilt, no row is left to show that there is more: the scan ends
   below its limit, and where the prefix spans own names, a later one takes the
   place of the readable packet passed over.  With stripes {2, 3, 4}, {1, 3, 4} and
   {3}, limit 2 and the own name 5, the listing is 3, 5; two stripes hold 4.
4. `cluster_release`: a node learns its own new level a tick before its peers do,
   so the node that filled and the node its peers still rank last can both
   release.
5. `cluster_shards`: nodes that claim at their first tick each rank themselves
   first, and all store shard 0.

A sixth observation has no run: a Release that is not fetched is never repeated, so
its sender stays a claimant in that view as long as it beats (`Lose` in `Cluster`;
`AgreeOnceHeard` holds only while nothing is lost).

Two more, of the codec and of the ingest, have none because they are about time or a
library.  `reconstruct_with_async` waits for the answers of all N holders, so that
one that never answers costs the whole timeout, although its comment (`erasure.rs`
279-284) has recovery take as long as the K fastest.  And an eager loop leaves a
failed fetch to "the next update" (`ingest.rs` 28-31), which comes only if the
library queues an update for a gap its vector has passed; `StoresAllButFailed`
leaves out what failed.

A pushed Data packet is stored without the ingest validator (`repo.rs` 149-177), and
the two-phase loop takes presence in the store for acceptance, so it acknowledges a
rejected publication that was pushed; `ingest.rs` 35-37 says it acknowledges only what
was fetched and passed the validator.  `Push` is in `Ingest`, and the properties are
stated with it: `KeepsPromise` lets only a push store what is rejected, and `Converges`
lets the vector pass a rejected publication that the store has.

Three more observations, of the service, have no run either.  With nested group
names a reply may be routed to the wrong one of two groups that both match
(`route_to_group`), and the fetch it was for times out: `RepliesReach` is violated
in `MCRepoService` with `Prefixes <- Nested`.  A BlobFetch by name under no running
group is answered 200 and forgotten.  And when every sender of the control channel
is gone its branch of the select is always ready, so the loop spins.

The claims the five runs contradict are quoted in `PROJECT.json` under "findings".

## Proofs

The theorems hold for any finite set of nodes or any K and N, any factor, levels
and bounds allowed by the modules' ASSUMEs (`CodingAssumption`,
`ValueAssumption`, `ScanAssumption`, `ClusterAssumption`, `ObjectAssumption`,
`ServiceAssumption`, `IngestAssumption`), which only say what the constants are:
1 <= K <= N, as `Erasure` parses it; special values that are no wires; nodes that
are finitely many and ordered; factors above 0; channels with room for a message.

**ErasureStoreProofs.**  `TypeCorrect`, `NoStaleShardCorrect`,
`HitIsRegularCorrect`, `AnyKRebuildCorrect` (for K > 1, which `erasure_mirror`
shows is needed), `SyncedSurvivesCorrect` and `SyncHonestCorrect`.  The first five
rest on `IInv`, inductive where the properties are not:

* `LockInv`: the mutex is held exactly by the thread that writes stripes, so the
  packets it writes are not replaced under it;
* `LabelInv`: a place in the code belongs to its operation;
* `MemInv`: a stripe that is not damaged holds a legal packet;
* `WriteInv`: what a writer writes is legal, and the stripes it has passed hold it
  (so that a completed write may leave it the only legal packet);
* `DiskInv`: what a power loss may leave is in `hist`, or the stripe is rotten;
* `SyncInv`: the stripes a sync has passed keep only what was legal during it;
* `ReadInv`: what a read has gathered was legal during it.

`HInv` adds `MissInv` (once anything was missed a flag is up, for as long as the
store is open) and `HonestInv` (a sync that began with something missed is to fail
already, or has a failed stripe ahead of it).  `AnyKRebuild` counts: at most N - K stripes lack the one legal packet, so K
hold it, and any other group is of one rotten header, smaller than K.

**ErasureReadProofs.**  `OneOverwriteKeepsOneCorrect`, `GetHitsCorrect`,
`ContainsRegularCorrect`, `ReadHealsCorrect` (for K > 1; K = 1 is neither proved nor
checked), the action property `FoundMovesOnCorrect`, and the refinement
`ReadsAreAtomic` with `HitsWereFound`.  The data first: of two wires in 2K - 1 sound
stripes one has K shards, and if both have, the larger group or the later one wins
(`RebuildOneOfTwo`), so records of no more than two packets rebuild one of them.  Then `RInv`, which is `IInv` with

* `LegalInv`: there is always a legal packet, and never infinitely many;
* `HurtInv`: an operation counts every damaged stripe as hurt;
* `ViewInv`, `AnswerInv`: a read's answer is that of records faithful to its time,
  legal at some time of the read but for the hurt stripes.  Both grow with the read,
  so no step of another thread disturbs them (`ReaderOrUntouched`, `UntouchedKeeps`);
* `HealInv`: the shards a get without faults has seen are still there, and what its
  repair has passed is sound.

`FoundMovesOn` is about steps: which packet the stripes rebuild is changed by writes
alone (and faults), each toward its own packet, so a get that repairs disturbs no
other.  Its data lemma is that a packet that is rebuilt still is when one more stripe
takes its shard (`StaysFound`: its group grows, no other does), for every K, tie and
rotten header.  `MendInv` says that a repair that met no fault writes what the stripes
rebuild *now*: it judged again under the mutex, every stripe readable, and nobody else
wrote since (`MendsOn`).  For a write, what is rebuilt before and after is one of the
two legal packets (`RebuildOneOf`, or `OneWireFound` when one of them is no packet),
and once it is the new one it stays.  Without the condition on sound stripes an
overwrite may pass through no packet at all, as `OneOverwriteKeepsOne` explains; a
third legal packet, left by a write that failed in some stripe, may win for a while.

`ReadsAreAtomic` (for N >= 2K - 1, K = 1 included) is that `ErasureReads` implements
`Register`, and `HitsWereFound` the part of it that holds for every K of N.  That a get
answers with one *legal* packet (`HitIsRegular`) leaves open that it answers with a
packet that no moment of the get would have given: its records come from different
moments, and several writes may pass it by.  `RegInv`, until the first fault, shows that
they do not add up to such a packet:

* `CutInv`: the stripes hold one packet, but for those a writer has passed, which hold
  its own (`Cut`); so a repair that judges again finds nothing to mend;
* `FoundInv`: a get remembers what is rebuilt now;
* `PartInv`: a wire x among the records read so far that was never rebuilt during the
  get is in one of two ways harmless.  It is `Coming`: a write of x is under way, the get
  has x only from stripes that write has passed, and nothing after them but x and what
  x replaces.  Or it is `Sealed`: x was being replaced when the get met it, and every
  stripe before some m was read as one other packet a, where a write of a over x that
  has come to m does not leave x rebuilt;
* `GetInv`: what a get is about to answer is none, or was rebuilt during it.

The data lemmas say who wins in a `Cut` (`CutFinds`: the new packet when it has K
stripes and more than the old, the old one when it has K and no fewer), and that the
records of a get rebuild a sealed or a coming x only if the stripes do
(`SealedUnread`, `ComingUnread`).  It is here that the order of the stripes counts: both
a read and a write go from the first to the last, and a tie goes to the packet whose
first stripe is later, which is the one being replaced.  In the refinement `LockWrite`
is `StartWrite`, the one `WriteStripe` that changes what is rebuilt is `TakeEffect`
(`CutMovesOn`), `FinishWrite` is `EndWrite`; `BeginGet`, the `JudgeGet` or `Rejudge` that
ends it and `Return` are `StartRead`, `Answer` and `EndRead`; every other step is not
seen.  With N < 2K - 1 it fails in one place, which TLC finds at 2 of 2: in the middle of
an overwrite neither packet is rebuilt, so for a while the register would hold none.

**ClusterProofs.**  `TypeCorrect`, `BestClaimantsStayCorrect`,
`CoverageHoldsCorrect`, `ReleaseLeavesFactorCorrect`, `AgreeOnceHeardCorrect`.

* `KnowInv` says what nodes can know while levels stay: publications carry their
  sender's level (`ChanInv`, nobody publishes to itself), a node held to be live is
  ranked where it belongs (`LevelInv`), and only nodes that claimed are taken for
  claimants (`EverInv`).
* A node that must release sees as many live claimants before it as the job asks
  for (`ReleaseSees`).  By `KnowInv` they are its `Rivals`: nodes that claimed at
  some time and really do go before it.  Rivals only get more, so a node with
  fewer of them than the factor never releases: `BestClaimantsStay` is inductive
  with `KnowInv`, and no timeliness of the gossip comes into it.
* `CoverageHolds` follows: if some node that claimed has let go, take one whose
  rivals form a smallest set (by well-foundedness of strict inclusion); its rivals
  all hold the job, and they are at least the factor.
* `ReleaseLeavesFactor` is the same count in the node's own view.
* `TellInv` is behind `AgreeOnceHeard`: the last Claim or Release on its way
  says what the sender holds now, and if there is none the listener believes it
  already.  FIFO order and no loss are what it needs.

**RepoServiceProofs.**  `TypeCorrect`, `LiveIsHandledCorrect`, `CopiesAgreeCorrect`,
`KeepsToGroupCorrect` and, for groups of which none is a prefix of another
(`GroupsApart`), `RepliesReachCorrect`.

* `CountInv`: each start is paid for by a message, a control or a configured group
  that is no longer in its queue, so instances are never numbered past the bound.
* `JobInv`: a loop that awaits room to register still has a group no instance runs
  for, joined by command or noted in `outband`; one that awaits room in a group's
  channel has an instance to route to.
* `LiveIsHandled` is inductive with these: only `Stop`, `Register`, `Ends` and
  `Cancel` touch tokens and handles (`TokenSteps`), and each cancels what it takes
  out of `handle`.
* `CopiesAgree` is inductive with `JobInv`, which says what a join is in the middle
  of.
* `KeepsToGroup` is inductive with `LiveIsHandled`: what the loop picks for a name is
  the handle of a group that the name is under, and that instance was started for this
  group; instances keep their group for good (`UnderStays`), so nothing that waits
  goes astray when the group is left or joined again.  It needs no `GroupsApart`.
* `RepliesReach` rests on `HeardInv`: a fetch whose reply was taken has asked for it,
  and the reply is at hand for its instance or in its channel (`Routed`).  With
  `GroupsApart` the running group of the fetch is the only one the loop can pick; from
  then on the reply stays on its way (`RoutedStays`) until the instance takes it,
  which ends every fetch that waits for it (`AbsorbEnds`).  Neither a leave nor the
  end of the loop empties a channel on the way.

**HeldScanProofs.**  `TypeCorrect`, `NoGapCorrect`, `RemovedStaysGoneCorrect`, for
any number of writes, repairs and failing stripes within a listing, and
`FullUnlessBrokenCorrect` for a listing with nothing beside it.

* `ViewInv`: a stripe that was scanned without failing showed each name it has kept,
  or was cut short before it; `RowInv`: no row is judged past what every stripe
  showed.  Together they give that a name kept by K stripes, at or before the last
  row, has been rebuilt (`SteadyOut`), which is the half of `NoGap` that says nothing
  is passed over.
* `MixInv` is the other half: a name that could be read at no time of the listing is
  shown by fewer than K stripes, counting those still to be scanned that have it now
  (`Possible`).  An insert that the scan overtakes adds a stripe to these; but then
  it has written every stripe that the scan has read (`WriteInv`: it goes in the same
  order), so all that showed the name hold it now, and are fewer than K because it
  cannot be read now.  A remove only takes away.
* `GoneInv`: the repair takes the mutex and reads again, and what it writes back is
  in some stripe, so it makes no row that was not there (`MendedIs`).
* `QuietInv`: beside nothing but its own repairs, a listing finds what it has read
  still there, and nothing can be read that could not when it began.  So a readable
  name up to the last row is out, and one past it lies past all that are (`QuietOut`);
  enough packets out are the first ones, with the own names merged in
  (`FirstOfMore`).  If all rows were judged and too few are out, a readable name not
  out was kept by K stripes that were all cut short before it; each of them showed
  `limit` names, more than are out, so one that cannot be rebuilt
  (`CutShortIsBroken`).  Hence K stripes are broken, which is what `scan_own` shows
  to be possible, and why the property has that condition.

**IngestProofs.**  `TypeCorrect`, `HonestCorrect` and `PromiseKept`, the refinement
of `HonestVector`.  `Checked` says that a loop about to acknowledge has the
publication in the store, `NoneAhead` that no queued update or loop starts past the
entry after the vector's (so that an acknowledgement leaves no gap below it),
`Held` that the store has what the vector of a running instance counts.  `Held` needs
`Restart` to end every instance: what a power loss takes from the store was
advertised by none that is still running.  That a pushed publication may be one the
validator rejects changes none of this.  In the refinement each `Ack` that moves
the vector and each `Hear` in eager mode is an `Advance`, `Fetched` and
`FetchedByName` are a `Store`, `Push` is a `Push`,
`Join`, `Ends` and `Restart` are `Start`, `Stop` and `Down`, and the rest stutters.

**ObjectErasureProofs.**  `ReconstructExact`: for every object, k, redundancy and set
of answers, K verified shards give exactly the object and fewer give nothing.  The
first K verified are K in number (if they were fewer, the least of the others would
be one of them), K shards without some segment have a mixture of all of them among
them, and the segments joined are the object, octet by octet.

**ClusterObjectsProofs.**  `CodecCorrect` takes this to the mixtures of answers that
`CodecExact` enumerates, for every length and number of shards.
`LayoutSurvivesCorrect` is about what nodes keep.  `KeptInv` says that an informed
claimant keeps the shard of its `Rank`, how many nodes with capacity really go before
it, and that this is below the factor.  It is so when it claims (`InformedRank`): by
`LevelInv` of `ClusterProofs` the levels in its view are the true ones, and as it is
designated, the claimants before it (which its need was reduced by) and the others
before it (fewer than its need) are fewer than the factor (`DesignatedRank`), so it is
among the holders, at its rank (`HolderIndex`).  It stays so: nothing but its own
tick and its stop touches what it keeps, and a tick that lets go does not claim in the
same breath (`NoReclaim`).  Ranks are a strict order's, so no two are the same.

Only model-checked: liveness (`Returns`, `Settles`, `Serves`, `LeftComesToRest`,
`Converges`, `StoresAllButFailed`), which is beyond the prover, as is what `ENABLED`
and fairness say; and the wire forms
(`GossipSurvives`, `CommandsArrive`), which fold over lists of fields and digits, so
that a proof would go by induction over data.  No module declares a RECURSIVE
operator.

## What could follow

1. A run for nested groups.
2. The first and later opens of `HolderStore`, stopped between creating the
   directory, the erasure record and the stores, with the same or other parameters.
3. `Register` beyond the first fault: one of the two packets of a write cut short,
   as `OneOverwriteKeepsOne` has it.
4. `Cluster` with restarts within the dead interval, with a Claim or Release that
   is never heard, and with the embedder's two channels.

## Not modelled

* fjall, Reed-Solomon arithmetic, TLV byte layout, signatures, the sync library's
  protocol: libraries, or data no property tells apart.  Where the code relies on
  a promise of theirs, the model has the promise.
* The daemon's argument parsing and wiring: configuration and I/O.
* `HolderStore::open`'s erasure record: `HeldScan` and `ErasureStore` begin with
  stores that are open.
* A restarted cluster node: what the coordination group's sync instance replays to
  it is the library's affair and decides what it knows.
* Several jobs, and the order in which the embedder takes from `run`'s two channels.
* The printing and parsing of `k/n`; metrics, logging, wording.

## Running

    tlc -workers 2 -config ErasureFaults.cfg MCErasureStore
    tlc -workers 2 -config ErasureThreads.cfg MCErasureReads
    tlc -workers 2 -config ScanListing.cfg HeldScan
    tlc -workers 2 -config ClusterGossip.cfg MCClusterObjects
    tlc -workers 2 -config ServiceGroups.cfg MCRepoService
    tlc -workers 2 -config Ingest.cfg MCIngest
    tlapm ErasureStoreProofs.tla

and so on for `ErasureReadProofs`, `HeldScanProofs`, `ClusterProofs`,
`ObjectErasureProofs`, `ClusterObjectsProofs`, `RepoServiceProofs` and `IngestProofs`.

`PROJECT.json` pairs every .cfg with its module and what it is expected to show.
