# A verification of ANCRE in TLA+

ANCRE is a gateway in front of LLM providers that leaves evidence: every call
becomes an event, the events of one `(tenant, system)` form a hash chain in
ClickHouse, the chains are covered by signed Merkle checkpoints, and an offline
verifier accepts or refuses an exported pack. The modules in this directory
model the parts of that pipeline whose correctness depends on the order in
which things happen. TLC checks them on small instances and TLAPS proves the
central facts for instances of every size.

Paths below are relative to the repository (`src/` in `PROJECT.json`'s map).

## Inventory of the system

| Component | State it keeps | Operations | Interaction | What is hard |
|---|---|---|---|---|
| `ancre-canon` | none | canonical CBOR, SHA-256, RFC 6962 Merkle root, inclusion proofs | pure; used by chain, checkpointer, verifier | tree shape for sizes that are no power of two |
| `ancre-chain` | none | `seal`, `verify_range`, `build_checkpoint`, `verify_checkpoint`, consistency | pure; used by ingester, control plane, verifier | a fork told from a gap, ranges that start in the middle |
| `ancre-types` | none | events, pins, config snapshot, risk profile, timestamps | data of all the others | coverage of the snapshot digest |
| `ancre-resolver` | the published snapshot (an `ArcSwap`), the time it was confirmed | `resolve`, `reload`, `confirm_fresh`, diff of bundles, staleness verdict | read on the hot path, written by the config feed | generations that arrive out of order, a reader between two reads |
| `ancre-provider` | parser state of one stream | request and response dialects of providers, SSE framing | used by proxy and tap | events cut at any byte |
| `ancre-gateway`: `proxy`, `tap`, `upstream`, `auth`, `serve` | one request's tap state | authenticate, resolve pins, forward, tap the response, emit one event | emits into telemetry | exactly one event per attempt, whatever way the stream ends |
| `ancre-gateway`: `telemetry`, `bus` | bounded channel, drop counter per chain, current batch | `emit`, `run`, `flush`, `recover`, shutdown drain | publishes to JetStream | counting every drop exactly once, failed publishes, cancellation |
| `ancre-gateway`: `config_feed`, `control` | the subscription, the source of snapshots | `poll_once`, `apply`, `confirm_fresh`, `record`, watch | asks the control plane over HTTP, listens on JetStream, writes the resolver | poll racing with push, lost updates |
| `ancre-ingester` | per chain: next seq, head hash, dedupe window, heartbeat day; position of the durable consumer | `pull_once`, `ingest`, `rewind`, `insert_with_retry`, `heartbeats`, `run` | consumes JetStream, writes and reads ClickHouse | crash, cancellation, lost replies, redelivery, out-of-order batches |
| `ancre-control`: `checkpointer`, `keys`, `postgres` | checkpoints and signing keys in Postgres, time of the last checkpoint | `tick`, `checkpoint_chain`, `rotate`, `install_active_key` | reads ClickHouse, writes Postgres | two replicas, two reads of a growing chain, one failing chain |
| `ancre-control`: `snapshot`, `registry`, `bus`, `api`, `auth` | registry rows, last published generation | `publish`, mutations of the API, sessions | announces generations on NATS | allocation of a generation before a send that may fail |
| `ancre-control`: `export`, `overview`, `envelope`, `ui`, `clickhouse` | none | evidence packs, summaries, dashboards | read-only; the pack is put together by a script or by the browser | several queries, of a chain that grows and keys that rotate |
| `ancre-verify` | none | check a pack: digests, chains, checkpoints, key windows | reads a pack file | runs of events attested by several checkpoints |
| `bench`, `deploy`, tests | none | benchmarks, compose files, fixtures | – | – |

What makes each of them correct:

* **ingester** – a chain in the store has neither gap nor fork; an event leaves
  the stream only once it is stored; redelivery does not double it; what is
  lost shows; a silent chain has one heartbeat a day.
* **telemetry** – every emitted event is published or counted as dropped,
  exactly once, per chain.
* **config feed, resolver, publisher** – a gateway serves the content that was
  published under the generation it pins; it ends up on the last one; how long
  it serves a superseded one is bounded. Each of its two tasks takes up
  generations in order; the gateway that both install into may go back, a
  counterexample.
* **checkpointer, keys** – a root is over one row for each place of its range,
  no place is skipped, every signature has a key that was published, and the
  windows of the keys follow each other. (Two replicas may seal ranges that
  overlap.)
* **chain verification, packs** – a sound pack verifies whenever it was
  exported, and a clean one holds the rows that were stored, none missing
  and none altered, up to the last place that a checkpoint vouches for.
* **proxy, tap, SSE** – one event per answer, pinned at admission, with what
  the stream really contained; **diff** – a model swapped under a request is
  flagged.
* **read API** – what is handed out hashes as it was sealed, a summary is of one
  chain as it grew, a session lasts as long as it was granted.
* **canonical encoding, Merkle tree** – one value, one encoding; one place of a
  range, one proof, and no other event verifies there.

## Modules

| Module | Models | Extends |
|---|---|---|
| `Ingester`, `IngesterProperties` | consumer loop, chain writers, rollback, retry, heartbeats, crash | – |
| `AuditLog` | what the store promises its readers; `Ingester` refines it | – |
| `Telemetry` | channel, drop counter, batcher, publishes that fail | – |
| `SnapshotPublisher` | publish loop, generations, the stream, the read API's snapshot | – |
| `ConfigFeed` | poll, watch, resolver, events about reloads | `SnapshotPublisher` |
| `FeedOrder` | which generation each task of a gateway took up last | `ConfigFeed` |
| `Config` | build, envelope, resolve, diff of two snapshots | – |
| `Stream` | SSE frames over chunks, what a document and a stream of them tell | – |
| `Requests` | one request: proxy and tap, while configurations are installed | `Config`, `Stream` |
| `Checkpointer` | replicas that boot, install keys and seal chains | – |
| `Evidence` | export, pack, damage, verifier | `Checkpointer` |
| `Canon` | the canonical encoding and its strict decoder | – |
| `EventRows` | an event, its hash, its row | – |
| `ReadApi` | sessions, listing, summary, a range of events | `EventRows` |
| `MerkleTree` | tree, inclusion proofs, what may be done to them | – |

`*Proofs` hold the theorems of a module, `MC*` its small instances. What one
module leaves open, another one shows: `Evidence` takes a hash for what it was
computed from, which `MerkleTree` justifies for roots, `Canon` for the encoding
and `EventRows` for the way through the store; `Checkpointer` lets a chain have
rows twice and places without a row, because `Ingester` shows how they come
about; `Requests` hands its events to `TelemetryFork::emit`, where `Telemetry`
begins, and takes a reload for one step, which `ConfigFeed` takes apart.

Type invariants (`TypeOK`, `FeedTypeOK`, `CpTypeOK`, `ReqTypeOK`) are not among
the properties of the runs: they are proved, for every value of the constants.

## The ingester

### Correspondence

`Ingester.tla` is one ingester process, the durable consumer's view of the
stream, and the ClickHouse table. Its atomic steps are the stretches of code
between two awaits of `pull_once`, `ingest`, `insert_with_retry` and
`heartbeats`; between two of them a crash, the heartbeat tick, an
acknowledgement timeout or the next day may come.

| Variable | Code |
|---|---|
| `deliv` | the stream's state of a message for the durable consumer: to deliver, delivered and not acked, acked |
| `rows` | `audit_events`, per chain, in insertion order |
| `writers` | `Ingester::writers`; a record per chain with `next_seq`, `head_hash`, `seen` (with its order: see below), `last_heartbeat_day` |
| `pc`, `batch`, `pending`, `chained`, `rollback`, `attempt` | where the loop is, and the locals of `pull_once`, `ingest` and `insert_with_retry` |
| `today` | the day of the clock |
| `faults` | how many of the counted faults have happened (a bound) |

| Action | Code |
|---|---|
| `Pull` | fetch of a batch, acking what does not decode |
| `ChainNext`, `ResumeChain`, `HeadUnavailable` | one turn of `ingest`'s loop: with a writer, resuming from the store's head, with the head query failing |
| `InsertOk`, `InsertFails`, `InsertReplyLost` | one attempt of `insert_with_retry`; the last failure rewinds and defers |
| `Ack`, `AckError`, `Nak` | the end of `pull_once` |
| `AckTimeout` | JetStream's redelivery after `ack_wait` |
| `Heartbeats`, `HeartbeatsStored`, `HeartbeatsFail` | the heartbeat arm of `run` |
| `Crash` | the process dies, or is shut down, at any await, and restarts with empty memory |

Abstractions. A hash is the event with the number of its copies stored when it
was sealed, so that two sealings of one event differ the way `ingested_at` makes
them differ. `seen` and `seen_order` are one set of pairs: the positions
in it ascend in insertion order, so trimming the deque is keeping the newest
`DedupeWindow`. Batches are chained in any order because redelivery permutes
the stream. `seal` cannot fail on an event that was decoded (no map with
repeated keys, no float), so the error return at `pipeline.rs:112` is not
reachable and not modelled. A fetch and the acks of undecodable messages
are one step; a process that dies or is cancelled among them is in a state the
model reaches by `Pull` followed by `Crash` or by the tick. An insert that
another process of an earlier life of the ingester still has in flight after
a crash is not modelled.

Fault kinds are a constant, so that a run says which of them it allows: the
store refuses (`storeDown`), acks get lost (`ackLost`), the process dies
(`crash`), the tick of `select!` drops a pull in flight (`cancel`), an insert
commits and its reply is lost (`lostReply`), the heartbeat insert fails
(`beatFail`).

### What the runs show

| Run | Question | Bounds |
|---|---|---|
| `ingester_chain` | `ChainIntact`, `WriterAtStoreHead`, `AckedIsStored`, and the refinement of `AuditLog`, under crashes, outages, lost and late acks | 3 messages on 2 chains (2 on one chain, so that a batch holds a link and both chains of a batch roll back together), 2 attempts, one day, 1 crash |
| `ingester_settles` | under fairness, `EveryMessageSettles`, also with inserts that commit without a reply and heartbeats that fail | 1 message and one that does not decode, 2 attempts, 2 counted faults |
| `ingester_gaps` | with cancellation and heartbeats that fail, and without a crash, `StoredOnce`, `SeqNotReused`, `LossLeavesGap` and `MarkedDayShows`: what is lost is visible as a missing seq, the heartbeat of a day that was marked included | 3 messages, one that does not decode, 2 days, 2 counted faults |

Two messages on a chain are the least that make a link, a rewind past a stored
row and a redelivery in the other order; a second chain is what makes a batch
roll back several writers; two days are what makes a stale heartbeat day. One
crash reaches every state a crash can lead to from a state with empty memory;
a second one repeats it. `MCSymmetry` exchanges the two messages of one chain,
which nothing tells apart; the run with a liveness property uses no symmetry.
The proofs below remove the bounds for the safety properties.

Two runs are expected to fail, and their entries in `findings` say where the code
does not do what its comments say.

* `ingester_cancel_loses`: when the hourly tick fires while `pull_once` waits for
  the store, `select!` drops it. The writers have advanced and remember the
  events of the batch, the rollback map is gone. Redelivered, the events are
  duplicates, are acked, and were never stored.
* `ingester_marks_unstored`: a heartbeat whose insert fails has marked its day
  (`MarkedDayIsStored` fails), so that no later tick of the day writes it, and has
  advanced the writer. What is left of the promise is `MarkedDayShows`: the
  heartbeat is stored, or there is a seq that it used up and that no row
  carries, so the hole is one `verify_range` reports.

More counterexamples are listed at the end, among them
`IngesterReplyLostForks.cfg`: an insert that commits but reports an error is
rewound or retried, and its seqs are stored twice.

### Fairness

`FairSpec` assumes that the loop goes on (`WF` of the steps that are always
possible when the loop is there: `ChainNext`, `Nak`, `HeartbeatsStored`), that
JetStream's redelivery timer fires (`WF` of `AckTimeout`), and that a store or
bus that fails does not fail at every single try (`SF` of `ResumeChain`,
`InsertOk`, of an ack that arrives and of a fetch that returns a given message).
The last is JetStream's promise: a pull consumer hands out what is pending in
stream order, so no message is passed over for ever. Crashes, ticks and days
are not assumed to happen.

## Gateway telemetry

`Telemetry.tla` is one gateway process: the request tasks that emit, the bounded
channel, the drop counter behind its lock, and the batcher's task. Request
tasks run in parallel with the batcher; `record` reads the clock before it
takes the lock, so a refused event is held in `refused` between the two.

| Variable | Code |
|---|---|
| `queue`, `closed` | the `mpsc` channel, and whether its last sender is dropped |
| `refused` | events whose `try_send` failed, with the time `record` read, waiting for the lock |
| `windows` | `DropCounter::windows`: count, first and last of each chain, at most `MaxTracked` chains and `unknown/unknown` |
| `pc`, `batch`, `stamp`, `taken`, `final` | where `Batcher::run`, `flush` and `recover` are, and their locals |
| `stream`, `reported` | what is on JetStream: the events, and for each key the sum of the counts of its drop events |
| `emitted`, `charged` | history: what was emitted, and under which key it was recorded as lost |

| Action | Code |
|---|---|
| `Emit`, `Record` | `TelemetryFork::emit`: `try_send`, then `record` |
| `Receive`, `Drained`, `Flush` | `Batcher::run`: `recv` with its timeout, the drain by `try_recv`, the flush when idle or closed |
| `PublishOk`, `PublishFails`, `ReadClock`, `RecordFailed` | `flush`: a failed batch is recorded event by event |
| `Take`, `ReportOk`, `ReportFails` | `recover`: `take`, publish, `restore` |
| `Close`, `Exit` | the last sender dropped; main returning |

| Run | Question | Bounds |
|---|---|---|
| `telemetry` | no event is lost silently, and no hole is understated, also when a failed publish has stored a part of its batch; under fairness, a node that goes quiet reports its holes | 3 events on 2 chains, a channel of 1, batches of 2, room for 1 tracked chain, 2 instants of the clock, 3 failing publishes, exit and closing at any step |

A channel of one with batches of two has each event refused, batched alone and
batched in pairs; room for one chain with two chains reaches the overflow
window; three failures are a failed batch, a failed report and a failed report
over windows recorded meanwhile. `OnlyTheLostAreCounted` and `DropsAddUp`, which
are proved without publishes that fail in part, can be checked on
`Telemetry.cfg` with `Faults = {}`.

Fairness: the tasks run, the idle timeout fires (`WF` of `Flush`), a refused
event gets the lock, and a bus that fails does not fail at every try (`SF` of
`PublishOk` and `ReportOk`). No event has to be emitted.

`main` returns when `serve` does, and the batcher, which nobody joins, is dropped
with what it holds: `TelemetryShutdownLoses.cfg`, among the counterexamples.

## Configuration

`SnapshotPublisher.tla` is the control plane: a replica builds from two queries
(`ReadSystems`, `ReadKeys`), compares with what was published (`Unchanged`,
`Changed`), allocates a generation in a transaction of its own (`Allocate`) and
sends (`Send`, `SendFails`). The stream keeps its last message only. The read
API builds in the same way and serves what it built if that is what was
published last (`Answer`). Edits of the registry come between any two of these.
A content is a pair of what the two queries return; `Valid` is what
`ConfigSnapshot::build` accepts, and the contents outside it are what a build
between two edits may find: a key bound to a system that was not read.

`ConfigFeed.tla` adds gateways: `poll_once` (`Ask` to `ConfirmStore`), the watch
(`Fetch`, `Deliver`, `Resubscribe`), and for each task `apply` (`Apply`,
`ReloadLoad`, `ReloadStore`, `RecordEvent`). The snapshot and its `loaded_at` are
one `ArcSwap`, and each load and store of it is a step, for the two tasks share
one resolver. Time is counted in ticks from the events it is measured from:
`elapsed` since `loaded_at`, and the history variables `lapsed` since a
generation was superseded and `contact` since the control plane answered.
Ticks come when no poll is under way, unless the instance has the fault `slow`.

| Run | Question | Bounds |
|---|---|---|
| `feed` | each gateway holds the content its generation was allocated for; no generation without a change; the poll takes up generations in their order, and so does the watch, each by itself (`TasksInOrder`); as long as nothing came by the bus, a fresh gateway serves nothing superseded for longer than the budget (`BudgetBoundsPolled`) | one replica, one gateway with both tasks, 3 valid contents of 4, 2 edits, 2 messages under way, a budget of 1 tick; sends, polls and subscriptions that fail, a control plane that crashes |
| `feed_converges` | with both paths, a registry that is quiet at last and subscriptions that hold at last, the gateway ends up on its content | 2 valid contents of 4, 2 edits; failing sends, polls and subscriptions |

Two edits are a change and the change back, the least that gives one content
two generations, and the least that makes a torn read between two contents.

Fairness: the publish loop and the poll loop go on, a gateway's two tasks are
scheduled, and a request that the control plane answers again and again is
handled and its answer arrives again and again (`SF`), that is, polls do not
all fail. The watch need not deliver anything: convergence is the poll's merit. It must not
break again and again either (`SubscriptionsHold`): after a send that failed the
stream holds an old generation, and each renewed subscription installs it once
more.

`FeedOrder.tla` adds to it which generation each task took up last. The stream
that keeps one message and the read API that answers with the newest generation
are the defence that `ancre-control/src/bus.rs` names, and `TasksInOrder` is what it
achieves. Two edits give the third generation that one task may hold while the
other goes on. The gateway is not defended by it: `main` always starts both tasks, they
install through `reload`, which compares nothing, and the one that holds the
older generation may store last (`FeedGoesBack.cfg`, among the counterexamples). One control
plane and no fault suffice.

## The request path

`Requests.tla` is the handler of one gateway (`proxy.rs`) and the body that
observes its answer (`tap.rs`), for any number of requests, while snapshots are
installed and go stale.

| Variable | Code |
|---|---|
| `loaded`, `reload` | the resolver's snapshot with its staleness; what the last reload reported |
| `pc`, `input`, `pins`, `tenant`, `sent` | where `handle` is, and its locals |
| `answer`, `tapped` | the provider's answer; `TappedBody`: whether it has its tap, bytes passed, the scanner's carry, the pins of the stream |
| `events` | what `TelemetryFork::emit` was given |
| `admitted` | history: what was loaded when the request was resolved |

| Action | Code |
|---|---|
| `Admit`, `BodyLost`, `ResolvePins`, `FindTenant`, `Translate`, `SendFails`, `Answered` | `handle`: the bearer token, the body, `resolve`, the second load for the tenant, `translate_request`, the send |
| `Frame`, `EndOfBody`, `BodyFails`, `Drop` | `poll_frame` with a frame (flagged as the last or not), with none, with an error, and `Drop` |
| `Reload`, `Expire`, `ConfirmFresh` | an envelope that arrives, as it was sealed or changed, verified and built; the clock |

`Config.tla` has the pure parts: the checks of `ConfigSnapshot::build`, the
envelope, `resolve` in the order of its checks, and the classes of `diff`.
`Stream.tla` has the SSE scanner byte by byte, because where a chunk ends is
what it is about; everything else of a document is the model and the counts it
names. A request is the set of facts a matcher may ask for and the set of fields
that make a difference to its translation.

The run `requests` has one request out of 5 inputs (both providers, a pinned
version, no bearer token, a field that is not translated and one that is
refused), 7 configurations of which 2 do not build, at most 2 installed, and 6
bodies: either separator, a frame over the limit, usage before the model, a body
without frames, an empty one. A frame of the run may be any number of bytes, so
every way to cut a body occurs. Two reloads are the least that put one between
resolution and tenant and another between the two and the event. Requests do
not share state but the resolver's, so one request meets all that a second one
could do to it.

| Property | What would break it |
|---|---|
| `OneEventPerAnswer` | two endings that both emit, or none: a flagged last frame followed by the drop |
| `EventPinsTheAdmission` | pins read again after a reload |
| `EventNamesWhatWasPublished` | an envelope changed on the bus and installed |
| `EventTellsWhatRan` | a separator cut in two, a model of a later frame, counts overwritten by zeros; not of streams whose first document has counts and no model |
| `OutcomeIsDelivery` | a body of known length whose last frame is not seen as the last |
| `ModelSwapIsFlagged` | a reload that compares routes and overlooks one |

The code refutes `ModelVersionNeverEmpty` (among the counterexamples): a chunk with usage
and without a model is taken for one that names the model "", and `absorb` keeps
what came first, so the event has an empty model version and no flag, though a
later chunk names the model. `EventTellsWhatRan` leaves the version of such a stream
open, and holds its counts to be the last ones.

## Checkpoints and keys

`Checkpointer.tla` has replicas of the control plane on one pair of databases.
Each boots (`LoadKey`, or `GenerateKey` and `WriteKey`), installs its key
statement by statement (`InstallSelect`, `InstallUpdate`, `InstallWaited`,
`InstallInsert`, with the row lock of the update and the unique indexes), and
walks the chains query by query (`TickStart`, `ReadHead`, `ReadLast`,
`ReadLeaves`, `Put`, `TickEnd`). Queries fail, processes crash, the operator
takes the key file away, chains grow, and a chain may have a row twice or a place
without one, as `Ingester` shows.

| Variable | Code |
|---|---|
| `rows` | `audit_events`: place, hash, and the hash it links to |
| `checkpoints`, `signingKeys` | the tables of Postgres |
| `file` | the key file |
| `replica` | where each process is, with its key and the locals of `tick` |
| `now`, `faults` | the clock, a bound |

The run `checkpoints` has two replicas, two keys, a chain of 2, two ticks of the
clock, and one fault out of a row stored twice, a
place left empty, a failing query, a crash and a
rotated key file. The last tick of the clock lasts: what was sealed by then was
sealed long ago, so the elapsed trigger fires, which `SealedUpToBroken` depends
on: a chain that no row is added to any more is sealed to its end, though it
never reaches the threshold. Fairness: a process that can go on goes on, and
time passes; nothing makes rows come.

Two replicas may seal overlapping ranges, and the second is dropped only if it
ends at the same place; what holds is that none is skipped and that each is
true of its range. With two crashes (`MaxFaults = 2`) two replicas race for the
first key file: the one whose key was retired loads it at every boot,
`install_active_key` refuses it, and `SealedUpToBroken` fails.

## Exports and the verifier

`Evidence.tla` extends `Checkpointer` by an auditor: the export reads the head
once and then pages (`ExportHead`, `ExportPage`, `ExportCut`), the checkpoints and
the keys are fetched (in this order by `quickstart.sh`, in any order by the
dashboard), the files are damaged (`Damage`), and `ancre-verify` judges them:
`Violations` is `verify_range`, `Attest` and `Attested_runs` are `pack.rs`,
`Run_pack` and `Run_chain` the verdicts of `main.rs`, with the notes of its report.

The run `evidence` exports a chain of up to 3 rows, page by page of one row, by
script and by dashboard, while two replicas with two keys seal it; one fault
(a row twice, a place empty, an export cut off) and two damages after each other (a
row lost, doubled, swapped, edited with and without its hash, the chain written
anew from a row on with all hashes and links, rows of a later rule set, a
signature, an unreadable file). Two faults in one behaviour, and rows that are
stored twice, are explored with one replica (the constraint `Bounded`).
Replicas begin booted or about to boot after a
rotation, which is what `Checkpoints.cfg` shows they can be in. Three rows are
the least with a middle one; pages of one row put a step of the chain between
any two. The run's view drops what no property of a finished pack depends on,
and the symmetry exchanges replicas and keys.

`CleanMeansUnchanged` says exactly how far a clean verdict goes: up to the last
place that a verified checkpoint of the pack covers. The checkpoint vouches for the
places of its range, and through the links for all that come before them. What
comes after is consistent with itself and no more: who owns the store can
write rows and links anew together, and "the signature is what closes that"
(`ancre-chain/src/checkpoint.rs:6-10`, `ancre-verify/src/pack.rs:15-25`). That the
tail is not vouched for is `CleanMeansTheChain`, which `Evidence.cfg` refutes when it
is listed as an invariant. Rows missing at the end are not noticed unless the
manifest tells the range.

## The read API, rows and encodings

`ReadApi.tla` has the operator's session (`Session_create`, `Session_delete`,
`Session_expires`, with the cookie as a browser keeps it), restarts of the
control plane with a token of the environment or one generated anew, the
summary of a chain as five queries (`Chain_summary`, `Counted` four times),
listings and ranges of events, while rows are written, also by an ingester of a
later build. `EventRows.tla` has the event, its hash, and the flattening into a
row and back; `Canon.tla` the canonical encoding with its strict decoder, over
values whose writing is part of them; `MerkleTree.tla` the tree, the proofs and
what may be done to a checkpoint or a proof on its way. A text is the sequence of
its characters, of which the model names the blank and the semicolon.

`MCReadApi` runs three machines, of which one moves in a behaviour: the read API
with 3 rows on a chain, one restart, one row out of place or of a later
build, and no token, one with an equals sign, or one with a semicolon; the Merkle
tree with ranges of up to 4 leaves that begin at 1 or 2 and two alterations; and the decoder on every writing of some 7,000 small documents. Three
leaves have a lone leaf at the right of a subtree of two, four a full tree.


## What is proved

Each theorem is for all values of the constants. The assumptions are the modules'
`Parameters`, `FeedParameters`, `CheckpointerParameters`, `EvidenceParameters`,
`ReqAssumption`, `ReadApiParameters`, `WhatIsWritten` and `TreeParameters`, which
the runs evaluate, and where stated that certain kinds of faults do not occur.

`IngesterProofs.tla`, for any chains, messages, batch size, dedupe window, number
of attempts and of faults:

* `TypeCorrect`: `Spec => []TypeOK`.
* `ChainStaysIntact`, `WritersStandAtStoreHead`: without cancellation, lost
  replies and failed heartbeats, which are the faults the findings are about.
  `ChainIntact` is not inductive: nothing in it speaks of the events that are
  chained and not yet stored. `ChainInv` adds that stored and chained rows
  together always link, that each writer stands behind the last of them, and
  that each rollback entry stands behind the last one stored. `SealedAtEnd` is
  the step that appends, `DeferStep` the rewind.
* `NothingLost`: without cancellation only; lost replies and failed
  heartbeats lose nothing. The invariant is `LossInv`: an event a writer
  remembers is stored, or it is chained in this batch at or behind the position
  its rollback entry returns to, so that a rewind forgets it.
* `IngesterImplementsAuditLog`: with the two invariants every step is a step of
  `AuditLog` or changes nothing of it.

The same module, as general, of the properties in `IngesterProperties`,
where the invariants are defined too. A process lives on if `Faults` is without
`"crash"`.

* `MarkedDaysShow`, without lost replies only: failed heartbeats, cancellation and
  crashes are what it is about. `MarkInv`: a heartbeat that a writer has marked or
  remembers has a position before the one the writer would return to, and no
  row but the heartbeat's own is there, stored or chained (`Placed`). Rewinds return
  behind it, new rows come after it (`MarkKeepStep`), and the heartbeat arm takes a
  position of its own for each day it marks, unless it remembers one
  (`MarkHeartbeatStep`).
* `PositionsAreUsedOnce`, without lost replies (`IngesterReplyLostForks.cfg`).
  `SeqInv`: stored and chained rows together ascend in seq and lie below the
  writer's next one, and the stored ones below that of its rollback entry.
* `EveryLossLeavesAGap`, in a process that lives on, without lost replies; pulls
  that are dropped are what it is about. `GapInv` counts: the messages of a chain
  that are neither stored nor about to be, and will be acked without being stored
  (`Doomed`), and its rows together are fewer than the writer's next seq, so that
  rows that ascend leave one seq free for each. A batch that is dropped dooms its
  messages, each of which has taken a seq; a rewind gives seqs back only together
  with the events it forgets.
* `DoublesAreFarApart` and `RedeliveredIsStoredOnce`, under the same assumption.
  `OnceInv`: a writer remembers the rows of the last `DedupeWindow - MaxMessages`
  positions behind the one it would return to. The batch has to be subtracted: a
  rewind forgets what it takes back, and does not remember again what was trimmed
  meanwhile. In the code that is 100 000
  (`crates/ancre-ingester/src/chain_writer.rs:22`) less 512
  (`crates/ancre-ingester/src/bus.rs:69`).

`TelemetryProofs.tla`, for any finite set of events, any chains, capacity, batch
size, limit of tracked chains and number of failures:

* `TelemetryTypeCorrect`.
* `NoEventLostSilently`, with every fault. The strengthening `Draining` says
  that the batch is empty where `recover` and the end of `run` are, and that
  nothing is left in a channel that was closed before the last flush.
* `LossIsCountedOnce`, without publishes that fail in part: `OnePlace` has each
  event in one place of channel, batch, `refused` and `charged`, and
  `StreamApart` keeps the stream apart from all of them.
* `NoHoleIsUnderstated`, with every fault, and `EveryHoleIsExact`, without
  partial failures: counts are compared key by key with the cardinality of
  the events charged to it (`Known`), and `TakenInReport` says that windows are
  out of the map only while they are being reported.

`ConfigFeedProofs.tla`, for any contents, edits, number of replicas and gateways,
budget and faults:

* `PublisherTypeCorrect`, `FeedTypeCorrect`.
* `BusCarriesWhatWasAllocated`: what is on the bus is the content of its
  generation. The invariant also says it of what a task is about to send.
* `GatewayServesWhatWasPublished`: so does the snapshot a gateway resolves pins
  from. `PinsIdentifyContent` is not inductive, since a snapshot passes through
  the answer of a request, the message buffer and the locals of `apply` and
  `confirm_fresh`; the invariant has each of them hold the content its
  generation was allocated for, and generations are only ever appended to.
* `NoGenerationWithoutChange`, with one control plane: it compares outside of the
  transaction that allocates, and two of them double one (`PublisherDoubles.cfg`).
  `ChangeInv`: a task about to allocate holds something else than the content of
  the last generation.
* `TasksTakeUpInOrder`, with one control plane, both tasks, and every fault: `OrderInv`
  says of each place a generation passes through on its way to a task (the stream, the
  message buffer, the answer of a request) that it is no older than what the task
  took up last, and no newer than what was allocated. With two control planes
  it fails, as `docs/deferred.md:214` says.

`CheckpointerProofs.tla`, for any chains, rows, keys, thresholds, number of replicas
and of faults:

* `CheckpointerTypeCorrect`.
* `NoRangeIsSkipped`: inductive with what `ReplicaOK` says of a replica that has
  read the last checkpoint: its range begins at the first row or right after a
  checkpoint that is there, and checkpoints never go away.
* `EverySealHasItsKey`: a replica past its boot has a key that is in the table
  with a window that had begun.
* `KeyWindowsAbut`: `OneActive` names the one open window; an installation that finds
  another one open than it closes is a conflict. That there is a last checkpoint to
  choose at all is the lemma `Greatest`, by well-founded induction on a set.
* `RootsCoverTheirRanges`: a root is over one row for each place of its range, as
  long as no chain has both a place with two rows and one with none
  (`BrokenTwice`). `tick` compares the number of leaves with the length of the
  range: a doubled row is one too many, a missing one is one too few, and both
  together make up for each other (`CheckpointHidesBreak.cfg`). The lemmas
  `Counts` and `CountsOnto` are that argument, `LeavesCover` applies it to the
  rows that were fetched. The invariant, `RootInv`, says it of the leaves a replica
  has accepted and not yet sealed, and that the range it asks for ends at the
  chain's head at most. Rows only ever come (`RowsGrow`), so a break stays.

`RequestsProofs.tla`, for any requests, configurations, bodies and documents:

* `RequestsTypeCorrect`.
* `OneEvent`: `TapOf` relates, for each request, its place, its answer, its tap
  and its events: the tap is there until the event is, and `Drop` takes it.
* `PinnedOnce`: from the resolution on the pins are those of `admitted`, and an
  event changes only what the provider decides (`EventKeepsPins`).
* `EventsNamePublished`, along a second invariant, `PublishedInv`: what is loaded is
  the placeholder of a cold start or `Snapshot` of a configuration that differs from
  one of `Specs` in its generation at most, since what was changed on its way does
  not verify (`InstalledIsPublished`); so what a request resolves to names it, by a
  system that is bound and a route that the system has (`ResolvedIsPublished`; the
  first matching route is the least of a set of naturals, by `WFMin`). The
  assumption it needs is that a configuration has its fields and that the routes
  of its systems, like the bytes of a body, are sequences.
* `OutcomeTellsDelivery`: what an event says of the delivery is what became of the
  body. `DeliveryInv` relates the tap's outcome and digest to what was handed on.
* `SwapsAreFlagged`: a request that two configurations resolve to different models
  is among what the reload reports, unless as many routes match otherwise than
  before, which no report is about (`ModelSwapIsReported`). `ReportInv` says
  that the report is of two published configurations, or of the first one; the
  rest is about `Diff` and `Resolve`, over routes of any number.

`EvidenceProofs.tla`, for any chains, replicas, keys, faults, page size and number
of damages; it builds on `RootInv`:

* `CleanPackIsTheChain`: what a clean verdict means. `EvInv` says of every event
  in the pack, damaged or not, where it may be from (`FromRow`): its hash and its link name its
  place and the one before, and unless its contents were made up it is where a row
  is and links to what that row links to (`RelinkedIs` is what
  writing a chain anew does). A clean walk
  makes the places consecutive (`CleanWalk`), since a link names the place before
  its own. A verified checkpoint is over rows (`VerifiedIsOld`), so the event at
  its last place is one, and then every event before it is one too: the last made-up one
  below it would be linked to by a row, and no row links to what is made up (`LinksVouch`). `Counted` says
  how many events there are, for the note that the dashboard's manifest tells of
  another range; that part is about packs with no row doubled and none written
  anew, for a row that was doubled and of which one copy was lost leaves the
  pack as it was.
* `SoundPackIsClean`, `AnEditIsOneFinding`: a chain that is not broken answers each
  page with the one event of each place (`RangeOf`, by counting), so the events are
  those of the range, but for one that was edited (`AllBut`), and `WalkFinds` says
  what the walk finds of them. `SealsVerify` is the same of checkpoints. That a
  `Whole` chain is not broken takes a count of its rows (`WholeIsSound`).
* `VerifiedIsSealed`: a verified checkpoint is one that a replica put, over what the
  pack holds (`VerifiedMeansSealed`).
* `RunsExact`: the runs are exactly the verified ranges. The loop of `attested_runs`
  is a recursive function over the sorted ranges; `RunsUpto` says, for each prefix
  of them, that its runs are apart, ascend, and hold the places of the prefix
  (`Joined` and `MergedPlaces` are one turn of the loop). The induction is on the least
  prefix of which it would be false.
* `AttestedIsSealed`: so every place of a run was sealed, as the pack shows it.

`ReadApiProofs.tla`, for any chains, events, tokens, bounds, and for any encoding
of a value (`encoded` is a parameter, which the runs give the one of `Canon`):

* `SessionsLast`. `SessionInv` says what the cookie is: what a browser keeps of the
  token under which the session was granted, and that is the token of now unless it
  was generated by an earlier life of the process (`TokenIs`, `GeneratedIs`). The
  rest is about `Trim` and `UpTo`: a trimmed text trims to itself, and is cut at its
  first semicolon if it has one.
* `ExportsKeepHashes`. `RowsInv`: every row was made of an event, so that what is read of
  it hashes as what was sealed (`RoundTrip`), or has a type of event that this build
  refuses (`NewerIsUnread`). The flags are what makes it hard: they are stored sorted
  by their names and read back in that order, so sorting them again must give
  what sorting the raised ones gave. `Arranged` shows that a sequence has an
  arrangement in order, `SortedOnce` that it has one only, `SortTwice` puts them together.
* `SummariesAreOfTheChain`. `SummaryInv` follows a summary query by query (`Told`): the
  rows it began with are a prefix of the chain's (`ToldStays`), each count has as many
  as the chain had rows by then (`TotalIs`: what a `GROUP BY` returns sums up to what
  it was asked of), and a flag is counted once per row (`FlagsCounted`).

`MerkleTreeProofs.tla`, for any hashes, ranges and paths of any length, and any number of
alterations:

* `InclusionsBind`, `PlacesAreProved`. The tree, the proof and the sides are functions
  on the parts of a range (`Parts`), each defined by those of a smaller part, so that
  they exist (`RootsExist`, `StepsExist`, by induction on the length of the part) and
  satisfy their equations (`RootsAre`, `PathIs`, `SidesAre`, `CombinedIs`). The split is
  a power of two below the length and at least half of it (`SplitIs`). `Binds` is
  said of each part that has the place: what is combined up to it is the part's
  root if and only if it began with the leaf of the place and took the siblings
  of `build_proof`; and the path is no longer than the part is high. `BindsOn` goes up by
  one sibling, `WayBinds` from the leaf to the root. `PlaceBinds` is the result, in both
  directions: one gives `PlacesAreProved`, the other `InclusionsBind`.
* `TreeInv` is the inductive invariant: what has our signature is a range over the leaves
  (`OursIsSealed`), whatever was done to its body, and a proof has a place and a path,
  whichever (`Changed`).

Model-checked only: liveness (`EveryMessageSettles`, `EveryEventAccountedFor`,
`Converges`, `SealedUpToBroken`; fairness is out of the prover's reach);
`BudgetBoundsPolled`, which holds up to the first message of the watch and without slow
requests only, not of every gateway; `EventTellsWhatRan`, whose SSE framing is a fold over all the bytes of a body, and
its specification a search through them; `OneWriting`, for the encoder and the
decoder of `Canon` are recursive operators, which the prover does not accept; and
`RootIsOfItsPeaks`, which compares the tree with one that is recursive in another way
(`Perfect`, `Peaks` in `MCReadApi`).

## Further counterexamples

These are not among the runs of `PROJECT.json`. Each checks one property that a
comment or a document states, and TLC shows the behaviour in which the code does
otherwise. Paths leave out `crates/`.

With a configuration of their own (`tlc -config <configuration> <module>`):

| Configuration, module | Property | What the behaviour shows | What it contradicts |
|---|---|---|---|
| `IngesterReplyLostForks.cfg`, `MCIngester` | `SeqNotReused` | an insert that commits but reports an error is rewound, and its seqs are stored again | `ancre-ingester/src/clickhouse.rs:354` |
| `IngesterCrashDoubles.cfg`, `MCIngester` | `StoredOnce` | a crash between insert and ack stores the event twice; the unique index the comment relies on is not in the table's DDL | `ancre-ingester/src/chain_writer.rs:20` |
| `TelemetryShutdownLoses.cfg`, `MCTelemetry` | `CleanShutdownDrains` | the process exits on its signal with events in the channel or the batch, uncounted | `ancre-gateway/src/telemetry.rs:368` |
| `TelemetryOverstates.cfg`, `MCTelemetry` | `HolesNotOverstated` | a report that failed after it was stored is sent again under a new event id | `ancre-gateway/src/bus.rs:13` |
| `PublisherDoubles.cfg`, `MCSnapshotPublisher` | `EveryGenerationIsAChange` | two replicas allocate a generation each for the same bytes | `ancre-control/src/main.rs:31` |
| `FeedGoesBack.cfg`, `MCConfigFeed` | `NeverBack` | with one control plane and no fault, a poll's answer is installed after the newer message the watch was delivered, and stays | `ancre-control/src/bus.rs:63`; `docs/deferred.md:214` names two control planes |
| `FeedEventMixes.cfg`, `MCConfigFeed` | `EventsDescribeTheChange` | an event pins two configurations whose difference it does not report | `ancre-gateway/src/config_feed.rs:249` |
| `FeedStaleReachable.cfg`, `MCConfigFeed` | `StaleMeansUnreachable` | a registry that does not build makes a gateway stale that is answered at every poll | `ancre-resolver/src/staleness.rs:13` |
| `CheckpointHidesBreak.cfg`, `MCCheckpointer` | `RootCoversRange` | a place without a row and another with two make up for each other in the count | `ancre-control/src/clickhouse.rs:153-158` |
| `CheckpointBlocked.cfg`, `MCCheckpointer` | `EverySoundChainSealed` | a broken chain ends the tick, at each tick, and the chains behind it are not sealed | `ancre-control/src/checkpointer.rs:194` against 235 |

With a configuration of a run and one change (the property listed as an `INVARIANT`
or a `PROPERTY`):

| Base | Change | Property | What the behaviour shows | What it contradicts |
|---|---|---|---|---|
| `IngesterCrashDoubles.cfg` | `Messages = {m1, m2}`, `ChainOf <- MCChainOfOne` | `OneHeartbeatPerDay` | a restart within the day writes the heartbeat again | `ancre-ingester/src/chain_writer.rs:149` |
| `TelemetryOverstates.cfg` | `Faults = {}`, `Chains = {a, b, c}`, `Events` of four, `ChainOf <- MCThreeChains`, `MaxEvents = 1` | `TrackedChainsBounded` | windows restored over windows recorded meanwhile exceed the limit | `ancre-gateway/src/telemetry.rs:114` |
| `TelemetryOverstates.cfg` | `Faults = {}`, `MaxTime = 1` | `SpanRunsForward` | two drops get the lock in the other order than they read the clock | `ancre-gateway/src/telemetry.rs:197` |
| `PublisherDoubles.cfg` | `Faults = {"send"}` | `UnchangedIsOnTheWire` | after a failed send, publishes answer unchanged and send nothing | `ancre-control/src/snapshot.rs:30` |
| `Checkpoints.cfg` | – | `SealedInsideWindow` | a replica goes on sealing with the key another one has retired | `ancre-control/src/checkpointer.rs:132-136` |
| `Feed.cfg` | `Faults = {"unreachable", "resubscribe"}` | `BudgetBoundsSuperseded` | what comes by the bus restarts the clock although it was superseded longer ago than the budget | `docs/deferred.md:176` |
| `Feed.cfg` | `Faults` with `"slow"` | `BudgetBoundsPolled` | an answer that was under way for longer than the budget restarts the clock | `ancre-resolver/src/staleness.rs:51` |
| `FeedGoesBack.cfg` | – | `ConfirmSwapsNothing` | a confirmation undoes a reload that came between its load and its store | `ancre-resolver/src/lib.rs:174` |
| `FeedConverges.cfg` | `FairBusSpec`, `Paths = {"bus"}` | `Converges` | without the poll, a generation whose send failed never arrives | `ancre-gateway/src/main.rs:85` |
| `Evidence.cfg` | `Faults = {}`, `Damages = {}` | `DashboardPackVerifies` | the keys are fetched before a rotation and the checkpoints after it, and a sound pack is a violation | `ancre-control/ui/src/lib/api.ts:204` |
| `Evidence.cfg` | – | `NewRulesAreUncheckable` | rows of a later rule set hash otherwise in this build, and a checkpoint over them counts as a violation of its signature | `ancre-verify/src/pack.rs:212-213` |
| `Evidence.cfg` | – | `BadSignatureIsAViolation` | a pack with a row of a later rule set is inconclusive whatever its signatures are | `ancre-verify/src/main.rs:46` |
| `Evidence.cfg` | – | `ShortExportIsNotClean` | an export that was cut off verifies: the script's manifest tells no range | `ancre-control/src/api.rs:266-269` |
| `Requests.cfg` | – | `ModelVersionNeverEmpty` | a chunk with counts and no model makes the model version of the event empty, without a flag, though a later chunk names the model | `ancre-provider/src/lib.rs:40`, 108, 135; the code is `ancre-provider/src/openai.rs:74` |
| `Requests.cfg` | – | `SentIsRecorded` | a request whose send fails leaves no event | `ancre-gateway/src/proxy.rs` |
| `Requests.cfg` | – | `WholeIsNotInterrupted` | an empty body of known length is dropped unpolled and recorded as interrupted | `ancre-gateway/src/tap.rs:250-252` |
| `Requests.cfg` | – | `TenantOfTheAdmission` | a reload between resolution and the second load gives the event another tenant | `ancre-gateway/src/proxy.rs:138` |
| `Requests.cfg` | – | `TranslatedFaithfully` | a field that the adapter does not know is dropped | `ancre-provider/src/anthropic.rs:97` |
| `Requests.cfg` | – | `ModelSwapIsReported` | matchers that are swapped send requests to another model, and no change is reported | `ancre-resolver/src/diff.rs` |
| `ReadApi.cfg` | – | `ListingShowsHoles` | a row twice and a place empty make the count equal the head | `ancre-control/src/overview.rs:28-30` |
| `ReadApi.cfg` | – | `GapsAgree` | the SQL looks for an unresolved alias in the version of the model only, `has_gap` in nine fields; a caller may pin a prompt so | `ancre-control/src/clickhouse.rs:278-281` |
| `ReadApi.cfg` | – | `GrantedLetsIn` | a token with a semicolon is cut off in the cookie: the login succeeds, and the cookie lets no one in | `ancre-control/src/auth.rs:169` |

## Not modelled

The components marked `not_modelled` in `PROJECT.json`, with the reason there: the
ingester's start-up, and benchmarks, deployment and tests. Of the others:

* ingester: an insert still in flight when its process dies, two ingesters on one
  consumer (the deployment has one), a dedupe window smaller than what can be
  redelivered (docs/deferred.md D10 names it; it doubles the event by
  construction);
* telemetry: the gap between two events that restarts the batcher's idle timeout;
* config feed: the fan-out of a configuration event over chains, the time limit of
  cold start, a control plane that accepts a request and never answers
  (`Converges` assumes that a poll ends, and fails at once without);
* control plane: prompts and the prompt cache (plain reads, or without a caller),
  `KeyRing::rotate` (without a caller), serving the UI's files; `systems()`, which
  is two queries and is modelled as one half of a content;
* request path: the accept loop of `serve.rs`, headers on their way through,
  trailers, a frame of exactly the limit whose separator is cut; `pin.overridden`
  is never emitted by the code;
* providers: JSON and the shape of messages;
* canonical encoding: tags, maps with keys other than texts, hex digits, SHA-256;
* offline verifier: arguments and wording; an explicit `--from` of the genesis hash
  is indistinguishable from none.

What would be worth adding: `RootCoversRange` without doubled rows as a
theorem, the composition of `Telemetry` and `Ingester` (an emitted event ends up
stored or counted), and two ingesters on one consumer.
