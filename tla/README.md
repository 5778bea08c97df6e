# Yellowstone gRPC: TLA+ models, checks and proofs

Yellowstone gRPC is a Geyser plugin: a Solana validator calls it with account
writes, transactions, entries, block metas, slot statuses and gossip contact
infos, and it streams what matches a client's filters over gRPC. A Rust client
library reconnects, resumes from an earlier slot and removes duplicates; a
Node.js package wraps it in a duplex stream.

This directory holds TLA+ modules for these parts, TLC configurations that check
them on small instances, and TLAPS proofs, for every instance, of all but three of
the safety properties the runs check and of the gossip refinement (section 5).

To run: `tlc -config MCX_y.cfg MCX` for a run, `tlapm XProofs.tla` for the
proofs. `PROJECT.json` lists components, runs, mutants, the map from definitions to
source lines, hazards and theorems.

## 1. The system: inventory

| Component | State it keeps | Operations | Talks to |
|---|---|---|---|
| plugin life (`plugin/entry.rs`) | runtime, senders, bounded startup channel behind a mutex | `on_load`, `update_account` at startup, `notify_end_of_startup`, `on_unload` | validator threads, the first snapshot client, all tasks |
| plugin callbacks (`plugin/entry.rs`) | senders | `update_slot_status`, `notify_*` | geyser loop, reconstruction loop, subscriber channels, gossip writer |
| geyser loop (`grpc.rs`) | `PartitionedBuffer` | batch, broadcast at Processed, forward | subscriber channels, reconstruction loop |
| reconstruction loop + `BlockMachineStorage` (`block_reconstruction.rs`) | slots in progress, frozen blocks, commitment progression, ready queue, `min_slot`, count of finalized slots | `add`, `pop_ready_block`, `replay_from_slot`, gc | external `yellowstone-block-machine`; subscriber channels; replay requests |
| subscribe and deshred sessions (`grpc.rs`, `util/stream.rs`) | permit table, one stream channel and up to four tasks per session, cancellation tokens | subscribe, ping, filter receiver, `client_loop`, snapshot, last error, shutdown | peers; replay requests |
| filters (`plugin/filter/*`) | compiled filters per session, one of five account strategies, caches of encoded accounts | accept a request, match a message, encode an update | sessions |
| message types (`plugin/message.rs`, `plugin/convert_to.rs`, `yellowstone-grpc-proto/src/lib.rs`) | none | build messages, convert to protobuf and back | callbacks, filters, clients |
| gossip feed (`contact_info.rs`) | node table, version, ring, per-subscriber loop | apply and broadcast, snapshot, lag, re-snapshot, ping | peers |
| unary methods and `BlockMetaStorage` (`grpc.rs`) | latest slots, blockhashes and their statuses, semaphore | update, getters | peers |
| authentication (`auth/*`) | cache with coalesced look-ups, permits for look-ups in flight, token file | identify, admit or refuse | every request |
| method rate limiter (`ratelimit/*`) | sliding windows per subscriber and method | hit, garbage collection | every request |
| connection limit (`ratelimit/transport.rs`) | connections per address | accept, refuse, drop | listeners |
| listeners, TLS, file watcher (`transport/*`, `file_watcher.rs`) | certificate resolvers, handshakes in flight, registration table, shared shutdown token | accept, handshake, reload, drop a handle | file system, peers |
| metering and billing (`metered.rs`, `billing.rs`) | counters per body, gauge of active bodies, batch of events | frame, end, abandon, flush | billing service |
| client auto-reconnect (`reconnect.rs`, client `lib.rs`) | checkpoint, request, backoff budget, connection future | poll, classify an error, resume, send a request | server |
| client deduplication (`dedup.rs`) | in-flight and sealed slots, quarantine, retention order | observe, seal, quarantine, reconcile, prune | wraps auto-reconnect |
| cuckoo filter set (`cuckoo/*.rs`) | buckets, mirror set, dirty flag | insert with eviction, remove, put into a request | client requests, account filters |
| Node.js client (`napi/src/*`, `src/*.ts`) | shared native stream, pending promises, push buffer | read, write, end, destroy | the Rust client |
| configuration, metrics, e2e tests | none of interest | | |

How they interact. One task owns the storage and one writer owns the gossip
table, so inside these components nothing races; the difficult behaviour lies
between tasks:

* a slot's content reaches a Processed subscriber through the geyser loop and its
  block and status through the reconstruction loop, on one ring;
* a resumed subscriber joins a snapshot of the storage (the replay) with a ring
  that went on filling meanwhile;
* a session consists of up to four tasks and a shared channel whose `send` waits
  for room without looking at any token, and must end, returning its permit, from
  any of about a dozen exits;
* validator threads block in a callback on the bounded snapshot channel until a
  client has read it, while that client may leave and the plugin may be unloaded;
* a gossip subscriber joins a ring, then takes a snapshot, and may be overrun;
* requests with one token share one look-up, whose owner may fail or be dropped;
* certificates change while handshakes run and while watcher handles are dropped;
* the client cuts slots in the middle, replays them whole, possibly from another
  node, and has to hide the seam, while the user goes on changing the request;
* promises of the Node.js stream are settled on another thread, in any order;
* the storage's bookkeeping (a counter, a cached minimum, five maps and a queue)
  is updated piecewise under forks, dead slots, bank resets and gc;
* one update has three encodings: prost's, the pre-encoded one and the direct one,
  and one account filter five strategies, chosen by the shape of the request.

`PROJECT.json` "hazards" lists the lines where each of these bites.

## 2. Modules and how they correspond to the code

### Server: from the validator to the ring

**BlocksStateMachine** models the external crate `yellowstone-block-machine` from
the way `block_reconstruction.rs` feeds it and drains it: tracked slots, frozen
summaries, the level wanted for and emitted for each slot, pending notices
(fork, dead, bank reset). It is marked external in the map. A slot's ancestors are
the least set that holds its parent and is closed under parents, which is what the
proofs need of them; there is no recursion.

**BlockStorage** is `BlockMachineStorage`. Its variables carry the names of the
fields. `Add*` are the arms of `add`; `On*` are the arms of
`on_blockmachine_output`; `GcPrune`/`GcDone` are turns of the gc loop. A call of
`add` is sequential in the code; here each output is a step and `Idle` keeps other
calls out until the drain is over, which makes intermediate states visible to the
invariants. `bank`, `notified`, `metaNotified` describe the validator;
`popped` is history. Account writes keep their write version, because
deduplication depends on it; the rest of the payload is gone. `retain` on a queue
(`Retain`) is the sequence of the kept positions in order, by their rank.

**Delivery** composes the callbacks, the geyser loop, the reconstruction loop and
one subscriber's `client_loop`. The storage is reduced to what BlockStorage
establishes on one branch: a slot freezes when its data and block meta are in, its
levels are queued in order (`ReadyInOrder`), gc drops the oldest slots but a
minimum, and what is frozen is complete (`FrozenBlockComplete`). The broadcast ring
is the part the subscriber has not read yet, with the lag mark of
`tokio::broadcast`. A filter may come in
at the start or later, at the level in force or at another one, with a replay or without;
`got` is what the client has received since the latest. `ReconstructTake` takes any non-empty prefix of the channel, as
`next_batch` may; `outbox` holds the sends that remain for a ready block, so that
other tasks interleave with them.

**TopologyView / Gossip.** TopologyView says what a gossip subscriber is promised:
its view is the table of one revision, taken after the startup replay, and never
goes back. Gossip is `contact_info.rs`: the writer's critical section, the
subscriber's subscribe-then-lock, skipping of events the snapshot contains, lag,
re-snapshot with a budget, the ping task, cancellation; before a session is given up it
sends an error, and waits for room for it (`SendError`). `ImplementsTopologyView`
is the refinement, with the client's revision and table as the mapping.

**UnaryMethods** is `BlockMetaStorage`: the task that takes statuses and block metas
from its queue, the table of blockhashes with the flags set per level, the latest
slot per level, pruning to `KEEP_SLOTS`, the semaphore before the read, and the
unary methods. The validator around it produces forks and resets banks, and a
history of what it said is what `AnswersAreTrue` compares an answer with.

### Server: sessions

**Sessions** is the life of subscribe, deshred and gossip sessions:
`SubscriptionTracker` and its owned permit, and for each session `loop`
(`client_loop` with its snapshot and replay phases, or `deshred_client_loop`),
`ping`, `incoming` (the filter receiver) and `last` (the task spawned to send a
final error). Sends to the stream that wait are states of their own
(`snapshot_send`, `replay`, `sending`, `pong`, `error`), since the code awaits them
outside `select!`. Requests are queued and `client_loop` skips to the latest.

**Plugin** extends Sessions with the plugin's life: loading, `update_account` at
startup as a thread that takes the mutex and blocks on the bounded channel,
`notify_end_of_startup` which drops the sender, the one session that takes the
receiver, and `on_unload`, which cancels the token and lets the runtime drop the
tasks that are still there.

### Server: what a session says

**AccountFilters** gives the compiled account filter and its five strategies
(linear scan, bit sets behind an index, and the merges over no constrained axis, one, or
both), each as the code walks it. **Filters** gives
acceptance of a request against the limits and the matching of every kind of
message, data slices
included. Lists of keys come as sequences, because the limits count duplicates. The end of
a slice is the sum of two 64-bit numbers, which wraps (`U64`); a range that ends before it
starts is accepted, and panics when an account is encoded. **PluginMessages** builds messages from the
validator's types. **ConvertTo** and **ConvertFrom** are the two directions between
messages and protobuf, with an error for each malformed field; **Options** holds
the few operators on optional values they share. **WireEncoding** is the
hand-written encoding: the fields written and the lengths announced, beside the
reference of
the protobuf message; the two share the lists of fields, so that lengths, slices and shared
bodies are compared and a wrong tag is not. **Updates** composes
them: subscribers send a first request and later ones, at any moment and also while updates
of the old filter are being encoded; the ping task sends pings; the validator notifies; each
message is filtered, takes the slices of the filter of that moment with it, is encoded, read
and converted back.

### Server: who may say anything

**AuthGuard** is the guarded service: the kinds of authenticator (cached remote,
direct remote, file, trusted header, none), the permit a request holds while it is
looked up, the cache with coalesced look-ups. **MethodRateLimit** is the sliding
window per subscriber and method with its garbage collection. **Admission** puts
the interceptors, the guard and the limiter in the order a request meets them. The limiter
runs under the guard's mutex: when its assertion fails the mutex is poisoned (`InnerPanics`).

**ConnLimit** is the table of connections per peer address, and `Drop`.
**Listeners** composes it with the TCP and TLS listeners: file contents, watchers
with their registration table, resolvers rebuilt by callbacks, handshakes running
beside the accept loop, the shared shutdown token.

**Metering** follows response bodies: frames counted, hooks on end and drop, the
gauge of active bodies, and the billing sink with its batch, its flush and its end.
Sums of bytes are counted as cells (`SumOver` is a cardinality), so that they can be
proved about without recursion.

### Clients

**Resume** composes a server as Delivery shows it (blocks published whole, a
window, replay before what was broadcast meanwhile, error codes) with
`AutoReconnect`, the request sink and `DedupStream`. `Receive` is one `poll_next` of
the pair: checkpoint, drop of messages only the injected filter matched,
`prepare_for_replay` on a changed reconnect count, `observe`, hand-over.
`SteadyServer` and `WithinReach` name the conditions under which its promises are
made (section 5). A payload is a number, the same on every node, because the code's dedup keys
(signature, pubkey and write version, index) are; `node` stands for the blockhash.

**CuckooSet** is the cuckoo filter with its mirror set: sizing, two candidate
buckets, partial-key displacement with a bounded eviction loop, removal of one
copy, dirty flag, wire format, and its way to the server: `take_dirty` clears the flag when
the user asks whether to rebuild, `insert_into_request` writes one map of the request the
user keeps and clears the flag too, `SendRequest`, `ServerReads` and `StreamBreaks` (external)
are steps of their own. `owed` is what the user has been told to do and has not done yet. The hash functions
are chosen in `CuckooInit`, so a run covers every assignment of fingerprints and buckets
to the items. The XOR of a bucket index and a mask is the constant operator `BitXor`, of
which `XorAssumption` states what the algorithm needs: the result is an index again, and
XOR with the same mask twice gives the index back. The instance takes the bitwise operation,
on which TLC evaluates the assumption.

**NodeStream** is the Node.js client: the native stream shared by its readers with
one waker each, the request channel, validation of a request on the JavaScript
side, promises settled in any order, and Node's readable buffer (external).

### Proofs and instances

The modules named **\*Proofs** hold the theorems, each extending the modules it is about:
**BlockStorageProofs**, **SessionsProofs** (Sessions, Plugin, and Metering, whose bodies are
those of such sessions), **DeliveryProofs**, **GossipProofs**, **UnaryMethodsProofs**,
**AdmissionProofs** (what stands before a session: AuthGuard, MethodRateLimit, Admission,
Listeners and ConnLimit), **ClientProofs** (NodeStream and CuckooSet) and **ResumeProofs**.
**MC\*** are the instances.
## 3. Runs

| Run | Checks | Instance, and why it is enough |
|---|---|---|
| `block_fork` | `FrozenBlockComplete`, `FinalizedCountExact`, `MinSlotExact`, `ReadyInOrder`, `NothingOutlivesItsBank` | slots 1-2 and 3 on a fork of 1; one entry per slot, an account written twice in the last slot, which may have two banks: fork, death and reset of frozen and unfrozen slots, with capacity 0 so that gc works at every finalization |
| `gossip_feed` | `ImplementsTopologyView`, `DeadClientReleased`, `EventuallySynchronised` | one subscriber (they share only what the writer writes), five events, ring and channel of one, one re-snapshot: lag at every point, more lags than re-snapshots allowed |
| `delivery_stream` | `ContentThenBlockThenStatus`, `ReplayNoGap`, `NothingMissed` | two slots, a subscriber that changes at any moment between Processed and Confirmed and between going on and resuming at slot 1, ring of three, one message in flight to each loop (so that batches have one message; larger ones are covered by the proofs): replay before, during and after each phase of a slot, refused replays, overruns |
| `session_life` | `PermitsExact`, `LagIsReported`, `SnapshotWhole`, `NoZombieSession`, `ShutdownDrains`, `ValidatorReleased` | one session of either kind and one gossip session of one subscriber with limit 1, channels of one, two requests, a snapshot longer than its channel: each waits for the other's permit on every exit, and a pong and a filter or two answers are in flight |
| `updates` | `WireIsProto`, `MatchersAgree`, `ClientReadsBack` | two subscribers, every kind of message with every optional field present and absent, requests with up to three account filters and a direct-scan limit of one, so that each strategy is chosen; one later request for each subscriber; `U64` of 8, so that a slice may wrap |
| `unary` | `WindowsExact`, `AnswersAreTrue` | three slots with a fork and a reset bank, one caller, queue of one, windows of one: every table is pruned |
| `admission` | `AuthPermitsExact`, `JudgedByItself`, `RateHolds`, `EveryRequestAnswered` | three requests, every kind of authenticator, two look-ups at a time, a window of two ticks: look-ups are shared, fail, are retried and expire; windows fill, slide and are collected |
| `listeners` | `LimitHolds`, `WatchersCurrent`, `NameGetsItsCert`, `HandshakesApart` | two plain and two TLS connections, limit 2, two writes to certificate files: every write falls before, during and after a reload and a handshake |
| `metering` | `EveryByteAccounted`, `EventuallySettled` | two bodies, up to three bytes, a report every two, flushes of two events: reports before the end, on the end, on a drop; failing flushes; the end of the sink |
| `resume_recover` | `NoDuplicates`, `NothingLost`, `LatestRequestInForce`, `EventuallyDelivered` | one stored and two new slots of two payloads, published out of order, two broken streams at any message, one request sent at any moment, a server window of two so that resumption can be refused, one recoverable and one final status code |
| `cuckoo_mirror` | `NoFalseNegatives`, `CleanIsSent` | three items, capacity of three, buckets of two: collisions of all kinds, evictions, full tables; a request with two maps, one request under way, four changes and entries: changes between taking the flag, writing an entry, sending and reading. The items are symmetric, because every assignment of hashes to them is an initial state |
| `node_stream` | `ConsumerSeesTheStream`, `NobodyStranded` | two JavaScript reads and one native caller, high-water mark 2, three updates, two writes: reads overlap with pushes, with an error and with `destroy` |

Bounds that exist only for TLC: `MaxBanks`, `MaxWriteVersion`, `MaxEvents`,
`MaxQueue`, `NotifiedLevels`, `MaxRequests`, `MaxReconnects`, `MaxSends`, `MaxClock`,
`MaxWrites`, `MaxAge`, `MaxWire`, `Changes`, `MaxBytes`, `MaxUpdates`, `MaxGossip`; they cap what the environment
does. Channel and ring capacities, `MaxRetries`, `MaxKicks`, `MaxBatch`, `KeepSlots`,
`MaxRecent`, `Threshold`, `FlushEvents`, `DirectScanLimit` and the like are the code's
constants, made small so that their limits are reached. Deadlock checking is off where the environment's bound makes
behaviours end, and on for the cuckoo run, which never stops.

`resume_recover` sets the constants the observations below turn on: one node,
`SlowReplay = FALSE` (no bank is both created and published while a replay request
waits), a checkpoint and a window that reach as far back as slots are out of order. These are
the hypotheses `SteadyServer` and `WithinReach` of section 5; the instance evaluates them
(`HypothesesHold`).

Every property of a passing run has a mutant: a small change to a mapped
definition, kept beside it in the module, under which TLC refutes the property.

## 4. Fairness

* Gossip: the writer's critical section, the subscriber's loop, the ping and the
  reading client; strong fairness on sends that wait for room. tokio runs tasks that
  are ready, the ping is an interval, and the promise is made to clients that read.
  Notifications may stop at any time.
* Sessions and Plugin: weak fairness on every task's steps and on the validator's
  blocked thread; strong fairness in two places: on the ping task seeing a cancelled
  token (`select!` picks a random ready branch) and on the snapshot's send (a tokio
  channel hands out room in the order it was asked for). `ClientReads` is not fair.
  `ShutdownDrains` and `ValidatorReleased` assume a client that reads or leaves in the
  property itself, because a send that waits for room is not interrupted: a client
  that neither reads nor leaves holds its tasks.
* Resume: `WF(Cluster)` and `WF(Progress)`: the cluster produces slots; the server
  answers, a connection attempt that can succeed does in the end, and the user polls.
  Errors are not fair; after `MaxReconnects` the network stays up.
* Admission: weak fairness on what the runtime polls, strong fairness on taking a permit
  (a semaphore serves its waiters in turn). That no look-up hangs for ever and that the
  inner service becomes ready are hypotheses of `EveryRequestAnswered`, because the HTTP
  client of the look-up sets no timeout.
* Listeners: weak fairness on the server's end once its token is cancelled, and on the
  yielding of a handshake that is done. That a peer completes a handshake is not assumed.
* Metering: weak fairness on the sink's task, its flush included (the billing request
  has a timeout). Bodies may stay open for ever; `EventuallySettled` is about what has
  been handed to the sink.
* NodeStream: weak fairness on the tasks, their wakes and their sends, and on the server
  reading the requests of an open call. The server may be silent for ever, and the
  consumer need not read.
* BlockStorage, Delivery, Updates, UnaryMethods, CuckooSet: none; their properties are
  safety properties.

## 5. Proofs

Every theorem holds for every value of the constants that satisfies the named
assumptions of its module: any slots, sessions, requests, channel sizes, windows and
numbers of steps. The bounds of section 3 play no part in them. The inductive
invariants hold in TLC too, on the instances of the runs or slightly smaller ones, except
that of the gossip feed, whose revisions range over all numbers; the refinement itself
is what its run checks. In each proof one step per action says which conjuncts the
action can disturb.

**BlockStorageProofs**

* `StorageInvariant`: the types, `ProgressionConsistent`, `FinalizedCountExact` and
  `MinSlotExact` together are inductive. `ProgressionConsistent` is the
  strengthening. The counter is raised when `Finalized` is new in a slot's *list* of
  commitments and lowered when its *maximum* is `Finalized`; these are two fields, and
  without knowing that they agree a prune could lower the counter for a slot that never
  raised it. `MinSlotExact` needs that gc prunes the least key, so that what it leaves
  stale is repaired when the loop ends. `FinalizedCountCorrect` and `MinSlotCorrect` are
  the consequences: gc never works from a drifted count, and replay requests are checked
  against the real oldest slot.
* `BankInvariant`: `BankInv` describes the life of a bank, slot by slot. `MachineOf`: a
  slot is summarized only with all its data, stays tracked until it is decided, and a
  reset is due only where nothing of the new bank is known yet. `BufferOf`: the buffer is
  what was notified, each message once and of each account the highest write version.
  `KeptOf`: a kept block is whole, of the current bank, its progression is the last
  level emitted, and a tracked slot loses its block only when it is finalized. `QueueOf`:
  the queue holds exactly the levels from the last popped to the last emitted, in order.
  `TreeInv`: finalization goes down to ancestors and no tracked slot is in conflict with
  a finalized one. `LateInv` is the surprising one: a slot can freeze after a later one
  was finalized, but only one at a time, it catches up before anything else is put out,
  and none is there while gc runs. Without it gc could drop a block whose statuses are
  still to come. That `try_seal` compares counts needs a counting lemma (`AllOfKind`: as
  many different messages as there are indices are all of them).
  Consequences: `FrozenBlockAlwaysComplete`, `ReadyAlwaysInOrder`,
  `NothingEverOutlivesItsBank`.

**DeliveryProofs**

* `BlockAlwaysFollowsItsContent`: `DeliveryInv` follows a slot's data on two ways, through
  geyser loop's broadcast and through the reconstruction. `RxInOrder` and `OutboxInOrder`
  say that what is under way keeps its order; `BroadcastFirst` says that whatever reached
  the reconstruction has been broadcast at Processed already, which the property needs and
  no single task knows.
* `ReplayNeverGaps` and `NothingIsMissed`, with no hypothesis. `WantedInv` and `PrunedInv`
  describe the storage between and during calls: which levels a slot is still to emit, and
  that every slot gc has dropped is finalized, left enough newer ones behind, and is older
  than what is kept, but for a late slot on its way to Finalized. `ResumedInv` and `ReplayInv` say where whatever a resumed subscriber
  is owed is: in its hands, in the replay, in the ring, in the outbox, or still queued in
  the storage (`AllSent`), and that each of these holds content, block and status in that
  order (`HeldInOrder`, `RingInOrder`, `ToSendInOrder`). The delicate case is a slot that
  freezes late, below slots gc has pruned: it lowers `min_slot`
  (`block_reconstruction.rs:431`), and a request in the hole above it would be accepted. On
  one branch such a slot already has a finalized descendant, so it is finalized in the same
  call, before any request is served, and gc, which that call runs, drops it again
  (`GcDropsOld`). On a branch that was abandoned it need not be; Delivery has none.

**SessionsProofs**

* `PermitsCorrect`, and `PermitsExactInPlugin` with the plugin's life around the
  sessions. Every action starts a session, ends one, moves a running loop on, or leaves
  loops and counters alone; four lemmas show that each kind preserves the count, and one
  step per action says which kind it is. `on_unload` is the fifth, which ends all.
* `LagAlwaysReported`: the property itself follows the error from the task that sends it
  to the stream and the client; with `LastAfterLoop` (a session that has not started has
  no such task) it is inductive, since all other steps only append to the stream or
  leave it alone (`Calm`).
* `SnapshotAlwaysWhole`: while the receiver lives, what the client has taken followed by
  what the channel holds is what the validator has sent (`NothingSpilled`).
* `EveryByteAlwaysAccounted` (Metering): `BytesOf` splits what is billed for a request over
  the channel, the buffer, the flush under way, the endpoint and the lost batches; a step of
  the sink moves events between these five and keeps their sum (`SinkKeepsAccounts`), a step
  of a body adds one event. `HooksCount` relates the gauge, the metric and the live bodies
  of a subscriber, with a lemma each for a body that enters, reports and leaves. That the
  sums are cardinalities lets finite-set theorems do what would be induction over
  sequences (`SumOfBoth`, `QuantityOfBoth`).

**GossipProofs**: `FeedImplementsTopologyView`, the refinement. The table is always the one
of the last revision published; behind the client's view lies a chain of snapshots and
updates, each of which applies to the one before, up to what its loop sent last; and
the loop skips exactly the events its snapshot holds. Initial states map to initial states,
and every action maps to a step of TopologyView or to a stutter.

**UnaryMethodsProofs**: `AnswersAlwaysTrue` from `TruthInv` (the queue and the tables hold
nothing that was not notified), and `WindowsAlwaysExact` from `WindowInv`: rooted slots are
queued in order, tables are bounded by what has been taken from the queue so far, and what is
due is in the table or still behind it in the queue.

**AdmissionProofs**

* `AuthPermitsAlwaysExact`: a counting argument like that for sessions.
* `AlwaysJudgedByItself`: `JudgeInv` says of each request which entry, look-up and answer
  it holds, and that all of them were made for its credentials, although the look-up may
  have been another request's.
* `RateAlwaysHolds`: `Balanced` says that what was taken and what is left is at most
  a full bucket and what the time in between refills, and that a key whose bucket was
  collected has been idle long enough to be full.

* `LimitAlwaysHolds` (the count of an address *bounds* its open connections; it is not
  their number, see section 6), `WatchersAlwaysCurrent` (`WatchInv`: what a callback under
  way has read, and for which files another one is still due) and `NameAlwaysGetsItsCert` (a
  resolver that was built has one certificate per name).

**ClientProofs**

* `ConsumerAlwaysSeesTheStream` (NodeStream): an invariant follows an update from the
  source through the one read in flight to the consumer (`ReadsInv`, `OrderInv`), says that every update is in one of these places (`CoverInv`), and follows a failed send to whoever
  takes its error (`EndInv`, `FailedInv`).
* `NeverFalseNegatives` (CuckooSet): `SeatInv` seats every item of the set, and the one an
  insert has in hand (`KickInv`), on a place of one of its two buckets that holds its
  fingerprint, no two on the same place and no occupied place left over. Two items may share
  fingerprint and buckets, so that an eviction or a removal may take the copy the other one
  put there; the two then change seats, and no fingerprints need to be counted.
* `AlwaysCleanIsSent`: an invariant follows the entry written last from the request to the
  wire and to the server (`InForce`): while the flag is down and the user owes no rebuild it
  is the encoding of the table as it is, and what the wire carries is read back as the same
  table, under the same seed and sizes.

**ResumeProofs**

* `AlwaysLatestRequest`: `RequestsInv` and `LatestInv` say that the last request pending on a
  connection, or the one in force when none is, is the latest the user has sent, unless the
  sink took it between two connections (`missed`).
* `NeverTwice`, under `SteadyServer`: `StreamInv`. What is on the way is known to the server and
  comes in the order it was published (`ServerInv`, `QueuesInv`), and the dedup state of each slot
  agrees with what the user has received of it (`DedupInv`): nothing of a slot not
  seen, its payloads in flight, all of it once sealed, the quarantined part held back. The
  lemmas of one message's way through `DedupStream` (`observe`, `seal`, `reconcile`, prune) are
  by the state of its slot.
* `NothingIsLost`, under `SteadyServer` and `WithinReach`: `WholeInv` (a BlockMeta the user holds
  or is about to get has its payloads with it), `PublishInv` (slots are published out of order
  by at most `MaxDisorder`, and the server has pruned only what is older) and `OwedInv`
  (every slot below the checkpoint was received, and everything else the user is owed
  is on the wire or will be in the replay). That slots in order have no hole is shown
  through a least counterexample, not by an induction theorem.

`SteadyServer` (one node, `~SlowReplay`, no more slots than the dedup retention) and
`WithinReach` (out-of-order publication stays within `CheckpointSlotBuffer` and within the
server's window, also among the slots stored at the start) are not assumptions of the module
but hypotheses of these theorems. They exclude what really lets an update through twice or
loses one: another node's block, a bank published before the replay it was created behind,
a sealed slot that was pruned, a checkpoint too close to the head. Section 6 says what happens
without them.

Assumptions: `SlotsAssumption`, `ParentAssumption`, `StorageAssumption`,
`DeliveryAssumption`, `SessionsAssumption`, `PluginAssumption`, `GossipAssumption`,
`UnaryAssumption`, `AuthGuardAssumption`, `MethodRateLimitAssumption`,
`AdmissionAssumption`, `ConnLimitAssumption`, `ListenersAssumption`, `MeteringAssumption`,
`NodeAssumption`, `CuckooAssumption`, `XorAssumption`, `ResumeAssumption`. They say that sizes and limits are numbers (positive where the code's types or
assertions demand it), that sets which are counted are finite, and that parents are smaller
than their children. TLC evaluates them on the runs.

Only model-checked:

* Liveness (`DeadClientReleased`, `EventuallySynchronised`, `NoZombieSession`,
  `ShutdownDrains`, `ValidatorReleased`, `EveryRequestAnswered`, `HandshakesApart`,
  `EventuallySettled`, `EventuallyDelivered`, `NobodyStranded`): fairness and ENABLED are
  outside the prover.
* `WireIsProto`, `MatchersAgree` and `ClientReadsBack` of Updates: the encodings are recursive
  operators over messages, and what they compute for every message needs induction over data,
  which is outside the prover too.

## 6. Where code and comments disagree, and what else was met while modelling

The properties above are stated so that they hold of the code; the exceptions they
name are these. Each is visible in the modules, most of them by giving a constant
another value or by dropping a hypothesis of a property.

Against a comment or a doc:

* A client's comment says that "replaying from a couple slots back guarantees we don't
  miss data" (`reconnect.rs:436`). A Processed subscriber that resumes loses the
  messages of a slot that were broadcast before its receiver existed, if the slot has
  not frozen when the replay is served (`grpc.rs:1454`). `ReplayNoGap` is therefore
  stated for levels above Processed.
* The block meta that only the injected filter matched is dropped (`reconnect.rs:447`)
  before `DedupStream` sees it, so a slot cut by a reconnection is never released from
  quarantine unless the user asked for block metas. `NothingLost` and
  `EventuallyDelivered` exclude it (`unsealed`).
* `Drop` of a limited connection computes the lowered count and does not store it
  (`transport.rs:168`), against the comment at `:46`; the count falls only from 1
  to 0. `LimitHolds` is the direction that remains true.
* `grpc.rs:1227` says that "no subscriber sees a commitment status before the block
  content for that slot"; statuses of every level go to all three channels, so a
  Confirmed subscriber has the Processed status of a slot before its content.
  `ContentThenBlockThenStatus` is stated for the subscriber's own level.
* With `SlowReplay = TRUE`, `NoDuplicates` fails: a `CreatedBank` that waited behind
  the replay clears the sealed slot (`dedup.rs:286`) and the live copy of the block is
  handed on again.
* With `Nodes = {1, 2}`, the first half of `NothingLost` fails: `reconcile`
  (`dedup.rs:82`) adds the second node's payloads to what the first node sent of a
  half-delivered slot.
* With metas only, sealed slots are not pushed on `slot_order` (`dedup.rs:319`) and are
  never pruned, against "Keeps tracked slots bounded to the retention window"
  (`dedup.rs:358`): the deduplication state of such a client grows with the chain.
* When the eviction loop gives up, an item of the set is no longer in the filter
  (cuckoo `filter.rs:260`), against "On error, the map's state is unchanged"
  (`set.rs:120`); `NoFalseNegatives` is stated until an insert has failed.
* The single-axis strategy walks one axis only. A filter with a list *and* a cuckoo
  filter on the other axis is then decided by its cuckoo filter alone (`filter.rs:905-953`,
  comment at 895-897), where a linear scan would consult both. `MatchersAgree` names
  the exception (`ListBesideCuckooOnUnwalkedAxis`).
* With a reconnect policy, `close()` of a Node.js stream does not close the request
  channel, because the connector holds the same sender (`napi/src/lib.rs:301` says
  otherwise). `NobodyStranded` claims the release only without a policy.

Behaviour a maintainer may want to know of, by module:

* Sessions, Plugin. `client_loop` skips to the latest request, so a `from_slot` in a
  skipped one is lost with it (`grpc.rs:1556`). A replay that finds nothing drops its
  answer channel, which the client sees as a retryable internal error. If no client
  asks for the snapshot, or the one that does sends no filter and stays, the
  validator's thread waits in `update_account` on the full channel. The snapshot client
  joins the broadcast only when the channel has disconnected; its first `from_slot` is
  ignored. `on_unload` closes the task tracker and does not wait for it; tasks that
  remain are dropped with the runtime. Metrics of a deshred session ignore the
  subscription info. The load gauge may wrap for a moment (`util/stream.rs:77`).
* Filters, conversions. The
  sum of a data slice's offset and length is not checked: it wraps in a release build
  (`filter.rs:2322`), and a range that then ends before it starts makes the encoding panic.
  `include_entries` of a block filter is checked against
  `limits.include_accounts`. A transaction filter with only a signature and a block
  filter with only a cuckoo filter count as "any". Absent token balances, rewards or
  UI amounts come back as empty or 0. A block without time or height cannot be read
  back by a client.
* UnaryMethods. A status that arrives before its block meta never flags the blockhash;
  one after a bank reset flags the old blockhash. "Startup" can reappear
  below 332 slots. `unary_concurrency_limit = 0` blocks every call.
* Admission. A limit of zero fails an assertion in the limiter (`ratelimit.rs:161`) with the
  guard's mutex held (`auth/service.rs:239`), which poisons it: every later request of the
  listener that comes to `lock()` panics. `EveryRequestAnswered` counts such a request as
  dropped. Peers without an address
  (Unix sockets) hold no permit.
* Listeners. TLS peers are not limited per address. The legacy `address` setting
  computes a TLS configuration and does not use it. A key is not checked against its
  certificate. Handshakes have no timeout. A failing listener cancels the shared
  shutdown token, so the others stop too. The file watcher and its callbacks hold each
  other alive.
* Metering. A batch whose flush fails is lost; the sink is spawned outside the task
  tracker; the source is not polled while a flush is under way.
* Resume. A request sent during the backoff goes to the old connection and is missing
  on the new one until the next reconnection (`reconnect.rs:384`; `missed` in
  `LatestRequestInForce`). After a request of the user with block metas, a later one
  without gets no injected filter. `connect_uds` reconnects to the TCP endpoint.
* CuckooSet. Putting a set into one map of a request clears its dirty flag, though it
  may be stale in the others; `CleanIsSent` is about the map written last. The flag is down
  from the moment the entry is written or `take_dirty` has answered, not from the moment
  something was sent: that a stream which breaks is opened again with the request the user
  keeps, and that the user rebuilds when told to, are the user's part (`owed`).
* Gossip. The branch for a closed broadcast cannot be reached.
* NodeStream. The terminal error is taken by the first reader; a second concurrent one
  sees a clean end. What
  sits in Node's buffer at the end is discarded by `destroy()`, which follows `push(null)`;
  `ConsumerSeesTheStream` therefore speaks of the updates that were pushed. The request
  channel of a deshred stream is unbounded. Two native writes at once would share a waker; the JavaScript side
  serialises them.

## 7. Not modelled

* Configuration, metrics, version: parsing of settings and counters for Prometheus, no
  protocol. The settings themselves are CONSTANTS.
* End-to-end tests and examples: not part of the system's logic.
* The wrappers of unary calls and of the encoders in the Node.js package, the
  builder of the Rust client: they hold no state of their own.
* The poll machinery of the batched channel reads (`next_batch` is the choice of a
  non-empty prefix), sockets, HTTP/2 and the byte level of the streams.
* Payloads: keys, versions, lengths and what may be absent are kept, contents are not.
* Time: intervals and backoff delays are steps that may happen at any moment; a tight
  retry loop is not told from a slow one. The method rate limiter alone has a clock.

## 8. Plan

Modelled and checked: everything in section 2. Proved: section 5. What remains:

1. Abandoned branches in Delivery, to see for how long a late slot of such a branch leaves a
   hole that a request can fall into (`block_reconstruction.rs:431`), and then a weaker form
   of `NothingMissed` that covers it.
2. `NeverTwice` for more slots than the retention: what is needed is that a replay never reaches
   back to a slot the dedup state has pruned.
3. Shorter proofs of the storage: the lemmas about `Retain` and about one slot's maps
   are stated for the module and could be shared by more of the action steps.
