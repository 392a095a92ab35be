# ZeBridge in TLA+

ZeBridge keeps PostgreSQL tables replicated on devices.  Outwards, one *bridge*
process per database reads PostgreSQL's logical replication stream, turns rows
into messages and publishes them to NATS JetStream (change data capture, CDC).
Inwards, it takes writes that devices queued while offline, applies them to
PostgreSQL and sends back a verdict.  Around that run a producer of snapshot
generations, a sweeper of tombstones, a registry of tables that cannot be
replicated, and client libraries.

This directory holds TLA+ modules translated from the Zig source under
`src/src/`, TLC configurations that check them on small instances, and TLAPS
proofs of what matters most.  `PROJECT.json` maps every definition to the lines
it models.  The program is Zig and SQL; the repository's Python is nearly all
scenario tests that drive it from outside, and is not modelled.

## 1. Inventory

| Component | State it keeps | Operations | Hard because | Correct when |
|---|---|---|---|---|
| WAL loop (`bridge.zig`, `wal_stream.zig`, `event_processor.zig`) | open transaction's slots, `last_ack_lsn`, `latest_wal_end` | BEGIN, row, COMMIT, keepalive, status updates, reconnect, step aside, stop | runs against the flush thread, the walsender and PostgreSQL's own shutdown; may die anywhere | nothing PostgreSQL was told to forget is missing from the stream |
| Batch publisher (`batch_publisher.zig`, `nats_publisher.zig`) | current batch, `draining`, `last_confirmed_lsn`, `fatal_error` | pop, flush, retry, confirm, stop | partial publishes, lost PubAcks, outages | every lane of the stream is a prefix of what was committed, and every row arrives, except rows of a tenant nobody was mapped to yet |
| Event slot rings (`spsc_queue.zig`) | two lock-free rings of slot numbers | push, pop | single loads and stores of two threads | a slot is in one place; released slots arrive once and in order |
| WAL monitor (`wal_monitor.zig`) | lag gauges, "PostgreSQL is shutting down" flag | poll | the flag races the loop | a fast shutdown is never held up |
| Mutation ingress (`mutation_listener.zig`, `receipts.zig`, `init.write.template.sql`) | receipts, claims, open transaction | claim, apply, reject, batch, replay, acknowledge | redelivery, ambiguous COMMIT, crash before acknowledgement, lost verdicts | a write takes effect at most once and its verdict says what happened |
| Mutation admission, rate limit | token buckets | admit, delay | redelivery of delayed messages | no write is refused for ever |
| Refused tables (`refused_tables.zig`) | refusals, drop counts | refuse, drop, probe, lift, re-seed | rows dropped between suspend and lift | a lifted table is re-seeded when it missed a row |
| Generation producer (`generation_producer.zig`) | `zebridge_generations` | build full, build delta, prune | rows committed behind a cutoff; pruning under a reader | a client that seeds and follows has every row |
| Sweeper (`bridge_sweeper.zig`) | the floor (watermark) | advance, reap | an old write arriving after its tombstone was reaped | a reaped row is never resurrected |
| Live catalogue, schemas (`bridge.zig`, `event_processor.zig`) | rule maps, epochs | reload, publish descriptors | order of descriptors, suspensions and rows | the last descriptor of a table is the current one |
| Client core (`libzb`) | outbox, replica, positions | enqueue, seed, apply, settle | offline, reconnect, re-seed under pending writes | the replica converges to PostgreSQL |
| Readings archiver | manifest | flush | two archivers, crash between upload and manifest | the covered prefix has no hole |

Observability, the HTTP server and enrolment, stream provisioning, preflight,
the byte-level codecs and the language bindings are listed in `PROJECT.json` as
not modelled, with the reason for each.

How they interact: PostgreSQL calls nobody; the WAL loop *pulls* its stream and
answers with status updates, which move the slot.  The WAL loop and the flush
thread share the two rings and a few atomics (`draining`, `last_confirmed_lsn`,
`fatal_error`).  The flush thread is the only one that publishes rows.  The
monitor raises one flag.  Mutations arrive on a JetStream consumer, are written
to PostgreSQL, and come back to every device as rows of the same change feed.

## 2. Plan

Done so far, in this order:

1. `CdcPipeline` with `LanePublish`: the change feed from COMMIT to PubAck to
   acknowledgement, with every thread, crash, outage and shutdown.
2. `SlotPool` refining `HandOver`: the rings under it, load by load.
3. `CdcPipelineProofs`: typing, and "confirmed acknowledgements lose nothing".
4. `MutationReceipts` implementing `WriteLedger`: how a device's write is
   executed once, with redelivery, batches and their replay, ambiguous COMMITs
   and the retention of receipts.
5. `MutationReceiptsProofs`: typing, at most one decision, true answers, and the
   refinement of `WriteLedger`.

6. `RefusedTables`: suspend, drop, probe, lift, re-seed, and the boot that
   inherits suspensions.
7. `RefusedTablesProofs`: typing, "clients are told", "counted drops are
   re-seeded".
8. `ChainPlan` and `Generations`: the producer of generations, the sweeper, the
   stream and a client that seeds and follows (a client that has read everything
   has every row).

9. `CdcStreamProofs` (acknowledgements with keepalives, no hole in a lane),
   `SlotPoolProofs` (typing, the refinement of `HandOver`, conservation of
   slots).
10. `GenerationsProofs` (typing), `GenerationsSeedProofs` (what a manifest names is
    the table of one moment) and `GenerationsReplicaProofs` (a client that has read
    everything has every row).

Next:

11. The client's outbox composed with `MutationReceipts`: pending edits over a
    replica that re-seeds.
12. RELATION and DDL at COMMIT in the change feed: the order of descriptors
    against rows.
13. Mappings that are removed, and streams deleted under a running bridge.

## 3. Modules

### `LanePublish` - one batch as messages

Pure operators on a batch.  `doPublish` works through it in *stages*: each `$KV`
event is one, each run of row events between them is one.  Within a stage
`publishCDCSubBatch` groups the events of a *lane* (table and tenant) with the
same verb into one message (`GroupHead`), and either sends all groups in one
asynchronous window or, when a lane has more than one group, one by one
((`OneByOne`).  `PartialStores(batch, s)` is what the stream may hold of the batch when
`doPublish` returns an error at stage `s`; a window that meets a missing stream falls
back to one message at a time, which stores nothing that a window could not.
`MembersAfter` is `noteMembers`: the tenants whose mapping was among the `$KV` events
published so far.

### `CdcPipeline` - the change feed

| State | In the code |
|---|---|
| `committed`, `slot`, `conn`, `cur`, `pgStop` | PostgreSQL: transactions committed, `confirmed_flush_lsn`, the walsender and its position, a fast shutdown (external) |
| `txbuf` | `tx_slots_buf[0..tx_slots_count]` |
| `lastAck`, `latestEnd` | `last_ack_lsn`, `latest_wal_end` |
| `wpc`, `after` | where the WAL loop stands: at its head, waiting for a slot, releasing slots (and what follows), stopping, exited |
| `pending` | the events of `pending_events` |
| `batch`, `fpc`, `retries`, `final` | `flushLoop`'s batch, its place in the loop, `retry_count`, the last flush |
| `draining`, `confirmed`, `fatal`, `stepAside` | the atomics `draining`, `last_confirmed_lsn`, `fatal_error`, `pg_shutting_down` |
| `members` | the tenants in the publisher's roster (`noteMembers`) |
| `published`, `streams`, `natsUp` | what JetStream has stored; the tenants whose stream exists; whether it answers (external) |
| `dropped` | history: rows whose append to the batch failed |
| `faults`, `pgStops` | bounds only |

The free slots are the rest of the ring: `batch \o pending \o txbuf` are the
occupied ones.  A transaction is its place in commit order, with its rows and
their LSNs given by `Rows` and `CommitLsn`; rows of different transactions
interleave in the WAL, so row LSNs are not monotone over the stream.

Each branch of the WAL loop is an action: `ReceiveBegin`, `ReceiveRow` (with the
hand-over of a full scratchpad), `AcquireSlot`/`AcquireTimeout`, `ReceiveCommit`,
`ReleaseSlot`/`ReleaseDone`, `AckConfirmed` (time and byte thresholds),
`Heartbeat`, `ReceiveKeepalive`, `StepAside`, `Reconnect`, `SlotHeldByAnother`,
`FatalStop`, `SignalStop`, `FinalAck`.  The flush thread pops one slot at a time
(`FlushPop`), leaves the drain loop (`FlushPopEnd`), *then* sets `draining`
(`AnnounceBatch`), decides (`FlushBegin`, `FlushLater`), publishes (`PublishOk`,
`PublishFail`, `PublishRefused`), confirms (`ConfirmBatch`), and at shutdown takes
what is left (`FlushStop`).  An append for which there is no memory drops its event
(`FlushAppendFails`, `FlushStopAppendFails`); the code logs it and goes on.

*Rows that are confirmed without being stored.*  A tenant has a stream of its own,
made when a principal is first mapped to it: by the reload of the catalogue at the
COMMIT of the mapping (`CatalogueReload`, part of `ReleaseDone`; it may fail, and is
then only logged) or by the next boot.  A mapping is a row like any other: it goes
through the ring as an event of `$KV.tenants`, and once published it is noted in
`members`.  A row whose stream is missing (`Streamless`) is *skipped* as long as its
tenant has no member: it counts as delivered and its LSN is confirmed.  With a member
it fails the batch (`Refused`), so that the supervisor's restart makes the stream.
The reload reads PostgreSQL as it is *now*, the publisher learns of mappings in stream
order: which of the two comes first is a race between the threads.

So the feed does not promise every row.  `Excused` names the rows it does not:
those dropped for want of memory, and those of a tenant nobody had been mapped to
before them in the stream, as far as the publisher was told (a mapping whose own append
failed tells it nothing).  A client mapped later seeds from a snapshot and
never needs them.  `Settled` is what is stored or excused, and every property of the
feed is about it: a row with a mapping of its tenant anywhere before it must be
stored.  `Excused` is a set fixed by the log (and `dropped`), not by what the model's
publisher did, so a row skipped that should not have been is a violation.

Abstractions.  A modelled transaction holds rows that are published and mappings that
are added: RELATION, DDL, the other catalogue rows, and rows that are dropped are left
out; so are mappings that are removed, and streams deleted under the bridge.  (Two
faults the reading of that code found are listed as hazards: a principal mapped and
unmapped while the bridge lags gives a batch that fails for ever, `bridge.zig:2644`,
and the removal half of a mapping UPDATE that changes its key leaks a slot,
`bridge.zig:2208`.)  Which streams exist is read once for a batch.  `force_flush`, the wake pipe and the timers
only decide *when* a flush happens, which is a free choice here; that the timer fires
is assumed, so a lost `force_flush` is a delay and no property sees it.  Of the boot
events the suspensions and the roster are one event, stamped with the WAL head
(`BootStamped`) or, when that could not be read, with 0; ordinary descriptors carry
LSN 0 and never move the confirmed position.  `QueueFull` on a release cannot happen (the ring
queue is larger than the number of slots).  A status update that does not arrive
is one sent on a dead connection.  Both drained checks of one keepalive see the
same state.  The thirty seconds that shutdown waits may be over at any time.

### `SlotPool` and `HandOver` - the rings

`SlotPool` has both SPSC queues and every place that pushes or pops: acquire,
release, discard, refuse (a row that did not fit), collect, reclaim.  A push is
four steps (load the write index, check for room, write the cell, store the
index), a pop three.  The steps are sequentially consistent; the source's
acquire/release pairs give that for the cells.  `HandOver` is the abstract queue
that `pending_events` promises to be; the run checks the refinement.  `raced`
records that two pushes to `free_slots` overlapped.

### `MutationReceipts` and `WriteLedger` - a device's write

| State | In the code |
|---|---|
| `queue`, `deliveries` | of each message in the MUTATIONS work queue: unsent, waiting, delivered and not acked, acked, or out of deliveries (external) |
| `phase` | where a lane (a listener thread) stands in `applyBatched` or `processOne` |
| `batch`, `todo`, `cur` | whether it is in the batched path; what it pulled; the deliveries of the open transaction, then those still to be answered |
| `held`, `intx` | advisory locks of its transaction; whether the connection is in one (`PQTRANS_INTRANS`) |
| `timing`, `claim` | what `lookup_receipts` said of each ID: first of its month, then of its receipt |
| `orphans` | transactions whose COMMIT went out on a connection that is gone |
| `receipts`, `partitions`, `floor` | the `receipts` table, its monthly partitions, `min_accepted_ms` |
| `ledger`, `told` | history: decisions committed for each ID, verdicts sent for each message |

A lane goes through `Fetch`, `Admit` (forbidden tables, unusable messages, rate
limit), `Lock` (one advisory lock at a time), `ReadPolicy` and `Lookup` (the two
statements of `lookup_receipts` that see different snapshots), `Execute`,
`Commit`, `Answer` (one verdict and ack at a time).  It leaves that path by
`RoundFails`, `RoundRefused`, `CommitLost`: the transaction is rolled back, a
batch is replayed message by message, a single write is left to its next
delivery or, on the last one, answered `failed` (`RetryOrFail`).
`ConnectionReset` is a `PQreset` inside a round, after which the lane goes on
until `requireTransaction` stops it.  `Crash` ends the process; what was sent to
PostgreSQL may still commit (`OrphanEnds`).  `Maintain`, `Prune` and `Tick` move
the retention of receipts along, at any time.

`WriteLedger` is what a client is promised: a write, named by its message ID, is
decided at most once and for good, and a definitive verdict is the decision.  A
write to a table that may not be written is told `rejected` and never decided
(`Unwritable`).
`KeepsPromise` says that `MutationReceipts` implements it.

Abstractions.  What a write does to its row (version comparison, tombstones, the
GC floor) is a free choice between `accepted` and `rejected`, `accepted` standing
for `stale` and `row_deleted` too: each is a decision with a receipt.  Content is
one value (`BodyOf`) that the fingerprint tells apart.  Times are months, the unit
of partitions.  Deliveries of a pull are a set: any order may occur, and which
message of an ID comes first is chosen in `Lookup`.  A single write reads its
receipt with the same two statements as a batch.  The rate limiter is a free
choice on first deliveries; its branch for the last delivery cannot be reached,
since only first deliveries are limited and the limit is above one.  `DROP TABLE`
waits for transactions that have read `receipts`.  The loss of a verdict is no step:
it is a plain publish that nothing waits for, and the listener acks the write whether
it went out or not (`publishVerdict`, `mutation_listener.zig:953-981`).  So `told` is the verdict
whose sending was attempted, and "answered" says no more than that; what the
properties show is that a client that asks again, under the same ID, is told the same and
the truth.  Left out are the completion guard (a second check of what is shown
here), the pause at startup and the parked pull at shutdown.

### `RefusedTables` - a table that cannot be replicated

| State | In the code |
|---|---|
| `wal`, `shape`, `wideRows` | the events of one table as PostgreSQL sends them; its shape and its too wide rows as the catalogue has them *now* (external) |
| `mirror`, `seeded` | `zebridge_suspensions`; how far the last requested full reaches (`zebridge_reseed`) |
| `active`, `reason`, `counted`, `cooled` | the registry's entry: `active`, `reason`, what `dropped` counts, `lift_cooldown_ms` over |
| `phase`, `pos`, `open`, `txbuf`, `roomy`, `inherited` | the replication thread: running, republishing after a lift, or in one of three steps of a boot; its place, `tx_slots_buf`, `MAX_COLUMNS`, the reason read before the wipe |
| `kv`, `published` | the descriptor clients hold; the rows handed to the publisher |
| `dropped`, `unseeded`, `discarded` | history: dropped events, a failed re-seed that was logged, an announcement lost with a stream |

A row is counted and dropped (`DropRow`), suspends its table (`SuspendOnRow`), or is
packed, which lifts a table that was being probed (`PackRow`, then `Republish`).
`ReceiveDdl` suspends or lifts.  `Release` hands the slots over at COMMIT or when
the scratchpad is full.  `StreamLost` discards them and keeps the registry;
`Crash` is followed by `BootRead` (read the mirror, wipe it), `BootInherit` (measure
the widest row, refuse again or ask for a re-seed) and `BootSchemas`.  Every
statement to PostgreSQL may fail (`bad`).

Abstractions.  One table.  Of the reasons, the three that come and go while the
bridge runs; a table without key or subject is refused until a restart.  A full
that a re-seed asks for holds every row committed at that moment and is loaded
by every replica (what `Generations` is about).  `Ack` moves the slot only over
events the stream has, which `CdcPipeline` shows.  A row that is both too wide and
of a shape with too many columns fails on either.

### `ChainPlan` and `Generations` - snapshots and the stream

`ChainPlan` holds the pure decisions, one operator per function of the source and
named after it: what the producer keeps (`keepFrom`) and where the next delta
starts (`deltaLowerBound`), what a client loads (`planFromManifest`: a full or none,
then the deltas of a set of generations, oldest first), whether a full must be fenced (`fullPredatesReplica`), whether deltas may replace the stream
(`deltaEligible`), where to go on (`streamResume`, `streamSplice`) and which events
are in the rows already (`seedGateDrops`).

| State | In the code |
|---|---|
| `now`, `open`, `log`, `rows` | PostgreSQL: the clock, the starts of open transactions, the commits, the table |
| `gcw` | `zebridge_gc_watermark` |
| `gens` | `zebridge_generations`, each live, retired or removed |
| `last`, `first`, `manifest`, `objects` | JetStream: the stream's ends, the manifest, the object store |
| `ppc`, `build` | where `buildOne` stands, and what it has read |
| `replica`, `wm`, `pos`, `anchor`, `owed` | the client's store: rows, watermark (`_zbz_generations`), position, `anchor_seq`, `_zbz_fence` |
| `cpc`, `pass` | a seed in progress: its manifest, its plan, the fence |

Versions decide everything here, and they are not in commit order: `Begin` fixes
the start of a transaction that `CommitServer` stamps its row with later,
`CommitEdge` takes a device's own time, ahead or behind by the tolerance.
`BuildBegin` reads the stream's last sequence, then the oldest open transaction;
`BuildObjects` is the snapshot; `Finish` retires and removes old generations, puts
the manifest and records the row, and stops after any of the three.  `Advance` and
`Reap` are the sweeper.  `Follow` is the tail.  `SeedBegin` plans and fences;
`SeedCommit`, `SeedAborts`, `SeedStops` and `SeedStopsInFull` are its ends: all loaded
(the process may die before the position moves), nothing, the objects up to some
generation with part of the next delta, or part of a full.

Abstractions.  Three reads of `BuildBegin` that the code makes one after the other (the
stream's sequence, the manifest, the floor, `generation_producer.zig:1470`, `1526`, `1574`) are
one step; the interleavings this loses put commits between the sequence and the floor,
which is what "lagging stream" has too.  A read of the stream or of the manifest that
fails (`1488`, `1530-1551`: the build goes on with cutoff 0, or without the chain) is
left out, and so is the sweep of a manifest that no generation was recorded for
(`1381-1416`): the model overwrites it, the code deletes it and bumps the epoch first.
One edge-writable, soft-deleting table of one tenant on one stream;
no shared route, no stream made anew, no leaf seeds, checkpoints or joint fences.
The first full and the one after a lost chain are as in the code; at other times
(depth, size, deferral) a full is a free choice.  Whether the table is unchanged,
the stream's last sequence and the floor are read in one step, so is the time of
the cut with its snapshot, as PostgreSQL's `now()` is.  The grace of a retired
generation is a free choice, so objects may go under a client that is loading.  An
edge write is one step (it holds the floor's lock).  A client may take deltas in
place of the stream at any time; the code does on opening.  An `Init` in which
every row is already in the stream leaves out the empty stream.

`Disorder` names five things the code does not handle; the passing run has none of
them, the violated one has the last:
 - a *late edit*, older than the tolerance when it is sent, is in no delta;
 - a *lower stamp*: a long transaction overwrites a row with an older version, which
   the guard of a chain's upsert then refuses;
 - an *early reap*, before any generation was cut past the tombstone's message;
 - a *lagging stream*: the snapshot has commits the stream did not have when the cut
   was read, too old for the next delta;
 - *torn deltas*: a client that was not cut off takes deltas in place of the stream and
   stops after one holding a row of which it has followed a later change.
With any of the first four `Converged` fails as well (larger instances than the one
kept here were tried for the first three; one row, one more commit and a `Disorder` of
"lagging stream" are enough for the fourth: `Keys = {1}`, `Tolerance = 0`,
`Retention = 9`, `MaxCommits = 3`, `MaxClock = 3`, `MaxGens = 2`, `MaxTime = 5`).  The
first three are outside what `PROTOCOL.md` promises, or are conditions it puts on the
operator's settings.  A lagging stream is not: a client replays older events onto a
newer row of the base, and if it then takes the next delta in place of the stream, and
that delta does not reach back to the row, the row stays old.  It is ordinary behaviour of the code, as
is a lower stamp (the trigger, `init.write.template.sql:202`, does not compare the versions of
server writes); neither has a run of its own here (the constants above reproduce the lagging
stream), and both are listed, like the others, as hazards that no passing property covers.

The torn deltas came out of the attempt to prove `Converged`: the lemma that a load
which stops leaves rows that the stream will repair is false.  Deltas reach back to the
watermark, not to the position; an older one may hold a row whose deletion the client
has followed since, and a row that is gone has no version to be guarded by.  It needs
two rows, one deleted and one that keeps the stream going, so the passing run alone
could not show it.

## 4. Runs

| Run | Configuration | What it shows |
|---|---|---|
| `cdc_pipeline` | two interleaved transactions, three rows of one tenant's table and the mapping of a principal to that tenant between the first and the others; two slots, batches of two, no retry, two faults, restarts | `AckedIsPublished`: the slot never passes a row a client is owed and the stream does not have; `LaneHasNoHole`: no later row of a lane without the earlier ones that are owed; `Delivered`: every owed row of a committed transaction arrives |
| `cdc_keepalive` | two one-row transactions, one of the public stream and one of a tenant without members; keepalives of both kinds, one fast shutdown, one process life, one fault | `AckedIsHeld`: what was acknowledged is in the stream, excused, or in the live process (a batch popped and not announced counts as held); `ConfirmedIsPublished`: the same of what the flush thread confirms, without the memory; `PgStopCompletes`: the walsender is released whatever NATS does |
| `slot_pool` | two slots, rings of four, two discards | the pending queue is an exactly-once FIFO (`ReleasedInOrder`); slots are conserved while pushes to `free_slots` do not overlap |
| `mutation_lanes` | two lanes, two writes, singly and in batches, two deliveries each, one fault (lost COMMIT answer, lost ack, failed round, `PQreset` or crash) | `ReceiptsCoverLedger`: a decided write is decided once and has its receipt; `AckedIsAnswered`: no write leaves the queue unanswered or wrongly answered; `LanesComeBack`: lanes never wait for each other's locks for ever |
| `receipt_retention` | one lane, a write and its copy, another write under the same ID, a forbidden one; three months, retention of none | the same with maintenance and pruning at any point; `KeepsPromise`: the refinement of `WriteLedger` |
| `refused_tables` | a wide row and a narrow one, three shapes; four events, one loss, one failed statement | `ClientsAreTold`: as long as a table is refused, its suspension is the last thing said; `CountedDropsAreReseeded`: no lift, of any kind, forgets a counted drop |
| `generations` | one row, two more commits and a clock of two for them, three generations of depth two, cut by time five, tolerance and retention of one | `Converged`: seeded and at the end of the stream, a client has exactly the live rows; `SeedsWhole`: the last recorded manifest gives a fresh client the table as of one moment |
| `cdc_reply` | *violated* | the reply to a keepalive acknowledges unpublished rows while `last_ack_lsn` is 0.  With `Keepalives = {"plain"}` the same instance violates the property by another path: the WAL loop asks `isDrained` between the pop of a batch and its announcement, against the comment at `batch_publisher.zig:846-850` |
| `cdc_boot_suspension` | *violated* | what a boot announces, the suspension of a refused table or the roster of every mapped principal, is stamped with the WAL head and acknowledges the backlog |
| `slot_pool_discard` | *violated* | two producers on `free_slots` lose a slot |
| `refused_lift` | *violated* | the row that suspends a table is not counted: lifted by the next one, the table is never re-seeded |
| `generations_torn` | *violated*: two rows, two devices' writes, three generations of which the last two are deltas | deltas taken in place of the stream, stopped after the first, bring back a row whose deletion the client has followed |

The last five are disagreements between the code and what its comments or
`PROTOCOL.md` say;
`PROJECT.json` quotes both under `findings`.

Bounds.  The two transactions of `MCCdcPipeline` overlap in the WAL in the way
that matters: the later one to commit has a row before all rows of the other, so a
batch's largest LSN is not its last event's.  The first transaction writes a row of
tenant `x` and then maps a principal to `x`: the first row is excused, the second
transaction's two rows are not.  Whether the stream of `x` exists when they are published
depends on the reload, the flush and a restart, so they are stored, or fail the batch,
or are replayed; the insert and the update of the lane meet in one batch of two, which
forces one-by-one publishing.  Three events in a ring of two, the next transaction's
included, force a wait for a free slot and, with the hand-over at `RingSize - 1`, one in
mid-transaction.  Two faults give every pair of crash, stop, lost
stream, outage, failed publish and failed append, a restart in between included, and a reload may
fail at no cost; a retry is a restart here (`MaxRetries = 0`), and a retry within the process in
`cdc_keepalive`.  These runs have 788,037 and 954,639 states.  A ring of four
cells wraps after four pushes, and with two slots is never full unless a slot has
been duplicated, as in the source (capacity is the next power of two above the
number of slots).

For the listener, two lanes and two IDs are the smallest instance in which locks
can be waited for in a circle and in which a batch is replayed while its messages
are delivered to another lane; two deliveries are a first and a last one; one
fault at any step gives every ambiguous outcome.  With a retention of no month and
three months of clock, an ID of the second month is ahead of the clock, in time,
and expired, and its partition is created and dropped, all in one behaviour; the
two copies of its write are interchangeable, which is the symmetry used.
Deadlock is not checked in these runs, as the queue may run dry.

For refused tables, four events are enough for suspend, drop, lift and suspend
again, or for a drop counted under one reason and lifted under another, with a
transaction of two events around any of them; a single loss puts a boot or a
discarded slot at any point, a single fault fails any one statement.

For generations, one row shows what a chain of generations gives a client and how a
position can run past or fall behind it.  What needs two rows is a load that stops
between two steps: `MCGenerations` looks at that with deltas only (`DeltasOnly`, a
constraint), and finds the violation above; with `Disorder = {}` in the same
configuration there is none (4 million states).  Three generations of depth two make
the first one retire, be removed, and its delta unreachable; five ticks of the
clock let a transaction stay open across two cuts and a tombstone be reaped between
them.  Larger instances (two rows with four more commits, four
generations, clocks of seven and ten) were simulated without a violation.  Deadlock is not checked in the last two
models: their events and clocks are bounded, so they stop.

Fairness.  Both threads loop without waiting on anything but the conditions
their actions name, so each of their steps is weakly fair.  The flush itself is
strongly fair because `FlushLater` may return to the drain loop a number of times
before `max_wait_ms` is over, and each turn re-evaluates the timer.  A publish that a
missing stream refuses is retried or ends the process (`PublishRefused` is part of
`FlushProgress`); a failing append is never fair, a reload is not promised to
succeed, and what it leaves out the boot makes up for.  The reading
of the socket, the reconnect loop, the monitor's poll and (with `Supervised`) the
restart are retried for ever by the code or its supervisor.  Nothing is assumed of
NATS in `FairSpec`; `Delivered` needs `NatsRecovers`, as no bridge can deliver to
a broker that stays away.  Heartbeats, signals, crashes and losses are never fair.
Lanes of the listener loop without end, and wait only for locks, so each lane's
step is weakly fair; JetStream redelivers when `ack_wait` is over and PostgreSQL
ends a transaction whose client is gone.  Maintenance, pruning, clients and the
clock are not fair.  `RefusedTables` and `Generations` state safety only: what a lift
or a re-seed waits for is another write or another scan, which nothing promises.

## 5. Proofs

Eight modules, each about one component; all of it holds for every value of the
constants that satisfies the assumptions named in the component's module
(`ConstantsAssumption` and `WalAssumption`, `SlotPoolAssumption`, `ReceiptsAssumption`,
`RefusedAssumption`, `GenerationsAssumption`).  Each inductive invariant was model-checked on small instances before it was proved.

### The change feed

`CdcPipelineProofs`:

* `TypeCorrect`: `Spec => []TypeOK`.  `TypeOK` needs one companion, `CursorOK`:
  the walsender's cursor stands inside its transaction's rows whenever the loop
  waits for a slot or is inside a transaction, so the row it packs exists.
* `ConfirmedAcksLoseNothing`: with `Keepalives = {}` and `BootStamped = FALSE`,
  `Spec => []AckedIsPublished`.  What remains are the acknowledgements of confirmed
  positions (timer, byte threshold, heartbeat, shutdown), with skips, streams made
  late, failed appends, crashes and restarts.  Both hypotheses are needed: TLC violates
  the property with a boot stamp (`cdc_boot_suspension`), with replies (`cdc_reply`) and
  with plain keepalives alone (the fast acknowledgement of a drained bridge, between pop
  and announcement).  So the theorem says what is sound about the code and the three
  counterexamples what is not; there is no smaller hypothesis on keepalives
  under which the property holds.  What keepalives cannot break is the subject of `ConfirmedIsStored` and
  `AcksAreHeld` below.

The invariant itself is not inductive: it speaks of the slot, while the danger
travels from a row's LSN through a batch into `confirmed`, `lastAck` and only then
into the slot.  And a row without a stream must not be skipped because *this process*
has not been told of a mapping that an earlier one was told of.  `Known` are the committed
rows that are settled; `Untold` the mappings whose tenants are neither in `members` nor
in `streams` (nor dropped); `Done == Known \ Untold` is what the feed is done with, so a
mapping is done only once the publisher would not skip the rows behind it.  The
strengthening `IInv` has three parts.  `TypeInv` is typing with its companion.  `FeedInv` is the discipline of the ring, which
every proof about the feed rests on:
 - every event in the ring is a genuine row of the log (`Genuine`) and the ring,
   oldest first, is in stream order up to rows that are done (`Fifo`);
 - every row before the walsender's cursor is done or in the ring (`Covers`);
 - a batch to be confirmed is done (`StoredInv`).
`AckInv` says that `confirmed`, `lastAck` and `slot` are *safe* LSNs: every
transaction whose commit record lies below one has all its rows among the known ones
and, while the process lives, the done ones (`SafeLsn`).  A lost process is the point
where the two meet: the walsender starts
again from the slot, and the ring of the new process is in order only if what lies
below the slot is known (`Resumable`); a boot makes the streams of everybody mapped by
then, which turns known into done (`BootDone`).

Two steps matter.  In `PublishOk` a skipped row is excused (`SkippedIsExcused`): by `Fifo`
every mapping of its tenant before it is done, or before it in this batch, so either the
stream exists or the publisher has noted a member, unless the mapping was dropped; and a
failed append excuses exactly its own row (`DroppedIsDone`), and by that the rows whose
only mapping it was.  In `ConfirmBatch` the largest row LSN `l` of a done
batch is safe because a transaction that committed below `l` also precedes, in
commit order, the transaction of the row at `l` (a row lies below its own commit
record), so its rows come earlier in the stream, and by `Covers` and `Fifo` they
have left the ring, that is, are done.

`CdcStreamProofs`:

* `AcksAreHeld`: with `Supervised = FALSE` and `BootStamped = FALSE`,
  `Spec => []AckedIsHeld`, whatever keepalives are answered.  `AckedIsHeld` speaks of
  one process's life (after a restart the memory that held the rows is gone, which is
  what `cdc_reply` shows), hence the first hypothesis.  It is what is left of the
  promise of `isDrained`: the rows are somewhere in the process, a popped batch
  included, though not where that comment says.  What an acknowledged
  transaction may rest on is `Kept`: what is done and the publisher's queue, which a
  reconnect leaves alone.  `Kept` never shrinks while the process lives
  (`KeptGrows`), so a position that is held stays held, and a position the walsender
  reports is held (`ReportedIsHeld`): it lies behind everything already sent except
  the transaction being sent, and the open transaction's slots hold rows of that
  transaction only (`OpenIsCurrent`).
* `ConfirmedIsStored`: `Spec => []ConfirmedIsPublished` with `BootStamped = FALSE` and
  either `Keepalives = {}` or `Supervised = FALSE`: the flush thread's own report is
  right also while the WAL loop answers keepalives with positions of the walsender.

* `PartialStoresKeepLanes`: about `LanePublish` alone.  At whatever stage `doPublish` gives
  up on a batch, it has stored of each lane no event without the earlier ones.  Stages go out
  in order; within a stage either the lane is a single message or the groups go out
  one by one, and the first event of a group comes before the first event of a later
  one (`GroupHeadsInOrder`).
* `LanesStayWhole`: `Spec => []LaneHasNoHole` under the hypotheses of `ConfirmedIsStored`,
  from `PartialStoresKeepLanes`, `FeedInv`, and the fact that a
  batch is a prefix of the ring.  Rows that are skipped leave no hole a client would
  read past: they are excused, or the batch is refused before a later row of the lane is
  stored.  With keepalives and restarts, once a position is acknowledged
  whose rows are lost with the process, the lane does have a hole.

### The rings

`SlotPoolProofs`, for every number of slots and every ring with room for them:

* `SlotPoolTypeCorrect`: `Spec => []TypeOK`, from `RingInv`: what a thread has loaded of a
  ring is still so when it stores (`ViewsOK`), as nobody else writes that index; for
  the free ring only as long as no two pushes have overlapped.
* `ReleasesHandedOver`: `Spec => ReleasedInOrder`, the refinement of `HandOver`.  The
  content of a ring is a function of its cells and indices (`Ring`); the store of the
  write index appends the slot (`PushAppends`), the store of the read index takes the
  oldest (`PopTakesOldest`), every other step leaves the content alone.  It needs no
  assumption about the free ring: the pending ring stays a FIFO after the race.
* `SlotsKept`: `Spec => []ConservedIfSerial`.  Each slot is counted once over all places
  (`CountedOnce`); `OnlySlots` is what the count needs: a popped cell was written.

### The mutation listener

`MutationReceiptsProofs` proves, for every value of the constants that satisfies
`ReceiptsAssumption` (any number of lanes, messages, IDs, lock keys that may
collide, months, deliveries and faults):

* `ReceiptsTypeCorrect`: `Spec => []TypeOK`, with two companions: a message that
  can be delivered has a delivery left (`DeliveriesLeft`), and a lane past the
  lookup has a claim for every message, with an outcome for what it executed
  (`ClaimsThere`).
* `DecidedOnce`: `Spec => []ReceiptsCoverLedger`.  The heart is `DecidesOnce`: a
  transaction can record its receipts only if none of its IDs has one (a plain
  INSERT under a unique key) and their partitions exist, and an ID that was
  decided and has no receipt has no partition either.  So the proof needs neither
  the advisory locks nor the lookup being current: those spare an execution that
  could not commit, and give the right answer.  That a dropped partition is never
  made again (`maintain_receipts` raises the minimum first, and only creates months
  from it) is what keeps a write from running again once its receipt is gone; for
  legacy IDs, whose month is below every minimum, it is that their partition is
  never dropped (`LegacyKept`), which the invariant alone does not say.
* `AnsweredTruly`: `Spec => []AckedIsAnswered`, from three more facts: what a lane
  will answer from is in the ledger (`ClaimsTrue`), so is what clients were told
  (`ToldTrue`), and acked writes were answered (`AckedTold`).  They hold on because
  a decision, once made, is never changed (`NothingTakenBack`), and because what is
  admitted to a transaction is not forbidden (`AdmittedWritable`).
* `ReceiptsKeepPromise`: `Spec => KeepsPromise`, the refinement: every step is one
  of `WriteLedger` or changes neither `ledger` nor `told`.

### The registry of refused tables

`RefusedTablesProofs` proves, for every value of the constants that satisfies
`RefusedAssumption` (any set of transactions, any number of losses and failing
statements):

* `RefusedTypeCorrect`: `Spec => []TypeOK`, with `BufferOK`: the row slots of the open
  transaction are events of the WAL, and a buffer with an announcement has a last
  one.
* `SuspensionIsTold`: `Spec => []ClientsAreTold`.  The strengthening `Told` says the
  same of the moment between a lift by a probe and the schema it publishes, where
  the table may be refused again; `BootIsFresh` says that a boot has an empty buffer
  and has counted nothing, so no older slot can overtake what it announces.
* `LiftReseedsCounted`: `Spec => []CountedDropsAreReseeded`, inductive given typing and
  `BootIsFresh`: a re-seed reaches the end of the WAL, and only events beyond what
  was read can be counted later, while the table is refused.

### Generations

`GenerationsProofs`, for every value of the constants that satisfies
`GenerationsAssumption`, disorders included:

* `GenerationsTypeCorrect`: `Spec => []TypeOK`.  Its companions: a build that has begun has
  a generation number left, and what a manifest says lies behind the clock, the stream
  and the generations (`Reached`), in the store and in a client's hands alike.  What a
  plan loads is a fold over the generations (`Loaded`); a recursive function is unfolded
  once, by a minimal counterexample (`LoadedStep`), and everything else is said of one
  step.

`GenerationsSeedProofs`:

* `SeedsAreWhole`: if `Disorder` has none of "late edit", "lower stamp" and "early reap"
  (`Orderly`), `Spec => []SeedsWhole`.  A lagging stream is allowed.  TLC refutes
  `SeedsWhole` for each of the three alone (a row and four commits are enough), so none of
  the hypotheses is there for the proof's sake.

The invariant names the moment of each snapshot: `snap[g]` is the length of the log when
generation `g` was cut.  What the next delta must reach back to is the generation's *mark*
(`MarkOf`): the sequence its manifest gives, which is at or before the snapshot, or, if the
stream may lag, the snapshot.  `ChainInv` says that there is such a history with
 - the full of `g` the live rows of commit `snap[g]` (`LiveAt`), and the delta of `g` what takes
   the table, as it was at any commit from the mark of `g-1` on, to the one at `snap[g]`
   (`Follows`): it holds the last commit of every row written since, and nothing that is not
   the last of its row;
 - of the commits after the last mark: each has a version at or above what the next delta
   starts from, and above the version its row had since the mark (`Since`, `Rising`).  This is where the
   floor matters: a transaction open across the snapshot commits later with a version below the
   cut, but not below the oldest open transaction (`Above`);
 - the table the last commit of each row, except tombstones the sweeper has reaped, and those
   were in a snapshot before (`Table`): otherwise the next delta would not carry the delete;
 - the live generations a suffix of the recorded ones, the last one included
   (`LiveSuffix`), and the manifest, if it is that of the last recorded generation, naming a
   full and every delta after it (`Listed`).
From this a plan for a fresh client starts from a table at one commit (`WipedIs`), each of its
deltas takes it to the next (`MergeIs`), and it ends at the last snapshot, which is not before
the manifest's cut.  `MergeIs` needs `Since` a second time: a row of a delta replaces the row
of the base only if its version is higher, which a lower stamp breaks.

`GenerationsReplicaProofs`:

* `ReplicasConverge`: if `Disorder` is empty, `Spec => []Converged`, whatever the client was
  loaded from, across whatever gap, fence, stopped load or restart, and whatever was
  deleted, reaped, pruned or built again meanwhile.  TLC refutes `Converged` for each of
  the five disorders alone.

The invariant (`ReplicaInv`, over `ChainInv`) says of every row which commit it is as old as:
 - `Rows`: there is a commit `x`, not before the anchor, such that the row is what the table
   had at `x` (`TableAt`); and if the stream still has the event after the position, `x` is
   not before the position, so replaying from there skips nothing.  Different rows may
   have different `x`: after a load that stopped they do.
 - `Replica`: the watermark and the anchor go together as the cut and the sequence of a
   generation do (`InStep`), so whatever deltas a later plan picks start at or before the
   anchor.
 - `Loading`: a client at work has a manifest that was sound when it was read, and may have
   been replaced since; the objects it names are those of that manifest or gone
   (`Intact`, `Sound`), also when a build after a failed one wrote some of them again
   (`Unrecorded`).
One lemma per way a row can move: a delta takes it from `x` to the delta's end, or leaves it if
`x` is past that (`MergeRow`), and none of its rows takes it back behind the position unless a
change the client has followed comes after it (`DeltaKeeps`); a whole load is that for each
delta in turn (`LoadedRows`), one that stops has part of one more (`StoppedRows`); an event
takes the row on by one, or is of another row, or is behind the anchor (`FollowReplica`).  When
the stream is read to its end `x` is the last commit, and the table there is the live table
(`ReplicaConverges`).  "Torn deltas" is the hypothesis of `DeltaKeeps` that the code does not
see to.  "Lagging stream" is why the chain is told by marks: a client may have rows as old as
the sequence its manifest gives, and the next delta has to take those on too.

### Only model-checked

`Delivered`, `PgStopCompletes` and `LanesComeBack`: liveness under fairness is beyond the
proof system.  Every invariant a passing run checks is a theorem.

## 6. Not modelled

* The registry's limit of 64 tables and the reasons that last until a restart;
  the live catalogue, RELATION messages, DDL, and of the reload at COMMIT everything
  but the streams it makes for tenants.
* Mappings that are removed, and streams that are deleted under a running bridge.
* Of the producer: tables the edge does not write, hard deletes, epochs and shape
  changes, the background lane for fulls, checkpoints, leaf seeds, shared routes.
* Of the client: the outbox, several tables at once, schema changes.
* The readings archiver, the fleet monitor, the HTTP server and enrolment, stream
  provisioning, preflight, the codecs, and the bindings in other languages;
  `PROJECT.json` gives the reason for each.
* The Python scenarios: tests that drive the program, with no state of its own.
