---------------------------- MODULE CdcPipeline ----------------------------
(***************************************************************************)
(* The change feed of one ZeBridge process: PostgreSQL's walsender and     *)
(* replication slot (external), the WAL loop of src/src/bridge.zig, the    *)
(* ring of event slots, the flush thread of src/src/batch_publisher.zig    *)
(* and what NATS JetStream has stored (external).                          *)
(*                                                                         *)
(* A transaction is its position in commit order: PostgreSQL sends whole   *)
(* transactions in that order, only after they committed.  Their rows lie  *)
(* interleaved in the WAL, so a row of a later transaction may have a      *)
(* smaller LSN than one of an earlier transaction; a row's LSN is always   *)
(* below its own commit record.  A row event carries its row's LSN, and    *)
(* that LSN is what the bridge acknowledges once NATS has confirmed it.    *)
(*                                                                         *)
(* The row events of a tenant go to a stream of that tenant's own, which   *)
(* exists once a principal was mapped to the tenant.  A mapping is itself  *)
(* a row, diverted to a KV event of the feed ($KV.tenants); the flush      *)
(* thread remembers the tenants it has seen mapped.  A row whose stream is *)
(* missing is skipped, as if delivered, while nobody is mapped to its      *)
(* tenant, and otherwise fails the batch.  Mappings are only added here:   *)
(* removals, and streams deleted under the bridge, are not modelled.       *)
(*                                                                         *)
(* The question this module settles is whether PostgreSQL can ever be told *)
(* that it may forget a transaction which a client is owed and NATS does   *)
(* not have.                                                               *)
(***************************************************************************)
EXTENDS Naturals, Sequences, FiniteSets, LanePublish

CONSTANTS
    NTxn,            \* bound: transactions PostgreSQL may commit
    Lanes,           \* the lanes rows are published to
    Tenants,         \* the tenants with a stream of their own
    TenantOf,        \* TenantOf[l]: the tenant of lane l, or OpenTenant
    Rows,            \* Rows[t]: the rows of t, [lsn, lane, verb, maps]
    CommitLsn,       \* CommitLsn[t]: the LSN of t's commit record
    RingSize,        \* event slots (BATCH_RING_BUFFER_SIZE)
    MaxEvents,       \* BatchConfig.max_events
    MaxRetries,      \* BatchConfig.max_retries
    Keepalives,      \* keepalives the walsender sends: "plain", "reply"
    SuspendedAtBoot, \* some monitored table is refused when the bridge boots
    BootStamped,     \* the boot reads the WAL head (else it stamps 0)
    Supervised,      \* a supervisor restarts the process after it exits
    MaxFaults,       \* bound: crashes, stops, losses and failed publishes
    PgStops          \* bound: fast shutdowns of PostgreSQL

Txn == 1..NTxn

RowVerbs == {"insert", "update", "delete"}

(* The public stream: "_default" and every untenanted table.               *)
OpenTenant == "_default"

(* A published row, and a row of zebridge_user_tenants.                    *)
RowSet ==
    [lsn : Nat \ {0}, lane : Lanes, verb : RowVerbs, maps : {{}}]
    \cup [lsn : Nat \ {0}, lane : {"tenants"}, verb : {"kv"}, maps : SUBSET Tenants]

ASSUME ConstantsAssumption ==
    /\ NTxn \in Nat
    /\ RingSize \in Nat /\ RingSize >= 2
    /\ MaxEvents \in Nat \ {0}
    /\ MaxRetries \in Nat
    /\ Keepalives \subseteq {"plain", "reply"}
    /\ TenantOf \in [Lanes -> Tenants \cup {OpenTenant}]
    /\ OpenTenant \notin Tenants /\ {"tenants", "boot"} \cap Lanes = {}
    /\ SuspendedAtBoot \in BOOLEAN
    /\ BootStamped \in BOOLEAN
    /\ Supervised \in BOOLEAN
    /\ MaxFaults \in Nat
    /\ PgStops \in Nat

ASSUME WalAssumption ==
    /\ CommitLsn \in [Txn -> Nat \ {0}]
    /\ \A t, u \in Txn : t < u => CommitLsn[t] < CommitLsn[u]
    /\ Rows \in [Txn -> Seq(RowSet)]
    /\ \A t \in Txn : \A i \in DOMAIN Rows[t] : Rows[t][i].lsn < CommitLsn[t]

VARIABLES
    \* PostgreSQL: the slot, the walsender and its position
    committed,  \* transactions committed so far
    slot,       \* confirmed_flush_lsn of the replication slot
    conn,       \* the walsender serving this bridge is alive
    cur,        \* the walsender's next message: [t, i], i = 0 is BEGIN
    pgStop,     \* a fast shutdown waits for its walsenders
    \* the WAL loop
    wpc, after, txbuf, lastAck, latestEnd,
    \* state shared by the threads
    pending, confirmed, draining, fatal, stepAside,
    \* the flush thread
    fpc, batch, retries, final,
    members,    \* tenants the flush thread has noted a member of
    \* NATS, and what it was never asked to store
    published,  \* rows a stream or bucket has stored
    dropped,    \* history: rows whose append to a batch failed
    streams,    \* tenants whose stream exists
    natsUp,
    \* bounds
    faults, pgStops

pgVars    == <<committed, slot, conn, cur, pgStop>>
walVars   == <<wpc, after, txbuf, lastAck, latestEnd>>
sharedVars == <<pending, confirmed, draining, fatal, stepAside>>
flushVars == <<fpc, batch, retries, final, members>>
natsVars  == <<published, dropped, streams, natsUp>>
boundVars == <<faults, pgStops>>
vars == <<pgVars, walVars, sharedVars, flushVars, natsVars, boundVars>>

-----------------------------------------------------------------------------
(* Rows and events.                                                        *)

RowId == (0..NTxn) \X Nat

RowsOf(t) == {<<t, i>> : i \in DOMAIN Rows[t]}

Before(r, s) == r[1] < s[1] \/ (r[1] = s[1] /\ r[2] < s[2])

(* Mutant: a row event stamped with its transaction's end.                 *)
EventStampedAtCommit(t, i) == [id   |-> <<t, i>>,
                               lsn  |-> CommitLsn[t] + 1,
                               lane |-> Rows[t][i].lane,
                               verb |-> Rows[t][i].verb,
                               maps |-> Rows[t][i].maps]

Event(t, i) == [id   |-> <<t, i>>,
                lsn  |-> Rows[t][i].lsn,
                lane |-> Rows[t][i].lane,
                verb |-> Rows[t][i].verb,
                maps |-> Rows[t][i].maps]

EventSet ==
    [id : RowId, lsn : Nat, lane : Lanes \cup {"tenants", "boot"},
     verb : RowVerbs \cup {"kv"}, maps : SUBSET Tenants]

Ids(s) == {s[k].id : k \in DOMAIN s}

HeadLsn == IF committed = 0 THEN 0 ELSE CommitLsn[committed] + 1

(* The tenants some principal is mapped to after n transactions.           *)
Mapped(n) == UNION {UNION {Rows[t][i].maps : i \in DOMAIN Rows[t]} : t \in 1..n}

(* What a boot announces from PostgreSQL's own tables, ahead of the feed:  *)
(* the suspension of each refused table (publishBootSchemas) and the       *)
(* roster of each principal (publishBootTenants), one event for them all.  *)
(* They are stamped, as a row event is, with an LSN: the WAL head, or 0    *)
(* when it could not be read.  The roster it carries need not be noted:    *)
(* the streams of those tenants exist once the bridge has booted.          *)
BootEvent == [id   |-> <<0, 0>>,
              lsn  |-> IF BootStamped THEN HeadLsn ELSE 0,
              lane |-> "boot",
              verb |-> "kv",
              maps |-> {}]

(* Occupied slots, oldest first; the others are in free_slots.             *)
Ring == (batch \o pending) \o txbuf

HasFreeSlot == Len(Ring) < RingSize

(* isDrained                                                               *)
IsDrained == pending = <<>> /\ ~draining

-----------------------------------------------------------------------------
(* PostgreSQL (external).                                                  *)

PgCommit ==
    /\ ~pgStop
    /\ committed < NTxn
    /\ committed' = committed + 1
    /\ UNCHANGED <<slot, conn, cur, pgStop, walVars, sharedVars, flushVars, natsVars, boundVars>>

(* START_REPLICATION 0/0 resumes at the slot: a transaction is skipped     *)
(* when its commit record lies below the confirmed position.               *)
ResumesAt(t) == \A u \in Txn : u < t <=> CommitLsn[u] < slot

StartStreaming ==
    /\ ~pgStop
    /\ conn' = TRUE
    /\ \E t \in 1..(NTxn + 1) : ResumesAt(t) /\ cur' = [t |-> t, i |-> 0]

(* A status update reaches the slot only over a live connection, and never *)
(* moves it back.                                                          *)
SlotAfter(lsn) == IF conn /\ lsn > slot THEN lsn ELSE slot

(* Positions the walsender may report: it starts at the confirmed one, and *)
(* everything up to the position it reports was sent.                      *)
SentPositions ==
    {p \in slot..HeadLsn :
        /\ \A t \in 1..committed : t < cur.t => CommitLsn[t] < p
        /\ \A t \in 1..committed : t >= cur.t => p <= CommitLsn[t]}

StreamLost ==
    /\ conn /\ faults > 0
    /\ conn' = FALSE
    /\ faults' = faults - 1
    /\ UNCHANGED <<committed, slot, cur, pgStop, walVars, sharedVars, flushVars, natsVars, pgStops>>

PgFastShutdown ==
    /\ ~pgStop /\ pgStops < PgStops
    /\ pgStop' = TRUE
    /\ pgStops' = pgStops + 1
    /\ UNCHANGED <<committed, slot, conn, cur, walVars, sharedVars, flushVars, natsVars, faults>>

(* A walsender told to stop exits once all was sent and confirmed.         *)
WalsenderDone ==
    /\ pgStop /\ conn
    /\ cur.t = committed + 1
    /\ slot >= HeadLsn
    /\ conn' = FALSE
    /\ UNCHANGED <<committed, slot, cur, pgStop, walVars, sharedVars, flushVars, natsVars, boundVars>>

PgRestart ==
    /\ pgStop /\ ~conn
    /\ pgStop' = FALSE
    /\ UNCHANGED <<committed, slot, conn, cur, walVars, sharedVars, flushVars, natsVars, boundVars>>

-----------------------------------------------------------------------------
(* The WAL loop.                                                           *)

InLoop == wpc = "recv"

(* BEGIN: slots left over from a broken transaction are discarded.         *)
ReceiveBegin ==
    /\ InLoop /\ conn
    /\ cur.t <= committed /\ cur.i = 0
    /\ txbuf' = <<>>
    /\ cur' = [cur EXCEPT !.i = 1]
    /\ UNCHANGED <<committed, slot, conn, pgStop, wpc, after, lastAck, latestEnd,
                   sharedVars, flushVars, natsVars, boundVars>>

(* A row: a scratchpad at its quantum is handed to the publisher first.    *)
ReceiveRow ==
    /\ InLoop /\ conn
    /\ cur.t <= committed /\ cur.i \in DOMAIN Rows[cur.t]
    /\ IF Len(txbuf) >= RingSize - 1
         THEN wpc' = "release" /\ after' = "row"
         ELSE wpc' = "acquire" /\ UNCHANGED after
    /\ UNCHANGED <<pgVars, txbuf, lastAck, latestEnd, sharedVars, flushVars, natsVars, boundVars>>

(* The memory of a process that starts with the given queue, or is gone.  *)
ProcessMemory(pc, queue) ==
    /\ wpc' = pc /\ after' = "row" /\ txbuf' = <<>>
    /\ lastAck' = 0 /\ latestEnd' = 0
    /\ pending' = queue
    /\ confirmed' = 0 /\ draining' = FALSE /\ fatal' = FALSE /\ stepAside' = FALSE
    /\ fpc' = "collect" /\ batch' = <<>> /\ retries' = 0 /\ final' = FALSE
    /\ members' = {}

(* With the process go its memory and its replication connection.          *)
ProcessEnds ==
    /\ ProcessMemory("exited", <<>>)
    /\ conn' = FALSE

(* acquireAndFillSlot: waits for a free slot, fills it, and the loop adds  *)
(* it to the open transaction.                                             *)
AcquireSlot ==
    /\ wpc = "acquire" /\ HasFreeSlot
    /\ txbuf' = Append(txbuf, Event(cur.t, cur.i))
    /\ cur' = [cur EXCEPT !.i = cur.i + 1]
    /\ wpc' = "recv"
    /\ UNCHANGED <<committed, slot, conn, pgStop, after, lastAck, latestEnd,
                   sharedVars, flushVars, natsVars, boundVars>>

(* The same wait given up, on a fatal publisher or after thirty seconds:   *)
(* the error leaves the loop and the process.                              *)
AcquireTimeout ==
    /\ wpc = "acquire" /\ ~HasFreeSlot
    /\ \/ (fatal \/ ~natsUp) /\ UNCHANGED faults
       \/ natsUp /\ faults > 0 /\ faults' = faults - 1
    /\ ProcessEnds
    /\ UNCHANGED <<committed, slot, cur, pgStop, natsVars, pgStops>>

ReceiveCommit ==
    /\ InLoop /\ conn
    /\ cur.t <= committed /\ cur.i = Len(Rows[cur.t]) + 1
    /\ wpc' = "release" /\ after' = "commit"
    /\ UNCHANGED <<pgVars, txbuf, lastAck, latestEnd, sharedVars, flushVars, natsVars, boundVars>>

(* The COMMIT of a mapping reloads the catalogue, after its slots went to  *)
(* the publisher: every tenant mapped in PostgreSQL by now gets its stream *)
(* - or none does, when the reload fails (only logged) or the tenant was   *)
(* taken for one that has its stream.                                      *)
CatalogueReload ==
    \/ UNCHANGED streams
    \/ /\ natsUp
       /\ \E i \in DOMAIN Rows[cur.t] : Rows[cur.t][i].maps # {}
       /\ streams' = streams \cup Mapped(committed)

(* releaseTxSlots and the COMMIT handler: one slot at a time.              *)
ReleaseSlot ==
    /\ wpc = "release" /\ txbuf # <<>>
    /\ pending' = Append(pending, Head(txbuf))
    /\ txbuf' = Tail(txbuf)
    /\ UNCHANGED <<pgVars, wpc, after, lastAck, latestEnd,
                   confirmed, draining, fatal, stepAside, flushVars, natsVars, boundVars>>

ReleaseDone ==
    /\ wpc = "release" /\ txbuf = <<>>
    /\ \/ /\ after = "row"
          /\ wpc' = "acquire"
          /\ UNCHANGED <<cur, streams>>
       \/ /\ after = "commit"
          /\ wpc' = "recv"
          /\ cur' = [t |-> cur.t + 1, i |-> 0]
          /\ CatalogueReload
    /\ UNCHANGED <<committed, slot, conn, pgStop, after, txbuf, lastAck, latestEnd,
                   sharedVars, flushVars, published, dropped, natsUp, boundVars>>

(* The periodic and the byte-threshold status update.                      *)
AckConfirmed ==
    /\ InLoop
    /\ confirmed > lastAck
    /\ slot' = SlotAfter(confirmed)
    /\ lastAck' = confirmed
    /\ UNCHANGED <<committed, conn, cur, pgStop, wpc, after, txbuf, latestEnd,
                   sharedVars, flushVars, natsVars, boundVars>>

(* With nothing open, queued or in flight, the walsender's own position    *)
(* may be confirmed.                                                       *)
MayFastAck == txbuf = <<>> /\ IsDrained

FastAck(walEnd) == IF MayFastAck /\ walEnd > lastAck THEN walEnd ELSE lastAck

Heartbeat ==
    /\ InLoop
    /\ lastAck' = FastAck(latestEnd)
    /\ slot' = SlotAfter(lastAck')
    /\ UNCHANGED <<committed, conn, cur, pgStop, wpc, after, txbuf, latestEnd,
                   sharedVars, flushVars, natsVars, boundVars>>

(* A keepalive carrying p.  The answer to a requested reply is the last    *)
(* acknowledged position, or p itself while nothing was acknowledged.      *)
ReplyLsn(p, ack) == IF ack > 0 THEN ack ELSE p

ReceiveKeepalive(kind, p) ==
    /\ InLoop /\ conn
    /\ latestEnd' = IF p > latestEnd THEN p ELSE latestEnd
    /\ lastAck' = FastAck(latestEnd')
    /\ slot' = SlotAfter(IF kind = "reply" THEN ReplyLsn(p, lastAck') ELSE lastAck')
    /\ UNCHANGED <<committed, conn, cur, pgStop, wpc, after, txbuf,
                   sharedVars, flushVars, natsVars, boundVars>>

(* wal_monitor: a refused connection says PostgreSQL is shutting down.     *)
MonitorSeesShutdown ==
    /\ pgStop /\ wpc # "exited" /\ ~stepAside
    /\ stepAside' = TRUE
    /\ UNCHANGED <<pgVars, walVars, pending, confirmed, draining, fatal,
                   flushVars, natsVars, boundVars>>

(* Mutant: the flag is consumed and nothing is done about it.              *)
StepAsideIgnored ==
    /\ InLoop /\ stepAside
    /\ stepAside' = FALSE
    /\ UNCHANGED <<pgVars, walVars, pending, confirmed, draining, fatal,
                   flushVars, natsVars, boundVars>>

(* The loop consumes the flag: a stream it cannot confirm is dropped.      *)
StepAside ==
    /\ InLoop /\ stepAside
    /\ stepAside' = FALSE
    /\ conn' = (conn /\ MayFastAck)
    /\ UNCHANGED <<committed, slot, cur, pgStop, walVars, pending, confirmed,
                   draining, fatal, flushVars, natsVars, boundVars>>

(* Mutant: a reconnect empties the publisher's queue too.                  *)
ReconnectDroppingQueue ==
    /\ InLoop /\ ~conn
    /\ txbuf' = <<>> /\ pending' = <<>>
    /\ StartStreaming
    /\ UNCHANGED <<committed, slot, pgStop, wpc, after, lastAck, latestEnd,
                   confirmed, draining, fatal, stepAside, flushVars, natsVars, boundVars>>

(* The stream ended or failed: the open transaction's slots are discarded  *)
(* and the loop reconnects.                                                *)
Reconnect ==
    /\ InLoop /\ ~conn
    /\ txbuf' = <<>>
    /\ StartStreaming
    /\ UNCHANGED <<committed, slot, pgStop, wpc, after, lastAck, latestEnd,
                   sharedVars, flushVars, natsVars, boundVars>>

(* The slot stays held by another bridge for six attempts: give up.        *)
SlotHeldByAnother ==
    /\ InLoop /\ ~conn /\ faults > 0
    /\ faults' = faults - 1
    /\ txbuf' = <<>>
    /\ wpc' = "stopping"
    /\ UNCHANGED <<pgVars, after, lastAck, latestEnd, sharedVars, flushVars, natsVars, pgStops>>

(* A fatal publisher, or a signal, ends the loop.                          *)
FatalStop ==
    /\ InLoop /\ fatal
    /\ wpc' = "stopping"
    /\ UNCHANGED <<pgVars, after, txbuf, lastAck, latestEnd, sharedVars,
                   flushVars, natsVars, boundVars>>

SignalStop ==
    /\ InLoop /\ faults > 0
    /\ faults' = faults - 1
    /\ wpc' = "stopping"
    /\ UNCHANGED <<pgVars, after, txbuf, lastAck, latestEnd, sharedVars,
                   flushVars, natsVars, pgStops>>

(* Shutdown waits for the flush thread, thirty seconds at most (the clock  *)
(* is not modelled: the wait may end at any time), then sends a last ack.  *)
FinalAck ==
    /\ wpc = "stopping"
    /\ slot' = IF confirmed > lastAck THEN SlotAfter(confirmed) ELSE slot
    /\ ProcessEnds
    /\ UNCHANGED <<committed, cur, pgStop, natsVars, boundVars>>

-----------------------------------------------------------------------------
(* The flush thread.                                                       *)

FlushRuns == wpc # "exited"

(* One turn of the drain loop.                                             *)
FlushPop ==
    /\ FlushRuns /\ fpc = "collect"
    /\ pending # <<>> /\ Len(batch) < MaxEvents
    /\ batch' = Append(batch, Head(pending))
    /\ pending' = Tail(pending)
    /\ UNCHANGED <<pgVars, walVars, confirmed, draining, fatal, stepAside,
                   fpc, retries, final, members, natsVars, boundVars>>

(* The append fails for want of memory: the slot goes back to free_slots,  *)
(* its event unpublished, and the drain loop ends.                         *)
FlushAppendFails ==
    /\ FlushRuns /\ fpc = "collect" /\ faults > 0
    /\ pending # <<>> /\ Len(batch) < MaxEvents
    /\ faults' = faults - 1
    /\ dropped' = dropped \cup {Head(pending).id}
    /\ pending' = Tail(pending)
    /\ fpc' = IF batch = <<>> THEN "collect" ELSE "popped"
    /\ UNCHANGED <<pgVars, walVars, confirmed, draining, fatal, stepAside,
                   batch, retries, final, members, published, streams, natsUp, pgStops>>

(* The drain loop ends: queue empty, or the batch full by count or, at any *)
(* length, by bytes.  An empty batch only waits for work.                  *)
FlushPopEnd ==
    /\ FlushRuns /\ fpc = "collect" /\ batch # <<>>
    /\ fpc' = "popped"
    /\ UNCHANGED <<pgVars, walVars, sharedVars, batch, retries, final, members, natsVars, boundVars>>

(* Only now is the batch announced as in flight.                           *)
AnnounceBatch ==
    /\ FlushRuns /\ fpc = "popped"
    /\ draining' = TRUE
    /\ fpc' = "decide"
    /\ UNCHANGED <<pgVars, walVars, pending, confirmed, fatal, stepAside,
                   batch, retries, final, members, natsVars, boundVars>>

(* Mutant: neither the timer nor a COMMIT flushes a batch, only its size.  *)
FlushBeginWhenFull ==
    /\ FlushRuns /\ fpc = "decide" /\ Len(batch) >= MaxEvents
    /\ fpc' = "publish" /\ retries' = 0
    /\ UNCHANGED <<pgVars, walVars, sharedVars, batch, final, members, natsVars, boundVars>>

(* The flush: forced by a COMMIT, by size, or by the timer.                *)
FlushBegin ==
    /\ FlushRuns /\ fpc = "decide"
    /\ fpc' = "publish" /\ retries' = 0
    /\ UNCHANGED <<pgVars, walVars, sharedVars, batch, final, members, natsVars, boundVars>>

FlushLater ==
    /\ FlushRuns /\ fpc = "decide" /\ Len(batch) < MaxEvents
    /\ fpc' = "collect"
    /\ UNCHANGED <<pgVars, walVars, sharedVars, batch, retries, final, members, natsVars, boundVars>>

(* The tenant whose stream takes an event, or a row.                       *)
Tenant(e) == IF IsKv(e) THEN OpenTenant ELSE TenantOf[e.lane]

(* The k-th event of the batch meets no stream.                            *)
Streamless(k) == Tenant(batch[k]) \notin streams \cup {OpenTenant}

(* Mutant: whatever has no stream is skipped, as before members was kept.  *)
RefusedNever(k) == FALSE

(* ... and somebody is mapped to its tenant: an error.  Nobody yet: the    *)
(* event is skipped, as if delivered.                                      *)
Refused(k) ==
    /\ Streamless(k)
    /\ Tenant(batch[k]) \in MembersAfter(batch, k, members)

(* Of the events I of the batch, those that are not skipped are stored.    *)
StoredOf(I) == {batch[k].id : k \in {j \in I : ~Streamless(j)}}

(* doPublish succeeds: every event of the batch has its PubAck or was      *)
(* skipped.  (Which streams exist is read once for the batch.)             *)
PublishOk ==
    /\ FlushRuns /\ fpc = "publish" /\ natsUp
    /\ \A k \in DOMAIN batch : ~Refused(k)
    /\ published' = published \cup StoredOf(DOMAIN batch)
    /\ members' = MembersAfter(batch, Len(batch), members)
    /\ fpc' = "confirm"
    /\ UNCHANGED <<pgVars, walVars, sharedVars, batch, retries, final,
                   dropped, streams, natsUp, boundVars>>

AfterFlush == IF final THEN "done" ELSE "collect"

(* Mutant: the last failure counts as a delivery.                          *)
GiveUpAndConfirm ==
    IF retries < MaxRetries
      THEN retries' = retries + 1 /\ UNCHANGED <<fatal, fpc>>
      ELSE fatal' = TRUE /\ fpc' = "confirm" /\ UNCHANGED retries

(* Mutant: no retry budget.                                                *)
RetryForever == retries' = retries + 1 /\ UNCHANGED <<fatal, fpc>>

(* flushBatch: retried up to the budget, then fatal with the batch kept.   *)
RetryOrGiveUp ==
    IF retries < MaxRetries
      THEN retries' = retries + 1 /\ UNCHANGED <<fatal, fpc>>
      ELSE fatal' = TRUE /\ fpc' = AfterFlush /\ UNCHANGED retries

Stages == {Stage(batch, k) : k \in DOMAIN batch}

(* doPublish fails at stage s, possibly after storing part of the batch;   *)
(* it has noted the mappings of the stages before.                         *)
FailsAt(s) ==
    /\ \E I \in PartialStores(batch, s) :
          /\ \A k \in I : ~Refused(k)
          /\ published' = published \cup StoredOf(I)
    /\ \E n \in 0..Len(batch) :
          /\ \A k \in DOMAIN batch : k <= n <=> Stage(batch, k) < s
          /\ members' = MembersAfter(batch, n, members)

(* NATS is away, or fails the batch at some stage.                         *)
PublishFail ==
    /\ FlushRuns /\ fpc = "publish"
    /\ \/ ~natsUp /\ UNCHANGED <<faults, published, members>>
       \/ /\ natsUp /\ faults > 0 /\ faults' = faults - 1
          /\ \E s \in Stages : FailsAt(s)
    /\ RetryOrGiveUp
    /\ UNCHANGED <<pgVars, walVars, pending, confirmed, draining, stepAside,
                   batch, final, dropped, streams, natsUp, pgStops>>

(* An event with no stream whose tenant has a member fails the batch: the  *)
(* stream is made by the COMMIT of the mapping, or by the next boot.  In a *)
(* window NATS stores the other lanes, and the groups are then published   *)
(* once more, one by one.                                                  *)
PublishRefused ==
    /\ FlushRuns /\ fpc = "publish" /\ natsUp
    /\ \E k \in DOMAIN batch : Refused(k) /\ FailsAt(Stage(batch, k))
    /\ RetryOrGiveUp
    /\ UNCHANGED <<pgVars, walVars, pending, confirmed, draining, stepAside,
                   batch, final, dropped, streams, natsUp, boundVars>>

(* updateConfirmedLsn stores the largest LSN of the batch, when there is   *)
(* one, whatever was stored before.                                        *)
ConfirmedBy(b, l) ==
    \/ /\ \A k \in DOMAIN b : b[k].lsn = 0
       /\ l = confirmed
    \/ \E m \in DOMAIN b :
          /\ b[m].lsn > 0
          /\ \A k \in DOMAIN b : b[k].lsn <= b[m].lsn
          /\ l = b[m].lsn

ConfirmBatch ==
    /\ FlushRuns /\ fpc = "confirm"
    /\ \E l \in {confirmed} \cup {batch[k].lsn : k \in DOMAIN batch} :
          ConfirmedBy(batch, l) /\ confirmed' = l
    /\ batch' = <<>>
    /\ draining' = FALSE
    /\ fpc' = AfterFlush
    /\ UNCHANGED <<pgVars, walVars, pending, fatal, stepAside, retries, final,
                   members, natsVars, boundVars>>

(* should_stop: what is left in the queue joins the batch, one last flush. *)
LastFlush ==
    /\ wpc = "stopping" /\ fpc = "collect"
    /\ final' = TRUE
    /\ retries' = 0
    /\ fpc' = IF batch' = <<>> THEN "done" ELSE "publish"
    /\ UNCHANGED <<pgVars, walVars, confirmed, draining, fatal, stepAside, members,
                   published, streams, natsUp, pgStops>>

FlushStop ==
    /\ batch' = batch \o pending
    /\ pending' = <<>>
    /\ LastFlush
    /\ UNCHANGED <<dropped, faults>>

(* An append fails here too: its event is dropped, the rest left behind.   *)
FlushStopAppendFails ==
    /\ faults > 0 /\ faults' = faults - 1
    /\ \E n \in DOMAIN pending :
          /\ batch' = batch \o SubSeq(pending, 1, n - 1)
          /\ dropped' = dropped \cup {pending[n].id}
          /\ pending' = SubSeq(pending, n + 1, Len(pending))
    /\ LastFlush

-----------------------------------------------------------------------------
(* NATS outages (external), and the life of the process.                   *)

NatsDown ==
    /\ natsUp /\ faults > 0
    /\ natsUp' = FALSE
    /\ faults' = faults - 1
    /\ UNCHANGED <<pgVars, walVars, sharedVars, flushVars, published, dropped, streams, pgStops>>

NatsRecovers ==
    /\ ~natsUp
    /\ natsUp' = TRUE
    /\ UNCHANGED <<pgVars, walVars, sharedVars, flushVars, published, dropped, streams, boundVars>>

(* A crash takes everything the process held.                              *)
Crash ==
    /\ wpc # "exited" /\ faults > 0
    /\ faults' = faults - 1
    /\ ProcessEnds
    /\ UNCHANGED <<committed, slot, cur, pgStop, natsVars, pgStops>>

BootEvents ==
    IF SuspendedAtBoot \/ Mapped(committed) # {} THEN <<BootEvent>> ELSE <<>>

(* A boot refuses to start before the streams of all mapped tenants exist. *)
Boot ==
    /\ wpc = "exited" /\ Supervised /\ natsUp
    /\ streams' = streams \cup Mapped(committed)
    /\ ProcessMemory("recv", BootEvents)
    /\ StartStreaming
    /\ UNCHANGED <<committed, slot, pgStop, published, dropped, natsUp, boundVars>>

-----------------------------------------------------------------------------
(* A bridge has just booted on a slot that has confirmed nothing, with any  *)
(* backlog behind it.                                                       *)
Init ==
    /\ committed \in 0..NTxn /\ slot = 0 /\ conn = TRUE
    /\ cur = [t |-> 1, i |-> 0] /\ pgStop = FALSE
    /\ wpc = "recv" /\ after = "row" /\ txbuf = <<>>
    /\ lastAck = 0 /\ latestEnd = 0
    /\ pending = BootEvents /\ confirmed = 0 /\ draining = FALSE
    /\ fatal = FALSE /\ stepAside = FALSE
    /\ fpc = "collect" /\ batch = <<>> /\ retries = 0 /\ final = FALSE
    /\ members = {} /\ published = {} /\ dropped = {}
    /\ streams = Mapped(committed) /\ natsUp = TRUE
    /\ faults = MaxFaults /\ pgStops = 0

Postgres == PgCommit \/ StreamLost \/ PgFastShutdown \/ WalsenderDone \/ PgRestart

Keepalive == \E kind \in Keepalives, p \in SentPositions : ReceiveKeepalive(kind, p)

WalLoop ==
    \/ ReceiveBegin \/ ReceiveRow \/ AcquireSlot \/ AcquireTimeout
    \/ ReceiveCommit \/ ReleaseSlot \/ ReleaseDone
    \/ AckConfirmed \/ Heartbeat \/ Keepalive
    \/ MonitorSeesShutdown \/ StepAside
    \/ Reconnect \/ SlotHeldByAnother \/ FatalStop \/ SignalStop \/ FinalAck

FlushThread ==
    \/ FlushPop \/ FlushAppendFails \/ FlushPopEnd \/ AnnounceBatch
    \/ FlushBegin \/ FlushLater
    \/ PublishOk \/ PublishFail \/ PublishRefused \/ ConfirmBatch
    \/ FlushStop \/ FlushStopAppendFails

Next == Postgres \/ WalLoop \/ FlushThread \/ NatsDown \/ NatsRecovers \/ Crash \/ Boot

Spec == Init /\ [][Next]_vars

(* What the WAL thread does next, unless a stop or a step aside comes in    *)
(* between; and the flush thread, with a batch it has decided to flush.     *)
WalProgress ==
    \/ ReceiveBegin \/ ReceiveRow \/ AcquireSlot \/ AcquireTimeout
    \/ ReceiveCommit \/ ReleaseSlot \/ ReleaseDone
    \/ Reconnect \/ FinalAck \/ Boot

FlushProgress ==
    \/ FlushPop \/ FlushPopEnd \/ AnnounceBatch
    \/ PublishOk \/ PublishRefused \/ ConfirmBatch \/ FlushStop

(* Both threads keep running, the flush timer fires, PostgreSQL keeps       *)
(* sending and takes the stream back up, and a supervisor restarts the      *)
(* bridge.  A publish is not promised to succeed while NATS is down, nor    *)
(* NATS to recover; one that a missing stream refuses is retried.           *)
Fairness ==
    /\ WF_vars(WalProgress) /\ WF_vars(FatalStop)
    /\ WF_vars(AckConfirmed) /\ WF_vars(Keepalive)
    /\ WF_vars(MonitorSeesShutdown) /\ WF_vars(StepAside) /\ WF_vars(WalsenderDone)
    /\ WF_vars(FlushProgress) /\ SF_vars(FlushBegin)

FairSpec == Spec /\ Fairness

(* ... and with a NATS that always comes back.                              *)
RecoveringSpec == FairSpec /\ WF_vars(NatsRecovers)

-----------------------------------------------------------------------------
(* Properties.                                                              *)

TypeOK ==
    /\ committed \in 0..NTxn /\ slot \in Nat /\ conn \in BOOLEAN /\ pgStop \in BOOLEAN
    /\ cur \in [t : 1..(NTxn + 1), i : Nat]
    /\ wpc \in {"recv", "acquire", "release", "stopping", "exited"}
    /\ after \in {"row", "commit"}
    /\ txbuf \in Seq(EventSet) /\ pending \in Seq(EventSet) /\ batch \in Seq(EventSet)
    /\ lastAck \in Nat /\ latestEnd \in Nat /\ confirmed \in Nat
    /\ draining \in BOOLEAN /\ fatal \in BOOLEAN /\ stepAside \in BOOLEAN
    /\ fpc \in {"collect", "popped", "decide", "publish", "confirm", "done"}
    /\ retries \in 0..MaxRetries /\ final \in BOOLEAN
    /\ members \subseteq Tenants /\ streams \subseteq Tenants
    /\ published \subseteq RowId /\ dropped \subseteq RowId /\ natsUp \in BOOLEAN
    /\ faults \in 0..MaxFaults /\ pgStops \in 0..PgStops

AllRows == UNION {RowsOf(t) : t \in Txn}

(* Of each row of a tenant's, the rows before it that map somebody to it.   *)
Mappings ==
    [r \in {q \in AllRows : Tenant(Rows[q[1]][q[2]]) # OpenTenant} |->
        {m \in AllRows :
            /\ Before(m, r)
            /\ Tenant(Rows[r[1]][r[2]]) \in Rows[m[1]][m[2]].maps}]

(* The rows no client is owed: those the flush thread had no memory for,   *)
(* and those of a tenant that nobody was mapped to yet when they were      *)
(* written, as far as its publisher has been told (a mapping it dropped    *)
(* tells it nothing).  Their readers seed from a full snapshot.            *)
Excused == dropped \cup {r \in DOMAIN Mappings : Mappings[r] \subseteq dropped}

Settled == published \cup Excused

Acked(t) == CommitLsn[t] < slot

(* PostgreSQL never forgets a row a client is owed and NATS does not have:  *)
(* a transaction the slot will not replay has all its rows stored, except   *)
(* those excused, whatever crashed; in particular a row is skipped only     *)
(* when nobody was mapped to its tenant before it.                          *)
AckedIsPublished == \A t \in Txn : Acked(t) => RowsOf(t) \subseteq Settled

(* Of the rows of one lane (a table, or a tenant's part of it) the stream   *)
(* never holds a later one without every earlier one that is not excused:   *)
(* neither a partial publish, a replay, nor a stream made in mid-feed       *)
(* leaves a hole that a client mapped to the tenant would read past.        *)
LaneHasNoHole ==
    \A t, u \in Txn : \A i \in DOMAIN Rows[t], j \in DOMAIN Rows[u] :
        /\ Before(<<t, i>>, <<u, j>>)
        /\ Rows[t][i].lane = Rows[u][j].lane
        /\ <<u, j>> \in published
        => <<t, i>> \in Settled

(* While the process lives, a row of a transaction PostgreSQL will not      *)
(* replay is stored, excused, or still in the process's memory: in a slot   *)
(* of the ring or in the batch being flushed, announced or not.             *)
AckedIsHeld ==
    wpc # "exited" =>
        \A t \in Txn : Acked(t) => RowsOf(t) \subseteq Settled \cup Ids(Ring)

(* What the flush thread reports as confirmed covers no transaction with a  *)
(* row that is neither stored nor excused, also while the WAL loop answers  *)
(* keepalives with other positions.                                         *)
ConfirmedIsPublished ==
    \A t \in Txn : CommitLsn[t] < confirmed => RowsOf(t) \subseteq Settled

(* Every row of a committed transaction that is not excused is stored in    *)
(* the end, whatever is lost, as long as NATS comes back: the stream has    *)
(* all that is committed, again and again.                                  *)
Delivered ==
    []<>(\A t \in Txn : t <= committed => RowsOf(t) \subseteq Settled)

(* A fast shutdown of PostgreSQL is never held up by the bridge, even when  *)
(* NATS stays down and the bridge cannot confirm what it has received.      *)
PgStopCompletes == pgStop ~> ~conn
=============================================================================
