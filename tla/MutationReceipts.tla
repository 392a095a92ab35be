-------------------------- MODULE MutationReceipts --------------------------
(***************************************************************************)
(* How a client's write is executed once (src/src/mutation_listener.zig,   *)
(* src/src/receipts.zig, and the receipt functions of                      *)
(* init.write.template.sql).                                               *)
(*                                                                         *)
(* Lanes of the bridge pull writes from a JetStream work queue.  A lane    *)
(* takes the advisory lock of each write's ID, looks its receipt up, runs  *)
(* what has none, and commits the effects and the receipts together; then  *)
(* it sends the verdicts and acks.  A message that is not acked comes back *)
(* to any lane, up to MaxDeliver times; a client sends a write again under *)
(* the same ID as often as it likes, each copy being a message of its own. *)
(* Receipts live in monthly partitions, which an operator prunes.          *)
(***************************************************************************)
EXTENDS Naturals, Sequences, FiniteSets

CONSTANTS
    Lanes,        \* listener threads, each with its own connections
    Messages,     \* messages of the MUTATIONS stream
    Ids,          \* (principal, message ID) pairs
    Bodies,       \* route and payload: what the fingerprint covers
    IdOf, BodyOf, \* of a message
    Kind,         \* of a message: "write", "forbidden" table, or "unusable"
    MonthOf,      \* of an ID: its creation month, or LegacyMonth
    LockKey,      \* of an ID: hashtextextended; two IDs may collide
    MaxDeliver,   \* mutation_max_deliver
    PullBatch,    \* mutation_pull_batch
    Retention,    \* retention_days, in months
    MaxNow,       \* bound: the last month
    MaxFaults     \* bound: failures, lost acks and crashes

LegacyMonth == 0  \* 1900-01, for the IDs that carry no creation time

ASSUME ReceiptsAssumption ==
    /\ IdOf \in [Messages -> Ids]
    /\ BodyOf \in [Messages -> Bodies]
    /\ Kind \in [Messages -> {"write", "forbidden", "unusable"}]
    /\ MonthOf \in [Ids -> Nat]
    /\ LockKey \in [Ids -> Nat]
    /\ MaxDeliver \in Nat /\ MaxDeliver > 1
    /\ PullBatch \in Nat \ {0}
    /\ Retention \in Nat
    /\ MaxNow \in Nat
    /\ MaxFaults \in Nat

Outcomes == {"accepted", "rejected"}  \* accepted: also stale and row_deleted
Statuses == Outcomes \cup {"none", "failed", "indeterminate"}
Decision == [body : Bodies, outcome : Outcomes]
Untimed  == [id \in Ids |-> "ok"]
Delivery == [msg : Messages, n : 1..MaxDeliver]
Claim    == [status : {"claimed", "duplicate", "conflict", "expired", "future"},
             body : Bodies, outcome : Outcomes \cup {"none"}]

VARIABLES
    \* JetStream
    queue,       \* of each message: unsent, waiting, pending an ack, acked, or
                 \* spent: out of deliveries
    deliveries,  \* how often each was delivered
    \* a lane
    phase,       \* where it is
    batch,       \* whether it is in applyBatched
    todo,        \* deliveries fetched: those left, or the whole batch (a set:
                 \* any order of delivery may occur)
    cur,         \* deliveries of the open transaction, then those to answer
    held,        \* advisory lock keys its transaction holds
    intx,        \* PQTRANS_INTRANS: its transaction is open
    timing,      \* of each ID, as lookup_receipts judged it
    claim,       \* of each ID of the transaction
    \* PostgreSQL
    orphans,     \* transactions whose COMMIT was sent on a connection now lost
    receipts,    \* the receipts table: of some IDs
    partitions,  \* its months
    floor,       \* min_accepted_ms, in months
    now,
    \* history and bound
    ledger,      \* of each ID: the decisions committed, in order
    told,        \* of each message: the last verdict sent
    faults

stream == <<queue, deliveries>>
lane   == <<phase, batch, todo, cur, held, intx, timing, claim>>
db     == <<orphans, receipts, partitions, floor, now, ledger>>
vars   == <<queue, deliveries, phase, batch, todo, cur, held, intx, timing, claim,
            orphans, receipts, partitions, floor, now, ledger, told, faults>>

(* Writes to a table that takes none from clients (isForbiddenTable).      *)
Unwritable == {m \in Messages : Kind[m] = "forbidden"}

-----------------------------------------------------------------------------
(* A transaction.                                                          *)

TxIds(l) == {IdOf[d.msg] : d \in cur[l]}

Undecided(l) == {id \in DOMAIN claim[l] : claim[l][id].status = "claimed"}

(* What the transaction of lane l will record.                             *)
Writes(l) ==
    [id \in Undecided(l) |->
        [body |-> claim[l][id].body, outcome |-> claim[l][id].outcome]]

(* Mutant: a month without a partition takes receipts.                     *)
RecordableAnyMonth(w) == DOMAIN w \cap DOMAIN receipts = {}

(* record_receipts: a plain INSERT, into partitions that must exist.       *)
Recordable(w) ==
    /\ DOMAIN w \cap DOMAIN receipts = {}
    /\ \A id \in DOMAIN w : MonthOf[id] \in partitions

(* COMMIT: the effects and the receipts together.                          *)
Decided(w) ==
    [id \in Ids |-> IF id \in DOMAIN w THEN Append(ledger[id], w[id]) ELSE ledger[id]]

Recorded(w) ==
    [id \in DOMAIN receipts \cup DOMAIN w |->
        IF id \in DOMAIN w THEN w[id] ELSE receipts[id]]

(* Mutant: the listener trusts the transaction it opened.                  *)
TransactionAssumed(l) == TRUE

RequireTransaction(l) == intx[l]

(* ROLLBACK, or the end of a transaction whose connection is gone.         *)
Rollback(l) ==
    /\ held' = [held EXCEPT ![l] = {}]
    /\ intx' = [intx EXCEPT ![l] = FALSE]

Free(k) ==
    /\ \A l \in Lanes : k \notin held[l]
    /\ \A o \in orphans : k \notin o.keys

Fault == faults < MaxFaults /\ faults' = faults + 1

-----------------------------------------------------------------------------
(* Settling a message.                                                     *)

(* Mutant: no delivery limit.                                              *)
ReturnedForever(m) == "waiting"

(* A NAK, or no ack in time.                                               *)
Returned(m) == IF deliveries[m] < MaxDeliver THEN "waiting" ELSE "spent"

Ack(m) == queue' = [queue EXCEPT ![m] = "acked"]

Nak(m) ==
    queue' = IF queue[m] = "pending" THEN [queue EXCEPT ![m] = Returned(m)] ELSE queue

Tell(m, s) == told' = [told EXCEPT ![m] = s]

(* Mutant: on the last delivery the message is dropped.                    *)
RetryOrDrop(d) ==
    /\ IF d.n >= MaxDeliver THEN Ack(d.msg) ELSE Nak(d.msg)
    /\ UNCHANGED told

(* retryOrFail                                                             *)
RetryOrFail(d) ==
    \/ d.n >= MaxDeliver /\ Tell(d.msg, "failed") /\ Ack(d.msg)
    \/ d.n < MaxDeliver /\ Nak(d.msg) /\ UNCHANGED told

(* The open transaction is given up: a batch is then replayed one message  *)
(* at a time, a single write is left to its next delivery.                 *)
GiveUp(l) ==
    /\ Rollback(l)
    /\ phase' = [phase EXCEPT ![l] = "idle"]
    /\ cur' = [cur EXCEPT ![l] = {}]
    /\ batch' = [batch EXCEPT ![l] = FALSE]
    /\ \/ batch[l] /\ UNCHANGED <<queue, told>>
       \/ ~batch[l] /\ \E d \in cur[l] : RetryOrFail(d)
    /\ timing' = [timing EXCEPT ![l] = Untimed]
    /\ claim' = [claim EXCEPT ![l] = <<>>]
    /\ UNCHANGED <<deliveries, todo>>

-----------------------------------------------------------------------------
(* JetStream and the clients.                                              *)

Publish(m) ==
    /\ queue[m] = "unsent"
    /\ queue' = [queue EXCEPT ![m] = "waiting"]
    /\ UNCHANGED <<deliveries, lane, db, told, faults>>

(* ack_wait ran out, whatever the lane is doing with the message.          *)
AckWait(m) ==
    /\ queue[m] = "pending"
    /\ queue' = [queue EXCEPT ![m] = Returned(m)]
    /\ UNCHANGED <<deliveries, lane, db, told, faults>>

(* The ack never arrived.                                                  *)
AckLost(m) ==
    /\ queue[m] = "acked"
    /\ Fault
    /\ queue' = [queue EXCEPT ![m] = Returned(m)]
    /\ UNCHANGED <<deliveries, lane, db, told>>

(* consumer.fetch: at most PullBatch messages.                             *)
Fetch(l) ==
    /\ phase[l] = "idle" /\ todo[l] = {}
    /\ \E b \in SUBSET {m \in Messages : queue[m] = "waiting"} :
           /\ b # {} /\ IsFiniteSet(b) /\ Cardinality(b) <= PullBatch
           /\ todo' = [todo EXCEPT ![l] = {[msg |-> m, n |-> deliveries[m] + 1] : m \in b}]
           /\ batch' = [batch EXCEPT ![l] = Cardinality(b) > 1]
           /\ queue' = [m \in Messages |-> IF m \in b THEN "pending" ELSE queue[m]]
           /\ deliveries' = [m \in Messages |-> IF m \in b THEN deliveries[m] + 1 ELSE deliveries[m]]
    /\ UNCHANGED <<phase, cur, held, intx, timing, claim, db, told, faults>>

-----------------------------------------------------------------------------
(* A lane, from its first look at a message to its verdict.                *)

(* What becomes of the messages without a transaction: a write to a        *)
(* forbidden table is rejected, a message that cannot be answered is       *)
(* dropped, and a first delivery over the principal's rate is sent back; a *)
(* replay asks again.                                                      *)
AdmitFrom(l, seen, limited) ==
    LET refused  == {d \in seen : Kind[d.msg] # "write"}
        admitted == seen \ (refused \cup limited)
    IN  /\ cur' = [cur EXCEPT ![l] = admitted]
        /\ queue' = [m \in Messages |->
              IF \E d \in refused : d.msg = m THEN "acked"
              ELSE IF queue[m] = "pending" /\ \E d \in limited : d.msg = m THEN Returned(m)
              ELSE queue[m]]
        /\ told' = [m \in Messages |->
              IF m \in Unwritable /\ \E d \in refused : d.msg = m THEN "rejected" ELSE told[m]]
        /\ phase' = [phase EXCEPT ![l] = IF admitted = {} THEN "idle" ELSE "lock"]
        /\ intx' = [intx EXCEPT ![l] = admitted # {}]
        /\ batch' = [batch EXCEPT ![l] = batch[l] /\ admitted # {}]
        /\ todo' = [todo EXCEPT ![l] =
              IF batch[l] /\ admitted # {} THEN todo[l] ELSE todo[l] \ seen]
        /\ UNCHANGED <<deliveries, held, timing, claim, db, faults>>

Admit(l) ==
    /\ phase[l] = "idle"
    /\ \E seen \in IF batch[l] THEN {todo[l]} ELSE {{d} : d \in todo[l]} :
         \E limited \in SUBSET {d \in seen : Kind[d.msg] = "write" /\ d.n = 1} :
           AdmitFrom(l, seen, limited)

Missing(l) == {LockKey[id] : id \in TxIds(l)} \ held[l]

(* Mutant: locks in any order.                                             *)
LockAnyOrder(l) ==
    /\ phase[l] = "lock"
    /\ \E k \in Missing(l) :
           Free(k) /\ held' = [held EXCEPT ![l] = held[l] \cup {k}]
    /\ UNCHANGED <<stream, phase, batch, todo, cur, intx, timing, claim, db, told, faults>>

(* lock_receipts: in one global order.                                     *)
Lock(l) ==
    /\ phase[l] = "lock"
    /\ \E k \in Missing(l) :
           /\ \A j \in Missing(l) : k <= j
           /\ Free(k) /\ held' = [held EXCEPT ![l] = held[l] \cup {k}]
    /\ UNCHANGED <<stream, phase, batch, todo, cur, intx, timing, claim, db, told, faults>>

Timing(id) ==
    IF MonthOf[id] = LegacyMonth THEN "ok"
    ELSE IF MonthOf[id] < floor THEN "expired"
    ELSE IF MonthOf[id] > now THEN "future" ELSE "ok"

(* lookup_receipts reads the policy and the clock ...                      *)
ReadPolicy(l) ==
    /\ phase[l] = "lock" /\ Missing(l) = {}
    /\ timing' = [timing EXCEPT ![l] = [id \in Ids |-> Timing(id)]]
    /\ phase' = [phase EXCEPT ![l] = "lookup"]
    /\ UNCHANGED <<stream, batch, todo, cur, held, intx, claim, db, told, faults>>

Claimed(l, id, b) ==
    LET as(status, outcome) == [status |-> status, body |-> b, outcome |-> outcome]
    IN  IF id \in DOMAIN receipts
          THEN IF receipts[id].body = b
                 THEN as("duplicate", receipts[id].outcome)
                 ELSE as("conflict", "none")
          ELSE as(IF timing[l][id] = "ok" THEN "claimed" ELSE timing[l][id], "none")

(* ... and then, in statements of their own, the receipts.  The first      *)
(* message of an ID names the write, the others are compared with it when  *)
(* they are answered.  With nothing to execute the transaction is rolled   *)
(* back.                                                                   *)
Lookup(l) ==
    /\ phase[l] = "lookup"
    /\ \E first \in [TxIds(l) -> Bodies] :
         /\ \A id \in TxIds(l) :
                \E d \in cur[l] : IdOf[d.msg] = id /\ BodyOf[d.msg] = first[id]
         /\ claim' = [claim EXCEPT ![l] = [id \in TxIds(l) |-> Claimed(l, id, first[id])]]
    /\ IF \E id \in TxIds(l) : claim'[l][id].status = "claimed"
         THEN phase' = [phase EXCEPT ![l] = "execute"] /\ UNCHANGED <<held, intx>>
         ELSE phase' = [phase EXCEPT ![l] = "answer"] /\ Rollback(l)
    /\ timing' = [timing EXCEPT ![l] = Untimed]
    /\ UNCHANGED <<stream, batch, todo, cur, db, told, faults>>

(* handleMutation on every undecided write: applied, beaten by a newer     *)
(* version, or refused for good.  Outside a transaction (there is none     *)
(* after a PQreset) each statement would commit by itself.                 *)
Execute(l) ==
    /\ phase[l] = "execute" /\ RequireTransaction(l)
    /\ \E out \in [Undecided(l) -> Outcomes] :
           /\ claim' = [claim EXCEPT ![l] = [id \in DOMAIN claim[l] |->
                 IF id \in Undecided(l)
                   THEN [claim[l][id] EXCEPT !.outcome = out[id]] ELSE claim[l][id]]]
           /\ ledger' = IF intx[l] THEN ledger
                        ELSE Decided([id \in Undecided(l) |->
                                 [body |-> claim[l][id].body, outcome |-> out[id]]])
    /\ phase' = [phase EXCEPT ![l] = "finish"]
    /\ UNCHANGED <<stream, batch, todo, cur, held, intx, timing,
                   orphans, receipts, partitions, floor, now, told, faults>>

(* The deferred constraints of a single write refuse it: back to the       *)
(* savepoint, and the receipt says "rejected".                             *)
DeferredRefused(l) ==
    /\ phase[l] = "finish" /\ ~batch[l] /\ intx[l]
    /\ Recordable(Writes(l))
    /\ \E id \in Undecided(l) :
           /\ claim[l][id].outcome # "rejected"
           /\ claim' = [claim EXCEPT ![l][id].outcome = "rejected"]
    /\ UNCHANGED <<stream, phase, batch, todo, cur, held, intx, timing, db, told, faults>>

(* finishCommit                                                            *)
Commit(l) ==
    /\ phase[l] = "finish" /\ RequireTransaction(l)
    /\ Recordable(Writes(l))
    /\ receipts' = Recorded(Writes(l))
    /\ ledger' = IF intx[l] THEN Decided(Writes(l)) ELSE ledger
    /\ Rollback(l)
    /\ phase' = [phase EXCEPT ![l] = "answer"]
    /\ UNCHANGED <<stream, batch, todo, cur, timing, claim,
                   orphans, partitions, floor, now, told, faults>>

(* The COMMIT went out and the connection broke: ambiguous.                *)
CommitLost(l) ==
    /\ phase[l] = "finish" /\ intx[l] /\ Fault
    /\ orphans' = orphans \cup {[keys |-> held[l], writes |-> Writes(l)]}
    /\ GiveUp(l)
    /\ UNCHANGED <<receipts, partitions, floor, now, ledger>>

(* A round of the transaction fails for a reason that may not recur ...    *)
RoundFails(l) ==
    /\ phase[l] \in {"lock", "lookup", "execute", "finish"} /\ Fault
    /\ GiveUp(l)
    /\ UNCHANGED db

(* ... or for one the bridge finds itself: its transaction is gone, or     *)
(* its receipts cannot be recorded.                                        *)
RoundRefused(l) ==
    /\ \/ phase[l] \in {"execute", "finish"} /\ ~RequireTransaction(l)
       \/ phase[l] = "finish" /\ ~Recordable(Writes(l))
    /\ GiveUp(l)
    /\ UNCHANGED <<db, faults>>

(* Mutant: a repeat is not compared with the first message of its ID.      *)
VerdictUncompared(l, m) ==
    LET c == claim[l][IdOf[m]]
    IN  IF c.status \in {"conflict", "expired"} THEN "indeterminate"
        ELSE IF c.status = "future" THEN "failed" ELSE c.outcome

(* What message m is answered once its transaction is over.                *)
Verdict(l, m) ==
    LET c == claim[l][IdOf[m]]
    IN  IF c.body # BodyOf[m] \/ c.status \in {"conflict", "expired"} THEN "indeterminate"
        ELSE IF c.status = "future" THEN "failed"
        ELSE c.outcome

Answer(l) ==
    /\ phase[l] = "answer"
    /\ \E d \in cur[l] :
         LET left == cur[l] \ {d}
         IN  /\ Tell(d.msg, Verdict(l, d.msg))
             /\ Ack(d.msg)
             /\ cur' = [cur EXCEPT ![l] = left]
             /\ IF left # {} THEN UNCHANGED <<phase, todo, batch, claim>>
                ELSE /\ phase' = [phase EXCEPT ![l] = "idle"]
                     /\ todo' = [todo EXCEPT ![l] = IF batch[l] THEN {} ELSE todo[l]]
                     /\ batch' = [batch EXCEPT ![l] = FALSE]
                     /\ claim' = [claim EXCEPT ![l] = <<>>]
    /\ UNCHANGED <<deliveries, held, intx, timing, db, faults>>

(* PQreset inside a round (drainBatch, classifyRound): a fresh connection, *)
(* the transaction and its locks gone, and the lane still under way.       *)
ConnectionReset(l) ==
    /\ phase[l] \in {"execute", "finish"} /\ intx[l] /\ Fault
    /\ Rollback(l)
    /\ UNCHANGED <<stream, phase, batch, todo, cur, timing, claim, db, told>>

(* The process dies; what it had sent to PostgreSQL may still commit.      *)
Crash ==
    /\ Fault
    /\ \E l \in Lanes : phase[l] # "idle" \/ todo[l] # {}
    /\ \E sent \in SUBSET {l \in Lanes : phase[l] = "finish" /\ intx[l]} :
           orphans' = orphans \cup {[keys |-> held[l], writes |-> Writes(l)] : l \in sent}
    /\ phase' = [l \in Lanes |-> "idle"]
    /\ batch' = [l \in Lanes |-> FALSE]
    /\ todo' = [l \in Lanes |-> {}]
    /\ cur' = [l \in Lanes |-> {}]
    /\ held' = [l \in Lanes |-> {}]
    /\ intx' = [l \in Lanes |-> FALSE]
    /\ timing' = [l \in Lanes |-> Untimed]
    /\ claim' = [l \in Lanes |-> <<>>]
    /\ UNCHANGED <<stream, receipts, partitions, floor, now, ledger, told>>

-----------------------------------------------------------------------------
(* PostgreSQL by itself.                                                   *)

(* A transaction that nobody listens to any more.                          *)
OrphanEnds(o) ==
    /\ orphans' = orphans \ {o}
    /\ \/ /\ Recordable(o.writes)
          /\ receipts' = Recorded(o.writes)
          /\ ledger' = Decided(o.writes)
       \/ UNCHANGED <<receipts, ledger>>
    /\ UNCHANGED <<stream, lane, partitions, floor, now, told, faults>>

(* maintain_receipts: raise the minimum, then a partition for every month  *)
(* from it through the next one.                                           *)
Maintain ==
    /\ floor' = IF now > floor + Retention THEN now - Retention ELSE floor
    /\ partitions' = partitions \cup {LegacyMonth} \cup {m \in 1..(now + 1) : m >= floor'}
    /\ UNCHANGED <<stream, lane, orphans, receipts, now, ledger, told, faults>>

Prunable(m) == m # LegacyMonth /\ m < floor

(* prune_receipts, by an operator.  DROP TABLE waits for the transactions  *)
(* that have read the receipts table.                                      *)
Prune ==
    /\ orphans = {}
    /\ \A l \in Lanes : ~(phase[l] \in {"execute", "finish"} /\ intx[l])
    /\ \E m \in partitions : Prunable(m)
    /\ partitions' = {m \in partitions : ~Prunable(m)}
    /\ receipts' = [id \in {i \in DOMAIN receipts : ~Prunable(MonthOf[i])} |-> receipts[id]]
    /\ UNCHANGED <<stream, lane, orphans, floor, now, ledger, told, faults>>

Tick ==
    /\ now < MaxNow
    /\ now' = now + 1
    /\ UNCHANGED <<stream, lane, orphans, receipts, partitions, floor, ledger, told, faults>>

-----------------------------------------------------------------------------
Init ==
    /\ queue = [m \in Messages |-> "unsent"]
    /\ deliveries = [m \in Messages |-> 0]
    /\ phase = [l \in Lanes |-> "idle"]
    /\ batch = [l \in Lanes |-> FALSE]
    /\ todo = [l \in Lanes |-> {}]
    /\ cur = [l \in Lanes |-> {}]
    /\ held = [l \in Lanes |-> {}]
    /\ intx = [l \in Lanes |-> FALSE]
    /\ timing = [l \in Lanes |-> Untimed]
    /\ claim = [l \in Lanes |-> <<>>]
    /\ orphans = {} /\ receipts = <<>> /\ partitions = {}
    /\ floor = 0 /\ now = 1
    /\ ledger = [id \in Ids |-> <<>>]
    /\ told = [m \in Messages |-> "none"]
    /\ faults = 0

(* What a running lane does of itself.                                     *)
LaneStep(l) ==
    \/ Fetch(l) \/ Admit(l) \/ Lock(l) \/ ReadPolicy(l) \/ Lookup(l)
    \/ Execute(l) \/ Commit(l) \/ RoundRefused(l) \/ Answer(l)

Next ==
    \/ \E m \in Messages : Publish(m) \/ AckWait(m) \/ AckLost(m)
    \/ \E l \in Lanes :
         \/ LaneStep(l) \/ DeferredRefused(l)
         \/ CommitLost(l) \/ RoundFails(l) \/ ConnectionReset(l)
    \/ Crash
    \/ \E o \in orphans : OrphanEnds(o)
    \/ Maintain \/ Prune \/ Tick

Spec == Init /\ [][Next]_vars

(* The lanes run, JetStream redelivers, and PostgreSQL ends what it began. *)
Fairness ==
    /\ \A l \in Lanes : WF_vars(LaneStep(l))
    /\ \A m \in Messages : WF_vars(AckWait(m))
    /\ WF_vars(\E o \in orphans : OrphanEnds(o))

FairSpec == Spec /\ Fairness

-----------------------------------------------------------------------------
(* Types; and no message is delivered more than MaxDeliver times.          *)
TypeOK ==
    /\ queue \in [Messages -> {"unsent", "waiting", "pending", "acked", "spent"}]
    /\ deliveries \in [Messages -> 0..MaxDeliver]
    /\ phase \in [Lanes -> {"idle", "lock", "lookup", "execute", "finish", "answer"}]
    /\ batch \in [Lanes -> BOOLEAN]
    /\ todo \in [Lanes -> SUBSET Delivery]
    /\ cur \in [Lanes -> SUBSET Delivery]
    /\ held \in [Lanes -> SUBSET Nat]
    /\ intx \in [Lanes -> BOOLEAN]
    /\ timing \in [Lanes -> [Ids -> {"ok", "expired", "future"}]]
    /\ claim = [l \in Lanes |-> claim[l]]
    /\ \A l \in Lanes : DOMAIN claim[l] \subseteq Ids /\ claim[l] \in [DOMAIN claim[l] -> Claim]
    /\ \A o \in orphans :
           /\ o.keys \subseteq Nat
           /\ DOMAIN o.writes \subseteq Ids
           /\ o.writes \in [DOMAIN o.writes -> Decision]
    /\ DOMAIN receipts \subseteq Ids /\ receipts \in [DOMAIN receipts -> Decision]
    /\ partitions \subseteq Nat
    /\ floor \in Nat /\ now \in Nat
    /\ ledger \in [Ids -> Seq(Decision)]
    /\ told \in [Messages -> Statuses]
    /\ faults \in 0..MaxFaults

(* What is decided has its receipt, and only that has one, until its month *)
(* is gone for good: so a retry inside the horizon is always answered, and *)
(* one beyond it never runs.                                               *)
ReceiptsCoverLedger ==
    \A id \in Ids :
        IF id \in DOMAIN receipts
          THEN ledger[id] = <<receipts[id]>>
          ELSE ledger[id] = <<>> \/ (MonthOf[id] < floor /\ MonthOf[id] \notin partitions)

(* No message leaves the queue unanswered: an acked write was sent a       *)
(* verdict, and a definitive one is the recorded decision.                 *)
AckedIsAnswered ==
    \A m \in Messages :
        (queue[m] = "acked" /\ Kind[m] = "write") =>
            /\ told[m] # "none"
            /\ told[m] \in Outcomes =>
                 ledger[IdOf[m]] = <<[body |-> BodyOf[m], outcome |-> told[m]]>>

(* Receipts implement the promise made to the clients.                     *)
Promise == INSTANCE WriteLedger
KeepsPromise == Promise!Spec

(* No lane is stuck for ever, in a wait for locks or otherwise: it always  *)
(* comes back to pull the next messages.                                   *)
LanesComeBack ==
    \A l \in Lanes : phase[l] # "idle" ~> (phase[l] = "idle" /\ todo[l] = {})
=============================================================================
