--------------------------- MODULE CdcStreamProofs ---------------------------
(***************************************************************************)
(* Proofs about CdcPipeline when the bridge also answers keepalives and    *)
(* when publishes fail half-way.  For every history of transactions and    *)
(* every value of the bounds:                                              *)
(*                                                                         *)
(*  - AcksAreHeld: in the life of one process PostgreSQL never forgets a   *)
(*    transaction with a row that is not settled (stored in NATS, or owed to *)
(*    nobody: Settled) and not in the process's memory either;             *)
(*  - ConfirmedIsStored: what the flush thread reports as confirmed covers *)
(*    settled rows only, whatever the WAL loop acknowledges besides;       *)
(*  - PartialStoresKeepLanes: whatever batch doPublish gives up on, KV     *)
(*    events among its rows included, of each lane it worked through a     *)
(*    prefix;                                                              *)
(*  - LanesStayWhole: the stream never holds a row of a lane without every *)
(*    earlier row of that lane that a client is owed.                      *)
(*                                                                         *)
(* A position the walsender reports lies behind everything it has sent,    *)
(* except the transaction it is sending; and what it has sent of others    *)
(* has left the open transaction's slots for the publisher's queue, which  *)
(* survives a reconnect.  The stream is fed batches that are prefixes of   *)
(* that queue, which holds a row only behind every earlier one that is not *)
(* done with (Fifo, Done, of CdcPipelineProofs); and what meets no stream  *)
(* in a batch is of lanes that no row of the batch is stored for.          *)
(***************************************************************************)
EXTENDS CdcPipelineProofs, FiniteSetTheorems, WellFoundedInduction

(* What outlives a broken stream.                                          *)
Kept == Done \cup Ids(batch \o pending)

(* The open transaction's slots hold rows of that transaction only.        *)
OpenIsCurrent == WalRuns => \A k \in DOMAIN txbuf : txbuf[k].id[1] = cur.t

(* Every position the bridge may acknowledge, now or later.                *)
HeldInv ==
    /\ OpenIsCurrent
    /\ SafeLsn(confirmed, Known)
    /\ wpc # "exited" => Held(slot) /\ Held(lastAck) /\ Held(latestEnd) /\ Held(confirmed)

(* The inductive invariant of one process's life.                          *)
LifeInv == TypeInv /\ FeedInv /\ HeldInv

-----------------------------------------------------------------------------
(* The identities in a sequence of events.                                 *)

LEMMA IdsConcat ==
    ASSUME NEW a \in Seq(EventSet), NEW b \in Seq(EventSet)
    PROVE  Ids(a \o b) = Ids(a) \cup Ids(b)
<1> DEFINE s == a \o b
           n == Len(a)
<1>1. /\ DOMAIN a = 1..n /\ n \in Nat /\ Len(b) \in Nat /\ DOMAIN b = 1..Len(b)
      /\ DOMAIN s = 1..(n + Len(b))
      /\ \A p \in 1..n : s[p] = a[p]
      /\ \A p \in 1..Len(b) : s[n + p] = b[p]
  BY Concat, LenProperties
<1> HIDE DEF s, n
<1>2. ASSUME NEW p \in DOMAIN a PROVE a[p].id \in Ids(s)
  <2>1. p \in DOMAIN s /\ s[p] = a[p]
    BY <1>1
  <2> QED BY <2>1 DEF Ids
<1>3. ASSUME NEW p \in DOMAIN b PROVE b[p].id \in Ids(s)
  <2>1. n + p \in DOMAIN s /\ s[n + p] = b[p]
    BY <1>1
  <2> QED BY <2>1 DEF Ids
<1>4. ASSUME NEW p \in DOMAIN s PROVE s[p].id \in Ids(a) \cup Ids(b)
  <2>1. CASE p \in 1..n
    BY <1>1, <2>1 DEF Ids
  <2>2. CASE p \notin 1..n
    <3>1. p - n \in 1..Len(b) /\ n + (p - n) = p
      BY <1>1, <2>2
    <3>2. p - n \in DOMAIN b /\ s[p] = b[p - n]
      BY <1>1, <3>1
    <3> QED BY <3>2 DEF Ids
  <2> QED BY <2>1, <2>2
<1>5. Ids(s) = Ids(a) \cup Ids(b)
  BY <1>2, <1>3, <1>4 DEF Ids
<1> QED BY <1>5 DEF s

LEMMA RingIds ==
    ASSUME TypeOK
    PROVE  /\ Ids(batch \o pending) = Ids(batch) \cup Ids(pending)
           /\ Ids(Ring) = Ids(batch \o pending) \cup Ids(txbuf)
<1>1. /\ batch \in Seq(EventSet) /\ pending \in Seq(EventSet) /\ txbuf \in Seq(EventSet)
      /\ batch \o pending \in Seq(EventSet)
  BY RingType DEF TypeOK
<1> QED BY <1>1, IdsConcat DEF Ring

-----------------------------------------------------------------------------
(* The process loses nothing while it lives.                               *)

LEMMA KeptGrows ==
    ASSUME TypeInv, TypeOK', FeedInv, [Next]_vars, wpc' # "exited", ~Boot
    PROVE  Kept \subseteq Kept'
<1> USE DEF vars, pgVars, walVars, sharedVars, flushVars, natsVars, boundVars
<1>a. /\ batch \in Seq(EventSet) /\ pending \in Seq(EventSet) /\ txbuf \in Seq(EventSet)
      /\ batch' \in Seq(EventSet) /\ pending' \in Seq(EventSet)
      /\ TypeOK
  BY DEF TypeInv, TypeOK
<1>b. /\ Kept = Done \cup Ids(batch) \cup Ids(pending)
      /\ Kept' = Done' \cup Ids(batch') \cup Ids(pending')
  BY <1>a, IdsConcat DEF Kept
<1>c. Done \subseteq Done'
  BY DoneStep
<1>1. CASE UNCHANGED <<batch, pending>>
  BY <1>1, <1>c DEF Kept
<1>2. CASE ReleaseSlot
  <2> DEFINE h == Head(txbuf)
  <2>1. h \in EventSet /\ pending' = Append(pending, h) /\ UNCHANGED batch
    BY <1>2, <1>a, HeadTailProperties DEF ReleaseSlot
  <2>2. pending' = pending \o <<h>> /\ <<h>> \in Seq(EventSet)
    BY <1>a, <2>1, AppendIsConcat
  <2>3. Ids(pending') = Ids(pending) \cup Ids(<<h>>)
    BY <1>a, <2>2, IdsConcat
  <2> QED BY <1>b, <1>c, <2>1, <2>3
<1>3. CASE FlushPop
  <2>1. batch' \o pending' = batch \o pending
    <3>1. pending # <<>> /\ batch' = Append(batch, Head(pending)) /\ pending' = Tail(pending)
      BY <1>3 DEF FlushPop
    <3>2. Append(batch, Head(pending)) \o Tail(pending) = batch \o pending
      BY <1>a, <3>1, MoveHead
    <3> QED BY <3>1, <3>2
  <2> QED BY <1>c, <2>1 DEF Kept
<1>4. CASE FlushAppendFails
  <2> DEFINE h == Head(pending)
  <2>1. h \in EventSet /\ Tail(pending) \in Seq(EventSet) /\ pending = <<h>> \o Tail(pending)
    BY <1>a, <1>4, HeadAndTail DEF FlushAppendFails
  <2>2. <<h>> \in Seq(EventSet) /\ UNCHANGED batch /\ pending' = Tail(pending)
    <3>1. <<h>> \in Seq(EventSet)
      BY <2>1
    <3>2. UNCHANGED batch /\ pending' = Tail(pending)
      BY <1>4 DEF FlushAppendFails
    <3> QED BY <3>1, <3>2
  <2>3. Ids(pending) = Ids(<<h>>) \cup Ids(pending')
    BY <2>1, <2>2, IdsConcat
  <2>4. Ids(<<h>>) \subseteq Done'
    <3>1. 1 \in DOMAIN pending /\ h = pending[1]
      BY <1>a, <1>4, EmptySeq, LenProperties DEF FlushAppendFails
    <3> QED BY <1>4, <3>1, DroppedIsDone DEF FlushAppendFails
  <2> QED BY <1>b, <1>c, <2>2, <2>3, <2>4
<1>5. CASE ConfirmBatch
  <2>1. Ids(batch) \subseteq Done /\ UNCHANGED pending
    BY <1>5 DEF ConfirmBatch, FeedInv, StoredInv
  <2> QED BY <1>b, <1>c, <2>1
<1>6. CASE FlushStop
  <2>1. batch' \o pending' = batch \o pending
    BY <1>6, <1>a, Concat, ConcatEmptySeq DEF FlushStop
  <2> QED BY <1>c, <2>1 DEF Kept
<1>d. CASE FlushStopAppendFails
  <2>1. PICK n \in DOMAIN pending :
          /\ batch' = batch \o SubSeq(pending, 1, n - 1)
          /\ dropped' = dropped \cup {pending[n].id}
          /\ pending' = SubSeq(pending, n + 1, Len(pending))
    BY <1>d DEF FlushStopAppendFails
  <2> DEFINE u == SubSeq(pending, 1, n - 1)
             x == <<pending[n]>>
             t == SubSeq(pending, n + 1, Len(pending))
  <2>2. /\ u \in Seq(EventSet) /\ x \in Seq(EventSet) /\ t \in Seq(EventSet)
        /\ pending = u \o (x \o t)
    BY <1>a, SplitAt
  <2>3. Ids(x) \subseteq Done'
    BY <1>d, <2>1, DroppedIsDone DEF FlushStopAppendFails, LastFlush
  <2>4. batch' = batch \o u /\ pending' = t
    BY <2>1
  <2> HIDE DEF u, x, t
  <2>5. x \o t \in Seq(EventSet) /\ Ids(x \o t) = Ids(x) \cup Ids(t)
    BY <2>2, Concat, IdsConcat
  <2>6. Ids(pending) = Ids(u) \cup Ids(x \o t) /\ Ids(batch') = Ids(batch) \cup Ids(u)
    BY <1>a, <2>2, <2>4, <2>5, IdsConcat
  <2> QED BY <1>b, <1>c, <2>3, <2>4, <2>5, <2>6
<1>7. CASE Postgres
  BY <1>1, <1>7 DEF Postgres, PgCommit, StreamLost, PgFastShutdown, WalsenderDone, PgRestart
<1>8. CASE WalLoop
  <2>1. ~AcquireTimeout /\ ~FinalAck
    BY DEF AcquireTimeout, FinalAck, ProcessEnds, ProcessMemory
  <2> QED BY <1>1, <1>2, <1>8, <2>1
          DEF WalLoop, ReceiveBegin, ReceiveRow, AcquireSlot, ReceiveCommit, ReleaseDone,
              AckConfirmed, Heartbeat, Keepalive, ReceiveKeepalive, MonitorSeesShutdown, StepAside,
              Reconnect, SlotHeldByAnother, FatalStop, SignalStop
<1>9. CASE FlushThread
  BY <1>1, <1>3, <1>4, <1>5, <1>6, <1>d, <1>9
     DEF FlushThread, FlushPopEnd, AnnounceBatch, FlushBegin, FlushLater,
         PublishOk, PublishFail, PublishRefused
<1>10. CASE NatsDown \/ NatsRecovers \/ UNCHANGED vars
  BY <1>1, <1>10 DEF NatsDown, NatsRecovers
<1>11. ~Crash
  BY DEF Crash, ProcessEnds, ProcessMemory
<1> QED BY <1>7, <1>8, <1>9, <1>10, <1>11 DEF Next

(* Only a row of the current transaction ever joins the open transaction,  *)
(* and the position moves past it only when the slots are empty.           *)
LEMMA OpenStep ==
    ASSUME TypeInv, OpenIsCurrent, [Next]_vars
    PROVE  OpenIsCurrent'
<1> USE DEF vars, pgVars, walVars, sharedVars, flushVars, natsVars, boundVars
<1>a. txbuf \in Seq(EventSet) /\ cur \in [t : 1..(NTxn + 1), i : Nat]
  BY DEF TypeInv, TypeOK
<1>1. CASE txbuf' = <<>>
  BY <1>1 DEF OpenIsCurrent
<1>2. CASE UNCHANGED <<txbuf, cur>> /\ (WalRuns' => WalRuns)
  BY <1>2 DEF OpenIsCurrent
<1>3. CASE AcquireSlot
  <2> DEFINE e == Event(cur.t, cur.i)
  <2>1. e.id[1] = cur.t
    BY DEF Event
  <2>2. e \in EventSet
    <3>1. cur.t <= committed /\ cur.i \in DOMAIN Rows[cur.t]
      BY <1>3 DEF AcquireSlot, TypeInv, CursorOK
    <3>2. cur.t \in Txn
      BY <1>a, <3>1, ConstantsAssumption DEF Txn, TypeInv, TypeOK
    <3> QED BY <3>1, <3>2, RowFacts
  <2> HIDE DEF e
  <2>3. txbuf' = Append(txbuf, e) /\ cur'.t = cur.t /\ WalRuns
    BY <1>3, <1>a DEF AcquireSlot, WalRuns, e
  <2>4. ASSUME NEW k \in DOMAIN txbuf' PROVE txbuf'[k].id[1] = cur.t
    <3>1. CASE k \in DOMAIN txbuf
      <4>1. txbuf'[k] = txbuf[k]
        BY <1>a, <2>2, <2>3, <3>1, AppendProperties, LenProperties
      <4> QED BY <2>3, <3>1, <4>1 DEF OpenIsCurrent
    <3>2. CASE k \notin DOMAIN txbuf
      <4>1. txbuf'[k] = e
        BY <1>a, <2>2, <2>3, <2>4, <3>2, AppendProperties, LenProperties
      <4> QED BY <2>1, <4>1
    <3> QED BY <3>1, <3>2
  <2> QED BY <2>3, <2>4 DEF OpenIsCurrent
<1>4. CASE ReleaseSlot
  <2>1. txbuf # <<>> /\ txbuf' = Tail(txbuf) /\ UNCHANGED cur /\ WalRuns
    BY <1>4 DEF ReleaseSlot, WalRuns
  <2>2. ASSUME NEW k \in DOMAIN txbuf' PROVE k + 1 \in DOMAIN txbuf /\ txbuf'[k] = txbuf[k + 1]
    BY <1>a, <2>1, HeadTailProperties, LenProperties
  <2> QED BY <2>1, <2>2 DEF OpenIsCurrent
<1>5. CASE Postgres
  BY <1>2, <1>5 DEF Postgres, PgCommit, StreamLost, PgFastShutdown, WalsenderDone, PgRestart, WalRuns
<1>6. CASE WalLoop
  <2>1. CASE ReceiveBegin \/ ReleaseDone \/ Reconnect \/ SlotHeldByAnother \/ AcquireTimeout \/ FinalAck
    BY <1>1, <2>1 DEF ReceiveBegin, ReleaseDone, Reconnect, SlotHeldByAnother, AcquireTimeout,
                      FinalAck, ProcessEnds, ProcessMemory
  <2>2. CASE \/ ReceiveRow \/ ReceiveCommit \/ AckConfirmed \/ Heartbeat \/ Keepalive
             \/ MonitorSeesShutdown \/ StepAside \/ FatalStop \/ SignalStop
    BY <1>2, <2>2 DEF ReceiveRow, ReceiveCommit, AckConfirmed, Heartbeat, Keepalive,
                      ReceiveKeepalive, MonitorSeesShutdown, StepAside, FatalStop, SignalStop,
                      InLoop, WalRuns
  <2> QED BY <1>3, <1>4, <1>6, <2>1, <2>2 DEF WalLoop
<1>7. CASE FlushThread
  BY <1>2, <1>7 DEF FlushThread, FlushPop, FlushAppendFails, FlushPopEnd, AnnounceBatch,
                    FlushBegin, FlushLater, PublishOk, PublishFail, PublishRefused, ConfirmBatch,
                    FlushStop, FlushStopAppendFails, LastFlush, WalRuns
<1>8. CASE NatsDown \/ NatsRecovers \/ UNCHANGED vars
  BY <1>2, <1>8 DEF NatsDown, NatsRecovers, WalRuns
<1>9. CASE Crash \/ Boot
  BY <1>1, <1>9 DEF Crash, Boot, ProcessEnds, ProcessMemory
<1> QED BY <1>5, <1>6, <1>7, <1>8, <1>9 DEF Next

(* What the walsender reports as sent has reached the queue or NATS.       *)
LEMMA ReportedIsHeld ==
    ASSUME TypeInv, FeedInv, OpenIsCurrent, InLoop, NEW p \in SentPositions
    PROVE  p \in Nat /\ Held(p)
<1>a. /\ committed \in 0..NTxn /\ slot \in Nat /\ cur.t \in 1..(NTxn + 1) /\ cur.i \in Nat
      /\ txbuf \in Seq(EventSet) /\ TypeOK
  BY DEF TypeInv, TypeOK
<1>b. HeadLsn \in Nat
  BY <1>a, HeadLsnType
<1>1. /\ p \in slot..HeadLsn
      /\ \A t \in 1..committed : t >= cur.t => p <= CommitLsn[t]
  BY DEF SentPositions
<1>2. p \in Nat
  BY <1>a, <1>b, <1>1
<1> SUFFICES ASSUME NEW t \in Txn, CommitLsn[t] < p, NEW i \in DOMAIN Rows[t]
             PROVE  <<t, i>> \in Done \cup Ids(batch \o pending)
  BY <1>2 DEF Held, SafeLsn, RowsOf
<1>3. t <= committed
  <2>1. CASE committed = 0
    BY <1>1, <1>a, <2>1, WalAssumption DEF HeadLsn
  <2>2. CASE committed # 0
    <3>1. committed \in Txn /\ p <= CommitLsn[committed] + 1
      BY <1>1, <1>a, <2>2, ConstantsAssumption DEF HeadLsn, Txn
    <3>2. CommitLsn[t] \in Nat /\ CommitLsn[committed] \in Nat
      BY <3>1, WalAssumption
    <3>3. CommitLsn[t] <= CommitLsn[committed]
      BY <1>2, <3>1, <3>2
    <3>4. ~(committed < t)
      BY <3>1, <3>2, <3>3, WalAssumption
    <3> QED BY <3>1, <3>4, ConstantsAssumption DEF Txn
  <2> QED BY <2>1, <2>2
<1>4. t < cur.t
  <2>1. t \in 1..committed /\ CommitLsn[t] \in Nat
    BY <1>3, <1>a, WalAssumption, ConstantsAssumption DEF Txn
  <2> QED BY <1>1, <1>2, <1>a, <2>1
<1>5. <<t, i>> \in Done \cup Ids(Ring)
  BY <1>4 DEF FeedInv, CursorInv, WalRuns, InLoop, Covers, Before
<1>6. <<t, i>> \notin Ids(txbuf)
  <2> SUFFICES ASSUME NEW k \in DOMAIN txbuf, txbuf[k].id = <<t, i>> PROVE FALSE
    BY DEF Ids
  <2>1. txbuf[k].id[1] = cur.t
    BY DEF OpenIsCurrent, WalRuns, InLoop
  <2> QED BY <1>a, <1>4, <2>1
<1> QED BY <1>a, <1>5, <1>6, RingIds

-----------------------------------------------------------------------------
(* The life of one process.                                                *)

LEMMA InitLifeInv ==
    ASSUME BootStamped = FALSE
    PROVE  Init => LifeInv
<1> SUFFICES ASSUME Init PROVE LifeInv
  OBVIOUS
<1>1. Held(0) /\ SafeLsn(0, Known)
  BY WalAssumption DEF Held, SafeLsn
<1>2. OpenIsCurrent
  BY DEF OpenIsCurrent, Init
<1> QED BY <1>1, <1>2, InitTypeInv, FeedInit DEF LifeInv, HeldInv, Init

(* Only a boot brings a process back.                                      *)
LEMMA SlotAfterHeld ==
    ASSUME NEW l, Held(slot), Held(l)
    PROVE  Held(SlotAfter(l))
BY DEF SlotAfter

LEMMA NextLifeInv ==
    ASSUME BootStamped = FALSE, Supervised = FALSE
    PROVE  LifeInv /\ [Next]_vars => LifeInv'
<1> SUFFICES ASSUME LifeInv, [Next]_vars PROVE LifeInv'
  OBVIOUS
<1> USE DEF LifeInv
<1>1. Resumable
  BY DEF Resumable, HeldInv
<1>2. TypeInv' /\ FeedInv' /\ OpenIsCurrent'
  BY <1>1, NextTypeInv, FeedStep, OpenStep DEF HeldInv
<1>c. SafeLsn(confirmed', Known')
  <2>1. /\ Known \subseteq Known' /\ SafeLsn(confirmed, Known')
        /\ \A P : SafeLsn(0, P)
    BY DoneStep, Grows, WalAssumption DEF HeldInv, SafeLsn
  <2>2. CASE ConfirmBatch
    <3>1. Done \subseteq Known'
      BY <2>1 DEF Done
    <3> QED BY <2>1, <2>2, <3>1, ConfirmBatchSafe, Grows
  <2>3. CASE ProcessEnds \/ Boot
    BY <2>1, <2>3 DEF ProcessEnds, Boot, ProcessMemory
  <2>4. CASE UNCHANGED confirmed
    BY <2>1, <2>4
  <2> QED BY <2>2, <2>3, <2>4, AckSteps
          DEF AckConfirmed, Heartbeat, Keepalive, ReceiveKeepalive, sharedVars
<1> SUFFICES ASSUME wpc' # "exited"
             PROVE  (Held(slot) /\ Held(lastAck) /\ Held(latestEnd) /\ Held(confirmed))'
  BY <1>2, <1>c DEF HeldInv
<1>3. ~Boot
  BY DEF Boot
<1>4. Kept \subseteq Kept'
  BY <1>2, <1>3, KeptGrows DEF TypeInv
<1>5. ASSUME NEW l, Held(l) PROVE SafeLsn(l, Kept')
  BY <1>4, <1>5, Grows DEF Held, Kept
<1>6. ~ProcessEnds /\ wpc # "exited"
  BY <1>3, DeadStaysDead DEF ProcessEnds, ProcessMemory
<1>7. /\ Held(slot) /\ Held(lastAck) /\ Held(latestEnd) /\ Held(confirmed)
      /\ lastAck \in Nat /\ latestEnd \in Nat /\ slot \in Nat
  BY <1>6 DEF HeldInv, TypeInv, TypeOK
<1>8. SUFFICES /\ SafeLsn(slot', Kept') /\ SafeLsn(lastAck', Kept')
               /\ SafeLsn(latestEnd', Kept') /\ SafeLsn(confirmed', Kept')
  BY DEF Held, Kept
<1>9. CASE AckConfirmed
  BY <1>5, <1>7, <1>9, SlotAfterHeld DEF AckConfirmed, sharedVars
<1>10. CASE Heartbeat
  BY <1>5, <1>7, <1>10, SlotAfterHeld DEF Heartbeat, FastAck, sharedVars
<1>11. CASE Keepalive
  <2>1. PICK kind \in Keepalives, p \in SentPositions : ReceiveKeepalive(kind, p)
    BY <1>11 DEF Keepalive
  <2>2. Held(p)
    BY <2>1, ReportedIsHeld DEF ReceiveKeepalive, HeldInv
  <2>3. Held(latestEnd')
    BY <1>7, <2>1, <2>2 DEF ReceiveKeepalive
  <2>4. Held(lastAck')
    BY <1>7, <2>1, <2>3 DEF ReceiveKeepalive, FastAck
  <2>5. Held(slot')
    BY <1>7, <2>1, <2>2, <2>4, SlotAfterHeld DEF ReceiveKeepalive, ReplyLsn
  <2> QED BY <1>5, <1>7, <2>1, <2>3, <2>4, <2>5 DEF ReceiveKeepalive, sharedVars
<1>12. CASE ConfirmBatch
  <2>1. confirmed' = confirmed \/ SafeLsn(confirmed', Done)
    BY <1>12, ConfirmBatchSafe
  <2>2. Done \subseteq Kept
    BY DEF Kept
  <2>3. SafeLsn(confirmed', Kept')
    BY <1>4, <1>5, <1>7, <2>1, <2>2, Grows
  <2> QED BY <1>5, <1>7, <1>12, <2>3 DEF ConfirmBatch, pgVars, walVars
<1>13. CASE UNCHANGED <<slot, lastAck, latestEnd, confirmed>>
  BY <1>5, <1>7, <1>13
<1> QED BY <1>3, <1>6, <1>9, <1>10, <1>11, <1>12, <1>13, AckSteps

(* The feed of a bridge that confirms only what it published, or of one     *)
(* process whatever it confirms.                                            *)
LEMMA FeedHolds ==
    ASSUME BootStamped = FALSE, Supervised = FALSE \/ Keepalives = {}
    PROVE  Spec => [](TypeInv /\ FeedInv /\ SafeLsn(confirmed, Known))
<1>1. CASE Supervised = FALSE
  <2>1. Init => LifeInv
    BY InitLifeInv
  <2>2. LifeInv /\ [Next]_vars => LifeInv'
    BY <1>1, NextLifeInv
  <2>3. LifeInv => TypeInv /\ FeedInv /\ SafeLsn(confirmed, Known)
    BY DEF LifeInv, HeldInv
  <2> QED BY <2>1, <2>2, <2>3, PTL DEF Spec
<1>2. CASE Keepalives = {}
  <2>1. Init => IInv
    BY InitIInv
  <2>2. IInv /\ [Next]_vars => IInv'
    BY <1>2, NextIInv
  <2>3. IInv => TypeInv /\ FeedInv /\ SafeLsn(confirmed, Known)
    BY DEF IInv, AckInv
  <2> QED BY <2>1, <2>2, <2>3, PTL DEF Spec
<1> QED BY <1>1, <1>2

(* What the flush thread hands the WAL loop to acknowledge                  *)
(* (updateConfirmedLsn) covers no transaction with a row that is neither in *)
(* the stream nor excused, for every history of rows and mappings: also in  *)
(* a process that acknowledges the walsender's positions besides, as long   *)
(* as no transaction was lost with a process before it.                     *)
THEOREM ConfirmedIsStored ==
    ASSUME BootStamped = FALSE, Supervised = FALSE \/ Keepalives = {}
    PROVE  Spec => []ConfirmedIsPublished
<1>1. SafeLsn(confirmed, Known) => ConfirmedIsPublished
  BY DEF SafeLsn, Known, ConfirmedIsPublished
<1> QED BY <1>1, FeedHolds, PTL

(* While one process lives, PostgreSQL never forgets a row that a client is *)
(* owed and that is neither in NATS nor in the process's memory, whatever   *)
(* keepalives are answered with: the walsender's position is acknowledged with rows    *)
(* still queued or in flight (MayFastAck is read while the flush thread     *)
(* moves a batch, and a requested reply does not ask at all), but never     *)
(* past the transaction being received.  That a crash then loses what only  *)
(* that memory held is what the run CdcReply shows.                         *)
THEOREM AcksAreHeld ==
    ASSUME BootStamped = FALSE, Supervised = FALSE
    PROVE  Spec => []AckedIsHeld
<1>1. LifeInv => AckedIsHeld
  <2> SUFFICES ASSUME LifeInv, wpc # "exited", NEW t \in Txn, CommitLsn[t] < slot
               PROVE  RowsOf(t) \subseteq Settled \cup Ids(Ring)
    BY DEF AckedIsHeld, Acked
  <2>1. RowsOf(t) \subseteq Done \cup Ids(batch \o pending)
    BY DEF LifeInv, HeldInv, Held, SafeLsn
  <2>2. Done \subseteq Settled
    BY DEF Done, Known
  <2> QED BY <2>1, <2>2, RingIds DEF LifeInv, TypeInv
<1>2. Init => LifeInv
  BY InitLifeInv
<1>3. LifeInv /\ [Next]_vars => LifeInv'
  BY NextLifeInv
<1> QED BY <1>1, <1>2, <1>3, PTL DEF Spec

-----------------------------------------------------------------------------
(* What a failed publish leaves in the stream.                             *)

(* The events of a lane within one batch: stage, lane and verb of each.    *)
LEMMA StageMonotone ==
    ASSUME NEW b, NEW i \in Nat, NEW j \in Nat, j <= i
    PROVE  Stage(b, j) \in Nat /\ Stage(b, i) \in Nat /\ Stage(b, j) <= Stage(b, i)
<1> DEFINE Opened(n) == {k \in 1..n : Opens(b, k)}
<1>1. IsFiniteSet(1..i) /\ Opened(i) \subseteq 1..i
  BY FS_Interval
<1>2. IsFiniteSet(Opened(i))
  BY <1>1, FS_Subset
<1>3. Opened(j) \subseteq Opened(i)
  OBVIOUS
<1>4. IsFiniteSet(Opened(j)) /\ Cardinality(Opened(j)) <= Cardinality(Opened(i))
  BY <1>2, <1>3, FS_Subset
<1>5. Cardinality(Opened(i)) \in Nat /\ Cardinality(Opened(j)) \in Nat
  BY <1>2, <1>4, FS_CardinalityType
<1> QED BY <1>4, <1>5 DEF Stage

LEMMA SameLaneEquivalence ==
    ASSUME NEW b, NEW i, NEW j, NEW k
    PROVE  /\ SameLane(b, i, i)
           /\ SameLane(b, i, j) => SameLane(b, j, i)
           /\ SameLane(b, i, j) /\ SameLane(b, j, k) => SameLane(b, i, k)
BY DEF SameLane

(* A set of numbers that is not empty has a first one.                     *)
LEMMA First ==
    ASSUME NEW S \in SUBSET Nat, S # {}
    PROVE  \E m \in S : \A h \in S : m <= h
<1> DEFINE R == OpToRel(<, Nat)
<1>1. \A x, y \in Nat : x < y => <<x, y>> \in R
  BY DEF OpToRel
<1>2. PICK m \in S : \A h \in S : ~ (<<h, m>> \in R)
  <2>1. IsWellFoundedOn(R, Nat)
    BY NatLessThanWellFounded
  <2> HIDE DEF R
  <2> QED BY <2>1, WFMin
<1>3. \A h \in S : ~ (h < m) /\ h \in Nat /\ m \in Nat
  BY <1>1, <1>2
<1> QED BY <1>3

(* A group's head exists: it is the first event the group may start at.    *)
LEMMA GroupHeadIsFirst ==
    ASSUME NEW b, NEW i \in Nat \ {0}
    PROVE  /\ GroupHead(b, i) \in 1..i
           /\ InGroupFrom(b, GroupHead(b, i), i)
           /\ \A h \in 1..i : InGroupFrom(b, h, i) => GroupHead(b, i) <= h
<1> DEFINE Starts == {h \in 1..i : InGroupFrom(b, h, i)}
<1>1. i \in Starts
  <2>1. \A k \in i..i : k = i
    OBVIOUS
  <2>2. InGroupFrom(b, i, i)
    BY <2>1, SameLaneEquivalence DEF InGroupFrom
  <2> QED BY <2>2
<1>2. PICK m \in Starts : \A h \in Starts : m <= h
  <2>1. Starts \in SUBSET Nat /\ Starts # {}
    BY <1>1
  <2> HIDE DEF Starts
  <2> QED BY <2>1, First
<1>3. /\ m \in 1..i
      /\ InGroupFrom(b, m, i) /\ \A h \in 1..i : InGroupFrom(b, h, i) => m <= h
  BY <1>2
<1> QED BY <1>3 DEF GroupHead

(* Two groups of a lane follow each other: the one whose head comes first  *)
(* holds the earlier events.                                               *)
LEMMA GroupHeadsInOrder ==
    ASSUME NEW b, NEW i \in Nat \ {0}, NEW j \in Nat \ {0}, j < i, SameLane(b, i, j),
           GroupHead(b, i) # GroupHead(b, j)
    PROVE  GroupHead(b, j) < GroupHead(b, i)
<1> DEFINE g == GroupHead(b, j)
           h == GroupHead(b, i)
<1>1. /\ g \in 1..j /\ h \in 1..i
      /\ InGroupFrom(b, g, j) /\ InGroupFrom(b, h, i)
      /\ \A k \in 1..j : InGroupFrom(b, k, j) => g <= k
  BY GroupHeadIsFirst
<1> HIDE DEF g, h
<1> SUFFICES ASSUME h < g PROVE FALSE
  BY <1>1 DEF g, h
<1>2. h \in 1..j /\ j \in h..i
  BY <1>1
<1>3. b[j].verb = b[i].verb
  BY <1>1, <1>2 DEF InGroupFrom
<1>4. SameLane(b, j, h)
  BY <1>1, SameLaneEquivalence DEF InGroupFrom
<1>5. ASSUME NEW k \in h..j, SameLane(b, j, k) PROVE b[k].verb = b[j].verb
  <2>1. k \in h..i
    BY <1>1
  <2>2. SameLane(b, i, k)
    BY <1>5, SameLaneEquivalence
  <2> QED BY <1>1, <1>3, <2>1, <2>2 DEF InGroupFrom
<1>6. InGroupFrom(b, h, j)
  BY <1>2, <1>4, <1>5 DEF InGroupFrom
<1> QED BY <1>1, <1>2, <1>6

(* doPublish, when it returns an error at any stage, has worked through of  *)
(* each lane no event without the ones before it in the batch: neither the  *)
(* asynchronous window (a lane has one message in it, or the stage goes out *)
(* one by one), nor the stages around KV events, nor a lost PubAck leaves a *)
(* hole.                                                                    *)
THEOREM PartialStoresKeepLanes ==
    ASSUME NEW S, NEW b \in Seq(S), NEW s \in Nat, NEW I \in PartialStores(b, s),
           NEW i \in I, NEW j \in DOMAIN b, j < i, b[j].lane = b[i].lane
    PROVE  j \in I
<1>1. /\ DOMAIN b = 1..Len(b) /\ Len(b) \in Nat /\ I \subseteq DOMAIN b
  BY LenProperties DEF PartialStores
<1>2. i \in Nat \ {0} /\ j \in Nat \ {0} /\ i \in DOMAIN b
  BY <1>1
<1>3. /\ \A k \in DOMAIN b :
            /\ Stage(b, k) < s => k \in I
            /\ Stage(b, k) > s => k \notin I
      /\ \A k, l \in DOMAIN b : GroupHead(b, k) = GroupHead(b, l) => (k \in I <=> l \in I)
      /\ OneByOne(b, s) =>
            \A k \in I, l \in DOMAIN b : GroupHead(b, l) < GroupHead(b, k) => l \in I
  BY DEF PartialStores
<1>4. Stage(b, j) \in Nat /\ Stage(b, i) \in Nat /\ Stage(b, j) <= Stage(b, i)
  BY <1>2, StageMonotone
<1>5. Stage(b, i) <= s
  BY <1>2, <1>3, <1>4
<1>6. CASE Stage(b, j) < s
  BY <1>3, <1>6
<1>7. CASE ~(Stage(b, j) < s)
  <2>1. Stage(b, i) = s /\ SameLane(b, i, j)
    BY <1>4, <1>5, <1>7 DEF SameLane
  <2>2. CASE GroupHead(b, i) = GroupHead(b, j)
    BY <1>2, <1>3, <2>2
  <2>3. CASE GroupHead(b, i) # GroupHead(b, j)
    <3>1. OneByOne(b, s)
      BY <1>2, <2>1, <2>3 DEF OneByOne, LaneRepeat
    <3>2. GroupHead(b, j) < GroupHead(b, i)
      BY <1>2, <2>1, <2>3, GroupHeadsInOrder
    <3> QED BY <1>3, <3>1, <3>2
  <2> QED BY <2>2, <2>3
<1> QED BY <1>6, <1>7

-----------------------------------------------------------------------------
(* The stream.                                                             *)

(* Only a publish stores anything.                                         *)
LEMMA StoreSteps ==
    ASSUME [Next]_vars
    PROVE  published' = published \/ PublishOk \/ PublishFail \/ PublishRefused
<1> USE DEF vars, pgVars, walVars, sharedVars, flushVars, natsVars, boundVars
<1>1. CASE Postgres
  BY <1>1 DEF Postgres, PgCommit, StreamLost, PgFastShutdown, WalsenderDone, PgRestart
<1>2. CASE WalLoop
  BY <1>2 DEF WalLoop, ReceiveBegin, ReceiveRow, AcquireSlot, AcquireTimeout, ReceiveCommit,
              ReleaseSlot, ReleaseDone, AckConfirmed, Heartbeat, Keepalive, ReceiveKeepalive,
              MonitorSeesShutdown, StepAside, Reconnect, SlotHeldByAnother, FatalStop,
              SignalStop, FinalAck
<1>3. CASE FlushThread
  BY <1>3 DEF FlushThread, FlushPop, FlushAppendFails, FlushPopEnd, AnnounceBatch, FlushBegin,
              FlushLater, ConfirmBatch, FlushStop, FlushStopAppendFails, LastFlush
<1>4. CASE NatsDown \/ NatsRecovers \/ Crash \/ Boot \/ UNCHANGED vars
  BY <1>4 DEF NatsDown, NatsRecovers, Crash, Boot
<1> QED BY <1>1, <1>2, <1>3, <1>4 DEF Next

(* What a publish may add to the stream without making a hole: of each     *)
(* lane of the batch, what has a stream of a prefix.                       *)
LEMMA PrefixKeepsLanes ==
    ASSUME TypeInv, FeedInv, LaneHasNoHole, [Next]_vars,
           NEW I \in SUBSET (DOMAIN batch),
           \A k \in I, q \in DOMAIN batch : q < k /\ batch[q].lane = batch[k].lane => q \in I,
           published' = published \cup StoredOf(I)
    PROVE  LaneHasNoHole'
<1>0. Settled \subseteq Settled' /\ published' \subseteq Settled'
  BY DoneStep DEF Settled
<1> SUFFICES ASSUME NEW t \in Txn, NEW u \in Txn, NEW i \in DOMAIN Rows[t], NEW j \in DOMAIN Rows[u],
                    Before(<<t, i>>, <<u, j>>), Rows[t][i].lane = Rows[u][j].lane,
                    <<u, j>> \in published', <<t, i>> \notin Settled'
             PROVE  <<t, i>> \in StoredOf(I)
  BY <1>0 DEF LaneHasNoHole
<1>1. <<u, j>> \notin published /\ <<t, i>> \notin Done
  BY <1>0 DEF LaneHasNoHole, Done, Known
<1>2. PICK k \in I : ~Streamless(k) /\ batch[k].id = <<u, j>>
  BY <1>1 DEF StoredOf
<1>3. PICK q \in DOMAIN batch : q < k /\ batch[q].id = <<t, i>>
  BY <1>1, <1>2, BatchInOrder DEF Fifo
<1>4. ASSUME NEW p \in DOMAIN batch, NEW v \in Txn, NEW n \in DOMAIN Rows[v], batch[p].id = <<v, n>>
      PROVE  /\ batch[p].lane = Rows[v][n].lane
             /\ Tenant(batch[p]) = Tenant(Rows[v][n])
  <2>0. ~IsBoot(batch[p])
    BY <1>4 DEF IsBoot, Txn
  <2>1. PICK w \in Txn : \E m \in DOMAIN Rows[w] : batch[p] = Event(w, m)
    BY <2>0, BatchInOrder DEF Genuine
  <2>2. PICK m \in DOMAIN Rows[w] : batch[p] = Event(w, m)
    BY <2>1
  <2>3. w = v /\ m = n
    BY <1>4, <2>2 DEF Event
  <2>4. batch[p].lane = Rows[v][n].lane
    BY <2>2, <2>3 DEF Event
  <2>5. Tenant(batch[p]) = Tenant(Rows[v][n])
    BY <2>2, <2>3, RowShape
  <2> QED BY <2>4, <2>5
<1>5. /\ batch[q].lane = Rows[t][i].lane /\ batch[k].lane = Rows[u][j].lane
      /\ Tenant(batch[q]) = Tenant(Rows[t][i]) /\ Tenant(batch[k]) = Tenant(Rows[u][j])
  BY <1>2, <1>3, <1>4
<1>6. Tenant(Rows[t][i]) = Tenant(Rows[u][j])
  <2>1. IsKv(Rows[t][i]) <=> IsKv(Rows[u][j])
    BY RowShape
  <2> QED BY <2>1 DEF Tenant
<1>7. q \in I /\ ~Streamless(q)
  BY <1>2, <1>3, <1>5, <1>6 DEF Streamless
<1> QED BY <1>3, <1>7 DEF StoredOf

LEMMA LaneStep ==
    ASSUME TypeInv, FeedInv, LaneHasNoHole, [Next]_vars
    PROVE  LaneHasNoHole'
<1>1. CASE published' = published
  <2>1. Settled \subseteq Settled'
    BY DoneStep
  <2> QED BY <1>1, <2>1 DEF LaneHasNoHole
<1>2. CASE PublishOk
  <2>1. published' = published \cup StoredOf(DOMAIN batch)
    BY <1>2 DEF PublishOk
  <2> QED BY <2>1, PrefixKeepsLanes
<1>3. ASSUME NEW k \in DOMAIN batch, FailsAt(Stage(batch, k))
      PROVE  LaneHasNoHole'
  <2> DEFINE s == Stage(batch, k)
  <2>1. s \in Nat
    BY BatchInOrder, LenProperties, StageMonotone
  <2>2. PICK I \in PartialStores(batch, s) : published' = published \cup StoredOf(I)
    BY <1>3 DEF FailsAt
  <2>3. I \in SUBSET (DOMAIN batch)
    BY DEF PartialStores
  <2> HIDE DEF s
  <2>4. \A l \in I, q \in DOMAIN batch : q < l /\ batch[q].lane = batch[l].lane => q \in I
    BY <2>1, BatchInOrder, PartialStoresKeepLanes
  <2> QED BY <2>2, <2>3, <2>4, PrefixKeepsLanes
<1>4. CASE PublishFail
  BY <1>1, <1>3, <1>4 DEF PublishFail, Stages
<1>5. CASE PublishRefused
  BY <1>3, <1>5 DEF PublishRefused
<1> QED BY <1>1, <1>2, <1>4, <1>5, StoreSteps

(* A client that reads a lane (a table, or a tenant's part of it) never     *)
(* reads past a row it is owed and the stream will only get later: for      *)
(* every history of rows and mappings, whatever publishes fail half-way,    *)
(* however often the WAL is replayed, and whenever the lane's stream is     *)
(* made.  What it may read past is what no member of its tenant was mapped  *)
(* early enough for, and what the flush thread had no memory for (Excused). *)
(* It takes that no position is acknowledged whose rows are lost with the   *)
(* process: with keepalives answered, in one process's life only.           *)
THEOREM LanesStayWhole ==
    ASSUME BootStamped = FALSE, Supervised = FALSE \/ Keepalives = {}
    PROVE  Spec => []LaneHasNoHole
<1>1. Init => LaneHasNoHole
  BY DEF Init, LaneHasNoHole
<1>2. TypeInv /\ FeedInv /\ LaneHasNoHole /\ [Next]_vars => LaneHasNoHole'
  BY LaneStep
<1>3. Spec => [](TypeInv /\ FeedInv /\ SafeLsn(confirmed, Known))
  BY FeedHolds
<1> QED BY <1>1, <1>2, <1>3, PTL DEF Spec
=============================================================================
