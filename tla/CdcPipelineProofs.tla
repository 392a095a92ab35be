------------------------- MODULE CdcPipelineProofs -------------------------
(***************************************************************************)
(* Proofs about CdcPipeline, for every history of transactions and every   *)
(* value of the bounds:                                                    *)
(*                                                                         *)
(*  - TypeCorrect: the specification is type-correct;                      *)
(*  - ConfirmedAcksLoseNothing: as long as the slot is moved only by       *)
(*    positions of published batches (no keepalive answered, no boot event  *)
(*    stamped with the WAL head), PostgreSQL never forgets a transaction    *)
(*    with a row that a client is owed and NATS does not have - although    *)
(*    row LSNs are not monotone in the stream, rows that no stream takes    *)
(*    are skipped, and whatever is lost, retried, replayed or crashes.      *)
(*                                                                         *)
(* The argument is the FIFO discipline of the ring: a row in it has every  *)
(* earlier row either done with or in front of it.  Done with is more than *)
(* stored or excused (Settled): a mapping counts only if this process will  *)
(* not skip a row for not knowing it.                                      *)
(***************************************************************************)
EXTENDS CdcPipeline, SequenceTheorems, TLAPS

(* The walsender's position names a message while the loop works on it.    *)
CursorOK ==
    /\ wpc = "acquire" \/ (wpc = "release" /\ after = "row") =>
          cur.t <= committed /\ cur.i \in DOMAIN Rows[cur.t]
    /\ wpc = "release" /\ after = "commit" =>
          cur.t <= committed /\ cur.i = Len(Rows[cur.t]) + 1

TypeInv == TypeOK /\ CursorOK

(* What a boot announces, when it does not stamp it with the WAL head.     *)
IsBoot(e) == e.id = <<0, 0>> /\ e.lsn = 0 /\ IsKv(e) /\ e.maps = {}

(* The events of s are rows of the first n transactions, or a boot's.      *)
Genuine(s, n) ==
    \A p \in DOMAIN s :
        \/ IsBoot(s[p])
        \/ \E t \in Txn : t <= n /\ \E i \in DOMAIN Rows[t] : s[p] = Event(t, i)

(* In front of a row of s, or in P, is every earlier row.                  *)
Fifo(s, P) ==
    \A p \in DOMAIN s : \A t \in Txn : \A i \in DOMAIN Rows[t] :
        Before(<<t, i>>, s[p].id) =>
            <<t, i>> \in P \/ \E q \in DOMAIN s : q < p /\ s[q].id = <<t, i>>

(* In s, or in P, is every row before position c of the walsender.         *)
Covers(c, s, P) ==
    \A t \in Txn : \A i \in DOMAIN Rows[t] :
        Before(<<t, i>>, <<c.t, c.i>>) => <<t, i>> \in P \cup Ids(s)

(* l may be acknowledged.                                                  *)
SafeLsn(l, P) == \A t \in Txn : CommitLsn[t] < l => RowsOf(t) \subseteq P

(* The committed rows that need no replay.                                 *)
Known == {r \in Settled : r[1] <= committed}

(* The mappings this process's flush thread would miss: it neither was told *)
(* of them nor finds their streams, nor did it drop them.                   *)
Untold ==
    {m \in AllRows \ dropped : ~ (Rows[m[1]][m[2]].maps \subseteq members \cup streams)}

(* The rows the feed is done with: a row behind them that meets no stream   *)
(* is skipped only if it is excused.                                        *)
Done == Known \ Untold

(* l may be acknowledged to a bridge that lives on: the ring's part that    *)
(* outlives a reconnect holds what the feed is not done with.               *)
Held(l) == SafeLsn(l, Done \cup Ids(batch \o pending))

WalRuns == wpc \in {"recv", "acquire", "release"}

(* The feed: the ring holds rows, each behind every earlier one that is not *)
(* done with, and everything the walsender has sent is in one or the other. *)
RingInv ==
    /\ Genuine(Ring, committed)
    /\ Fifo(Ring, Done)

CursorInv ==
    /\ WalRuns => Covers(cur, Ring, Done)
    /\ InLoop /\ cur.i = 0 => txbuf = <<>>

StoredInv == fpc = "confirm" => Ids(batch) \subseteq Done

FeedInv == RingInv /\ CursorInv /\ StoredInv

(* The slot is where the feed may be taken up again.                        *)
Resumable ==
    /\ wpc # "exited" => Held(slot)
    /\ wpc = "exited" /\ Supervised => SafeLsn(slot, Known)

(* What is acknowledged, as long as no keepalive is answered.               *)
AckInv ==
    /\ SafeLsn(slot, Known) /\ SafeLsn(confirmed, Known)
    /\ wpc # "exited" =>
          /\ SafeLsn(slot, Done) /\ SafeLsn(lastAck, Done) /\ SafeLsn(confirmed, Done)
          /\ latestEnd = 0

(* The inductive invariant.                                                *)
IInv == TypeInv /\ FeedInv /\ AckInv

-----------------------------------------------------------------------------
(* Sequences of events.                                                    *)

(* Concatenation, by length and by position.                               *)
LEMMA Concat ==
    ASSUME NEW S, NEW a \in Seq(S), NEW b \in Seq(S)
    PROVE  /\ a \o b \in Seq(S)
           /\ Len(a \o b) = Len(a) + Len(b)
           /\ \A p \in 1..Len(a) : (a \o b)[p] = a[p]
           /\ \A p \in 1..Len(b) : (a \o b)[Len(a) + p] = b[p]
<1>1. /\ a \o b \in Seq(S)
      /\ Len(a \o b) = Len(a) + Len(b)
      /\ \A i \in 1..(Len(a) + Len(b)) :
            (a \o b)[i] = IF i <= Len(a) THEN a[i] ELSE b[i - Len(a)]
  BY ConcatProperties
<1>2. Len(a) \in Nat /\ Len(b) \in Nat
  BY LenProperties
<1>3. ASSUME NEW p \in 1..Len(a) PROVE (a \o b)[p] = a[p]
  BY <1>1, <1>2, p \in 1..(Len(a) + Len(b))
<1>4. ASSUME NEW p \in 1..Len(b) PROVE (a \o b)[Len(a) + p] = b[p]
  <2>1. Len(a) + p \in 1..(Len(a) + Len(b)) /\ ~(Len(a) + p <= Len(a)) /\ (Len(a) + p) - Len(a) = p
    BY <1>2
  <2> QED BY <2>1, <1>1
<1> QED BY <1>1, <1>3, <1>4

(* A sequence is its head and its tail.                                    *)
LEMMA HeadAndTail ==
    ASSUME NEW S, NEW b \in Seq(S), b # <<>>
    PROVE  /\ Head(b) \in S /\ Tail(b) \in Seq(S)
           /\ b = <<Head(b)>> \o Tail(b)
<1>1. Head(b) \in S /\ Tail(b) \in Seq(S)
  BY HeadTailProperties
<1>2. Len(b) \in Nat \ {0} /\ 1 \in 1..Len(b) /\ Len(b) \in 1..Len(b)
  BY EmptySeq
<1>3. SubSeq(b, 1, Len(b)) = <<b[1]>> \o SubSeq(b, 1 + 1, Len(b))
  BY <1>2, SubSeqRecursiveFirst
<1>4. Tail(b) = SubSeq(b, 2, Len(b)) /\ SubSeq(b, 1, Len(b)) = b
  BY TailIsSubSeq, SubSeqFull
<1> QED BY <1>1, <1>3, <1>4

(* An element that moves from the front of b to the end of a moves nothing. *)
LEMMA MoveHead ==
    ASSUME NEW S, NEW a \in Seq(S), NEW b \in Seq(S), b # <<>>
    PROVE  /\ Append(a, Head(b)) \in Seq(S)
           /\ Tail(b) \in Seq(S)
           /\ Append(a, Head(b)) \o Tail(b) = a \o b
<1>1. Head(b) \in S /\ Tail(b) \in Seq(S) /\ b = <<Head(b)>> \o Tail(b)
  BY HeadAndTail
<1>2. Append(a, Head(b)) = a \o <<Head(b)>>
  BY <1>1, AppendIsConcat
<1>3. <<Head(b)>> \in Seq(S)
  BY <1>1
<1>4. (a \o <<Head(b)>>) \o Tail(b) = a \o (<<Head(b)>> \o Tail(b))
  BY <1>1, <1>3, ConcatAssociative
<1> QED BY <1>1, <1>2, <1>4, AppendProperties

(* The rows of a transaction, and their events.                            *)
LEMMA RowFacts ==
    ASSUME NEW t \in Txn
    PROVE  /\ Len(Rows[t]) \in Nat
           /\ DOMAIN Rows[t] = 1..Len(Rows[t])
           /\ \A i \in DOMAIN Rows[t] : Event(t, i) \in EventSet
<1>1. Rows[t] \in Seq(RowSet)
  BY WalAssumption
<1>2. Len(Rows[t]) \in Nat /\ DOMAIN Rows[t] = 1..Len(Rows[t])
  BY <1>1, LenProperties
<1>3. ASSUME NEW i \in DOMAIN Rows[t] PROVE Event(t, i) \in EventSet
  <2>1. Rows[t][i] \in RowSet
    BY <1>1, <1>2, ElementOfSeq
  <2>2. <<t, i>> \in RowId
    BY <1>2, ConstantsAssumption DEF RowId, Txn
  <2> QED BY <2>1, <2>2 DEF Event, EventSet, RowSet
<1> QED BY <1>2, <1>3

(* A row that maps somebody is a KV event, on no lane of the streams; and   *)
(* an event has the tenant of its row.                                      *)
LEMMA RowShape ==
    ASSUME NEW t \in Txn, NEW i \in DOMAIN Rows[t]
    PROVE  /\ <<t, i>> \in AllRows
           /\ Rows[t][i].maps \subseteq Tenants
           /\ IsKv(Rows[t][i]) <=> Rows[t][i].lane \notin Lanes
           /\ ~IsKv(Rows[t][i]) => Rows[t][i].maps = {}
           /\ IsKv(Event(t, i)) <=> IsKv(Rows[t][i])
           /\ Tenant(Event(t, i)) = Tenant(Rows[t][i])
<1>1. Rows[t] \in Seq(RowSet) /\ i \in 1..Len(Rows[t])
  BY WalAssumption, RowFacts
<1>2. Rows[t][i] \in RowSet
  BY <1>1, ElementOfSeq
<1>3. <<t, i>> \in AllRows
  BY DEF AllRows, RowsOf
<1>4. "tenants" \notin Lanes
  BY ConstantsAssumption
<1>5. /\ Rows[t][i].maps \subseteq Tenants
      /\ IsKv(Rows[t][i]) <=> Rows[t][i].lane \notin Lanes
      /\ ~IsKv(Rows[t][i]) => Rows[t][i].maps = {}
  BY <1>2, <1>4 DEF RowSet, RowVerbs, IsKv
<1> QED BY <1>3, <1>5 DEF Event, IsKv, Tenant

(* The rows of a history, by transaction and index.                        *)
LEMMA AllRowsAre ==
    ASSUME NEW m \in AllRows
    PROVE  \E t \in Txn : \E i \in DOMAIN Rows[t] : m = <<t, i>>
BY DEF AllRows, RowsOf

LEMMA EventTypes ==
    ASSUME NEW s \in Seq(EventSet), NEW k \in DOMAIN s
    PROVE  s[k] \in EventSet /\ s[k].id \in RowId /\ s[k].lsn \in Nat /\ s[k].maps \subseteq Tenants
<1>1. k \in 1..Len(s)
  BY LenProperties
<1>2. s[k] \in EventSet
  BY <1>1, ElementOfSeq
<1> QED BY <1>2 DEF EventSet

(* A sequence without one of its elements.                                 *)
LEMMA SplitAt ==
    ASSUME NEW S, NEW s \in Seq(S), NEW n \in DOMAIN s
    PROVE  /\ SubSeq(s, 1, n - 1) \in Seq(S) /\ SubSeq(s, n + 1, Len(s)) \in Seq(S)
           /\ <<s[n]>> \in Seq(S)
           /\ s = SubSeq(s, 1, n - 1) \o (<<s[n]>> \o SubSeq(s, n + 1, Len(s)))
<1>1. Len(s) \in Nat /\ n \in 1..Len(s) /\ \A i \in 1..Len(s) : s[i] \in S
  BY LenProperties, ElementOfSeq
<1>2. /\ SubSeq(s, 1, n - 1) \in Seq(S)
      /\ Len(SubSeq(s, 1, n - 1)) = n - 1
      /\ \A i \in 1..(n - 1) : SubSeq(s, 1, n - 1)[i] = s[i]
  <2>1. n - 1 \in Int /\ 1 \in Int /\ \A i \in 1..(n - 1) : s[i] \in S
    BY <1>1
  <2>2. /\ SubSeq(s, 1, n - 1) \in Seq(S)
        /\ Len(SubSeq(s, 1, n - 1)) = IF 1 <= n - 1 THEN (n - 1) - 1 + 1 ELSE 0
        /\ \A i \in 1..((n - 1) - 1 + 1) : SubSeq(s, 1, n - 1)[i] = s[1 + i - 1]
    BY <2>1, SubSeqProperties
  <2> QED BY <1>1, <2>2
<1>3. /\ SubSeq(s, n + 1, Len(s)) \in Seq(S)
      /\ Len(SubSeq(s, n + 1, Len(s))) = Len(s) - n
      /\ \A i \in 1..(Len(s) - n) : SubSeq(s, n + 1, Len(s))[i] = s[n + i]
  <2>1. n + 1 \in Int /\ Len(s) \in Int /\ \A i \in (n + 1)..Len(s) : s[i] \in S
    BY <1>1
  <2> DEFINE m == n + 1
             l == Len(s)
             u == SubSeq(s, m, l)
  <2>2. /\ u \in Seq(S)
        /\ Len(u) = IF m <= l THEN l - m + 1 ELSE 0
        /\ \A i \in 1..(l - m + 1) : u[i] = s[m + i - 1]
    BY <2>1, SubSeqProperties
  <2> HIDE DEF u
  <2>3. Len(u) = Len(s) - n /\ \A i \in 1..(Len(s) - n) : u[i] = s[n + i]
    BY <1>1, <2>2
  <2> QED BY <2>2, <2>3 DEF u
<1>4. <<s[n]>> \in Seq(S) /\ Len(<<s[n]>>) = 1 /\ <<s[n]>>[1] = s[n]
  BY <1>1
<1> DEFINE a == SubSeq(s, 1, n - 1)
           x == <<s[n]>>
           b == SubSeq(s, n + 1, Len(s))
           xb == x \o b
           r == a \o xb
<1> HIDE DEF a, x, b
<1>5. /\ xb \in Seq(S) /\ Len(xb) = 1 + (Len(s) - n)
      /\ xb[1] = s[n]
      /\ \A p \in 1..(Len(s) - n) : xb[1 + p] = s[n + p]
  BY <1>1, <1>3, <1>4, Concat DEF x, b
<1> HIDE DEF xb
<1>6. /\ r \in Seq(S) /\ Len(r) = Len(s)
      /\ \A p \in 1..(n - 1) : r[p] = s[p]
      /\ \A p \in 1..Len(xb) : r[(n - 1) + p] = xb[p]
  <2>1. /\ a \in Seq(S) /\ Len(a) = n - 1
        /\ \A p \in 1..(n - 1) : a[p] = s[p]
    BY <1>2 DEF a
  <2>2. /\ r \in Seq(S) /\ Len(r) = Len(a) + Len(xb)
        /\ \A p \in 1..Len(a) : r[p] = a[p]
        /\ \A p \in 1..Len(xb) : r[Len(a) + p] = xb[p]
    <3>1. a \in Seq(S) /\ xb \in Seq(S)
      BY <1>5, <2>1
    <3> QED BY <3>1, Concat
  <2> HIDE DEF r
  <2>3. Len(r) = Len(s)
    BY <1>1, <1>5, <2>1, <2>2
  <2> QED BY <1>1, <2>1, <2>2, <2>3
<1> HIDE DEF r
<1>7. ASSUME NEW p \in 1..Len(s) PROVE r[p] = s[p]
  <2>1. CASE p <= n - 1
    BY <1>1, <1>6, <2>1
  <2>2. CASE p = n
    <3>1. 1 \in 1..Len(xb) /\ (n - 1) + 1 = p
      BY <1>1, <1>5, <2>2
    <3> QED BY <1>5, <1>6, <2>2, <3>1
  <2>3. CASE p > n
    <3>1. /\ p - n \in 1..(Len(s) - n) /\ 1 + (p - n) \in 1..Len(xb)
          /\ (n - 1) + (1 + (p - n)) = p /\ n + (p - n) = p
      BY <1>1, <1>5, <2>3
    <3> QED BY <1>5, <1>6, <3>1
  <2> QED BY <1>1, <2>1, <2>2, <2>3
<1>8. r = s
  BY <1>1, <1>6, <1>7, SeqEqual
<1> QED BY <1>2, <1>3, <1>4, <1>8 DEF a, x, b, xb, r

-----------------------------------------------------------------------------
(* Type correctness.                                                       *)

LEMMA HeadLsnType ==
    ASSUME committed \in 0..NTxn
    PROVE  HeadLsn \in Nat
BY WalAssumption, ConstantsAssumption DEF HeadLsn, Txn

LEMMA BootEventsType ==
    ASSUME committed \in 0..NTxn
    PROVE  BootEvents \in Seq(EventSet)
<1>1. BootEvent \in EventSet
  <2>1. <<0, 0>> \in RowId
    BY ConstantsAssumption DEF RowId
  <2>2. HeadLsn \in Nat
    BY HeadLsnType
  <2> QED BY <2>1, <2>2 DEF BootEvent, EventSet
<1>2. <<>> \in Seq(EventSet) /\ <<BootEvent>> \in Seq(EventSet)
  BY <1>1, EmptySeq
<1> QED BY <1>2 DEF BootEvents

LEMMA MappedType ==
    ASSUME NEW n \in 0..NTxn
    PROVE  Mapped(n) \subseteq Tenants
<1> SUFFICES ASSUME NEW t \in 1..n, NEW i \in DOMAIN Rows[t]
             PROVE  Rows[t][i].maps \subseteq Tenants
  BY DEF Mapped
<1>1. t \in Txn
  BY ConstantsAssumption DEF Txn
<1> QED BY <1>1, RowShape

LEMMA MembersType ==
    ASSUME NEW n, TypeOK
    PROVE  MembersAfter(batch, n, members) \subseteq Tenants
<1>1. batch \in Seq(EventSet) /\ members \subseteq Tenants
  BY DEF TypeOK
<1>2. \A k \in DOMAIN batch : batch[k].maps \subseteq Tenants
  BY <1>1, EventTypes
<1> QED BY <1>1, <1>2 DEF MembersAfter

LEMMA StoredType ==
    ASSUME TypeOK, NEW I \in SUBSET (DOMAIN batch)
    PROVE  StoredOf(I) \subseteq RowId
<1>1. batch \in Seq(EventSet)
  BY DEF TypeOK
<1>2. \A k \in DOMAIN batch : batch[k].id \in RowId
  BY <1>1, EventTypes
<1> QED BY <1>2 DEF StoredOf

LEMMA FailsAtType ==
    ASSUME TypeOK, NEW s, FailsAt(s)
    PROVE  published' \subseteq RowId /\ members' \subseteq Tenants
<1>1. PICK I \in PartialStores(batch, s) : published' = published \cup StoredOf(I)
  BY DEF FailsAt
<1>2. I \in SUBSET (DOMAIN batch)
  BY DEF PartialStores
<1>3. StoredOf(I) \subseteq RowId
  BY <1>2, StoredType
<1>4. \E n \in 0..Len(batch) : members' = MembersAfter(batch, n, members)
  BY DEF FailsAt
<1> QED BY <1>1, <1>3, <1>4, MembersType DEF TypeOK

LEMMA RetryType ==
    ASSUME TypeOK, RetryOrGiveUp
    PROVE  /\ retries' \in 0..MaxRetries /\ fatal' \in BOOLEAN
           /\ fpc' \in {"collect", "popped", "decide", "publish", "confirm", "done"}
           /\ fpc' # "confirm" \/ fpc' = fpc
<1>1. /\ retries \in 0..MaxRetries /\ MaxRetries \in Nat /\ fatal \in BOOLEAN
      /\ fpc \in {"collect", "popped", "decide", "publish", "confirm", "done"}
  BY ConstantsAssumption DEF TypeOK
<1>2. CASE retries < MaxRetries
  <2>1. retries' = retries + 1 /\ UNCHANGED <<fatal, fpc>>
    BY <1>2 DEF RetryOrGiveUp
  <2> QED BY <1>1, <1>2, <2>1
<1>3. CASE ~(retries < MaxRetries)
  <2>1. fatal' = TRUE /\ fpc' \in {"done", "collect"} /\ UNCHANGED retries
    BY <1>3 DEF RetryOrGiveUp, AfterFlush
  <2> QED BY <1>1, <2>1
<1> QED BY <1>2, <1>3

LEMMA StartStreamingType ==
    ASSUME StartStreaming
    PROVE  conn' = TRUE /\ cur' \in [t : 1..(NTxn + 1), i : Nat]
BY ConstantsAssumption DEF StartStreaming

LEMMA ProcessMemoryType ==
    ASSUME NEW pc \in {"recv", "exited"}, NEW queue \in Seq(EventSet), ProcessMemory(pc, queue)
    PROVE  /\ wpc' \in {"recv", "exited"} /\ after' = "row"
           /\ txbuf' \in Seq(EventSet) /\ pending' \in Seq(EventSet) /\ batch' \in Seq(EventSet)
           /\ lastAck' \in Nat /\ latestEnd' \in Nat /\ confirmed' \in Nat
           /\ draining' \in BOOLEAN /\ fatal' \in BOOLEAN /\ stepAside' \in BOOLEAN
           /\ fpc' = "collect" /\ retries' \in 0..MaxRetries /\ final' \in BOOLEAN
           /\ members' \subseteq Tenants
<1>1. <<>> \in Seq(EventSet) /\ 0 \in Nat /\ 0 \in 0..MaxRetries /\ {} \subseteq Tenants
  BY EmptySeq, ConstantsAssumption
<1> QED BY <1>1, Zenon DEF ProcessMemory

LEMMA InitTypeInv == Init => TypeInv
<1> SUFFICES ASSUME Init PROVE TypeInv
  OBVIOUS
<1>1. /\ <<>> \in Seq(EventSet) /\ BootEvents \in Seq(EventSet)
      /\ Mapped(committed) \subseteq Tenants
  BY BootEventsType, MappedType, EmptySeq DEF Init
<1>2. /\ 0 \in 0..MaxRetries /\ MaxFaults \in 0..MaxFaults /\ 0 \in 0..PgStops
      /\ [t |-> 1, i |-> 0] \in [t : 1..(NTxn + 1), i : Nat] /\ 0 \in Nat
  BY ConstantsAssumption
<1> QED BY <1>1, <1>2, Zenon DEF Init, TypeInv, TypeOK, CursorOK

(* PostgreSQL's own flags are no part of the cursor.                        *)
LEMMA PgFlagTypeInv ==
    ASSUME TypeInv, conn' \in BOOLEAN, pgStop' \in BOOLEAN,
           UNCHANGED <<committed, slot, cur, walVars, sharedVars, flushVars, natsVars, boundVars>>
    PROVE  TypeInv'
<1>1. UNCHANGED <<committed, cur, wpc, after>>
  BY DEF walVars
<1>2. CursorOK'
  BY <1>1 DEF TypeInv, CursorOK
<1>3. TypeOK'
  BY DEF TypeInv, TypeOK, walVars, sharedVars, flushVars, natsVars, boundVars
<1> QED
  BY <1>2, <1>3 DEF TypeInv

LEMMA PostgresTypeInv == TypeInv /\ Postgres => TypeInv'
<1> SUFFICES ASSUME TypeInv, Postgres PROVE TypeInv'
  OBVIOUS
<1> USE DEF TypeInv, TypeOK, CursorOK, walVars, sharedVars, flushVars, natsVars, boundVars
<1>1. CASE PgCommit
  BY <1>1, ConstantsAssumption DEF PgCommit
<1>2. CASE StreamLost
  <2>1. faults' \in 0..MaxFaults
    BY <1>2, ConstantsAssumption DEF StreamLost
  <2>2. conn' \in BOOLEAN
    BY <1>2 DEF StreamLost
  <2> QED BY <1>2, <2>1, <2>2 DEF StreamLost
<1>3. CASE PgFastShutdown
  BY <1>3, ConstantsAssumption DEF PgFastShutdown
<1>4. CASE WalsenderDone
  BY <1>4, PgFlagTypeInv DEF WalsenderDone
<1>5. CASE PgRestart
  BY <1>5, PgFlagTypeInv DEF PgRestart
<1> QED BY <1>1, <1>2, <1>3, <1>4, <1>5 DEF Postgres

LEMMA WalLoopTypeInv == TypeInv /\ WalLoop => TypeInv'
<1> SUFFICES ASSUME TypeInv, WalLoop PROVE TypeInv'
  OBVIOUS
<1> USE DEF TypeInv, TypeOK, CursorOK, pgVars, walVars, sharedVars, flushVars, natsVars, boundVars
<1>1. CASE ReceiveBegin
  BY <1>1, EmptySeq DEF ReceiveBegin, InLoop
<1>2. CASE ReceiveRow
  BY <1>2 DEF ReceiveRow, InLoop
<1>3. CASE AcquireSlot
  <2>1. cur.t \in Txn /\ cur.i \in DOMAIN Rows[cur.t]
    <3>1. cur.t <= committed /\ cur.i \in DOMAIN Rows[cur.t]
      BY <1>3 DEF AcquireSlot
    <3> QED BY <3>1, ConstantsAssumption DEF Txn
  <2>2. txbuf' \in Seq(EventSet)
    BY <1>3, <2>1, RowFacts, AppendProperties DEF AcquireSlot
  <2>3. cur' \in [t : 1..(NTxn + 1), i : Nat]
    <3>1. cur.i + 1 \in Nat
      OBVIOUS
    <3> QED BY <1>3, <3>1 DEF AcquireSlot
  <2> QED BY <1>3, <2>2, <2>3 DEF AcquireSlot
<1>4. CASE AcquireTimeout
  <2>1. <<>> \in Seq(EventSet) /\ faults' \in 0..MaxFaults
    BY <1>4, EmptySeq, ConstantsAssumption DEF AcquireTimeout
  <2> QED BY <1>4, <2>1, ProcessMemoryType DEF AcquireTimeout, ProcessEnds
<1>5. CASE ReceiveCommit
  BY <1>5 DEF ReceiveCommit, InLoop
<1>6. CASE ReleaseSlot
  <2>1. pending' \in Seq(EventSet) /\ txbuf' \in Seq(EventSet)
    BY <1>6, MoveHead DEF ReleaseSlot
  <2> QED BY <1>6, <2>1 DEF ReleaseSlot
<1>7. CASE ReleaseDone
  <2>1. streams' \subseteq Tenants
    BY <1>7, MappedType DEF ReleaseDone, CatalogueReload
  <2>2. /\ cur' \in [t : 1..(NTxn + 1), i : Nat] /\ wpc' \in {"acquire", "recv"}
        /\ wpc' = "acquire" => UNCHANGED cur /\ after = "row"
    BY <1>7, ConstantsAssumption DEF ReleaseDone
  <2> QED BY <1>7, <2>1, <2>2 DEF ReleaseDone
<1>8. CASE AckConfirmed
  BY <1>8 DEF AckConfirmed, SlotAfter, InLoop
<1>9. CASE Heartbeat
  BY <1>9 DEF Heartbeat, SlotAfter, FastAck, InLoop
<1>10. CASE Keepalive
  <2> PICK kind \in Keepalives, p \in SentPositions : ReceiveKeepalive(kind, p)
    BY <1>10 DEF Keepalive
  <2>1. p \in Nat
    BY HeadLsnType DEF SentPositions
  <2> QED BY <2>1 DEF ReceiveKeepalive, SlotAfter, FastAck, ReplyLsn, InLoop
<1>11. CASE MonitorSeesShutdown
  BY <1>11 DEF MonitorSeesShutdown
<1>12. CASE StepAside
  BY <1>12 DEF StepAside, InLoop
<1>13. CASE Reconnect
  BY <1>13, EmptySeq, StartStreamingType DEF Reconnect, InLoop
<1>14. CASE SlotHeldByAnother
  BY <1>14, EmptySeq, ConstantsAssumption DEF SlotHeldByAnother
<1>15. CASE FatalStop
  BY <1>15 DEF FatalStop
<1>16. CASE SignalStop
  BY <1>16, ConstantsAssumption DEF SignalStop
<1>17. CASE FinalAck
  <2>1. <<>> \in Seq(EventSet) /\ slot' \in Nat
    BY <1>17, EmptySeq DEF FinalAck, SlotAfter
  <2> QED BY <1>17, <2>1, ProcessMemoryType DEF FinalAck, ProcessEnds
<1> QED BY <1>1, <1>2, <1>3, <1>4, <1>5, <1>6, <1>7, <1>8, <1>9, <1>10, <1>11,
           <1>12, <1>13, <1>14, <1>15, <1>16, <1>17 DEF WalLoop

LEMMA FlushTypeInv == TypeInv /\ FlushThread => TypeInv'
<1> SUFFICES ASSUME TypeInv, FlushThread PROVE TypeInv'
  OBVIOUS
<1> USE DEF TypeInv, TypeOK, CursorOK, pgVars, walVars, sharedVars, flushVars, natsVars, boundVars
<1>1. CASE FlushPop
  <2>1. batch' \in Seq(EventSet) /\ pending' \in Seq(EventSet)
    BY <1>1, MoveHead DEF FlushPop
  <2> QED BY <1>1, <2>1 DEF FlushPop
<1>2. CASE FlushPopEnd
  BY <1>2 DEF FlushPopEnd
<1>3. CASE AnnounceBatch
  BY <1>3 DEF AnnounceBatch
<1>4. CASE FlushBegin
  BY <1>4, ConstantsAssumption DEF FlushBegin
<1>5. CASE FlushLater
  BY <1>5 DEF FlushLater
<1>6. CASE PublishOk
  <2>1. /\ StoredOf(DOMAIN batch) \subseteq RowId
        /\ MembersAfter(batch, Len(batch), members) \subseteq Tenants
    BY StoredType, MembersType
  <2> QED BY <1>6, <2>1 DEF PublishOk
<1>7. CASE PublishFail
  <2>1. published' \subseteq RowId /\ members' \subseteq Tenants
    BY <1>7, FailsAtType DEF PublishFail
  <2>2. faults' \in 0..MaxFaults
    BY <1>7, ConstantsAssumption DEF PublishFail
  <2> QED BY <1>7, <2>1, <2>2, RetryType DEF PublishFail
<1>8. CASE ConfirmBatch
  <2>1. \A k \in DOMAIN batch : batch[k].lsn \in Nat
    BY EventTypes
  <2>2. confirmed' \in Nat
    BY <1>8, <2>1 DEF ConfirmBatch
  <2>3. batch' \in Seq(EventSet) /\ draining' \in BOOLEAN
    BY <1>8, EmptySeq DEF ConfirmBatch
  <2>4. fpc' \in {"collect", "popped", "decide", "publish", "confirm", "done"}
    BY <1>8 DEF ConfirmBatch, AfterFlush
  <2> QED BY <1>8, <2>2, <2>3, <2>4 DEF ConfirmBatch
<1>9. CASE FlushStop
  <2>1. batch' \in Seq(EventSet)
    BY <1>9, Concat DEF FlushStop
  <2> QED BY <1>9, <2>1, EmptySeq, ConstantsAssumption DEF FlushStop, LastFlush
<1>10. CASE FlushAppendFails
  <2>1. Head(pending).id \in RowId /\ Tail(pending) \in Seq(EventSet)
    <3>1. pending \in Seq(EventSet) /\ pending # <<>>
      BY <1>10 DEF FlushAppendFails
    <3>2. Head(pending) \in EventSet /\ Tail(pending) \in Seq(EventSet)
      BY <3>1, HeadTailProperties
    <3> QED BY <3>2 DEF EventSet
  <2>2. faults' \in 0..MaxFaults
    BY <1>10, ConstantsAssumption DEF FlushAppendFails
  <2> QED BY <1>10, <2>1, <2>2 DEF FlushAppendFails
<1>11. CASE PublishRefused
  <2>1. published' \subseteq RowId /\ members' \subseteq Tenants
    BY <1>11, FailsAtType DEF PublishRefused
  <2> QED BY <1>11, <2>1, RetryType DEF PublishRefused
<1>12. CASE FlushStopAppendFails
  <2>1. PICK n \in DOMAIN pending :
           /\ batch' = batch \o SubSeq(pending, 1, n - 1)
           /\ dropped' = dropped \cup {pending[n].id}
           /\ pending' = SubSeq(pending, n + 1, Len(pending))
    BY <1>12 DEF FlushStopAppendFails
  <2>2. batch' \in Seq(EventSet) /\ pending' \in Seq(EventSet) /\ dropped' \subseteq RowId
    BY <2>1, SplitAt, Concat, EventTypes
  <2>3. faults' \in 0..MaxFaults
    <3>1. faults > 0 /\ faults' = faults - 1 /\ faults \in 0..MaxFaults /\ MaxFaults \in Nat
      BY <1>12, ConstantsAssumption DEF FlushStopAppendFails
    <3> QED BY <3>1
  <2>4. /\ retries' \in 0..MaxRetries /\ final' \in BOOLEAN /\ fpc' \in {"done", "publish"}
    BY <1>12, ConstantsAssumption DEF FlushStopAppendFails, LastFlush
  <2> QED BY <1>12, <2>2, <2>3, <2>4 DEF FlushStopAppendFails, LastFlush
<1> QED BY <1>1, <1>2, <1>3, <1>4, <1>5, <1>6, <1>7, <1>8, <1>9, <1>10, <1>11, <1>12
        DEF FlushThread

LEMMA NextTypeInv == TypeInv /\ [Next]_vars => TypeInv'
<1> SUFFICES ASSUME TypeInv, [Next]_vars PROVE TypeInv'
  OBVIOUS
<1> USE DEF TypeInv, TypeOK, CursorOK, pgVars, walVars, sharedVars, flushVars, natsVars, boundVars
<1>1. CASE NatsDown
  <2>1. faults' \in 0..MaxFaults
    BY <1>1, ConstantsAssumption DEF NatsDown
  <2>2. natsUp' \in BOOLEAN
    BY <1>1 DEF NatsDown
  <2> QED BY <1>1, <2>1, <2>2 DEF NatsDown
<1>2. CASE NatsRecovers
  BY <1>2 DEF NatsRecovers
<1>3. CASE Crash
  <2>1. <<>> \in Seq(EventSet) /\ faults' \in 0..MaxFaults
    BY <1>3, EmptySeq, ConstantsAssumption DEF Crash
  <2> QED BY <1>3, <2>1, ProcessMemoryType DEF Crash, ProcessEnds
<1>4. CASE Boot
  <2>1. BootEvents \in Seq(EventSet) /\ streams' \subseteq Tenants
    BY <1>4, BootEventsType, MappedType DEF Boot
  <2> QED BY <1>4, <2>1, ProcessMemoryType, StartStreamingType DEF Boot
<1>5. CASE UNCHANGED vars
  BY <1>5 DEF vars
<1> QED BY <1>1, <1>2, <1>3, <1>4, <1>5, PostgresTypeInv, WalLoopTypeInv, FlushTypeInv DEF Next

(* Every behaviour of the feed is type-correct: in particular the retry     *)
(* counter stays within its budget, the walsender's position within the     *)
(* history, and only rows are ever stored.                                  *)
THEOREM TypeCorrect == Spec => []TypeOK
<1>1. TypeInv => TypeOK
  BY DEF TypeInv
<1> QED BY <1>1, InitTypeInv, NextTypeInv, PTL DEF Spec

-----------------------------------------------------------------------------
(* What the moves of the ring preserve.                                    *)

LEMMA Grows ==
    ASSUME NEW P, NEW Q, P \subseteq Q
    PROVE  /\ \A s : Fifo(s, P) => Fifo(s, Q)
           /\ \A c, s : Covers(c, s, P) => Covers(c, s, Q)
           /\ \A l : SafeLsn(l, P) => SafeLsn(l, Q)
<1>1. ASSUME NEW s, Fifo(s, P) PROVE Fifo(s, Q)
  BY <1>1 DEF Fifo
<1>2. ASSUME NEW c, NEW s, Covers(c, s, P) PROVE Covers(c, s, Q)
  BY <1>2 DEF Covers
<1>3. ASSUME NEW l, SafeLsn(l, P) PROVE SafeLsn(l, Q)
  BY <1>3 DEF SafeLsn
<1> QED BY <1>1, <1>2, <1>3

LEMMA GenuineGrows ==
    ASSUME NEW n \in Nat, NEW m \in Nat, n <= m, NEW s, Genuine(s, n)
    PROVE  Genuine(s, m)
BY DEF Genuine, Txn

(* A row joins the ring behind everything it must follow.                  *)
LEMMA Joins ==
    ASSUME NEW s \in Seq(EventSet), NEW P, NEW t \in Txn, NEW i \in DOMAIN Rows[t], NEW c,
           c = [t |-> t, i |-> i], NEW n, t <= n,
           Genuine(s, n), Fifo(s, P), Covers(c, s, P)
    PROVE  /\ Genuine(Append(s, Event(t, i)), n)
           /\ Fifo(Append(s, Event(t, i)), P)
           /\ Covers([t |-> t, i |-> i + 1], Append(s, Event(t, i)), P)
<1> DEFINE e == Event(t, i)
           r == Append(s, e)
<1>1. e \in EventSet /\ e.id = <<t, i>> /\ e.lsn = Rows[t][i].lsn
  BY RowFacts DEF Event
<1> HIDE DEF e
<1>2. /\ DOMAIN s = 1..Len(s) /\ Len(s) \in Nat
      /\ DOMAIN r = 1..(Len(s) + 1)
      /\ \A p \in 1..Len(s) : r[p] = s[p]
      /\ r[Len(s) + 1] = e
  BY <1>1, LenProperties, AppendProperties
<1> HIDE DEF r
<1>3. Genuine(r, n)
  <2> SUFFICES ASSUME NEW p \in DOMAIN r
               PROVE  \/ IsBoot(r[p])
                      \/ \E u \in Txn : u <= n /\ \E j \in DOMAIN Rows[u] : r[p] = Event(u, j)
    BY DEF Genuine
  <2>1. CASE p \in 1..Len(s)
    BY <1>2, <2>1 DEF Genuine
  <2>2. CASE p = Len(s) + 1
    BY <1>2, <2>2 DEF e
  <2> QED BY <1>2, <2>1, <2>2
<1>4. Fifo(r, P)
  <2> SUFFICES ASSUME NEW p \in DOMAIN r, NEW u \in Txn, NEW j \in DOMAIN Rows[u],
                      Before(<<u, j>>, r[p].id), <<u, j>> \notin P
               PROVE  \E q \in DOMAIN r : q < p /\ r[q].id = <<u, j>>
    BY DEF Fifo
  <2>1. CASE p \in 1..Len(s)
    <3>1. PICK q \in DOMAIN s : q < p /\ s[q].id = <<u, j>>
      BY <1>2, <2>1 DEF Fifo
    <3> QED BY <1>2, <3>1
  <2>2. CASE p = Len(s) + 1
    <3>1. <<u, j>> \in Ids(s)
      BY <1>1, <1>2, <2>2 DEF Covers
    <3>2. PICK q \in DOMAIN s : s[q].id = <<u, j>>
      BY <3>1 DEF Ids
    <3> QED BY <1>2, <2>2, <3>2
  <2> QED BY <1>2, <2>1, <2>2
<1>5. Covers([t |-> t, i |-> i + 1], r, P)
  <2> SUFFICES ASSUME NEW u \in Txn, NEW j \in DOMAIN Rows[u],
                      Before(<<u, j>>, <<t, i + 1>>), <<u, j>> \notin P
               PROVE  \E q \in DOMAIN r : r[q].id = <<u, j>>
    BY DEF Covers, Ids
  <2>1. CASE Before(<<u, j>>, <<t, i>>)
    <3>1. <<u, j>> \in Ids(s)
      BY <2>1 DEF Covers
    <3>2. PICK q \in DOMAIN s : s[q].id = <<u, j>>
      BY <3>1 DEF Ids
    <3> QED BY <1>2, <3>2
  <2>2. CASE ~Before(<<u, j>>, <<t, i>>)
    <3>1. u = t /\ j = i
      BY <2>2, RowFacts DEF Before, Txn
    <3>2. Len(s) + 1 \in DOMAIN r /\ r[Len(s) + 1].id = <<t, i>>
      BY <1>1, <1>2
    <3> QED BY <3>1, <3>2
  <2> QED BY <2>1, <2>2
<1> QED BY <1>3, <1>4, <1>5 DEF r, e

(* Dropping the newest rows, or the oldest.                                *)
LEMMA Truncates ==
    ASSUME NEW a \in Seq(EventSet), NEW b \in Seq(EventSet), NEW P, NEW n
    PROVE  /\ Genuine(a \o b, n) => Genuine(a, n) /\ Genuine(b, n)
           /\ Fifo(a \o b, P) => Fifo(a, P)
<1>1. /\ DOMAIN a = 1..Len(a) /\ Len(a) \in Nat /\ Len(b) \in Nat
      /\ DOMAIN (a \o b) = 1..(Len(a) + Len(b))
      /\ \A p \in 1..Len(a) : (a \o b)[p] = a[p]
      /\ \A p \in 1..Len(b) : (a \o b)[Len(a) + p] = b[p]
      /\ DOMAIN b = 1..Len(b)
  BY Concat, LenProperties
<1> DEFINE s == a \o b
<1> HIDE DEF s
<1>2. ASSUME Genuine(s, n) PROVE Genuine(a, n)
  BY <1>1, <1>2 DEF Genuine, s
<1>3. ASSUME Genuine(s, n) PROVE Genuine(b, n)
  <2> SUFFICES ASSUME NEW p \in DOMAIN b
               PROVE  Len(a) + p \in DOMAIN s /\ s[Len(a) + p] = b[p]
    BY <1>3 DEF Genuine
  <2> QED BY <1>1 DEF s
<1>4. ASSUME Fifo(s, P) PROVE Fifo(a, P)
  <2> SUFFICES ASSUME NEW p \in DOMAIN a, NEW u \in Txn, NEW j \in DOMAIN Rows[u],
                      Before(<<u, j>>, a[p].id), <<u, j>> \notin P
               PROVE  \E q \in DOMAIN a : q < p /\ a[q].id = <<u, j>>
    BY DEF Fifo
  <2>1. p \in DOMAIN s /\ s[p] = a[p]
    BY <1>1 DEF s
  <2>2. PICK q \in DOMAIN s : q < p /\ s[q].id = <<u, j>>
    BY <1>4, <2>1 DEF Fifo
  <2>3. q \in DOMAIN a /\ s[q] = a[q]
    BY <1>1, <2>1, <2>2 DEF s
  <2> QED BY <2>2, <2>3
<1> QED BY <1>2, <1>3, <1>4 DEF s

(* Taking out rows that are all in P: the oldest, when a batch is confirmed, *)
(* or one in the middle, when its append failed.                            *)
LEMMA Removes ==
    ASSUME NEW a \in Seq(EventSet), NEW x \in Seq(EventSet), NEW b \in Seq(EventSet),
           NEW P, Ids(x) \subseteq P, NEW n
    PROVE  /\ Genuine(a \o (x \o b), n) => Genuine(a \o b, n)
           /\ Fifo(a \o (x \o b), P) => Fifo(a \o b, P)
           /\ \A c : Covers(c, a \o (x \o b), P) => Covers(c, a \o b, P)
<1> DEFINE xb == x \o b
           s == a \o xb
           r == a \o b
           l == Len(a)
           m == Len(x)
           Up(p) == IF p <= l THEN p ELSE p + m
<1>1. /\ l \in Nat /\ m \in Nat /\ Len(b) \in Nat /\ DOMAIN x = 1..m
  BY LenProperties
<1>2. /\ xb \in Seq(EventSet) /\ Len(xb) = m + Len(b)
      /\ \A p \in 1..m : xb[p] = x[p]
      /\ \A p \in 1..Len(b) : xb[m + p] = b[p]
  BY Concat
<1> HIDE DEF xb
<1>3. /\ DOMAIN s = 1..(l + Len(xb))
      /\ \A p \in 1..l : s[p] = a[p]
      /\ \A p \in 1..Len(xb) : s[l + p] = xb[p]
  <2>1. xb \in Seq(EventSet)
    BY <1>2
  <2> QED BY <2>1, Concat, LenProperties
<1>4. /\ DOMAIN r = 1..(l + Len(b))
      /\ \A p \in 1..l : r[p] = a[p]
      /\ \A p \in 1..Len(b) : r[l + p] = b[p]
  BY Concat, LenProperties
<1> HIDE DEF s, r, l, m
<1>5. ASSUME NEW p \in DOMAIN r PROVE Up(p) \in DOMAIN s /\ s[Up(p)] = r[p]
  <2>1. CASE p <= l
    BY <1>1, <1>2, <1>3, <1>4, <2>1
  <2>2. CASE ~(p <= l)
    <3>1. /\ p - l \in 1..Len(b) /\ l + (p - l) = p
          /\ m + (p - l) \in 1..Len(xb) /\ l + (m + (p - l)) = Up(p)
      BY <1>1, <1>2, <1>4, <2>2
    <3> HIDE DEF Up
    <3>2. r[p] = b[p - l] /\ xb[m + (p - l)] = b[p - l] /\ s[Up(p)] = xb[m + (p - l)]
      BY <1>2, <1>3, <1>4, <3>1
    <3>3. Up(p) \in DOMAIN s
      BY <1>1, <1>3, <1>2, <3>1
    <3> QED BY <3>2, <3>3
  <2> QED BY <2>1, <2>2
<1>6. ASSUME NEW q \in DOMAIN s, s[q].id \notin P
      PROVE  \E p \in DOMAIN r : Up(p) = q /\ r[p] = s[q]
  <2>1. CASE q <= l
    <3>1. q \in 1..l /\ q \in DOMAIN r /\ Up(q) = q
      BY <1>1, <1>3, <1>4, <1>2, <2>1
    <3> QED BY <1>3, <1>4, <3>1
  <2>2. CASE l < q /\ q <= l + m
    <3>1. q - l \in 1..m /\ l + (q - l) = q /\ q - l \in 1..Len(xb)
      BY <1>1, <1>2, <1>3, <2>2
    <3>2. s[q] = xb[q - l] /\ xb[q - l] = x[q - l]
      BY <1>2, <1>3, <3>1
    <3> QED BY <1>1, <1>6, <3>1, <3>2 DEF Ids
  <2>3. CASE l + m < q
    <3> DEFINE k == q - (l + m)
    <3>1. /\ k \in 1..Len(b) /\ m + k \in 1..Len(xb) /\ l + (m + k) = q
          /\ l + k \in DOMAIN r /\ Up(l + k) = q
      BY <1>1, <1>2, <1>3, <1>4, <2>3
    <3> HIDE DEF k, Up
    <3>2. s[q] = xb[m + k] /\ xb[m + k] = b[k] /\ r[l + k] = b[k]
      BY <1>2, <1>3, <1>4, <3>1
    <3> QED BY <3>1, <3>2
  <2> QED BY <1>1, <1>3, <2>1, <2>2, <2>3
<1>7. ASSUME NEW p \in DOMAIN r, NEW q \in DOMAIN r, Up(q) < Up(p) PROVE q < p
  BY <1>1, <1>4, <1>7
<1> HIDE DEF Up
<1>8. ASSUME Genuine(s, n) PROVE Genuine(r, n)
  BY <1>5, <1>8 DEF Genuine
<1>9. ASSUME Fifo(s, P) PROVE Fifo(r, P)
  <2> SUFFICES ASSUME NEW p \in DOMAIN r, NEW u \in Txn, NEW j \in DOMAIN Rows[u],
                      Before(<<u, j>>, r[p].id), <<u, j>> \notin P
               PROVE  \E q \in DOMAIN r : q < p /\ r[q].id = <<u, j>>
    BY DEF Fifo
  <2>1. PICK q \in DOMAIN s : q < Up(p) /\ s[q].id = <<u, j>>
    BY <1>5, <1>9 DEF Fifo
  <2>2. PICK h \in DOMAIN r : Up(h) = q /\ r[h] = s[q]
    BY <1>6, <2>1
  <2> QED BY <1>7, <2>1, <2>2
<1>10. ASSUME NEW c, Covers(c, s, P) PROVE Covers(c, r, P)
  <2> SUFFICES ASSUME NEW u \in Txn, NEW j \in DOMAIN Rows[u],
                      Before(<<u, j>>, <<c.t, c.i>>), <<u, j>> \notin P
               PROVE  \E q \in DOMAIN r : r[q].id = <<u, j>>
    BY DEF Covers, Ids
  <2>1. PICK q \in DOMAIN s : s[q].id = <<u, j>>
    BY <1>10 DEF Covers, Ids
  <2> QED BY <1>6, <2>1
<1> QED BY <1>8, <1>9, <1>10 DEF s, r, xb

(* The LSN of a confirmed row is above the commit of no transaction that    *)
(* follows the row in the stream: it may be acknowledged.                   *)
LEMMA ConfirmedIsSafe ==
    ASSUME NEW a \in Seq(EventSet), NEW b \in Seq(EventSet), NEW P, Ids(a) \subseteq P,
           NEW n, Genuine(a \o b, n), Fifo(a \o b, P), NEW k \in DOMAIN a
    PROVE  SafeLsn(a[k].lsn, P)
<1>1. Genuine(a, n) /\ Fifo(a, P)
  BY Truncates
<1>a. CASE IsBoot(a[k])
  BY <1>a, WalAssumption DEF SafeLsn, IsBoot
<1> SUFFICES ASSUME ~IsBoot(a[k]) PROVE SafeLsn(a[k].lsn, P)
  BY <1>a
<1>0. PICK u \in Txn : \E j \in DOMAIN Rows[u] : a[k] = Event(u, j)
  BY <1>1 DEF Genuine
<1>2. PICK j \in DOMAIN Rows[u] : a[k].id = <<u, j>> /\ a[k].lsn = Rows[u][j].lsn
  BY <1>0 DEF Event
<1> SUFFICES ASSUME NEW t \in Txn, CommitLsn[t] < a[k].lsn, NEW i \in DOMAIN Rows[t]
             PROVE  <<t, i>> \in P
  BY DEF SafeLsn, RowsOf
<1>3. t < u
  <2>1. Rows[u][j].lsn < CommitLsn[u]
    BY Zenon, WalAssumption
  <2>2. Rows[u][j].lsn \in Nat /\ CommitLsn[u] \in Nat /\ CommitLsn[t] \in Nat
    BY <1>2, EventTypes, WalAssumption
  <2>3. CommitLsn[t] < CommitLsn[u]
    BY <1>2, <2>1, <2>2
  <2>4. ~(u < t) /\ u # t
    BY <2>2, <2>3, WalAssumption
  <2> QED BY <2>4, ConstantsAssumption DEF Txn
<1>4. Before(<<t, i>>, a[k].id)
  BY <1>2, <1>3 DEF Before
<1>5. CASE \E q \in DOMAIN a : a[q].id = <<t, i>>
  BY <1>5 DEF Ids
<1>6. CASE <<t, i>> \in P
  BY <1>6
<1>7. <<t, i>> \in P \/ \E q \in DOMAIN a : q < k /\ a[q].id = <<t, i>>
  BY <1>1, <1>4 DEF Fifo
<1> QED BY <1>5, <1>6, <1>7

-----------------------------------------------------------------------------
(* The inductive step.                                                     *)

LEMMA RingType ==
    ASSUME TypeOK
    PROVE  /\ batch \o pending \in Seq(EventSet)
           /\ Ring \in Seq(EventSet)
BY Concat DEF TypeOK, Ring

LEMMA SettledType ==
    ASSUME TypeOK
    PROVE  Settled \subseteq RowId
<1>1. AllRows \subseteq RowId
  <2> SUFFICES ASSUME NEW t \in Txn, NEW i \in DOMAIN Rows[t] PROVE <<t, i>> \in RowId
    BY AllRowsAre
  <2> QED BY RowFacts, ConstantsAssumption DEF RowId, Txn
<1>2. DOMAIN Mappings \subseteq AllRows
  BY DEF Mappings
<1> QED BY <1>1, <1>2 DEF Settled, Excused, TypeOK

(* What is settled stays so, and what the feed is done with too while the   *)
(* flush thread forgets no member.                                         *)
LEMMA DoneGrows ==
    ASSUME TypeOK, committed' \in Nat, committed <= committed',
           published \subseteq published', dropped \subseteq dropped', streams \subseteq streams'
    PROVE  /\ Settled \subseteq Settled'
           /\ Known \subseteq Known'
           /\ members \subseteq members' => Done \subseteq Done'
<1>1. Settled \subseteq Settled'
  <2>1. Excused \subseteq Excused'
    BY DEF Excused
  <2> QED BY <2>1 DEF Settled
<1>2. Known \subseteq Known'
  <2> SUFFICES ASSUME NEW r \in Settled, r[1] <= committed PROVE r[1] <= committed'
    BY <1>1 DEF Known
  <2>1. r[1] \in Nat /\ committed \in Nat
    BY SettledType, ConstantsAssumption DEF RowId, TypeOK
  <2> QED BY <2>1
<1>3. ASSUME members \subseteq members' PROVE Untold' \subseteq Untold
  BY <1>3 DEF Untold
<1> QED BY <1>1, <1>2, <1>3 DEF Done

(* No step takes anything back, except what a process noted.               *)
LEMMA Monotone ==
    ASSUME [Next]_vars
    PROVE  /\ committed' = committed \/ committed' = committed + 1
           /\ published \subseteq published' /\ dropped \subseteq dropped' /\ streams \subseteq streams'
           /\ members \subseteq members' \/ wpc' = "exited" \/ Boot
<1> USE DEF vars, pgVars, walVars, sharedVars, flushVars, natsVars, boundVars
<1>1. CASE Postgres
  BY <1>1 DEF Postgres, PgCommit, StreamLost, PgFastShutdown, WalsenderDone, PgRestart
<1>2. CASE WalLoop
  <2>1. CASE AcquireTimeout \/ FinalAck
    BY <2>1 DEF AcquireTimeout, FinalAck, ProcessEnds, ProcessMemory
  <2>2. CASE ReleaseDone
    BY <2>2 DEF ReleaseDone, CatalogueReload
  <2>3. CASE \/ ReceiveBegin \/ ReceiveRow \/ AcquireSlot \/ ReceiveCommit \/ ReleaseSlot
             \/ AckConfirmed \/ Heartbeat \/ Keepalive \/ MonitorSeesShutdown \/ StepAside
             \/ Reconnect \/ SlotHeldByAnother \/ FatalStop \/ SignalStop
    BY <2>3 DEF ReceiveBegin, ReceiveRow, AcquireSlot, ReceiveCommit, ReleaseSlot,
                AckConfirmed, Heartbeat, Keepalive, ReceiveKeepalive,
                MonitorSeesShutdown, StepAside, Reconnect, SlotHeldByAnother, FatalStop, SignalStop
  <2> QED BY <1>2, <2>1, <2>2, <2>3 DEF WalLoop
<1>3. CASE FlushThread
  <2>1. CASE PublishOk
    BY <2>1 DEF PublishOk, MembersAfter
  <2>2. CASE PublishFail \/ PublishRefused
    BY <2>2 DEF PublishFail, PublishRefused, FailsAt, MembersAfter
  <2>3. CASE \/ FlushPop \/ FlushAppendFails \/ FlushPopEnd \/ AnnounceBatch \/ FlushBegin
             \/ FlushLater \/ ConfirmBatch \/ FlushStop \/ FlushStopAppendFails
    BY <2>3 DEF FlushPop, FlushAppendFails, FlushPopEnd, AnnounceBatch, FlushBegin, FlushLater,
                ConfirmBatch, FlushStop, FlushStopAppendFails, LastFlush
  <2> QED BY <1>3, <2>1, <2>2, <2>3 DEF FlushThread
<1>4. CASE NatsDown \/ NatsRecovers \/ Crash \/ Boot \/ UNCHANGED vars
  BY <1>4 DEF NatsDown, NatsRecovers, Crash, ProcessEnds, ProcessMemory, Boot
<1> QED BY <1>1, <1>2, <1>3, <1>4 DEF Next

LEMMA DoneStep ==
    ASSUME TypeInv, [Next]_vars
    PROVE  /\ committed \in Nat /\ committed' \in Nat /\ committed <= committed'
           /\ Settled \subseteq Settled' /\ Known \subseteq Known'
           /\ members \subseteq members' => Done \subseteq Done'
           /\ wpc' # "exited" /\ ~Boot => Done \subseteq Done'
<1>1. TypeOK /\ committed \in Nat
  BY ConstantsAssumption DEF TypeInv, TypeOK
<1>2. committed' \in Nat /\ committed <= committed'
  BY <1>1, Monotone
<1> QED BY <1>1, <1>2, Monotone, DoneGrows

(* The batch is a prefix of the ring, and inherits its order.              *)
LEMMA BatchInOrder ==
    ASSUME TypeInv, FeedInv
    PROVE  batch \in Seq(EventSet) /\ Genuine(batch, committed) /\ Fifo(batch, Done)
<1>1. batch \in Seq(EventSet) /\ pending \in Seq(EventSet) /\ txbuf \in Seq(EventSet)
  BY DEF TypeInv, TypeOK
<1>2. pending \o txbuf \in Seq(EventSet) /\ Ring = batch \o (pending \o txbuf)
  BY <1>1, Concat, ConcatAssociative DEF Ring
<1> QED BY <1>1, <1>2, Truncates DEF FeedInv, RingInv

(* A row that is skipped is excused: every earlier mapping of its tenant is *)
(* in front of it in the batch, or noted, or has made its stream, or was    *)
(* dropped; and if one were not dropped the row would be refused.           *)
LEMMA SkippedIsExcused ==
    ASSUME TypeInv, FeedInv, NEW k \in DOMAIN batch, ~IsBoot(batch[k]),
           Streamless(k), ~Refused(k)
    PROVE  batch[k].id \in Excused
<1>1. /\ batch \in Seq(EventSet) /\ DOMAIN batch = 1..Len(batch) /\ Len(batch) \in Nat
      /\ Genuine(batch, committed) /\ Fifo(batch, Done)
  BY BatchInOrder, LenProperties
<1>2. PICK t \in Txn : \E i \in DOMAIN Rows[t] : batch[k] = Event(t, i)
  BY <1>1 DEF Genuine
<1>3. PICK i \in DOMAIN Rows[t] : batch[k] = Event(t, i)
  BY <1>2
<1> DEFINE T == Tenant(batch[k])
<1>4. T = Tenant(Rows[t][i]) /\ batch[k].id = <<t, i>> /\ <<t, i>> \in AllRows
  BY <1>3, RowShape DEF Event
<1>5. T \notin streams /\ T # OpenTenant /\ T \notin MembersAfter(batch, k, members)
  BY DEF Streamless, Refused
<1> HIDE DEF T
<1>6. SUFFICES ASSUME NEW m \in AllRows, Before(m, <<t, i>>), T \in Rows[m[1]][m[2]].maps
               PROVE  m \in dropped
  <2>1. <<t, i>> \in DOMAIN Mappings
    BY <1>4, <1>5 DEF Mappings
  <2>2. Mappings[<<t, i>>] \subseteq dropped
    BY <1>4, <1>6, <2>1 DEF Mappings
  <2> QED BY <1>4, <2>1, <2>2 DEF Excused
<1>7. PICK u \in Txn : \E j \in DOMAIN Rows[u] : m = <<u, j>>
  BY AllRowsAre
<1>8. PICK j \in DOMAIN Rows[u] : m = <<u, j>>
  BY <1>7
<1>9. m \in Done \/ \E q \in DOMAIN batch : q < k /\ batch[q].id = m
  BY <1>1, <1>4, <1>6, <1>8 DEF Fifo
<1>10. ~ \E q \in DOMAIN batch : q < k /\ batch[q].id = m
  <2> SUFFICES ASSUME NEW q \in DOMAIN batch, q < k, batch[q].id = m PROVE FALSE
    OBVIOUS
  <2>1. ~IsBoot(batch[q])
    BY <1>8 DEF IsBoot, Txn
  <2>2. PICK v \in Txn : \E l \in DOMAIN Rows[v] : batch[q] = Event(v, l)
    BY <1>1, <2>1 DEF Genuine
  <2>3. batch[q] = Event(u, j)
    BY <1>8, <2>2 DEF Event
  <2>4. T \in batch[q].maps /\ IsKv(batch[q])
    BY <1>6, <1>8, <2>3, RowShape DEF Event
  <2>5. q <= k
    BY <1>1
  <2> QED BY <1>5, <2>4, <2>5 DEF MembersAfter
<1>11. m \in dropped \/ T \in members \cup streams
  BY <1>6, <1>9, <1>10 DEF Done, Untold
<1>12. T \notin members
  BY <1>5 DEF MembersAfter
<1> QED BY <1>5, <1>11, <1>12

(* A published batch is done with: its rows stored or excused, its mappings *)
(* noted.                                                                  *)
LEMMA PublishedIsDone ==
    ASSUME TypeInv, FeedInv, PublishOk
    PROVE  Ids(batch) \subseteq Done'
<1> SUFFICES ASSUME NEW k \in DOMAIN batch PROVE batch[k].id \in Done'
  BY DEF Ids
<1>1. /\ published' = published \cup StoredOf(DOMAIN batch)
      /\ members' = MembersAfter(batch, Len(batch), members)
      /\ ~Refused(k) /\ UNCHANGED <<committed, dropped, streams>>
  BY DEF PublishOk, pgVars
<1>2. /\ batch \in Seq(EventSet) /\ DOMAIN batch = 1..Len(batch) /\ Len(batch) \in Nat
      /\ Genuine(batch, committed) /\ committed \in Nat
  BY BatchInOrder, LenProperties, ConstantsAssumption DEF TypeInv, TypeOK
<1>3. ~Streamless(k) => batch[k].id \in Settled'
  BY <1>1 DEF StoredOf, Settled
<1>4. CASE IsBoot(batch[k])
  <2>1. ~Streamless(k)
    BY <1>4 DEF IsBoot, Streamless, Tenant
  <2>2. batch[k].id = <<0, 0>> /\ <<0, 0>> \notin AllRows
    BY <1>4, AllRowsAre DEF IsBoot, Txn
  <2> QED BY <1>1, <1>2, <1>3, <2>1, <2>2 DEF Done, Known, Untold
<1>5. CASE ~IsBoot(batch[k])
  <2>1. PICK t \in Txn : t <= committed /\ \E i \in DOMAIN Rows[t] : batch[k] = Event(t, i)
    BY <1>2, <1>5 DEF Genuine
  <2>2. PICK i \in DOMAIN Rows[t] : batch[k] = Event(t, i)
    BY <2>1
  <2>3. batch[k].id = <<t, i>> /\ batch[k].maps = Rows[t][i].maps
    BY <2>2 DEF Event
  <2>4. batch[k].id \in Settled'
    <3>1. Streamless(k) => batch[k].id \in Excused
      BY <1>1, <1>5, SkippedIsExcused
    <3>2. Excused' = Excused
      BY <1>1 DEF Excused
    <3> QED BY <1>3, <3>1, <3>2 DEF Settled
  <2>5. Rows[t][i].maps \subseteq members'
    <3>1. CASE IsKv(batch[k])
      BY <1>1, <1>2, <2>3, <3>1 DEF MembersAfter
    <3>2. CASE ~IsKv(batch[k])
      BY <2>2, <3>2, RowShape
    <3> QED BY <3>1, <3>2
  <2> QED BY <1>1, <2>1, <2>3, <2>4, <2>5 DEF Done, Known, Untold
<1> QED BY <1>4, <1>5

(* Steps that move neither events nor positions.                           *)
LEMMA QuietStep ==
    ASSUME TypeInv, FeedInv, [Next]_vars, members \subseteq members',
           UNCHANGED <<txbuf, pending, batch, cur>>,
           WalRuns' => WalRuns, InLoop' => InLoop,
           fpc' = "confirm" => fpc = "confirm"
    PROVE  FeedInv'
<1>1. Ring' = Ring
  BY DEF Ring
<1>2. Done \subseteq Done' /\ committed \in Nat /\ committed' \in Nat /\ committed <= committed'
  BY DoneStep
<1>3. RingInv'
  BY <1>1, <1>2, Grows, GenuineGrows DEF FeedInv, RingInv
<1>4. CursorInv'
  BY <1>1, <1>2, Grows DEF FeedInv, CursorInv
<1>5. StoredInv'
  BY <1>2 DEF FeedInv, StoredInv, Ids
<1> QED BY <1>3, <1>4, <1>5 DEF FeedInv

LEMMA PostgresFeedInv == TypeInv /\ FeedInv /\ Postgres => FeedInv'
<1> SUFFICES ASSUME TypeInv, FeedInv, Postgres PROVE FeedInv'
  OBVIOUS
<1>1. /\ UNCHANGED <<txbuf, pending, batch, members, cur>>
      /\ UNCHANGED <<wpc, fpc>>
  BY DEF Postgres, PgCommit, StreamLost, PgFastShutdown, WalsenderDone, PgRestart,
         walVars, sharedVars, flushVars, natsVars, boundVars
<1>2. [Next]_vars
  BY DEF Next
<1> QED BY <1>1, <1>2, QuietStep DEF WalRuns, InLoop

LEMMA StoredStep ==
    ASSUME StoredInv, Done \subseteq Done', UNCHANGED <<batch, fpc>>
    PROVE  StoredInv'
BY DEF StoredInv, Ids

(* What a boot queues is its own.                                          *)
LEMMA BootQueue ==
    ASSUME BootStamped = FALSE
    PROVE  \A p \in DOMAIN BootEvents : IsBoot(BootEvents[p])
<1>1. IsBoot(BootEvent)
  BY DEF BootEvent, IsBoot, IsKv
<1>2. DOMAIN <<>> = {} /\ DOMAIN <<BootEvent>> = {1} /\ <<BootEvent>>[1] = BootEvent
  OBVIOUS
<1> QED BY <1>1, <1>2 DEF BootEvents

LEMMA BootRing ==
    ASSUME NEW s, \A p \in DOMAIN s : IsBoot(s[p])
    PROVE  \A n, P : Genuine(s, n) /\ Fifo(s, P)
<1> SUFFICES ASSUME NEW p \in DOMAIN s, NEW t \in Txn, NEW i \in DOMAIN Rows[t]
             PROVE  ~Before(<<t, i>>, s[p].id)
  BY DEF Genuine, Fifo
<1>1. s[p].id = <<0, 0>> /\ t > 0
  BY DEF IsBoot, Txn
<1> QED BY <1>1 DEF Before, Txn

(* Steps after which no process, or a fresh one, holds the feed.           *)
LEMMA NewMemory ==
    ASSUME NEW pc, NEW queue \in Seq(EventSet), \A p \in DOMAIN queue : IsBoot(queue[p]),
           ProcessMemory(pc, queue),
           pc = "exited" \/ Covers(cur', <<>>, Done')
    PROVE  FeedInv'
<1>1. /\ wpc' = pc /\ txbuf' = <<>> /\ fpc' = "collect"
      /\ pending' = queue /\ batch' = <<>>
  BY DEF ProcessMemory
<1>2. Ring' = queue
  <2>1. <<>> \o queue = queue /\ queue \o <<>> = queue
    BY ConcatEmptySeq
  <2> QED BY <1>1, <2>1 DEF Ring
<1>3. RingInv'
  BY <1>2, BootRing DEF RingInv
<1>4. CursorInv'
  <2>1. CASE pc = "exited"
    BY <1>1, <2>1 DEF CursorInv, WalRuns, InLoop
  <2>2. CASE Covers(cur', <<>>, Done')
    <3>1. Covers(cur', queue, Done')
      BY <2>2 DEF Covers, Ids
    <3> QED BY <1>1, <1>2, <3>1 DEF CursorInv
  <2> QED BY <2>1, <2>2
<1>5. StoredInv'
  BY <1>1 DEF StoredInv
<1> QED BY <1>3, <1>4, <1>5 DEF FeedInv

LEMMA EndOfMemory ==
    ASSUME ProcessEnds
    PROVE  FeedInv'
<1>1. <<>> \in Seq(EventSet) /\ \A p \in DOMAIN <<>> : IsBoot(<<>>[p])
  BY EmptySeq
<1> QED BY <1>1, NewMemory DEF ProcessEnds

(* Resuming at the slot skips only what the slot may skip.                 *)
LEMMA ResumeCovers ==
    ASSUME NEW P, NEW s, SafeLsn(slot, P \cup Ids(s)), StartStreaming
    PROVE  Covers(cur', s, P) /\ cur'.i = 0
<1>1. PICK t \in 1..(NTxn + 1) : ResumesAt(t) /\ cur' = [t |-> t, i |-> 0]
  BY DEF StartStreaming
<1> SUFFICES ASSUME NEW u \in Txn, NEW j \in DOMAIN Rows[u], Before(<<u, j>>, <<t, 0>>)
             PROVE  <<u, j>> \in P \cup Ids(s)
  BY <1>1 DEF Covers
<1>2. u < t
  BY RowFacts DEF Before
<1>3. CommitLsn[u] < slot
  BY <1>1, <1>2 DEF ResumesAt
<1> QED BY <1>3 DEF SafeLsn, RowsOf

LEMMA WalLoopFeedInv ==
    TypeInv /\ FeedInv /\ Resumable /\ WalLoop => FeedInv'
<1> SUFFICES ASSUME TypeInv, FeedInv, Resumable, WalLoop PROVE FeedInv'
  OBVIOUS
<1> USE DEF pgVars, walVars, sharedVars, flushVars, natsVars, boundVars
<1>0. FeedInv /\ TypeInv /\ TypeOK /\ CursorOK /\ [Next]_vars
  BY DEF TypeInv, Next
<1>a. /\ batch \in Seq(EventSet) /\ pending \in Seq(EventSet) /\ txbuf \in Seq(EventSet)
      /\ batch \o pending \in Seq(EventSet) /\ Ring \in Seq(EventSet)
  BY <1>0, RingType DEF TypeOK
<1>b. Genuine(Ring, committed) /\ Fifo(Ring, Done) /\ StoredInv
  BY <1>0 DEF FeedInv, RingInv
<1>c. (batch \o pending) \o <<>> = batch \o pending
  BY <1>a, ConcatEmptySeq
<1>d. /\ committed \in Nat /\ committed' \in Nat /\ committed <= committed'
      /\ members \subseteq members' => Done \subseteq Done'
  BY <1>0, DoneStep
<1>e. ASSUME NEW s, Genuine(s, committed), Fifo(s, Done), Ring' = s, members \subseteq members'
      PROVE  RingInv'
  BY <1>d, <1>e, Grows, GenuineGrows DEF RingInv
<1>1. CASE ReceiveBegin
  <2>1. txbuf = <<>> /\ Covers(cur, Ring, Done)
    BY <1>0, <1>1 DEF FeedInv, CursorInv, ReceiveBegin, InLoop, WalRuns
  <2>2. Ring' = Ring /\ UNCHANGED <<txbuf, members, batch, fpc, wpc>>
    BY <1>1, <2>1 DEF ReceiveBegin, Ring
  <2>3. cur' = [t |-> cur.t, i |-> 1]
    BY <1>0, <1>1 DEF ReceiveBegin, TypeOK
  <2>4. Covers(cur', Ring, Done)
    <3> SUFFICES ASSUME NEW u \in Txn, NEW j \in DOMAIN Rows[u], Before(<<u, j>>, <<cur.t, 1>>)
                 PROVE  Before(<<u, j>>, <<cur.t, cur.i>>)
      BY <2>1, <2>3 DEF Covers
    <3> QED BY RowFacts DEF Before
  <2>5. CursorInv'
    BY <1>d, <2>2, <2>3, <2>4, Grows DEF CursorInv
  <2>6. RingInv'
    BY <1>b, <1>e, <2>2
  <2>7. StoredInv'
    BY <1>b, <1>d, <2>2, StoredStep
  <2> QED BY <2>5, <2>6, <2>7 DEF FeedInv
<1>2. CASE ReceiveRow
  BY <1>0, <1>2, QuietStep DEF ReceiveRow, InLoop, WalRuns
<1>3. CASE AcquireSlot
  <2>1. /\ cur.t \in Txn /\ cur.i \in DOMAIN Rows[cur.t] /\ cur.t <= committed
        /\ cur = [t |-> cur.t, i |-> cur.i] /\ cur.i \in Nat
    <3>1. cur.t <= committed /\ cur.i \in DOMAIN Rows[cur.t]
      BY <1>0, <1>3 DEF AcquireSlot, CursorOK
    <3> QED BY <1>0, <3>1, ConstantsAssumption DEF TypeOK, Txn
  <2>2. Covers(cur, Ring, Done)
    BY <1>0, <1>3 DEF FeedInv, CursorInv, WalRuns, AcquireSlot
  <2> DEFINE e == Event(cur.t, cur.i)
  <2>3. e \in EventSet
    BY <2>1, RowFacts
  <2>4. /\ Genuine(Append(Ring, e), committed)
        /\ Fifo(Append(Ring, e), Done)
        /\ Covers([t |-> cur.t, i |-> cur.i + 1], Append(Ring, e), Done)
    BY <1>a, <1>b, <2>1, <2>2, Joins
  <2> HIDE DEF e
  <2>5. Ring' = Append(Ring, e)
    <3>1. /\ Append(txbuf, e) = txbuf \o <<e>>
          /\ Append(Ring, e) = Ring \o <<e>>
      BY <1>a, <2>3, AppendIsConcat
    <3>2. <<e>> \in Seq(EventSet)
      BY <2>3
    <3>3. Ring \o <<e>> = (batch \o pending) \o (txbuf \o <<e>>)
      BY <1>a, <3>2, ConcatAssociative DEF Ring
    <3>4. Ring' = (batch \o pending) \o Append(txbuf, e)
      BY <1>3 DEF AcquireSlot, Ring, e
    <3> QED BY <3>1, <3>3, <3>4
  <2>6. /\ cur' = [t |-> cur.t, i |-> cur.i + 1] /\ cur.i + 1 # 0
        /\ UNCHANGED <<members, batch, fpc>>
    BY <1>3, <2>1 DEF AcquireSlot
  <2>7. RingInv'
    BY <1>e, <2>4, <2>5, <2>6
  <2>8. CursorInv'
    BY <1>d, <2>4, <2>5, <2>6, Grows DEF CursorInv
  <2>9. StoredInv'
    BY <1>b, <1>d, <2>6, StoredStep
  <2> QED BY <2>7, <2>8, <2>9 DEF FeedInv
<1>4. CASE AcquireTimeout
  BY <1>4, EndOfMemory DEF AcquireTimeout
<1>5. CASE ReceiveCommit
  BY <1>0, <1>5, QuietStep DEF ReceiveCommit, InLoop, WalRuns
<1>6. CASE ReleaseSlot
  <2> DEFINE h == Head(txbuf)
  <2>0. txbuf # <<>> /\ txbuf' = Tail(txbuf) /\ pending' = Append(pending, h)
    BY <1>6 DEF ReleaseSlot
  <2>1. h \in EventSet /\ Tail(txbuf) \in Seq(EventSet)
    BY <1>a, <2>0, HeadTailProperties
  <2>2. Append(batch \o pending, h) \o Tail(txbuf) = Ring
    <3>1. Append(batch \o pending, h) \o Tail(txbuf) = (batch \o pending) \o txbuf
      <4> DEFINE bp == batch \o pending
      <4>1. bp \in Seq(EventSet) /\ txbuf \in Seq(EventSet) /\ txbuf # <<>>
        BY <1>a, <2>0
      <4> HIDE DEF bp
      <4>2. Append(bp, Head(txbuf)) \o Tail(txbuf) = bp \o txbuf
        BY <4>1, MoveHead
      <4> QED BY <4>2 DEF bp
    <3> QED BY <3>1 DEF Ring
  <2>3. batch \o Append(pending, h) = Append(batch \o pending, h)
    <3>1. Append(pending, h) = pending \o <<h>> /\ Append(batch \o pending, h) = (batch \o pending) \o <<h>>
      BY <1>a, <2>1, AppendIsConcat
    <3>2. <<h>> \in Seq(EventSet)
      BY <2>1
    <3> QED BY <1>a, <3>1, <3>2, ConcatAssociative
  <2>4. Ring' = Ring
    BY <1>6, <2>0, <2>2, <2>3 DEF ReleaseSlot, Ring
  <2>5. /\ UNCHANGED <<members, batch, fpc, cur, wpc>>
        /\ wpc = "release"
    BY <1>6 DEF ReleaseSlot
  <2>6. RingInv'
    BY <1>b, <1>e, <2>4, <2>5
  <2>7. CursorInv'
    BY <1>0, <1>d, <2>4, <2>5, Grows DEF FeedInv, CursorInv, WalRuns, InLoop
  <2>8. StoredInv'
    BY <1>b, <1>d, <2>5, StoredStep
  <2> QED BY <2>6, <2>7, <2>8 DEF FeedInv
<1>7. CASE ReleaseDone
  <2>1. /\ Ring' = Ring /\ txbuf' = <<>> /\ wpc = "release"
        /\ UNCHANGED <<members, batch, fpc>>
    BY <1>7 DEF ReleaseDone, Ring
  <2>2. Covers(cur, Ring, Done)
    BY <1>0, <2>1 DEF FeedInv, CursorInv, WalRuns
  <2>3. Covers(cur', Ring, Done)
    <3>1. CASE after = "row"
      BY <1>7, <2>2, <3>1 DEF ReleaseDone
    <3>2. CASE after = "commit"
      <4>1. /\ cur' = [t |-> cur.t + 1, i |-> 0] /\ cur.t \in Nat
            /\ cur.i = Len(Rows[cur.t]) + 1
        BY <1>0, <1>7, <3>2, <2>1 DEF ReleaseDone, CursorOK, TypeOK
      <4> SUFFICES ASSUME NEW u \in Txn, NEW j \in DOMAIN Rows[u], Before(<<u, j>>, <<cur.t + 1, 0>>)
                   PROVE  Before(<<u, j>>, <<cur.t, cur.i>>)
        BY <2>2, <4>1 DEF Covers
      <4> QED BY <4>1, RowFacts DEF Before, Txn
    <3> QED BY <1>7, <3>1, <3>2 DEF ReleaseDone
  <2>4. RingInv'
    BY <1>b, <1>e, <2>1
  <2>5. CursorInv'
    BY <1>d, <2>1, <2>3, Grows DEF CursorInv
  <2>6. StoredInv'
    BY <1>b, <1>d, <2>1, StoredStep
  <2> QED BY <2>4, <2>5, <2>6 DEF FeedInv
<1>8. CASE AckConfirmed
  BY <1>0, <1>8, QuietStep DEF AckConfirmed, InLoop, WalRuns
<1>9. CASE Heartbeat
  BY <1>0, <1>9, QuietStep DEF Heartbeat, InLoop, WalRuns
<1>10. CASE Keepalive
  BY <1>0, <1>10, QuietStep DEF Keepalive, ReceiveKeepalive, InLoop, WalRuns
<1>11. CASE MonitorSeesShutdown
  BY <1>0, <1>11, QuietStep DEF MonitorSeesShutdown, InLoop, WalRuns
<1>12. CASE StepAside
  BY <1>0, <1>12, QuietStep DEF StepAside, InLoop, WalRuns
<1>13. CASE Reconnect
  <2>1. /\ txbuf' = <<>> /\ StartStreaming
        /\ UNCHANGED <<members, batch, pending, fpc>>
    BY <1>13 DEF Reconnect
  <2>2. Ring' = batch \o pending
    BY <1>c, <2>1 DEF Ring
  <2>3. RingInv'
    <3>1. Genuine(batch \o pending, committed) /\ Fifo(batch \o pending, Done)
      BY <1>a, <1>b, Truncates DEF Ring
    <3> QED BY <1>e, <2>1, <2>2, <3>1
  <2>4. Covers(cur', batch \o pending, Done)
    <3>1. SafeLsn(slot, Done \cup Ids(batch \o pending))
      BY <1>13 DEF Resumable, Held, Reconnect, InLoop
    <3> QED BY <2>1, <3>1, ResumeCovers
  <2>5. CursorInv'
    BY <1>d, <2>1, <2>2, <2>4, Grows DEF CursorInv
  <2>6. StoredInv'
    BY <1>b, <1>d, <2>1, StoredStep
  <2> QED BY <2>3, <2>5, <2>6 DEF FeedInv
<1>14. CASE SlotHeldByAnother
  <2>1. /\ txbuf' = <<>> /\ wpc' = "stopping"
        /\ UNCHANGED <<members, batch, pending, fpc>>
    BY <1>14 DEF SlotHeldByAnother
  <2>2. Ring' = batch \o pending
    BY <1>c, <2>1 DEF Ring
  <2>3. RingInv'
    <3>1. Genuine(batch \o pending, committed) /\ Fifo(batch \o pending, Done)
      BY <1>a, <1>b, Truncates DEF Ring
    <3> QED BY <1>e, <2>1, <2>2, <3>1
  <2>4. CursorInv'
    BY <2>1 DEF CursorInv, WalRuns, InLoop
  <2>5. StoredInv'
    BY <1>b, <1>d, <2>1, StoredStep
  <2> QED BY <2>3, <2>4, <2>5 DEF FeedInv
<1>15. CASE FatalStop
  BY <1>0, <1>15, QuietStep DEF FatalStop, InLoop, WalRuns
<1>16. CASE SignalStop
  BY <1>0, <1>16, QuietStep DEF SignalStop, InLoop, WalRuns
<1>17. CASE FinalAck
  BY <1>17, EndOfMemory DEF FinalAck
<1> QED BY <1>1, <1>2, <1>3, <1>4, <1>5, <1>6, <1>7, <1>8, <1>9, <1>10, <1>11,
           <1>12, <1>13, <1>14, <1>15, <1>16, <1>17 DEF WalLoop

(* Steps of the flush thread that leave the ring's order as it is.         *)
LEMMA FlushStep ==
    ASSUME FeedInv, Ring' = Ring, Done \subseteq Done',
           UNCHANGED <<txbuf, cur, wpc, committed>>,
           fpc' = "confirm" => Ids(batch') \subseteq Done'
    PROVE  FeedInv'
<1>1. RingInv'
  BY Grows DEF FeedInv, RingInv
<1>2. CursorInv'
  BY Grows DEF FeedInv, CursorInv, WalRuns, InLoop
<1>3. StoredInv'
  BY DEF StoredInv
<1> QED BY <1>1, <1>2, <1>3 DEF FeedInv

(* ... and those that take out of it what the feed is done with.           *)
LEMMA RemoveStep ==
    ASSUME FeedInv, Done \subseteq Done',
           NEW a \in Seq(EventSet), NEW x \in Seq(EventSet), NEW b \in Seq(EventSet),
           Ring = a \o (x \o b), Ring' = a \o b, Ids(x) \subseteq Done',
           UNCHANGED <<txbuf, cur, wpc, committed>>, fpc' # "confirm"
    PROVE  FeedInv'
<1>1. Genuine(Ring, committed) /\ Fifo(Ring, Done') /\ (WalRuns => Covers(cur, Ring, Done'))
  BY Grows DEF FeedInv, RingInv, CursorInv
<1>2. Genuine(a \o b, committed) /\ Fifo(a \o b, Done') /\ (WalRuns => Covers(cur, a \o b, Done'))
  BY <1>1, Removes
<1>3. RingInv'
  BY <1>2 DEF RingInv
<1>4. CursorInv'
  BY <1>2 DEF FeedInv, CursorInv, WalRuns, InLoop
<1>5. StoredInv'
  BY DEF StoredInv
<1> QED BY <1>3, <1>4, <1>5 DEF FeedInv

(* The ring, with a part of its queue taken out of the middle.             *)
LEMMA Associates ==
    \A s, t, u \in Seq(EventSet) : s \o t \in Seq(EventSet) /\ (s \o t) \o u = s \o (t \o u)
BY Concat, ConcatAssociative

LEMMA TakenOut ==
    ASSUME NEW a, NEW x, NEW t, {a, x, t, txbuf} \subseteq Seq(EventSet),
           batch \o pending = a \o (x \o t), batch' \o pending' = a \o t, txbuf' = txbuf
    PROVE  /\ t \o txbuf \in Seq(EventSet)
           /\ Ring = a \o (x \o (t \o txbuf))
           /\ Ring' = a \o (t \o txbuf)
<1> DEFINE C(p, q) == p \o q
           E == Seq(EventSet)
<1>1. \A p, q, r \in E : C(p, q) \in E /\ C(C(p, q), r) = C(p, C(q, r))
  BY Associates
<1>2. a \in E /\ x \in E /\ t \in E /\ txbuf \in E
  OBVIOUS
<1>3. Ring = C(C(a, C(x, t)), txbuf) /\ Ring' = C(C(a, t), txbuf)
  BY DEF Ring
<1> HIDE DEF C, E
<1>4. /\ C(t, txbuf) \in E
      /\ C(C(a, C(x, t)), txbuf) = C(a, C(x, C(t, txbuf)))
      /\ C(C(a, t), txbuf) = C(a, C(t, txbuf))
  BY <1>1, <1>2
<1> QED BY <1>3, <1>4 DEF C, E

(* An event that failed to be appended is done with: it is excused.        *)
LEMMA DroppedIsDone ==
    ASSUME TypeInv, FeedInv, committed' = committed,
           NEW n \in DOMAIN pending, pending[n].id \in dropped'
    PROVE  Ids(<<pending[n]>>) \subseteq Done'
<1> DEFINE e == pending[n]
<1>1. Genuine(pending, committed)
  <2>1. batch \in Seq(EventSet) /\ pending \in Seq(EventSet) /\ txbuf \in Seq(EventSet)
    BY DEF TypeInv, TypeOK
  <2>2. Genuine(batch \o pending, committed)
    BY <2>1, RingType, Truncates DEF TypeInv, FeedInv, RingInv, Ring
  <2> QED BY <2>1, <2>2, Truncates
<1>2. DOMAIN <<e>> = {1} /\ <<e>>[1] = e
  OBVIOUS
<1>3. e.id[1] <= committed
  <2>1. CASE IsBoot(e)
    BY <2>1, ConstantsAssumption DEF IsBoot, TypeInv, TypeOK
  <2>2. CASE ~IsBoot(e)
    <3>1. PICK t \in Txn : t <= committed /\ \E i \in DOMAIN Rows[t] : e = Event(t, i)
      BY <1>1, <2>2 DEF Genuine
    <3> QED BY <3>1 DEF Event
  <2> QED BY <2>1, <2>2
<1>4. e.id \in Settled' /\ e.id \notin Untold'
  BY DEF Settled, Excused, Untold
<1>5. e.id \in Done'
  BY <1>3, <1>4 DEF Done, Known
<1> QED BY <1>2, <1>5 DEF Ids

LEMMA FlushFeedInv == TypeInv /\ FeedInv /\ FlushThread => FeedInv'
<1> SUFFICES ASSUME TypeInv, FeedInv, FlushThread PROVE FeedInv'
  OBVIOUS
<1> USE DEF pgVars, walVars, sharedVars, flushVars, natsVars, boundVars
<1>0. FeedInv /\ TypeInv /\ TypeOK /\ [Next]_vars
  BY DEF TypeInv, Next
<1>a. /\ batch \in Seq(EventSet) /\ pending \in Seq(EventSet) /\ txbuf \in Seq(EventSet)
      /\ batch \o pending \in Seq(EventSet)
  BY <1>0, RingType DEF TypeOK
<1>b. members \subseteq members' => Done \subseteq Done'
  BY <1>0, DoneStep
<1>1. CASE FlushPop
  <2>1. Append(batch, Head(pending)) \o Tail(pending) = batch \o pending
    BY <1>a, <1>1, MoveHead DEF FlushPop
  <2>2. Ring' = Ring
    BY <1>1, <2>1 DEF FlushPop, Ring
  <2> QED BY <1>0, <1>1, <1>b, <2>2, FlushStep DEF FlushPop
<1>2. CASE FlushAppendFails
  <2> DEFINE h == Head(pending)
             t == Tail(pending)
  <2>1. h \in EventSet /\ t \in Seq(EventSet) /\ pending = <<h>> \o t
    BY <1>a, <1>2, HeadAndTail DEF FlushAppendFails
  <2>2. <<h>> \in Seq(EventSet)
    BY <2>1
  <2>3. /\ UNCHANGED <<batch, txbuf, cur, wpc, committed, members>>
        /\ pending' = t /\ h.id \in dropped' /\ fpc' # "confirm"
    BY <1>2 DEF FlushAppendFails
  <2> HIDE DEF h, t
  <2>4. /\ t \o txbuf \in Seq(EventSet)
        /\ Ring = batch \o (<<h>> \o (t \o txbuf)) /\ Ring' = batch \o (t \o txbuf)
    <3> DEFINE x == <<h>>
    <3>1. x \in Seq(EventSet) /\ batch \o pending = batch \o (x \o t)
      BY <2>1, <2>2
    <3>2. batch' \o pending' = batch \o t /\ txbuf' = txbuf
      BY <2>3
    <3> HIDE DEF x
    <3>3. {batch, x, t, txbuf} \subseteq Seq(EventSet)
      BY <1>a, <2>1, <3>1
    <3>4. /\ t \o txbuf \in Seq(EventSet)
          /\ Ring = batch \o (x \o (t \o txbuf)) /\ Ring' = batch \o (t \o txbuf)
      BY <3>1, <3>2, <3>3, TakenOut, ZenonT(60)
    <3> QED BY <3>4 DEF x
  <2>5. Ids(<<h>>) \subseteq Done'
    <3>1. 1 \in DOMAIN pending /\ h = pending[1]
      BY <1>a, <1>2, EmptySeq, LenProperties DEF FlushAppendFails, h
    <3> QED BY <1>0, <2>3, <3>1, DroppedIsDone
  <2> QED BY <1>0, <1>a, <1>b, <2>2, <2>3, <2>4, <2>5, RemoveStep
<1>3. CASE FlushPopEnd
  BY <1>0, <1>3, QuietStep DEF FlushPopEnd, WalRuns, InLoop
<1>4. CASE AnnounceBatch
  BY <1>0, <1>4, QuietStep DEF AnnounceBatch, WalRuns, InLoop
<1>5. CASE FlushBegin
  BY <1>0, <1>5, QuietStep DEF FlushBegin, WalRuns, InLoop
<1>6. CASE FlushLater
  BY <1>0, <1>6, QuietStep DEF FlushLater, WalRuns, InLoop
<1>7. CASE PublishOk
  <2>1. /\ Ring' = Ring /\ UNCHANGED <<batch, txbuf, cur, wpc, committed>>
        /\ members \subseteq members'
    BY <1>7 DEF PublishOk, Ring, MembersAfter
  <2>2. Ids(batch') \subseteq Done'
    BY <1>0, <1>7, <2>1, PublishedIsDone DEF Ids
  <2> QED BY <1>0, <1>b, <2>1, <2>2, FlushStep
<1>8. CASE PublishFail \/ PublishRefused
  <2>1. /\ Ring' = Ring /\ UNCHANGED <<txbuf, cur, wpc, committed>>
        /\ members \subseteq members'
    BY <1>8 DEF PublishFail, PublishRefused, FailsAt, Ring, MembersAfter
  <2>2. fpc' # "confirm"
    BY <1>8 DEF PublishFail, PublishRefused, RetryOrGiveUp, AfterFlush
  <2> QED BY <1>0, <1>b, <2>1, <2>2, FlushStep
<1>9. CASE ConfirmBatch
  <2> DEFINE rest == pending \o txbuf
  <2>1. Ids(batch) \subseteq Done /\ rest \in Seq(EventSet)
    BY <1>0, <1>9, <1>a, Concat DEF FeedInv, StoredInv, ConfirmBatch
  <2>2. /\ UNCHANGED <<txbuf, pending, cur, wpc, committed, members>>
        /\ batch' = <<>> /\ fpc' # "confirm"
    BY <1>9 DEF ConfirmBatch, AfterFlush
  <2>3. <<>> \in Seq(EventSet) /\ <<>> \o pending = pending
    BY <1>a, ConcatEmptySeq, EmptySeq
  <2>4. Ring = batch \o rest /\ Ring' = rest
    BY <1>a, <2>2, <2>3, ConcatAssociative DEF Ring
  <2> HIDE DEF rest
  <2>5. batch \o rest \in Seq(EventSet)
    BY <1>a, <2>1, Concat
  <2>6. <<>> \o (batch \o rest) = batch \o rest /\ <<>> \o rest = rest
    BY <2>1, <2>5, ConcatEmptySeq
  <2> QED BY <1>0, <1>a, <1>b, <2>1, <2>2, <2>3, <2>4, <2>6, RemoveStep
<1>10. CASE FlushStop
  <2>1. (batch \o pending) \o <<>> = batch \o pending
    BY <1>a, ConcatEmptySeq
  <2>2. Ring' = Ring /\ UNCHANGED <<txbuf, cur, wpc, committed, members>> /\ fpc' # "confirm"
    BY <1>10, <2>1 DEF FlushStop, LastFlush, Ring
  <2> QED BY <1>0, <1>b, <2>2, FlushStep
<1>11. CASE FlushStopAppendFails
  <2>1. PICK n \in DOMAIN pending :
          /\ batch' = batch \o SubSeq(pending, 1, n - 1)
          /\ dropped' = dropped \cup {pending[n].id}
          /\ pending' = SubSeq(pending, n + 1, Len(pending))
    BY <1>11 DEF FlushStopAppendFails
  <2> DEFINE u == SubSeq(pending, 1, n - 1)
             e == pending[n]
             t == SubSeq(pending, n + 1, Len(pending))
  <2>2. /\ u \in Seq(EventSet) /\ e \in EventSet /\ t \in Seq(EventSet)
        /\ pending = u \o (<<e>> \o t)
    <3>1. \A i \in DOMAIN pending : pending[i] \in EventSet
      BY <1>a, EventTypes
    <3>2. u \in Seq(EventSet) /\ t \in Seq(EventSet) /\ pending = u \o (<<e>> \o t)
      BY <1>a, <2>1, SplitAt
    <3> QED BY <2>1, <3>1, <3>2
  <2>3. <<e>> \in Seq(EventSet)
    BY <2>2
  <2>4. /\ UNCHANGED <<txbuf, cur, wpc, committed, members>>
        /\ batch' = batch \o u /\ pending' = t /\ e.id \in dropped' /\ fpc' # "confirm"
    BY <1>11, <2>1 DEF FlushStopAppendFails, LastFlush
  <2> HIDE DEF u, e, t
  <2>5. batch \o u \in Seq(EventSet) /\ <<e>> \o t \in Seq(EventSet)
    BY <1>a, <2>2, <2>3, Concat
  <2>6. batch \o pending = (batch \o u) \o (<<e>> \o t)
    BY <1>a, <2>2, <2>5, ConcatAssociative, SMTT(30)
  <2>7. /\ t \o txbuf \in Seq(EventSet)
        /\ Ring = (batch \o u) \o (<<e>> \o (t \o txbuf))
        /\ Ring' = (batch \o u) \o (t \o txbuf)
    <3> DEFINE x == <<e>>
               bu == batch \o u
    <3>1. x \in Seq(EventSet) /\ bu \in Seq(EventSet) /\ batch \o pending = bu \o (x \o t)
      BY <2>3, <2>5, <2>6
    <3>2. batch' \o pending' = bu \o t /\ txbuf' = txbuf
      BY <2>4
    <3> HIDE DEF x, bu
    <3>3. {bu, x, t, txbuf} \subseteq Seq(EventSet)
      BY <1>a, <2>2, <3>1
    <3>4. /\ t \o txbuf \in Seq(EventSet)
          /\ Ring = bu \o (x \o (t \o txbuf)) /\ Ring' = bu \o (t \o txbuf)
      BY <3>1, <3>2, <3>3, TakenOut, Zenon
    <3> QED BY <3>4 DEF x, bu
  <2>8. Ids(<<e>>) \subseteq Done'
    BY <1>0, <2>1, <2>4, DroppedIsDone DEF e
  <2> QED BY <1>0, <1>b, <2>3, <2>4, <2>5, <2>7, <2>8, RemoveStep
<1> QED BY <1>1, <1>2, <1>3, <1>4, <1>5, <1>6, <1>7, <1>8, <1>9, <1>10, <1>11 DEF FlushThread

LEMMA FeedInit ==
    ASSUME BootStamped = FALSE
    PROVE  Init => FeedInv
<1> SUFFICES ASSUME Init PROVE FeedInv
  OBVIOUS
<1>1. /\ batch = <<>> /\ pending = BootEvents /\ txbuf = <<>>
      /\ cur = [t |-> 1, i |-> 0] /\ fpc = "collect"
  BY DEF Init
<1>2. Ring = BootEvents
  <2>1. BootEvents \in Seq(EventSet)
    BY BootEventsType DEF Init
  <2>2. <<>> \o BootEvents = BootEvents /\ BootEvents \o <<>> = BootEvents
    BY <2>1, ConcatEmptySeq
  <2> QED BY <1>1, <2>2 DEF Ring
<1>3. RingInv
  BY <1>2, BootQueue, BootRing DEF RingInv
<1>4. Covers(cur, Ring, Done)
  <2> SUFFICES ASSUME NEW u \in Txn, NEW j \in DOMAIN Rows[u], Before(<<u, j>>, <<1, 0>>)
               PROVE  FALSE
    BY <1>1 DEF Covers
  <2> QED BY RowFacts DEF Before, Txn
<1> QED BY <1>1, <1>3, <1>4 DEF FeedInv, CursorInv, StoredInv

(* A boot has made the streams of whatever was mapped before it.           *)
LEMMA BootDone ==
    ASSUME TypeInv, Boot
    PROVE  Known \subseteq Done'
<1>0. [Next]_vars
  BY DEF Next
<1>1. Known \subseteq Known' /\ committed \in Nat
  BY <1>0, DoneStep
<1> SUFFICES ASSUME NEW r \in Known, r \in AllRows
             PROVE  Rows[r[1]][r[2]].maps \subseteq streams'
  BY <1>1 DEF Done, Untold
<1>2. PICK t \in Txn : \E i \in DOMAIN Rows[t] : r = <<t, i>>
  BY AllRowsAre
<1>3. PICK i \in DOMAIN Rows[t] : r = <<t, i>>
  BY <1>2
<1>4. t \in 1..committed
  BY <1>1, <1>3, ConstantsAssumption DEF Known, Txn
<1>5. Rows[t][i].maps \subseteq Mapped(committed)
  BY <1>4 DEF Mapped
<1> QED BY <1>3, <1>5 DEF Boot

(* No step breaks the feed, as long as the slot only passes what is held.  *)
LEMMA FeedStep ==
    ASSUME BootStamped = FALSE
    PROVE  TypeInv /\ FeedInv /\ Resumable /\ [Next]_vars => FeedInv'
<1> SUFFICES ASSUME TypeInv, FeedInv, Resumable, [Next]_vars PROVE FeedInv'
  OBVIOUS
<1> USE DEF pgVars, walVars, sharedVars, flushVars, natsVars, boundVars
<1>1. CASE NatsDown
  BY <1>1, QuietStep DEF NatsDown, WalRuns, InLoop
<1>2. CASE NatsRecovers
  BY <1>2, QuietStep DEF NatsRecovers, WalRuns, InLoop
<1>3. CASE Crash
  BY <1>3, EndOfMemory DEF Crash
<1>4. CASE Boot
  <2>1. SafeLsn(slot, Known \cup Ids(<<>>))
    <3>1. Ids(<<>>) = {} /\ SafeLsn(slot, Known)
      BY <1>4 DEF Ids, Resumable, Boot
    <3>2. Known \cup {} = Known
      OBVIOUS
    <3> QED BY <3>1, <3>2
  <2>2. Covers(cur', <<>>, Known)
    BY <1>4, <2>1, ResumeCovers DEF Boot
  <2>3. Covers(cur', <<>>, Done')
    BY <1>4, <2>2, BootDone, Grows
  <2>4. BootEvents \in Seq(EventSet)
    BY BootEventsType DEF TypeInv, TypeOK
  <2>5. ProcessMemory("recv", BootEvents)
    BY <1>4 DEF Boot
  <2> QED BY <2>3, <2>4, <2>5, BootQueue, NewMemory
<1>5. CASE UNCHANGED vars
  BY <1>5, QuietStep DEF vars, WalRuns, InLoop
<1> QED BY <1>1, <1>2, <1>3, <1>4, <1>5, PostgresFeedInv, WalLoopFeedInv, FlushFeedInv DEF Next

-----------------------------------------------------------------------------
(* Acknowledged positions, while no keepalive is answered.                 *)

LEMMA SlotAfterSafe ==
    ASSUME NEW l, NEW P, SafeLsn(slot, P), SafeLsn(l, P)
    PROVE  SafeLsn(SlotAfter(l), P)
BY DEF SlotAfter

(* The only steps that touch what is confirmed, or what is acknowledged.   *)
LEMMA AckSteps ==
    ASSUME [Next]_vars
    PROVE  \/ ProcessEnds /\ (slot' = slot \/ slot' = SlotAfter(confirmed))
           \/ Boot
           \/ AckConfirmed \/ Heartbeat \/ Keepalive
           \/ ConfirmBatch
           \/ UNCHANGED <<slot, lastAck, latestEnd, confirmed>>
<1> USE DEF vars, pgVars, walVars, sharedVars, flushVars, natsVars, boundVars
<1>1. CASE Postgres
  BY <1>1 DEF Postgres, PgCommit, StreamLost, PgFastShutdown, WalsenderDone, PgRestart
<1>2. CASE WalLoop
  <2>1. CASE AckConfirmed \/ Heartbeat \/ Keepalive
    BY <2>1 DEF AckConfirmed, Heartbeat, Keepalive, ReceiveKeepalive
  <2>2. CASE AcquireTimeout \/ FinalAck
    BY <2>2 DEF AcquireTimeout, FinalAck
  <2>3. CASE \/ ReceiveBegin \/ ReceiveRow \/ AcquireSlot \/ ReceiveCommit \/ ReleaseSlot
             \/ ReleaseDone \/ MonitorSeesShutdown \/ StepAside \/ Reconnect
             \/ SlotHeldByAnother \/ FatalStop \/ SignalStop
    BY <2>3 DEF ReceiveBegin, ReceiveRow, AcquireSlot, ReceiveCommit, ReleaseSlot, ReleaseDone,
                MonitorSeesShutdown, StepAside, Reconnect, SlotHeldByAnother, FatalStop, SignalStop
  <2> QED BY <1>2, <2>1, <2>2, <2>3 DEF WalLoop
<1>3. CASE FlushThread
  BY <1>3 DEF FlushThread, FlushPop, FlushAppendFails, FlushPopEnd, AnnounceBatch, FlushBegin,
              FlushLater, PublishOk, PublishFail, PublishRefused, ConfirmBatch,
              FlushStop, FlushStopAppendFails, LastFlush
<1>4. CASE NatsDown \/ NatsRecovers \/ Crash \/ Boot \/ UNCHANGED vars
  BY <1>4 DEF NatsDown, NatsRecovers, Crash, Boot
<1> QED BY <1>1, <1>2, <1>3, <1>4 DEF Next

LEMMA DeadStaysDead ==
    ASSUME [Next]_vars, wpc = "exited", ~Boot
    PROVE  wpc' = "exited"
<1> USE DEF vars, pgVars, walVars, sharedVars, flushVars, natsVars, boundVars
<1>1. CASE Postgres
  BY <1>1 DEF Postgres, PgCommit, StreamLost, PgFastShutdown, WalsenderDone, PgRestart
<1>2. CASE WalLoop
  BY <1>2 DEF WalLoop, ReceiveBegin, ReceiveRow, AcquireSlot, AcquireTimeout, ReceiveCommit,
              ReleaseSlot, ReleaseDone, AckConfirmed, Heartbeat, Keepalive, ReceiveKeepalive,
              MonitorSeesShutdown, StepAside, Reconnect, SlotHeldByAnother, FatalStop,
              SignalStop, FinalAck, InLoop
<1>3. CASE FlushThread
  BY <1>3 DEF FlushThread, FlushPop, FlushAppendFails, FlushPopEnd, AnnounceBatch, FlushBegin,
              FlushLater, PublishOk, PublishFail, PublishRefused, ConfirmBatch,
              FlushStop, FlushStopAppendFails, LastFlush, FlushRuns
<1>4. CASE NatsDown \/ NatsRecovers \/ Crash \/ UNCHANGED vars
  BY <1>4 DEF NatsDown, NatsRecovers, Crash
<1> QED BY <1>1, <1>2, <1>3, <1>4 DEF Next

(* What a batch confirms may be acknowledged.                              *)
LEMMA ConfirmBatchSafe ==
    ASSUME TypeInv, FeedInv, ConfirmBatch
    PROVE  confirmed' = confirmed \/ SafeLsn(confirmed', Done)
<1> SUFFICES ASSUME confirmed' # confirmed PROVE SafeLsn(confirmed', Done)
  OBVIOUS
<1>1. /\ batch \in Seq(EventSet) /\ pending \o txbuf \in Seq(EventSet)
      /\ Ring = batch \o (pending \o txbuf)
  <2>1. /\ batch \in Seq(EventSet) /\ pending \in Seq(EventSet) /\ txbuf \in Seq(EventSet)
    BY DEF TypeInv, TypeOK
  <2>2. (batch \o pending) \o txbuf = batch \o (pending \o txbuf)
    BY <2>1, ConcatAssociative
  <2> QED BY <2>1, <2>2, Concat DEF Ring
<1>2. PICK k \in DOMAIN batch : confirmed' = batch[k].lsn
  BY DEF ConfirmBatch
<1>3. Ids(batch) \subseteq Done
  BY DEF FeedInv, StoredInv, ConfirmBatch
<1> QED BY <1>1, <1>2, <1>3, ConfirmedIsSafe DEF FeedInv, RingInv

LEMMA InitIInv ==
    ASSUME BootStamped = FALSE
    PROVE  Init => IInv
<1> SUFFICES ASSUME Init PROVE IInv
  OBVIOUS
<1>1. \A P : SafeLsn(0, P)
  BY WalAssumption DEF SafeLsn
<1> QED BY <1>1, InitTypeInv, FeedInit DEF IInv, AckInv, Init

LEMMA NextIInv ==
    ASSUME Keepalives = {}, BootStamped = FALSE
    PROVE  IInv /\ [Next]_vars => IInv'
<1> SUFFICES ASSUME IInv, [Next]_vars PROVE AckInv'
  <2>1. IInv => Resumable
    <3>1. Done \subseteq Done \cup Ids(batch \o pending)
      OBVIOUS
    <3> QED BY <3>1, Grows DEF IInv, AckInv, Resumable, Held
  <2> QED BY <2>1, NextTypeInv, FeedStep DEF IInv
<1> USE DEF IInv, AckInv
<1>0. \A P : SafeLsn(0, P)
  BY WalAssumption DEF SafeLsn
<1>1. /\ Known \subseteq Known' /\ SafeLsn(slot, Known') /\ SafeLsn(confirmed, Known')
  BY DoneStep, Grows
<1>2. CASE ProcessEnds /\ (slot' = slot \/ slot' = SlotAfter(confirmed))
  BY <1>0, <1>1, <1>2, SlotAfterSafe DEF ProcessEnds, ProcessMemory
<1>3. CASE Boot
  <2>1. SafeLsn(slot, Done')
    BY <1>3, BootDone, Grows
  <2> QED BY <1>0, <1>1, <1>3, <2>1 DEF Boot, ProcessMemory
<1>a. ASSUME wpc # "exited", wpc' # "exited"
      PROVE  /\ Done \subseteq Done' /\ latestEnd = 0
             /\ SafeLsn(slot, Done') /\ SafeLsn(lastAck, Done') /\ SafeLsn(confirmed, Done')
  BY <1>a, DoneStep, Grows DEF Boot
<1>4. CASE AckConfirmed
  <2>1. wpc # "exited" /\ wpc' # "exited"
    BY <1>4 DEF AckConfirmed, InLoop
  <2> QED BY <1>1, <1>a, <1>4, <2>1, SlotAfterSafe DEF AckConfirmed, sharedVars
<1>5. CASE Heartbeat
  <2>1. wpc # "exited" /\ wpc' # "exited"
    BY <1>5 DEF Heartbeat, InLoop
  <2>2. lastAck' = lastAck
    BY <1>a, <1>5, <2>1 DEF Heartbeat, FastAck, TypeInv, TypeOK
  <2>3. SafeLsn(lastAck, Known')
    <3>1. Done' \subseteq Known'
      BY DEF Done
    <3> QED BY <1>a, <2>1, <3>1, Grows
  <2> QED BY <1>1, <1>a, <1>5, <2>1, <2>2, <2>3, SlotAfterSafe DEF Heartbeat, sharedVars
<1>6. CASE Keepalive
  BY <1>6 DEF Keepalive
<1>7. CASE ConfirmBatch
  <2>1. wpc # "exited" /\ wpc' # "exited"
    BY <1>7 DEF ConfirmBatch, FlushRuns, walVars
  <2>2. SafeLsn(confirmed', Done')
    BY <1>7, <1>a, <2>1, ConfirmBatchSafe, Grows
  <2>3. SafeLsn(confirmed', Known')
    <3>1. Done' \subseteq Known'
      BY DEF Done
    <3> QED BY <2>2, <3>1, Grows
  <2> QED BY <1>1, <1>7, <1>a, <2>1, <2>2, <2>3 DEF ConfirmBatch, pgVars, walVars
<1>8. CASE ~Boot /\ UNCHANGED <<slot, lastAck, latestEnd, confirmed>>
  <2>1. wpc' # "exited" => wpc # "exited"
    BY <1>8, DeadStaysDead
  <2> QED BY <1>1, <1>8, <1>a, <2>1
<1> QED BY <1>2, <1>3, <1>4, <1>5, <1>6, <1>7, <1>8, AckSteps

(* PostgreSQL never forgets a row that a client is owed and NATS does not   *)
(* have.  Acknowledging the largest row LSN of a published batch            *)
(* (updateConfirmedLsn, and the periodic, byte-threshold and final status   *)
(* updates) is safe although the LSNs of the stream are not monotone, and   *)
(* although a row without a stream counts as delivered while nobody is      *)
(* mapped to its tenant: for every history of rows and mappings, every      *)
(* ring, batch and retry bound, and every crash, loss, outage, failed       *)
(* publish, failed reload of the catalogue and restart.  Not owed are the   *)
(* rows no member was mapped to yet, and those whose append failed for want *)
(* of memory (Excused).  The other positions the bridge acknowledges are    *)
(* the walsender's own, in answer to a keepalive, and the WAL head a boot   *)
(* stamps its own events with; both are excluded, and on both the property  *)
(* fails (runs CdcReply and CdcBootSuspension).                             *)
THEOREM ConfirmedAcksLoseNothing ==
    ASSUME Keepalives = {}, BootStamped = FALSE
    PROVE  Spec => []AckedIsPublished
<1>1. IInv => AckedIsPublished
  BY DEF IInv, AckInv, AckedIsPublished, SafeLsn, Acked, Known
<1> QED BY <1>1, InitIInv, NextIInv, PTL DEF Spec
=============================================================================
