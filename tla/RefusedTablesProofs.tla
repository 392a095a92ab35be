------------------------- MODULE RefusedTablesProofs -------------------------
(***************************************************************************)
(* Proofs about RefusedTables, for every set of transactions and every     *)
(* bound: type correctness, that clients are told of a suspension, and     *)
(* that a lift re-seeds what was counted as dropped.                       *)
(***************************************************************************)
EXTENDS RefusedTables, WellFoundedInduction, TLAPS

\* The announcements of a buffer, the last of them, and what clients will
\* hold once it is handed over, stated without a choice.
SaidIn(b)     == {i \in DOMAIN b : b[i].k \in Announcements}
IsLast(b, i)  == i \in SaidIn(b) /\ \A j \in SaidIn(b) : j <= i
HasLast(b)    == SaidIn(b) = {} \/ \E i \in SaidIn(b) : IsLast(b, i)
Telling(b, d) == IF SaidIn(b) = {} THEN d = "suspended"
                 ELSE \E i \in SaidIn(b) : IsLast(b, i) /\ b[i].k = "suspended"

Booting == {"read", "inherit", "schemas"}

\* A row event in the buffer has a place in the WAL, and a last announcement
\* exists if there is one at all.
BufferOK ==
    /\ \A i \in DOMAIN txbuf : txbuf[i].k = "row" => txbuf[i].n \in 1..Len(wal)
    /\ HasLast(txbuf)

\* A boot starts with an empty buffer and nothing counted.
BootIsFresh == phase \in Booting => counted = {} /\ txbuf = << >>

\* While a table is refused, or just lifted by a probe, the last word clients
\* get is the suspension.
Told ==
    phase \in {"run", "republish"} /\ ~discarded /\ (active \/ phase = "republish")
        => Telling(txbuf, kv)

TypeInv == TypeOK /\ BufferOK
Inv     == TypeInv /\ BootIsFresh /\ Told /\ CountedDropsAreReseeded

-----------------------------------------------------------------------------
\* A non-empty set of naturals below a bound has a largest element.
LEMMA Largest ==
    ASSUME NEW hi \in Nat, NEW S \in SUBSET (0..hi), S # {}
    PROVE  \E j \in S : \A h \in S : h <= j
<1> DEFINE U == {k \in Nat : \A h \in S : h <= k}
           R == OpToRel(<, Nat)
<1>1. hi \in U
  OBVIOUS
<1>2. \A x, y \in Nat : x < y => <<x, y>> \in R
  BY DEF OpToRel
<1>3. PICK u \in U : \A y \in U : ~ (<<y, u>> \in R)
  <2>1. IsWellFoundedOn(R, Nat)
    BY NatLessThanWellFounded
  <2> HIDE DEF R
  <2> QED
    BY <1>1, <2>1, WFMin
<1>4. u \in S
  <2> HIDE DEF R
  <2>1. SUFFICES ASSUME u \notin S PROVE FALSE
    OBVIOUS
  <2>2. \A h \in S : h <= u - 1
    BY <2>1
  <2>4. PICK g \in S : TRUE
    OBVIOUS
  <2>5. g <= u /\ g # u /\ g \in Nat /\ u \in Nat
    BY <2>1, <2>4
  <2>3. u - 1 \in U /\ u - 1 < u
    BY <2>2, <2>5
  <2> QED
    BY <1>2, <1>3, <2>3
<1> QED
  BY <1>4

(* The buffer.                                                              *)

\* Appending a row event leaves the announcements as they are.
LEMMA AppendRow ==
    ASSUME NEW b \in Seq(Slot), NEW s \in Slot, s.k = "row"
    PROVE  /\ Append(b, s) \in Seq(Slot)
           /\ SaidIn(Append(b, s)) = SaidIn(b)
           /\ \A i \in SaidIn(b) : Append(b, s)[i] = b[i]
  BY DEF SaidIn, Announcements, Slot

\* An appended announcement is the last one.
LEMMA AppendSaid ==
    ASSUME NEW b \in Seq(Slot), NEW s \in Slot, s.k \in Announcements
    PROVE  /\ Append(b, s) \in Seq(Slot)
           /\ IsLast(Append(b, s), Len(b) + 1)
           /\ Append(b, s)[Len(b) + 1] = s
<1> DEFINE c == Append(b, s)
<1>1. c \in Seq(Slot) /\ Len(c) = Len(b) + 1 /\ c[Len(b) + 1] = s
  OBVIOUS
<1>2. DOMAIN c = 1..(Len(b) + 1) /\ Len(b) \in Nat
  BY <1>1
<1>3. IsLast(c, Len(b) + 1)
  BY <1>1, <1>2 DEF IsLast, SaidIn
<1> QED
  BY <1>1, <1>3

\* A telling buffer is one whose last announcement is a suspension.
LEMMA TellingIsLastSaid ==
    ASSUME TypeOK, Telling(txbuf, kv)
    PROVE  LastSaid = "suspended"
<1>1. CASE SaidIn(txbuf) = {}
  BY <1>1 DEF Telling, LastSaid, SaidIn
<1>2. CASE SaidIn(txbuf) # {}
  <2>1. PICK i \in SaidIn(txbuf) : IsLast(txbuf, i) /\ txbuf[i].k = "suspended"
    BY <1>2 DEF Telling
  <2> DEFINE said == {j \in DOMAIN txbuf : txbuf[j].k \in Announcements}
             last == CHOOSE j \in said : \A h \in said : h <= j
  <2>2. said = SaidIn(txbuf)
    BY DEF SaidIn
  <2>3. last \in said /\ \A h \in said : h <= last
    BY <2>1, <2>2 DEF IsLast
  <2>4. said \subseteq Nat
    BY DEF TypeOK
  <2>5. last = i
    BY <2>1, <2>2, <2>3, <2>4 DEF IsLast
  <2>6. LastSaid = txbuf[last].k
    BY <1>2, <2>2 DEF LastSaid
  <2> QED
    BY <2>1, <2>5, <2>6
<1> QED
  BY <1>1, <1>2

\* The last word is an announcement.
LEMMA LastSaidType ==
    ASSUME TypeOK, HasLast(txbuf)
    PROVE  LastSaid \in Announcements
<1>1. CASE SaidIn(txbuf) = {}
  BY <1>1 DEF TypeOK, LastSaid, SaidIn
<1>2. CASE SaidIn(txbuf) # {}
  <2> DEFINE said == {j \in DOMAIN txbuf : txbuf[j].k \in Announcements}
             last == CHOOSE j \in said : \A h \in said : h <= j
  <2>1. \E j \in said : \A h \in said : h <= j
    BY <1>2 DEF HasLast, IsLast, SaidIn
  <2>2. last \in said
    BY <2>1
  <2>3. LastSaid = txbuf[last].k
    BY <1>2 DEF LastSaid, SaidIn
  <2> QED
    BY <2>2, <2>3
<1> QED
  BY <1>1, <1>2

-----------------------------------------------------------------------------
(* Types.                                                                   *)

\* The shape a transaction leaves is a shape.
LEMMA ShapeAfterType ==
    ASSUME TypeOK, NEW tx \in Seq(RowEvent \cup DdlEvent), NEW i \in 0..Len(tx)
    PROVE  ShapeAfter(tx, i) \in Shapes
<1> DEFINE ddls == {j \in 1..i : tx[j].k = "ddl"}
           last == CHOOSE j \in ddls : \A h \in ddls : h <= j
<1>1. CASE ddls = {}
  BY <1>1 DEF ShapeAfter, TypeOK
<1>2. CASE ddls # {}
  <2>1. i \in Nat /\ ddls \in SUBSET (0..i)
    OBVIOUS
  <2>2. \E j \in ddls : \A h \in ddls : h <= j
    BY <1>2, <2>1, Largest
  <2>3. last \in ddls
    BY <2>2
  <2>4. ShapeAfter(tx, i) = tx[last].shape
    BY <1>2 DEF ShapeAfter
  <2>5. last \in 1..Len(tx) /\ tx[last].k = "ddl"
    BY <2>3
  <2>6. tx[last] \in DdlEvent
    BY <2>5 DEF RowEvent, DdlEvent
  <2> QED
    BY <2>4, <2>6 DEF DdlEvent
<1> QED
  BY <1>1, <1>2

\* A commit appends well-formed events.
LEMMA PgCommitType ==
    ASSUME TypeInv, NEW tx \in Transactions, PgCommit(tx)
    PROVE  TypeInv'
<1> DEFINE more == [i \in 1..Len(tx) |-> [e |-> tx[i], shape |-> ShapeAfter(tx, i),
                                          ends |-> i = Len(tx)]]
<1>1. tx \in Seq(RowEvent \cup DdlEvent)
  BY RefusedAssumption
<1>2. more \in Seq(WalEvent) /\ Len(more) = Len(tx)
  BY <1>1, ShapeAfterType DEF TypeInv, WalEvent
<1>3. wal' = wal \o more
  BY DEF PgCommit
<1>4. wal' \in Seq(WalEvent) /\ Len(wal') = Len(wal) + Len(tx)
  <2>1. wal \in Seq(WalEvent)
    BY DEF TypeInv, TypeOK
  <2> HIDE DEF more
  <2>2. wal \o more \in Seq(WalEvent) /\ Len(wal \o more) = Len(wal) + Len(more)
    BY <2>1, <1>2
  <2> QED
    BY <2>2, <1>2, <1>3
<1>5. shape' \in Shapes
  BY <1>1, ShapeAfterType DEF PgCommit, TypeInv
<1>6. wideRows' \subseteq RowIds
  BY DEF PgCommit, WidthsAfter
<1>7. Len(wal') <= MaxEvents /\ 1..Len(wal) \subseteq 1..Len(wal')
      /\ 0..Len(wal) \subseteq 0..Len(wal') /\ acked..Len(wal) \subseteq acked..Len(wal')
  BY <1>1, <1>4 DEF PgCommit, TypeInv, TypeOK
<1>8. TypeOK'
  BY <1>4, <1>5, <1>6, <1>7 DEF PgCommit, entry, threadVars, streamVars, history, TypeInv, TypeOK
<1>9. BufferOK'
  BY <1>7 DEF PgCommit, threadVars, TypeInv, TypeOK, BufferOK, HasLast, IsLast, SaidIn
<1> QED
  BY <1>8, <1>9 DEF TypeInv

\* What a received event leaves well typed.
LEMMA ReceiveType ==
    ASSUME TypeInv, NEW kind, Receive(kind), UNCHANGED <<wal, acked>>
    PROVE  /\ n \in 1..Len(wal) /\ wal[n] \in WalEvent /\ wal[n].e.k = kind
           /\ pos' \in acked..Len(wal) /\ open' \in BOOLEAN
  BY DEF TypeInv, TypeOK, Receive, n

\* Counting failures stays within the bound.
LEMMA FaultsType ==
    ASSUME TypeInv, NEW bad, MayFail(bad)
    PROVE  faults' \in 0..MaxFaults
  BY RefusedAssumption DEF TypeInv, TypeOK, MayFail

\* refuse writes only the entry, its mirror and the count of faults.
LEMMA RefuseType ==
    ASSUME TypeInv, NEW why \in Reasons, NEW bad, refuse(why, bad)
    PROVE  /\ active' \in BOOLEAN /\ reason' \in Reasons /\ cooled' \in BOOLEAN
           /\ mirror' \in Reasons \cup {"none"} /\ faults' \in 0..MaxFaults
<1>1. faults' \in 0..MaxFaults
  BY FaultsType DEF refuse
<1>2. cooled' \in BOOLEAN /\ mirror' \in Reasons \cup {"none"}
  BY DEF refuse, mirrorToCatalogue, TypeInv, TypeOK
<1> QED
  BY <1>1, <1>2 DEF refuse

\* A re-seed moves the seed within the WAL.
LEMMA ReseedType ==
    ASSUME TypeInv, NEW bad, reseedAfterLift(bad)
    PROVE  seeded' \in 0..Len(wal) /\ unseeded' \in BOOLEAN
  BY DEF reseedAfterLift, TypeInv, TypeOK

\* clear writes only the entry, its mirror, the seed and the count of faults.
LEMMA ClearType ==
    ASSUME TypeInv, NEW bad, clear(bad)
    PROVE  /\ active' \in BOOLEAN /\ reason' \in Reasons /\ cooled' \in BOOLEAN
           /\ mirror' \in Reasons \cup {"none"} /\ faults' \in 0..MaxFaults
           /\ seeded' \in 0..Len(wal) /\ unseeded' \in BOOLEAN
<1>1. faults' \in 0..MaxFaults
  BY FaultsType DEF clear
<1>2. seeded' \in 0..Len(wal) /\ unseeded' \in BOOLEAN
  BY ReseedType DEF clear, TypeInv, TypeOK
<1>3. mirror' \in Reasons \cup {"none"}
  BY DEF clear, mirrorToCatalogue, TypeInv, TypeOK
<1> QED
  BY <1>1, <1>2, <1>3 DEF clear, TypeInv, TypeOK

\* A buffer one announcement longer is well formed.
LEMMA KeepSaid ==
    ASSUME TypeInv, NEW w \in Announcements, Keep([k |-> w]), wal' = wal
    PROVE  txbuf' \in Seq(Slot) /\ BufferOK' /\ (w = "suspended" => Telling(txbuf', kv'))
<1> DEFINE s == [k |-> w]
<1>1. s \in Slot /\ s.k \in Announcements /\ s.k # "row" /\ txbuf \in Seq(Slot)
  BY DEF Slot, Announcements, TypeInv, TypeOK
<1>2. txbuf' = Append(txbuf, s)
  BY DEF Keep
<1> HIDE DEF s
<1>3. /\ txbuf' \in Seq(Slot)
      /\ IsLast(txbuf', Len(txbuf) + 1)
      /\ txbuf'[Len(txbuf) + 1] = s
  BY <1>1, <1>2, AppendSaid
<1>4. HasLast(txbuf')
  BY <1>3 DEF HasLast, IsLast
<1>5. \A i \in DOMAIN txbuf' : txbuf'[i].k = "row" => i \in DOMAIN txbuf /\ txbuf'[i] = txbuf[i]
  BY <1>1, <1>2
<1>6. BufferOK'
  BY <1>4, <1>5 DEF BufferOK, TypeInv
<1>7. w = "suspended" => Telling(txbuf', kv')
  BY <1>3 DEF Telling, IsLast, s
<1> QED
  BY <1>3, <1>6, <1>7

\* A buffer one row event longer is well formed and says what it said.
LEMMA KeepRow ==
    ASSUME TypeInv, NEW p \in 1..Len(wal), Keep([k |-> "row", n |-> p]), wal' = wal
    PROVE  txbuf' \in Seq(Slot) /\ BufferOK' /\ (Telling(txbuf, kv) => Telling(txbuf', kv))
<1> DEFINE s == [k |-> "row", n |-> p]
<1>1. s \in Slot /\ s.k = "row" /\ s.n = p /\ txbuf \in Seq(Slot)
  BY DEF Slot, TypeInv, TypeOK
<1>2. txbuf' = Append(txbuf, s)
  BY DEF Keep
<1> HIDE DEF s
<1>3. /\ txbuf' \in Seq(Slot)
      /\ SaidIn(txbuf') = SaidIn(txbuf)
      /\ \A i \in SaidIn(txbuf) : txbuf'[i] = txbuf[i]
  BY <1>1, <1>2, AppendRow
<1>4. HasLast(txbuf')
  BY <1>3 DEF HasLast, IsLast, BufferOK, TypeInv
<1>5. \A i \in DOMAIN txbuf' : \/ i \in DOMAIN txbuf /\ txbuf'[i] = txbuf[i]
                               \/ txbuf'[i] = s
  BY <1>1, <1>2
<1>6. \A i \in DOMAIN txbuf' : txbuf'[i].k = "row" => txbuf'[i].n \in 1..Len(wal)
  BY <1>1, <1>5 DEF BufferOK, TypeInv
<1>7. BufferOK'
  BY <1>4, <1>6 DEF BufferOK
<1>8. Telling(txbuf, kv) => Telling(txbuf', kv)
  BY <1>3 DEF Telling, IsLast
<1> QED
  BY <1>3, <1>7, <1>8

\* An empty buffer is well formed.
LEMMA EmptyBuffer ==
    ASSUME txbuf' = << >>
    PROVE  txbuf' \in Seq(Slot) /\ BufferOK'
<1>1. DOMAIN txbuf' = {}
  OBVIOUS
<1> QED
  BY <1>1 DEF BufferOK, HasLast, SaidIn

\* A buffer that is left alone stays well formed.
LEMMA SameBuffer ==
    ASSUME TypeInv, UNCHANGED <<wal, txbuf>>
    PROVE  BufferOK'
  BY DEF TypeInv, BufferOK, HasLast, IsLast, SaidIn

\* The announcement pass writes only the entry, its mirror and the bucket.
LEMMA SchemasType ==
    ASSUME TypeInv, NEW bad, publishBootSchemas(bad)
    PROVE  /\ active' \in BOOLEAN /\ reason' \in Reasons /\ cooled' \in BOOLEAN
           /\ mirror' \in Reasons \cup {"none"} /\ faults' \in 0..MaxFaults
           /\ kv' \in Announcements /\ (active' => kv' = "suspended")
<1>1. Unfit(shape) \subseteq Reasons
  BY DEF Unfit, Reasons
<1>2. CASE active \/ Unfit(shape) = {}
  BY <1>2 DEF publishBootSchemas, TypeInv, TypeOK, Announcements
<1>3. CASE ~(active \/ Unfit(shape) = {})
  BY <1>1, <1>3, RefuseType DEF publishBootSchemas, Announcements
<1> QED
  BY <1>2, <1>3

LEMMA InitInv == Init => Inv
<1> SUFFICES ASSUME Init PROVE Inv
  OBVIOUS
<1>1. DOMAIN txbuf = {} /\ txbuf \in Seq(Slot) /\ wal \in Seq(WalEvent) /\ Len(wal) = 0
  BY DEF Init
<1>2. TypeOK
  <2>1. 0 \in 0..MaxLosses /\ 0 \in 0..MaxFaults /\ 0 <= MaxEvents
    BY RefusedAssumption
  <2>2. Len(wal) <= MaxEvents /\ 0 \in 0..Len(wal) /\ {} \subseteq 1..Len(wal)
    BY <1>1, <2>1
  <2>3. /\ shape \in Shapes /\ mirror \in Reasons \cup {"none"} /\ reason \in Reasons
        /\ inherited \in Reasons \cup {"none"} /\ kv \in Announcements
    BY DEF Init, Shapes, Reasons, Announcements
  <2> QED
    BY <1>1, <2>1, <2>2, <2>3 DEF Init, TypeOK
<1>3. BufferOK
  BY <1>1 DEF BufferOK, HasLast, SaidIn
<1>4. BootIsFresh /\ Told /\ CountedDropsAreReseeded
  BY DEF Init, BootIsFresh, Told, CountedDropsAreReseeded, Booting
<1> QED
  BY <1>2, <1>3, <1>4 DEF Inv, TypeInv

-----------------------------------------------------------------------------
(* One lemma per action.                                                    *)

LEMMA PgCommitInv ==
    ASSUME Inv, NEW tx \in Transactions, PgCommit(tx)
    PROVE  Inv'
<1>1. TypeInv'
  BY PgCommitType DEF Inv
<1>2. BootIsFresh' /\ Told' /\ CountedDropsAreReseeded'
  BY DEF Inv, PgCommit, entry, threadVars, streamVars, history, BootIsFresh, Told,
         CountedDropsAreReseeded, Telling, IsLast, SaidIn
<1> QED
  BY <1>1, <1>2 DEF Inv

LEMMA AckInv == ASSUME Inv, Ack PROVE Inv'
<1>1. BufferOK'
  BY SameBuffer DEF Inv, Ack, threadVars
<1>2. TypeOK'
  BY DEF Inv, TypeInv, TypeOK, Ack, entry, threadVars, streamVars, history
<1>3. BootIsFresh' /\ Told' /\ CountedDropsAreReseeded'
  BY DEF Inv, Ack, entry, threadVars, streamVars, history, BootIsFresh, Told,
         CountedDropsAreReseeded, Telling, IsLast, SaidIn
<1> QED
  BY <1>1, <1>2, <1>3 DEF Inv, TypeInv

LEMMA CooldownOverInv == ASSUME Inv, CooldownOver PROVE Inv'
<1>1. BufferOK'
  BY SameBuffer DEF Inv, CooldownOver, threadVars, pgVars
<1>2. TypeOK'
  BY DEF Inv, TypeInv, TypeOK, CooldownOver, pgVars, threadVars, streamVars, history
<1>3. BootIsFresh' /\ Told' /\ CountedDropsAreReseeded'
  BY DEF Inv, CooldownOver, pgVars, threadVars, streamVars, history, BootIsFresh, Told,
         CountedDropsAreReseeded, Telling, IsLast, SaidIn
<1> QED
  BY <1>1, <1>2, <1>3 DEF Inv, TypeInv

\* Drops are counted only while the table is refused.
LEMMA DropRowInv == ASSUME Inv, DropRow PROVE Inv'
<1>1. BufferOK'
  BY SameBuffer DEF Inv, DropRow, pgVars
<1>2. active
  <2>1. ~active => verdictFor = "pass"
    BY DEF verdictFor
  <2> QED
    BY <2>1 DEF DropRow
<1>3. /\ n \in 1..Len(wal) /\ pos' \in acked..Len(wal) /\ open' \in BOOLEAN
  BY ReceiveType DEF Inv, DropRow, pgVars
<1>4. TypeOK'
  BY <1>3 DEF Inv, TypeInv, TypeOK, DropRow, pgVars, streamVars
<1>5. BootIsFresh' /\ Told' /\ CountedDropsAreReseeded'
  BY <1>2 DEF Inv, DropRow, Receive, pgVars, streamVars, BootIsFresh, Told, Booting,
         CountedDropsAreReseeded, Telling, IsLast, SaidIn
<1> QED
  BY <1>1, <1>4, <1>5 DEF Inv, TypeInv

\* The suspension takes the last place of the buffer.
LEMMA SuspendOnRowInv ==
    ASSUME Inv, NEW why \in Reasons, NEW bad, SuspendOnRow(why, bad)
    PROVE  Inv'
<1>1. txbuf' \in Seq(Slot) /\ BufferOK' /\ Telling(txbuf', kv')
  BY KeepSaid DEF Inv, SuspendOnRow, Announcements
<1>2. /\ n \in 1..Len(wal) /\ pos' \in acked..Len(wal) /\ open' \in BOOLEAN
  BY ReceiveType DEF Inv, SuspendOnRow
<1>3. /\ active' \in BOOLEAN /\ reason' \in Reasons /\ cooled' \in BOOLEAN
      /\ mirror' \in Reasons \cup {"none"} /\ faults' \in 0..MaxFaults
  BY RefuseType DEF Inv, SuspendOnRow
<1>4. TypeOK'
  BY <1>1, <1>2, <1>3 DEF Inv, TypeInv, TypeOK, SuspendOnRow, streamVars
<1>5. active' /\ phase' = "run"
  BY DEF SuspendOnRow, refuse, Receive
<1>6. BootIsFresh' /\ Told' /\ CountedDropsAreReseeded'
  BY <1>1, <1>5 DEF BootIsFresh, Told, Booting, CountedDropsAreReseeded
<1> QED
  BY <1>1, <1>4, <1>6 DEF Inv, TypeInv

\* What clear leaves re-seeded.
LEMMA ClearReseeds ==
    ASSUME Inv, NEW bad, clear(bad), phase = "run", UNCHANGED <<wal, counted>>
    PROVE  ~active' /\ (~unseeded' => \A m \in counted' : m <= seeded')
<1>1. counted \subseteq 1..Len(wal) /\ Len(wal) \in Nat
  BY DEF Inv, TypeInv, TypeOK
<1>2. CASE active /\ counted # {}
  <2>1. reseedAfterLift(bad)
    BY <1>2 DEF clear
  <2>2. ~unseeded' => "reseed" \notin bad
    BY <2>1, Zenon DEF reseedAfterLift
  <2>3. "reseed" \notin bad => seeded' = Len(wal)
    BY <2>1 DEF reseedAfterLift
  <2>4. ~active'
    BY DEF clear
  <2> QED
    BY <1>1, <2>2, <2>3, <2>4
<1>3. CASE ~active
  BY <1>3 DEF Inv, CountedDropsAreReseeded, clear
<1>4. CASE counted = {}
  BY <1>4 DEF clear
<1> QED
  BY <1>2, <1>3, <1>4 DEF clear

\* A row that lifts its table leaves the suspension as the last word until the
\* schema is published.
LEMMA PackRowInv ==
    ASSUME Inv, NEW bad, PackRow(bad)
    PROVE  Inv'
<1>1. /\ n \in 1..Len(wal) /\ pos' \in acked..Len(wal) /\ open' \in BOOLEAN
  BY ReceiveType DEF Inv, PackRow
<1>2. txbuf' \in Seq(Slot) /\ BufferOK' /\ (Telling(txbuf, kv) => Telling(txbuf', kv))
  BY <1>1, KeepRow DEF Inv, PackRow
<1>3. /\ active' \in BOOLEAN /\ reason' \in Reasons /\ cooled' \in BOOLEAN
      /\ mirror' \in Reasons \cup {"none"} /\ faults' \in 0..MaxFaults
      /\ seeded' \in 0..Len(wal) /\ unseeded' \in BOOLEAN
  BY ClearType DEF Inv, PackRow
<1>4. TypeOK'
  BY <1>1, <1>2, <1>3 DEF Inv, TypeInv, TypeOK, PackRow, streamVars
<1>5. phase = "run" /\ phase' \in {"run", "republish"} /\ (phase' = "republish" => active)
  BY DEF PackRow, Receive
<1>6. ~active' /\ CountedDropsAreReseeded'
  BY <1>5, ClearReseeds DEF PackRow, CountedDropsAreReseeded
<1>7. Told'
  BY <1>2, <1>5, <1>6 DEF Inv, Told, PackRow, streamVars
<1>8. BootIsFresh'
  BY <1>5 DEF BootIsFresh, Booting
<1> QED
  BY <1>2, <1>4, <1>6, <1>7, <1>8 DEF Inv, TypeInv

LEMMA ReceiveDdlInv ==
    ASSUME Inv, NEW bad, ReceiveDdl(bad)
    PROVE  Inv'
<1>1. /\ n \in 1..Len(wal) /\ pos' \in acked..Len(wal) /\ open' \in BOOLEAN
  BY ReceiveType DEF Inv, ReceiveDdl
<1>2. phase = "run" /\ phase' = "run"
  BY DEF ReceiveDdl, Receive
<1>3. CASE "too_many_columns" \in Unfit(wal[n].shape)
  <2>1. txbuf' \in Seq(Slot) /\ BufferOK' /\ Telling(txbuf', kv')
    BY <1>3, KeepSaid DEF Inv, ReceiveDdl, Announcements
  <2>2. /\ active' \in BOOLEAN /\ reason' \in Reasons /\ cooled' \in BOOLEAN
        /\ mirror' \in Reasons \cup {"none"} /\ faults' \in 0..MaxFaults
    BY <1>3, RefuseType DEF Inv, ReceiveDdl, Reasons
  <2>3. TypeOK'
    BY <1>1, <1>3, <2>1, <2>2 DEF Inv, TypeInv, TypeOK, ReceiveDdl, streamVars
  <2>4. active'
    BY <1>3 DEF ReceiveDdl, refuse
  <2>5. BootIsFresh' /\ Told' /\ CountedDropsAreReseeded'
    BY <1>2, <2>1, <2>4 DEF BootIsFresh, Told, Booting, CountedDropsAreReseeded
  <2> QED
    BY <2>1, <2>3, <2>5 DEF Inv, TypeInv
<1>4. CASE ~("too_many_columns" \in Unfit(wal[n].shape))
  <2>1. txbuf' \in Seq(Slot) /\ BufferOK'
    BY <1>4, KeepSaid DEF Inv, ReceiveDdl, Announcements
  <2>2. /\ active' \in BOOLEAN /\ reason' \in Reasons /\ cooled' \in BOOLEAN
        /\ mirror' \in Reasons \cup {"none"} /\ faults' \in 0..MaxFaults
        /\ seeded' \in 0..Len(wal) /\ unseeded' \in BOOLEAN
    BY <1>4, ClearType DEF Inv, ReceiveDdl
  <2>3. TypeOK'
    BY <1>1, <1>4, <2>1, <2>2 DEF Inv, TypeInv, TypeOK, ReceiveDdl, streamVars
  <2>4. ~active' /\ CountedDropsAreReseeded'
    BY <1>2, <1>4, ClearReseeds DEF ReceiveDdl, CountedDropsAreReseeded
  <2>5. BootIsFresh' /\ Told'
    BY <1>2, <2>4 DEF BootIsFresh, Told, Booting
  <2> QED
    BY <2>1, <2>3, <2>4, <2>5 DEF Inv, TypeInv
<1> QED
  BY <1>3, <1>4

\* A lift's schema is published ahead of the buffer, whose last word stands.
LEMMA RepublishInv ==
    ASSUME Inv, NEW bad, Republish(bad)
    PROVE  Inv'
<1>1. BufferOK'
  BY SameBuffer DEF Inv, Republish
<1>2. /\ active' \in BOOLEAN /\ reason' \in Reasons /\ cooled' \in BOOLEAN
      /\ mirror' \in Reasons \cup {"none"} /\ faults' \in 0..MaxFaults
      /\ kv' \in Announcements
      /\ \/ kv' = kv /\ active' = active
         \/ active' => kv' = "suspended"
  <2>1. CASE "schema" \in bad
    BY <2>1, FaultsType DEF Inv, TypeInv, TypeOK, Republish
  <2>2. CASE "schema" \notin bad
    BY <2>2, SchemasType DEF Inv, Republish
  <2> QED
    BY <2>1, <2>2
<1>3. TypeOK'
  BY <1>2 DEF Inv, TypeInv, TypeOK, Republish
<1>4. phase = "republish" /\ phase' = "run" /\ UNCHANGED <<txbuf, discarded, counted, seeded, unseeded>>
  BY DEF Republish
<1>5. Told'
  BY <1>2, <1>4 DEF Inv, Told, Telling, IsLast, SaidIn
<1>6. ~active' => ~active
  <2>1. CASE "schema" \in bad
    BY <2>1 DEF Republish
  <2>2. CASE "schema" \notin bad
    BY <2>2 DEF Republish, publishBootSchemas, refuse
  <2> QED
    BY <2>1, <2>2
<1>7. BootIsFresh' /\ CountedDropsAreReseeded'
  BY <1>4, <1>6 DEF Inv, BootIsFresh, Booting, CountedDropsAreReseeded
<1> QED
  BY <1>1, <1>3, <1>5, <1>7 DEF Inv, TypeInv

\* What is handed over is what the buffer said.
LEMMA ReleaseInv == ASSUME Inv, Release PROVE Inv'
<1>1. txbuf' = << >> /\ kv' = LastSaid
  BY DEF Release, HandOver
<1>2. txbuf' \in Seq(Slot) /\ BufferOK'
  BY <1>1, EmptyBuffer
<1>3. kv' \in Announcements
  BY <1>1, LastSaidType DEF Inv, TypeInv, BufferOK
<1>4. published' \subseteq 1..Len(wal)
  BY DEF Release, HandOver, Inv, TypeInv, TypeOK, BufferOK
<1>5. open' \in BOOLEAN
  BY DEF Release
<1>6. TypeOK'
  BY <1>2, <1>3, <1>4, <1>5 DEF Inv, TypeInv, TypeOK, Release, pgVars, entry, history
<1>7. UNCHANGED <<phase, active, counted, seeded, unseeded, discarded>> /\ phase = "run"
  BY DEF Release, pgVars, entry, history
<1>8. Told'
  <2>1. SUFFICES ASSUME ~discarded, active PROVE Telling(txbuf', kv')
    BY <1>7 DEF Told
  <2>2. kv' = "suspended"
    BY <1>1, <1>7, <2>1, TellingIsLastSaid DEF Inv, TypeInv, Told
  <2> QED
    BY <1>1, <2>2 DEF Telling, SaidIn
<1>9. BootIsFresh' /\ CountedDropsAreReseeded'
  BY <1>7 DEF Inv, BootIsFresh, Booting, CountedDropsAreReseeded
<1> QED
  BY <1>2, <1>6, <1>8, <1>9 DEF Inv, TypeInv

\* A lost stream that discards no announcement leaves clients with the last one.
LEMMA StreamLostInv == ASSUME Inv, StreamLost PROVE Inv'
<1>1. txbuf' \in Seq(Slot) /\ BufferOK'
  BY EmptyBuffer DEF StreamLost
<1>2. losses' \in 0..MaxLosses
  BY RefusedAssumption DEF Inv, TypeInv, TypeOK, StreamLost
<1>3. discarded' \in BOOLEAN /\ pos' \in acked..Len(wal) /\ open' \in BOOLEAN
  <2>1. discarded' \in BOOLEAN
    BY Zenon DEF Inv, TypeInv, TypeOK, StreamLost
  <2>2. pos' = acked /\ acked \in Nat /\ acked <= Len(wal) /\ Len(wal) \in Nat
    BY DEF Inv, TypeInv, TypeOK, StreamLost
  <2>3. pos' \in acked..Len(wal)
    BY <2>2
  <2>4. open' \in BOOLEAN
    BY DEF StreamLost
  <2> QED
    BY <2>1, <2>3, <2>4, Zenon
<1>4. TypeOK'
  BY <1>1, <1>2, <1>3 DEF Inv, TypeInv, TypeOK, StreamLost, pgVars, entry, streamVars
<1>5. UNCHANGED <<phase, active, counted, seeded, unseeded, kv>> /\ phase = "run" /\ txbuf' = << >>
  BY DEF StreamLost, pgVars, entry, streamVars
<1>6. ~discarded' => ~discarded /\ SaidIn(txbuf) = {}
  BY Zenon DEF StreamLost, SaidIn
<1>7. SaidIn(txbuf') = {}
  BY <1>5 DEF SaidIn
<1>8. Told'
  BY <1>5, <1>6, <1>7 DEF Inv, Told, Telling
<1>9. BootIsFresh' /\ CountedDropsAreReseeded'
  BY <1>5 DEF Inv, BootIsFresh, Booting, CountedDropsAreReseeded
<1> QED
  BY <1>1, <1>4, <1>8, <1>9 DEF Inv, TypeInv

LEMMA CrashInv == ASSUME Inv, Crash PROVE Inv'
<1>1. txbuf' = << >> /\ phase' = "read" /\ counted' = {}
  BY DEF Crash
<1>2. txbuf' \in Seq(Slot) /\ BufferOK'
  BY <1>1, EmptyBuffer
<1>3. losses' \in 0..MaxLosses
  BY RefusedAssumption DEF Inv, TypeInv, TypeOK, Crash
<1>4. pos' \in acked..Len(wal) /\ published' \subseteq 1..Len(wal) /\ roomy' \in BOOLEAN
  BY DEF Inv, TypeInv, TypeOK, Crash
<1>5. TypeOK'
  BY <1>1, <1>2, <1>3, <1>4 DEF Inv, TypeInv, TypeOK, Crash, pgVars
<1>6. BootIsFresh' /\ Told' /\ CountedDropsAreReseeded'
  BY <1>1 DEF BootIsFresh, Told, CountedDropsAreReseeded
<1> QED
  BY <1>2, <1>5, <1>6 DEF Inv, TypeInv

LEMMA BootReadInv ==
    ASSUME Inv, NEW bad, BootRead(bad)
    PROVE  Inv'
<1>1. BufferOK'
  BY SameBuffer DEF Inv, BootRead
<1>2. faults' \in 0..MaxFaults
  BY FaultsType DEF Inv, BootRead
<1>3. inherited' \in Reasons \cup {"none"} /\ mirror' \in Reasons \cup {"none"}
  BY DEF Inv, TypeInv, TypeOK, BootRead, mirrorToCatalogue
<1>4. TypeOK'
  BY <1>2, <1>3 DEF Inv, TypeInv, TypeOK, BootRead, entry, streamVars
<1>5. BootIsFresh' /\ Told' /\ CountedDropsAreReseeded'
  BY DEF Inv, BootRead, entry, BootIsFresh, Booting, Told, CountedDropsAreReseeded
<1> QED
  BY <1>1, <1>4, <1>5 DEF Inv, TypeInv

LEMMA BootInheritInv ==
    ASSUME Inv, NEW bad, BootInherit(bad)
    PROVE  Inv'
<1>1. BufferOK'
  BY SameBuffer DEF Inv, BootInherit
<1>2. /\ active' \in BOOLEAN /\ reason' \in Reasons /\ cooled' \in BOOLEAN
      /\ mirror' \in Reasons \cup {"none"} /\ faults' \in 0..MaxFaults
      /\ seeded' \in 0..Len(wal) /\ unseeded' \in BOOLEAN
  <2>1. CASE inherited = "row_too_large" /\ wideRows # {} /\ "measure" \notin bad
    BY <2>1, RefuseType DEF Inv, TypeInv, TypeOK, BootInherit, Reasons
  <2>2. CASE ~(inherited = "row_too_large" /\ wideRows # {} /\ "measure" \notin bad)
    BY <2>2, FaultsType, ReseedType DEF Inv, TypeInv, TypeOK, BootInherit
  <2> QED
    BY <2>1, <2>2
<1>3. TypeOK'
  BY <1>2 DEF Inv, TypeInv, TypeOK, BootInherit, streamVars
<1>4. BootIsFresh' /\ Told' /\ CountedDropsAreReseeded'
  BY DEF Inv, BootInherit, BootIsFresh, Booting, Told, CountedDropsAreReseeded
<1> QED
  BY <1>1, <1>3, <1>4 DEF Inv, TypeInv

LEMMA BootSchemasInv ==
    ASSUME Inv, NEW bad, BootSchemas(bad)
    PROVE  Inv'
<1>1. BufferOK'
  BY SameBuffer DEF Inv, BootSchemas
<1>2. /\ active' \in BOOLEAN /\ reason' \in Reasons /\ cooled' \in BOOLEAN
      /\ mirror' \in Reasons \cup {"none"} /\ faults' \in 0..MaxFaults
      /\ kv' \in Announcements /\ (active' => kv' = "suspended")
  BY SchemasType DEF Inv, BootSchemas
<1>3. TypeOK'
  BY <1>2 DEF Inv, TypeInv, TypeOK, BootSchemas
<1>4. counted' = {} /\ txbuf' = << >> /\ phase' = "run"
  BY DEF Inv, BootIsFresh, Booting, BootSchemas
<1>5. SaidIn(txbuf') = {}
  BY <1>4 DEF SaidIn
<1>6. BootIsFresh' /\ Told' /\ CountedDropsAreReseeded'
  BY <1>2, <1>4, <1>5 DEF BootIsFresh, Booting, Told, Telling, CountedDropsAreReseeded
<1> QED
  BY <1>1, <1>3, <1>6 DEF Inv, TypeInv

-----------------------------------------------------------------------------
(* The theorems.                                                            *)

LEMMA NextInv == Inv /\ [Next]_vars => Inv'
<1> SUFFICES ASSUME Inv, [Next]_vars PROVE Inv'
  OBVIOUS
<1>1. CASE Next
  BY <1>1, PgCommitInv, AckInv, CooldownOverInv, DropRowInv, ReleaseInv, StreamLostInv,
     CrashInv, SuspendOnRowInv, BootSchemasInv, PackRowInv, ReceiveDdlInv, RepublishInv,
     BootReadInv, BootInheritInv DEF Next
<1>2. CASE UNCHANGED vars
  <2>1. UNCHANGED <<pgVars, entry, threadVars, streamVars, history>>
    BY <1>2 DEF vars
  <2>2. BufferOK'
    BY <2>1, SameBuffer DEF Inv, pgVars, threadVars
  <2>3. TypeOK'
    BY <2>1 DEF Inv, TypeInv, TypeOK, pgVars, entry, threadVars, streamVars, history
  <2>4. BootIsFresh' /\ Told' /\ CountedDropsAreReseeded'
    BY <2>1 DEF Inv, pgVars, entry, threadVars, streamVars, history, BootIsFresh, Told,
                CountedDropsAreReseeded, Telling, IsLast, SaidIn
  <2> QED
    BY <2>2, <2>3, <2>4 DEF Inv, TypeInv
<1> QED
  BY <1>1, <1>2

LEMMA AlwaysInv == Spec => []Inv
  BY InitInv, NextInv, PTL DEF Spec

\* Every reachable state of the registry, the boot and the buffered transaction
\* is well typed: acknowledged, read and written positions keep their order,
\* whatever is lost or sent again.
THEOREM RefusedTypeCorrect == Spec => []TypeOK
<1>1. Inv => TypeOK
  BY DEF Inv, TypeInv
<1> QED
  BY <1>1, AlwaysInv, PTL

\* Whatever transactions are committed and however many streams, processes and
\* statements are lost, clients hold (or are about to be handed, behind every
\* other announcement) the suspension of every table the bridge refuses, unless
\* a lost stream discarded it.
THEOREM SuspensionIsTold == Spec => []ClientsAreTold
<1>1. Inv => ClientsAreTold
  BY TellingIsLastSaid DEF Inv, TypeInv, Told, ClientsAreTold
<1> QED
  BY <1>1, AlwaysInv, PTL

\* A table that is not refused has been re-seeded past every drop the registry
\* counted, or the operator was told otherwise.
THEOREM LiftReseedsCounted == Spec => []CountedDropsAreReseeded
<1>1. Inv => CountedDropsAreReseeded
  BY DEF Inv
<1> QED
  BY <1>1, AlwaysInv, PTL
=============================================================================
