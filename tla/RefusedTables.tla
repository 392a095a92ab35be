---------------------------- MODULE RefusedTables ----------------------------
(***************************************************************************)
(* What the bridge does with a table it cannot replicate                   *)
(* (src/src/refused_tables.zig, the suspensions of event_processor.zig,    *)
(* the boot and the row verdicts of bridge.zig).                           *)
(*                                                                         *)
(* An event that cannot be carried suspends its table: clients are told,   *)
(* and the table's events are dropped until it is lifted, by a DDL event   *)
(* that fits or, for a row that was too large, by the first event that     *)
(* fits once a cooldown is over.  The dropped rows reach no replica, so a  *)
(* lift asks PostgreSQL for a re-seed.  The registry is memory; a table in *)
(* PostgreSQL mirrors it, and the next boot reads that.                    *)
(*                                                                         *)
(* One table.  An event is named by its place in the WAL.                  *)
(***************************************************************************)
EXTENDS Naturals, Sequences

CONSTANTS
    Transactions, \* what may be committed: sequences of row and DDL events
    RowIds,       \* rows of the table
    MaxEvents,    \* bound: events in the WAL
    MaxLosses,    \* bound: lost replication streams and crashes
    MaxFaults     \* bound: statements to PostgreSQL that fail

Shapes  == {"ok", "many", "exotic"}  \* too many columns; a type with no decoder
Reasons == {"row_too_large", "too_many_columns", "unsupported_column_type"}
Probing == {"row_too_large"}                       \* probesEveryEvent
Carried == {"too_many_columns", "row_too_large"}   \* reasons a boot acts on

RowEvent == [k : {"row"}, row : RowIds, wide : BOOLEAN]
DdlEvent == [k : {"ddl"}, shape : Shapes]

ASSUME RefusedAssumption ==
    /\ \A tx \in Transactions : /\ tx \in Seq(RowEvent \cup DdlEvent)
                                /\ tx # << >>
    /\ MaxEvents \in Nat /\ MaxLosses \in Nat /\ MaxFaults \in Nat

VARIABLES
    \* PostgreSQL
    wal,       \* the committed events; ends marks the last of a transaction
    shape,     \* the table's shape as the catalogue has it now
    wideRows,  \* rows stored now that do not fit an event
    mirror,    \* the table's row in zebridge_suspensions, or "none"
    seeded,    \* every event up to here is in a full that replicas must load
    acked,     \* the slot's confirmed position
    \* the registry's entry
    active, reason,
    counted,   \* the drops that e.dropped counts
    cooled,    \* lift_cooldown_ms has passed since the suspension
    \* the replication thread
    phase,     \* "run", or the step of the boot it is at
    pos,       \* events read
    open,      \* inside a transaction
    txbuf,     \* tx_slots_buf: row events and announcements until COMMIT
    roomy,     \* MAX_COLUMNS was sized for the wider shape
    inherited, \* the reason the last process left behind
    \* the streams
    kv,        \* the announcement clients hold for the table
    published, \* row events handed to the publisher
    \* history and bounds
    dropped,   \* events that were not published
    unseeded,  \* a re-seed was asked for and failed: logged for the operator
    discarded, \* a lost stream took an announcement with it
    losses, faults

pgVars     == <<wal, shape, wideRows, mirror, seeded, acked>>
entry      == <<active, reason, counted, cooled>>
threadVars == <<phase, pos, open, txbuf, roomy, inherited>>
streamVars == <<kv, published>>
history    == <<dropped, unseeded, discarded, losses, faults>>
vars       == <<pgVars, entry, threadVars, streamVars, history>>

WalEvent == [e : RowEvent \cup DdlEvent, shape : Shapes, ends : BOOLEAN]
Announcements == {"schema", "suspended"}
Slot == [k : {"row"}, n : Nat] \cup [k : Announcements]

TypeOK ==
    /\ wal \in Seq(WalEvent) /\ Len(wal) <= MaxEvents
    /\ shape \in Shapes /\ wideRows \subseteq RowIds
    /\ mirror \in Reasons \cup {"none"}
    /\ seeded \in 0..Len(wal) /\ acked \in 0..Len(wal) /\ pos \in acked..Len(wal)
    /\ active \in BOOLEAN /\ reason \in Reasons /\ cooled \in BOOLEAN
    /\ counted \subseteq 1..Len(wal) /\ dropped \subseteq 1..Len(wal)
    /\ phase \in {"run", "republish", "read", "inherit", "schemas"}
    /\ open \in BOOLEAN /\ roomy \in BOOLEAN /\ txbuf \in Seq(Slot)
    /\ inherited \in Reasons \cup {"none"}
    /\ kv \in Announcements /\ published \subseteq 1..Len(wal)
    /\ unseeded \in BOOLEAN /\ discarded \in BOOLEAN
    /\ losses \in 0..MaxLosses /\ faults \in 0..MaxFaults

Init ==
    /\ wal = << >> /\ shape = "ok" /\ wideRows = {} /\ mirror = "none"
    /\ seeded = 0 /\ acked = 0
    /\ active = FALSE /\ reason = "row_too_large" /\ counted = {} /\ cooled = FALSE
    /\ phase = "run" /\ pos = 0 /\ open = FALSE /\ txbuf = << >>
    /\ roomy = FALSE /\ inherited = "none"
    /\ kv = "schema" /\ published = {}
    /\ dropped = {} /\ unseeded = FALSE /\ discarded = FALSE
    /\ losses = 0 /\ faults = 0

n == pos + 1  \* the next event

-----------------------------------------------------------------------------
(* PostgreSQL.                                                              *)

\* The shape after the first i events of a transaction.
ShapeAfter(tx, i) ==
    LET ddls == {j \in 1..i : tx[j].k = "ddl"}
    IN  IF ddls = {} THEN shape
        ELSE tx[CHOOSE j \in ddls : \A h \in ddls : h <= j].shape

\* The rows wider than an event once the transaction is in.
WidthsAfter(tx) ==
    LET last(r) == {j \in 1..Len(tx) : /\ tx[j].k = "row" /\ tx[j].row = r
                                       /\ \A h \in j+1..Len(tx) :
                                             ~(tx[h].k = "row" /\ tx[h].row = r)}
    IN  {r \in RowIds : IF last(r) = {} THEN r \in wideRows
                        ELSE \E j \in last(r) : tx[j].wide}

\* An application commits; a row too large is one stored before the width
\* guard or with triggers off.
PgCommit(tx) ==
    /\ Len(wal) + Len(tx) <= MaxEvents
    /\ wal' = wal \o [i \in 1..Len(tx) |->
                         [e |-> tx[i], shape |-> ShapeAfter(tx, i),
                          ends |-> i = Len(tx)]]
    /\ shape' = ShapeAfter(tx, Len(tx))
    /\ wideRows' = WidthsAfter(tx)
    /\ UNCHANGED <<mirror, seeded, acked, entry, threadVars, streamVars, history>>

\* Mutant: one event past the last COMMIT.
AckPast ==
    /\ phase = "run" /\ ~open /\ acked # pos
    /\ acked' = n
    /\ UNCHANGED <<wal, shape, wideRows, mirror, seeded, entry, threadVars,
                   streamVars, history>>

\* A status update: the slot moves to a COMMIT whose events are all published.
Ack ==
    /\ phase = "run" /\ ~open /\ acked # pos
    /\ acked' = pos
    /\ UNCHANGED <<wal, shape, wideRows, mirror, seeded, entry, threadVars,
                   streamVars, history>>

-----------------------------------------------------------------------------
(* The registry.  What it sends PostgreSQL is best effort: a failure is     *)
(* logged and otherwise ignored; bad is the set of statements that fail.    *)

MayFail(bad) ==
    /\ bad # {} => faults < MaxFaults
    /\ faults' = IF bad = {} THEN faults ELSE faults + 1

mirrorToCatalogue(why, bad) == mirror' = IF "mirror" \in bad THEN mirror ELSE why

\* refuse: the cooldown starts on the transition; refusing a refused table
\* only refreshes its reason.
refuse(why, bad) ==
    /\ active' = TRUE /\ reason' = why
    /\ IF active
       THEN UNCHANGED <<cooled, mirror>> /\ bad = {}
       ELSE cooled' = FALSE /\ mirrorToCatalogue(why, bad)
    /\ MayFail(bad)

\* The full that a re-seed asks for has every row committed by now.
reseedAfterLift(bad) ==
    /\ seeded' = IF "reseed" \in bad THEN seeded ELSE Len(wal)
    /\ unseeded' = (unseeded \/ "reseed" \in bad)

\* Mutant: a single drop is not worth a re-seed.
ClearSingle(bad) ==
    /\ active' = FALSE /\ UNCHANGED <<reason, cooled>>
    /\ IF active THEN mirrorToCatalogue("none", bad) ELSE mirror' = mirror /\ bad = {}
    /\ IF active /\ \E m \in counted : counted # {m} THEN reseedAfterLift(bad)
       ELSE UNCHANGED <<seeded, unseeded>> /\ "reseed" \notin bad
    /\ MayFail(bad)

\* clear: a lift is a re-seed if drops were counted.
clear(bad) ==
    /\ active' = FALSE /\ UNCHANGED <<reason, cooled>>
    /\ IF active THEN mirrorToCatalogue("none", bad) ELSE mirror' = mirror /\ bad = {}
    /\ IF active /\ counted # {} THEN reseedAfterLift(bad)
       ELSE UNCHANGED <<seeded, unseeded>> /\ "reseed" \notin bad
    /\ MayFail(bad)

\* lift_cooldown_ms is over.
CooldownOver ==
    /\ active /\ ~cooled /\ phase = "run"
    /\ cooled' = TRUE
    /\ UNCHANGED <<pgVars, active, reason, counted, threadVars, streamVars, history>>

-----------------------------------------------------------------------------
(* The replication thread.                                                  *)

\* The last announcement clients have or will have when the transaction ends.
LastSaid ==
    LET said == {i \in DOMAIN txbuf : txbuf[i].k \in Announcements}
    IN  IF said = {} THEN kv ELSE txbuf[CHOOSE i \in said : \A j \in said : j <= i].k

\* The next event, of a transaction whose predecessor has been committed.
Receive(kind) ==
    /\ phase = "run" /\ pos < Len(wal) /\ wal[n].e.k = kind
    /\ open => ~wal[pos].ends
    /\ pos' = n /\ open' = TRUE

Keep(slot) == txbuf' = Append(txbuf, slot)

\* What is wrong with a shape.
Unfit(s) == CASE s = "exotic"         -> {"unsupported_column_type"}
              [] s = "many" /\ ~roomy -> {"too_many_columns"}
              [] OTHER                -> {}

\* Why an event cannot be packed.  The decoder comes first; a row too wide
\* that also has too many columns fails on whichever is reached first.
Unpackable(ev) ==
    IF ev.shape = "exotic" THEN Unfit("exotic")
    ELSE Unfit(ev.shape) \cup IF ev.e.wide THEN {"row_too_large"} ELSE {}

\* verdictFor: once the cooldown is over, every event of a table suspended
\* for its data is tried; else a refused table's events are dropped.
verdictFor == IF ~active THEN "pass"
              ELSE IF reason \in Probing /\ cooled THEN "probe" ELSE "drop"

\* A drop that is counted: by the verdict, or by the probe that failed again.
DropRow ==
    /\ Receive("row")
    /\ \/ verdictFor = "drop"
       \/ verdictFor = "probe" /\ reason \in Unpackable(wal[n])
    /\ counted' = counted \cup {n} /\ dropped' = dropped \cup {n}
    /\ UNCHANGED <<pgVars, active, reason, cooled, phase, txbuf, roomy, inherited,
                   streamVars, unseeded, discarded, losses, faults>>

\* suspendForUnsupportedType, suspendForTooManyColumns, suspendForRowTooLarge:
\* the suspension takes the event's place in its transaction.
SuspendOnRow(why, bad) ==
    /\ Receive("row") /\ verdictFor # "drop"
    /\ why \in Unpackable(wal[n]) /\ ~(active /\ reason = why)
    /\ refuse(why, bad)
    /\ Keep([k |-> "suspended"])
    /\ dropped' = dropped \cup {n}
    /\ UNCHANGED <<wal, shape, wideRows, seeded, acked, counted, phase, roomy,
                   inherited, streamVars, unseeded, discarded, losses>>

\* packMutationToSlot of a row that fits.  If the table was being probed, the
\* registry is cleared and the schema published before anything else is read.
PackRow(bad) ==
    /\ Receive("row") /\ verdictFor # "drop" /\ Unpackable(wal[n]) = {}
    /\ Keep([k |-> "row", n |-> n])
    /\ clear(bad)
    /\ phase' = IF active THEN "republish" ELSE "run"
    /\ UNCHANGED <<wal, shape, wideRows, acked, counted, roomy, inherited,
                   streamVars, dropped, discarded, losses>>

\* packDdlToSlot: a shape with too many columns suspends the table; any other
\* lifts it.  (A type with no decoder is found when a row arrives.)
ReceiveDdl(bad) ==
    /\ Receive("ddl")
    /\ IF "too_many_columns" \in Unfit(wal[n].shape)
       THEN /\ refuse("too_many_columns", bad)
            /\ Keep([k |-> "suspended"])
            /\ UNCHANGED <<seeded, unseeded>>
       ELSE clear(bad) /\ Keep([k |-> "schema"])
    /\ UNCHANGED <<wal, shape, wideRows, acked, counted, phase, roomy, inherited,
                   streamVars, dropped, discarded, losses>>

\* Mutant: a table refused before the pass is published like any other.
PublishAllSchemas(bad) ==
    /\ IF Unfit(shape) = {}
       THEN UNCHANGED <<active, reason, cooled, mirror, faults>> /\ bad = {}
       ELSE \E why \in Unfit(shape) : refuse(why, bad)
    /\ kv' = IF Unfit(shape) # {} THEN "suspended" ELSE "schema"

\* publishBootSchemas: the announcement is handed over at once, ahead of what
\* the open transaction holds, and says what the catalogue has now, which may
\* be ahead of the WAL.
publishBootSchemas(bad) ==
    /\ IF active \/ Unfit(shape) = {}
       THEN UNCHANGED <<active, reason, cooled, mirror, faults>> /\ bad = {}
       ELSE \E why \in Unfit(shape) : refuse(why, bad)
    /\ kv' = IF active' THEN "suspended" ELSE "schema"

\* After a live lift; without a connection clients are left with what they have.
Republish(bad) ==
    /\ phase = "republish" /\ phase' = "run"
    /\ IF "schema" \in bad
       THEN UNCHANGED <<active, reason, cooled, mirror, kv>> /\ MayFail(bad)
       ELSE publishBootSchemas(bad)
    /\ UNCHANGED <<wal, shape, wideRows, seeded, acked, counted, pos, open, txbuf,
                   roomy, inherited, published, dropped, unseeded, discarded, losses>>

\* Slots handed over: rows to the feed, the last announcement to the bucket.
HandOver ==
    /\ published' = published \cup {txbuf[i].n : i \in {j \in DOMAIN txbuf : txbuf[j].k = "row"}}
    /\ kv' = LastSaid
    /\ txbuf' = << >>

\* COMMIT, or (releaseTxSlots) a transaction longer than its scratchpad.
Release ==
    /\ phase = "run" /\ open
    /\ HandOver
    /\ open' = ~wal[pos].ends
    /\ open' => txbuf # << >>
    /\ UNCHANGED <<pgVars, entry, phase, pos, roomy, inherited, history>>

-----------------------------------------------------------------------------
(* Losses.                                                                  *)

\* The stream is lost: the slots of the open transaction are discarded, and
\* PostgreSQL sends again what was not acknowledged.  The registry stays.
StreamLost ==
    /\ phase = "run" /\ losses < MaxLosses
    /\ losses' = losses + 1
    /\ discarded' = (discarded \/ \E i \in DOMAIN txbuf : txbuf[i].k \in Announcements)
    /\ txbuf' = << >> /\ open' = FALSE /\ pos' = acked
    /\ UNCHANGED <<pgVars, entry, phase, roomy, inherited, streamVars, dropped,
                   unseeded, faults>>

\* The process ends, and rows that it had not published with it; the next one
\* boots with an empty registry, sized for the widest table there is.
Crash ==
    /\ losses < MaxLosses
    /\ losses' = losses + 1
    /\ active' = FALSE /\ counted' = {} /\ cooled' = FALSE /\ UNCHANGED reason
    /\ txbuf' = << >> /\ open' = FALSE /\ pos' = acked
    /\ \E kept \in acked..Len(wal) : published' = published \cap 1..kept
    /\ phase' = "read" /\ inherited' = "none" /\ roomy' = (shape = "many")
    /\ UNCHANGED <<pgVars, kv, dropped, unseeded, discarded, faults>>

\* The boot reads what the last process left in the mirror, and wipes it.
BootRead(bad) ==
    /\ phase = "read" /\ phase' = "inherit"
    /\ inherited' = IF mirror \in Carried /\ "read" \notin bad THEN mirror ELSE "none"
    /\ mirrorToCatalogue("none", bad)
    /\ MayFail(bad)
    /\ UNCHANGED <<wal, shape, wideRows, seeded, acked, entry, pos, open, txbuf,
                   roomy, streamVars, dropped, unseeded, discarded, losses>>

\* A row still too large suspends the table again; else what was dropped is
\* asked for.
BootInherit(bad) ==
    /\ phase = "inherit" /\ phase' = "schemas"
    /\ IF inherited = "row_too_large" /\ wideRows # {} /\ "measure" \notin bad
       THEN refuse(inherited, bad) /\ UNCHANGED <<seeded, unseeded>>
       ELSE /\ UNCHANGED <<active, reason, cooled, mirror>>
            /\ IF inherited = "none" THEN UNCHANGED <<seeded, unseeded>> /\ bad = {}
                                     ELSE reseedAfterLift(bad)
            /\ MayFail(bad)
    /\ UNCHANGED <<wal, shape, wideRows, acked, counted, pos, open, txbuf, roomy,
                   inherited, streamVars, dropped, discarded, losses>>

\* Every table's schema or suspension is published before the stream starts.
BootSchemas(bad) ==
    /\ phase = "schemas" /\ phase' = "run"
    /\ publishBootSchemas(bad)
    /\ discarded' = FALSE
    /\ UNCHANGED <<wal, shape, wideRows, seeded, acked, counted, pos, open, txbuf,
                   roomy, inherited, published, dropped, unseeded, losses>>

-----------------------------------------------------------------------------
Next ==
    \/ \E tx \in Transactions : PgCommit(tx)
    \/ Ack \/ CooldownOver \/ DropRow \/ Release \/ StreamLost \/ Crash
    \/ \E bad \in SUBSET {"mirror"} :
          \/ \E why \in Reasons : SuspendOnRow(why, bad)
          \/ BootSchemas(bad)
    \/ \E bad \in SUBSET {"mirror", "reseed"} : PackRow(bad) \/ ReceiveDdl(bad)
    \/ \E bad \in {{}, {"mirror"}, {"schema"}} : Republish(bad)
    \/ \E bad \in {{}, {"mirror"}, {"mirror", "read"}} : BootRead(bad)
    \/ \E bad \in SUBSET {"mirror", "measure", "reseed"} : BootInherit(bad)

Spec == Init /\ [][Next]_vars

-----------------------------------------------------------------------------
(* Properties.                                                              *)

\* Clients hold a suspension for every table the bridge refuses, or it is on
\* its way in the open transaction, behind every other announcement: "the
\* client learns at the exact LSN where its data stops being complete"
\* (event_processor.zig:323).  It may be missing only where a lost stream
\* discarded the announcement: the registry already has the table, so it is
\* not said again before the next boot.
ClientsAreTold ==
    phase = "run" /\ active /\ ~discarded => LastSaid = "suspended"

\* A table that is no longer refused has been re-seeded past every drop that
\* was counted, or the operator was told that the re-seed failed
\* (refused_tables.zig, clear): across lifts by DDL or by a probe, suspensions
\* for another reason, and events that are sent again.
CountedDropsAreReseeded ==
    phase \in {"run", "republish"} /\ ~active /\ ~unseeded
        => \A m \in counted : m <= seeded

\* A dropped event whose row no replica has: no full is asked for, and no
\* later event of the row was published.
Missing ==
    {m \in dropped : /\ m > seeded
                     /\ \A l \in published : l >= m => wal[l].e.row # wal[m].e.row}

\* "The lift is a re-seed" (refused_tables.zig:303): once a table is not
\* refused and all was read, replicas have every row, or the operator was told
\* that a re-seed failed.
LiftIsAReseed ==
    phase = "run" /\ ~active /\ ~open /\ pos = Len(wal) /\ ~unseeded => Missing = {}
=============================================================================
