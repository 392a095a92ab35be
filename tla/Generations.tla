----------------------------- MODULE Generations -----------------------------
(***************************************************************************)
(* How a replica gets the rows of one table: the producer of snapshot      *)
(* generations (src/src/generation_producer.zig), the sweeper of           *)
(* tombstones (bridge_sweeper.zig), the change stream, and a client that   *)
(* loads generations and follows the stream (src/libzb/src/client.zig).    *)
(*                                                                         *)
(* Every write stamps its row with a version: the start of its transaction *)
(* (the database's clock), or the time a device made the edit.  A delete   *)
(* leaves a tombstone, reaped after the retention.  A generation is cut    *)
(* from a snapshot while transactions are open across it, so what belongs  *)
(* to the next delta is decided by versions and not by commit order.       *)
(*                                                                         *)
(* A commit is named by its place in log; a row, in the database, in an    *)
(* object or in the replica, by the commit that wrote it (0: no row).      *)
(***************************************************************************)
EXTENDS ChainPlan, Sequences, FiniteSets

CONSTANTS
    Keys,        \* rows of the table
    Depth,       \* chain_depth: generations kept
    Tolerance,   \* version_future_tolerance
    Retention,   \* the sweeper's retention of tombstones
    Disorder,    \* which of the disorders below may happen
    MaxCommits,  \* bound: commits
    MaxClock,    \* bound: the clock when a transaction begins
    MaxGens,     \* bound: generations
    MaxTime      \* bound: the clock when a generation is cut

\* A device's edit sent late, with the version it got when it was made; a
\* transaction that stamps a row below the version it has; a tombstone reaped
\* before there was a generation cut past its message; a snapshot that has
\* commits the stream did not have, too old for the next delta; deltas taken in
\* place of the stream that stop after one the client's position is past.
Disorders == {"late edit", "lower stamp", "early reap", "lagging stream", "torn deltas"}

ASSUME GenerationsAssumption ==
    /\ IsFiniteSet(Keys)
    /\ Depth \in Nat \ {0, 1} /\ Tolerance \in Nat /\ Retention \in Nat
    /\ Disorder \subseteq Disorders
    /\ MaxCommits \in Nat /\ MaxClock \in Nat /\ MaxGens \in Nat /\ MaxTime \in Nat

VARIABLES
    \* PostgreSQL
    now,       \* the clock
    open,      \* starts of the open transactions
    log,       \* the commits
    rows,      \* the table: of each row the commit that wrote it
    gcw,       \* zebridge_gc_watermark
    gens,      \* zebridge_generations: the recorded generations
    \* JetStream
    last,      \* commits published so far
    first,     \* the oldest message still kept
    manifest,  \* the manifest, of generation 0 before the first
    objects,   \* of each generation its full and its delta
    \* the producer
    ppc, build,
    \* the client
    replica, wm, pos,
    anchor,    \* anchor_seq
    owed,      \* the _zbz_fence record: a replacement has begun
    cpc,
    pass       \* of a seed: the manifest, what is left to load, gap, fence

pgVars       == <<now, open, log, rows, gcw>>
chainVars    == <<gens, manifest, objects>>
streamVars   == <<last, first>>
producerVars == <<ppc, build>>
stored       == <<replica, wm, pos, anchor, owed>>
clientVars   == <<stored, cpc, pass>>
vars == <<pgVars, chainVars, streamVars, producerVars, clientVars>>

Commit == [k : Keys, v : Nat, dead : BOOLEAN]
Gens   == 1..MaxGens
Kinds  == {"full", "delta"}
Gone   == {0}   \* an object that is not in the store

NoManifest == [gen |-> 0, cut |-> 0, seq |-> 0, gc |-> 0,
               base |-> [gen |-> 0, cut |-> 0], deltas |-> {}]
NoBuild    == [seq |-> 0, floor |-> 0, cut |-> 0, gc |-> 0, full |-> FALSE]
NoPlan     == [full |-> FALSE, base |-> 0, deltas |-> {}]
NoPass     == [man |-> NoManifest, plan |-> NoPlan, first |-> 1, gap |-> FALSE, fence |-> FALSE]

Version(i) == IF i = 0 THEN 0 ELSE log[i].v
Live(i)    == i # 0 /\ ~log[i].dead

TypeOK ==
    /\ now \in Nat /\ gcw \in Nat
    /\ open \subseteq 1..now
    /\ log \in Seq(Commit)
    /\ rows \in [Keys -> 0..Len(log)]
    /\ last \in 0..Len(log) /\ first \in 1..last+1
    /\ gens \in Seq([cut : Nat, prev : Nat, floor : Nat, full : BOOLEAN,
                     state : {"live", "retired", "gone"}, seq : 0..last])
    /\ manifest \in Manifest
    /\ objects \in [Gens \X Kinds -> SUBSET (0..Len(log))]
    /\ ppc \in {"idle", "begun", "built"}
    /\ build \in [seq : 0..last, floor : 0..now, cut : 0..now, gc : Nat,
                  full : BOOLEAN]
    /\ pass \in [man : Manifest, plan : Plan, first : Nat, gap : BOOLEAN, fence : BOOLEAN]
    /\ replica \in [Keys -> 0..Len(log)]
    /\ wm \in 0..now /\ pos \in 0..last /\ anchor \in 0..last
    /\ owed \in BOOLEAN /\ cpc \in {"idle", "load"}

\* Each row has been written once, and is in the stream.
Init ==
    /\ now = 1 /\ open = {}
    /\ log \in {l \in [1..Cardinality(Keys) -> [k : Keys, v : {1}, dead : {FALSE}]] :
                  \A k \in Keys : \E i \in DOMAIN l : l[i].k = k}
    /\ rows = [k \in Keys |-> CHOOSE i \in DOMAIN log : log[i].k = k]
    /\ gcw = 0 /\ gens = << >>
    /\ last = Len(log) /\ first = 1 /\ manifest = NoManifest
    /\ objects = [o \in Gens \X Kinds |-> Gone]
    /\ ppc = "idle" /\ build = NoBuild
    /\ replica = [k \in Keys |-> 0] /\ wm = 0 /\ pos = 0 /\ anchor = 0
    /\ owed = FALSE /\ cpc = "idle" /\ pass = NoPass

-----------------------------------------------------------------------------
(* PostgreSQL, its triggers and the edge writes.                            *)

Write(k, v, dead) ==
    /\ Len(log) < MaxCommits
    /\ log' = Append(log, [k |-> k, v |-> v, dead |-> dead])
    /\ rows' = [rows EXCEPT ![k] = Len(log) + 1]

\* An application's transaction; now() is its start for all it writes.
Begin ==
    /\ now < MaxClock /\ now' = now + 1
    /\ Len(log) + Cardinality(open) < MaxCommits
    /\ open' = open \cup {now'}
    /\ UNCHANGED <<log, rows, gcw, chainVars, streamVars, producerVars,
                   clientVars>>

\* zebridge_bump_version and zebridge_soft_delete stamp the row with now().
CommitServer(k, start, dead) ==
    /\ dead => Live(rows[k])
    /\ start > Version(rows[k]) \/ "lower stamp" \in Disorder
    /\ Write(k, start, dead)
    /\ open' = open \ {start}
    /\ UNCHANGED <<now, gcw, chainVars, streamVars, producerVars, clientVars>>

\* A device's write: its version, at most the tolerance ahead, wins over an
\* older one and must not lie below what may have been reaped.
CommitEdge(k, v, dead) ==
    /\ now < MaxClock /\ now' = now + 1
    /\ v <= now' + Tolerance
    /\ v >= now' - Tolerance \/ "late edit" \in Disorder
    /\ v > Version(rows[k]) /\ v >= gcw
    /\ dead => Live(rows[k])
    /\ Write(k, v, dead)
    /\ UNCHANGED <<open, gcw, chainVars, streamVars, producerVars, clientVars>>

-----------------------------------------------------------------------------
(* The sweeper and the stream.                                              *)

\* zebridge_gc_advance: the watermark first.
Advance ==
    /\ now - Retention > gcw /\ gcw' = now - Retention
    /\ UNCHANGED <<now, open, log, rows, chainVars, streamVars, producerVars,
                   clientVars>>

\* Then the tombstones behind it; no event says so.
Reap(k) ==
    /\ rows[k] # 0 /\ log[rows[k]].dead /\ Version(rows[k]) < gcw
    /\ (\E g \in DOMAIN gens : rows[k] <= gens[g].seq) \/ "early reap" \in Disorder
    /\ rows' = [rows EXCEPT ![k] = 0]
    /\ UNCHANGED <<now, open, log, gcw, chainVars, streamVars, producerVars, clientVars>>

\* The bridge publishes commits in order, some time later.
Publish ==
    /\ last < Len(log) /\ last' = last + 1
    /\ UNCHANGED <<pgVars, chainVars, first, producerVars, clientVars>>

\* The stream drops its oldest message.
Expire ==
    /\ first <= last /\ first' = first + 1
    /\ Len(gens) < MaxGens   \* bound: another generation can still be built
    /\ UNCHANGED <<pgVars, chainVars, last, producerVars, clientVars>>

-----------------------------------------------------------------------------
(* The producer.                                                            *)

LiveGens(gs)   == {g \in DOMAIN gs : gs[g].state = "live"}
NewestFull(gs) == Max({0} \cup {g \in LiveGens(gs) : gs[g].full})
LastGen  == Max({0} \cup LiveGens(gens))
LastFull == NewestFull(gens)
NextGen  == Len(gens) + 1

\* What a delta after the last generation starts from.
LowerBound == deltaLowerBound(gens[LastGen].cut, gens[LastGen].floor, Tolerance)

\* No row has a version the last generation might not have had.
UnchangedByVersion ==
    LastGen # 0 /\ \A k \in Keys : rows[k] # 0 => Version(rows[k]) < LowerBound

\* The manifest is not the one of the last recorded generation.
ChainAbsent == LastGen # 0 /\ manifest.gen # LastGen

\* The stream no longer has what follows the manifest's cut.
ChainFellOff == first > 1 /\ manifest.seq + 1 < first

\* buildOne up to its snapshot: the stream's last sequence, then the floor.  A
\* table that has not changed is left alone.
BuildBegin ==
    /\ ppc = "idle" /\ NextGen \in Gens
    /\ ~UnchangedByVersion \/ ChainAbsent \/ ChainFellOff
    /\ ppc' = "begun"
    /\ now < MaxTime /\ now' = now + 1
    /\ build' = [NoBuild EXCEPT !.seq = last, !.floor = Min({now'} \cup open)]
    /\ UNCHANGED <<open, log, rows, gcw, chainVars, streamVars, clientVars>>

\* The snapshot, whose time is the cutoff, and the objects made from it.  A
\* full is due if there is none or the chain is absent; its depth, size and
\* cost may ask for one at other times.
BuildObjects(full) ==
    /\ ppc = "begun" /\ ppc' = "built"
    /\ LastFull = 0 \/ ChainAbsent => full
    /\ \/ \A i \in build.seq+1..Len(log) :
             Version(i) >= deltaLowerBound(now, build.floor, Tolerance)
       \/ "lagging stream" \in Disorder
    /\ build' = [build EXCEPT !.cut = now, !.gc = gcw, !.full = full]
    /\ objects' = [o \in Gens \X Kinds |->
          CASE o = <<NextGen, "full">> /\ full ->
                    {rows[k] : k \in {j \in Keys : Live(rows[j])}}
            [] o = <<NextGen, "delta">> /\ LastGen # 0 ->
                    {rows[k] : k \in {j \in Keys : /\ rows[j] # 0
                                                   /\ Version(rows[j]) >= LowerBound}}
            [] OTHER -> objects[o]]
    /\ UNCHANGED <<pgVars, gens, manifest, streamVars, clientVars>>

KeepFrom == keepFrom(NextGen, Depth, IF build.full THEN NextGen ELSE LastFull)

\* pruneChain: old generations are retired; of those retired before, what is
\* past its grace goes, with its objects.
PruneChain(gone) ==
    [g \in DOMAIN gens |->
        [gens[g] EXCEPT !.state = IF g \in gone THEN "gone"
                                  ELSE IF @ = "live" /\ g <= KeepFrom THEN "retired" ELSE @]]

\* The deltas of the generations that are kept, and this one's.
ListedDeltas(kept) ==
    {[gen |-> g, prev |-> kept[g].prev, cut |-> kept[g].cut] :
        g \in {h \in LiveGens(kept) : kept[h].prev # 0}}
    \cup IF LastGen = 0 THEN {}
         ELSE {[gen |-> NextGen, prev |-> gens[LastGen].cut, cut |-> build.cut]}

NewManifest(kept) ==
    LET base == NewestFull(kept)
    IN  [gen |-> NextGen, cut |-> build.cut, seq |-> build.seq, gc |-> build.gc,
         base |-> IF build.full THEN [gen |-> NextGen, cut |-> build.cut]
                  ELSE [gen |-> base, cut |-> IF base = 0 THEN 0 ELSE kept[base].cut],
         deltas |-> ListedDeltas(kept)]

NewRow == [cut |-> build.cut, prev |-> IF LastGen = 0 THEN 0 ELSE gens[LastGen].cut,
           floor |-> build.floor, full |-> build.full, state |-> "live", seq |-> build.seq]

\* The old generations go, the manifest names the new one, its row is recorded:
\* three writes, of which a build that fails or dies has made the first ones.
Finish(gone, upto) ==
    LET kept == PruneChain(gone)
    IN  /\ ppc = "built" /\ ppc' = "idle" /\ build' = NoBuild
        /\ \A g \in gone : gens[g].state = "retired" /\ KeepFrom > 0
        /\ objects' = [o \in Gens \X Kinds |-> IF o[1] \in gone THEN Gone ELSE objects[o]]
        /\ manifest' = IF upto = "prune" THEN manifest ELSE NewManifest(kept)
        /\ gens' = IF upto = "record" THEN Append(kept, NewRow) ELSE kept
        /\ UNCHANGED <<pgVars, streamVars, clientVars>>

\* A build that fails or dies before, its objects left as they are.
ProducerCrash ==
    /\ ppc # "idle" /\ ppc' = "idle" /\ build' = NoBuild
    /\ UNCHANGED <<pgVars, chainVars, streamVars, clientVars>>

-----------------------------------------------------------------------------
(* The client.                                                              *)

Upsert(r, i) == [r EXCEPT ![log[i].k] = IF log[i].dead THEN 0 ELSE i]

\* A chain's rows: tombstones delete; a row replaces an older version of it.
Merge(r, content) ==
    [k \in Keys |->
        LET mine == {i \in content : log[i].k = k}
        IN  IF mine = {} THEN r[k]
            ELSE LET i == CHOOSE i \in mine : TRUE
                 IN  IF log[i].dead THEN 0
                     ELSE IF Version(i) > Version(r[k]) THEN i ELSE r[k]]

Wiped(content) ==
    [k \in Keys |-> LET mine == {i \in content : log[i].k = k}
                    IN  IF mine = {} THEN 0 ELSE CHOOSE i \in mine : TRUE]

\* The tail: the next event, if the stream still has it.
Follow ==
    /\ cpc = "idle" /\ pos < last /\ first <= pos + 1
    /\ pos' = pos + 1
    /\ replica' = IF seedGateDrops(pos + 1, anchor) THEN replica ELSE Upsert(replica, pos + 1)
    /\ UNCHANGED <<pgVars, chainVars, streamVars, producerVars, wm, anchor, owed, cpc,
                   pass>>

\* applyChainFrom, up to the first row: across a gap, for a table that is not
\* seeded, or by choice instead of the stream.  A chain whose cut the stream no
\* longer continues is not used.  A full behind the position, or one that was
\* begun before, is fenced: the position goes back to the cut first.
SeedBegin ==
    LET gap   == streamHasGap(first, pos)
        plan  == planFromManifest(manifest, wm)
        fence == fullPredatesReplica(manifest, plan, pos) \/ owed
    IN  /\ cpc = "idle" /\ cpc' = "load"
        /\ manifest.gen # 0
        /\ gap \/ wm = 0 \/ deltaEligible(manifest, wm, pos)
        /\ manifest.seq + 1 >= first
        /\ pass' = [man |-> manifest, plan |-> plan, first |-> first, gap |-> gap, fence |-> fence]
        /\ IF fence THEN /\ wm' = 0 /\ owed' = TRUE /\ anchor' = 0
                         /\ pos' = Min({pos, manifest.seq})
                    ELSE UNCHANGED <<wm, owed, anchor, pos>>
        /\ UNCHANGED <<pgVars, chainVars, streamVars, producerVars, replica>>

\* The name of a full of generation 0 stands for none.
Object(gen, kind) == IF gen = 0 THEN Gone ELSE objects[<<gen, kind>>]

\* The objects of a plan up to generation n are in the store.
Found(plan, n) ==
    /\ plan.full => Object(plan.base, "full") # Gone
    /\ \A g \in plan.deltas : g <= n => Object(g, "delta") # Gone

\* The rows after the full of a plan, if it has one, and its deltas up to
\* generation n.
Loaded(plan, start) ==
    LET upto[n \in 0..MaxGens] ==
            IF n = 0 THEN IF plan.full THEN Wiped(Object(plan.base, "full")) ELSE start
            ELSE IF n \in plan.deltas THEN Merge(upto[n-1], Object(n, "delta"))
            ELSE upto[n-1]
    IN  upto

\* Before the first chunk of a full the client notes that it owes the rest.
OweReplacement ==
    IF pass.plan.full THEN wm' = 0 /\ owed' = TRUE /\ anchor' = 0
    ELSE UNCHANGED <<wm, owed, anchor>>

\* The anchor is written once all is loaded and, behind a fence, the stream
\* still has what follows the cut; then the position moves.  The process may end
\* in between.
SeedCommit(moved) ==
    /\ cpc = "load" /\ cpc' = "idle" /\ pass' = NoPass
    /\ Found(pass.plan, MaxGens)
    /\ pass.fence => first <= pass.man.seq + 1
    /\ replica' = Loaded(pass.plan, replica)[MaxGens]
    /\ wm' = pass.man.cut /\ anchor' = pass.man.seq /\ owed' = FALSE
    /\ pos' = IF ~moved THEN pos
              ELSE IF pass.gap THEN streamResume(pos, pass.first, pass.man.seq)
              ELSE streamSplice(pos, pass.first, pass.man.seq)
    /\ UNCHANGED <<pgVars, chainVars, streamVars, producerVars>>

\* An object is gone, the stream no longer follows the fence's cut, or the
\* process ends, before the first step ...
SeedAborts ==
    /\ cpc = "load" /\ cpc' = "idle" /\ pass' = NoPass
    /\ UNCHANGED <<pgVars, chainVars, streamVars, producerVars, stored>>

\* The rows of the delta of generation n.
Rest(n) == IF n \in pass.plan.deltas THEN Object(n, "delta") \ Gone ELSE {}

\* Rows of deltas, to generation n and some more, of which the client has
\* followed a later change: a version guard does not see a row that was deleted.
Overtaken(n, chunks) ==
    \E i \in chunks \cup UNION {Rest(g) : g \in 1..n} : \E j \in i+1..pos : log[j].k = log[i].k

\* ... after some steps, and some chunks of the delta that is next ...
SeedStops(n, chunks) ==
    /\ cpc = "load" /\ cpc' = "idle" /\ pass' = NoPass
    /\ Found(pass.plan, n) /\ chunks \subseteq Rest(n+1)
    /\ \/ pass.plan.full \/ pass.gap \/ \A g \in pass.plan.deltas : g <= n
       \/ ~Overtaken(n, chunks) \/ "torn deltas" \in Disorder
    /\ replica' = Merge(Loaded(pass.plan, replica)[n], chunks) /\ OweReplacement
    /\ UNCHANGED <<pgVars, chainVars, streamVars, producerVars, pos>>

\* ... or with some chunks of a full loaded, which comes first in its plan.
SeedStopsInFull(chunks) ==
    /\ cpc = "load" /\ cpc' = "idle" /\ pass' = NoPass
    /\ pass.plan.full /\ chunks \subseteq Object(pass.plan.base, "full") \ Gone
    /\ replica' = Wiped(chunks) /\ OweReplacement
    /\ UNCHANGED <<pgVars, chainVars, streamVars, producerVars, pos>>

-----------------------------------------------------------------------------
Postgres ==
    \/ Begin
    \/ \E k \in Keys, start \in open, dead \in BOOLEAN : CommitServer(k, start, dead)
    \/ \E k \in Keys, dead \in BOOLEAN : \E v \in 1..MaxClock+Tolerance : CommitEdge(k, v, dead)

Sweeper == Advance \/ \E k \in Keys : Reap(k)

Producer ==
    \/ BuildBegin \/ ProducerCrash
    \/ \E full \in BOOLEAN : BuildObjects(full)
    \/ \E gone \in SUBSET DOMAIN gens, upto \in {"prune", "put", "record"} : Finish(gone, upto)

Client ==
    \/ Follow \/ SeedBegin \/ SeedAborts
    \/ \E moved \in BOOLEAN : SeedCommit(moved)
    \/ \E n \in 0..MaxGens, chunks \in SUBSET (1..Len(log)) : SeedStops(n, chunks)
    \/ \E chunks \in SUBSET (1..Len(log)) : SeedStopsInFull(chunks)

Next == Postgres \/ Sweeper \/ Publish \/ Expire \/ Producer \/ Client

Spec == Init /\ [][Next]_vars

-----------------------------------------------------------------------------
(* Properties.                                                              *)

\* A client that is seeded and has read the whole stream has exactly the
\* table's live rows, whatever it was seeded from, in how many passes, and
\* whatever was deleted and reaped meanwhile.
Converged ==
    cpc = "idle" /\ wm # 0 /\ pos = Len(log)
        => \A k \in Keys : replica[k] = IF Live(rows[k]) THEN rows[k] ELSE 0

\* The commit that last wrote a row, of the first n; and the live rows then.
LastOf(k, n) == Max({0} \cup {j \in 1..n : log[j].k = k})
TableAt(n)   == [k \in Keys |-> IF Live(LastOf(k, n)) THEN LastOf(k, n) ELSE 0]

\* A fresh client finds every object the last recorded manifest gives it, and
\* they make the table as it was after some commit, none of those in the stream
\* up to the manifest's cut missing.
SeedsWhole ==
    LET plan == planFromManifest(manifest, 0)
    IN  /\ LastGen # 0 /\ manifest.gen = LastGen
        /\ {plan.base} \cup plan.deltas \subseteq LiveGens(gens) \cup {0}
        => /\ Found(plan, MaxGens)
           /\ \E n \in manifest.seq..Len(log) :
                  Loaded(plan, [k \in Keys |-> 0])[MaxGens] = TableAt(n)
=============================================================================
