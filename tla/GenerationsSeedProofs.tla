------------------------ MODULE GenerationsSeedProofs ------------------------
(***************************************************************************)
(* Proof about Generations, for every table and every value of the bounds: *)
(* the objects a manifest names make the table as it was at one moment     *)
(* (SeedsWhole), although the producer prunes, fails and starts again and  *)
(* the sweeper reaps tombstones between two snapshots.                     *)
(*                                                                         *)
(* A generation's objects hold what its snapshot saw.  The proof names     *)
(* that moment: snap[g] is the length of the log at the snapshot of        *)
(* generation g, and of the one being built.                               *)
(***************************************************************************)
EXTENDS GenerationsProofs

\* No edit is sent later than the tolerance, no row gets a version below its
\* own, and no tombstone is reaped before a generation was cut past it.
Orderly == Disorder \cap {"late edit", "lower stamp", "early reap"} = {}

Snaps == [Gens -> 0..Len(log)]

\* What a delta starts from: the sequence its predecessor recorded, or, behind
\* a stream that lags, the predecessor's snapshot.
Mark(seq, n)    == IF "lagging stream" \in Disorder THEN n ELSE seq
MarkOf(snap, g) == IF g = 0 THEN 0 ELSE Mark(gens[g].seq, snap[g])

\* A full of the table at commit n.
LiveAt(n) == {LastOf(k, n) : k \in {j \in Keys : Live(LastOf(j, n))}}

\* A delta that takes the table at any commit from m to n to the table at n.
Follows(content, m, n) ==
    /\ \A i \in content :
           /\ i \in 1..n /\ i = LastOf(log[i].k, n)
           /\ \A x \in m..n : Live(LastOf(log[i].k, x)) =>
                  i = LastOf(log[i].k, x) \/ Version(i) > Version(LastOf(log[i].k, x))
    /\ \A k \in Keys : LastOf(k, n) > m => LastOf(k, n) \in content

\* A commit wins over what any commit from m on saw of its row.
Rising(m) ==
    \A i \in 1..Len(log) : \A x \in m..i-1 :
        Live(LastOf(log[i].k, x)) => Version(i) > Version(LastOf(log[i].k, x))

\* Whatever was committed after m is in the delta that starts from a cut and a
\* floor.
Since(m, cut, floor) ==
    /\ cut <= now
    /\ \A i \in 1..Len(log) : i > m => Version(i) >= deltaLowerBound(cut, floor, Tolerance)

\* Transactions open across a snapshot are at the floor or above it.
Above(floor) == floor <= now /\ \A start \in open : floor <= start

Recorded(snap) ==
    \A g \in 1..Len(gens) :
        /\ gens[g].cut > 0 /\ (gens[g].prev = 0 <=> g = 1)
        /\ gens[g].seq <= snap[g]
        /\ \A h \in 1..g : snap[h] <= snap[g] /\ gens[h].seq <= gens[g].seq
        /\ gens[g].state # "gone" =>
               /\ gens[g].full => objects[<<g, "full">>] = LiveAt(snap[g])
               /\ g > 1 => Follows(objects[<<g, "delta">>], MarkOf(snap, g-1), snap[g])

LastRecorded(snap) ==
    /\ Rising(MarkOf(snap, Len(gens)))
    /\ Len(gens) > 0 =>
        /\ Since(MarkOf(snap, Len(gens)), gens[Len(gens)].cut, gens[Len(gens)].floor)
        /\ Above(gens[Len(gens)].floor)

Building(snap) ==
    /\ ppc # "idle" => /\ Above(build.floor)
                       /\ Len(gens) > 0 => gens[Len(gens)].seq <= build.seq
    /\ ppc = "built" =>
           /\ build.cut > 0 /\ build.seq <= snap[NextGen]
           /\ LastFull = 0 => build.full
           /\ build.full => objects[<<NextGen, "full">>] = LiveAt(snap[NextGen])
           /\ Len(gens) > 0 =>
                  /\ snap[Len(gens)] <= snap[NextGen]
                  /\ Follows(objects[<<NextGen, "delta">>], MarkOf(snap, Len(gens)), snap[NextGen])
           /\ Since(Mark(build.seq, snap[NextGen]), build.cut, build.floor)

\* Of each row the table has the last commit, but for reaped tombstones.
Table(snap) ==
    \A k \in Keys :
        \/ rows[k] = LastOf(k, Len(log))
        \/ /\ rows[k] = 0 /\ ~Live(LastOf(k, Len(log)))
           /\ Len(gens) > 0 /\ LastOf(k, Len(log)) <= MarkOf(snap, Len(gens))

\* Generations go from the oldest on, the last recorded one stays.
LiveSuffix ==
    /\ Len(gens) > 0 => gens[Len(gens)].state = "live"
    /\ \A g, h \in 1..Len(gens) : gens[g].state = "live" /\ g < h => gens[h].state = "live"

\* The manifest of the last recorded generation.
Listed ==
    /\ manifest.gen <= NextGen
    /\ Len(gens) > 0 /\ manifest.gen = Len(gens) =>
           /\ manifest.base.gen \in 1..Len(gens) /\ gens[manifest.base.gen].full
           /\ {d.gen : d \in {e \in manifest.deltas : e.gen > manifest.base.gen}}
                 = manifest.base.gen + 1 .. Len(gens)
           /\ manifest.seq = gens[Len(gens)].seq

Positive == now > 0 /\ \A i \in 1..Len(log) : log[i].v > 0

ChainOf(snap) ==
    /\ LiveSuffix /\ Listed /\ Positive
    /\ Recorded(snap) /\ LastRecorded(snap) /\ Building(snap) /\ Table(snap)

ChainInv == \E snap \in Snaps : ChainOf(snap)

\* The moments after a step: of the generation being built, its snapshot.
Marked(snap) ==
    IF ppc = "begun" /\ ppc' = "built" THEN [snap EXCEPT ![NextGen] = Len(log)] ELSE snap

-----------------------------------------------------------------------------
(* The last commit of a row.                                               *)

LEMMA LastOfIs ==
    ASSUME TypeInv, NEW k \in Keys, NEW n \in 0..Len(log)
    PROVE  /\ LastOf(k, n) \in 0..n
           /\ LastOf(k, n) # 0 => log[LastOf(k, n)].k = k
           /\ \A i \in 1..n : log[i].k = k => i <= LastOf(k, n)
<1> DEFINE S == {0} \cup {j \in 1..n : log[j].k = k}
<1>1. n \in Nat /\ S \in SUBSET (0..n) /\ S # {}
  BY Sizes
<1>2. Max(S) \in S /\ \A h \in S : h <= Max(S)
  <2> HIDE DEF S
  <2> QED BY <1>1, MaxOf
<1>3. LastOf(k, n) = Max(S)
  BY DEF LastOf
<1>4. LastOf(k, n) \in S /\ \A h \in S : h <= LastOf(k, n)
  BY <1>2, <1>3
<1> QED BY <1>1, <1>4

LEMMA LastOfOnly ==
    ASSUME TypeInv, NEW k \in Keys, NEW n \in 0..Len(log), NEW i \in 0..n,
           i # 0 => log[i].k = k, \A j \in 1..n : log[j].k = k => j <= i
    PROVE  i = LastOf(k, n)
<1>1. /\ LastOf(k, n) \in 0..n
      /\ LastOf(k, n) # 0 => log[LastOf(k, n)].k = k
      /\ \A j \in 1..n : log[j].k = k => j <= LastOf(k, n)
  BY LastOfIs
<1>2. LastOf(k, n) <= i
  BY <1>1
<1>3. i <= LastOf(k, n)
  BY <1>1
<1> QED BY <1>1, <1>2, <1>3

LEMMA LastOfGrows ==
    ASSUME TypeInv, NEW k \in Keys, NEW n \in 0..Len(log), NEW m \in 0..n
    PROVE  /\ LastOf(k, m) <= LastOf(k, n)
           /\ LastOf(k, n) <= m => LastOf(k, n) = LastOf(k, m)
<1>1. /\ LastOf(k, n) \in 0..n
      /\ LastOf(k, n) # 0 => log[LastOf(k, n)].k = k
      /\ \A j \in 1..n : log[j].k = k => j <= LastOf(k, n)
  BY LastOfIs
<1>2. m \in 0..Len(log) /\ n \in Nat /\ m \in Nat
  BY Sizes
<1>3. /\ LastOf(k, m) \in 0..m
      /\ LastOf(k, m) # 0 => log[LastOf(k, m)].k = k
      /\ \A j \in 1..m : log[j].k = k => j <= LastOf(k, m)
  BY <1>2, LastOfIs
<1>4. LastOf(k, m) <= LastOf(k, n)
  BY <1>1, <1>2, <1>3
<1>5. LastOf(k, n) <= m => LastOf(k, n) <= LastOf(k, m)
  BY <1>1, <1>2, <1>3
<1> QED BY <1>1, <1>3, <1>4, <1>5

\* Commits to come change nothing of what is known of the earlier ones.
Longer == /\ Len(log') >= Len(log)
          /\ \A i \in 1..Len(log) : log'[i] = log[i]

LEMMA LongerKeeps ==
    ASSUME TypeInv, TypeInv', Longer
    PROVE  /\ \A i \in 0..Len(log) : Version(i)' = Version(i) /\ Live(i)' = Live(i)
           /\ \A k \in Keys, n \in 0..Len(log) : LastOf(k, n)' = LastOf(k, n)
<1>1. Len(log) \in Nat
  BY Sizes
<1>2. \A i \in 0..Len(log) : Version(i)' = Version(i) /\ Live(i)' = Live(i)
  BY <1>1 DEF Longer, Version, Live
<1>3. ASSUME NEW k \in Keys, NEW n \in 0..Len(log)
      PROVE  LastOf(k, n)' = LastOf(k, n)
  <2>1. {j \in 1..n : log'[j].k = k} = {j \in 1..n : log[j].k = k}
    BY <1>1 DEF Longer
  <2> QED BY <2>1 DEF LastOf
<1> QED BY <1>2, <1>3

LEMMA FollowsKept ==
    ASSUME TypeInv, TypeInv', Longer,
           NEW n \in 0..Len(log), NEW m \in 0..n, NEW c, Follows(c, m, n)
    PROVE  Follows(c, m, n)'
<1>1. /\ \A i \in 0..Len(log) : Version(i)' = Version(i) /\ Live(i)' = Live(i)
      /\ \A k \in Keys, j \in 0..Len(log) : LastOf(k, j)' = LastOf(k, j)
  BY LongerKeeps
<1>2. Len(log) \in Nat /\ m \in 0..Len(log)
  BY Sizes
<1>3. \A x \in m..n : x \in 0..Len(log) /\ \A k \in Keys : LastOf(k, x) \in 0..Len(log)
  <2>1. \A x \in m..n : x \in 0..Len(log) /\ x \in Nat
    BY <1>2
  <2>2. \A x \in m..n : \A k \in Keys : LastOf(k, x) \in 0..x
    BY <2>1, LastOfIs
  <2> QED BY <1>2, <2>1, <2>2
<1>4. ASSUME NEW i \in c
      PROVE  (/\ i \in 1..n /\ i = LastOf(log[i].k, n)
              /\ \A x \in m..n : Live(LastOf(log[i].k, x)) =>
                  i = LastOf(log[i].k, x) \/ Version(i) > Version(LastOf(log[i].k, x)))'
  <2>1. i \in 1..n /\ i = LastOf(log[i].k, n) /\ i \in 1..Len(log) /\ i \in 0..Len(log)
    BY <1>2 DEF Follows
  <2>2. log'[i] = log[i] /\ log[i].k \in Keys
    BY <2>1, Sizes DEF Longer, Commit
  <2>3. LastOf(log[i].k, n)' = LastOf(log[i].k, n)
    BY <1>1, <1>2, <2>2
  <2>4. ASSUME NEW x \in m..n
        PROVE  (Live(LastOf(log[i].k, x)) =>
                   i = LastOf(log[i].k, x) \/ Version(i) > Version(LastOf(log[i].k, x)))'
    <3>1. LastOf(log[i].k, x)' = LastOf(log[i].k, x) /\ LastOf(log[i].k, x) \in 0..Len(log)
      BY <1>1, <1>3, <2>2
    <3>2. Live(LastOf(log[i].k, x)) =>
              i = LastOf(log[i].k, x) \/ Version(i) > Version(LastOf(log[i].k, x))
      BY DEF Follows
    <3> QED BY <1>1, <2>1, <2>2, <3>1, <3>2
  <2> QED BY <2>1, <2>2, <2>3, <2>4
<1> QED BY <1>1, <1>2, <1>4 DEF Follows

LEMMA LiveAtKept ==
    ASSUME TypeInv, TypeInv', Longer, NEW n \in 0..Len(log)
    PROVE  LiveAt(n)' = LiveAt(n)
<1>1. /\ \A i \in 0..Len(log) : Live(i)' = Live(i)
      /\ \A k \in Keys : LastOf(k, n)' = LastOf(k, n)
  BY LongerKeeps
<1>2. \A k \in Keys : LastOf(k, n) \in 0..Len(log)
  BY Sizes, LastOfIs
<1>3. \A k \in Keys : Live(LastOf(k, n))' = Live(LastOf(k, n))
  BY <1>1, <1>2
<1>4. {j \in Keys : Live(LastOf(j, n))}' = {j \in Keys : Live(LastOf(j, n))}
  BY <1>3
<1> QED BY <1>1, <1>4 DEF LiveAt

-----------------------------------------------------------------------------
(* What a client makes of the objects.                                     *)

LEMMA WipedIs ==
    ASSUME TypeInv, NEW n \in 0..Len(log)
    PROVE  Wiped(LiveAt(n)) = TableAt(n)
<1> SUFFICES ASSUME NEW k \in Keys PROVE Wiped(LiveAt(n))[k] = TableAt(n)[k]
  BY DEF Wiped, TableAt
<1>1. \A j \in Keys : Live(LastOf(j, n)) => log[LastOf(j, n)].k = j
  BY LastOfIs DEF Live
<1> DEFINE mine == {i \in LiveAt(n) : log[i].k = k}
<1>2. mine = IF Live(LastOf(k, n)) THEN {LastOf(k, n)} ELSE {}
  BY <1>1 DEF LiveAt
<1>3. Wiped(LiveAt(n))[k] = IF mine = {} THEN 0 ELSE CHOOSE i \in mine : TRUE
  BY DEF Wiped
<1>4. TableAt(n)[k] = IF Live(LastOf(k, n)) THEN LastOf(k, n) ELSE 0
  BY DEF TableAt
<1> HIDE DEF mine
<1> QED BY <1>2, <1>3, <1>4

\* Where row k of a replica stands, as old as x before, once part of a delta c that
\* ends at n has been merged into it.
Taken(r, c, part, k, x, n) ==
    \/ Merge(r, part)[k] = TableAt(x)[k] /\ (part = c => x >= n)
    \/ Merge(r, part)[k] = TableAt(n)[k] /\ (n >= x \/ LastOf(k, n) \in part)

\* A delta, or some of it, takes a row from what it was at a commit x, not before
\* the delta's start, to what it was at the delta's end, or leaves it at x: only
\* if x is past the end, or the delta was not all taken.
LEMMA MergeRow ==
    ASSUME TypeInv, Positive, NEW n \in 0..Len(log), NEW m \in 0..n, NEW c, Follows(c, m, n),
           NEW part \in SUBSET c, NEW k \in Keys, NEW x \in m..Len(log),
           NEW r, r[k] = TableAt(x)[k]
    PROVE  Taken(r, c, part, k, x, n)
<1> SUFFICES \E y \in {x, n} : /\ Merge(r, part)[k] = TableAt(y)[k]
                               /\ part = c => y >= n
                               /\ y >= x \/ LastOf(k, n) \in part
  BY DEF Taken
<1> DEFINE mine == {i \in part : log[i].k = k}
           was  == LastOf(k, x)
           is   == LastOf(k, n)
<1>1. /\ n \in Nat /\ m \in Nat /\ x \in 0..Len(log) /\ x \in Nat /\ Len(log) \in Nat
      /\ was \in 0..Len(log) /\ is \in 0..Len(log) /\ is \in 0..n
      /\ is # 0 => log[is].k = k
      /\ x <= n => (is <= x => is = was)
  <2>1. Len(log) \in Nat /\ n \in Nat /\ m \in Nat /\ x \in 0..Len(log) /\ x \in Nat
    BY Sizes
  <2>2. was \in 0..x /\ is \in 0..n /\ (is # 0 => log[is].k = k)
    BY <2>1, LastOfIs
  <2>3. x <= n => x \in 0..n
    BY <2>1
  <2>4. x <= n => (is <= x => is = was)
    BY <2>3, LastOfGrows
  <2> QED BY <2>1, <2>2, <2>4
<1>2. mine \subseteq {is}
  BY DEF Follows
<1>3. TableAt(n)[k] = (IF Live(is) THEN is ELSE 0) /\ TableAt(x)[k] = IF Live(was) THEN was ELSE 0
  BY DEF TableAt
<1>4. Merge(r, part)[k] =
          IF mine = {} THEN r[k]
          ELSE LET i == CHOOSE i \in mine : TRUE
               IN  IF log[i].dead THEN 0
                   ELSE IF Version(i) > Version(r[k]) THEN i ELSE r[k]
  BY DEF Merge
<1>5. CASE mine = {}
  <2>1. part = c /\ x < n => is = was
    <3> SUFFICES ASSUME part = c, is > m PROVE FALSE
      BY <1>1
    <3>1. is \in c
      BY DEF Follows
    <3>2. is # 0
      BY <1>1
    <3> QED BY <1>1, <1>5, <3>1, <3>2
  <2> HIDE DEF mine, is, was
  <2>2. Merge(r, part)[k] = TableAt(x)[k]
    BY <1>4, <1>5
  <2>3. part = c /\ x < n => Merge(r, part)[k] = TableAt(n)[k]
    BY <1>3, <2>1, <2>2
  <2> QED BY <1>1, <2>2, <2>3
<1>6. CASE mine # {}
  <2>1. mine = {is} /\ is \in part /\ is \in c
    BY <1>2, <1>6
  <2>2. (CHOOSE i \in mine : TRUE) = is
    <3> HIDE DEF mine, is
    <3> QED BY <2>1
  <2>3. is \in 1..n /\ log[is].k = k
    BY <1>1, <2>1 DEF Follows
  <2>4. Live(is) <=> ~log[is].dead
    BY <2>3 DEF Live
  <2>5. x <= n => (Live(was) => is = was \/ Version(is) > Version(was))
    <3>1. \A z \in m..n : Live(LastOf(k, z)) => is = LastOf(k, z) \/ Version(is) > Version(LastOf(k, z))
      BY <2>1, <2>3 DEF Follows
    <3>2. x <= n => x \in m..n
      BY <1>1
    <3> QED BY <3>1, <3>2
  <2>6. Version(is) > 0 /\ Version(0) = 0
    BY <1>1, <2>3 DEF Version, Positive
  <2>7. Merge(r, part)[k] = IF log[is].dead THEN 0
                            ELSE IF Version(is) > Version(r[k]) THEN is ELSE r[k]
    <3> HIDE DEF mine, is, was
    <3> QED BY <1>4, <1>6, <2>2
  <2>8. Version(was) \in Nat /\ Version(is) \in Nat
    BY <1>1, Sizes
  <2> HIDE DEF mine, is, was
  <2>9. Merge(r, part)[k] = TableAt(n)[k] \/ (Merge(r, part)[k] = TableAt(x)[k] /\ x > n)
    <3>1. CASE log[is].dead
      BY <1>3, <2>4, <2>7, <3>1
    <3>2. CASE ~log[is].dead /\ Version(is) > Version(r[k])
      BY <1>3, <2>4, <2>7, <3>2
    <3>3. CASE ~log[is].dead /\ ~(Version(is) > Version(r[k])) /\ x <= n
      <4>1. Live(was)
        BY <1>3, <2>6, <3>3
      <4>2. r[k] = was /\ ~(Version(is) > Version(was))
        BY <1>3, <3>3, <4>1
      <4>3. is = was
        BY <2>5, <3>3, <4>1, <4>2
      <4> QED BY <1>3, <2>4, <2>7, <3>3, <4>2, <4>3
    <3>4. CASE ~log[is].dead /\ ~(Version(is) > Version(r[k])) /\ x > n
      BY <2>7, <3>4
    <3> QED BY <1>1, <3>1, <3>2, <3>3, <3>4
  <2> QED BY <1>1, <2>1, <2>9 DEF is
<1> QED BY <1>5, <1>6

LEMMA MergeIs ==
    ASSUME TypeInv, Positive, NEW n \in 0..Len(log), NEW m \in 0..n, NEW c, Follows(c, m, n),
           NEW x \in m..n
    PROVE  Merge(TableAt(x), c) = TableAt(n)
<1> SUFFICES ASSUME NEW k \in Keys PROVE Merge(TableAt(x), c)[k] = TableAt(n)[k]
  BY DEF Merge, TableAt
<1>1. x \in m..Len(log) /\ x \in Nat /\ n \in Nat /\ x <= n
  BY Sizes
<1>2. Taken(TableAt(x), c, c, k, x, n)
  BY <1>1, MergeRow
<1> QED BY <1>1, <1>2 DEF Taken

-----------------------------------------------------------------------------
(* Steps that change nothing the invariant is about, or only the table.    *)

LEMMA AllButTable ==
    ASSUME NEW snap \in Snaps, ChainOf(snap),
           UNCHANGED <<now, open, log, chainVars, producerVars>>
    PROVE  /\ LiveSuffix' /\ Listed' /\ Positive' /\ snap \in Snaps'
           /\ Recorded(snap)' /\ LastRecorded(snap)' /\ Building(snap)'
           /\ \A k, n : LastOf(k, n)' = LastOf(k, n)
           /\ \A i : Live(i)' = Live(i)
           /\ MarkOf(snap, Len(gens))' = MarkOf(snap, Len(gens))
<1>1. now' = now /\ open' = open /\ log' = log /\ gens' = gens
      /\ manifest' = manifest /\ objects' = objects /\ ppc' = ppc /\ build' = build
  BY DEF chainVars, producerVars
<1>2. NextGen' = NextGen /\ LastFull' = LastFull
  BY <1>1 DEF NextGen, LastFull, NewestFull, LiveGens
<1>3. /\ \A i : Version(i)' = Version(i) /\ Live(i)' = Live(i)
      /\ \A k, n : LastOf(k, n)' = LastOf(k, n)
  BY <1>1 DEF Version, Live, LastOf
<1>4. \A n : LiveAt(n)' = LiveAt(n)
  BY <1>1 DEF LiveAt, Live, LastOf
<1>5. \A c, m, n : Follows(c, m, n) => Follows(c, m, n)'
  BY <1>1, <1>3 DEF Follows
<1>6. /\ \A m, cut, floor : Since(m, cut, floor) => Since(m, cut, floor)'
      /\ \A m : Rising(m) => Rising(m)'
  BY <1>1, <1>3 DEF Since, Rising
<1>7. LiveSuffix' /\ Listed' /\ Positive'
  BY <1>1, <1>2 DEF ChainOf, LiveSuffix, Listed, Positive
<1>8. \A g : MarkOf(snap, g)' = MarkOf(snap, g)
  BY <1>1 DEF MarkOf
<1>9. Recorded(snap)'
  BY <1>1, <1>4, <1>5, <1>8 DEF ChainOf, Recorded
<1>10. LastRecorded(snap)'
  BY <1>1, <1>6, <1>8 DEF ChainOf, LastRecorded, Above
<1>11. Building(snap)'
  BY <1>1, <1>2, <1>4, <1>5, <1>6, <1>8 DEF ChainOf, Building, Above
<1> QED BY <1>1, <1>3, <1>7, <1>8, <1>9, <1>10, <1>11 DEF Snaps

LEMMA Frame ==
    ASSUME NEW snap \in Snaps, ChainOf(snap),
           UNCHANGED <<now, open, log, rows, chainVars, producerVars>>
    PROVE  snap \in Snaps' /\ ChainOf(snap)'
<1>1. Table(snap)'
  BY AllButTable DEF ChainOf, Table, chainVars
<1> QED BY <1>1, AllButTable DEF ChainOf

LEMMA MarkIs ==
    ASSUME NEW n \in Nat, NEW seq \in 0..n
    PROVE  /\ Mark(seq, n) \in 0..n /\ seq <= Mark(seq, n)
           /\ \A m \in 0..n : \A s \in 0..m : s <= seq => Mark(s, m) <= Mark(seq, n)
<1>1. CASE "lagging stream" \in Disorder
  <2>1. \A s, m : Mark(s, m) = m
    BY <1>1 DEF Mark
  <2> QED BY <2>1
<1>2. CASE "lagging stream" \notin Disorder
  <2>1. \A s, m : Mark(s, m) = s
    BY <1>2 DEF Mark
  <2> QED BY <2>1
<1> QED BY <1>1, <1>2

\* Snapshots and marks in the order of their generations, within the log.
LEMMA SnapsRise ==
    ASSUME TypeInv, NEW snap \in Snaps, ChainOf(snap)
    PROVE  /\ \A g \in 1..Len(gens) : snap[g] \in 0..Len(log) /\ snap[g] <= snap[Len(gens)]
           /\ \A g \in 1..Len(gens) : \A h \in 1..g : snap[h] \in 0..snap[g]
           /\ \A g \in 1..Len(gens) : /\ gens[g].seq \in 0..snap[g]
                                     /\ gens[g].seq <= gens[Len(gens)].seq
           /\ \A g \in 1..Len(gens) : \A h \in 0..g : MarkOf(snap, h) \in 0..snap[g]
           /\ MarkOf(snap, Len(gens)) \in 0..Len(log)
           /\ ppc = "built" => /\ snap[NextGen] \in 0..Len(log)
                               /\ Mark(build.seq, snap[NextGen]) \in 0..snap[NextGen]
                               /\ MarkOf(snap, Len(gens)) \in 0..Mark(build.seq, snap[NextGen])
                               /\ Len(gens) > 0 => snap[Len(gens)] \in 0..snap[NextGen]
<1>1. Len(gens) \in 0..MaxGens /\ Len(log) \in Nat /\ Len(gens) \in Nat
  BY Sizes, GenerationsAssumption
<1>2. 1..Len(gens) \subseteq Gens
  BY <1>1, GenerationsAssumption DEF Gens
<1>3. \A g \in 1..Len(gens) : snap[g] \in 0..Len(log)
  BY <1>2 DEF Snaps
<1>4. \A g \in 1..Len(gens) : \A h \in 1..g : /\ h \in 1..Len(gens) /\ snap[h] <= snap[g]
                                              /\ gens[h].seq <= gens[g].seq
  <2>1. \A g \in 1..Len(gens) : \A h \in 1..g : snap[h] <= snap[g] /\ gens[h].seq <= gens[g].seq
    BY DEF ChainOf, Recorded
  <2> QED BY <1>1, <2>1
<1>5. \A g \in 1..Len(gens) : Len(gens) \in 1..Len(gens) /\ g \in 1..Len(gens)
  BY <1>1
<1>6. \A g \in 1..Len(gens) : gens[g].seq \in Nat /\ gens[g].seq <= snap[g]
  <2>1. last \in Nat
    BY <1>1 DEF TypeInv, TypeOK
  <2>2. \A g \in 1..Len(gens) : gens[g] \in Record(last)
    BY Sizes
  <2>3. \A g \in 1..Len(gens) : gens[g].seq \in 0..last
    BY <2>2 DEF Record
  <2>4. \A g \in 1..Len(gens) : gens[g].seq <= snap[g]
    BY DEF ChainOf, Recorded
  <2> QED BY <2>1, <2>3, <2>4
<1>7. \A g \in 1..Len(gens) : \A h \in 1..g : snap[h] \in 0..snap[g]
  BY <1>1, <1>3, <1>4
<1>8. \A g \in 1..Len(gens) : snap[g] <= snap[Len(gens)] /\ gens[g].seq <= gens[Len(gens)].seq
  BY <1>1, <1>4, <1>5
<1>9. \A g \in 1..Len(gens) : \A h \in 0..g : MarkOf(snap, h) \in 0..snap[g]
  <2> SUFFICES ASSUME NEW g \in 1..Len(gens), NEW h \in 0..g PROVE MarkOf(snap, h) \in 0..snap[g]
    OBVIOUS
  <2>1. CASE h = 0
    BY <1>3, <2>1 DEF MarkOf
  <2>2. CASE h # 0
    <3>1. h \in 1..g /\ h \in 1..Len(gens)
      BY <1>1, <2>2
    <3>2. snap[h] \in 0..snap[g] /\ gens[h].seq \in 0..snap[h] /\ snap[g] \in Nat /\ snap[h] \in Nat
      BY <1>3, <1>6, <1>7, <3>1
    <3>3. Mark(gens[h].seq, snap[h]) \in 0..snap[h]
      BY <3>2, MarkIs
    <3> QED BY <2>2, <3>2, <3>3 DEF MarkOf
  <2> QED BY <2>1, <2>2
<1>10. MarkOf(snap, Len(gens)) \in 0..Len(log)
  <2>1. CASE Len(gens) = 0
    BY <1>1, <2>1 DEF MarkOf
  <2>2. CASE Len(gens) # 0
    <3>1. Len(gens) \in 1..Len(gens) /\ Len(gens) \in 0..Len(gens)
      BY <1>1, <2>2
    <3>2. snap[Len(gens)] \in 0..Len(log) /\ MarkOf(snap, Len(gens)) \in 0..snap[Len(gens)]
      BY <1>3, <1>9, <3>1
    <3> QED BY <1>1, <3>2
  <2> QED BY <2>1, <2>2
<1>11. ASSUME ppc = "built"
       PROVE  /\ snap[NextGen] \in 0..Len(log)
              /\ Mark(build.seq, snap[NextGen]) \in 0..snap[NextGen]
              /\ MarkOf(snap, Len(gens)) \in 0..Mark(build.seq, snap[NextGen])
              /\ Len(gens) > 0 => snap[Len(gens)] \in 0..snap[NextGen]
  <2>1. snap[NextGen] \in 0..Len(log) /\ build.seq <= snap[NextGen]
        /\ (Len(gens) > 0 => snap[Len(gens)] <= snap[NextGen] /\ gens[Len(gens)].seq <= build.seq)
    BY <1>11 DEF ChainOf, Building, Snaps, TypeInv
  <2>2. build.seq \in Nat
    BY <1>1 DEF TypeInv, TypeOK
  <2>3. Mark(build.seq, snap[NextGen]) \in 0..snap[NextGen]
    <3>1. snap[NextGen] \in Nat /\ build.seq \in 0..snap[NextGen]
      BY <2>1, <2>2
    <3> QED BY <3>1, MarkIs
  <2>4. CASE Len(gens) = 0
    <3>1. MarkOf(snap, Len(gens)) = 0
      BY <2>4 DEF MarkOf
    <3> QED BY <2>1, <2>3, <2>4, <3>1
  <2>5. CASE Len(gens) # 0
    <3>1. Len(gens) \in 1..Len(gens) /\ Len(gens) > 0
      BY <1>1, <2>5
    <3>2. snap[Len(gens)] \in 0..snap[NextGen]
      BY <1>3, <2>1, <3>1
    <3>3. MarkOf(snap, Len(gens)) = Mark(gens[Len(gens)].seq, snap[Len(gens)])
      BY <2>5 DEF MarkOf
    <3>4. gens[Len(gens)].seq \in 0..snap[Len(gens)] /\ gens[Len(gens)].seq <= build.seq
          /\ snap[Len(gens)] \in Nat /\ snap[NextGen] \in Nat /\ build.seq \in 0..snap[NextGen]
      BY <1>3, <1>6, <2>1, <2>2, <3>1
    <3>5. /\ Mark(gens[Len(gens)].seq, snap[Len(gens)]) \in 0..snap[Len(gens)]
          /\ Mark(gens[Len(gens)].seq, snap[Len(gens)]) <= Mark(build.seq, snap[NextGen])
      BY <3>2, <3>4, MarkIs
    <3> QED BY <2>1, <2>3, <3>2, <3>3, <3>4, <3>5
  <2> QED BY <1>1, <2>4, <2>5
<1> QED BY <1>3, <1>6, <1>7, <1>8, <1>9, <1>10, <1>11

LEMMA ReapChain ==
    ASSUME TypeInv, NEW snap \in Snaps, ChainOf(snap), Orderly, NEW k \in Keys, Reap(k)
    PROVE  snap \in Snaps' /\ ChainOf(snap)'
<1>1. /\ rows' = [rows EXCEPT ![k] = 0] /\ log' = log /\ gens' = gens
      /\ UNCHANGED <<now, open, log, chainVars, producerVars>>
  BY DEF Reap, chainVars
<1>2. Table(snap)'
  <2>1. Len(log) \in Nat /\ rows \in [Keys -> 0..Len(log)]
    BY Sizes DEF TypeInv, TypeOK
  <2>2. rows[k] = LastOf(k, Len(log)) /\ ~Live(LastOf(k, Len(log)))
    BY DEF ChainOf, Table, Reap, Live
  <2>3. PICK g \in DOMAIN gens : rows[k] <= gens[g].seq
    BY DEF Reap, Orderly
  <2>4. g \in 1..Len(gens) /\ Len(gens) \in Nat
    BY Sizes
  <2>5. Len(gens) \in 1..Len(gens)
    BY <2>4
  <2>6. /\ gens[g].seq \in Nat /\ gens[g].seq <= gens[Len(gens)].seq
        /\ gens[Len(gens)].seq \in 0..snap[Len(gens)] /\ snap[Len(gens)] \in Nat
    BY <2>1, <2>4, <2>5, SnapsRise
  <2>7. rows[k] \in Nat /\ rows[k] <= MarkOf(snap, Len(gens)) /\ Len(gens) > 0
    <3>1. /\ gens[Len(gens)].seq <= Mark(gens[Len(gens)].seq, snap[Len(gens)])
          /\ Mark(gens[Len(gens)].seq, snap[Len(gens)]) \in 0..snap[Len(gens)]
      <4>1. snap[Len(gens)] \in Nat /\ gens[Len(gens)].seq \in 0..snap[Len(gens)]
        BY <2>6
      <4> QED BY <4>1, MarkIs
    <3>2. MarkOf(snap, Len(gens)) = Mark(gens[Len(gens)].seq, snap[Len(gens)])
      BY <2>5 DEF MarkOf
    <3> QED BY <2>1, <2>3, <2>5, <2>6, <3>1, <3>2
  <2>8. ASSUME NEW j \in Keys
        PROVE  \/ rows'[j] = LastOf(j, Len(log))
               \/ /\ rows'[j] = 0 /\ ~Live(LastOf(j, Len(log)))
                  /\ Len(gens) > 0 /\ LastOf(j, Len(log)) <= MarkOf(snap, Len(gens))
    <3>1. CASE j = k
      BY <1>1, <2>1, <2>2, <2>7, <3>1
    <3>2. CASE j # k
      BY <1>1, <2>1, <3>2 DEF ChainOf, Table
    <3> QED BY <3>1, <3>2
  <2> QED BY <1>1, <2>8, AllButTable DEF Table
<1> QED BY <1>1, <1>2, AllButTable DEF ChainOf

-----------------------------------------------------------------------------
(* Transactions.                                                           *)

\* A write of row k with a version that lies above the row's, and in the next
\* delta of whatever was cut before it.
Commits(k, v, dead) ==
    /\ Write(k, v, dead) /\ v > 0 /\ v > Version(rows[k])
    /\ \A cut, floor \in Nat :
           cut <= now /\ Above(floor) => v >= deltaLowerBound(cut, floor, Tolerance)
    /\ now' \in Nat /\ now' >= now /\ open' \subseteq open
    /\ UNCHANGED <<chainVars, producerVars>>

LEMMA Written ==
    ASSUME TypeInv, NEW k \in Keys, NEW v \in Nat, NEW dead \in BOOLEAN, Write(k, v, dead)
    PROVE  /\ Longer /\ Len(log') = Len(log) + 1
           /\ log'[Len(log) + 1] = [k |-> k, v |-> v, dead |-> dead]
<1> DEFINE c == [k |-> k, v |-> v, dead |-> dead]
<1>1. log \in Seq(Commit) /\ c \in Commit /\ log' = Append(log, c)
  BY DEF Write, TypeInv, TypeOK, Commit
<1> HIDE DEF c
<1>2. Len(log') = Len(log) + 1 /\ log'[Len(log) + 1] = c /\ Len(log) \in Nat
      /\ \A i \in 1..Len(log) : log'[i] = log[i]
  BY <1>1
<1> QED BY <1>2 DEF Longer, c

\* The last commit of a row has the highest version of those after m.
LEMMA LastIsHighest ==
    ASSUME TypeInv, NEW k \in Keys, NEW m \in 0..Len(log), Rising(m),
           NEW x \in m..Len(log), Live(LastOf(k, x))
    PROVE  Version(LastOf(k, x)) <= Version(LastOf(k, Len(log)))
<1>1. Len(log) \in Nat /\ Len(log) \in 0..Len(log) /\ x \in 0..Len(log) /\ m \in Nat
  BY Sizes
<1>2. /\ LastOf(k, x) \in 0..Len(log)
      /\ LastOf(k, Len(log)) \in 0..Len(log)
      /\ LastOf(k, Len(log)) # 0 => log[LastOf(k, Len(log))].k = k
      /\ LastOf(k, Len(log)) <= x => LastOf(k, Len(log)) = LastOf(k, x)
  <2>1. LastOf(k, x) \in 0..x
    BY <1>1, LastOfIs
  <2>2. LastOf(k, x) \in 0..Len(log)
    BY <1>1, <2>1
  <2> QED BY <1>1, <2>2, LastOfIs, LastOfGrows
<1>3. Version(LastOf(k, x)) \in Nat /\ Version(LastOf(k, Len(log))) \in Nat
  BY <1>2, Sizes
<1>4. CASE LastOf(k, Len(log)) <= x
  BY <1>2, <1>3, <1>4
<1>5. CASE LastOf(k, Len(log)) > x
  <2>1. LastOf(k, Len(log)) \in 1..Len(log) /\ x \in m..LastOf(k, Len(log))-1
        /\ log[LastOf(k, Len(log))].k = k
    BY <1>1, <1>2, <1>5
  <2> QED BY <1>3, <2>1 DEF Rising
<1> QED BY <1>1, <1>2, <1>4, <1>5

LEMMA SinceKept ==
    ASSUME TypeInv, TypeInv', NEW k \in Keys, NEW v \in Nat, NEW dead \in BOOLEAN,
           Commits(k, v, dead), NEW m,
           NEW cut \in Nat, NEW floor \in Nat, Since(m, cut, floor), Above(floor)
    PROVE  Since(m, cut, floor)'
<1>1. Len(log) \in Nat /\ now \in Nat
  BY Sizes DEF TypeInv, TypeOK
<1>2. /\ Longer /\ Len(log') = Len(log) + 1
      /\ log'[Len(log) + 1] = [k |-> k, v |-> v, dead |-> dead]
  BY Written DEF Commits
<1>3. \A i \in 0..Len(log) : Version(i)' = Version(i)
  BY <1>2, LongerKeeps
<1>4. cut <= now'
  BY <1>1 DEF Commits, Since
<1>5. ASSUME NEW i, i = Len(log) + 1
      PROVE  Version(i)' = v
  BY <1>1, <1>2, <1>5 DEF Version
<1>6. v >= deltaLowerBound(cut, floor, Tolerance)
  BY DEF Commits, Since
<1>7. \A i \in 1..Len(log) : i > m => Version(i)' >= deltaLowerBound(cut, floor, Tolerance)
  BY <1>3 DEF Since
<1>8. \A i \in 1..Len(log') : i \in 1..Len(log) \/ i = Len(log) + 1
  BY <1>1, <1>2
<1>9. ASSUME NEW i \in 1..Len(log'), i > m
      PROVE  Version(i)' >= deltaLowerBound(cut, floor, Tolerance)
  <2>1. CASE i \in 1..Len(log)
    BY <1>7, <1>9, <2>1
  <2>2. CASE i = Len(log) + 1
    <3>1. Version(i)' = v
      BY <1>5, <2>2
    <3> QED BY <1>6, <3>1
  <2> QED BY <1>8, <2>1, <2>2
<1> QED BY <1>4, <1>9 DEF Since

LEMMA RisingKept ==
    ASSUME TypeInv, TypeInv', NEW k \in Keys, NEW v \in Nat, NEW dead \in BOOLEAN,
           Commits(k, v, dead), NEW snap \in Snaps, ChainOf(snap),
           NEW m, m = MarkOf(snap, Len(gens))
    PROVE  Rising(m)'
<1>1. Len(log) \in Nat /\ Len(log) \in 0..Len(log) /\ m \in 0..Len(log) /\ m \in Nat
  BY Sizes, SnapsRise
<1>2. /\ Longer /\ Len(log') = Len(log) + 1
      /\ log'[Len(log) + 1] = [k |-> k, v |-> v, dead |-> dead]
  BY Written DEF Commits
<1>3. /\ \A i \in 0..Len(log) : Version(i)' = Version(i) /\ Live(i)' = Live(i)
      /\ \A j \in Keys, n \in 0..Len(log) : LastOf(j, n)' = LastOf(j, n)
  BY <1>2, LongerKeeps
<1>4. Rising(m)
  BY DEF ChainOf, LastRecorded
<1>5. \A x \in m..Len(log) : \A j \in Keys :
          x \in 0..Len(log) /\ LastOf(j, x) \in 0..Len(log)
  <2>1. \A x \in m..Len(log) : x \in 0..Len(log)
    BY <1>1
  <2>2. \A x \in m..Len(log) : \A j \in Keys : LastOf(j, x) \in 0..x
    BY <2>1, LastOfIs
  <2> QED BY <1>1, <2>1, <2>2
<1>6. ASSUME NEW i \in 1..Len(log), NEW x \in m..i-1
      PROVE  (Live(LastOf(log[i].k, x)) => Version(i) > Version(LastOf(log[i].k, x)))'
  <2>1. log'[i] = log[i] /\ log[i].k \in Keys /\ i \in 0..Len(log) /\ x \in m..Len(log)
    BY <1>1, <1>2, Sizes DEF Longer, Commit
  <2>2. Live(LastOf(log[i].k, x)) => Version(i) > Version(LastOf(log[i].k, x))
    BY <1>4 DEF Rising
  <2>3. LastOf(log[i].k, x)' = LastOf(log[i].k, x) /\ LastOf(log[i].k, x) \in 0..Len(log)
    BY <1>3, <1>5, <2>1
  <2> QED BY <1>3, <2>1, <2>2, <2>3
<1>7. ASSUME NEW x \in m..Len(log), Live(LastOf(k, x))
      PROVE  v > Version(LastOf(k, x))
  <2>1. /\ LastOf(k, x) \in 0..Len(log) /\ LastOf(k, Len(log)) \in 0..Len(log)
        /\ (LastOf(k, Len(log)) <= x => LastOf(k, Len(log)) = LastOf(k, x))
    BY <1>1, <1>5, LastOfIs, LastOfGrows
  <2>2. CASE rows[k] = LastOf(k, Len(log))
    <3>1. Version(LastOf(k, x)) <= Version(rows[k]) /\ v > Version(rows[k])
      BY <1>1, <1>4, <1>7, <2>2, LastIsHighest DEF Commits
    <3>2. Version(LastOf(k, x)) \in Nat /\ Version(rows[k]) \in Nat
      BY <2>1, <2>2, Sizes
    <3> QED BY <3>1, <3>2
  <2>3. CASE /\ rows[k] = 0 /\ ~Live(LastOf(k, Len(log)))
             /\ Len(gens) > 0 /\ LastOf(k, Len(log)) <= m
    BY <1>1, <1>7, <2>1, <2>3
  <2> QED BY <2>2, <2>3 DEF ChainOf, Table
<1>8. ASSUME NEW i, i = Len(log) + 1, NEW x \in m..i-1
      PROVE  (Live(LastOf(log[i].k, x)) => Version(i) > Version(LastOf(log[i].k, x)))'
  <2>1. log'[i].k = k /\ Version(i)' = v
    BY <1>1, <1>2, <1>8 DEF Version
  <2>2. x \in m..Len(log)
    BY <1>1, <1>8
  <2>3. LastOf(k, x)' = LastOf(k, x) /\ LastOf(k, x) \in 0..Len(log)
    BY <1>3, <1>5, <2>2
  <2> QED BY <1>3, <1>7, <2>1, <2>2, <2>3
<1>9. \A i \in 1..Len(log') : i \in 1..Len(log) \/ i = Len(log) + 1
  BY <1>1, <1>2
<1> QED BY <1>6, <1>8, <1>9 DEF Rising

LEMMA CommitsChain ==
    ASSUME TypeInv, TypeInv', NEW snap \in Snaps, ChainOf(snap),
           NEW k \in Keys, NEW v \in Nat, NEW dead \in BOOLEAN, Commits(k, v, dead)
    PROVE  snap \in Snaps' /\ ChainOf(snap)'
<1>1. ChainOf(snap)
  OBVIOUS
<1>2. Len(log) \in Nat /\ Len(log) \in 0..Len(log) /\ now \in Nat /\ Len(gens) \in Nat
  <2>1. now \in Nat
    BY DEF TypeInv, TypeOK
  <2> QED BY <2>1, Sizes
<1>3. /\ Longer /\ Len(log') = Len(log) + 1
      /\ log'[Len(log) + 1] = [k |-> k, v |-> v, dead |-> dead]
  BY Written DEF Commits
<1>4. /\ \A i \in 0..Len(log) : Version(i)' = Version(i) /\ Live(i)' = Live(i)
      /\ \A j \in Keys, n \in 0..Len(log) : LastOf(j, n)' = LastOf(j, n)
  BY <1>3, LongerKeeps
<1>5. gens' = gens /\ manifest' = manifest /\ objects' = objects /\ ppc' = ppc /\ build' = build
  BY DEF Commits, chainVars, producerVars
<1>6. NextGen' = NextGen /\ LastFull' = LastFull
  BY <1>5 DEF NextGen, LastFull, NewestFull, LiveGens
<1>7. LiveSuffix' /\ Listed'
  BY <1>5, <1>6 DEF ChainOf, LiveSuffix, Listed
<1>8. Positive'
  <2>1. now' > 0
    BY <1>2 DEF ChainOf, Positive, Commits
  <2>2. \A i \in 1..Len(log) : log'[i].v > 0
    BY <1>3 DEF ChainOf, Positive, Longer
  <2>3. log'[Len(log) + 1].v > 0
    BY <1>3 DEF Commits
  <2>4. \A i \in 1..Len(log') : i \in 1..Len(log) \/ i = Len(log) + 1
    BY <1>2, <1>3
  <2> QED BY <2>1, <2>2, <2>3, <2>4 DEF Positive
<1>9. snap \in Snaps'
  BY <1>1, <1>2, <1>3 DEF Snaps
<1>10. /\ \A g \in 1..Len(gens) : snap[g] \in 0..Len(log)
       /\ \A g \in 1..Len(gens) : \A h \in 0..g : MarkOf(snap, h) \in 0..snap[g]
       /\ ppc = "built" => /\ snap[NextGen] \in 0..Len(log)
                           /\ Mark(build.seq, snap[NextGen]) \in 0..snap[NextGen]
                           /\ MarkOf(snap, Len(gens)) \in 0..Mark(build.seq, snap[NextGen])
  BY <1>1, SnapsRise
<1>11. \A floor \in Nat : Above(floor) => Above(floor)'
  BY <1>2 DEF Above, Commits
<1>12. \A g : MarkOf(snap, g)' = MarkOf(snap, g)
  BY <1>5 DEF MarkOf
<1>13. Recorded(snap)'
  <2>1. ASSUME NEW g \in 1..Len(gens)
        PROVE  LiveAt(snap[g])' = LiveAt(snap[g])
    BY <1>3, <1>10, LiveAtKept
  <2>2. ASSUME NEW g \in 1..Len(gens), g > 1, Follows(objects[<<g, "delta">>], MarkOf(snap, g-1), snap[g])
        PROVE  Follows(objects[<<g, "delta">>], MarkOf(snap, g-1), snap[g])'
    <3>1. g - 1 \in 0..g /\ MarkOf(snap, g-1) \in 0..snap[g] /\ snap[g] \in 0..Len(log)
      BY <1>2, <1>10, <2>2
    <3>2. objects[<<g, "delta">>]' = objects[<<g, "delta">>] /\ MarkOf(snap, g-1)' = MarkOf(snap, g-1)
      BY <1>5, <1>12
    <3> QED BY <1>3, <2>2, <3>1, <3>2, FollowsKept
  <2> QED BY <1>1, <1>5, <2>1, <2>2 DEF ChainOf, Recorded
<1>14. LastRecorded(snap)'
  <2> DEFINE m     == MarkOf(snap, Len(gens))
             cut   == gens[Len(gens)].cut
             floor == gens[Len(gens)].floor
  <2>1. m' = m /\ cut' = cut /\ floor' = floor /\ Len(gens)' = Len(gens)
    BY <1>5, <1>12
  <2>2. Len(gens) > 0 => cut \in Nat /\ floor \in Nat
    BY <1>2, Sizes DEF Record
  <2>3. Rising(m) /\ (Len(gens) > 0 => Since(m, cut, floor) /\ Above(floor))
    BY <1>1 DEF ChainOf, LastRecorded
  <2>4. Rising(m)'
    BY <1>1, <2>1, RisingKept
  <2>5. Len(gens) > 0 => Since(m, cut, floor)'
    <3> HIDE DEF m, cut, floor
    <3> QED BY <1>1, <2>1, <2>2, <2>3, SinceKept
  <2>6. Len(gens) > 0 => Above(floor)'
    <3> HIDE DEF floor
    <3> QED BY <1>11, <2>1, <2>2, <2>3
  <2> QED BY <2>1, <2>4, <2>5, <2>6 DEF LastRecorded
<1>15. Building(snap)'
  <2>1. build.floor \in Nat /\ build.cut \in Nat
    BY <1>2 DEF TypeInv, TypeOK
  <2>2. ppc # "idle" => Above(build.floor)'
    <3>1. ppc # "idle" => Above(build.floor)
      BY <1>1 DEF ChainOf, Building
    <3> QED BY <1>5, <1>11, <2>1, <3>1
  <2>3. ASSUME ppc = "built"
        PROVE  /\ Since(Mark(build.seq, snap[NextGen]), build.cut, build.floor)'
               /\ LiveAt(snap[NextGen])' = LiveAt(snap[NextGen])
               /\ Len(gens) > 0 =>
                     Follows(objects[<<NextGen, "delta">>], MarkOf(snap, Len(gens)), snap[NextGen])'
    <3>1. /\ Since(Mark(build.seq, snap[NextGen]), build.cut, build.floor) /\ Above(build.floor)
          /\ Len(gens) > 0 =>
                Follows(objects[<<NextGen, "delta">>], MarkOf(snap, Len(gens)), snap[NextGen])
      BY <1>1, <2>3 DEF ChainOf, Building
    <3>2. snap[NextGen] \in 0..Len(log) /\ MarkOf(snap, Len(gens)) \in 0..snap[NextGen]
      BY <1>10, <2>3
    <3>3. Since(Mark(build.seq, snap[NextGen]), build.cut, build.floor)'
      <4>1. build.cut' = build.cut /\ build.floor' = build.floor
            /\ Mark(build.seq, snap[NextGen])' = Mark(build.seq, snap[NextGen])
        BY <1>5, <1>6
      <4> QED BY <2>1, <3>1, <4>1, SinceKept
    <3>4. LiveAt(snap[NextGen])' = LiveAt(snap[NextGen])
      BY <1>3, <1>6, <3>2, LiveAtKept
    <3>5. Len(gens) > 0 =>
              Follows(objects[<<NextGen, "delta">>], MarkOf(snap, Len(gens)), snap[NextGen])'
      <4>1. /\ objects[<<NextGen, "delta">>]' = objects[<<NextGen, "delta">>]
            /\ MarkOf(snap, Len(gens))' = MarkOf(snap, Len(gens))
            /\ snap[NextGen]' = snap[NextGen]
        BY <1>5, <1>6, <1>12
      <4> QED BY <1>3, <3>1, <3>2, <4>1, FollowsKept
    <3> QED BY <3>3, <3>4, <3>5
  <2> QED BY <1>1, <1>5, <1>6, <2>2, <2>3 DEF ChainOf, Building
<1>16. Table(snap)'
  <2>1. rows' = [rows EXCEPT ![k] = Len(log) + 1] /\ rows \in [Keys -> 0..Len(log)]
    BY DEF Commits, Write, TypeInv, TypeOK
  <2>2. Len(log') \in 0..Len(log') /\ Len(log) + 1 \in 0..Len(log')
    BY <1>2, <1>3
  <2>3. log'[Len(log) + 1].k = k /\ \A i \in 1..Len(log) : log'[i].k = log[i].k
    BY <1>3 DEF Longer
  <2>4. 1..Len(log') = 1..Len(log) \cup {Len(log) + 1}
    BY <1>2, <1>3
  <2>5. \A j : LastOf(j, Len(log))' = Max({0} \cup {i \in 1..Len(log') : log'[i].k = j})
    BY DEF LastOf
  <2>6. ASSUME NEW j \in Keys, j # k
        PROVE  LastOf(j, Len(log))' = LastOf(j, Len(log))
    <3>1. {i \in 1..Len(log') : log'[i].k = j} = {i \in 1..Len(log) : log[i].k = j}
      BY <1>2, <2>3, <2>4, <2>6
    <3> QED BY <2>5, <3>1 DEF LastOf
  <2>7. LastOf(k, Len(log))' = Len(log) + 1
    <3> DEFINE S == {0} \cup {i \in 1..Len(log') : log'[i].k = k}
    <3>1. S \in SUBSET (0..Len(log')) /\ Len(log) + 1 \in S /\ Len(log') \in Nat
      BY <1>2, <1>3, <2>3, <2>4
    <3>2. Max(S) \in S /\ \A h \in S : h <= Max(S)
      <4> HIDE DEF S
      <4> QED BY <3>1, MaxOf
    <3>3. Max(S) \in 0..Len(log') /\ Len(log) + 1 <= Max(S)
      BY <3>1, <3>2
    <3>4. Max(S) = Len(log) + 1
      <4> HIDE DEF S
      <4> QED BY <1>2, <1>3, <3>3
    <3> QED BY <2>5, <3>4
  <2>8. ASSUME NEW j \in Keys
        PROVE  (\/ rows[j] = LastOf(j, Len(log))
                \/ /\ rows[j] = 0 /\ ~Live(LastOf(j, Len(log)))
                   /\ Len(gens) > 0 /\ LastOf(j, Len(log)) <= MarkOf(snap, Len(gens)))'
    <3>1. CASE j = k
      BY <2>1, <2>7, <3>1
    <3>2. CASE j # k
      <4>1. rows'[j] = rows[j] /\ LastOf(j, Len(log))' = LastOf(j, Len(log))
        BY <2>1, <2>6, <3>2
      <4>2. LastOf(j, Len(log)) \in 0..Len(log)
        BY <1>2, LastOfIs
      <4>3. Live(LastOf(j, Len(log)))' = Live(LastOf(j, Len(log)))
        BY <1>4, <4>1, <4>2 DEF Live
      <4> QED BY <1>1, <1>5, <1>12, <4>1, <4>3 DEF ChainOf, Table
    <3> QED BY <3>1, <3>2
  <2> QED BY <2>8 DEF Table
<1> QED BY <1>7, <1>8, <1>9, <1>13, <1>14, <1>15, <1>16 DEF ChainOf

LEMMA LowerBoundIs ==
    ASSUME NEW cut \in Nat, NEW floor \in Nat
    PROVE  /\ deltaLowerBound(cut, floor, Tolerance) \in Int
           /\ deltaLowerBound(cut, floor, Tolerance) <= floor
           /\ deltaLowerBound(cut, floor, Tolerance) <= cut - Tolerance
BY MinPair, GenerationsAssumption DEF deltaLowerBound

\* The clock goes on and transactions begin, whatever the producer does.
LEMMA AllButBuild ==
    ASSUME TypeInv, NEW snap \in Snaps, ChainOf(snap),
           now' \in Nat, now' >= now, open' \subseteq open \cup {now'},
           UNCHANGED <<log, rows, chainVars>>
    PROVE  /\ LiveSuffix' /\ Listed' /\ Positive' /\ snap \in Snaps'
           /\ Recorded(snap)' /\ LastRecorded(snap)' /\ Table(snap)'
           /\ UNCHANGED producerVars => Building(snap)'
<1>1. now \in Nat /\ log' = log /\ rows' = rows /\ gens' = gens /\ manifest' = manifest
      /\ objects' = objects
  BY DEF chainVars, TypeInv, TypeOK
<1>2. NextGen' = NextGen /\ LastFull' = LastFull
  BY <1>1 DEF NextGen, LastFull, NewestFull, LiveGens
<1>3. /\ \A i : Version(i)' = Version(i) /\ Live(i)' = Live(i)
      /\ \A k, n : LastOf(k, n)' = LastOf(k, n)
  BY <1>1 DEF Version, Live, LastOf
<1>4. \A n : LiveAt(n)' = LiveAt(n)
  BY <1>1 DEF LiveAt, Live, LastOf
<1>5. \A c, m, n : Follows(c, m, n) => Follows(c, m, n)'
  BY <1>1, <1>3 DEF Follows
<1>6. \A m, floor : \A cut \in Nat : Since(m, cut, floor) => Since(m, cut, floor)'
  <2>1. \A cut \in Nat : cut <= now => cut <= now'
    BY <1>1
  <2> QED BY <1>1, <1>3, <2>1 DEF Since
<1>7. \A floor \in Nat : Above(floor) => Above(floor)'
  BY <1>1 DEF Above
<1>8. LiveSuffix' /\ Listed' /\ Positive'
  BY <1>1, <1>2 DEF ChainOf, LiveSuffix, Listed, Positive
<1>9. (\A g : MarkOf(snap, g)' = MarkOf(snap, g)) /\ \A m : Rising(m) => Rising(m)'
  BY <1>1, <1>3 DEF MarkOf, Rising
<1>10. Recorded(snap)'
  BY <1>1, <1>4, <1>5, <1>9 DEF ChainOf, Recorded
<1>11. LastRecorded(snap)'
  <2>1. Len(gens) > 0 => gens[Len(gens)].cut \in Nat /\ gens[Len(gens)].floor \in Nat
    BY Sizes DEF Record
  <2> QED BY <1>1, <1>6, <1>7, <1>9, <2>1 DEF ChainOf, LastRecorded
<1>12. UNCHANGED producerVars => Building(snap)'
  <2>1. build.floor \in Nat /\ build.cut \in Nat
    BY <1>1 DEF TypeInv, TypeOK
  <2> QED BY <1>1, <1>2, <1>4, <1>5, <1>6, <1>7, <1>9, <2>1 DEF ChainOf, Building, producerVars
<1>13. Table(snap)' /\ snap \in Snaps'
  BY <1>1, <1>3, <1>9 DEF ChainOf, Table, Snaps
<1> QED BY <1>8, <1>10, <1>11, <1>12, <1>13

LEMMA BeginChain ==
    ASSUME TypeInv, NEW snap \in Snaps, ChainOf(snap), Begin
    PROVE  snap \in Snaps' /\ ChainOf(snap)'
<1>1. now' \in Nat /\ now' >= now /\ open' \subseteq open \cup {now'}
      /\ UNCHANGED <<log, rows, chainVars>> /\ UNCHANGED producerVars
  BY DEF Begin, TypeInv, TypeOK
<1> QED BY <1>1, AllButBuild DEF ChainOf

LEMMA PostgresChain ==
    ASSUME TypeInv, NEW snap \in Snaps, ChainOf(snap), Orderly, Postgres
    PROVE  snap \in Snaps' /\ ChainOf(snap)'
<1>1. now \in Nat /\ open \subseteq 1..now /\ Tolerance \in Nat /\ MaxClock \in Nat
  BY GenerationsAssumption DEF TypeInv, TypeOK
<1>2. TypeInv'
  BY PostgresType
<1>3. CASE Begin
  BY <1>3, BeginChain
<1>4. ASSUME NEW k \in Keys, NEW start \in open, NEW dead \in BOOLEAN, CommitServer(k, start, dead)
      PROVE  snap \in Snaps' /\ ChainOf(snap)'
  <2>1. Write(k, start, dead) /\ now' = now /\ open' = open \ {start}
        /\ UNCHANGED <<chainVars, producerVars>> /\ start > Version(rows[k])
    BY <1>4 DEF CommitServer, Orderly
  <2>2. start \in Nat /\ start > 0 /\ now' \in Nat /\ now' >= now /\ open' \subseteq open
    BY <1>1, <2>1
  <2>3. ASSUME NEW cut \in Nat, NEW floor \in Nat, Above(floor)
        PROVE  start >= deltaLowerBound(cut, floor, Tolerance)
    BY <2>2, <2>3, LowerBoundIs DEF Above
  <2> QED BY <1>2, <2>1, <2>2, <2>3, CommitsChain DEF Commits
<1>5. ASSUME NEW k \in Keys, NEW dead \in BOOLEAN, NEW v \in 1..MaxClock+Tolerance,
             CommitEdge(k, v, dead)
      PROVE  snap \in Snaps' /\ ChainOf(snap)'
  <2>1. Write(k, v, dead) /\ now' = now + 1 /\ open' = open
        /\ UNCHANGED <<chainVars, producerVars>> /\ v > Version(rows[k])
        /\ v >= now' - Tolerance
    BY <1>5 DEF CommitEdge, Orderly
  <2>2. v \in Nat /\ v > 0 /\ now' \in Nat /\ now' >= now /\ open' \subseteq open
    BY <1>1, <2>1
  <2>3. ASSUME NEW cut \in Nat, NEW floor \in Nat, cut <= now
        PROVE  v >= deltaLowerBound(cut, floor, Tolerance)
    BY <1>1, <2>1, <2>2, <2>3, LowerBoundIs
  <2> QED BY <1>2, <2>1, <2>2, <2>3, CommitsChain DEF Commits
<1> QED BY <1>3, <1>4, <1>5 DEF Postgres

-----------------------------------------------------------------------------
(* The producer.                                                           *)

LEMMA BuildBeginChain ==
    ASSUME TypeInv, NEW snap \in Snaps, ChainOf(snap), BuildBegin
    PROVE  snap \in Snaps' /\ ChainOf(snap)'
<1>1. now' \in Nat /\ now' >= now /\ open' = open /\ open' \subseteq open \cup {now'}
      /\ UNCHANGED <<log, rows, chainVars>> /\ gens' = gens /\ ppc' = "begun"
  BY DEF BuildBegin, TypeInv, TypeOK, chainVars
<1>2. Building(snap)'
  <2>1. build'.floor \in 0..now' /\ \A start \in open : build'.floor <= start
    BY BuildBeginType
  <2>2. build'.seq = last
    BY DEF BuildBegin, NoBuild
  <2>3. Len(gens) > 0 => gens[Len(gens)].seq <= last
    <3>1. last \in Nat
      BY Sizes DEF TypeInv, TypeOK
    <3>2. Len(gens) > 0 => gens[Len(gens)] \in Record(last)
      BY Sizes
    <3> QED BY <3>1, <3>2 DEF Record
  <2> QED BY <1>1, <2>1, <2>2, <2>3 DEF Building, Above
<1> QED BY <1>1, <1>2, AllButBuild DEF ChainOf

LEMMA CrashChain ==
    ASSUME TypeInv, NEW snap \in Snaps, ChainOf(snap), ProducerCrash
    PROVE  snap \in Snaps' /\ ChainOf(snap)'
<1>1. now' \in Nat /\ now' >= now /\ open' \subseteq open \cup {now'}
      /\ UNCHANGED <<log, rows, chainVars>> /\ ppc' = "idle"
  BY DEF ProducerCrash, TypeInv, TypeOK, pgVars
<1>2. Building(snap)'
  BY <1>1 DEF Building
<1> QED BY <1>1, <1>2, AllButBuild DEF ChainOf

\* The last recorded generation is the one the next delta starts from.
LEMMA LastGenIs ==
    ASSUME TypeInv, LiveSuffix
    PROVE  LastGen = Len(gens)
<1>1. /\ LiveGens(gens) \subseteq 1..Len(gens) /\ LastGen \in {0} \cup LiveGens(gens)
      /\ \A g \in LiveGens(gens) : g <= LastGen
  BY LastGens
<1>2. Len(gens) \in Nat /\ DOMAIN gens = 1..Len(gens)
  BY Sizes
<1>3. Len(gens) > 0 => Len(gens) \in LiveGens(gens)
  BY <1>2 DEF LiveSuffix, LiveGens
<1>4. Len(gens) \in Nat /\ LastGen \in 0..Len(gens)
  BY <1>1, <1>2
<1>5. CASE Len(gens) = 0
  BY <1>4, <1>5
<1>6. CASE Len(gens) > 0
  <2>1. Len(gens) <= LastGen
    BY <1>1, <1>3, <1>6
  <2> QED BY <1>4, <2>1
<1> QED BY <1>4, <1>5, <1>6

\* What the objects of a snapshot of the table hold.
LEMMA LiveRowsAre ==
    ASSUME TypeInv, NEW snap \in Snaps, Table(snap)
    PROVE  LiveRows = LiveAt(Len(log))
<1>1. \A k \in Keys : /\ Live(rows[k]) <=> Live(LastOf(k, Len(log)))
                      /\ Live(rows[k]) => rows[k] = LastOf(k, Len(log))
  BY DEF Table, Live
<1> QED BY <1>1 DEF LiveRows, LiveAt

LEMMA LateRowsFollow ==
    ASSUME TypeInv, NEW snap \in Snaps, ChainOf(snap), Len(gens) > 0
    PROVE  Follows(LateRows, MarkOf(snap, Len(gens)), Len(log))
<1> DEFINE m == MarkOf(snap, Len(gens))
           n == Len(log)
<1>1. n \in Nat /\ n \in 0..Len(log) /\ m \in 0..n /\ m \in Nat
  BY Sizes, SnapsRise
<1>2. LastGen = Len(gens)
  BY LastGenIs DEF ChainOf
<1>3. Since(m, gens[Len(gens)].cut, gens[Len(gens)].floor) /\ Rising(m)
  BY DEF ChainOf, LastRecorded
<1>4. \A k \in Keys : rows[k] # 0 => rows[k] = LastOf(k, n)
  BY DEF ChainOf, Table
<1>5. \A k \in Keys : LastOf(k, n) > m => rows[k] = LastOf(k, n)
  <2>1. \A k \in Keys : LastOf(k, n) \in Nat
    BY <1>1, LastOfIs
  <2> QED BY <1>1, <2>1 DEF ChainOf, Table
<1>6. ASSUME NEW i \in LateRows
      PROVE  /\ i \in 1..n /\ i = LastOf(log[i].k, n)
             /\ \A x \in m..n : Live(LastOf(log[i].k, x)) =>
                    i = LastOf(log[i].k, x) \/ Version(i) > Version(LastOf(log[i].k, x))
  <2>1. PICK k \in Keys : i = rows[k] /\ rows[k] # 0
    BY DEF LateRows
  <2>2. i = LastOf(k, n) /\ i \in 1..n /\ log[i].k = k
    BY <1>1, <1>4, <2>1, LastOfIs
  <2>3. ASSUME NEW x \in m..n, Live(LastOf(k, x))
        PROVE  i = LastOf(k, x) \/ Version(i) > Version(LastOf(k, x))
    <3>1. CASE i <= x
      <4>1. x \in 0..n
        BY <1>1
      <4> QED BY <1>1, <2>2, <3>1, <4>1, LastOfGrows
    <3>2. CASE i > x
      <4>1. x \in m..i-1
        BY <1>1, <2>2, <3>2
      <4> QED BY <1>3, <2>2, <2>3, <4>1 DEF Rising
    <3> QED BY <1>1, <2>2, <3>1, <3>2
  <2> QED BY <1>1, <2>2, <2>3
<1>7. ASSUME NEW k \in Keys, LastOf(k, n) > m
      PROVE  LastOf(k, n) \in LateRows
  <2>1. rows[k] = LastOf(k, n) /\ rows[k] \in 1..n
    BY <1>1, <1>5, <1>7, LastOfIs
  <2>2. Version(rows[k]) >= LowerBound
    BY <1>2, <1>3, <1>7, <2>1 DEF Since, LowerBound
  <2> QED BY <2>1, <2>2 DEF LateRows
<1> QED BY <1>6, <1>7 DEF Follows

LEMMA BuildObjectsChain ==
    ASSUME TypeInv, NEW snap \in Snaps, ChainOf(snap), NEW full \in BOOLEAN, BuildObjects(full),
           NEW mark, mark = [snap EXCEPT ![NextGen] = Len(log)]
    PROVE  mark \in Snaps' /\ ChainOf(mark)'
<1>1. ChainOf(snap)
  OBVIOUS
<1>2. /\ NextGen \in Gens /\ Len(log) \in Nat /\ Len(log) \in 0..Len(log) /\ now \in Nat
      /\ Len(gens) \in Nat /\ 1..Len(gens) \subseteq Gens /\ last \in 0..Len(log)
      /\ build.seq \in 0..last /\ NextGen = Len(gens) + 1
  <2>1. now \in Nat /\ last \in 0..Len(log) /\ build.seq \in 0..last
    BY DEF TypeInv, TypeOK
  <2>2. NextGen \in Gens
    BY ObjectsBuilt
  <2> QED BY <2>1, <2>2, Sizes, GenerationsAssumption DEF Gens, NextGen
<1>3. /\ mark \in Snaps /\ mark[NextGen] = Len(log)
      /\ \A g \in 1..Len(gens) : mark[g] = snap[g]
  <2>1. mark \in Snaps
    BY <1>2 DEF Snaps
  <2>2. \A g \in 1..Len(gens) : g # NextGen
    BY <1>2
  <2> QED BY <1>2, <2>1, <2>2 DEF Snaps
<1>4. ppc = "begun" /\ ppc' = "built" /\ now' = now /\ open' = open /\ log' = log /\ rows' = rows
      /\ gens' = gens /\ manifest' = manifest
      /\ build' = [build EXCEPT !.cut = now, !.gc = gcw, !.full = full]
      /\ (LastFull = 0 => full)
  BY DEF BuildObjects, pgVars
<1>5. /\ full => objects'[<<NextGen, "full">>] = LiveRows
      /\ LastGen # 0 => objects'[<<NextGen, "delta">>] = LateRows
      /\ \A g \in Gens, kind \in Kinds :
             g # NextGen => objects'[<<g, kind>>] = objects[<<g, kind>>]
  BY ObjectsBuilt
<1>6. NextGen' = NextGen /\ LastFull' = LastFull
  BY <1>4 DEF NextGen, LastFull, NewestFull, LiveGens
<1>7. /\ \A i : Version(i)' = Version(i) /\ Live(i)' = Live(i)
      /\ \A k, n : LastOf(k, n)' = LastOf(k, n)
  BY <1>4 DEF Version, Live, LastOf
<1>8. \A n : LiveAt(n)' = LiveAt(n)
  BY <1>4 DEF LiveAt, Live, LastOf
<1>9. \A c, m, n : Follows(c, m, n) => Follows(c, m, n)'
  BY <1>4, <1>7 DEF Follows
<1>10. /\ \A m, cut, floor : Since(m, cut, floor) => Since(m, cut, floor)'
       /\ \A m : Rising(m) => Rising(m)'
  BY <1>4, <1>7 DEF Since, Rising
<1>11. \A g \in 0..Len(gens) : MarkOf(mark, g)' = MarkOf(snap, g)
  <2>1. \A g \in 0..Len(gens) : g # 0 => g \in 1..Len(gens)
    BY <1>2
  <2> QED BY <1>3, <1>4, <2>1 DEF MarkOf
<1>12. LiveSuffix' /\ Listed' /\ Positive'
  BY <1>4, <1>6 DEF ChainOf, LiveSuffix, Listed, Positive
<1>13. Recorded(mark)'
  <2>1. \A g \in 1..Len(gens), kind \in Kinds : objects'[<<g, kind>>] = objects[<<g, kind>>]
    <3>1. \A g \in 1..Len(gens) : g \in Gens /\ g # NextGen
      BY <1>2
    <3> QED BY <1>5, <3>1
  <2>2. \A g \in 1..Len(gens) : \A h \in 1..g : h \in 1..Len(gens)
    BY <1>2
  <2>3. \A g \in 1..Len(gens) : g > 1 => g - 1 \in 1..Len(gens)
    BY <1>2
  <2>4. \A g \in 1..Len(gens) :
          objects'[<<g, "full">>] = objects[<<g, "full">>] /\ objects'[<<g, "delta">>] = objects[<<g, "delta">>]
    BY <2>1 DEF Kinds
  <2>5. Recorded(snap)
    BY <1>1 DEF ChainOf
  <2>6. \A g \in 1..Len(gens) : mark[g] = snap[g] /\ gens'[g] = gens[g]
    BY <1>3, <1>4
  <2>7. \A g \in 1..Len(gens) :
            /\ mark[g] = snap[g] /\ \A h \in 1..g : mark[h] = snap[h]
            /\ g > 1 => MarkOf(mark, g-1)' = MarkOf(snap, g-1)
    <3>1. \A g \in 1..Len(gens) : g > 1 => g - 1 \in 0..Len(gens)
      BY <1>2
    <3> QED BY <1>11, <2>2, <2>6, <3>1
  <2>8. ASSUME NEW g \in 1..Len(gens)
        PROVE  /\ gens[g].cut > 0 /\ (gens[g].prev = 0 <=> g = 1)
               /\ gens[g].seq <= mark[g]
               /\ \A h \in 1..g : mark[h] <= mark[g] /\ gens[h].seq <= gens[g].seq
               /\ gens[g].state # "gone" =>
                      /\ gens[g].full => objects'[<<g, "full">>] = LiveAt(mark[g])'
                      /\ g > 1 => Follows(objects[<<g, "delta">>], MarkOf(mark, g-1), mark[g])'
    <3>1. gens[g].full /\ gens[g].state # "gone" => objects'[<<g, "full">>] = LiveAt(mark[g])'
      <4>1. gens[g].full /\ gens[g].state # "gone" => objects[<<g, "full">>] = LiveAt(snap[g])
        BY <2>5 DEF Recorded
      <4> QED BY <1>8, <2>4, <2>7, <4>1
    <3>2. g > 1 /\ gens[g].state # "gone" => Follows(objects[<<g, "delta">>], MarkOf(mark, g-1), mark[g])'
      <4>1. g > 1 /\ gens[g].state # "gone" => Follows(objects[<<g, "delta">>], MarkOf(snap, g-1), snap[g])
        BY <2>5 DEF Recorded
      <4>2. objects'[<<g, "delta">>] = objects[<<g, "delta">>]
        BY <2>4
      <4> QED BY <1>4, <1>7, <2>7, <4>1, <4>2 DEF Follows
    <3> QED BY <2>5, <2>7, <3>1, <3>2 DEF Recorded
  <2> QED BY <1>4, <2>8 DEF Recorded
<1>14. LastRecorded(mark)'
  <2>1. MarkOf(mark, Len(gens))' = MarkOf(snap, Len(gens))
    <3>1. Len(gens) \in 0..Len(gens) /\ Len(gens') = Len(gens)
      BY <1>2, <1>4
    <3> QED BY <1>4, <1>11, <3>1 DEF MarkOf
  <2> QED BY <1>1, <1>4, <1>10, <2>1 DEF ChainOf, LastRecorded, Above
<1>15. Building(mark)'
  <2>1. /\ build'.cut = now /\ build'.floor = build.floor /\ build'.seq = build.seq /\ build'.full = full
        /\ Above(build.floor) /\ (Len(gens) > 0 => gens[Len(gens)].seq <= build.seq)
    BY <1>1, <1>4 DEF ChainOf, Building, TypeInv, TypeOK
  <2>2. now > 0 /\ build.seq <= mark[NextGen]
    BY <1>2, <1>3 DEF ChainOf, Positive
  <2>3. full => objects'[<<NextGen, "full">>] = LiveAt(Len(log))
    BY <1>1, <1>5, LiveRowsAre DEF ChainOf
  <2>4. Len(gens) > 0 =>
            /\ snap[Len(gens)] <= Len(log)
            /\ Follows(objects'[<<NextGen, "delta">>], MarkOf(snap, Len(gens)), Len(log))
    <3>1. Len(gens) > 0 => snap[Len(gens)] \in 0..Len(log)
      BY <1>1, <1>2, SnapsRise
    <3>2. Len(gens) > 0 => objects'[<<NextGen, "delta">>] = LateRows
      BY <1>2, <1>5, LastGenIs DEF ChainOf
    <3> QED BY <1>1, <1>2, <3>1, <3>2, LateRowsFollow
  <2>5. Since(Mark(build.seq, Len(log)), now, build.floor)
    <3>1. CASE "lagging stream" \in Disorder
      <4>1. Mark(build.seq, Len(log)) = Len(log)
        BY <3>1 DEF Mark
      <4> QED BY <1>2, <4>1 DEF Since
    <3>2. CASE "lagging stream" \notin Disorder
      <4>1. Mark(build.seq, Len(log)) = build.seq
        BY <3>2 DEF Mark
      <4>2. \A i \in build.seq+1..Len(log) : Version(i) >= deltaLowerBound(now, build.floor, Tolerance)
        BY <3>2 DEF BuildObjects
      <4>3. build.seq \in Nat
        BY <1>2
      <4>4. \A i \in 1..Len(log) : i > build.seq => i \in build.seq+1..Len(log)
        BY <1>2, <4>3
      <4> QED BY <1>2, <4>1, <4>2, <4>4 DEF Since
    <3> QED BY <3>1, <3>2
  <2>6. Since(Mark(build.seq, mark[NextGen]), build.cut, build.floor)'
    <3>1. Mark(build.seq, mark[NextGen])' = Mark(build.seq, Len(log))
      BY <1>3, <1>6, <2>1 DEF Mark
    <3> QED BY <1>10, <2>1, <2>5, <3>1
  <2>7. Above(build.floor)'
    BY <1>4, <2>1 DEF Above
  <2>8. Len(gens) > 0 => Follows(objects[<<NextGen, "delta">>], MarkOf(mark, Len(gens)), mark[NextGen])'
    <3>1. /\ objects[<<NextGen, "delta">>]' = objects'[<<NextGen, "delta">>]
          /\ MarkOf(mark, Len(gens))' = MarkOf(snap, Len(gens))
          /\ mark[NextGen]' = Len(log)
      <4>1. Len(gens) \in 0..Len(gens) /\ Len(gens') = Len(gens)
        BY <1>2, <1>4
      <4> QED BY <1>3, <1>4, <1>6, <1>11, <4>1 DEF MarkOf
    <3> QED BY <1>9, <2>4, <3>1
  <2>9. full => objects'[<<NextGen, "full">>] = LiveAt(mark[NextGen])'
    BY <1>3, <1>6, <1>8, <2>3
  <2>10. Len(gens) > 0 => mark[Len(gens)] <= mark[NextGen]
    BY <1>2, <1>3, <2>4
  <2> QED BY <1>4, <1>6, <2>1, <2>2, <2>6, <2>7, <2>8, <2>9, <2>10 DEF Building
<1>16. Table(mark)'
  <2>1. Len(gens') = Len(gens) /\ MarkOf(mark, Len(gens))' = MarkOf(snap, Len(gens))
    <3>1. Len(gens) \in 0..Len(gens) /\ Len(gens') = Len(gens)
      BY <1>2, <1>4
    <3> QED BY <1>4, <1>11, <3>1 DEF MarkOf
  <2> QED BY <1>1, <1>4, <1>7, <2>1 DEF ChainOf, Table
<1>17. mark \in Snaps'
  BY <1>3, <1>4 DEF Snaps
<1> QED BY <1>12, <1>13, <1>14, <1>15, <1>16, <1>17 DEF ChainOf

\* A build never retires the last recorded generation, nor the newest full
\* unless it has made another.
LEMMA KeepFromIs ==
    ASSUME TypeInv
    PROVE  /\ KeepFrom \in Int
           /\ Len(gens) > 0 => KeepFrom < Len(gens)
           /\ ~build.full /\ LastFull # 0 => KeepFrom < LastFull
<1>1. Len(gens) \in Nat /\ NextGen = Len(gens) + 1 /\ Depth \in Nat /\ Depth > 1
  BY Sizes, GenerationsAssumption DEF NextGen
<1>2. LastFull \in Nat
  BY <1>1, LastGens
<1> DEFINE nf   == IF build.full THEN NextGen ELSE LastFull
           keep == keepFrom(NextGen, Depth, nf)
<1>3. nf \in Nat /\ NextGen \in Nat
  BY <1>1, <1>2
<1>4. /\ keep \in Int /\ keep <= Max({NextGen - Depth, 0})
      /\ nf # 0 => keep <= Max({nf - 1, 0})
  <2> HIDE DEF nf
  <2>1. NextGen - Depth \in Int /\ nf - 1 \in Int
    BY <1>1, <1>3
  <2>2. Min({NextGen - Depth, nf - 1}) =
            IF NextGen - Depth <= nf - 1 THEN NextGen - Depth ELSE nf - 1
    BY <2>1, MinPair
  <2>3. \A a \in Int : Max({a, 0}) = IF a >= 0 THEN a ELSE 0
    BY MaxPair
  <2> QED BY <2>1, <2>2, <2>3 DEF keepFrom
<1>5. \A a \in Int : Max({a, 0}) = IF a >= 0 THEN a ELSE 0
  BY MaxPair
<1>6. KeepFrom = keep
  BY DEF KeepFrom
<1>7. Len(gens) > 0 => KeepFrom < Len(gens)
  <2> HIDE DEF keep, nf
  <2> QED BY <1>1, <1>4, <1>5, <1>6
<1>8. ~build.full /\ LastFull # 0 => KeepFrom < LastFull
  <2>1. ~build.full => nf = LastFull
    OBVIOUS
  <2> HIDE DEF keep, nf
  <2> QED BY <1>2, <1>4, <1>5, <1>6, <2>1
<1> QED BY <1>4, <1>6, <1>7, <1>8

\* What is still to be chosen from after a prune.
LEMMA KeptLive ==
    ASSUME TypeInv, LiveSuffix, NEW gone \in SUBSET DOMAIN gens,
           \A g \in gone : gens[g].state = "retired"
    PROVE  /\ \A g \in 1..Len(gens) : PruneChain(gone)[g].state = "live" <=>
                  gens[g].state = "live" /\ g > KeepFrom
           /\ \A g \in 1..Len(gens) : PruneChain(gone)[g].state # "gone" =>
                  g \notin gone /\ gens[g].state # "gone"
           /\ LiveGens(PruneChain(gone)) = {g \in 1..Len(gens) : gens[g].state = "live" /\ g > KeepFrom}
           /\ Len(gens) > 0 => Len(gens) \in LiveGens(PruneChain(gone))
<1>1. /\ Len(gens) \in Nat /\ DOMAIN gens = 1..Len(gens) /\ KeepFrom \in Int
      /\ Len(gens) > 0 => KeepFrom < Len(gens)
  BY Sizes, KeepFromIs
<1>2. /\ PruneChain(gone) \in Seq(Record(last)) /\ Len(PruneChain(gone)) = Len(gens)
      /\ \A g \in 1..Len(gens) : PruneChain(gone)[g].state =
                  IF g \in gone THEN "gone"
                  ELSE IF gens[g].state = "live" /\ g <= KeepFrom THEN "retired"
                  ELSE gens[g].state
  BY Kept
<1>3. \A g \in 1..Len(gens) : PruneChain(gone)[g].state = "live" <=>
                  gens[g].state = "live" /\ g > KeepFrom
  BY <1>1, <1>2
<1>4. \A g \in 1..Len(gens) : PruneChain(gone)[g].state # "gone" =>
                  g \notin gone /\ gens[g].state # "gone"
  BY <1>2
<1>5. DOMAIN PruneChain(gone) = 1..Len(gens)
  BY <1>1 DEF PruneChain
<1>6. LiveGens(PruneChain(gone)) = {g \in 1..Len(gens) : gens[g].state = "live" /\ g > KeepFrom}
  BY <1>3, <1>5 DEF LiveGens
<1> QED BY <1>1, <1>3, <1>4, <1>6 DEF LiveSuffix

\* A manifest names a full and every delta after it, up to its own generation.
LEMMA ManifestLists ==
    ASSUME TypeInv, NEW snap \in Snaps, ChainOf(snap), ppc = "built",
           NEW gone \in SUBSET DOMAIN gens, \A g \in gone : gens[g].state = "retired",
           NEW man, man = NewManifest(PruneChain(gone))
    PROVE  /\ man.gen = NextGen /\ man.seq = build.seq
           /\ IF build.full THEN man.base.gen = NextGen
              ELSE man.base.gen \in 1..Len(gens) /\ gens[man.base.gen].full
           /\ {d.gen : d \in {e \in man.deltas : e.gen > man.base.gen}} = man.base.gen + 1 .. NextGen
<1>1. /\ Len(gens) \in Nat /\ NextGen = Len(gens) + 1 /\ LastGen = Len(gens)
      /\ DOMAIN gens = 1..Len(gens)
  BY Sizes, LastGenIs DEF NextGen, ChainOf
<1> DEFINE kept == PruneChain(gone)
           base == NewestFull(kept)
<1>2. /\ kept \in Seq(Record(last)) /\ Len(kept) = Len(gens)
      /\ \A g \in 1..Len(gens) : \A f \in {"cut", "prev", "floor", "full", "seq"} : kept[g][f] = gens[g][f]
  BY Kept
<1>3. \A g \in 1..Len(gens) : kept[g].prev = gens[g].prev /\ kept[g].full = gens[g].full
  BY <1>2
<1>4. LiveGens(kept) = {g \in 1..Len(gens) : gens[g].state = "live" /\ g > KeepFrom}
      /\ KeepFrom \in Int
  BY KeptLive, KeepFromIs DEF ChainOf
<1>5. \A g \in 1..Len(gens) : gens[g].prev = 0 <=> g = 1
  BY DEF ChainOf, Recorded
<1>6. /\ base \in {0} \cup {g \in LiveGens(kept) : kept[g].full}
      /\ \A g \in LiveGens(kept) : kept[g].full => g <= base
  <2>1. last \in Nat
    BY Sizes DEF TypeInv, TypeOK
  <2> HIDE DEF kept
  <2> QED BY <1>2, <2>1, Chosen
<1>7. /\ man.gen = NextGen /\ man.seq = build.seq /\ man.deltas = ListedDeltas(kept)
      /\ man.base.gen = IF build.full THEN NextGen ELSE base
  BY DEF NewManifest
<1>8. ~build.full => base \in LiveGens(kept) /\ gens[base].full
  <2> SUFFICES ASSUME ~build.full PROVE base \in LiveGens(kept) /\ gens[base].full
    OBVIOUS
  <2>1. LastFull # 0 /\ LastFull \in LiveGens(gens) /\ gens[LastFull].full
    BY LastGens DEF ChainOf, Building
  <2>2. LastFull \in 1..Len(gens) /\ gens[LastFull].state = "live" /\ LastFull > KeepFrom
    BY <1>1, <1>4, <2>1, KeepFromIs DEF LiveGens
  <2>3. LastFull \in LiveGens(kept) /\ kept[LastFull].full
    BY <1>3, <1>4, <2>1, <2>2
  <2>4. LastFull <= base
    BY <1>6, <2>3
  <2>5. base # 0
    BY <2>2, <2>4
  <2> HIDE DEF base, kept
  <2> QED BY <1>3, <1>4, <1>6, <2>5
<1> DEFINE listed == {d.gen : d \in {e \in man.deltas : e.gen > man.base.gen}}
<1>9. \A g : g \in listed <=> /\ g > man.base.gen
                              /\ \/ g \in LiveGens(kept) /\ kept[g].prev # 0
                                 \/ Len(gens) # 0 /\ g = NextGen
  <2> DEFINE old == {[gen |-> g, prev |-> kept[g].prev, cut |-> kept[g].cut] :
                        g \in {h \in LiveGens(kept) : kept[h].prev # 0}}
             new == IF LastGen = 0 THEN {}
                    ELSE {[gen |-> NextGen, prev |-> gens[LastGen].cut, cut |-> build.cut]}
  <2>1. man.deltas = old \cup new
    BY <1>7 DEF ListedDeltas
  <2>2. \A g : g \in {d.gen : d \in {e \in old : e.gen > man.base.gen}} <=>
                  g > man.base.gen /\ g \in LiveGens(kept) /\ kept[g].prev # 0
    <3> DEFINE D(h) == [gen |-> h, prev |-> kept[h].prev, cut |-> kept[h].cut]
               H    == {h \in LiveGens(kept) : kept[h].prev # 0}
    <3>1. \A h : D(h).gen = h
      OBVIOUS
    <3>2. old = {D(h) : h \in H}
      OBVIOUS
    <3>3. \A g : g \in H <=> g \in LiveGens(kept) /\ kept[g].prev # 0
      <4> HIDE DEF kept
      <4> QED OBVIOUS
    <3>4. \A g : g \in {d.gen : d \in {e \in old : e.gen > man.base.gen}} <=>
                    g > man.base.gen /\ g \in H
      <4> HIDE DEF D, H, old
      <4> QED BY <3>1, <3>2
    <3> HIDE DEF H, old, kept
    <3> QED BY <3>3, <3>4
  <2>3. \A g : g \in {d.gen : d \in {e \in new : e.gen > man.base.gen}} <=>
                  g > man.base.gen /\ Len(gens) # 0 /\ g = NextGen
    <3>1. CASE Len(gens) = 0
      <4>1. new = {}
        BY <1>1, <3>1
      <4> HIDE DEF new
      <4> QED BY <3>1, <4>1
    <3>2. CASE Len(gens) # 0
      <4> DEFINE mine == [gen |-> NextGen, prev |-> gens[LastGen].cut, cut |-> build.cut]
      <4>1. new = {mine} /\ mine.gen = NextGen
        BY <1>1, <3>2
      <4> HIDE DEF new, mine
      <4> QED BY <3>2, <4>1
    <3> QED BY <3>1, <3>2
  <2> HIDE DEF old, new, kept
  <2> QED BY <2>1, <2>2, <2>3
<1> HIDE DEF listed
<1>10. CASE build.full
  <2>1. man.base.gen = NextGen
    BY <1>7, <1>10
  <2>2. \A g : g \notin listed
    BY <1>1, <1>4, <1>9, <2>1
  <2>3. listed = man.base.gen + 1 .. NextGen
    <3>1. NextGen + 1 .. NextGen = {}
      BY <1>1
    <3>2. listed = {}
      BY <2>2
    <3> QED BY <2>1, <3>1, <3>2
  <2> QED BY <1>7, <1>10, <2>1, <2>3 DEF listed
<1>11. CASE ~build.full
  <2>1. man.base.gen = base /\ base \in LiveGens(kept) /\ gens[base].full
    BY <1>7, <1>8, <1>11
  <2>2. base \in 1..Len(gens) /\ gens[base].state = "live" /\ base > KeepFrom
    BY <1>4, <2>1
  <2> HIDE DEF base
  <2>3. \A g \in base+1..Len(gens) : g \in LiveGens(kept) /\ kept[g].prev # 0
    <3> SUFFICES ASSUME NEW g \in base+1..Len(gens) PROVE g \in LiveGens(kept) /\ kept[g].prev # 0
      OBVIOUS
    <3>1. g \in 1..Len(gens) /\ base < g /\ g # 1 /\ g > KeepFrom
      BY <1>1, <1>4, <2>2
    <3>2. gens[g].state = "live"
      BY <2>2, <3>1 DEF LiveSuffix, ChainOf
    <3> HIDE DEF kept
    <3> QED BY <1>3, <1>4, <1>5, <3>1, <3>2
  <2>4. \A g : g \in listed <=> g \in base+1..NextGen
    <3>1. \A g : g \in LiveGens(kept) => g \in 1..Len(gens)
      BY <1>4
    <3> HIDE DEF kept
    <3> QED BY <1>1, <1>9, <2>1, <2>2, <2>3, <3>1
  <2>5. listed = base+1..NextGen
    BY <2>4
  <2> QED BY <1>7, <1>11, <2>1, <2>2, <2>5 DEF listed
<1> QED BY <1>10, <1>11

LEMMA FinishChain ==
    ASSUME TypeInv, NEW snap \in Snaps, ChainOf(snap), NEW gone \in SUBSET DOMAIN gens,
           NEW upto \in {"prune", "put", "record"}, Finish(gone, upto)
    PROVE  snap \in Snaps' /\ ChainOf(snap)'
<1>1. ChainOf(snap)
  OBVIOUS
<1> DEFINE kept == PruneChain(gone)
           n    == Len(gens)
<1>2. /\ ppc = "built" /\ ppc' = "idle" /\ \A g \in gone : gens[g].state = "retired"
      /\ objects' = [o \in Gens \X Kinds |-> IF o[1] \in gone THEN Gone ELSE objects[o]]
      /\ manifest' = (IF upto = "prune" THEN manifest ELSE NewManifest(kept))
      /\ gens' = (IF upto = "record" THEN Append(kept, NewRow) ELSE kept)
      /\ now' = now /\ open' = open /\ log' = log /\ rows' = rows
  BY DEF Finish, pgVars
<1>3. /\ n \in Nat /\ NextGen = n + 1 /\ NextGen \in Gens /\ LastGen = n /\ DOMAIN gens = 1..n
      /\ 1..n \subseteq Gens /\ Len(log) \in Nat
  <2>1. NextGen \in Gens
    BY <1>2 DEF TypeInv
  <2> QED BY <2>1, Sizes, LastGenIs, GenerationsAssumption DEF ChainOf, NextGen, Gens
<1>4. /\ kept \in Seq(Record(last)) /\ Len(kept) = n
      /\ \A g \in 1..n : \A f \in {"cut", "prev", "floor", "full", "seq"} : kept[g][f] = gens[g][f]
  BY Kept
<1>5. \A g \in 1..n : /\ kept[g].cut = gens[g].cut /\ kept[g].prev = gens[g].prev
                      /\ kept[g].floor = gens[g].floor /\ kept[g].full = gens[g].full
                      /\ kept[g].seq = gens[g].seq
  BY <1>4
<1>6. /\ \A g \in 1..n : kept[g].state = "live" <=> gens[g].state = "live" /\ g > KeepFrom
      /\ \A g \in 1..n : kept[g].state # "gone" => g \notin gone /\ gens[g].state # "gone"
      /\ n > 0 => n \in LiveGens(kept)
      /\ KeepFrom \in Int
  BY <1>2, KeptLive, KeepFromIs DEF ChainOf
<1>7. /\ \A i : Version(i)' = Version(i) /\ Live(i)' = Live(i)
      /\ \A k, j : LastOf(k, j)' = LastOf(k, j)
  BY <1>2 DEF Version, Live, LastOf
<1>8. \A j : LiveAt(j)' = LiveAt(j)
  BY <1>2 DEF LiveAt, Live, LastOf
<1>9. \A c, m, j : Follows(c, m, j) => Follows(c, m, j)'
  BY <1>2, <1>7 DEF Follows
<1>10. /\ \A m, cut, floor : Since(m, cut, floor) => Since(m, cut, floor)'
       /\ \A m : Rising(m) => Rising(m)'
  BY <1>2, <1>7 DEF Since, Rising
<1>11. snap \in Snaps' /\ Positive' /\ Building(snap)'
  BY <1>1, <1>2 DEF Snaps, ChainOf, Positive, Building
<1>12. n \in 0..n /\ \A g \in 0..n : g > 1 => g - 1 \in 0..n
  BY <1>3
<1>13. \A g \in Gens, kind \in Kinds : g \notin gone => objects'[<<g, kind>>] = objects[<<g, kind>>]
  BY <1>2
<1>14. \A g \in Gens : g \notin gone => /\ objects'[<<g, "full">>] = objects[<<g, "full">>]
                                        /\ objects'[<<g, "delta">>] = objects[<<g, "delta">>]
  BY <1>13 DEF Kinds
\* The generations recorded before.
<1>15. ASSUME NEW g \in 1..n
       PROVE  /\ kept[g].cut > 0 /\ (kept[g].prev = 0 <=> g = 1)
              /\ kept[g].seq <= snap[g]
              /\ \A h \in 1..g : snap[h] <= snap[g] /\ kept[h].seq <= kept[g].seq
              /\ kept[g].state # "gone" =>
                    /\ kept[g].full => objects'[<<g, "full">>] = LiveAt(snap[g])
                    /\ g > 1 => Follows(objects'[<<g, "delta">>], MarkOf(snap, g-1), snap[g])
  <2>1. /\ gens[g].cut > 0 /\ (gens[g].prev = 0 <=> g = 1)
        /\ gens[g].seq <= snap[g]
        /\ \A h \in 1..g : snap[h] <= snap[g] /\ gens[h].seq <= gens[g].seq
        /\ gens[g].state # "gone" =>
              /\ gens[g].full => objects[<<g, "full">>] = LiveAt(snap[g])
              /\ g > 1 => Follows(objects[<<g, "delta">>], MarkOf(snap, g-1), snap[g])
    BY <1>1 DEF ChainOf, Recorded
  <2>2. g \in Gens /\ \A h \in 1..g : h \in 1..n
    BY <1>3
  <2> HIDE DEF kept
  <2> QED BY <1>5, <1>6, <1>14, <2>1, <2>2
<1>16. \A g, h \in 1..n : kept[g].state = "live" /\ g < h => kept[h].state = "live"
  <2> SUFFICES ASSUME NEW g \in 1..n, NEW h \in 1..n, kept[g].state = "live", g < h
               PROVE  kept[h].state = "live"
    OBVIOUS
  <2>1. gens[h].state = "live"
    BY <1>6 DEF ChainOf, LiveSuffix
  <2>2. h > KeepFrom
    BY <1>3, <1>6
  <2> QED BY <1>6, <2>1, <2>2
<1>17. n > 0 => kept[n].state = "live"
  BY <1>6 DEF LiveGens
<1>18. CASE upto # "record"
  <2>1. gens' = kept /\ Len(gens') = n /\ NextGen' = NextGen
    BY <1>2, <1>4, <1>18 DEF NextGen
  <2>2. \A g \in 0..n : MarkOf(snap, g)' = MarkOf(snap, g)
    <3>1. \A g \in 0..n : g # 0 => g \in 1..n
      BY <1>3
    <3> HIDE DEF kept
    <3> QED BY <1>5, <2>1, <3>1 DEF MarkOf
  <2>3. Len(gens)' = n /\ MarkOf(snap, Len(gens))' = MarkOf(snap, n)
    BY <1>12, <2>1, <2>2 DEF MarkOf
  <2>4. Recorded(snap)'
    <3>1. ASSUME NEW g \in 1..n, g > 1
          PROVE  g - 1 \in 0..n
      BY <1>3
    <3> HIDE DEF kept
    <3> QED BY <1>8, <1>9, <1>15, <2>1, <2>2, <3>1 DEF Recorded
  <2>5. LastRecorded(snap)'
    <3>1. n > 0 => n \in 1..n
      BY <1>3
    <3> HIDE DEF kept
    <3> QED BY <1>1, <1>2, <1>5, <1>10, <2>1, <2>3, <3>1 DEF ChainOf, LastRecorded, Above
  <2>6. Table(snap)'
    BY <1>1, <1>2, <1>7, <2>3 DEF ChainOf, Table
  <2>7. LiveSuffix'
    <3> HIDE DEF kept
    <3> QED BY <1>16, <1>17, <2>1 DEF LiveSuffix
  <2>8. Listed'
    <3>1. CASE upto = "prune"
      <4>1. manifest' = manifest
        BY <1>2, <3>1
      <4> HIDE DEF kept
      <4>2. n > 0 => n \in 1..n
        BY <1>3
      <4> QED BY <1>5, <2>1, <4>1, <4>2 DEF ChainOf, Listed
    <3>2. CASE upto = "put"
      <4>1. manifest'.gen = NextGen
        BY <1>1, <1>2, <3>2, ManifestLists DEF ChainOf
      <4> QED BY <1>3, <2>1, <4>1 DEF Listed
    <3> QED BY <1>18, <3>1, <3>2
  <2> QED BY <1>11, <2>4, <2>5, <2>6, <2>7, <2>8 DEF ChainOf
<1>19. CASE upto = "record"
  <2>1. gens' = Append(kept, NewRow) /\ manifest' = NewManifest(kept)
    BY <1>2, <1>19
  <2>2. /\ Len(gens') = n + 1 /\ NextGen' = n + 2
        /\ \A g \in 1..n : gens'[g] = kept[g]
        /\ gens'[n+1] = NewRow
    <3>1. Len(gens') = n + 1 /\ (\A g \in 1..n : gens'[g] = kept[g]) /\ gens'[n+1] = NewRow
      <4> HIDE DEF kept
      <4> QED BY <1>3, <1>4, <2>1
    <3> QED BY <1>3, <3>1 DEF NextGen
  <2>3. /\ NewRow.cut = build.cut /\ NewRow.floor = build.floor /\ NewRow.full = build.full
        /\ NewRow.state = "live" /\ NewRow.seq = build.seq
        /\ NewRow.prev = IF n = 0 THEN 0 ELSE gens[n].cut
    BY <1>3 DEF NewRow
  <2>4. \A g \in 1..n+1 : g \in 1..n \/ g = n + 1
    BY <1>3
  <2>5. /\ build.cut > 0 /\ build.seq <= snap[n+1]
        /\ LastFull = 0 => build.full
        /\ build.full => objects[<<n+1, "full">>] = LiveAt(snap[n+1])
        /\ n > 0 => /\ snap[n] <= snap[n+1] /\ gens[n].seq <= build.seq
                    /\ Follows(objects[<<n+1, "delta">>], MarkOf(snap, n), snap[n+1])
        /\ Since(Mark(build.seq, snap[n+1]), build.cut, build.floor) /\ Above(build.floor)
    BY <1>1, <1>2, <1>3 DEF ChainOf, Building
  <2>6. \A g \in 0..n : MarkOf(snap, g)' = MarkOf(snap, g)
    <3>1. \A g \in 0..n : g # 0 => g \in 1..n
      BY <1>3
    <3> HIDE DEF kept
    <3> QED BY <1>5, <2>2, <3>1 DEF MarkOf
  <2>7. /\ Len(gens)' = n + 1 /\ MarkOf(snap, Len(gens))' = Mark(build.seq, snap[n+1])
         /\ MarkOf(snap, n) \in 0..Mark(build.seq, snap[n+1]) /\ Mark(build.seq, snap[n+1]) \in Nat
    <3>1. n + 1 # 0
      BY <1>3
    <3>2. /\ MarkOf(snap, n) \in 0..Mark(build.seq, snap[n+1])
          /\ Mark(build.seq, snap[n+1]) \in 0..snap[n+1]
      BY <1>1, <1>2, <1>3, SnapsRise
    <3>3. MarkOf(snap, Len(gens))' = Mark(build.seq, snap[n+1])
      <4> HIDE DEF n
      <4> QED BY <2>2, <2>3, <3>1 DEF MarkOf
    <3> QED BY <2>2, <3>2, <3>3
  <2>8. Recorded(snap)'
    <3>1. n + 1 \in Gens /\ n + 1 \notin gone
      BY <1>3
    <3>2. NewRow.prev = 0 <=> n + 1 = 1
      <4>1. n > 0 => gens[n].cut > 0 /\ gens[n].cut \in Nat
        <5>1. n > 0 => n \in 1..n
          BY <1>3
        <5>2. \A g \in 1..n : gens[g] \in Record(last)
          BY Sizes
        <5>3. \A g \in 1..n : gens[g].cut \in Nat
          BY <5>2 DEF Record
        <5>4. \A g \in 1..n : gens[g].cut > 0
          BY <1>1 DEF ChainOf, Recorded
        <5> QED BY <5>1, <5>3, <5>4
      <4> QED BY <1>3, <2>3, <4>1
    <3>3. \A h \in 1..n+1 : snap[h] <= snap[n+1] /\ gens'[h].seq <= build.seq
      <4>1. \A h \in 1..n : /\ snap[h] \in 0..Len(log) /\ snap[h] <= snap[n]
                             /\ gens[h].seq \in 0..snap[h] /\ gens[h].seq <= gens[n].seq
        BY <1>1, SnapsRise
      <4>2. snap[n+1] \in 0..Len(log) /\ build.seq \in Nat
            /\ (n > 0 => n \in 1..n /\ snap[n] \in 0..Len(log) /\ gens[n].seq \in Nat)
        <5>1. last \in Nat /\ build.seq \in Nat
          BY <1>3 DEF TypeInv, TypeOK
        <5>2. n > 0 => n \in 1..n
          BY <1>3
        <5>3. snap[n+1] \in 0..Len(log)
          BY <1>1, <1>2, <1>3, SnapsRise
        <5>4. n > 0 => snap[n] \in 0..Len(log) /\ gens[n].seq \in 0..snap[n]
          BY <4>1, <5>2
        <5> QED BY <5>1, <5>2, <5>3, <5>4
      <4>3. \A h \in 1..n : gens'[h].seq = gens[h].seq
        <5> HIDE DEF kept
        <5> QED BY <1>5, <2>2
      <4>4. \A h \in 1..n : snap[h] <= snap[n+1] /\ gens'[h].seq <= build.seq
        <5> SUFFICES ASSUME NEW h \in 1..n PROVE snap[h] <= snap[n+1] /\ gens'[h].seq <= build.seq
          OBVIOUS
        <5>1. n > 0
          BY <1>3
        <5>2. /\ snap[h] \in Nat /\ snap[n] \in Nat /\ snap[n+1] \in Nat
              /\ gens[h].seq \in Nat /\ gens[n].seq \in Nat /\ build.seq \in Nat
          BY <1>3, <4>1, <4>2, <5>1
        <5>3. /\ snap[h] <= snap[n] /\ snap[n] <= snap[n+1]
              /\ gens[h].seq <= gens[n].seq /\ gens[n].seq <= build.seq
          BY <2>5, <4>1, <5>1
        <5> HIDE DEF n
        <5> QED BY <4>3, <5>2, <5>3
      <4>5. snap[n+1] <= snap[n+1] /\ gens'[n+1].seq <= build.seq
        <5> HIDE DEF n
        <5> QED BY <1>3, <2>2, <2>3, <4>2
      <4> HIDE DEF n
      <4> QED BY <2>4, <4>4, <4>5
    <3>4. ASSUME NEW g, g = n + 1, g > 1
          PROVE  Follows(objects'[<<g, "delta">>], MarkOf(snap, g-1), snap[g])
      <4>1. g - 1 = n /\ n > 0
        BY <1>3, <3>4
      <4>2. objects'[<<g, "delta">>] = objects[<<n+1, "delta">>]
        BY <1>14, <3>1, <3>4
      <4>3. Follows(objects[<<n+1, "delta">>], MarkOf(snap, n), snap[n+1])
        BY <2>5, <4>1
      <4> HIDE DEF n
      <4> QED BY <3>4, <4>1, <4>2, <4>3
    <3>5. build.full => objects'[<<n+1, "full">>] = LiveAt(snap[n+1])
      BY <1>14, <2>5, <3>1
    <3>6. ASSUME NEW g \in 1..n+1
          PROVE  /\ gens'[g].cut > 0 /\ (gens'[g].prev = 0 <=> g = 1)
                 /\ gens'[g].seq <= snap[g]
                 /\ \A h \in 1..g : snap[h] <= snap[g] /\ gens'[h].seq <= gens'[g].seq
                 /\ gens'[g].state # "gone" =>
                      /\ gens'[g].full => objects'[<<g, "full">>] = LiveAt(snap[g])
                      /\ g > 1 => Follows(objects'[<<g, "delta">>], MarkOf(snap, g-1), snap[g])
      <4> HIDE DEF kept, n
      <4>1. CASE g \in 1..n
        <5>1. \A h \in 1..g : h \in 1..n
          BY <1>3, <4>1
        <5> QED BY <1>15, <2>2, <4>1, <5>1
      <4>2. CASE g = n + 1
        <5>1. gens'[g] = NewRow
          BY <2>2, <4>2
        <5>2. gens'[g].cut > 0 /\ (gens'[g].prev = 0 <=> g = 1) /\ gens'[g].seq <= snap[g]
          BY <2>3, <2>5, <3>2, <4>2, <5>1
        <5>3. gens'[g].full => objects'[<<g, "full">>] = LiveAt(snap[g])
          BY <2>3, <3>5, <4>2, <5>1, Zenon
        <5>4. g > 1 => Follows(objects'[<<g, "delta">>], MarkOf(snap, g-1), snap[g])
          BY <3>4, <4>2
        <5>5. \A h \in 1..g : snap[h] <= snap[g] /\ gens'[h].seq <= gens'[g].seq
          BY <2>3, <3>3, <4>2, <5>1
        <5> QED BY <5>2, <5>3, <5>4, <5>5, Zenon
      <4> QED BY <2>4, <4>1, <4>2
    <3>7. ASSUME NEW g \in 1..n+1, g > 1
          PROVE  MarkOf(snap, g-1)' = MarkOf(snap, g-1)
      <4>1. g - 1 \in 0..n
        BY <1>3
      <4> QED BY <2>6, <4>1
    <3> HIDE DEF kept
    <3> QED BY <1>8, <1>9, <2>2, <3>6, <3>7 DEF Recorded
  <2>9. LastRecorded(snap)'
    <3>1. PICK m, cut, floor : m = Mark(build.seq, snap[n+1]) /\ cut = build.cut /\ floor = build.floor
      OBVIOUS
    <3>2. Rising(m)
      <4>1. Rising(MarkOf(snap, n))
        BY <1>1 DEF ChainOf, LastRecorded
      <4>2. \A i \in Nat : \A x \in m..i-1 : x \in MarkOf(snap, n)..i-1
        <5> HIDE DEF n
        <5> QED BY <2>7, <3>1
      <4>3. \A i \in 1..Len(log) : i \in Nat
        BY <1>3
      <4> QED BY <4>1, <4>2, <4>3 DEF Rising
    <3>3. Rising(m)' /\ Since(m, cut, floor)'
      BY <1>10, <2>5, <3>1, <3>2
    <3>4. Above(floor)'
      BY <1>2, <2>5, <3>1 DEF Above
    <3>5. /\ Len(gens)' = n + 1 /\ MarkOf(snap, Len(gens))' = m
          /\ gens'[n+1].cut = cut /\ gens'[n+1].floor = floor
      BY <2>2, <2>3, <2>7, <3>1
    <3> HIDE DEF n
    <3> QED BY <3>3, <3>4, <3>5 DEF LastRecorded
  <2>10. Table(snap)'
    <3>1. \A k \in Keys : LastOf(k, Len(log)) \in Nat
      BY <1>3, LastOfIs
    <3>3. ASSUME NEW k \in Keys
          PROVE  \/ rows[k] = LastOf(k, Len(log))
                 \/ /\ rows[k] = 0 /\ ~Live(LastOf(k, Len(log)))
                    /\ LastOf(k, Len(log)) <= Mark(build.seq, snap[n+1])
      <4>1. \/ rows[k] = LastOf(k, Len(log))
            \/ /\ rows[k] = 0 /\ ~Live(LastOf(k, Len(log)))
               /\ LastOf(k, Len(log)) <= MarkOf(snap, n)
        BY <1>1 DEF ChainOf, Table
      <4> HIDE DEF n
      <4> QED BY <2>7, <3>1, <4>1
    <3> QED BY <1>2, <1>3, <1>7, <2>7, <3>3 DEF Table
  <2>11. LiveSuffix'
    <3>1. ASSUME NEW g \in 1..n+1, NEW h \in 1..n+1, gens'[g].state = "live", g < h
          PROVE  gens'[h].state = "live"
      <4> HIDE DEF kept, n
      <4>1. CASE h = n + 1
        BY <2>2, <2>3, <4>1
      <4>2. CASE h \in 1..n
        <5>1. g \in 1..n
          BY <1>3, <2>4, <3>1, <4>2
        <5> QED BY <1>16, <2>2, <3>1, <4>2, <5>1
      <4> QED BY <2>4, <4>1, <4>2
    <3> QED BY <1>3, <2>2, <2>3, <3>1 DEF LiveSuffix
  <2>12. Listed'
    <3> DEFINE base == manifest'.base.gen
    <3>1. /\ manifest'.gen = n + 1 /\ manifest'.seq = build.seq
          /\ IF build.full THEN base = n + 1 ELSE base \in 1..n /\ gens[base].full
          /\ {d.gen : d \in {e \in manifest'.deltas : e.gen > base}} = base + 1 .. n + 1
      BY <1>1, <1>2, <1>3, <2>1, ManifestLists DEF ChainOf
    <3>2. base \in 1..n+1 /\ gens'[base].full
      <4> HIDE DEF kept, n, base
      <4>1. CASE build.full
        <5>1. base = n + 1 /\ base \in 1..n+1
          BY <1>3, <3>1, <4>1
        <5>2. gens'[base].full
          BY <2>2, <2>3, <4>1, <5>1, Zenon
        <5> QED BY <5>1, <5>2
      <4>2. CASE ~build.full
        BY <1>3, <1>5, <2>2, <3>1, <4>2
      <4> QED BY <4>1, <4>2
    <3> QED BY <1>3, <2>2, <2>3, <3>1, <3>2 DEF Listed
  <2> QED BY <1>11, <2>8, <2>9, <2>10, <2>11, <2>12 DEF ChainOf
<1> QED BY <1>18, <1>19

-----------------------------------------------------------------------------
(* The whole.                                                              *)

LEMMA InitChain ==
    ASSUME Init, TypeInv
    PROVE  ChainInv
<1> DEFINE n == Cardinality(Keys)
<1>1. n \in Nat
  BY FS_CardinalityType, GenerationsAssumption
<1>2. /\ log \in [1..n -> [k : Keys, v : {1}, dead : {FALSE}]]
      /\ \A k \in Keys : \E i \in DOMAIN log : log[i].k = k
      /\ rows = [k \in Keys |-> CHOOSE i \in DOMAIN log : log[i].k = k]
      /\ now = 1 /\ gens = << >> /\ manifest = NoManifest /\ ppc = "idle"
  BY DEF Init
<1>3. Len(log) = n /\ DOMAIN log = 1..n
  BY <1>1, <1>2, Sizes
<1>4. \A i, j \in 1..n : log[i].k = log[j].k => i = j
  <2> DEFINE f == [i \in 1..n |-> log[i].k]
  <2>1. f \in Surjection(1..n, Keys)
    BY <1>2, <1>3 DEF Surjection
  <2>2. IsFiniteSet(1..n) /\ Cardinality(1..n) = n
    BY <1>1, FS_Interval
  <2> HIDE DEF f
  <2>3. f \in Injection(1..n, Keys)
    BY <2>1, <2>2, FS_Surjection
  <2>4. \A i, j \in 1..n : f[i] = f[j] => i = j
    BY <2>3 DEF Injection, IsInjective
  <2> QED BY <2>4 DEF f
<1>5. \A k \in Keys : rows[k] = LastOf(k, Len(log))
  <2> SUFFICES ASSUME NEW k \in Keys PROVE rows[k] = LastOf(k, n)
    BY <1>3
  <2>1. rows[k] \in 1..n /\ log[rows[k]].k = k
    BY <1>2, <1>3
  <2>2. \A j \in 1..n : log[j].k = k => j <= rows[k]
    BY <1>1, <1>4, <2>1
  <2>3. rows[k] \in 0..n /\ n \in 0..Len(log)
    BY <1>1, <1>3, <2>1
  <2> HIDE DEF n
  <2> QED BY <2>1, <2>2, <2>3, LastOfOnly
<1>6. Positive
  <2>1. \A i \in 1..n : log[i] \in [k : Keys, v : {1}, dead : {FALSE}]
    BY <1>2, Zenon
  <2>2. \A i \in 1..n : log[i].v = 1
    BY <2>1
  <2> QED BY <1>2, <1>3, <2>2 DEF Positive
<1>7. Len(gens) = 0
  BY <1>2
<1>8. LiveSuffix /\ Listed
  BY <1>2, <1>7 DEF LiveSuffix, Listed, NoManifest, NextGen
<1>9. [g \in Gens |-> 0] \in Snaps
  BY <1>1, <1>3 DEF Snaps
<1>10. Rising(0)
  <2> SUFFICES ASSUME NEW i \in 1..n, NEW x \in 0..i-1
               PROVE  ~Live(LastOf(log[i].k, x))
    BY <1>3 DEF Rising
  <2>1. log[i].k \in Keys /\ x \in 0..Len(log) /\ x \in Nat /\ i \notin 1..x /\ 1..x \subseteq 1..n
    BY <1>1, <1>3, Sizes DEF Commit
  <2>2. \A j \in 1..x : log[j].k # log[i].k
    BY <1>4, <2>1
  <2>3. LastOf(log[i].k, x) = 0
    <3>1. /\ LastOf(log[i].k, x) \in 0..x
          /\ LastOf(log[i].k, x) # 0 => log[LastOf(log[i].k, x)].k = log[i].k
      BY <2>1, LastOfIs
    <3> QED BY <2>1, <2>2, <3>1
  <2> QED BY <2>3 DEF Live
<1>11. \A snap : ChainOf(snap)
  <2>1. \A snap : MarkOf(snap, Len(gens)) = 0
    BY <1>7 DEF MarkOf
  <2> QED BY <1>2, <1>5, <1>6, <1>7, <1>8, <1>10, <2>1
      DEF ChainOf, Recorded, LastRecorded, Building, Table
<1> QED BY <1>9, <1>11 DEF ChainInv

\* What a step makes of the moments.
LEMMA NextChain ==
    ASSUME Orderly, TypeInv, NEW snap \in Snaps, ChainOf(snap), [Next]_vars,
           NEW next, next = Marked(snap)
    PROVE  next \in Snaps' /\ ChainOf(next)'
<1>1. CASE Postgres
  <2>1. UNCHANGED producerVars
    BY <1>1 DEF Postgres, Begin, CommitServer, CommitEdge
  <2>2. next = snap
    BY <2>1 DEF Marked, producerVars
  <2> QED BY <1>1, <2>2, PostgresChain
<1>2. CASE Sweeper
  <2>1. next = snap
    BY <1>2 DEF Sweeper, Advance, Reap, Marked, producerVars
  <2>2. CASE Advance
    <3>1. UNCHANGED <<now, open, log, rows, chainVars, producerVars>>
      BY <2>2 DEF Advance
    <3> QED BY <2>1, <3>1, Frame
  <2> QED BY <1>2, <2>1, <2>2, ReapChain DEF Sweeper
<1>3. CASE Publish \/ Expire \/ UNCHANGED vars
  <2>1. UNCHANGED <<now, open, log, rows, chainVars, producerVars>>
    BY <1>3 DEF Publish, Expire, vars, pgVars
  <2>2. next = snap
    BY <2>1 DEF Marked, producerVars
  <2> QED BY <2>1, <2>2, Frame
<1>4. CASE Producer
  <2>1. CASE BuildBegin
    <3>1. next = snap
      BY <2>1 DEF BuildBegin, Marked
    <3> QED BY <2>1, <3>1, BuildBeginChain
  <2>2. CASE ProducerCrash
    <3>1. next = snap
      BY <2>2 DEF ProducerCrash, Marked
    <3> QED BY <2>2, <3>1, CrashChain
  <2>3. ASSUME NEW full \in BOOLEAN, BuildObjects(full)
        PROVE  next \in Snaps' /\ ChainOf(next)'
    <3>1. next = [snap EXCEPT ![NextGen] = Len(log)]
      BY <2>3 DEF BuildObjects, Marked
    <3> QED BY <2>3, <3>1, BuildObjectsChain
  <2>4. ASSUME NEW gone \in SUBSET DOMAIN gens, NEW upto \in {"prune", "put", "record"},
               Finish(gone, upto)
        PROVE  next \in Snaps' /\ ChainOf(next)'
    <3>1. next = snap
      BY <2>4 DEF Finish, Marked
    <3> QED BY <2>4, <3>1, FinishChain
  <2> QED BY <1>4, <2>1, <2>2, <2>3, <2>4 DEF Producer
<1>5. CASE Client
  <2>1. UNCHANGED <<pgVars, chainVars, streamVars, producerVars>>
    BY <1>5 DEF Client, Follow, SeedBegin, SeedAborts, SeedCommit, SeedStops, SeedStopsInFull
  <2>2. UNCHANGED <<now, open, log, rows, chainVars, producerVars>>
    BY <2>1 DEF pgVars
  <2>3. next = snap
    BY <2>2 DEF Marked, producerVars
  <2> QED BY <2>2, <2>3, Frame
<1> QED BY <1>1, <1>2, <1>3, <1>4, <1>5 DEF Next

\* What a client loads that has nothing yet.
LEMMA FreshPlan ==
    ASSUME NEW man \in Manifest
    PROVE  /\ planFromManifest(man, 0).full /\ planFromManifest(man, 0).base = man.base.gen
           /\ planFromManifest(man, 0).deltas =
                  {d.gen : d \in {e \in man.deltas : e.gen > man.base.gen}}
BY DEF planFromManifest

LEMMA ChainIsWhole ==
    ASSUME TypeInv, ChainInv
    PROVE  SeedsWhole
<1> DEFINE plan  == planFromManifest(manifest, 0)
           start == [k \in Keys |-> 0]
           L     == Loaded(plan, start)
           n     == Len(gens)
           base  == manifest.base.gen
<1> SUFFICES ASSUME LastGen # 0, manifest.gen = LastGen,
                    {plan.base} \cup plan.deltas \subseteq LiveGens(gens) \cup {0}
             PROVE  /\ Found(plan, MaxGens)
                    /\ \E m \in manifest.seq..Len(log) : L[MaxGens] = TableAt(m)
  BY DEF SeedsWhole
<1>1. PICK snap \in Snaps : ChainOf(snap)
  BY DEF ChainInv
<1>2. LastGen = n /\ n \in 1..MaxGens /\ MaxGens \in Nat /\ n \in Nat /\ Len(log) \in Nat
      /\ DOMAIN gens = 1..n
  <2>1. LastGen = n /\ n \in 0..MaxGens /\ Len(log) \in Nat /\ DOMAIN gens = 1..n
    BY <1>1, Sizes, LastGenIs DEF ChainOf
  <2> QED BY <2>1, GenerationsAssumption
<1>3. /\ base \in 1..n /\ gens[base].full /\ manifest.seq = gens[n].seq
      /\ plan.full /\ plan.base = base /\ plan.deltas = base+1..n
  <2>1. manifest \in Manifest
    BY DEF TypeInv, TypeOK
  <2>2. /\ base \in 1..n /\ gens[base].full /\ manifest.seq = gens[n].seq
        /\ {d.gen : d \in {e \in manifest.deltas : e.gen > base}} = base+1..n
    BY <1>1, <1>2 DEF ChainOf, Listed
  <2>3. /\ plan.full /\ plan.base = base
        /\ plan.deltas = {d.gen : d \in {e \in manifest.deltas : e.gen > base}}
    BY <2>1, FreshPlan
  <2> HIDE DEF plan
  <2> QED BY <2>2, <2>3
<1> HIDE DEF plan, start, n, base
<1>4. /\ \A g \in 1..n : snap[g] \in 0..Len(log)
      /\ \A g \in 1..n : \A h \in 1..g : snap[h] \in 0..snap[g]
      /\ \A g \in 1..n : \A h \in 0..g : MarkOf(snap, h) \in 0..snap[g]
  BY <1>1, SnapsRise DEF n
<1>5. gens[base].state = "live" /\ \A g \in base+1..n : gens[g].state = "live"
  <2>1. base \in LiveGens(gens) /\ \A g \in base+1..n : g \in LiveGens(gens)
    BY <1>2, <1>3
  <2> QED BY <2>1 DEF LiveGens
<1>6. Object(base, "full") = LiveAt(snap[base])
  <2>1. base # 0
    BY <1>2, <1>3
  <2>2. objects[<<base, "full">>] = LiveAt(snap[base])
    BY <1>1, <1>3, <1>5 DEF ChainOf, Recorded, n
  <2> QED BY <2>1, <2>2 DEF Object
<1>7. ASSUME NEW g \in base+1..n
      PROVE  Follows(Object(g, "delta"), MarkOf(snap, g-1), snap[g])
  <2>1. g # 0 /\ g \in 1..n /\ g > 1 /\ gens[g].state = "live"
    BY <1>2, <1>3, <1>5
  <2>2. Follows(objects[<<g, "delta">>], MarkOf(snap, g-1), snap[g])
    BY <1>1, <2>1 DEF ChainOf, Recorded, n
  <2> QED BY <2>1, <2>2 DEF Object
<1>8. Found(plan, MaxGens)
  <2>1. 0 \notin LiveAt(snap[base])
    BY DEF LiveAt, Live
  <2>2. \A g \in base+1..n : 0 \notin Object(g, "delta")
    <3>1. \A g \in base+1..n : \A i \in Object(g, "delta") : i \in 1..snap[g]
      BY <1>7 DEF Follows
    <3>2. \A g \in base+1..n : 0 \notin 1..snap[g]
      OBVIOUS
    <3> QED BY <3>1, <3>2
  <2> QED BY <1>3, <1>6, <2>1, <2>2 DEF Found, Gone
<1> DEFINE at(i) == IF i < base THEN base ELSE IF i > n THEN n ELSE i
           Bad   == {i \in Nat : i <= MaxGens /\ L[i] # TableAt(snap[at(i)])}
<1>9. L = [i \in 0..MaxGens |->
              IF i = 0 THEN IF plan.full THEN Wiped(Object(plan.base, "full")) ELSE start
              ELSE IF i \in plan.deltas THEN Merge(L[i-1], Object(i, "delta"))
              ELSE L[i-1]]
  BY LoadedStep
<1> HIDE DEF L
<1>10. Bad = {}
  <2> SUFFICES ASSUME Bad # {} PROVE FALSE
    OBVIOUS
  <2>1. PICK i \in Bad : \A h \in Bad : i <= h
    <3>1. Bad \in SUBSET Nat
      OBVIOUS
    <3> HIDE DEF Bad
    <3> QED BY <3>1, First
  <2>2. i \in 0..MaxGens /\ L[i] # TableAt(snap[at(i)])
    BY <1>2, <2>1
  <2>3. CASE i = 0
    <3>1. L[0] = Wiped(LiveAt(snap[base])) /\ at(0) = base
      BY <1>2, <1>3, <1>6, <1>9
    <3>2. Wiped(LiveAt(snap[base])) = TableAt(snap[base])
      BY <1>3, <1>4, WipedIs
    <3> QED BY <2>2, <2>3, <3>1, <3>2
  <2>4. CASE i # 0
    <3>1. L[i-1] = TableAt(snap[at(i-1)])
      <4>1. i - 1 \in Nat /\ i - 1 <= MaxGens /\ ~(i <= i - 1)
        BY <1>2, <2>2, <2>4
      <4>2. i - 1 \notin Bad
        <5> HIDE DEF Bad
        <5> QED BY <2>1, <4>1
      <4> HIDE DEF at
      <4> QED BY <4>1, <4>2
    <3>2. CASE i \in base+1..n
      <4>1. L[i] = Merge(L[i-1], Object(i, "delta"))
        BY <1>3, <1>9, <2>2, <2>4, <3>2
      <4>2. at(i-1) = i - 1 /\ at(i) = i /\ i - 1 \in 1..i /\ i \in 1..n
        BY <1>2, <1>3, <3>2
      <4>3. Merge(TableAt(snap[i-1]), Object(i, "delta")) = TableAt(snap[i])
        <5>1. i - 1 \in 1..n /\ i - 1 \in 0..i - 1 /\ i - 1 \in 0..i
          BY <1>2, <4>2
        <5>2. /\ snap[i] \in 0..Len(log) /\ snap[i-1] \in 0..snap[i]
              /\ MarkOf(snap, i-1) \in 0..snap[i] /\ MarkOf(snap, i-1) \in 0..snap[i-1]
          BY <1>4, <4>2, <5>1
        <5>3. snap[i-1] \in MarkOf(snap, i-1)..snap[i]
          BY <1>2, <5>2
        <5>4. Follows(Object(i, "delta"), MarkOf(snap, i-1), snap[i]) /\ Positive
          BY <1>1, <1>7, <3>2 DEF ChainOf
        <5> QED BY <5>2, <5>3, <5>4, MergeIs
      <4> HIDE DEF at
      <4> QED BY <2>2, <3>1, <4>1, <4>2, <4>3
    <3>3. CASE i \notin base+1..n
      <4>1. L[i] = L[i-1]
        BY <1>3, <1>9, <2>2, <2>4, <3>3
      <4>2. at(i-1) = at(i)
        BY <1>2, <1>3, <2>2, <2>4, <3>3
      <4> HIDE DEF at
      <4> QED BY <2>2, <3>1, <4>1, <4>2
    <3> QED BY <3>2, <3>3
  <2> QED BY <2>3, <2>4
<1>11. L[MaxGens] = TableAt(snap[n])
  <2>1. at(MaxGens) = n
    BY <1>2, <1>3
  <2>2. MaxGens \in Nat /\ MaxGens <= MaxGens
    BY <1>2
  <2> HIDE DEF at
  <2> QED BY <1>10, <2>1, <2>2
<1>12. snap[n] \in manifest.seq..Len(log)
  <2>1. manifest.seq <= snap[n]
    <3>1. \A g \in 1..n : gens[g].seq <= snap[g]
      BY <1>1 DEF ChainOf, Recorded, n
    <3>2. n \in 1..n
      BY <1>2
    <3> QED BY <1>3, <3>1, <3>2
  <2>2. manifest.seq \in Nat /\ snap[n] \in 0..Len(log)
    BY <1>2, <1>4 DEF TypeInv, TypeOK, Manifest
  <2> QED BY <1>2, <2>1, <2>2
<1> QED BY <1>8, <1>11, <1>12

\* The objects a manifest names make the table as it was at one commit, not
\* before the manifest's cut: what a client loads is never a mixture of two
\* moments, and misses no write, although generations are pruned, builds fail
\* and start again, tombstones are reaped and the stream may lag behind the
\* snapshot.  Stated for a database in which no edit comes later than the
\* tolerance, no row's version goes down and no tombstone is reaped before a
\* generation has it; TLC refutes it for each of the three.
THEOREM SeedsAreWhole ==
    ASSUME Orderly
    PROVE  Spec => []SeedsWhole
<1>1. Init => TypeInv /\ ChainInv
  BY InitTypeInv, InitChain
<1>2. TypeInv /\ ChainInv /\ [Next]_vars => TypeInv' /\ ChainInv'
  <2> SUFFICES ASSUME TypeInv, ChainInv, [Next]_vars PROVE TypeInv' /\ ChainInv'
    OBVIOUS
  <2>1. PICK snap \in Snaps : ChainOf(snap)
    BY DEF ChainInv
  <2>2. \E next \in Snaps' : ChainOf(next)'
    BY <2>1, NextChain
  <2> QED BY <2>2, NextTypeInv DEF ChainInv
<1>3. TypeInv /\ ChainInv => SeedsWhole
  BY ChainIsWhole
<1> QED BY <1>1, <1>2, <1>3, PTL DEF Spec
=============================================================================
