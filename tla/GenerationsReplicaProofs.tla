----------------------- MODULE GenerationsReplicaProofs -----------------------
(***************************************************************************)
(* Proof about Generations, for every table and every value of the bounds: *)
(* a client that is seeded and has read the whole stream has the table's   *)
(* live rows (Converged).                                                  *)
(*                                                                         *)
(* Of each row the replica has what the table had at some commit, and the  *)
(* proof follows that commit: a chain starts from no later than it and     *)
(* takes it on, an event takes it on by one or is behind it, and when the  *)
(* stream has been read it is the last one.                                *)
(***************************************************************************)
EXTENDS GenerationsSeedProofs

\* A watermark and the sequence that goes with it, among those of the recorded
\* generations.
InStep(cut, seq) ==
    \A g \in 1..Len(gens) : /\ gens[g].cut <= cut => gens[g].seq <= seq
                            /\ cut < gens[g].cut => seq <= gens[g].seq

DeltaGens(man) == {d.gen : d \in man.deltas}

\* A manifest may outlive its own writing: that of the generation after the last
\* recorded one is the current one, or one of the same generation that is gone.
Sound(man, snap) ==
    /\ man.gen \in 1..NextGen /\ (man.gen = NextGen => manifest.gen = NextGen)
    /\ man.base.gen \in 1..man.gen /\ (man.base.gen = NextGen => manifest.base.gen = NextGen)
    /\ man.base.gen <= Len(gens) => gens[man.base.gen].full
    /\ man.seq <= snap[man.gen] /\ man.seq <= manifest.seq
    /\ InStep(man.cut, man.seq)

\* The deltas a manifest lists.
Lists(man) ==
    /\ man.seq > 0
    /\ man.gen > 1 => man.gen \in DeltaGens(man)
    /\ \A d \in man.deltas :
           /\ d.gen \in 2..man.gen /\ d.prev = gens[d.gen-1].cut
           /\ d.cut = IF d.gen = man.gen THEN man.cut ELSE gens[d.gen].cut
    /\ \A g \in DeltaGens(man) \cup {man.base.gen} : g+1..man.gen \subseteq DeltaGens(man)
    /\ man.base.gen = man.gen => man.base.cut = man.cut
    /\ \A g \in 1..man.gen-1 : gens[g].cut < man.cut

\* The recorded generations, one after the other.
Row ==
    \A g \in 1..Len(gens) :
        /\ gens[g].state = "gone" => \A kind \in Kinds : objects[<<g, kind>>] = Gone
        /\ gens[g].cut <= manifest.cut
        /\ g > 1 => gens[g].prev = gens[g-1].cut
        /\ \A h \in 1..g-1 : gens[h].cut < gens[g].cut

\* The manifest that was put and not recorded: its objects may be those of a
\* later build of its generation, which is a full.
Unrecorded(snap) ==
    manifest.gen = NextGen =>
        /\ NextGen \in Gens
        /\ Len(gens) > 0 => snap[Len(gens)] <= snap[NextGen]
        /\ ppc = "built" => build.full
        /\ manifest.base.gen = NextGen => objects[<<NextGen, "full">>] = LiveAt(snap[NextGen])
        /\ NextGen > 1 =>
               Follows(objects[<<NextGen, "delta">>], MarkOf(snap, Len(gens)), snap[NextGen])

Chain(snap) ==
    /\ last > 0
    /\ Row /\ Unrecorded(snap)
    /\ manifest.gen \in {Len(gens), NextGen}
    /\ IF manifest.gen = 0 THEN manifest = NoManifest ELSE Sound(manifest, snap) /\ Lists(manifest)
    /\ ppc # "idle" => manifest.cut < now /\ manifest.seq <= build.seq /\ build.seq > 0
    /\ ppc = "built" => manifest.cut < build.cut

\* Each row of the replica is what it was at a commit the anchor's chain does
\* not lack, and which the stream's next event does not skip.
Rows ==
    \A k \in Keys : \E x \in anchor..Len(log) :
        replica[k] = TableAt(x)[k] /\ (first <= pos + 1 => pos <= x)

Replica ==
    /\ owed => wm = 0
    /\ wm # 0 => /\ InStep(wm, anchor) /\ wm <= manifest.cut /\ anchor <= manifest.seq
                 /\ wm = manifest.cut => anchor = manifest.seq
                 /\ Rows

\* A load of the deltas after generation a, on top of its full or of the rows.
Loading(snap) ==
    cpc = "load" =>
        LET man == pass.man
        IN  /\ Sound(man, snap) /\ pos <= man.seq
            /\ man = manifest \/ man.cut < manifest.cut
            /\ \E a \in 1..man.gen :
                   /\ pass.plan.deltas = a+1..man.gen
                   /\ pass.plan.full => a = man.base.gen /\ pass.plan.base = a
                   /\ ~pass.plan.full =>
                          /\ wm # 0 /\ (pass.gap => pos = 0 \/ pos + 1 < first)
                          /\ IF a = man.gen THEN anchor = man.seq
                             ELSE /\ gens[a].seq <= anchor
                                  /\ \A i \in a+1..man.gen : anchor <= snap[i]

ReplicaInv(snap) == Chain(snap) /\ Replica /\ Loading(snap)

-----------------------------------------------------------------------------
(* What a load makes of a row.                                             *)

\* Where the clocks, the stream and the client may stand.
LEMMA Bounds ==
    ASSUME TypeInv
    PROVE  /\ Len(log) \in Nat /\ now \in Nat /\ last \in Nat /\ first \in Nat
           /\ last \in 0..Len(log) /\ first \in 1..last+1
           /\ wm \in Nat /\ wm <= now
           /\ pos \in Nat /\ pos \in 0..last /\ pos \in 0..Len(log)
           /\ anchor \in Nat /\ anchor \in 0..last /\ anchor \in 0..Len(log)
           /\ manifest \in Manifest /\ replica \in [Keys -> 0..Len(log)]
<1>1. /\ now \in Nat /\ last \in 0..Len(log) /\ first \in 1..last+1
      /\ wm \in 0..now /\ pos \in 0..last /\ anchor \in 0..last
      /\ manifest \in Manifest /\ replica \in [Keys -> 0..Len(log)]
  BY DEF TypeInv, TypeOK
<1>2. Len(log) \in Nat
  BY Sizes
<1>3. last \in Nat /\ first \in Nat /\ wm \in Nat /\ wm <= now
  BY ONLY <1>1, <1>2
<1>4. /\ pos \in Nat /\ pos \in 0..Len(log)
      /\ anchor \in Nat /\ anchor \in 0..Len(log)
  BY ONLY <1>1, <1>2
<1> QED BY ONLY <1>1, <1>2, <1>3, <1>4

\* The last row at n is the last at p if no change up to p follows it.
LEMMA NotFollowed ==
    ASSUME TypeInv, NEW n \in 0..Len(log), NEW k \in Keys, LastOf(k, n) # 0,
           NEW p \in 0..Len(log), n < p,
           \A j \in LastOf(k, n)+1..p : log[j].k # log[LastOf(k, n)].k
    PROVE  TableAt(p)[k] = TableAt(n)[k]
<1>1. Len(log) \in Nat /\ n \in Nat /\ p \in Nat
  BY Sizes
<1>2. LastOf(k, n) \in 1..n /\ log[LastOf(k, n)].k = k
  BY <1>1, LastOfIs
<1>3. \A j \in 1..p : log[j].k = k => j <= LastOf(k, n)
  <2>1. \A j \in 1..p : j <= LastOf(k, n) \/ j \in LastOf(k, n)+1..p
    BY <1>1, <1>2
  <2> QED BY <1>2, <2>1
<1>4. LastOf(k, n) \in 0..p
  BY <1>1, <1>2
<1>5. LastOf(k, n) = LastOf(k, p)
  BY <1>2, <1>3, <1>4, LastOfOnly
<1> QED BY <1>5 DEF TableAt

\* A delta takes no row back behind p, unless it has a row of which a change up
\* to p follows ...
LEMMA DeltaKeeps ==
    ASSUME TypeInv, Positive, NEW n \in 0..Len(log), NEW m \in 0..n, NEW c, Follows(c, m, n),
           NEW k \in Keys, NEW x \in m..Len(log), NEW r, r[k] = TableAt(x)[k],
           NEW p \in 0..Len(log), p <= x, \A i \in c : \A j \in i+1..p : log[j].k # log[i].k
    PROVE  \/ Merge(r, c)[k] = TableAt(x)[k] /\ x >= n
           \/ Merge(r, c)[k] = TableAt(n)[k] /\ n >= p
           \/ Merge(r, c)[k] = TableAt(p)[k] /\ p >= n
<1>1. Taken(r, c, c, k, x, n)
  <2>1. c \in SUBSET c
    OBVIOUS
  <2> QED BY <2>1, MergeRow
<1>2. Len(log) \in Nat /\ n \in Nat /\ m \in Nat /\ x \in Nat /\ p \in Nat
  BY Sizes
<1>3. CASE Merge(r, c)[k] = TableAt(n)[k] /\ n < p /\ LastOf(k, n) \in c
  <2>1. LastOf(k, n) # 0
    BY <1>3 DEF Follows
  <2>2. TableAt(p)[k] = TableAt(n)[k]
    BY <1>3, <2>1, NotFollowed
  <2> QED BY <1>2, <1>3, <2>2
<1> QED BY <1>1, <1>2, <1>3 DEF Taken

\* ... nor do some rows of it.
LEMMA PartKeeps ==
    ASSUME TypeInv, Positive, NEW n \in 0..Len(log), NEW m \in 0..n, NEW c, Follows(c, m, n),
           NEW part \in SUBSET c, NEW k \in Keys, NEW x \in m..Len(log),
           NEW r, r[k] = TableAt(x)[k], NEW p \in 0..Len(log), p <= x,
           \A i \in part : \A j \in i+1..p : log[j].k # log[i].k
    PROVE  \/ Merge(r, part)[k] = TableAt(x)[k]
           \/ Merge(r, part)[k] = TableAt(n)[k] /\ n >= p
           \/ Merge(r, part)[k] = TableAt(p)[k] /\ p >= n
<1>1. Taken(r, c, part, k, x, n)
  BY MergeRow
<1>2. Len(log) \in Nat /\ n \in Nat /\ m \in Nat /\ x \in Nat /\ p \in Nat
  BY Sizes
<1>3. CASE Merge(r, part)[k] = TableAt(n)[k] /\ n < p /\ LastOf(k, n) \in part
  <2>1. LastOf(k, n) # 0
    BY <1>3 DEF Follows
  <2>2. TableAt(p)[k] = TableAt(n)[k]
    BY <1>3, <2>1, NotFollowed
  <2> QED BY <1>2, <1>3, <2>2
<1> QED BY <1>1, <1>2, <1>3 DEF Taken

\* The objects of a manifest that may be loaded.
Intact(man, snap) ==
    /\ Object(man.base.gen, "full") \in {Gone, LiveAt(snap[man.base.gen])}
    /\ \A g \in 1..man.gen : snap[g] \in 0..Len(log) /\ \A h \in 1..g : snap[h] <= snap[g]
    /\ \A g \in 2..man.gen :
           /\ g - 1 \in 1..Len(gens) /\ MarkOf(snap, g-1) \in 0..snap[g-1]
           /\ Object(g, "delta") = Gone \/ Follows(Object(g, "delta"), MarkOf(snap, g-1), snap[g])

LEMMA ObjectsAre ==
    ASSUME TypeInv, NEW snap \in Snaps, ChainOf(snap), Chain(snap),
           NEW man, Sound(man, snap)
    PROVE  Intact(man, snap)
<1>1. /\ Len(gens) \in Nat /\ Len(gens) <= MaxGens /\ NextGen = Len(gens) + 1 /\ Len(log) \in Nat
      /\ MaxGens \in Nat /\ man.gen \in 1..NextGen /\ man.base.gen \in 1..man.gen
  BY Sizes, GenerationsAssumption DEF NextGen, Sound
<1>2. ASSUME NEW g \in 1..Len(gens)
      PROVE  /\ gens[g].full => Object(g, "full") \in {Gone, LiveAt(snap[g])}
             /\ g > 1 => Object(g, "delta") = Gone \/ Follows(Object(g, "delta"), MarkOf(snap, g-1), snap[g])
  <2>1. Object(g, "full") = objects[<<g, "full">>] /\ Object(g, "delta") = objects[<<g, "delta">>]
    BY <1>1 DEF Object
  <2>2. CASE gens[g].state = "gone"
    BY <2>1, <2>2 DEF Chain, Row, Kinds
  <2>3. CASE gens[g].state # "gone"
    BY <2>1, <2>3 DEF ChainOf, Recorded
  <2> QED BY <2>2, <2>3
<1>3. ASSUME man.gen = NextGen
      PROVE  /\ man.base.gen = NextGen => Object(NextGen, "full") \in {Gone, LiveAt(snap[NextGen])}
             /\ NextGen > 1 => \/ Object(NextGen, "delta") = Gone
                               \/ Follows(Object(NextGen, "delta"), MarkOf(snap, Len(gens)), snap[NextGen])
             /\ Len(gens) > 0 => snap[Len(gens)] <= snap[NextGen]
  <2>1. Unrecorded(snap) /\ manifest.gen = NextGen
    BY <1>3 DEF Chain, Sound
  <2>2. /\ Object(NextGen, "full") = objects[<<NextGen, "full">>]
        /\ Object(NextGen, "delta") = objects[<<NextGen, "delta">>]
    BY <1>1 DEF Object
  <2>3. man.base.gen = NextGen => manifest.base.gen = NextGen
    BY DEF Sound
  <2> QED BY <2>1, <2>2, <2>3 DEF Unrecorded
<1>4. /\ \A g \in 1..Len(gens) : snap[g] \in 0..Len(log) /\ snap[g] <= snap[Len(gens)]
      /\ \A g \in 1..Len(gens) : \A h \in 1..g : snap[h] \in 0..snap[g]
      /\ \A g \in 1..Len(gens) : \A h \in 0..g : MarkOf(snap, h) \in 0..snap[g]
  BY SnapsRise
<1>5. man.gen = NextGen => snap[NextGen] \in 0..Len(log)
  <2>1. man.gen = NextGen => NextGen \in Gens
    BY DEF Sound, Chain, Unrecorded
  <2> QED BY <2>1 DEF Snaps
<1>6. \A g \in 1..man.gen : g \in 1..Len(gens) \/ (g = NextGen /\ man.gen = NextGen)
  BY <1>1
<1>7. Object(man.base.gen, "full") \in {Gone, LiveAt(snap[man.base.gen])}
  <2>1. CASE man.base.gen \in 1..Len(gens)
    <3>1. gens[man.base.gen].full
      BY <2>1 DEF Sound
    <3> QED BY <1>2, <2>1, <3>1
  <2>2. CASE man.base.gen = NextGen /\ man.gen = NextGen
    BY <1>3, <2>2
  <2> QED BY <1>1, <1>6, <2>1, <2>2
<1>8. ASSUME NEW g \in 1..man.gen
      PROVE  snap[g] \in 0..Len(log) /\ \A h \in 1..g : snap[h] <= snap[g]
  <2>1. CASE g \in 1..Len(gens)
    BY <1>4, <2>1
  <2>2. CASE g = NextGen /\ man.gen = NextGen
    <3>1. \A h \in 1..g : h = g \/ (h \in 1..Len(gens) /\ Len(gens) > 0)
      BY <1>1, <2>2
    <3>2. ASSUME NEW h \in 1..Len(gens), Len(gens) > 0 PROVE snap[h] <= snap[g]
      <4>1. snap[h] <= snap[Len(gens)] /\ snap[Len(gens)] <= snap[NextGen]
        BY <1>3, <1>4, <2>2, <3>2
      <4>2. snap[h] \in Nat /\ snap[Len(gens)] \in Nat /\ snap[NextGen] \in Nat
        <5>1. Len(gens) \in 1..Len(gens)
          BY <1>1, <3>2
        <5> QED BY <1>1, <1>4, <1>5, <2>2, <5>1
      <4> QED BY <2>2, <4>1, <4>2
    <3>3. snap[g] \in 0..Len(log) /\ snap[g] <= snap[g]
      BY <1>1, <1>5, <2>2
    <3> QED BY <3>1, <3>2, <3>3
  <2> QED BY <1>6, <2>1, <2>2
<1>9. ASSUME NEW g \in 2..man.gen
      PROVE  /\ g - 1 \in 1..Len(gens) /\ MarkOf(snap, g-1) \in 0..snap[g-1]
             /\ Object(g, "delta") = Gone \/ Follows(Object(g, "delta"), MarkOf(snap, g-1), snap[g])
  <2>1. g - 1 \in 1..Len(gens) /\ g - 1 \in 0..g-1
    BY <1>1
  <2>2. CASE g \in 1..Len(gens)
    <3>1. g > 1
      BY <1>1
    <3> QED BY <1>2, <1>4, <2>1, <2>2, <3>1
  <2>3. CASE g = NextGen /\ man.gen = NextGen
    <3>1. g - 1 = Len(gens) /\ NextGen > 1
      BY <1>1, <2>3
    <3>2. Object(g, "delta") = Gone \/ Follows(Object(g, "delta"), MarkOf(snap, g-1), snap[g])
      BY <1>3, <2>3, <3>1
    <3> QED BY <1>4, <2>1, <3>2
  <2>4. g \in 1..man.gen
    BY <1>1
  <2> QED BY <1>6, <2>2, <2>3, <2>4
<1> QED BY <1>7, <1>8, <1>9 DEF Intact

LEMMA LoadedAt ==
    ASSUME NEW plan, NEW start, NEW n \in 0..MaxGens
    PROVE  Loaded(plan, start)[n] =
               IF n = 0 THEN IF plan.full THEN Wiped(Object(plan.base, "full")) ELSE start
               ELSE IF n \in plan.deltas
                    THEN Merge(Loaded(plan, start)[n-1], Object(n, "delta"))
               ELSE Loaded(plan, start)[n-1]
<1> DEFINE L == Loaded(plan, start)
<1>1. L = [i \in 0..MaxGens |->
              IF i = 0 THEN IF plan.full THEN Wiped(Object(plan.base, "full")) ELSE start
              ELSE IF i \in plan.deltas THEN Merge(L[i-1], Object(i, "delta"))
              ELSE L[i-1]]
  BY LoadedStep
<1> HIDE DEF L
<1>2. L[n] = IF n = 0 THEN IF plan.full THEN Wiped(Object(plan.base, "full")) ELSE start
             ELSE IF n \in plan.deltas THEN Merge(L[n-1], Object(n, "delta"))
             ELSE L[n-1]
  BY <1>1
<1> QED BY <1>2 DEF L

\* A load from generation a on, that finds what it needs up to generation n.  Of
\* each row it starts from what it was at lo or later, which is not before the
\* first delta's start, nor after any's end, and not before p; and no delta it
\* takes has a row of which a change up to p follows.
Loads(man, snap, plan, start, a, n, lo, p) ==
    /\ Positive /\ man \in Manifest /\ man.gen <= MaxGens /\ Intact(man, snap)
    /\ a \in 1..man.gen /\ plan.deltas = a+1..man.gen
    /\ n \in 0..MaxGens /\ Found(plan, n)
    /\ lo \in 0..Len(log) /\ p \in 0..Len(log)
    /\ a < man.gen => MarkOf(snap, a) <= lo
    /\ \A g \in a+1..man.gen : lo <= snap[g]
    /\ \A k \in Keys : \E x \in lo..Len(log) :
           Loaded(plan, start)[0][k] = TableAt(x)[k] /\ p <= x
    /\ \A g \in a+1..man.gen : g <= n =>
           \A i \in Object(g, "delta") : \A j \in i+1..p : log[j].k # log[i].k

\* It takes each row on to the end of the last delta it takes.
LEMMA LoadedRows ==
    ASSUME TypeInv, NEW man, NEW snap, NEW plan, NEW start, NEW a, NEW n, NEW lo, NEW p,
           Loads(man, snap, plan, start, a, n, lo, p), NEW k \in Keys
    PROVE  \E x \in lo..Len(log) :
               /\ Loaded(plan, start)[n][k] = TableAt(x)[k] /\ p <= x
               /\ n > a /\ a < man.gen => snap[IF n > man.gen THEN man.gen ELSE n] <= x
<1> DEFINE L     == Loaded(plan, start)
           at(i) == snap[IF i > man.gen THEN man.gen ELSE i]
           Is(i, x) == L[i][k] = TableAt(x)[k] /\ p <= x /\ (i > a /\ a < man.gen => at(i) <= x)
           Bad   == {i \in Nat : i <= n /\ ~\E x \in lo..Len(log) : Is(i, x)}
<1>1. /\ n \in Nat /\ MaxGens \in Nat /\ n <= MaxGens /\ man.gen \in Nat /\ a \in Nat /\ a >= 1
      /\ Len(log) \in Nat /\ lo \in Nat /\ a <= man.gen /\ p \in Nat
  BY Sizes, GenerationsAssumption DEF Manifest, Loads
<1>2. \A i \in 1..MaxGens :
          L[i] = IF i \in a+1..man.gen THEN Merge(L[i-1], Object(i, "delta")) ELSE L[i-1]
  <2> SUFFICES ASSUME NEW i \in 1..MaxGens
               PROVE  L[i] = IF i \in a+1..man.gen THEN Merge(L[i-1], Object(i, "delta")) ELSE L[i-1]
    OBVIOUS
  <2>1. i \in 0..MaxGens /\ i # 0
    BY <1>1
  <2>2. plan.deltas = a+1..man.gen
    BY DEF Loads
  <2>3. L[i] = IF i \in plan.deltas THEN Merge(L[i-1], Object(i, "delta")) ELSE L[i-1]
    BY ONLY <2>1, LoadedAt
  <2> HIDE DEF L
  <2> QED BY <2>2, <2>3
<1>3. /\ \A g \in 1..man.gen : snap[g] \in 0..Len(log) /\ \A h \in 1..g : snap[h] <= snap[g]
      /\ \A g \in 2..man.gen : /\ MarkOf(snap, g-1) \in 0..snap[g-1]
                               /\ \/ Object(g, "delta") = Gone
                                  \/ Follows(Object(g, "delta"), MarkOf(snap, g-1), snap[g])
  BY DEF Intact, Loads
<1>4. /\ \E x \in lo..Len(log) : L[0][k] = TableAt(x)[k] /\ p <= x
      /\ Positive /\ p \in 0..Len(log) /\ plan.deltas = a+1..man.gen /\ Found(plan, n)
      /\ a < man.gen => MarkOf(snap, a) <= lo
      /\ \A g \in a+1..man.gen :
             /\ lo <= snap[g]
             /\ g <= n => \A i \in Object(g, "delta") : \A j \in i+1..p : log[j].k # log[i].k
  BY DEF Loads
<1> HIDE DEF L
<1>5. Bad = {}
  <2> SUFFICES ASSUME Bad # {} PROVE FALSE
    OBVIOUS
  <2>1. PICK i \in Bad : \A h \in Bad : i <= h
    <3>1. Bad \in SUBSET Nat
      OBVIOUS
    <3> HIDE DEF Bad
    <3> QED BY <3>1, First
  <2>2. i \in 0..n /\ (i # 0 => i \in 1..MaxGens) /\ i \in Nat
    BY <1>1, <2>1
  <2>3. ~\E x \in lo..Len(log) : Is(i, x)
    <3> HIDE DEF Is
    <3> QED BY <2>1
  <2>4. CASE i = 0
    <3>1. PICK x \in lo..Len(log) : L[0][k] = TableAt(x)[k] /\ p <= x
      BY <1>4
    <3> QED BY <1>1, <2>3, <2>4, <3>1
  <2>5. CASE i # 0
    <3>1. \E x \in lo..Len(log) : Is(i-1, x)
      <4>1. i - 1 \in Nat /\ i - 1 <= n /\ ~(i <= i - 1)
        BY <1>1, <2>2, <2>5
      <4>2. i - 1 \notin Bad
        <5> HIDE DEF Bad
        <5> QED BY <2>1, <4>1
      <4> HIDE DEF Is
      <4> QED BY <4>1, <4>2
    <3>2. PICK x \in lo..Len(log) : Is(i-1, x)
      <4> HIDE DEF Is
      <4> QED BY <3>1
    <3>3. L[i-1][k] = TableAt(x)[k] /\ p <= x /\ (i - 1 > a /\ a < man.gen => at(i-1) <= x) /\ x \in Nat
      BY <1>1, <3>2
    <3>4. CASE i \in a+1..man.gen
      <4> DEFINE c == Object(i, "delta")
                 m == MarkOf(snap, i-1)
                 e == snap[i]
      <4>1. L[i] = Merge(L[i-1], c)
        BY <1>2, <2>2, <2>5, <3>4
      <4>2. i \in 2..man.gen /\ i \in 1..man.gen /\ i - 1 \in 1..man.gen /\ i - 1 \in 1..i /\ i <= n
        BY <1>1, <2>2, <3>4
      <4>3. Follows(c, m, e)
        BY <1>1, <1>3, <1>4, <2>2, <3>4, <4>2 DEF Found
      <4>4. /\ e \in 0..Len(log) /\ snap[i-1] \in 0..Len(log) /\ snap[i-1] <= e
            /\ m \in 0..snap[i-1] /\ m \in 0..e
        <5>1. e \in 0..Len(log) /\ snap[i-1] \in 0..Len(log) /\ snap[i-1] <= e /\ m \in 0..snap[i-1]
          BY <1>3, <4>2
        <5> HIDE DEF e, m
        <5> QED BY <1>1, <5>1
      <4>5. m <= x
        <5>1. CASE i - 1 = a
          <6>1. m <= lo
            BY <1>1, <1>4, <3>4, <5>1
          <6> HIDE DEF m
          <6> QED BY <1>1, <4>4, <6>1
        <5>2. CASE i - 1 > a
          <6>1. at(i-1) = snap[i-1]
            BY <1>1, <4>2
          <6>2. snap[i-1] <= x
            <7> HIDE DEF at
            <7> QED BY <1>1, <3>3, <3>4, <5>2, <6>1
          <6> HIDE DEF m
          <6> QED BY <1>1, <3>3, <4>4, <6>2
        <5> QED BY <1>1, <3>4, <5>1, <5>2
      <4>6. x \in m..Len(log)
        <5> HIDE DEF m
        <5> QED BY <1>1, <4>4, <4>5
      <4>7. \A h \in c : \A j \in h+1..p : log[j].k # log[h].k
        BY <1>4, <3>4, <4>2
      <4>8. lo <= e /\ at(i) = e
        BY <1>1, <1>4, <3>4
      <4> HIDE DEF c, m, e, at
      <4>9. \E y \in p..Len(log) : Merge(L[i-1], c)[k] = TableAt(y)[k] /\ y >= e
        <5>1. \/ Merge(L[i-1], c)[k] = TableAt(x)[k] /\ x >= e
              \/ Merge(L[i-1], c)[k] = TableAt(e)[k] /\ e >= p
              \/ Merge(L[i-1], c)[k] = TableAt(p)[k] /\ p >= e
          BY ONLY TypeInv, <1>4, <3>3, <4>3, <4>4, <4>6, <4>7, DeltaKeeps
        <5>2. x \in Nat /\ e \in Nat /\ p \in Nat /\ x <= Len(log) /\ e <= Len(log) /\ p <= Len(log) /\ p <= x
          BY <1>1, <1>4, <3>3, <4>4
        <5>3. CASE Merge(L[i-1], c)[k] = TableAt(x)[k] /\ x >= e
          <6>1. x \in p..Len(log)
            BY <1>1, <5>2
          <6> QED BY ONLY <5>3, <6>1
        <5>4. CASE Merge(L[i-1], c)[k] = TableAt(e)[k] /\ e >= p
          <6>1. e \in p..Len(log) /\ e >= e
            BY <1>1, <5>2, <5>4
          <6> QED BY ONLY <5>4, <6>1
        <5>5. CASE Merge(L[i-1], c)[k] = TableAt(p)[k] /\ p >= e
          <6>1. p \in p..Len(log)
            BY <1>1, <5>2
          <6> QED BY ONLY <5>5, <6>1
        <5> QED BY <5>1, <5>3, <5>4, <5>5
      <4>10. PICK y \in p..Len(log) : Merge(L[i-1], c)[k] = TableAt(y)[k] /\ y >= e
        BY <4>9
      <4>11. y \in lo..Len(log) /\ p <= y /\ at(i) <= y
        BY <1>1, <4>4, <4>8, <4>10
      <4>12. L[i][k] = TableAt(y)[k]
        BY <4>1, <4>10
      <4> QED BY <2>3, <4>11, <4>12
    <3>5. CASE i \notin a+1..man.gen
      <4>1. L[i] = L[i-1]
        BY <1>2, <2>2, <2>5, <3>5
      <4>2. i > a /\ a < man.gen => i - 1 > a /\ at(i) = at(i-1)
        BY <1>1, <2>2, <3>5
      <4> HIDE DEF at
      <4>3. Is(i, x)
        BY <3>3, <4>1, <4>2
      <4> QED BY <2>3, <4>3
    <3> QED BY <3>4, <3>5
  <2> QED BY <2>4, <2>5
<1>6. n \notin Bad
  <2> HIDE DEF Bad
  <2> QED BY <1>5
<1> QED BY <1>1, <1>6 DEF L

\* Rows of the delta after generation n, none of which a change up to p follows.
Part(plan, n, part, p) ==
    /\ part # {} => n + 1 \in plan.deltas /\ part \in SUBSET (Object(n+1, "delta") \ Gone)
    /\ \A i \in part : \A j \in i+1..p : log[j].k # log[i].k

\* A load that stops after generation n and some rows of the next delta.
LEMMA StoppedRows ==
    ASSUME TypeInv, NEW man, NEW snap, NEW plan, NEW start, NEW a, NEW n, NEW lo, NEW p,
           Loads(man, snap, plan, start, a, n, lo, p), NEW k \in Keys,
           NEW part, Part(plan, n, part, p)
    PROVE  \E x \in lo..Len(log) : Merge(Loaded(plan, start)[n], part)[k] = TableAt(x)[k] /\ p <= x
<1> DEFINE L == Loaded(plan, start)[n]
           c == Object(n+1, "delta")
           m == MarkOf(snap, n)
           e == snap[n+1]
<1> SUFFICES \E x \in lo..Len(log) : Merge(L, part)[k] = TableAt(x)[k] /\ p <= x
  OBVIOUS
<1>0. /\ part # {} => n + 1 \in plan.deltas /\ part \in SUBSET (Object(n+1, "delta") \ Gone)
      /\ \A i \in part : \A j \in i+1..p : log[j].k # log[i].k
  BY DEF Part
<1>1. PICK x \in lo..Len(log) :
          /\ L[k] = TableAt(x)[k] /\ p <= x
          /\ n > a /\ a < man.gen => snap[IF n > man.gen THEN man.gen ELSE n] <= x
  BY LoadedRows
<1>2. /\ n \in Nat /\ MaxGens \in Nat /\ man.gen \in Nat /\ a \in Nat /\ a >= 1
      /\ Len(log) \in Nat /\ lo \in Nat /\ a <= man.gen /\ p \in 0..Len(log) /\ p \in Nat /\ x \in Nat
  BY Sizes, GenerationsAssumption DEF Manifest, Loads
<1>3. CASE part = {}
  <2>1. Merge(L, part)[k] = L[k]
    BY <1>3 DEF Merge
  <2> HIDE DEF L
  <2> QED BY <1>1, <2>1
<1>4. CASE part # {}
  <2>1. n + 1 \in a+1..man.gen /\ part \in SUBSET c /\ c # Gone
    <3>1. n + 1 \in plan.deltas /\ part \in SUBSET (c \ Gone)
      BY <1>0, <1>4
    <3> HIDE DEF c
    <3> QED BY <1>4, <3>1 DEF Loads
  <2>2. n + 1 \in 2..man.gen /\ n + 1 - 1 = n /\ n \in 1..man.gen /\ n + 1 \in 1..man.gen /\ n \in 1..n+1
    BY <1>2, <2>1
  <2>3. Follows(c, m, e) /\ m \in 0..snap[n] /\ e \in 0..Len(log) /\ snap[n] <= e /\ snap[n] \in 0..Len(log)
    <3>1. /\ MarkOf(snap, n+1-1) \in 0..snap[n+1-1]
          /\ c = Gone \/ Follows(c, MarkOf(snap, n+1-1), snap[n+1])
      BY <2>2 DEF Intact, Loads
    <3>2. e \in 0..Len(log) /\ snap[n] <= e /\ snap[n] \in 0..Len(log)
      BY <2>2 DEF Intact, Loads
    <3> HIDE DEF c
    <3> QED BY <2>1, <2>2, <3>1, <3>2
  <2>4. m <= x /\ lo <= e
    <3>1. lo <= e
      BY <2>1 DEF Loads
    <3>2. CASE n = a
      <4>1. m <= lo
        BY <1>2, <2>1, <3>2 DEF Loads
      <4> HIDE DEF m
      <4> QED BY <1>2, <2>3, <3>1, <4>1
    <3>3. CASE n > a
      <4>1. snap[n] <= x
        BY <1>1, <1>2, <2>1, <3>3
      <4> HIDE DEF m
      <4> QED BY <1>2, <2>3, <3>1, <4>1
    <3> QED BY <1>2, <2>1, <3>2, <3>3
  <2> HIDE DEF L, c, m, e
  <2>5. m \in 0..e /\ x \in m..Len(log)
    BY <1>2, <2>3, <2>4
  <2>6. \/ Merge(L, part)[k] = TableAt(x)[k]
        \/ Merge(L, part)[k] = TableAt(e)[k] /\ e >= p
        \/ Merge(L, part)[k] = TableAt(p)[k] /\ p >= e
    <3>1. Positive /\ \A i \in part : \A j \in i+1..p : log[j].k # log[i].k
      BY <1>0 DEF Loads
    <3> QED BY ONLY TypeInv, <1>1, <1>2, <2>1, <2>3, <2>5, <3>1, PartKeeps
  <2> QED BY <1>1, <1>2, <2>3, <2>4, <2>6
<1> QED BY <1>3, <1>4

-----------------------------------------------------------------------------
(* The client's steps.                                                     *)

LEMMA ChainKept ==
    ASSUME NEW snap, Chain(snap), UNCHANGED <<pgVars, chainVars, streamVars, producerVars>>
    PROVE  Chain(snap)'
<1>1. /\ now' = now /\ log' = log /\ last' = last /\ gens' = gens
      /\ manifest' = manifest /\ objects' = objects /\ ppc' = ppc /\ build' = build
  BY DEF pgVars, chainVars, streamVars, producerVars
<1>2. NextGen' = NextGen
  BY <1>1 DEF NextGen
<1>3. \A g : MarkOf(snap, g)' = MarkOf(snap, g)
  BY <1>1 DEF MarkOf
<1>4. \A n : LiveAt(n)' = LiveAt(n)
  BY <1>1 DEF LiveAt, Live, LastOf
<1>5. \A c, m, n : Follows(c, m, n)' = Follows(c, m, n)
  BY <1>1 DEF Follows, Live, LastOf, Version
<1>6. Row'
  BY <1>1 DEF Chain, Row
<1>7. Unrecorded(snap)'
  BY <1>1, <1>2, <1>3, <1>4, <1>5 DEF Chain, Unrecorded
<1>8. manifest.gen # 0 => Sound(manifest, snap)' /\ Lists(manifest)'
  BY <1>1, <1>2 DEF Chain, Sound, Lists, InStep
<1> QED BY <1>1, <1>2, <1>6, <1>7, <1>8 DEF Chain

LEMMA FollowReplica ==
    ASSUME TypeInv, NEW snap, ReplicaInv(snap), Follow
    PROVE  ReplicaInv(snap)'
<1>1. Chain(snap)'
  BY ChainKept DEF Follow, ReplicaInv
<1>2. Loading(snap)'
  BY DEF Follow, Loading
<1>3. /\ log' = log /\ gens' = gens /\ manifest' = manifest /\ first' = first
      /\ wm' = wm /\ anchor' = anchor /\ owed' = owed /\ pos' = pos + 1
  BY DEF Follow, pgVars, chainVars, streamVars
<1>4. ASSUME Rows PROVE Rows'
  <2>1. /\ Len(log) \in Nat /\ anchor \in Nat /\ pos \in Nat /\ pos + 1 \in 1..Len(log) /\ pos \in 0..Len(log)
        /\ replica \in [Keys -> 0..Len(log)] /\ first <= pos + 1
    BY Bounds DEF Follow
  <2>0. \A x : TableAt(x)' = TableAt(x)
    BY <1>3 DEF TableAt, Live, LastOf
  <2> SUFFICES ASSUME NEW k \in Keys
               PROVE  \E x \in anchor..Len(log) :
                          /\ replica'[k] = TableAt(x)[k]
                          /\ first <= pos + 1 + 1 => pos + 1 <= x
    BY <1>3, <2>0 DEF Rows
  <2>2. PICK x \in anchor..Len(log) : replica[k] = TableAt(x)[k] /\ pos <= x
    BY <1>4, <2>1 DEF Rows
  <2>3. x \in Nat
    BY <2>1, <2>2
  <2>4. CASE pos + 1 <= anchor
    <3>1. replica' = replica
      BY <2>4 DEF Follow, seedGateDrops
    <3> QED BY <2>1, <2>2, <2>3, <2>4, <3>1
  <2>5. CASE ~(pos + 1 <= anchor)
    <3>1. replica' = Upsert(replica, pos + 1)
      BY <2>5 DEF Follow, seedGateDrops
    <3>2. replica'[k] = IF log[pos+1].k = k THEN IF log[pos+1].dead THEN 0 ELSE pos + 1
                        ELSE replica[k]
      BY <2>1, <3>1 DEF Upsert
    <3>3. CASE log[pos+1].k = k
      <4>1. pos + 1 = LastOf(k, pos + 1)
        <5>1. pos + 1 \in 0..Len(log) /\ pos + 1 \in 0..pos+1 /\ \A j \in 1..pos+1 : j <= pos + 1
          BY <2>1
        <5> QED BY <3>3, <5>1, LastOfOnly
      <4>2. replica'[k] = TableAt(pos + 1)[k]
        BY <2>1, <3>2, <3>3, <4>1 DEF TableAt, Live
      <4> QED BY <2>1, <2>5, <4>2
    <3>4. CASE log[pos+1].k # k /\ x > pos
      BY <2>1, <2>2, <2>3, <3>2, <3>4
    <3>5. CASE log[pos+1].k # k /\ x = pos
      <4>1. LastOf(k, pos) = LastOf(k, pos + 1)
        <5>1. {j \in 1..pos : log[j].k = k} = {j \in 1..pos+1 : log[j].k = k}
          BY <2>1, <3>5
        <5> QED BY <5>1 DEF LastOf
      <4>2. TableAt(pos + 1)[k] = TableAt(pos)[k]
        BY <4>1 DEF TableAt
      <4> QED BY <2>1, <2>2, <2>3, <3>2, <3>5, <4>2
    <3> QED BY <2>1, <2>2, <2>3, <3>3, <3>4, <3>5
  <2> QED BY <2>4, <2>5
<1>5. Replica'
  BY <1>3, <1>4 DEF ReplicaInv, Replica, InStep
<1> QED BY <1>1, <1>2, <1>5 DEF ReplicaInv

\* What a plan loads, of the deltas that are listed.
LEMMA PlanIs ==
    ASSUME TypeInv, NEW snap \in Snaps, ChainOf(snap), Chain(snap), Replica, manifest.gen # 0,
           NEW plan, plan = planFromManifest(manifest, wm)
    PROVE  \E a \in 1..manifest.gen :
               /\ plan.deltas = a+1..manifest.gen
               /\ plan.full => a = manifest.base.gen /\ plan.base = a
               /\ ~plan.full =>
                      /\ wm # 0
                      /\ IF a = manifest.gen THEN anchor = manifest.seq
                         ELSE gens[a].seq <= anchor /\ \A i \in a+1..manifest.gen : anchor <= snap[i]
<1> DEFINE man  == manifest
           G    == manifest.gen
           base == manifest.base.gen
           applicable == {d \in man.deltas : wm = 0 \/ d.cut > wm}
           oldest(d)  == \A e \in applicable : d.gen <= e.gen
           reaches    == /\ wm # 0 /\ wm >= man.gc
                         /\ \A d \in applicable : oldest(d) => d.prev <= wm
                         /\ applicable = {} => man.base.cut <= wm
           above      == {d \in man.deltas : d.gen > base}
<1>1. /\ plan.full = ~reaches /\ plan.base = base
      /\ reaches => plan.deltas = {d.gen : d \in applicable}
      /\ ~reaches => plan.deltas = {d.gen : d \in above}
  BY DEF planFromManifest
<1>2. /\ Len(gens) \in Nat /\ NextGen = Len(gens) + 1 /\ G \in 1..NextGen /\ base \in 1..G /\ G \in Nat
      /\ wm \in Nat /\ anchor \in Nat /\ man.cut \in Nat /\ man.seq \in Nat /\ man.base.cut \in Nat
      /\ \A d \in man.deltas : d.gen \in 2..G /\ d.cut \in Nat /\ d.prev \in Nat
      /\ \A g \in 1..Len(gens) : gens[g].cut \in Nat /\ gens[g].seq \in Nat
  <2>1. /\ Sound(man, snap) /\ Lists(man) /\ manifest \in Manifest
    BY DEF Chain, TypeInv, TypeOK
  <2>2. last \in Nat /\ Len(gens) \in Nat /\ wm \in Nat /\ anchor \in Nat
    BY Sizes, Bounds, GenerationsAssumption
  <2>3. \A g \in 1..Len(gens) : gens[g].cut \in Nat /\ gens[g].seq \in Nat
    BY <2>2, Sizes DEF Record
  <2>4. G \in 1..NextGen /\ base \in 1..G /\ \A d \in man.deltas : d.gen \in 2..G
    BY <2>1 DEF Sound, Lists
  <2>5. /\ man.cut \in Nat /\ man.seq \in Nat /\ man.base.cut \in Nat
        /\ \A d \in man.deltas : d.cut \in Nat /\ d.prev \in Nat
    BY <2>1 DEF Manifest, Delta
  <2> QED BY <2>2, <2>3, <2>4, <2>5 DEF NextGen
<1>3. /\ \A g \in 2..G : (g > base \/ \E d \in man.deltas : d.gen < g) => \E e \in man.deltas : e.gen = g
      /\ G > 1 => \E d \in man.deltas : d.gen = G
  <2>1. /\ \A g \in DeltaGens(man) \cup {base} : g+1..G \subseteq DeltaGens(man)
        /\ G > 1 => G \in DeltaGens(man)
    BY DEF Chain, Lists
  <2>2. ASSUME NEW g \in 2..G, g > base \/ \E d \in man.deltas : d.gen < g
        PROVE  g \in DeltaGens(man)
    <3>1. PICK h \in DeltaGens(man) \cup {base} : h < g
      BY <2>2 DEF DeltaGens
    <3>2. h \in Nat
      BY <1>2, <3>1 DEF DeltaGens
    <3>3. g \in h+1..G
      BY <1>2, <3>1, <3>2
    <3> QED BY <2>1, <3>1, <3>3
  <2> QED BY <2>1, <2>2 DEF DeltaGens
<1>4. \A d \in man.deltas : /\ d.prev = gens[d.gen-1].cut
                            /\ d.cut = IF d.gen = G THEN man.cut ELSE gens[d.gen].cut
  BY DEF Chain, Lists
<1> HIDE DEF man
<1>5. CASE ~reaches
  <2>1. plan.deltas = base+1..G
    <3>1. \A d \in above : d.gen \in base+1..G
      BY <1>2
    <3>2. \A g \in base+1..G : \E d \in above : d.gen = g
      <4>1. \A g \in base+1..G : g \in 2..G /\ g > base
        BY <1>2
      <4> QED BY <1>3, <4>1 DEF man
    <3> HIDE DEF above, reaches
    <3>3. plan.deltas = {d.gen : d \in above}
      BY <1>1, <1>5
    <3>4. \A g : g \in {d.gen : d \in above} <=> g \in base+1..G
      <4>1. \A g : g \in {d.gen : d \in above} => g \in base+1..G
        BY ONLY <3>1
      <4>2. \A g : g \in base+1..G => g \in {d.gen : d \in above}
        BY ONLY <3>2
      <4> QED BY ONLY <4>1, <4>2
    <3> QED BY ONLY <3>3, <3>4
  <2> HIDE DEF reaches
  <2> QED BY <1>1, <1>2, <1>5, <2>1
<1>6. CASE reaches /\ applicable = {}
  <2>1. plan.deltas = G+1..G
    <3>1. plan.deltas = {}
      <4> HIDE DEF applicable, reaches
      <4> QED BY <1>1, <1>6
    <3> QED BY <1>2, <3>1
  <2>2. wm # 0 /\ wm >= man.cut
    <3>1. CASE G > 1
      <4>1. PICK d \in man.deltas : d.gen = G
        BY <1>3, <3>1
      <4>2. d.cut = man.cut
        BY <1>4, <4>1
      <4>3. wm # 0 /\ ~(d.cut > wm)
        BY <1>6, <4>1
      <4> QED BY <1>2, <4>2, <4>3
    <3>2. CASE G = 1
      <4>1. base = G
        BY <1>2, <3>2
      <4>2. man.base.cut = man.cut
        BY <4>1 DEF Chain, Lists, man
      <4> QED BY <1>6, <4>2
    <3> QED BY <1>2, <3>1, <3>2
  <2>3. wm = man.cut
    BY <1>2, <2>2 DEF Replica, man
  <2>4. anchor = manifest.seq
    BY <2>2, <2>3 DEF Replica, man
  <2>5. wm # 0 /\ G \in 1..G
    BY <1>2, <1>6
  <2> HIDE DEF reaches, applicable
  <2>6. ~plan.full
    BY <1>1, <1>6
  <2> QED BY <2>1, <2>4, <2>5, <2>6
<1>7. CASE reaches /\ applicable # {}
  <2>1. PICK d \in applicable : oldest(d)
    <3>1. {e.gen : e \in applicable} \in SUBSET Nat /\ {e.gen : e \in applicable} # {}
      BY <1>2, <1>7
    <3>2. PICK m \in {e.gen : e \in applicable} : \A h \in {e.gen : e \in applicable} : m <= h
      <4> HIDE DEF applicable
      <4> QED BY <3>1, First
    <3> HIDE DEF applicable
    <3> QED BY <3>2
  <2> DEFINE a == d.gen - 1
  <2>2. /\ wm # 0 /\ d \in man.deltas /\ d.cut > wm /\ d.prev <= wm
        /\ a \in 1..G /\ a # G /\ a \in 1..Len(gens) /\ a < G /\ a + 1 = d.gen
    <3>1. wm # 0 /\ d \in man.deltas /\ d.cut > wm /\ d.prev <= wm
      BY <1>7, <2>1
    <3>2. d.gen \in 2..G
      BY <1>2, <3>1
    <3>3. G <= Len(gens) + 1 /\ G \in Nat /\ Len(gens) \in Nat
      BY <1>2
    <3>4. /\ a \in 1..G /\ a # G /\ a \in 1..Len(gens) /\ a < G /\ a + 1 = d.gen
      BY ONLY <3>2, <3>3
    <3> QED BY ONLY <3>1, <3>4
  <2>3. \A e \in man.deltas : e.gen >= d.gen => e.cut > wm
    <3> SUFFICES ASSUME NEW e \in man.deltas, e.gen > d.gen PROVE e.cut > wm
      <4>1. ASSUME NEW e \in man.deltas, e.gen = d.gen PROVE e.cut > wm
        <5>1. e.cut = d.cut
          BY <1>4, <2>2, <4>1
        <5> QED BY <2>2, <5>1
      <4>2. \A e \in man.deltas : e.gen >= d.gen => e.gen = d.gen \/ e.gen > d.gen
        BY <1>2, <2>2
      <4> QED BY <4>1, <4>2
    <3>1. /\ d.gen \in Nat /\ e.gen \in Nat /\ d.gen >= 2 /\ e.gen <= G /\ d.gen < e.gen
          /\ G <= Len(gens) + 1 /\ G \in Nat /\ Len(gens) \in Nat
      BY <1>2, <2>2
    <3>2. d.gen \in 1..Len(gens) /\ d.gen # G /\ d.gen \in 1..G-1
      BY ONLY <3>1
    <3>3. gens[d.gen].cut \in Nat /\ wm < gens[d.gen].cut
      <4>1. gens[d.gen].cut \in Nat /\ d.cut = gens[d.gen].cut /\ d.cut > wm
        BY <1>2, <1>4, <2>2, <3>2
      <4> QED BY <1>2, <4>1
    <3>4. CASE e.gen = G
      <4>1. gens[d.gen].cut < man.cut
        BY <3>2 DEF Chain, Lists, man
      <4>2. e.cut = man.cut /\ man.cut \in Nat /\ wm \in Nat
        BY <1>2, <1>4, <3>4
      <4> QED BY ONLY <3>3, <4>1, <4>2
    <3>5. CASE e.gen # G
      <4>1. e.gen \in 1..Len(gens) /\ d.gen \in 1..e.gen-1
        BY ONLY <3>1, <3>5
      <4>2. gens[d.gen].cut < gens[e.gen].cut
        BY <4>1 DEF Chain, Row
      <4>3. e.cut = gens[e.gen].cut /\ e.cut \in Nat /\ wm \in Nat
        BY <1>2, <1>4, <3>5
      <4> QED BY ONLY <3>3, <4>2, <4>3
    <3> QED BY <3>4, <3>5
  <2>4. plan.deltas = a+1..G
    <3>1. \A e \in applicable : e.gen \in a+1..G
      BY <1>2, <2>1, <2>2
    <3>2. \A g \in a+1..G : \E e \in applicable : e.gen = g
      <4> SUFFICES ASSUME NEW g \in a+1..G PROVE \E e \in applicable : e.gen = g
        OBVIOUS
      <4>1. g \in 2..G /\ (g = d.gen \/ d.gen < g) /\ g >= d.gen
        BY <1>2, <2>2
      <4>2. PICK e \in man.deltas : e.gen = g
        BY <1>3, <2>2, <4>1
      <4> QED BY <2>3, <4>1, <4>2
    <3>3. plan.deltas = {e.gen : e \in applicable}
      BY <1>1, <1>7
    <3> HIDE DEF a, applicable, reaches
    <3> QED BY <3>1, <3>2, <3>3
  <2>5. gens[a].seq <= anchor
    <3>1. gens[a].cut <= wm
      BY <1>4, <2>2
    <3>2. InStep(wm, anchor)
      BY <2>2 DEF Replica
    <3> HIDE DEF a
    <3> QED BY <2>2, <3>1, <3>2 DEF InStep
  <2>6. ASSUME NEW i \in a+1..G PROVE anchor <= snap[i]
    <3>1. CASE i = G
      <4>1. anchor <= man.seq /\ man.seq <= snap[G]
        BY <2>2 DEF Replica, Chain, Sound, man
      <4>2. snap[G] \in Int
        <5>1. Intact(man, snap)
          BY ObjectsAre DEF Chain, man
        <5>2. G \in 1..G
          BY <1>2
        <5> QED BY <5>1, <5>2 DEF Intact, man
      <4> QED BY <1>2, <3>1, <4>1, <4>2
    <3>2. CASE i # G
      <4>1. i \in 1..Len(gens) /\ i \in 2..G /\ i >= d.gen /\ (i = d.gen \/ d.gen < i)
        <5>1. /\ i \in Nat /\ i <= G /\ i >= d.gen /\ d.gen \in 2..G
              /\ G <= Len(gens) + 1 /\ G \in Nat /\ Len(gens) \in Nat
          BY <1>2, <2>2
        <5> QED BY ONLY <3>2, <5>1
      <4>2. PICK e \in man.deltas : e.gen = i
        BY <1>3, <2>2, <4>1
      <4>3. wm < gens[i].cut
        BY <1>2, <1>4, <2>3, <3>2, <4>1, <4>2
      <4>4. anchor <= gens[i].seq
        BY <2>2, <4>1, <4>3 DEF Replica, InStep
      <4>5. gens[i].seq \in 0..snap[i] /\ snap[i] \in 0..Len(log)
        BY <4>1, SnapsRise
      <4> QED BY <1>2, <4>1, <4>4, <4>5
    <3> QED BY <3>1, <3>2
  <2>7. ~plan.full
    BY <1>1, <1>7
  <2> HIDE DEF a, applicable, reaches
  <2> QED BY <2>2, <2>4, <2>5, <2>6, <2>7
<1> QED BY <1>5, <1>6, <1>7

LEMMA SeedBeginReplica ==
    ASSUME TypeInv, NEW snap \in Snaps, ChainOf(snap), ReplicaInv(snap), SeedBegin
    PROVE  ReplicaInv(snap)'
<1> DEFINE plan  == planFromManifest(manifest, wm)
           gap   == streamHasGap(first, pos)
           fence == fullPredatesReplica(manifest, plan, pos) \/ owed
<1>1. /\ cpc' = "load" /\ manifest.gen # 0 /\ manifest.seq + 1 >= first
      /\ gap \/ wm = 0 \/ deltaEligible(manifest, wm, pos)
      /\ pass' = [man |-> manifest, plan |-> plan, first |-> first, gap |-> gap, fence |-> fence]
      /\ IF fence THEN /\ wm' = 0 /\ owed' = TRUE /\ anchor' = 0
                       /\ pos' = Min({pos, manifest.seq})
                  ELSE UNCHANGED <<wm, owed, anchor, pos>>
      /\ UNCHANGED <<pgVars, chainVars, streamVars, producerVars, replica>>
  BY DEF SeedBegin
<1>2. /\ log' = log /\ gens' = gens /\ manifest' = manifest /\ first' = first /\ replica' = replica
      /\ objects' = objects
  BY <1>1 DEF pgVars, chainVars, streamVars
<1>3. Chain(snap)'
  BY <1>1, ChainKept DEF ReplicaInv
<1>4. /\ pos \in Nat /\ manifest.seq \in Nat /\ first \in Nat /\ wm \in Nat
      /\ Sound(manifest, snap) /\ manifest.seq > 0 /\ (owed => wm = 0)
  <2>1. manifest \in Manifest
    BY DEF TypeInv, TypeOK
  <2>2. last \in Nat
    BY Bounds
  <2> QED BY <1>1, <2>1, <2>2 DEF TypeInv, TypeOK, Manifest, ReplicaInv, Chain, Lists, Replica
<1> HIDE DEF plan, gap, fence
<1>5. PICK a \in 1..manifest.gen :
          /\ plan.deltas = a+1..manifest.gen
          /\ plan.full => a = manifest.base.gen /\ plan.base = a
          /\ ~plan.full =>
                 /\ wm # 0
                 /\ IF a = manifest.gen THEN anchor = manifest.seq
                    ELSE gens[a].seq <= anchor /\ \A i \in a+1..manifest.gen : anchor <= snap[i]
  BY <1>1, PlanIs DEF ReplicaInv, plan
<1>6. CASE fence
  <2>1. wm' = 0 /\ pos' <= manifest.seq
    BY <1>1, <1>4, <1>6, MinPair
  <2>2. plan.full
    BY <1>4, <1>5, <1>6 DEF fence, fullPredatesReplica
  <2>3. Replica'
    BY <2>1 DEF Replica
  <2>4. Loading(snap)'
    <3>1. pass'.man = manifest /\ pass'.plan = plan
      BY <1>1
    <3>2. Sound(manifest, snap)'
      BY <1>2, <1>4 DEF Sound, NextGen, InStep
    <3> QED BY <1>2, <1>5, <2>1, <2>2, <3>1, <3>2 DEF Loading
  <2> QED BY <1>3, <2>3, <2>4 DEF ReplicaInv
<1>7. CASE ~fence
  <2>1. UNCHANGED <<wm, owed, anchor, pos>>
    BY <1>1, <1>7
  <2>2. Replica'
    <3>1. \A x : TableAt(x)' = TableAt(x)
      BY <1>2 DEF TableAt, Live, LastOf
    <3> QED BY <1>2, <2>1, <3>1 DEF ReplicaInv, Replica, Rows, InStep
  <2>3. gap => pos = 0 \/ pos + 1 < first
    BY <1>4 DEF gap, streamHasGap
  <2>4. pos <= manifest.seq
    <3>1. CASE plan.full
      BY <1>4, <1>7, <3>1 DEF fence, fullPredatesReplica
    <3>2. CASE gap
      BY <1>1, <1>4, <2>3, <3>2
    <3>3. CASE deltaEligible(manifest, wm, pos)
      BY <1>4, <3>3 DEF deltaEligible
    <3> QED BY <1>1, <1>5, <3>1, <3>2, <3>3
  <2>5. Loading(snap)'
    <3>1. pass'.man = manifest /\ pass'.plan = plan /\ pass'.gap = gap
      BY <1>1
    <3>2. Sound(manifest, snap)'
      BY <1>2, <1>4 DEF Sound, NextGen, InStep
    <3> QED BY <1>2, <1>5, <2>1, <2>3, <2>4, <3>1, <3>2 DEF Loading
  <2> QED BY <1>3, <2>2, <2>5 DEF ReplicaInv
<1> QED BY <1>6, <1>7

\* With nothing out of order a delta starts from the sequence its predecessor
\* recorded.
LEMMA MarkIsSeq ==
    ASSUME Disorder = {}, NEW snap, NEW g \in Nat \ {0}
    PROVE  MarkOf(snap, g) = gens[g].seq
BY DEF MarkOf, Mark

\* What is being loaded.
Loader(snap, a) ==
    /\ pass.man \in Manifest /\ pass.man.gen <= MaxGens /\ Intact(pass.man, snap)
    /\ Sound(pass.man, snap) /\ pos <= pass.man.seq
    /\ pass.man = manifest \/ pass.man.cut < manifest.cut
    /\ a \in 1..pass.man.gen /\ pass.plan.deltas = a+1..pass.man.gen
    /\ pass.plan.full => a = pass.man.base.gen /\ pass.plan.base = a
    /\ ~pass.plan.full =>
           /\ wm # 0 /\ (pass.gap => pos = 0 \/ pos + 1 < first)
           /\ IF a = pass.man.gen THEN anchor = pass.man.seq
              ELSE /\ gens[a].seq <= anchor
                   /\ \A i \in a+1..pass.man.gen : anchor <= snap[i]

LEMMA LoaderIs ==
    ASSUME TypeInv, NEW snap \in Snaps, ChainOf(snap), ReplicaInv(snap), cpc = "load"
    PROVE  \E a \in 1..pass.man.gen : Loader(snap, a)
<1>1. pass.man \in Manifest /\ Sound(pass.man, snap)
  BY DEF TypeInv, TypeOK, ReplicaInv, Loading
<1>2. Intact(pass.man, snap)
  BY <1>1, ObjectsAre DEF ReplicaInv
<1>3. pass.man.gen <= MaxGens
  <2>1. pass.man.gen = NextGen => NextGen \in Gens
    BY <1>1 DEF Sound, ReplicaInv, Chain, Unrecorded
  <2>2. Len(gens) \in 0..MaxGens /\ MaxGens \in Nat /\ pass.man.gen \in 1..NextGen
    BY <1>1, Sizes, GenerationsAssumption DEF Sound
  <2> QED BY <2>1, <2>2 DEF NextGen, Gens
<1> QED BY <1>1, <1>2, <1>3 DEF ReplicaInv, Loading, Loader

LEMMA FullLoads ==
    ASSUME TypeInv, Positive, NEW snap, NEW a, Loader(snap, a), pass.plan.full,
           NEW n \in 0..MaxGens, Found(pass.plan, n)
    PROVE  Loads(pass.man, snap, pass.plan, replica, a, n, snap[a], 0)
<1> DEFINE man == pass.man
<1>1. /\ man \in Manifest /\ man.gen <= MaxGens /\ Intact(man, snap) /\ a \in 1..man.gen
      /\ pass.plan.deltas = a+1..man.gen /\ a = man.base.gen /\ pass.plan.base = a
  BY DEF Loader
<1>2. /\ Len(log) \in Nat /\ man.gen \in Nat /\ a \in Nat /\ a >= 1 /\ 0 \in 0..MaxGens /\ 0 \in 0..Len(log)
  BY <1>1, Sizes, GenerationsAssumption DEF Manifest
<1>3. /\ \A g \in 1..man.gen : snap[g] \in 0..Len(log) /\ \A h \in 1..g : snap[h] <= snap[g]
      /\ \A g \in 2..man.gen : MarkOf(snap, g-1) \in 0..snap[g-1]
      /\ Object(a, "full") \in {Gone, LiveAt(snap[a])}
  BY <1>1 DEF Intact
<1>4. snap[a] \in 0..Len(log)
  BY <1>1, <1>3
<1>5. a < man.gen => MarkOf(snap, a) <= snap[a]
  <2> SUFFICES ASSUME a < man.gen PROVE MarkOf(snap, a) <= snap[a]
    OBVIOUS
  <2> DEFINE g == a + 1
  <2>1. g \in 2..man.gen /\ g - 1 = a
    BY <1>1, <1>2
  <2> HIDE DEF g
  <2>2. MarkOf(snap, g-1) \in 0..snap[g-1]
    BY <1>3, <2>1
  <2> QED BY <1>4, <2>1, <2>2
<1>6. \A g \in a+1..man.gen : snap[a] <= snap[g]
  <2>1. \A g \in a+1..man.gen : g \in 1..man.gen /\ a \in 1..g
    BY <1>1, <1>2
  <2> QED BY <1>3, <2>1
<1>7. Loaded(pass.plan, replica)[0] = TableAt(snap[a])
  <2>1. Loaded(pass.plan, replica)[0] = Wiped(Object(a, "full"))
    BY <1>1, <1>2, LoadedAt
  <2>2. Object(a, "full") = LiveAt(snap[a])
    BY <1>1, <1>3 DEF Found
  <2> QED BY <1>4, <2>1, <2>2, WipedIs
<1>8. \A k \in Keys : \E x \in snap[a]..Len(log) :
          Loaded(pass.plan, replica)[0][k] = TableAt(x)[k] /\ 0 <= x
  <2>1. snap[a] \in snap[a]..Len(log) /\ 0 <= snap[a]
    BY <1>2, <1>4
  <2> QED BY <1>7, <2>1
<1>9. \A g \in a+1..man.gen : g <= n =>
           \A i \in Object(g, "delta") : \A j \in i+1..0 : log[j].k # log[i].k
  <2>1. \A g \in a+1..man.gen : Object(g, "delta") \in SUBSET (0..Len(log))
    <3>1. \A g \in a+1..man.gen : g \in 0..MaxGens
      BY <1>1, <1>2, GenerationsAssumption
    <3> QED BY <3>1, ObjectType DEF Kinds
  <2>2. \A i \in 0..Len(log) : i+1..0 = {}
    BY <1>2
  <2> QED BY <2>1, <2>2
<1> QED BY <1>1, <1>2, <1>4, <1>5, <1>6, <1>8, <1>9 DEF Loads

\* On top of the replica's rows; and of those at its position, if nothing it takes
\* is a row of which the client has followed a later change.
LEMMA DeltaLoads ==
    ASSUME Disorder = {}, TypeInv, Positive, NEW snap, NEW a, Loader(snap, a), ~pass.plan.full, Rows,
           NEW n \in 0..MaxGens, Found(pass.plan, n),
           NEW p \in {0, pos}, p # 0 => first <= pos + 1 /\ ~Overtaken(n, {})
    PROVE  Loads(pass.man, snap, pass.plan, replica, a, n, anchor, p)
<1> DEFINE man == pass.man
<1>1. /\ man \in Manifest /\ man.gen <= MaxGens /\ Intact(man, snap) /\ a \in 1..man.gen
      /\ pass.plan.deltas = a+1..man.gen
      /\ IF a = man.gen THEN anchor = man.seq
         ELSE /\ gens[a].seq <= anchor
              /\ \A i \in a+1..man.gen : anchor <= snap[i]
  BY DEF Loader
<1>2. /\ Len(log) \in Nat /\ man.gen \in Nat /\ a \in Nat /\ a # 0 /\ 0 \in 0..MaxGens
      /\ anchor \in 0..Len(log) /\ pos \in 0..Len(log) /\ p \in 0..Len(log)
  <2>1. last \in 0..Len(log) /\ anchor \in 0..last /\ pos \in 0..last /\ Len(log) \in Nat
    BY Bounds
  <2> QED BY <1>1, <2>1, GenerationsAssumption DEF Manifest
<1>3. a < man.gen => MarkOf(snap, a) <= anchor
  BY <1>1, <1>2, MarkIsSeq
<1>4. \A g \in a+1..man.gen : anchor <= snap[g]
  BY <1>1, <1>2
<1>5. Loaded(pass.plan, replica)[0] = replica
  BY <1>2, LoadedAt
<1>6. \A k \in Keys : \E x \in anchor..Len(log) :
          Loaded(pass.plan, replica)[0][k] = TableAt(x)[k] /\ p <= x
  <2> SUFFICES ASSUME NEW k \in Keys
               PROVE  \E x \in anchor..Len(log) : replica[k] = TableAt(x)[k] /\ p <= x
    BY <1>5
  <2>1. PICK x \in anchor..Len(log) : replica[k] = TableAt(x)[k] /\ (first <= pos + 1 => pos <= x)
    BY DEF Rows
  <2>2. p <= x
    BY <1>2, <2>1
  <2> QED BY <2>1, <2>2
<1>7. \A g \in a+1..man.gen : g <= n =>
           \A i \in Object(g, "delta") : \A j \in i+1..p : log[j].k # log[i].k
  <2> SUFFICES ASSUME NEW g \in a+1..man.gen, g <= n, NEW i \in Object(g, "delta"), NEW j \in i+1..p
               PROVE  log[j].k # log[i].k
    OBVIOUS
  <2>1. g \in 2..man.gen /\ g \in 1..n /\ g \in pass.plan.deltas
    BY <1>1, <1>2
  <2>2. Object(g, "delta") # Gone
    BY <2>1 DEF Found
  <2>3. i \in 1..snap[g] /\ snap[g] \in Int
    <3>1. Follows(Object(g, "delta"), MarkOf(snap, g-1), snap[g])
      BY <1>1, <2>1, <2>2 DEF Intact
    <3>2. snap[g] \in 0..Len(log)
      <4>1. g \in 1..man.gen
        BY <1>2
      <4> QED BY <1>1, <4>1 DEF Intact
    <3> QED BY <3>1, <3>2 DEF Follows
  <2>4. p = pos /\ p # 0
    BY <1>2, <2>3
  <2>5. i \in Rest(g)
    BY <2>1, <2>3 DEF Rest, Gone
  <2>6. i \in {} \cup UNION {Rest(h) : h \in 1..n}
    BY <2>1, <2>5
  <2> QED BY <2>4, <2>6 DEF Overtaken
<1> QED BY <1>1, <1>2, <1>3, <1>4, <1>6, <1>7 DEF Loads

LEMMA SeedCommitReplica ==
    ASSUME Disorder = {}, TypeInv, NEW snap \in Snaps, ChainOf(snap), ReplicaInv(snap),
           NEW moved \in BOOLEAN, SeedCommit(moved)
    PROVE  ReplicaInv(snap)'
<1> DEFINE man == pass.man
           L   == Loaded(pass.plan, replica)
<1>1. /\ cpc = "load" /\ cpc' = "idle" /\ Found(pass.plan, MaxGens) /\ replica' = L[MaxGens]
      /\ wm' = man.cut /\ anchor' = man.seq /\ owed' = FALSE
      /\ pos' = IF ~moved THEN pos
                ELSE IF pass.gap THEN streamResume(pos, pass.first, man.seq)
                ELSE streamSplice(pos, pass.first, man.seq)
      /\ UNCHANGED <<pgVars, chainVars, streamVars, producerVars>>
  BY DEF SeedCommit
<1>2. /\ log' = log /\ gens' = gens /\ manifest' = manifest /\ first' = first
  BY <1>1 DEF pgVars, chainVars, streamVars
<1>3. Chain(snap)'
  BY <1>1, ChainKept DEF ReplicaInv
<1>4. Loading(snap)'
  BY <1>1 DEF Loading
<1>5. PICK a \in 1..man.gen : Loader(snap, a)
  BY <1>1, LoaderIs
<1>6. /\ man \in Manifest /\ man.gen <= MaxGens /\ Intact(man, snap)
      /\ Sound(man, snap) /\ pos <= man.seq
      /\ man = manifest \/ man.cut < manifest.cut
      /\ a \in 1..man.gen
  BY <1>5 DEF Loader
<1>7. /\ Len(log) \in Nat /\ MaxGens \in Nat /\ man.gen \in Nat /\ man.cut \in Nat /\ man.seq \in 0..last
      /\ manifest.cut \in Nat /\ MaxGens \in 0..MaxGens /\ pos \in Nat /\ last \in 0..Len(log)
      /\ snap[man.gen] \in 0..Len(log) /\ man.seq <= snap[man.gen] /\ manifest.seq \in Nat
      /\ pass.first \in Nat
  <2>1. last \in 0..Len(log) /\ pos \in 0..last /\ Len(log) \in Nat /\ manifest \in Manifest /\ Reached(man)
        /\ pass.first \in Nat
    BY Bounds DEF TypeInv, TypeOK
  <2>2. man.gen \in 1..man.gen
    BY <1>6 DEF Manifest
  <2>3. snap[man.gen] \in 0..Len(log)
    BY <1>6, <2>2 DEF Intact
  <2> QED BY <1>6, <2>1, <2>3, GenerationsAssumption DEF Manifest, Reached, Sound
<1>8. ASSUME NEW k \in Keys
      PROVE  \E x \in man.seq..Len(log) : L[MaxGens][k] = TableAt(x)[k]
  <2>1. PICK lo \in Nat : /\ Loads(man, snap, pass.plan, replica, a, MaxGens, lo, 0)
                          /\ a = man.gen => lo >= man.seq
    <3>1. CASE pass.plan.full
      <4>1. Loads(man, snap, pass.plan, replica, a, MaxGens, snap[a], 0)
        BY <1>1, <1>5, <1>7, <3>1, FullLoads DEF ChainOf
      <4>2. snap[a] \in Nat
        BY <1>6 DEF Intact
      <4> QED BY <1>7, <4>1, <4>2
    <3>2. CASE ~pass.plan.full
      <4>1. Rows
        BY <1>5, <3>2 DEF Loader, ReplicaInv, Replica
      <4>2. Loads(man, snap, pass.plan, replica, a, MaxGens, anchor, 0)
        BY <1>1, <1>5, <1>7, <3>2, <4>1, DeltaLoads DEF ChainOf
      <4>3. anchor \in Nat /\ (a = man.gen => anchor = man.seq)
        BY <1>5, <1>7, <3>2 DEF Loader, TypeInv, TypeOK
      <4> QED BY <1>7, <4>2, <4>3
    <3> QED BY <3>1, <3>2
  <2>2. PICK x \in lo..Len(log) :
            /\ L[MaxGens][k] = TableAt(x)[k] /\ 0 <= x
            /\ MaxGens > a /\ a < man.gen => snap[IF MaxGens > man.gen THEN man.gen ELSE MaxGens] <= x
    BY <2>1, LoadedRows
  <2> HIDE DEF L
  <2>3. man.seq <= x
    <3>1. CASE a = man.gen
      BY <1>7, <2>1, <2>2, <3>1
    <3>2. CASE a < man.gen
      <4>1. (IF MaxGens > man.gen THEN man.gen ELSE MaxGens) = man.gen /\ MaxGens > a
        BY <1>6, <1>7, <3>2
      <4>2. snap[man.gen] <= x
        BY <2>2, <3>2, <4>1
      <4> QED BY <1>7, <2>1, <2>2, <4>2
    <3> QED BY <1>6, <1>7, <3>1, <3>2
  <2> QED BY <1>7, <2>1, <2>2, <2>3
<1>9. pos' <= man.seq
  <2>1. pass.gap => streamResume(pos, pass.first, man.seq) <= man.seq
    <3>1. pos \in Int /\ man.seq \in Int /\ pos <= man.seq
      BY <1>6, <1>7
    <3>2. Max({pos, man.seq}) = man.seq
      BY <3>1, MaxPair
    <3> QED BY ONLY <3>1, <3>2 DEF streamResume
  <2>2. streamSplice(pos, pass.first, man.seq) <= man.seq
    BY <1>6, <1>7 DEF streamSplice
  <2> QED BY <1>1, <1>6, <2>1, <2>2
<1>10. pos' \in Nat
  <2>1. last \in Nat /\ pos \in 0..last
    BY <1>7 DEF TypeInv, TypeOK
  <2>2. /\ streamResume(pos, pass.first, man.seq) \in 0..last
        /\ streamSplice(pos, pass.first, man.seq) \in 0..last
    BY <1>7, <2>1, PositionMoves
  <2>3. pos' \in 0..last
    BY <1>1, <2>1, <2>2
  <2> QED BY <2>1, <2>3
<1>11. Rows'
  <2> SUFFICES ASSUME NEW k \in Keys
               PROVE  \E x \in man.seq..Len(log) : replica'[k] = TableAt(x)[k] /\ pos' <= x
    <3>1. \A x : TableAt(x)' = TableAt(x)
      BY <1>2 DEF TableAt, Live, LastOf
    <3> QED BY <1>1, <1>2, <3>1 DEF Rows
  <2>1. PICK x \in man.seq..Len(log) : L[MaxGens][k] = TableAt(x)[k]
    BY <1>8
  <2> HIDE DEF L
  <2> QED BY <1>1, <1>7, <1>9, <1>10, <2>1
<1>12. InStep(wm, anchor)'
  BY <1>1, <1>2, <1>6 DEF Sound, InStep
<1>13. /\ wm' <= manifest.cut /\ anchor' <= manifest.seq
       /\ wm' = manifest.cut => anchor' = manifest.seq
  BY <1>1, <1>6, <1>7 DEF Sound
<1>14. Replica'
  BY <1>1, <1>2, <1>11, <1>12, <1>13 DEF Replica
<1> QED BY <1>3, <1>4, <1>14 DEF ReplicaInv

\* A load that ends before its last step leaves what it owes: a full, all of it;
\* deltas, nothing, for what they have done to the rows they leave can be told.
LEMMA SeedEndsReplica ==
    ASSUME TypeInv, NEW snap, ReplicaInv(snap), cpc' = "idle",
           UNCHANGED <<pgVars, chainVars, streamVars, producerVars, pos>>,
           (pass.plan.full /\ wm' = 0) \/ UNCHANGED <<wm, owed, anchor>>,
           wm' # 0 => \A k \in Keys : \E x \in anchor..Len(log) :
                          replica'[k] = TableAt(x)[k] /\ (first <= pos + 1 => pos <= x)
    PROVE  ReplicaInv(snap)'
<1>1. Chain(snap)' /\ Loading(snap)'
  BY ChainKept DEF ReplicaInv, Loading
<1>2. /\ log' = log /\ gens' = gens /\ manifest' = manifest /\ first' = first /\ pos' = pos
  BY DEF pgVars, chainVars, streamVars
<1>3. Replica'
  <2>1. CASE wm' = 0
    BY <2>1 DEF Replica
  <2>2. CASE wm' # 0
    <3>1. UNCHANGED <<wm, owed, anchor>>
      BY <2>2
    <3>2. \A x : TableAt(x)' = TableAt(x)
      BY <1>2 DEF TableAt, Live, LastOf
    <3>3. Rows'
      BY <1>2, <2>2, <3>1, <3>2 DEF Rows
    <3> QED BY <1>2, <3>1, <3>3 DEF ReplicaInv, Replica, InStep
  <2> QED BY <2>1, <2>2
<1> QED BY <1>1, <1>3 DEF ReplicaInv

LEMMA SeedStopsReplica ==
    ASSUME Disorder = {}, TypeInv, NEW snap \in Snaps, ChainOf(snap), ReplicaInv(snap),
           NEW n \in 0..MaxGens, NEW chunks \in SUBSET (1..Len(log)), SeedStops(n, chunks)
    PROVE  ReplicaInv(snap)'
<1> DEFINE man == pass.man
           L   == Loaded(pass.plan, replica)
<1>1. /\ cpc = "load" /\ cpc' = "idle" /\ Found(pass.plan, n) /\ chunks \subseteq Rest(n+1)
      /\ \/ pass.plan.full \/ pass.gap \/ \A g \in pass.plan.deltas : g <= n
         \/ ~Overtaken(n, chunks)
      /\ replica' = Merge(L[n], chunks) /\ OweReplacement
      /\ UNCHANGED <<pgVars, chainVars, streamVars, producerVars, pos>>
  BY DEF SeedStops
<1>2. CASE pass.plan.full
  <2>1. wm' = 0
    BY <1>1, <1>2 DEF OweReplacement
  <2> QED BY <1>1, <1>2, <2>1, SeedEndsReplica
<1>3. CASE ~pass.plan.full
  <2>1. UNCHANGED <<wm, owed, anchor>>
    BY <1>1, <1>3 DEF OweReplacement
  <2>2. PICK a \in 1..man.gen : Loader(snap, a)
    BY <1>1, LoaderIs
  <2>3. /\ pos <= man.seq /\ man.gen <= MaxGens /\ man \in Manifest /\ Intact(man, snap) /\ Sound(man, snap)
        /\ pass.plan.deltas = a+1..man.gen
        /\ pass.gap => pos = 0 \/ pos + 1 < first
        /\ a = man.gen => anchor = man.seq
    BY <1>3, <2>2 DEF Loader
  <2>4. Rows
    BY <1>3, <2>2 DEF Loader, ReplicaInv, Replica
  <2>5. /\ Len(log) \in Nat /\ anchor \in 0..Len(log) /\ pos \in 0..Len(log) /\ first \in Nat
        /\ man.gen \in Nat /\ man.seq \in Nat /\ n \in Nat
    <3>1. last \in 0..Len(log) /\ anchor \in 0..last /\ pos \in 0..last /\ Len(log) \in Nat /\ first \in 1..last+1
      BY Bounds
    <3>2. anchor \in 0..Len(log) /\ pos \in 0..Len(log) /\ first \in Nat
      BY ONLY <3>1
    <3>3. man.gen \in Nat /\ man.seq \in Nat
      BY ONLY <2>3 DEF Manifest
    <3>4. n \in Nat
      BY GenerationsAssumption
    <3> QED BY <3>1, <3>2, <3>3, <3>4
  <2>6. chunks # {} => n + 1 \in pass.plan.deltas /\ chunks \in SUBSET (Object(n+1, "delta") \ Gone)
    BY <1>1 DEF Rest
  <2>7. ASSUME NEW p \in {0, pos}, p # 0 => first <= pos + 1 /\ ~Overtaken(n, chunks), NEW k \in Keys
        PROVE  \E x \in anchor..Len(log) : replica'[k] = TableAt(x)[k] /\ p <= x
    <3>1. p # 0 => ~Overtaken(n, {})
      BY <2>7 DEF Overtaken
    <3>2. Loads(man, snap, pass.plan, replica, a, n, anchor, p)
      BY <1>1, <1>3, <2>2, <2>4, <2>7, <3>1, DeltaLoads DEF ChainOf
    <3>3. \A i \in chunks : \A j \in i+1..p : log[j].k # log[i].k
      <4>1. p = 0 => \A i \in chunks : i+1..p = {}
        OBVIOUS
      <4>2. p # 0 => p = pos /\ ~Overtaken(n, chunks)
        BY <2>7
      <4> QED BY <4>1, <4>2 DEF Overtaken
    <3>4. Part(pass.plan, n, chunks, p)
      BY <2>6, <3>3 DEF Part
    <3>5. \E x \in anchor..Len(log) : Merge(L[n], chunks)[k] = TableAt(x)[k] /\ p <= x
      BY ONLY TypeInv, <3>2, <3>4, StoppedRows
    <3> QED BY <1>1, <3>5
  <2>8. ASSUME NEW k \in Keys
        PROVE  \E x \in anchor..Len(log) : replica'[k] = TableAt(x)[k] /\ (first <= pos + 1 => pos <= x)
    <3>1. CASE pos = 0 \/ ~(first <= pos + 1)
      <4>1. PICK x \in anchor..Len(log) : replica'[k] = TableAt(x)[k] /\ 0 <= x
        BY <2>7
      <4> QED BY <2>5, <3>1, <4>1
    <3>2. CASE first <= pos + 1 /\ ~Overtaken(n, chunks)
      <4>1. PICK x \in anchor..Len(log) : replica'[k] = TableAt(x)[k] /\ pos <= x
        BY <2>7, <3>2
      <4> QED BY <4>1
    <3>3. CASE \A g \in pass.plan.deltas : g <= n
      <4>1. Loads(man, snap, pass.plan, replica, a, n, anchor, 0)
        BY <1>1, <1>3, <2>2, <2>4, DeltaLoads DEF ChainOf
      <4>2. PICK x \in anchor..Len(log) :
                /\ L[n][k] = TableAt(x)[k] /\ 0 <= x
                /\ n > a /\ a < man.gen => snap[IF n > man.gen THEN man.gen ELSE n] <= x
        BY <4>1, LoadedRows
      <4>3. chunks = {}
        <5>1. n + 1 \notin pass.plan.deltas
          BY <2>5, <3>3
        <5> QED BY <2>6, <5>1
      <4>4. replica'[k] = L[n][k]
        <5> HIDE DEF L
        <5> QED BY <1>1, <4>3 DEF Merge
      <4> HIDE DEF L
      <4>5. pos <= x
        <5>1. CASE a = man.gen
          BY <2>3, <2>5, <4>2, <5>1
        <5>2. CASE a < man.gen
          <6>1. man.gen \in pass.plan.deltas
            BY <2>3, <2>5, <5>2
          <6>2. n >= man.gen /\ (IF n > man.gen THEN man.gen ELSE n) = man.gen /\ n > a
            BY <2>5, <3>3, <5>2, <6>1
          <6>3. snap[man.gen] <= x
            BY <4>2, <5>2, <6>2
          <6>4. man.seq <= snap[man.gen] /\ snap[man.gen] \in 0..Len(log)
            <7>1. man.gen \in 1..man.gen
              BY <2>5
            <7> QED BY <2>3, <7>1 DEF Sound, Intact
          <6> QED BY <2>3, <2>5, <4>2, <6>3, <6>4
        <5> QED BY <2>5, <5>1, <5>2
      <4> QED BY <4>2, <4>4, <4>5
    <3> QED BY <1>1, <1>3, <2>3, <2>5, <3>1, <3>2, <3>3
  <2> QED BY <1>1, <2>1, <2>8, SeedEndsReplica
<1> QED BY <1>2, <1>3

LEMMA SeedFailsReplica ==
    ASSUME TypeInv, NEW snap, ReplicaInv(snap),
           SeedAborts \/ \E chunks \in SUBSET (1..Len(log)) : SeedStopsInFull(chunks)
    PROVE  ReplicaInv(snap)'
<1>1. CASE SeedAborts
  <2>1. /\ cpc' = "idle" /\ replica' = replica /\ UNCHANGED <<wm, owed, anchor>>
        /\ UNCHANGED <<pgVars, chainVars, streamVars, producerVars, pos>>
    BY <1>1 DEF SeedAborts, stored
  <2>2. wm' # 0 => \A k \in Keys : \E x \in anchor..Len(log) :
            replica'[k] = TableAt(x)[k] /\ (first <= pos + 1 => pos <= x)
    BY <2>1 DEF ReplicaInv, Replica, Rows
  <2> QED BY <2>1, <2>2, SeedEndsReplica
<1>2. ASSUME NEW chunks \in SUBSET (1..Len(log)), SeedStopsInFull(chunks) PROVE ReplicaInv(snap)'
  <2>1. /\ cpc' = "idle" /\ pass.plan.full /\ wm' = 0
        /\ UNCHANGED <<pgVars, chainVars, streamVars, producerVars, pos>>
    BY <1>2 DEF SeedStopsInFull, OweReplacement
  <2> QED BY <2>1, SeedEndsReplica
<1> QED BY <1>1, <1>2

-----------------------------------------------------------------------------
(* The others' steps.                                                      *)

\* Whatever is committed, published or dropped from the stream, and while a
\* build has made nothing yet.
LEMMA OthersKeep ==
    ASSUME TypeInv, TypeInv', NEW snap \in Snaps, ChainOf(snap), ReplicaInv(snap),
           Longer, last' >= last, first' >= first, now' >= now,
           UNCHANGED <<chainVars, clientVars>>,
           ppc' # "idle" => manifest.cut < now' /\ manifest.seq <= build'.seq /\ build'.seq > 0,
           ppc' = "built" => ppc = "built" /\ UNCHANGED build
    PROVE  ReplicaInv(snap)'
<1>1. /\ gens' = gens /\ manifest' = manifest /\ objects' = objects
      /\ replica' = replica /\ wm' = wm /\ pos' = pos /\ anchor' = anchor /\ owed' = owed
      /\ cpc' = cpc /\ pass' = pass
  BY DEF chainVars, clientVars, stored
<1>2. /\ Len(gens) \in Nat /\ Len(log) \in Nat /\ Len(log') \in Nat /\ Len(log') >= Len(log)
      /\ anchor \in 0..Len(log) /\ pos \in Nat /\ first \in Nat /\ first' \in Nat
      /\ last \in Nat /\ last' \in Nat
  <2>1. last \in 0..Len(log) /\ anchor \in 0..last /\ pos \in 0..last /\ first \in 1..last+1
    BY DEF TypeInv, TypeOK
  <2>2. (last \in 0..Len(log) /\ first \in 1..last+1)'
    BY DEF TypeInv, TypeOK
  <2>3. Len(log) \in Nat /\ Len(gens) \in Nat
    BY Sizes, GenerationsAssumption
  <2>4. Len(log') \in Nat
    <3>1. log' \in Seq(Commit)
      BY DEF TypeInv, TypeOK
    <3> QED BY <3>1
  <2> QED BY <2>1, <2>2, <2>3, <2>4 DEF Longer
<1>3. NextGen' = NextGen /\ Len(gens') = Len(gens)
  BY <1>1 DEF NextGen
<1>4. \A g : MarkOf(snap, g)' = MarkOf(snap, g)
  BY <1>1 DEF MarkOf
<1>5. Row'
  BY <1>1, <1>3 DEF ReplicaInv, Chain, Row
<1>6. \A man : /\ Sound(man, snap) => Sound(man, snap)'
               /\ Lists(man) => Lists(man)'
  BY <1>1, <1>3 DEF Sound, Lists, InStep
<1>7. Unrecorded(snap)'
  <2> SUFFICES ASSUME manifest.gen = NextGen
               PROVE  /\ NextGen \in Gens
                      /\ Len(gens) > 0 => snap[Len(gens)] <= snap[NextGen]
                      /\ ppc' = "built" => build'.full
                      /\ manifest.base.gen = NextGen => objects[<<NextGen, "full">>] = LiveAt(snap[NextGen])'
                      /\ NextGen > 1 =>
                             Follows(objects[<<NextGen, "delta">>], MarkOf(snap, Len(gens)), snap[NextGen])'
    BY <1>1, <1>3, <1>4 DEF Unrecorded
  <2>1. /\ NextGen \in Gens
        /\ Len(gens) > 0 => snap[Len(gens)] <= snap[NextGen]
        /\ ppc = "built" => build.full
        /\ manifest.base.gen = NextGen => objects[<<NextGen, "full">>] = LiveAt(snap[NextGen])
        /\ NextGen > 1 =>
               Follows(objects[<<NextGen, "delta">>], MarkOf(snap, Len(gens)), snap[NextGen])
    BY DEF ReplicaInv, Chain, Unrecorded
  <2>2. snap[NextGen] \in 0..Len(log)
    BY <2>1 DEF Snaps
  <2>3. LiveAt(snap[NextGen])' = LiveAt(snap[NextGen])
    <3>1. \A n \in 0..Len(log) : LiveAt(n)' = LiveAt(n)
      BY LiveAtKept
    <3> QED BY <1>3, <2>2, <3>1
  <2>4. NextGen > 1 => Follows(objects[<<NextGen, "delta">>], MarkOf(snap, Len(gens)), snap[NextGen])'
    <3>1. ASSUME NEW n \in 0..Len(log), NEW m \in 0..n, NEW c, Follows(c, m, n)
          PROVE  Follows(c, m, n)'
      BY <3>1, FollowsKept
    <3>2. NextGen > 1 => MarkOf(snap, Len(gens)) \in 0..snap[NextGen]
      <4>1. NextGen > 1 => Len(gens) > 0 /\ Len(gens) \in 1..Len(gens) /\ Len(gens) \in 0..Len(gens)
        BY <1>2 DEF NextGen
      <4>2. NextGen > 1 => MarkOf(snap, Len(gens)) \in 0..snap[Len(gens)] /\ snap[Len(gens)] \in 0..Len(log)
        BY <4>1, SnapsRise
      <4> QED BY <2>1, <2>2, <4>1, <4>2
    <3> QED BY <1>1, <1>3, <1>4, <2>1, <2>2, <3>1, <3>2
  <2> QED BY <2>1, <2>3, <2>4
<1>8. Chain(snap)'
  BY <1>1, <1>2, <1>3, <1>5, <1>6, <1>7 DEF ReplicaInv, Chain
<1>9. Replica'
  <2>1. Rows => Rows'
    <3>1. ASSUME NEW x \in 0..Len(log), NEW k \in Keys PROVE TableAt(x)'[k] = TableAt(x)[k]
      <4>1. LastOf(k, x)' = LastOf(k, x) /\ LastOf(k, x) \in 0..Len(log)
        <5>1. LastOf(k, x) \in 0..x
          BY LastOfIs
        <5> QED BY <1>2, <5>1, LongerKeeps
      <4>2. Live(LastOf(k, x))' = Live(LastOf(k, x))
        BY <4>1, LongerKeeps
      <4> QED BY <4>1, <4>2 DEF TableAt
    <3> SUFFICES ASSUME Rows, NEW k \in Keys
                 PROVE  \E x \in anchor..Len(log') : replica[k] = TableAt(x)'[k] /\ (first' <= pos + 1 => pos <= x)
      BY <1>1 DEF Rows
    <3>2. PICK x \in anchor..Len(log) : replica[k] = TableAt(x)[k] /\ (first <= pos + 1 => pos <= x)
      BY DEF Rows
    <3>3. x \in 0..Len(log) /\ x \in anchor..Len(log')
      BY <1>2
    <3>4. first' <= pos + 1 => pos <= x
      BY <1>2, <3>2
    <3> QED BY <3>1, <3>2, <3>3, <3>4
  <2> QED BY <1>1, <1>3, <2>1 DEF ReplicaInv, Replica, InStep
<1>10. Loading(snap)'
  <2> SUFFICES ASSUME cpc = "load" PROVE Loading(snap)'
    BY <1>1 DEF Loading
  <2>1. Sound(pass.man, snap)'
    BY <1>1, <1>6 DEF ReplicaInv, Loading
  <2>2. pos + 1 < first => pos + 1 < first'
    BY <1>2
  <2> QED BY <1>1, <2>1, <2>2 DEF ReplicaInv, Loading
<1> QED BY <1>8, <1>9, <1>10 DEF ReplicaInv

LEMMA OthersReplica ==
    ASSUME TypeInv, TypeInv', NEW snap \in Snaps, ChainOf(snap), ReplicaInv(snap),
           \/ Postgres \/ Sweeper \/ Publish \/ Expire \/ BuildBegin \/ ProducerCrash
           \/ UNCHANGED vars
    PROVE  ReplicaInv(snap)'
<1>1. /\ now \in Nat /\ last \in Nat /\ first \in Nat /\ Len(log) \in Nat /\ manifest.cut \in Nat
      /\ manifest.cut <= now /\ manifest.seq <= last
      /\ last > 0 /\ (ppc # "idle" => manifest.cut < now /\ manifest.seq <= build.seq /\ build.seq > 0)
  <2>1. now \in Nat /\ last \in Nat /\ first \in Nat /\ Len(log) \in Nat /\ manifest \in Manifest
    BY Bounds
  <2> QED BY <2>1 DEF TypeInv, Reached, ReplicaInv, Chain, Manifest
<1>2. log' = log => Longer
  BY <1>1 DEF Longer
<1>3. CASE /\ Longer /\ last' >= last /\ first' >= first /\ now' >= now /\ now' \in Nat
           /\ UNCHANGED <<chainVars, clientVars, producerVars>>
  <2>1. /\ UNCHANGED <<chainVars, clientVars>> /\ ppc' = ppc /\ build' = build
    BY <1>3 DEF producerVars
  <2>2. ppc' # "idle" => manifest.cut < now' /\ manifest.seq <= build'.seq /\ build'.seq > 0
    BY <1>1, <1>3, <2>1
  <2> QED BY <1>3, <2>1, <2>2, OthersKeep
<1>4. CASE Postgres
  <2>1. last' = last /\ first' = first /\ now' \in {now, now + 1} /\ Longer
        /\ UNCHANGED <<chainVars, clientVars, producerVars>>
    <3>1. CASE Begin
      BY <1>1, <1>2, <3>1 DEF Begin, streamVars
    <3>2. ASSUME NEW k \in Keys, NEW start \in open, NEW dead \in BOOLEAN, CommitServer(k, start, dead)
          PROVE  last' = last /\ first' = first /\ now' \in {now, now + 1} /\ Longer
                 /\ UNCHANGED <<chainVars, clientVars, producerVars>>
      <4>1. start \in Nat
        BY DEF TypeInv, TypeOK
      <4>2. Write(k, start, dead)
        BY <3>2 DEF CommitServer
      <4> QED BY <3>2, <4>1, <4>2, Written DEF CommitServer, streamVars
    <3>3. ASSUME NEW k \in Keys, NEW dead \in BOOLEAN, NEW v \in 1..MaxClock+Tolerance, CommitEdge(k, v, dead)
          PROVE  last' = last /\ first' = first /\ now' \in {now, now + 1} /\ Longer
                 /\ UNCHANGED <<chainVars, clientVars, producerVars>>
      <4>1. v \in Nat
        BY GenerationsAssumption
      <4>2. Write(k, v, dead)
        BY <3>3 DEF CommitEdge
      <4> QED BY <3>3, <4>1, <4>2, Written DEF CommitEdge, streamVars
    <3> QED BY <1>4, <3>1, <3>2, <3>3 DEF Postgres
  <2>2. last' >= last /\ first' >= first /\ now' >= now /\ now' \in Nat
    BY <1>1, <2>1
  <2> QED BY <1>3, <2>1, <2>2
<1>5. CASE Sweeper \/ Publish \/ Expire \/ UNCHANGED vars
  <2>1. log' = log /\ now' = now /\ last' \in {last, last + 1} /\ first' \in {first, first + 1}
        /\ UNCHANGED <<chainVars, clientVars, producerVars>>
    BY <1>5 DEF Sweeper, Advance, Reap, Publish, Expire, vars, pgVars, streamVars
  <2>2. last' >= last /\ first' >= first /\ now' >= now /\ now' \in Nat
    BY <1>1, <2>1
  <2> QED BY <1>2, <1>3, <2>1, <2>2
<1>6. CASE BuildBegin \/ ProducerCrash
  <2>1. /\ log' = log /\ last' = last /\ first' = first /\ now' \in {now, now + 1}
        /\ UNCHANGED <<chainVars, clientVars>> /\ ppc' # "built"
        /\ ppc' # "idle" => now' = now + 1 /\ build'.seq = last
    BY <1>6 DEF BuildBegin, ProducerCrash, NoBuild, pgVars, streamVars
  <2>2. last' >= last /\ first' >= first /\ now' >= now
    BY <1>1, <2>1
  <2>3. ppc' # "idle" => manifest.cut < now' /\ manifest.seq <= build'.seq /\ build'.seq > 0
    BY <1>1, <2>1
  <2> QED BY <1>2, <2>1, <2>2, <2>3, OthersKeep
<1> QED BY <1>4, <1>5, <1>6

\* A manifest that was not recorded makes the next build a full.
LEMMA AgainFull ==
    ASSUME TypeInv, LiveSuffix, manifest.gen = NextGen, NEW full, BuildObjects(full)
    PROVE  full
<1>1. Len(gens) \in Nat /\ manifest.gen = Len(gens) + 1 /\ LastGen = Len(gens)
  BY Sizes, LastGenIs DEF NextGen
<1>2. CASE LastGen # 0
  <2>1. manifest.gen # LastGen
    BY <1>1
  <2> QED BY <1>2, <2>1 DEF BuildObjects, ChainAbsent
<1>3. CASE LastGen = 0
  <2>1. LastFull = 0
    BY <1>1, <1>3, LastGens
  <2> QED BY <2>1 DEF BuildObjects
<1> QED BY <1>2, <1>3

LEMMA BuildObjectsReplica ==
    ASSUME TypeInv, NEW snap \in Snaps, ChainOf(snap), ReplicaInv(snap),
           NEW full \in BOOLEAN, BuildObjects(full),
           NEW mark, mark = [snap EXCEPT ![NextGen] = Len(log)], ChainOf(mark)'
    PROVE  ReplicaInv(mark)'
<1>1. /\ NextGen \in Gens /\ NextGen = Len(gens) + 1 /\ Len(gens) \in Nat /\ Len(log) \in Nat
      /\ last \in 0..Len(log) /\ anchor \in 0..last
  <2>1. NextGen \in Gens
    BY ObjectsBuilt
  <2> QED BY <2>1, Sizes DEF NextGen, TypeInv, TypeOK
<1>2. /\ mark[NextGen] = Len(log)
      /\ \A g \in 1..Len(gens) : mark[g] = snap[g]
      /\ \A g \in 1..NextGen : mark[g] = snap[g] \/ mark[g] = Len(log)
  <2>1. \A g \in 1..Len(gens) : g # NextGen /\ g \in Gens
    BY <1>1, Sizes, GenerationsAssumption DEF Gens
  <2>2. \A g \in 1..NextGen : g \in 1..Len(gens) \/ g = NextGen
    BY <1>1
  <2> QED BY <1>1, <2>1, <2>2 DEF Snaps
<1>3. /\ now' = now /\ log' = log /\ gens' = gens /\ manifest' = manifest /\ last' = last /\ first' = first
      /\ replica' = replica /\ wm' = wm /\ pos' = pos /\ anchor' = anchor /\ owed' = owed
      /\ cpc' = cpc /\ pass' = pass /\ ppc = "begun" /\ ppc' = "built"
  BY DEF BuildObjects, pgVars, streamVars, clientVars, stored
<1>4. build'.cut = now /\ build'.seq = build.seq /\ build'.full = full
  BY DEF BuildObjects, TypeInv, TypeOK
<1>5. NextGen' = NextGen /\ Len(gens') = Len(gens)
  BY <1>3 DEF NextGen
<1>6. ASSUME NEW man, Sound(man, snap), man.seq <= last, man.seq \in Nat PROVE Sound(man, mark)'
  <2>1. man.gen \in 1..NextGen /\ man.seq <= snap[man.gen]
    BY <1>6 DEF Sound
  <2>2. man.seq <= mark[man.gen]
    <3>1. man.seq <= Len(log)
      BY <1>1, <1>6
    <3> QED BY <1>2, <2>1, <3>1
  <2> QED BY <1>3, <1>5, <1>6, <2>2 DEF Sound, InStep
<1>7. Row'
  <2>1. \A g \in 1..Len(gens), kind \in Kinds : objects'[<<g, kind>>] = objects[<<g, kind>>]
    <3>1. \A g \in 1..Len(gens) : g \in Gens /\ g # NextGen
      BY <1>1, Sizes, GenerationsAssumption DEF Gens
    <3> QED BY <3>1, ObjectsBuilt
  <2> QED BY <1>3, <2>1 DEF ReplicaInv, Chain, Row
<1>8. Unrecorded(mark)'
  <2> SUFFICES ASSUME manifest.gen = NextGen PROVE Unrecorded(mark)'
    BY <1>3, <1>5 DEF Unrecorded
  <2>1. full
    BY AgainFull DEF ChainOf
  <2>2. Building(mark)'
    BY DEF ChainOf
  <2>3. NextGen > 1 => Len(gens) > 0
    BY <1>1
  <2> QED BY <1>1, <1>3, <1>4, <1>5, <2>1, <2>2, <2>3 DEF Unrecorded, Building
<1>9. Chain(mark)'
  <2>1. manifest.gen # 0 => Sound(manifest, mark)'
    <3>1. manifest.seq <= last /\ manifest.seq \in Nat
      BY DEF TypeInv, TypeOK, Reached, Manifest
    <3>2. manifest.gen # 0 => Sound(manifest, snap)
      BY DEF ReplicaInv, Chain
    <3>3. Sound(manifest, snap) => Sound(manifest, mark)'
      <4>1. PICK man : man = manifest
        OBVIOUS
      <4> QED BY <1>3, <1>6, <3>1, <4>1 DEF Sound, InStep
    <3> QED BY <3>2, <3>3
  <2>2. manifest.gen # 0 => Lists(manifest)'
    BY <1>3 DEF ReplicaInv, Chain, Lists
  <2> QED BY <1>3, <1>4, <1>5, <1>7, <1>8, <2>1, <2>2 DEF ReplicaInv, Chain
<1>10. Replica'
  <2>1. \A x : TableAt(x)' = TableAt(x)
    BY <1>3 DEF TableAt, Live, LastOf
  <2> QED BY <1>3, <2>1 DEF ReplicaInv, Replica, Rows, InStep
<1>11. Loading(mark)'
  <2> SUFFICES ASSUME cpc = "load" PROVE Loading(mark)'
    BY <1>3 DEF Loading
  <2> DEFINE man == pass.man
  <2>1. Sound(man, snap) /\ Sound(man, mark)'
    <3>1. man.seq <= last /\ man.seq \in Nat
      BY DEF TypeInv, TypeOK, Reached, Manifest
    <3>2. Sound(man, snap)
      BY DEF ReplicaInv, Loading
    <3>3. PICK old : old = man
      OBVIOUS
    <3> QED BY <1>3, <1>6, <3>1, <3>2, <3>3
  <2>2. PICK a \in 1..man.gen :
            /\ pass.plan.deltas = a+1..man.gen
            /\ pass.plan.full => a = man.base.gen /\ pass.plan.base = a
            /\ ~pass.plan.full =>
                   /\ wm # 0 /\ (pass.gap => pos = 0 \/ pos + 1 < first)
                   /\ IF a = man.gen THEN anchor = man.seq
                      ELSE gens[a].seq <= anchor /\ \A i \in a+1..man.gen : anchor <= snap[i]
    BY DEF ReplicaInv, Loading
  <2>3. ASSUME \A i \in a+1..man.gen : anchor <= snap[i]
        PROVE  \A i \in a+1..man.gen : anchor <= mark[i]
    <3>1. \A i \in a+1..man.gen : i \in 1..NextGen
      BY <1>1, <2>1, <2>2 DEF Sound
    <3>2. anchor <= Len(log)
      BY <1>1
    <3> QED BY <1>2, <2>3, <3>1, <3>2
  <2> QED BY <1>3, <2>1, <2>2, <2>3 DEF ReplicaInv, Loading
<1> QED BY <1>9, <1>10, <1>11 DEF ReplicaInv

\* The manifest a build puts.
LEMMA PutManifest ==
    ASSUME TypeInv, NEW snap \in Snaps, ChainOf(snap), Chain(snap), ppc = "built",
           NEW gone \in SUBSET DOMAIN gens, \A g \in gone : gens[g].state = "retired",
           NEW man, man = NewManifest(PruneChain(gone))
    PROVE  /\ man.gen = NextGen /\ man.cut = build.cut /\ man.seq = build.seq
           /\ IF build.full THEN man.base.gen = NextGen
              ELSE man.base.gen \in 1..Len(gens) /\ gens[man.base.gen].full
           /\ man.seq <= snap[NextGen] /\ InStep(man.cut, man.seq) /\ Lists(man)
<1> DEFINE kept == PruneChain(gone)
           n    == Len(gens)
<1>1. /\ n \in Nat /\ NextGen = n + 1 /\ LastGen = n /\ DOMAIN gens = 1..n
      /\ manifest.cut \in Nat /\ build.cut \in Nat /\ build.seq \in Nat
      /\ manifest.cut < build.cut /\ manifest.seq <= build.seq /\ build.seq > 0
      /\ build.seq <= snap[NextGen]
      /\ \A g \in 1..n : gens[g].cut \in Nat /\ gens[g].cut <= manifest.cut /\ gens[g].seq \in Nat
  <2>1. n \in Nat /\ NextGen = n + 1 /\ LastGen = n /\ DOMAIN gens = 1..n
    BY Sizes, LastGenIs DEF NextGen, ChainOf
  <2>2. manifest.cut \in Nat /\ build.cut \in Nat /\ build.seq \in Nat
    <3>1. last \in Nat /\ now \in Nat
      BY Bounds
    <3> QED BY <3>1 DEF TypeInv, TypeOK, Manifest
  <2>3. \A g \in 1..n : gens[g].cut \in Nat /\ gens[g].seq \in Nat
    <3>1. last \in Nat
      BY Bounds
    <3>2. \A g \in 1..n : gens[g] \in Record(last)
      BY Sizes
    <3> QED BY <3>1, <3>2 DEF Record
  <2> QED BY <2>1, <2>2, <2>3 DEF Chain, Row, ChainOf, Building
<1>2. /\ man.gen = NextGen /\ man.cut = build.cut /\ man.seq = build.seq /\ man.deltas = ListedDeltas(kept)
      /\ build.full => man.base.cut = build.cut
  BY DEF NewManifest
<1>3. /\ IF build.full THEN man.base.gen = NextGen
         ELSE man.base.gen \in 1..n /\ gens[man.base.gen].full
      /\ {d.gen : d \in {e \in man.deltas : e.gen > man.base.gen}} = man.base.gen + 1 .. NextGen
  BY ManifestLists
<1>4. \A g \in 1..n : kept[g].cut = gens[g].cut /\ kept[g].prev = gens[g].prev
  <2>1. \A g \in 1..n : \A f \in {"cut", "prev", "floor", "full", "seq"} : kept[g][f] = gens[g][f]
    BY Kept
  <2> QED BY <2>1
<1>5. /\ LiveGens(kept) = {g \in 1..n : gens[g].state = "live" /\ g > KeepFrom}
      /\ KeepFrom \in Int
  BY KeptLive, KeepFromIs DEF ChainOf
<1>6. \A g \in 1..n : (gens[g].prev = 0 <=> g = 1) /\ (g > 1 => gens[g].prev = gens[g-1].cut)
  BY DEF ChainOf, Recorded, Chain, Row
<1>7. InStep(man.cut, man.seq)
  <2> SUFFICES ASSUME NEW g \in 1..n PROVE gens[g].cut <= build.cut /\ gens[g].seq <= build.seq
               /\ ~(build.cut < gens[g].cut)
    BY <1>2 DEF InStep
  <2>1. gens[g].seq <= gens[n].seq /\ (n > 0 => gens[n].seq <= build.seq)
    BY SnapsRise DEF ChainOf, Building
  <2>2. n > 0 /\ n \in 1..n
    BY <1>1
  <2> QED BY <1>1, <2>1, <2>2
<1> HIDE DEF kept, n
<1>8. \A d : d \in man.deltas <=>
          \/ \E g \in LiveGens(kept) : /\ kept[g].prev # 0
                                       /\ d = [gen |-> g, prev |-> kept[g].prev, cut |-> kept[g].cut]
          \/ n # 0 /\ d = [gen |-> NextGen, prev |-> gens[n].cut, cut |-> build.cut]
  BY <1>1, <1>2 DEF ListedDeltas
<1>9. ASSUME NEW d \in man.deltas
      PROVE  \/ /\ d.gen \in 2..n /\ gens[d.gen].state = "live" /\ d.gen > KeepFrom
                /\ d.prev = gens[d.gen-1].cut /\ d.cut = gens[d.gen].cut
             \/ n # 0 /\ d.gen = NextGen /\ d.prev = gens[n].cut /\ d.cut = build.cut
  <2>1. CASE \E g \in LiveGens(kept) : /\ kept[g].prev # 0
                                       /\ d = [gen |-> g, prev |-> kept[g].prev, cut |-> kept[g].cut]
    <3>1. PICK g \in LiveGens(kept) : /\ kept[g].prev # 0
                                      /\ d = [gen |-> g, prev |-> kept[g].prev, cut |-> kept[g].cut]
      BY <2>1
    <3>2. g \in 1..n /\ gens[g].state = "live" /\ g > KeepFrom
      BY <1>5, <3>1
    <3>3. g \in 2..n /\ g > 1
      BY <1>1, <1>4, <1>6, <3>1, <3>2
    <3>4. d.gen = g /\ d.prev = kept[g].prev /\ d.cut = kept[g].cut
      BY <3>1
    <3> QED BY <1>4, <1>6, <3>2, <3>3, <3>4
  <2>2. CASE n # 0 /\ d = [gen |-> NextGen, prev |-> gens[n].cut, cut |-> build.cut]
    BY <2>2
  <2> QED BY <1>8, <2>1, <2>2
<1>10. n # 0 => NextGen \in DeltaGens(man)
  <2> DEFINE mine == [gen |-> NextGen, prev |-> gens[n].cut, cut |-> build.cut]
  <2>1. n # 0 => mine \in man.deltas
    BY <1>8
  <2>2. mine.gen = NextGen
    OBVIOUS
  <2> HIDE DEF mine
  <2> QED BY <2>1, <2>2 DEF DeltaGens
<1>11. ASSUME NEW h \in 2..n, gens[h].state = "live", h > KeepFrom
       PROVE  h \in DeltaGens(man)
  <2> DEFINE mine == [gen |-> h, prev |-> kept[h].prev, cut |-> kept[h].cut]
  <2>1. h \in 1..n /\ h # 1
    BY <1>1
  <2>2. h \in LiveGens(kept)
    BY <1>5, <1>11, <2>1
  <2>3. mine \in man.deltas
    BY <1>4, <1>6, <1>8, <2>1, <2>2
  <2>4. mine.gen = h
    OBVIOUS
  <2> HIDE DEF mine
  <2> QED BY <2>3, <2>4 DEF DeltaGens
<1>12. ASSUME NEW g \in DeltaGens(man) \cup {man.base.gen}, NEW h \in g+1..NextGen
       PROVE  h \in DeltaGens(man)
  <2>1. CASE g = man.base.gen
    <3>1. h \in {d.gen : d \in {e \in man.deltas : e.gen > man.base.gen}}
      BY <1>3, <1>12, <2>1
    <3> QED BY <3>1 DEF DeltaGens
  <2>2. CASE g \in DeltaGens(man)
    <3>1. PICK d \in man.deltas : g = d.gen
      BY <2>2 DEF DeltaGens
    <3>2. CASE g = NextGen
      <4>1. NextGen + 1 .. NextGen = {}
        BY <1>1
      <4> QED BY <3>2, <4>1
    <3>3. CASE g \in 2..n /\ gens[g].state = "live" /\ g > KeepFrom
      <4>1. CASE h = NextGen
        <5>1. n # 0
          BY <1>1, <3>3
        <5> QED BY <1>10, <4>1, <5>1
      <4>2. CASE h # NextGen
        <5>1. h \in 2..n /\ g \in 1..n /\ h \in 1..n /\ g < h /\ h > KeepFrom
          BY <1>1, <1>5, <3>3, <4>2
        <5>2. gens[h].state = "live"
          BY <3>3, <5>1 DEF ChainOf, LiveSuffix, n
        <5> QED BY <1>11, <5>1, <5>2
      <4> QED BY <4>1, <4>2
    <3> QED BY <1>9, <3>1, <3>2, <3>3
  <2> QED BY <2>1, <2>2
<1>13. Lists(man)
  <2>1. \A d \in man.deltas :
           /\ d.gen \in 2..man.gen /\ d.prev = gens[d.gen-1].cut
           /\ d.cut = IF d.gen = man.gen THEN man.cut ELSE gens[d.gen].cut
    <3> SUFFICES ASSUME NEW d \in man.deltas
                 PROVE  /\ d.gen \in 2..n+1 /\ d.prev = gens[d.gen-1].cut
                        /\ d.cut = IF d.gen = n + 1 THEN build.cut ELSE gens[d.gen].cut
      BY <1>1, <1>2
    <3>1. CASE n # 0 /\ d.gen = NextGen /\ d.prev = gens[n].cut /\ d.cut = build.cut
      <4>1. d.gen = n + 1 /\ d.gen - 1 = n /\ d.gen \in 2..n+1
        BY <1>1, <3>1
      <4> QED BY <3>1, <4>1
    <3>2. CASE /\ d.gen \in 2..n /\ d.prev = gens[d.gen-1].cut /\ d.cut = gens[d.gen].cut
      <4>1. d.gen # n + 1 /\ d.gen \in 2..n+1
        BY <1>1, <3>2
      <4> QED BY <3>2, <4>1
    <3> QED BY <1>9, <3>1, <3>2
  <2>2. man.gen > 1 => man.gen \in DeltaGens(man)
    BY <1>1, <1>2, <1>10
  <2>3. \A g \in DeltaGens(man) \cup {man.base.gen} : g+1..man.gen \subseteq DeltaGens(man)
    BY <1>2, <1>12
  <2>4. man.base.gen = man.gen => man.base.cut = man.cut
    BY <1>1, <1>2, <1>3
  <2>5. \A g \in 1..man.gen-1 : gens[g].cut < man.cut
    <3>1. \A g \in 1..man.gen-1 : g \in 1..n
      BY <1>1, <1>2
    <3> QED BY <1>1, <1>2, <3>1
  <2> QED BY <1>1, <1>2, <2>1, <2>2, <2>3, <2>4, <2>5 DEF Lists
<1> QED BY <1>1, <1>2, <1>3, <1>7, <1>13 DEF n

\* The end of a build: what was recorded stays, but for its state; and the build
\* is behind what the last manifest named.
Ended(gone, upto) ==
    /\ ppc = "built" /\ ppc' = "idle" /\ \A g \in gone : gens[g].state = "retired"
    /\ UNCHANGED <<pgVars, streamVars, clientVars>>
    /\ manifest' = IF upto = "prune" THEN manifest ELSE NewManifest(PruneChain(gone))
    /\ NextGen \in Gens /\ NextGen = Len(gens) + 1
    /\ Len(gens') = IF upto = "record" THEN Len(gens) + 1 ELSE Len(gens)
    /\ NextGen' = Len(gens') + 1
    /\ \A g \in 1..Len(gens) : /\ gens'[g].cut = gens[g].cut /\ gens'[g].prev = gens[g].prev
                               /\ gens'[g].full = gens[g].full /\ gens'[g].seq = gens[g].seq
                               /\ gens'[g].state = "gone" => g \in gone \/ gens[g].state = "gone"
    /\ upto = "record" =>
           LET new == gens'[Len(gens) + 1]
           IN  /\ new.cut = build.cut /\ new.seq = build.seq /\ new.full = build.full
               /\ new.state = "live" /\ (Len(gens) > 0 => new.prev = gens[Len(gens)].cut)
    /\ \A g \in Gens, kind \in Kinds :
           objects'[<<g, kind>>] = IF g \in gone THEN Gone ELSE objects[<<g, kind>>]
    /\ manifest.cut < build.cut /\ manifest.seq <= build.seq
    /\ \A g \in 1..Len(gens) : gens[g].cut <= manifest.cut

LEMMA FinishEnds ==
    ASSUME TypeInv, NEW snap \in Snaps, ChainOf(snap), Chain(snap),
           NEW gone \in SUBSET DOMAIN gens, NEW upto \in {"prune", "put", "record"}, Finish(gone, upto)
    PROVE  Ended(gone, upto)
<1> DEFINE kept == PruneChain(gone)
           n    == Len(gens)
<1>1. /\ ppc = "built" /\ ppc' = "idle" /\ \A g \in gone : gens[g].state = "retired"
      /\ objects' = [o \in Gens \X Kinds |-> IF o[1] \in gone THEN Gone ELSE objects[o]]
      /\ manifest' = (IF upto = "prune" THEN manifest ELSE NewManifest(kept))
      /\ gens' = (IF upto = "record" THEN Append(kept, NewRow) ELSE kept)
      /\ UNCHANGED <<pgVars, streamVars, clientVars>>
  BY DEF Finish
<1>2. n \in Nat /\ NextGen = n + 1 /\ NextGen \in Gens /\ LastGen = n
  BY <1>1, Sizes, LastGenIs DEF ChainOf, NextGen, TypeInv
<1>3. /\ kept \in Seq(Record(last)) /\ Len(kept) = n
      /\ \A g \in 1..n : \A f \in {"cut", "prev", "floor", "full", "seq"} : kept[g][f] = gens[g][f]
  BY Kept
<1>4. \A g \in 1..n : /\ kept[g].cut = gens[g].cut /\ kept[g].prev = gens[g].prev
                      /\ kept[g].full = gens[g].full /\ kept[g].seq = gens[g].seq
  BY <1>3
<1>5. \A g \in 1..n : kept[g].state # "gone" => g \notin gone /\ gens[g].state # "gone"
  BY <1>1, KeptLive DEF ChainOf
<1>6. /\ NewRow.cut = build.cut /\ NewRow.full = build.full /\ NewRow.state = "live"
      /\ NewRow.seq = build.seq /\ (n > 0 => NewRow.prev = gens[n].cut)
  BY <1>2 DEF NewRow
<1>7. \A g \in 1..n : kept[g].state = "gone" => g \in gone \/ gens[g].state = "gone"
  <2>1. \A g \in 1..n : kept[g].state = IF g \in gone THEN "gone"
                  ELSE IF gens[g].state = "live" /\ g <= KeepFrom THEN "retired" ELSE gens[g].state
    BY Kept
  <2> HIDE DEF kept
  <2> QED BY <2>1
<1> HIDE DEF kept, n
<1>8. /\ Len(gens') = IF upto = "record" THEN n + 1 ELSE n
      /\ \A g \in 1..n : gens'[g] = kept[g]
      /\ upto = "record" => gens'[n+1] = NewRow
  <2>1. CASE upto = "record"
    BY <1>1, <1>2, <1>3, <2>1
  <2>2. CASE upto # "record"
    BY <1>1, <1>3, <2>2
  <2> QED BY <2>1, <2>2
<1>9. NextGen' = Len(gens') + 1
  BY DEF NextGen
<1>10. \A g \in Gens, kind \in Kinds :
           objects'[<<g, kind>>] = IF g \in gone THEN Gone ELSE objects[<<g, kind>>]
  BY <1>1
<1>11. /\ manifest.cut < build.cut /\ manifest.seq <= build.seq
       /\ \A g \in 1..n : gens[g].cut <= manifest.cut
  BY <1>1 DEF Chain, Row, n
<1>12. \A g \in 1..n : /\ gens'[g].cut = gens[g].cut /\ gens'[g].prev = gens[g].prev
                       /\ gens'[g].full = gens[g].full /\ gens'[g].seq = gens[g].seq
                       /\ gens'[g].state = "gone" => g \in gone \/ gens[g].state = "gone"
  BY <1>4, <1>7, <1>8
<1>13. upto = "record" =>
           LET new == gens'[n + 1]
           IN  /\ new.cut = build.cut /\ new.seq = build.seq /\ new.full = build.full
               /\ new.state = "live" /\ (n > 0 => new.prev = gens[n].cut)
  BY <1>6, <1>8
<1> QED BY <1>1, <1>2, <1>8, <1>9, <1>10, <1>11, <1>12, <1>13 DEF Ended, kept, n

\* What was in step with the recorded generations is in step with the new one.
LEMMA EndedInStep ==
    ASSUME TypeInv, NEW gone, NEW upto, Ended(gone, upto),
           NEW cut \in Nat, NEW seq \in Nat, InStep(cut, seq),
           \/ cut < build.cut /\ seq <= build.seq
           \/ cut = build.cut /\ seq = build.seq
    PROVE  \A g \in 1..Len(gens') : /\ gens'[g].cut <= cut => gens'[g].seq <= seq
                                    /\ cut < gens'[g].cut => seq <= gens'[g].seq
<1>1. build.cut \in Nat /\ build.seq \in Nat /\ Len(gens) \in Nat
  <2>1. last \in Nat /\ now \in Nat
    BY Bounds
  <2> QED BY <2>1, Sizes DEF TypeInv, TypeOK
<1> SUFFICES ASSUME NEW g \in 1..Len(gens')
             PROVE  /\ gens'[g].cut <= cut => gens'[g].seq <= seq
                    /\ cut < gens'[g].cut => seq <= gens'[g].seq
  OBVIOUS
<1>2. CASE g \in 1..Len(gens)
  BY <1>2 DEF Ended, InStep
<1>3. CASE g \notin 1..Len(gens)
  <2>1. upto = "record" /\ g = Len(gens) + 1
    BY <1>1, <1>3 DEF Ended
  <2>2. gens'[g].cut = build.cut /\ gens'[g].seq = build.seq
    BY <2>1 DEF Ended
  <2> QED BY <1>1, <2>2
<1> QED BY <1>2, <1>3

\* A manifest that was put before stays sound.
LEMMA EndedSound ==
    ASSUME TypeInv, NEW snap \in Snaps, ChainOf(snap), Chain(snap),
           NEW gone \in SUBSET DOMAIN gens, NEW upto \in {"prune", "put", "record"}, Ended(gone, upto),
           NEW man \in Manifest, Sound(man, snap), man.cut <= manifest.cut
    PROVE  Sound(man, snap)'
<1>1. /\ Len(gens) \in Nat /\ NextGen = Len(gens) + 1 /\ man.gen \in 1..NextGen /\ man.gen \in Nat
      /\ man.base.gen \in 1..man.gen /\ man.base.gen \in Nat
      /\ man.seq <= snap[man.gen] /\ man.seq <= manifest.seq /\ man.seq \in Nat /\ man.cut \in Nat
      /\ manifest.cut \in Nat /\ manifest.seq \in Nat /\ build.cut \in Nat /\ build.seq \in Nat
      /\ manifest.cut < build.cut /\ manifest.seq <= build.seq
  <2>1. last \in Nat /\ now \in Nat /\ Len(gens) \in Nat
    BY Sizes, Bounds, GenerationsAssumption
  <2>2. manifest.cut \in Nat /\ manifest.seq \in Nat /\ build.cut \in Nat /\ build.seq \in Nat
    BY <2>1 DEF TypeInv, TypeOK, Manifest
  <2> QED BY <2>1, <2>2 DEF Sound, Manifest, Ended
<1>2. /\ Len(gens') = IF upto = "record" THEN Len(gens) + 1 ELSE Len(gens)
      /\ NextGen' = Len(gens') + 1
      /\ \A g \in 1..Len(gens) : gens'[g].full = gens[g].full
      /\ upto = "record" => gens'[Len(gens) + 1].full = build.full
  BY DEF Ended
<1>3. man.gen = NextGen => manifest.gen = NextGen /\ build.full
  BY DEF Sound, Chain, Unrecorded, Ended
<1>4. upto = "prune" => manifest' = manifest
  BY DEF Ended
<1>5. upto # "prune" =>
          /\ manifest'.gen = NextGen /\ manifest'.seq = build.seq
          /\ build.full => manifest'.base.gen = NextGen
  <2>1. upto # "prune" => manifest' = NewManifest(PruneChain(gone))
    BY DEF Ended
  <2>2. ppc = "built" /\ \A g \in gone : gens[g].state = "retired"
    BY DEF Ended
  <2>3. /\ NewManifest(PruneChain(gone)).gen = NextGen /\ NewManifest(PruneChain(gone)).seq = build.seq
        /\ build.full => NewManifest(PruneChain(gone)).base.gen = NextGen
    BY <2>2, ManifestLists
  <2> QED BY <2>1, <2>3
<1>6. man.gen = NextGen' => manifest'.gen = NextGen'
  BY <1>1, <1>2, <1>3, <1>4, <1>5
<1>7. man.base.gen = NextGen' => manifest'.base.gen = NextGen'
  <2> SUFFICES ASSUME man.base.gen = NextGen' PROVE manifest'.base.gen = NextGen'
    OBVIOUS
  <2>1. upto # "record" /\ man.gen = NextGen /\ man.base.gen = NextGen /\ NextGen' = NextGen
    BY <1>1, <1>2
  <2>2. manifest.base.gen = NextGen
    BY <2>1 DEF Sound
  <2> QED BY <1>3, <1>4, <1>5, <2>1, <2>2
<1>8. man.base.gen <= Len(gens') => gens'[man.base.gen].full
  <2>1. CASE man.base.gen <= Len(gens)
    <3>1. man.base.gen \in 1..Len(gens) /\ gens[man.base.gen].full
      BY <1>1, <2>1 DEF Sound
    <3> QED BY <1>2, <3>1
  <2>2. CASE man.base.gen > Len(gens) /\ man.base.gen <= Len(gens')
    <3>1. upto = "record" /\ man.base.gen = Len(gens) + 1 /\ man.gen = NextGen
      BY <1>1, <1>2, <2>2
    <3> QED BY <1>2, <1>3, <3>1
  <2> QED BY <1>1, <2>1, <2>2
<1>9. man.seq <= manifest'.seq
  BY <1>1, <1>4, <1>5
<1>10. InStep(man.cut, man.seq)'
  <2>1. InStep(man.cut, man.seq) /\ man.cut < build.cut /\ man.seq <= build.seq
    BY <1>1 DEF Sound
  <2> QED BY <1>1, <2>1, EndedInStep DEF InStep
<1>11. man.gen \in 1..NextGen'
  BY <1>1, <1>2
<1> QED BY <1>1, <1>6, <1>7, <1>8, <1>9, <1>10, <1>11 DEF Sound

LEMMA EndedLists ==
    ASSUME TypeInv, NEW gone, NEW upto, Ended(gone, upto), NEW man, Lists(man), man.gen \in 1..NextGen
    PROVE  Lists(man)'
<1>1. /\ Len(gens) \in Nat /\ man.gen \in 1..Len(gens)+1
      /\ \A g \in 1..Len(gens) : gens'[g].cut = gens[g].cut
  BY Sizes DEF Ended
<1>2. /\ \A d \in man.deltas :
           /\ d.gen \in 2..man.gen /\ d.prev = gens[d.gen-1].cut
           /\ d.cut = IF d.gen = man.gen THEN man.cut ELSE gens[d.gen].cut
      /\ \A g \in 1..man.gen-1 : gens[g].cut < man.cut
  BY DEF Lists
<1>3. ASSUME NEW d \in man.deltas
      PROVE  /\ d.gen \in 2..man.gen /\ d.prev = gens'[d.gen-1].cut
             /\ d.cut = IF d.gen = man.gen THEN man.cut ELSE gens'[d.gen].cut
  <2>1. d.gen - 1 \in 1..Len(gens) /\ (d.gen # man.gen => d.gen \in 1..Len(gens))
    BY <1>1, <1>2
  <2> QED BY <1>1, <1>2, <2>1
<1>4. \A g \in 1..man.gen-1 : gens'[g].cut < man.cut
  <2>1. \A g \in 1..man.gen-1 : g \in 1..Len(gens)
    BY <1>1
  <2> QED BY <1>1, <1>2, <2>1
<1> QED BY <1>3, <1>4 DEF Lists

LEMMA FinishReplica ==
    ASSUME TypeInv, TypeInv', NEW snap \in Snaps, ChainOf(snap), ReplicaInv(snap),
           NEW gone \in SUBSET DOMAIN gens, NEW upto \in {"prune", "put", "record"}, Finish(gone, upto)
    PROVE  ReplicaInv(snap)'
<1> DEFINE n == Len(gens)
<1>1. Chain(snap) /\ Ended(gone, upto)
  BY FinishEnds DEF ReplicaInv
<1>2. /\ n \in Nat /\ NextGen = n + 1 /\ NextGen \in Gens /\ DOMAIN gens = 1..n
      /\ ppc = "built" /\ ppc' = "idle" /\ \A g \in gone : gens[g].state = "retired"
      /\ manifest \in Manifest /\ manifest' \in Manifest /\ pass.man \in Manifest
      /\ manifest.cut \in Nat /\ manifest.seq \in Nat /\ build.cut \in Nat /\ build.seq \in Nat
      /\ manifest.cut < build.cut /\ manifest.seq <= build.seq
      /\ 1..n \subseteq Gens
  <2>1. last \in Nat /\ now \in Nat /\ manifest \in Manifest /\ pass.man \in Manifest
    BY Bounds DEF TypeInv, TypeOK
  <2>2. manifest' \in Manifest
    BY DEF TypeInv, TypeOK
  <2>3. manifest.cut \in Nat /\ manifest.seq \in Nat /\ build.cut \in Nat /\ build.seq \in Nat
    BY <2>1 DEF TypeInv, TypeOK, Manifest
  <2> QED BY <1>1, <2>1, <2>2, <2>3, Sizes, GenerationsAssumption DEF Ended, Gens
<1>3. /\ log' = log /\ last' = last /\ first' = first
      /\ replica' = replica /\ wm' = wm /\ pos' = pos /\ anchor' = anchor /\ owed' = owed
      /\ cpc' = cpc /\ pass' = pass
  BY <1>1 DEF Ended, pgVars, streamVars, clientVars, stored
<1>4. /\ upto = "prune" => manifest' = manifest
      /\ upto # "prune" =>
             /\ manifest'.gen = NextGen /\ manifest'.cut = build.cut /\ manifest'.seq = build.seq
             /\ IF build.full THEN manifest'.base.gen = NextGen
                ELSE manifest'.base.gen \in 1..n /\ gens[manifest'.base.gen].full
             /\ manifest'.seq <= snap[NextGen]
             /\ InStep(build.cut, build.seq)
  <2>1. PICK man : man = NewManifest(PruneChain(gone))
    OBVIOUS
  <2>2. /\ man.gen = NextGen /\ man.cut = build.cut /\ man.seq = build.seq
        /\ IF build.full THEN man.base.gen = NextGen
           ELSE man.base.gen \in 1..Len(gens) /\ gens[man.base.gen].full
        /\ man.seq <= snap[NextGen] /\ InStep(man.cut, man.seq)
    BY <1>1, <1>2, <2>1, PutManifest
  <2>3. manifest' = IF upto = "prune" THEN manifest ELSE man
    BY <1>1, <2>1 DEF Ended
  <2> QED BY <2>2, <2>3
<1>5. upto # "prune" => Lists(manifest)'
  <2> SUFFICES ASSUME upto # "prune" PROVE Lists(manifest)'
    OBVIOUS
  <2>1. PICK man : man = NewManifest(PruneChain(gone))
    OBVIOUS
  <2>2. Lists(man) /\ man.gen = NextGen
    BY <1>1, <1>2, <2>1, PutManifest
  <2>3. manifest' = man
    BY <1>1, <2>1 DEF Ended
  <2>4. man.gen \in 1..NextGen
    BY <1>2, <2>2
  <2>5. Lists(man)'
    BY <1>1, <2>2, <2>4, EndedLists
  <2> QED BY <2>3, <2>5
<1> HIDE DEF n
<1>6. /\ Len(gens') = IF upto = "record" THEN n + 1 ELSE n
      /\ NextGen' = Len(gens') + 1
      /\ \A g \in 1..n : /\ gens'[g].cut = gens[g].cut /\ gens'[g].prev = gens[g].prev
                         /\ gens'[g].full = gens[g].full /\ gens'[g].seq = gens[g].seq
                         /\ gens'[g].state = "gone" => g \in gone \/ gens[g].state = "gone"
      /\ upto = "record" =>
             LET new == gens'[n + 1]
             IN  /\ new.cut = build.cut /\ new.seq = build.seq /\ new.full = build.full
                 /\ new.state = "live" /\ (n > 0 => new.prev = gens[n].cut)
      /\ \A g \in Gens, kind \in Kinds :
             objects'[<<g, kind>>] = IF g \in gone THEN Gone ELSE objects[<<g, kind>>]
  BY <1>1 DEF Ended, n
<1>7. Row'
  <2> SUFFICES ASSUME NEW g \in 1..Len(gens')
               PROVE  /\ gens'[g].state = "gone" => \A kind \in Kinds : objects'[<<g, kind>>] = Gone
                      /\ gens'[g].cut <= manifest'.cut
                      /\ g > 1 => gens'[g].prev = gens'[g-1].cut
                      /\ \A h \in 1..g-1 : gens'[h].cut < gens'[g].cut
    BY DEF Row
  <2>1. \A h \in 1..n : /\ gens[h].cut <= manifest.cut /\ gens[h].cut \in Nat
                        /\ gens[h].state = "gone" => \A kind \in Kinds : objects[<<h, kind>>] = Gone
                        /\ h > 1 => gens[h].prev = gens[h-1].cut
                        /\ \A i \in 1..h-1 : gens[i].cut < gens[h].cut
    <3>1. \A h \in 1..n : gens[h].cut \in Nat
      <4>1. \A h \in 1..n : gens[h] \in Record(last)
        BY Sizes DEF n
      <4> QED BY <4>1 DEF Record
    <3> QED BY <1>1, <3>1 DEF Chain, Row, n
  <2>2. CASE g \in 1..n
    <3>1. gens'[g].state = "gone" => \A kind \in Kinds : objects'[<<g, kind>>] = Gone
      <4>1. gens'[g].state = "gone" => g \in gone \/ gens[g].state = "gone"
        BY <1>6, <2>2
      <4>2. gens[g].state = "gone" => \A kind \in Kinds : objects[<<g, kind>>] = Gone
        BY <2>1, <2>2
      <4>3. \A kind \in Kinds : objects'[<<g, kind>>] = IF g \in gone THEN Gone ELSE objects[<<g, kind>>]
        BY <1>2, <1>6, <2>2
      <4> QED BY <4>1, <4>2, <4>3
    <3>2. gens'[g].cut <= manifest'.cut
      <4>1. gens'[g].cut = gens[g].cut /\ gens[g].cut \in Nat /\ gens[g].cut <= manifest.cut
        BY <1>6, <2>1, <2>2
      <4> QED BY <1>2, <1>4, <4>1
    <3>3. /\ g > 1 => g - 1 \in 1..n
          /\ \A h \in 1..g-1 : h \in 1..n
      BY <1>2, <2>2
    <3> QED BY <1>6, <2>1, <2>2, <3>1, <3>2, <3>3
  <2>3. CASE g \notin 1..n
    <3>1. upto = "record" /\ g = n + 1 /\ upto # "prune"
      BY <1>2, <1>6, <2>3
    <3>2. gens'[g].state = "live" /\ gens'[g].cut = build.cut /\ (n > 0 => gens'[g].prev = gens[n].cut)
      BY <1>6, <3>1
    <3>3. gens'[g].cut <= manifest'.cut
      BY <1>2, <1>4, <3>1, <3>2
    <3>4. g > 1 => gens'[g].prev = gens'[g-1].cut
      <4> SUFFICES ASSUME g > 1 PROVE gens'[g].prev = gens'[g-1].cut
        OBVIOUS
      <4>1. n > 0 /\ n \in 1..n /\ g - 1 = n
        BY <1>2, <3>1
      <4> QED BY <1>6, <3>2, <4>1
    <3>5. \A h \in 1..g-1 : gens'[h].cut < gens'[g].cut
      <4>1. \A h \in 1..g-1 : h \in 1..n
        BY <1>2, <3>1
      <4>2. ASSUME NEW h \in 1..n PROVE gens'[h].cut < build.cut
        <5>1. gens'[h].cut = gens[h].cut /\ gens[h].cut \in Nat /\ gens[h].cut <= manifest.cut
          BY <1>6, <2>1
        <5> QED BY <1>2, <5>1
      <4> QED BY <3>2, <4>1, <4>2
    <3> QED BY <3>2, <3>3, <3>4, <3>5
  <2> QED BY <2>2, <2>3
<1>8. Unrecorded(snap)'
  <2> SUFFICES ASSUME manifest'.gen = NextGen'
               PROVE  /\ NextGen' \in Gens
                      /\ Len(gens') > 0 => snap[Len(gens')] <= snap[NextGen']
                      /\ manifest'.base.gen = NextGen' => objects'[<<NextGen', "full">>] = LiveAt(snap[NextGen])'
                      /\ NextGen' > 1 =>
                             Follows(objects[<<NextGen, "delta">>], MarkOf(snap, Len(gens)), snap[NextGen])'
    BY <1>2 DEF Unrecorded
  <2>1. upto # "record" /\ Len(gens') = Len(gens) /\ NextGen' = NextGen
    <3>1. CASE upto = "record"
      <4>1. manifest'.gen = n + 1 /\ NextGen' = n + 2
        BY <1>2, <1>4, <1>6, <3>1
      <4>2. n \in Nat
        BY <1>2
      <4>3. n + 1 = n + 2
        BY <4>1
      <4> QED BY <4>2, <4>3
    <3>2. CASE upto # "record"
      BY <1>2, <1>6, <3>2 DEF n
    <3> QED BY <3>1, <3>2
  <2>2. /\ objects'[<<NextGen, "full">>] = objects[<<NextGen, "full">>]
        /\ objects'[<<NextGen, "delta">>] = objects[<<NextGen, "delta">>]
    <3>1. NextGen \notin gone
      BY <1>2
    <3> QED BY <1>2, <1>6, <3>1 DEF Kinds
  <2>3. MarkOf(snap, Len(gens))' = MarkOf(snap, Len(gens))
    <3>1. Len(gens) # 0 => Len(gens) \in 1..n
      BY <1>2 DEF n
    <3> QED BY <1>6, <2>1, <3>1 DEF MarkOf
  <2>4. /\ \A i : LiveAt(i)' = LiveAt(i)
        /\ \A c, m, i : Follows(c, m, i)' = Follows(c, m, i)
    BY <1>3 DEF LiveAt, Follows, Live, LastOf, Version
  <2>5. /\ Len(gens) > 0 => snap[Len(gens)] <= snap[NextGen]
        /\ manifest'.base.gen = NextGen => objects[<<NextGen, "full">>] = LiveAt(snap[NextGen])
        /\ NextGen > 1 =>
               Follows(objects[<<NextGen, "delta">>], MarkOf(snap, Len(gens)), snap[NextGen])
    <3>1. CASE upto = "prune"
      <4>1. manifest' = manifest /\ manifest.gen = NextGen
        BY <1>4, <2>1, <3>1
      <4> QED BY <1>1, <4>1 DEF Chain, Unrecorded
    <3>2. CASE upto # "prune"
      <4>1. Building(snap)
        BY DEF ChainOf
      <4>2. manifest'.base.gen = NextGen => build.full
        BY <1>2, <1>4, <3>2
      <4>3. NextGen > 1 => Len(gens) > 0
        BY <1>2 DEF n
      <4> QED BY <1>2, <4>1, <4>2, <4>3 DEF Building
    <3> QED BY <3>1, <3>2
  <2> QED BY <1>2, <2>1, <2>2, <2>3, <2>4, <2>5
<1>9. ASSUME NEW man \in Manifest, Sound(man, snap), man.cut <= manifest.cut
      PROVE  Sound(man, snap)'
  BY <1>1, <1>9, EndedSound
<1>10. manifest'.gen # 0 => Sound(manifest, snap)' /\ Lists(manifest)'
  <2>1. CASE upto = "prune" /\ manifest.gen # 0
    <3>1. PICK man : man = manifest
      OBVIOUS
    <3>2. Sound(man, snap) /\ Lists(man) /\ man.gen \in 1..NextGen /\ man.cut <= manifest.cut
      BY <1>1, <1>2, <2>1, <3>1 DEF Chain, Sound
    <3>3. Sound(man, snap)' /\ Lists(man)'
      BY <1>1, <1>2, <1>9, <3>1, <3>2, EndedLists
    <3> QED BY <1>4, <2>1, <3>1, <3>3
  <2>2. CASE upto # "prune"
    <3>1. InStep(manifest.cut, manifest.seq)'
      <4>1. PICK cut, seq \in Nat : cut = build.cut /\ seq = build.seq
        BY <1>2
      <4>2. InStep(cut, seq)
        BY <1>4, <2>2, <4>1
      <4>3. \A g \in 1..Len(gens') : /\ gens'[g].cut <= cut => gens'[g].seq <= seq
                                     /\ cut < gens'[g].cut => seq <= gens'[g].seq
        BY <1>1, <4>1, <4>2, EndedInStep
      <4> QED BY <1>4, <2>2, <4>1, <4>3 DEF InStep
    <3>2. manifest'.gen \in 1..NextGen' /\ manifest'.base.gen \in 1..manifest'.gen
      BY <1>2, <1>4, <1>6, <2>2
    <3>3. manifest'.base.gen <= Len(gens') => gens'[manifest'.base.gen].full
      <4>1. CASE build.full
        <5> SUFFICES ASSUME manifest'.base.gen <= Len(gens') PROVE gens'[manifest'.base.gen].full
          OBVIOUS
        <5>1. upto = "record" /\ manifest'.base.gen = n + 1
          BY <1>2, <1>4, <1>6, <2>2, <4>1
        <5> QED BY <1>6, <4>1, <5>1
      <4>2. CASE ~build.full
        BY <1>4, <1>6, <2>2, <4>2
      <4> QED BY <4>1, <4>2
    <3>4. manifest'.seq <= snap[manifest'.gen] /\ manifest'.seq <= manifest'.seq
      BY <1>2, <1>4, <2>2
    <3>5. Sound(manifest, snap)'
      BY <3>1, <3>2, <3>3, <3>4 DEF Sound
    <3> QED BY <1>5, <2>2, <3>5
  <2> QED BY <1>4, <2>1, <2>2
<1>11. Chain(snap)'
  <2>1. manifest'.gen \in {Len(gens'), NextGen'}
    <3>1. CASE upto = "prune"
      BY <1>1, <1>2, <1>4, <1>6, <3>1 DEF Chain, n
    <3>2. CASE upto # "prune"
      BY <1>2, <1>4, <1>6, <3>2
    <3> QED BY <3>1, <3>2
  <2>2. manifest'.gen = 0 => manifest' = NoManifest
    BY <1>1, <1>2, <1>4 DEF Chain
  <2> QED BY <1>1, <1>2, <1>3, <1>7, <1>8, <1>10, <2>1, <2>2 DEF Chain
<1>12. Replica'
  <2>1. Rows' <=> Rows
    <3>1. \A x : TableAt(x)' = TableAt(x)
      BY <1>3 DEF TableAt, Live, LastOf
    <3> QED BY <1>3, <3>1 DEF Rows
  <2>2. wm \in Nat /\ anchor \in Nat
    <3>1. last \in Nat /\ now \in Nat
      BY Bounds
    <3> QED BY <3>1 DEF TypeInv, TypeOK
  <2>3. ASSUME wm # 0
        PROVE  /\ InStep(wm, anchor)' /\ wm <= manifest'.cut /\ anchor <= manifest'.seq
               /\ wm = manifest'.cut => anchor = manifest'.seq
    <3>1. /\ InStep(wm, anchor) /\ wm <= manifest.cut /\ anchor <= manifest.seq
          /\ wm = manifest.cut => anchor = manifest.seq
      BY <2>3 DEF ReplicaInv, Replica
    <3>2. wm < build.cut /\ anchor <= build.seq
      BY <1>2, <2>2, <3>1
    <3>3. InStep(wm, anchor)'
      BY <1>1, <1>3, <2>2, <3>1, <3>2, EndedInStep DEF InStep
    <3> QED BY <1>2, <1>4, <2>2, <3>1, <3>2, <3>3
  <2> QED BY <1>3, <2>1, <2>3 DEF ReplicaInv, Replica
<1>13. Loading(snap)'
  <2> SUFFICES ASSUME cpc = "load" PROVE Loading(snap)'
    BY <1>3 DEF Loading
  <2> DEFINE man == pass.man
  <2>1. Sound(man, snap) /\ pos <= man.seq /\ (man = manifest \/ man.cut < manifest.cut)
    BY DEF ReplicaInv, Loading
  <2>2. Sound(man, snap)'
    <3>1. man.cut <= manifest.cut
      <4>1. man.cut \in Nat
        BY <1>2 DEF Manifest
      <4> QED BY <1>2, <2>1, <4>1
    <3>2. PICK old : old = man
      OBVIOUS
    <3>3. Sound(old, snap)'
      BY <1>2, <1>9, <2>1, <3>1, <3>2
    <3> QED BY <1>3, <3>2, <3>3
  <2>3. man = manifest' \/ man.cut < manifest'.cut
    <3>1. man.cut \in Nat
      BY <1>2 DEF Manifest
    <3> QED BY <1>2, <1>4, <2>1, <3>1
  <2>4. PICK a \in 1..man.gen :
            /\ pass.plan.deltas = a+1..man.gen
            /\ pass.plan.full => a = man.base.gen /\ pass.plan.base = a
            /\ ~pass.plan.full =>
                   /\ wm # 0 /\ (pass.gap => pos = 0 \/ pos + 1 < first)
                   /\ IF a = man.gen THEN anchor = man.seq
                      ELSE gens[a].seq <= anchor /\ \A i \in a+1..man.gen : anchor <= snap[i]
    BY DEF ReplicaInv, Loading
  <2>5. a # man.gen => gens'[a].seq = gens[a].seq
    <3>1. a # man.gen => a \in 1..n
      BY <1>2, <2>1 DEF Sound
    <3> QED BY <1>6, <3>1
  <2> QED BY <1>3, <2>1, <2>2, <2>3, <2>4, <2>5 DEF Loading
<1> QED BY <1>11, <1>12, <1>13 DEF ReplicaInv

-----------------------------------------------------------------------------
(* The whole.                                                              *)

LEMMA InitReplica ==
    ASSUME Init, TypeInv, Keys # {}
    PROVE  \A snap : ReplicaInv(snap)
<1>1. last > 0
  <2>1. Cardinality(Keys) \in Nat
    BY FS_CardinalityType, GenerationsAssumption
  <2>2. PICK k \in Keys : TRUE
    OBVIOUS
  <2>3. PICK i \in DOMAIN log : log[i].k = k
    BY <2>2 DEF Init
  <2>4. DOMAIN log = 1..Len(log) /\ Len(log) \in Nat /\ last = Len(log)
    BY Sizes DEF Init
  <2> QED BY <2>3, <2>4
<1>2. /\ Len(gens) = 0 /\ manifest = NoManifest /\ manifest.gen = 0 /\ NextGen = 1
      /\ ppc = "idle" /\ cpc = "idle" /\ wm = 0
  BY DEF Init, NoManifest, NextGen
<1>3. \A snap : Chain(snap)
  BY <1>1, <1>2 DEF Chain, Row, Unrecorded
<1> QED BY <1>2, <1>3 DEF ReplicaInv, Replica, Loading

LEMMA NextReplica ==
    ASSUME Disorder = {}, TypeInv, TypeInv', NEW snap \in Snaps, ChainOf(snap), ReplicaInv(snap),
           [Next]_vars, NEW next, next = Marked(snap), ChainOf(next)'
    PROVE  ReplicaInv(next)'
<1>1. CASE \/ Postgres \/ Sweeper \/ Publish \/ Expire \/ BuildBegin \/ ProducerCrash
           \/ UNCHANGED vars
  <2>1. UNCHANGED producerVars \/ ppc' # "built"
    BY <1>1 DEF Postgres, Begin, CommitServer, CommitEdge, Sweeper, Advance, Reap, Publish, Expire,
                BuildBegin, ProducerCrash, vars
  <2>2. next = snap
    BY <2>1 DEF Marked, producerVars
  <2> QED BY <1>1, <2>2, OthersReplica
<1>2. ASSUME NEW full \in BOOLEAN, BuildObjects(full) PROVE ReplicaInv(next)'
  <2>1. next = [snap EXCEPT ![NextGen] = Len(log)]
    BY <1>2 DEF BuildObjects, Marked
  <2> QED BY <1>2, <2>1, BuildObjectsReplica
<1>3. ASSUME NEW gone \in SUBSET DOMAIN gens, NEW upto \in {"prune", "put", "record"},
             Finish(gone, upto)
      PROVE  ReplicaInv(next)'
  <2>1. next = snap
    BY <1>3 DEF Finish, Marked
  <2> QED BY <1>3, <2>1, FinishReplica
<1>4. CASE Client
  <2>1. UNCHANGED producerVars
    BY <1>4 DEF Client, Follow, SeedBegin, SeedAborts, SeedCommit, SeedStops, SeedStopsInFull
  <2>2. next = snap
    BY <2>1 DEF Marked, producerVars
  <2> QED BY <1>4, <2>2, FollowReplica, SeedBeginReplica, SeedFailsReplica, SeedCommitReplica,
             SeedStopsReplica DEF Client
<1> QED BY <1>1, <1>2, <1>3, <1>4 DEF Next, Producer

LEMMA ReplicaConverges ==
    ASSUME TypeInv, NEW snap \in Snaps, ChainOf(snap), ReplicaInv(snap)
    PROVE  Converged
<1> SUFFICES ASSUME wm # 0, pos = Len(log), NEW k \in Keys
             PROVE  replica[k] = IF Live(rows[k]) THEN rows[k] ELSE 0
  BY DEF Converged
<1>1. /\ Len(log) \in Nat /\ first <= pos + 1 /\ anchor \in Nat
  <2>1. last \in 0..Len(log) /\ first \in 1..last+1 /\ Len(log) \in Nat /\ anchor \in 0..last
    BY Bounds
  <2> QED BY <2>1
<1>2. PICK x \in anchor..Len(log) : replica[k] = TableAt(x)[k] /\ pos <= x
  BY <1>1 DEF ReplicaInv, Replica, Rows
<1>3. replica[k] = TableAt(Len(log))[k]
  <2>1. x = Len(log)
    BY <1>1, <1>2
  <2> QED BY <1>2, <2>1
<1>4. replica[k] = IF Live(LastOf(k, Len(log))) THEN LastOf(k, Len(log)) ELSE 0
  BY <1>3 DEF TableAt
<1>5. \/ rows[k] = LastOf(k, Len(log))
      \/ rows[k] = 0 /\ ~Live(LastOf(k, Len(log)))
  BY DEF ChainOf, Table
<1>6. ~Live(0)
  BY DEF Live
<1> QED BY <1>4, <1>5, <1>6

\* A seeded client that has read the whole stream has exactly the table's live
\* rows: from whatever full or deltas it was loaded, across whatever gap, fence,
\* abort or restart, and whatever was deleted, reaped, pruned or built again
\* meanwhile.  Stated for a deployment in which none of the disorders happens;
\* TLC refutes it for each of them.
THEOREM ReplicasConverge ==
    ASSUME Disorder = {}
    PROVE  Spec => []Converged
<1> DEFINE Inv == TypeInv /\ \E snap \in Snaps : ChainOf(snap) /\ ReplicaInv(snap)
<1>1. CASE Keys = {}
  <2>1. Converged
    BY <1>1 DEF Converged
  <2> QED BY <2>1, PTL
<1>2. CASE Keys # {}
  <2>1. Init => Inv
    <3> SUFFICES ASSUME Init PROVE Inv
      OBVIOUS
    <3>1. TypeInv
      BY InitTypeInv
    <3>2. PICK snap \in Snaps : ChainOf(snap)
      BY <3>1, InitChain DEF ChainInv
    <3> QED BY <1>2, <3>1, <3>2, InitReplica
  <2>2. Inv /\ [Next]_vars => Inv'
    <3> SUFFICES ASSUME Inv, [Next]_vars PROVE Inv'
      OBVIOUS
    <3>1. TypeInv /\ TypeInv'
      BY NextTypeInv
    <3>2. PICK snap \in Snaps : ChainOf(snap) /\ ReplicaInv(snap)
      OBVIOUS
    <3>3. PICK next : next = Marked(snap)
      OBVIOUS
    <3>4. next \in Snaps' /\ ChainOf(next)'
      BY <3>1, <3>2, <3>3, NextChain DEF Orderly
    <3>5. ReplicaInv(next)'
      BY <3>1, <3>2, <3>3, <3>4, NextReplica
    <3> QED BY <3>1, <3>4, <3>5
  <2>3. Inv => Converged
    BY ReplicaConverges
  <2> HIDE DEF Inv
  <2> QED BY <2>1, <2>2, <2>3, PTL DEF Spec
<1> QED BY <1>1, <1>2
=============================================================================
