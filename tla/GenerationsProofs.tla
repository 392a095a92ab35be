-------------------------- MODULE GenerationsProofs --------------------------
(***************************************************************************)
(* Proofs about Generations, for every table and every value of the        *)
(* bounds: type correctness.                                               *)
(***************************************************************************)
EXTENDS Generations, SequenceTheorems, FiniteSetTheorems, WellFoundedInduction, TLAPS

\* What a manifest names has been reached by the clock, by the stream and by
\* the producer.
Reached(man) == man.cut <= now /\ man.seq <= last /\ man.base.gen <= MaxGens

\* A recorded generation; seqs are at most n.
Record(n) == [cut : Nat, prev : Nat, floor : Nat, full : BOOLEAN,
              state : {"live", "retired", "gone"}, seq : 0..n]

TypeInv ==
    /\ TypeOK
    /\ Len(gens) <= MaxGens
    /\ ppc # "idle" => NextGen \in Gens
    /\ Reached(manifest) /\ Reached(pass.man) /\ pass.plan.base <= MaxGens

-----------------------------------------------------------------------------
(* The largest and the smallest of a set.                                  *)

LEMMA First ==
    ASSUME NEW S \in SUBSET Nat, S # {}
    PROVE  \E m \in S : \A h \in S : m <= h
<1> DEFINE R == OpToRel(<, Nat)
<1>1. \A x, y \in Nat : x < y => <<x, y>> \in R
  BY DEF OpToRel
<1>2. PICK m \in S : \A h \in S : ~ (<<h, m>> \in R)
  <2>1. IsWellFoundedOn(R, Nat)
    BY NatLessThanWellFounded
  <2> HIDE DEF R
  <2> QED BY <2>1, WFMin
<1>3. \A h \in S : ~ (h < m) /\ h \in Nat /\ m \in Nat
  BY <1>1, <1>2
<1> QED BY <1>3

LEMMA MinOf ==
    ASSUME NEW S \in SUBSET Nat, S # {}
    PROVE  Min(S) \in S /\ \A h \in S : Min(S) <= h
BY First DEF Min

LEMMA MaxOf ==
    ASSUME NEW hi \in Nat, NEW S \in SUBSET (0..hi), S # {}
    PROVE  Max(S) \in S /\ \A h \in S : h <= Max(S)
<1> DEFINE U == {u \in Nat : \A h \in S : h <= u}
<1>1. hi \in U
  OBVIOUS
<1>2. PICK u \in U : \A y \in U : u <= y
  <2>1. U \in SUBSET Nat /\ U # {}
    BY <1>1
  <2> HIDE DEF U
  <2> QED BY <2>1, First
<1>3. u \in S
  <2> SUFFICES ASSUME u \notin S PROVE FALSE
    OBVIOUS
  <2>1. \A h \in S : h \in Nat /\ h < u
    BY <1>2
  <2>2. u \in Nat /\ u # 0
    <3>1. PICK h \in S : TRUE
      OBVIOUS
    <3>2. u \in Nat
      BY <1>2
    <3> QED BY <2>1, <3>1, <3>2
  <2>3. \A h \in S : h <= u - 1
    BY <2>1, <2>2
  <2>4. u - 1 \in U
    BY <2>2, <2>3
  <2> QED BY <1>2, <2>2, <2>4
<1>4. \A h \in S : h <= u /\ h \in Nat
  BY <1>2
<1>5. \E m \in S : \A h \in S : m >= h
  BY <1>3, <1>4
<1>6. Max(S) \in S /\ \A h \in S : Max(S) >= h
  BY <1>5 DEF Max
<1> QED BY <1>4, <1>6

LEMMA MaxPair ==
    ASSUME NEW a \in Int, NEW b \in Int
    PROVE  Max({a, b}) = IF a >= b THEN a ELSE b
BY DEF Max

LEMMA MinPair ==
    ASSUME NEW a \in Int, NEW b \in Int
    PROVE  Min({a, b}) = IF a <= b THEN a ELSE b
BY DEF Min

-----------------------------------------------------------------------------
(* What the operators of the model return.                                 *)

LEMMA Sizes ==
    ASSUME TypeInv
    PROVE  /\ Len(log) \in Nat /\ DOMAIN log = 1..Len(log)
           /\ \A i \in 1..Len(log) : log[i] \in Commit
           /\ Len(gens) \in 0..MaxGens /\ DOMAIN gens = 1..Len(gens)
           /\ \A g \in 1..Len(gens) : gens[g] \in Record(last)
           /\ \A i \in 0..Len(log) : Version(i) \in Nat
<1>1. Len(log) \in Nat /\ DOMAIN log = 1..Len(log) /\ \A i \in 1..Len(log) : log[i] \in Commit
  BY DEF TypeInv, TypeOK
<1>2. Len(gens) \in Nat /\ DOMAIN gens = 1..Len(gens) /\ \A g \in 1..Len(gens) : gens[g] \in Record(last)
  <2>1. gens \in Seq(Record(last))
    BY DEF TypeInv, TypeOK, Record
  <2> QED BY <2>1
<1>3. Len(gens) \in 0..MaxGens
  BY <1>2, GenerationsAssumption DEF TypeInv
<1>4. \A i \in 0..Len(log) : Version(i) \in Nat
  BY <1>1 DEF Version, Commit
<1> QED BY <1>1, <1>2, <1>3, <1>4

\* The generations of records gs that may be chosen, and the newest full.
LEMMA Chosen ==
    ASSUME NEW n \in Nat, NEW gs \in Seq(Record(n))
    PROVE  /\ LiveGens(gs) \subseteq 1..Len(gs)
           /\ NewestFull(gs) \in {0} \cup {g \in LiveGens(gs) : gs[g].full}
           /\ \A g \in LiveGens(gs) : gs[g].full => g <= NewestFull(gs)
           /\ Max({0} \cup LiveGens(gs)) \in {0} \cup LiveGens(gs)
           /\ \A g \in LiveGens(gs) : g <= Max({0} \cup LiveGens(gs))
<1>1. Len(gs) \in Nat /\ DOMAIN gs = 1..Len(gs)
  OBVIOUS
<1>2. LiveGens(gs) \subseteq 1..Len(gs)
  BY <1>1 DEF LiveGens
<1>3. {0} \cup LiveGens(gs) \in SUBSET (0..Len(gs)) /\ {0} \cup LiveGens(gs) # {}
  BY <1>1, <1>2
<1>4. /\ {0} \cup {g \in LiveGens(gs) : gs[g].full} \in SUBSET (0..Len(gs))
      /\ {0} \cup {g \in LiveGens(gs) : gs[g].full} # {}
  BY <1>1, <1>2
<1>5. /\ Max({0} \cup LiveGens(gs)) \in {0} \cup LiveGens(gs)
      /\ \A g \in {0} \cup LiveGens(gs) : g <= Max({0} \cup LiveGens(gs))
  BY <1>1, <1>3, MaxOf
<1>6. /\ NewestFull(gs) \in {0} \cup {g \in LiveGens(gs) : gs[g].full}
      /\ \A g \in {0} \cup {h \in LiveGens(gs) : gs[h].full} : g <= NewestFull(gs)
  BY <1>1, <1>4, MaxOf DEF NewestFull
<1> QED BY <1>2, <1>5, <1>6

LEMMA LastGens ==
    ASSUME TypeInv
    PROVE  /\ LiveGens(gens) \subseteq 1..Len(gens)
           /\ LastGen \in {0} \cup LiveGens(gens)
           /\ \A g \in LiveGens(gens) : g <= LastGen
           /\ LastFull \in {0} \cup {g \in LiveGens(gens) : gens[g].full}
           /\ \A g \in LiveGens(gens) : gens[g].full => g <= LastFull
<1>1. last \in Nat /\ gens \in Seq(Record(last))
  <2>1. Len(log) \in Nat
    BY Sizes
  <2> QED BY <2>1 DEF TypeInv, TypeOK, Record
<1> QED BY <1>1, Chosen DEF LastGen, LastFull

LEMMA PlanType ==
    ASSUME NEW man \in Manifest, NEW w \in Nat
    PROVE  /\ planFromManifest(man, w) \in Plan
           /\ planFromManifest(man, w).base = man.base.gen
BY DEF planFromManifest, Manifest, Delta, Plan

LEMMA MergeType ==
    ASSUME TypeInv, NEW r \in [Keys -> 0..Len(log)], NEW content \in SUBSET (0..Len(log))
    PROVE  Merge(r, content) \in [Keys -> 0..Len(log)]
<1> SUFFICES ASSUME NEW k \in Keys PROVE Merge(r, content)[k] \in 0..Len(log)
  BY DEF Merge
<1> DEFINE mine == {i \in content : log[i].k = k}
<1>1. mine # {} => (CHOOSE i \in mine : TRUE) \in 0..Len(log)
  OBVIOUS
<1>2. r[k] \in 0..Len(log) /\ 0 \in 0..Len(log)
  BY Sizes
<1> QED BY <1>1, <1>2 DEF Merge

LEMMA WipedType ==
    ASSUME TypeInv, NEW content \in SUBSET (0..Len(log))
    PROVE  Wiped(content) \in [Keys -> 0..Len(log)]
<1> SUFFICES ASSUME NEW k \in Keys PROVE Wiped(content)[k] \in 0..Len(log)
  BY DEF Wiped
<1> DEFINE mine == {i \in content : log[i].k = k}
<1>1. mine # {} => (CHOOSE i \in mine : TRUE) \in 0..Len(log)
  OBVIOUS
<1>2. 0 \in 0..Len(log)
  BY Sizes
<1> QED BY <1>1, <1>2 DEF Wiped

LEMMA ObjectType ==
    ASSUME TypeInv, NEW g \in 0..MaxGens, NEW kind \in Kinds
    PROVE  Object(g, kind) \in SUBSET (0..Len(log))
<1>1. 0 \in 0..Len(log)
  BY Sizes
<1>2. g # 0 => <<g, kind>> \in Gens \X Kinds
  BY GenerationsAssumption DEF Gens
<1>3. \A o \in Gens \X Kinds : objects[o] \in SUBSET (0..Len(log))
  BY DEF TypeInv, TypeOK
<1> QED BY <1>1, <1>2, <1>3 DEF Object, Gone

\* What a plan makes of the rows, one generation after the other.
LEMMA LoadedStep ==
    ASSUME NEW plan, NEW start
    PROVE  Loaded(plan, start) =
             [n \in 0..MaxGens |->
                IF n = 0 THEN IF plan.full THEN Wiped(Object(plan.base, "full")) ELSE start
                ELSE IF n \in plan.deltas
                     THEN Merge(Loaded(plan, start)[n-1], Object(n, "delta"))
                ELSE Loaded(plan, start)[n-1]]
<1> DEFINE zero == IF plan.full THEN Wiped(Object(plan.base, "full")) ELSE start
           step(r, n) == IF n \in plan.deltas THEN Merge(r, Object(n, "delta")) ELSE r
           Rec(f, m) == f = [n \in 0..m |-> IF n = 0 THEN zero ELSE step(f[n-1], n)]
           Bad == {m \in Nat : ~ \E f : Rec(f, m)}
<1>1. Bad = {}
  <2> SUFFICES ASSUME Bad # {} PROVE FALSE
    OBVIOUS
  <2>1. PICK m \in Bad : \A h \in Bad : m <= h
    <3>1. Bad \in SUBSET Nat
      OBVIOUS
    <3> HIDE DEF Bad
    <3> QED BY <3>1, First
  <2> HIDE DEF zero, step
  <2>2. m # 0
    <3>1. Rec([n \in 0..0 |-> zero], 0)
      OBVIOUS
    <3> QED BY <2>1, <3>1
  <2>3. PICK f : Rec(f, m - 1)
    <3>1. m - 1 \in Nat /\ ~(m <= m - 1)
      BY <2>1, <2>2
    <3>2. m - 1 \notin Bad
      <4> HIDE DEF Bad
      <4> QED BY <2>1, <3>1
    <3> HIDE DEF Rec
    <3> QED BY <3>1, <3>2
  <2>4. Rec([n \in 0..m |-> IF n < m THEN f[n] ELSE step(f[m-1], m)], m)
    BY <2>1, <2>2, <2>3
  <2> QED BY <2>1, <2>4
<1>2. \E f : Rec(f, MaxGens)
  BY <1>1, GenerationsAssumption
<1>3. Loaded(plan, start) = CHOOSE f : Rec(f, MaxGens)
  BY Zenon DEF Loaded
<1>4. Rec(Loaded(plan, start), MaxGens)
  <2> HIDE DEF Rec
  <2> QED BY <1>2, <1>3
<1> QED BY <1>4

LEMMA LoadedType ==
    ASSUME TypeInv, NEW plan \in Plan, plan.base <= MaxGens,
           NEW start \in [Keys -> 0..Len(log)], NEW n \in 0..MaxGens
    PROVE  Loaded(plan, start)[n] \in [Keys -> 0..Len(log)]
<1> DEFINE L == Loaded(plan, start)
           Bad == {m \in Nat : m <= MaxGens /\ L[m] \notin [Keys -> 0..Len(log)]}
<1> SUFFICES ASSUME Bad # {} PROVE FALSE
  OBVIOUS
<1>1. PICK m \in Bad : \A h \in Bad : m <= h
  <2>1. Bad \in SUBSET Nat
    OBVIOUS
  <2> HIDE DEF Bad
  <2> QED BY <2>1, First
<1>2. m \in 0..MaxGens
  BY <1>1, GenerationsAssumption
<1>3. L = [i \in 0..MaxGens |->
                IF i = 0 THEN IF plan.full THEN Wiped(Object(plan.base, "full")) ELSE start
                ELSE IF i \in plan.deltas THEN Merge(L[i-1], Object(i, "delta"))
                ELSE L[i-1]]
  BY LoadedStep
<1>4. L[m] \notin [Keys -> 0..Len(log)]
  BY <1>1
<1> HIDE DEF L
<1>5. CASE m = 0
  <2>1. Object(plan.base, "full") \in SUBSET (0..Len(log))
    BY ObjectType, GenerationsAssumption DEF Plan, Kinds
  <2>2. Wiped(Object(plan.base, "full")) \in [Keys -> 0..Len(log)]
    BY <2>1, WipedType
  <2>3. L[0] \in {Wiped(Object(plan.base, "full")), start}
    BY <1>2, <1>3, <1>5
  <2> QED BY <1>4, <1>5, <2>2, <2>3
<1>6. CASE m # 0
  <2>1. m - 1 \in 0..MaxGens /\ m - 1 \notin Bad
    <3>1. m - 1 \in 0..MaxGens /\ ~(m <= m - 1)
      BY <1>2, <1>6, GenerationsAssumption
    <3> HIDE DEF Bad
    <3> QED BY <1>1, <3>1
  <2>2. L[m-1] \in [Keys -> 0..Len(log)]
    BY <2>1
  <2>3. Object(m, "delta") \in SUBSET (0..Len(log))
    BY <1>2, ObjectType DEF Kinds
  <2>4. Merge(L[m-1], Object(m, "delta")) \in [Keys -> 0..Len(log)]
    BY <2>2, <2>3, MergeType
  <2>5. L[m] \in {Merge(L[m-1], Object(m, "delta")), L[m-1]}
    BY <1>2, <1>3, <1>6
  <2> QED BY <1>4, <2>2, <2>4, <2>5
<1> QED BY <1>5, <1>6

-----------------------------------------------------------------------------
(* The database and the stream.                                            *)

LEMMA InitTypeInv == Init => TypeInv
<1> SUFFICES ASSUME Init PROVE TypeInv
  OBVIOUS
<1>1. Cardinality(Keys) \in Nat
  BY FS_CardinalityType, GenerationsAssumption
<1>2. /\ log \in Seq(Commit) /\ Len(log) = Cardinality(Keys) /\ DOMAIN log = 1..Len(log)
      /\ rows \in [Keys -> 0..Len(log)]
  <2>1. /\ log \in [1..Cardinality(Keys) -> Commit]
        /\ \A k \in Keys : \E i \in DOMAIN log : log[i].k = k
    <3>1. {1} \subseteq Nat /\ {FALSE} \subseteq BOOLEAN
      OBVIOUS
    <3>2. [k : Keys, v : {1}, dead : {FALSE}] \subseteq Commit
      BY <3>1, Zenon DEF Commit
    <3> QED BY <3>2 DEF Init
  <2>2. log \in Seq(Commit) /\ Len(log) = Cardinality(Keys) /\ DOMAIN log = 1..Len(log)
    BY <1>1, <2>1
  <2> DEFINE writer(k) == CHOOSE i \in DOMAIN log : log[i].k = k
  <2>3. \A k \in Keys : writer(k) \in 0..Len(log)
    BY <1>1, <2>1, <2>2
  <2>4. rows = [k \in Keys |-> writer(k)]
    BY DEF Init
  <2> HIDE DEF writer
  <2> QED BY <2>2, <2>3, <2>4
<1>3. gens \in Seq(Record(last)) /\ Len(gens) = 0
  BY DEF Init
<1>4. objects \in [Gens \X Kinds -> SUBSET (0..Len(log))]
  BY <1>1, <1>2 DEF Init, Gone
<1>5. manifest \in Manifest /\ pass \in [man : Manifest, plan : Plan, first : Nat, gap : BOOLEAN, fence : BOOLEAN]
  BY DEF Init, NoManifest, NoPass, NoPlan, Manifest, Plan
<1>6. build \in [seq : 0..last, floor : 0..now, cut : 0..now, gc : Nat, full : BOOLEAN]
  BY <1>1, <1>2 DEF Init, NoBuild
<1>7. Reached(manifest) /\ Reached(pass.man) /\ pass.plan.base <= MaxGens
  BY <1>1, <1>2, GenerationsAssumption DEF Init, NoManifest, NoPass, NoPlan, Reached
<1>8. replica \in [Keys -> 0..Len(log)]
  BY <1>1, <1>2 DEF Init
<1>9. /\ now \in Nat /\ gcw \in Nat /\ open \subseteq 1..now
      /\ last \in 0..Len(log) /\ first \in 1..last+1 /\ ppc \in {"idle", "begun", "built"}
      /\ wm \in 0..now /\ pos \in 0..last /\ anchor \in 0..last
      /\ owed \in BOOLEAN /\ cpc \in {"idle", "load"}
  <2>1. now = 1 /\ gcw = 0 /\ open = {} /\ last = Len(log) /\ first = 1
        /\ wm = 0 /\ pos = 0 /\ anchor = 0 /\ Len(log) \in Nat
    BY <1>1, <1>2 DEF Init
  <2>2. owed \in BOOLEAN /\ cpc \in {"idle", "load"} /\ ppc \in {"idle", "begun", "built"}
    BY DEF Init
  <2> QED BY <2>1, <2>2
<1>10. TypeOK
  BY <1>2, <1>3, <1>4, <1>5, <1>6, <1>8, <1>9 DEF TypeOK, Record
<1> QED BY <1>3, <1>7, <1>10, GenerationsAssumption DEF TypeInv, Init

\* The types that depend on how far the log, the stream and the clock are stay
\* true when these go on.
LEMMA Wider ==
    ASSUME TypeInv, last' >= last, last' \in Nat, now' >= now, now' \in Nat,
           Len(log') >= Len(log), Len(log') \in Nat
    PROVE  /\ gens \in Seq(Record(last'))
           /\ objects \in [Gens \X Kinds -> SUBSET (0..Len(log'))]
           /\ build \in [seq : 0..last', floor : 0..now', cut : 0..now', gc : Nat, full : BOOLEAN]
           /\ replica \in [Keys -> 0..Len(log')] /\ rows \in [Keys -> 0..Len(log')]
           /\ wm \in 0..now' /\ pos \in 0..last' /\ anchor \in 0..last'
           /\ open \subseteq 1..now'
           /\ \A man \in {manifest, pass.man} :
                  man.cut <= now' /\ man.seq <= last' /\ man.base.gen <= MaxGens
<1>1. /\ last \in Nat /\ now \in Nat /\ Len(log) \in Nat /\ MaxGens \in Nat
  BY Sizes, GenerationsAssumption DEF TypeInv, TypeOK
<1>2. 0..last \subseteq 0..last' /\ 0..now \subseteq 0..now' /\ 0..Len(log) \subseteq 0..Len(log')
      /\ 1..now \subseteq 1..now'
  BY <1>1
<1>3. gens \in Seq(Record(last'))
  <2>1. Record(last) \subseteq Record(last')
    BY <1>2 DEF Record
  <2>2. gens \in Seq(Record(last))
    BY DEF TypeInv, TypeOK, Record
  <2> QED BY <2>1, <2>2, SeqMonotonic
<1>4. objects \in [Gens \X Kinds -> SUBSET (0..Len(log'))]
  BY <1>2 DEF TypeInv, TypeOK
<1>5. build \in [seq : 0..last', floor : 0..now', cut : 0..now', gc : Nat, full : BOOLEAN]
  BY <1>2 DEF TypeInv, TypeOK
<1>6. /\ replica \in [Keys -> 0..Len(log')] /\ rows \in [Keys -> 0..Len(log')]
      /\ wm \in 0..now' /\ pos \in 0..last' /\ anchor \in 0..last'
      /\ open \subseteq 1..now'
  BY <1>2 DEF TypeInv, TypeOK
<1>7. \A man \in {manifest, pass.man} :
                  man.cut <= now' /\ man.seq <= last' /\ man.base.gen <= MaxGens
  <2>1. manifest \in Manifest /\ pass.man \in Manifest
    BY DEF TypeInv, TypeOK
  <2>2. \A man \in {manifest, pass.man} : /\ man.cut \in Nat /\ man.seq \in Nat
                                          /\ man.cut <= now /\ man.seq <= last /\ man.base.gen <= MaxGens
    BY <2>1 DEF Manifest, TypeInv, Reached
  <2>3. now \in Nat /\ last \in Nat /\ now' \in Nat /\ last' \in Nat
    BY <1>1
  <2>4. ASSUME NEW c \in Nat, NEW s \in Nat, c <= now, s <= last
        PROVE  c <= now' /\ s <= last'
    BY <1>1, <2>3, <2>4
  <2> QED BY <2>2, <2>4
<1> QED BY <1>3, <1>4, <1>5, <1>6, <1>7

LEMMA WriteType ==
    ASSUME TypeInv, NEW k \in Keys, NEW v \in Nat, NEW dead \in BOOLEAN, Write(k, v, dead),
           now' >= now, now' \in Nat, open' \subseteq 1..now',
           UNCHANGED <<gcw, chainVars, streamVars, producerVars, clientVars>>
    PROVE  TypeInv'
<1>1. log' \in Seq(Commit) /\ Len(log') = Len(log) + 1 /\ Len(log) \in Nat
  BY Sizes DEF TypeInv, TypeOK, Write, Commit
<1>2. last' = last /\ last \in Nat /\ last \in 0..Len(log) /\ first \in 1..last+1
  BY <1>1 DEF TypeInv, TypeOK, streamVars
<1>3. /\ gens \in Seq(Record(last'))
      /\ objects \in [Gens \X Kinds -> SUBSET (0..Len(log'))]
      /\ build \in [seq : 0..last', floor : 0..now', cut : 0..now', gc : Nat, full : BOOLEAN]
      /\ replica \in [Keys -> 0..Len(log')] /\ rows \in [Keys -> 0..Len(log')]
      /\ wm \in 0..now' /\ pos \in 0..last' /\ anchor \in 0..last'
      /\ \A man \in {manifest, pass.man} :
                  man.cut <= now' /\ man.seq <= last' /\ man.base.gen <= MaxGens
  BY <1>1, <1>2, Wider
<1>4. rows' \in [Keys -> 0..Len(log')]
  <2>1. rows' = [rows EXCEPT ![k] = Len(log) + 1]
    BY DEF Write
  <2>2. Len(log) + 1 \in 0..Len(log')
    BY <1>1
  <2> QED BY <1>3, <2>1, <2>2
<1>5. UNCHANGED <<gcw, gens, objects, manifest, last, first, stored, build, ppc, replica, wm, pos,
                 anchor, owed, pass, cpc>>
  BY DEF chainVars, streamVars, producerVars, clientVars, stored
<1>6. TypeOK'
  <2>1. gens' \in Seq([cut : Nat, prev : Nat, floor : Nat, full : BOOLEAN,
                        state : {"live", "retired", "gone"}, seq : 0..last'])
    BY <1>3, <1>5 DEF Record
  <2>2. /\ gcw' \in Nat /\ last' \in 0..Len(log') /\ first' \in 1..last'+1
        /\ manifest' \in Manifest /\ ppc' \in {"idle", "begun", "built"}
        /\ pass' \in [man : Manifest, plan : Plan, first : Nat, gap : BOOLEAN, fence : BOOLEAN]
        /\ owed' \in BOOLEAN /\ cpc' \in {"idle", "load"}
    BY <1>1, <1>2, <1>5 DEF TypeInv, TypeOK
  <2> QED BY <1>1, <1>3, <1>4, <1>5, <2>1, <2>2 DEF TypeOK
<1> QED BY <1>3, <1>5, <1>6 DEF TypeInv, Reached, NextGen

LEMMA PostgresType ==
    ASSUME TypeInv, Postgres
    PROVE  TypeInv'
<1>1. now \in Nat /\ open \subseteq 1..now /\ last \in Nat /\ Len(log) \in Nat
  BY Sizes DEF TypeInv, TypeOK
<1>2. CASE Begin
  <2>1. now' = now + 1 /\ open' = open \cup {now'}
        /\ UNCHANGED <<log, rows, gcw, chainVars, streamVars, producerVars, clientVars>>
    BY <1>2 DEF Begin
  <2>2. last' = last /\ Len(log') = Len(log)
    BY <2>1 DEF streamVars
  <2>3. /\ build \in [seq : 0..last', floor : 0..now', cut : 0..now', gc : Nat, full : BOOLEAN]
        /\ wm \in 0..now' /\ open \subseteq 1..now'
        /\ \A man \in {manifest, pass.man} :
                  man.cut <= now' /\ man.seq <= last' /\ man.base.gen <= MaxGens
    BY <1>1, <2>1, <2>2, Wider
  <2>4. open' \subseteq 1..now' /\ now' \in Nat
    BY <1>1, <2>1, <2>3
  <2>5. TypeOK'
    BY <2>1, <2>2, <2>3, <2>4
       DEF TypeInv, TypeOK, chainVars, streamVars, producerVars, clientVars, stored
  <2> QED BY <2>1, <2>3, <2>5 DEF TypeInv, Reached, NextGen, chainVars, producerVars, clientVars
<1>3. ASSUME NEW k \in Keys, NEW start \in open, NEW dead \in BOOLEAN, CommitServer(k, start, dead)
      PROVE  TypeInv'
  <2>1. Write(k, start, dead) /\ now' = now /\ open' = open \ {start}
        /\ UNCHANGED <<gcw, chainVars, streamVars, producerVars, clientVars>>
    BY <1>3 DEF CommitServer
  <2>2. start \in Nat /\ open' \subseteq 1..now'
    BY <1>1, <2>1
  <2> QED BY <1>1, <2>1, <2>2, WriteType
<1>4. ASSUME NEW k \in Keys, NEW dead \in BOOLEAN, NEW v \in 1..MaxClock+Tolerance,
             CommitEdge(k, v, dead)
      PROVE  TypeInv'
  <2>1. Write(k, v, dead) /\ now' = now + 1 /\ open' = open
        /\ UNCHANGED <<gcw, chainVars, streamVars, producerVars, clientVars>>
    BY <1>4 DEF CommitEdge
  <2>2. now' \in Nat /\ now' >= now /\ open' \subseteq 1..now' /\ v \in Nat
    BY <1>1, <2>1, GenerationsAssumption
  <2> QED BY <2>1, <2>2, WriteType
<1> QED BY <1>2, <1>3, <1>4 DEF Postgres

LEMMA SweeperStreamType ==
    ASSUME TypeInv, Sweeper \/ Publish \/ Expire
    PROVE  TypeInv'
<1>1. now \in Nat /\ open \subseteq 1..now /\ last \in Nat /\ Len(log) \in Nat
      /\ last \in 0..Len(log) /\ first \in 1..last+1
  BY Sizes DEF TypeInv, TypeOK
<1>2. CASE Advance
  <2>1. gcw' \in Nat
    BY <1>1, <1>2, GenerationsAssumption DEF Advance, TypeInv, TypeOK
  <2> QED BY <1>2, <2>1 DEF TypeInv, TypeOK, Advance, Reached, NextGen,
             chainVars, streamVars, producerVars, clientVars, stored
<1>3. ASSUME NEW k \in Keys, Reap(k) PROVE TypeInv'
  <2>1. rows' \in [Keys -> 0..Len(log)]
    <3>1. rows' = [rows EXCEPT ![k] = 0] /\ rows \in [Keys -> 0..Len(log)]
      BY <1>3 DEF Reap, TypeInv, TypeOK
    <3> QED BY <1>1, <3>1
  <2> QED BY <1>3, <2>1 DEF TypeInv, TypeOK, Reap, Reached, NextGen,
             chainVars, streamVars, producerVars, clientVars, stored
<1>4. CASE Publish
  <2>1. last' = last + 1 /\ last' \in 0..Len(log) /\ first \in 1..last'+1
        /\ UNCHANGED <<pgVars, chainVars, first, producerVars, clientVars>>
    BY <1>1, <1>4 DEF Publish
  <2>2. log' = log /\ now' = now
    BY <2>1 DEF pgVars
  <2>3. /\ gens \in Seq(Record(last'))
        /\ build \in [seq : 0..last', floor : 0..now', cut : 0..now', gc : Nat, full : BOOLEAN]
        /\ pos \in 0..last' /\ anchor \in 0..last'
        /\ \A man \in {manifest, pass.man} :
                  man.cut <= now' /\ man.seq <= last' /\ man.base.gen <= MaxGens
    BY <1>1, <2>1, <2>2, Wider
  <2>4. TypeOK'
    BY <2>1, <2>2, <2>3
       DEF TypeInv, TypeOK, Record, pgVars, chainVars, producerVars, clientVars, stored
  <2> QED BY <2>1, <2>3, <2>4 DEF TypeInv, Reached, NextGen, chainVars, producerVars, clientVars
<1>5. CASE Expire
  <2>1. first' \in 1..last+1
    BY <1>1, <1>5 DEF Expire
  <2> QED BY <1>5, <2>1 DEF TypeInv, TypeOK, Expire, Reached, NextGen,
             pgVars, chainVars, producerVars, clientVars, stored
<1> QED BY <1>2, <1>3, <1>4, <1>5 DEF Sweeper

-----------------------------------------------------------------------------
(* The producer.                                                           *)

LEMMA BuildBeginType ==
    ASSUME TypeInv, BuildBegin
    PROVE  TypeInv' /\ build'.floor \in 0..now' /\ \A start \in open : build'.floor <= start
<1>1. now \in Nat /\ open \subseteq 1..now /\ last \in Nat /\ Len(log) \in Nat
  BY Sizes DEF TypeInv, TypeOK
<1>2. now' = now + 1 /\ NextGen \in Gens
      /\ UNCHANGED <<open, log, rows, gcw, chainVars, streamVars, clientVars>>
  BY DEF BuildBegin
<1>3. last' = last /\ Len(log') = Len(log)
  BY <1>2 DEF streamVars
<1>4. /\ Min({now'} \cup open) \in {now'} \cup open
      /\ \A start \in {now'} \cup open : Min({now'} \cup open) <= start
  <2>1. {now'} \cup open \in SUBSET Nat /\ {now'} \cup open # {}
    BY <1>1, <1>2
  <2> QED BY <2>1, MinOf
<1>5. build' = [seq |-> last, floor |-> Min({now'} \cup open), cut |-> 0, gc |-> 0, full |-> FALSE]
  BY DEF BuildBegin, NoBuild
<1>6. Min({now'} \cup open) \in 0..now' /\ 0 \in 0..now' /\ last \in 0..last'
  <2>1. \A start \in {now'} \cup open : start \in 0..now'
    BY <1>1, <1>2
  <2>2. Min({now'} \cup open) \in 0..now'
    BY <1>4, <2>1
  <2> QED BY <1>1, <1>2, <1>3, <2>2
<1>7. build' \in [seq : 0..last', floor : 0..now', cut : 0..now', gc : Nat, full : BOOLEAN]
  BY <1>5, <1>6
<1>8. /\ wm \in 0..now' /\ open \subseteq 1..now'
      /\ \A man \in {manifest, pass.man} :
                  man.cut <= now' /\ man.seq <= last' /\ man.base.gen <= MaxGens
  BY <1>1, <1>2, <1>3, Wider
<1>9. TypeOK'
  <2>1. now' \in Nat /\ ppc' \in {"idle", "begun", "built"}
    BY <1>1, <1>2 DEF BuildBegin
  <2> QED BY <1>2, <1>3, <1>7, <1>8, <2>1
     DEF TypeInv, TypeOK, chainVars, streamVars, clientVars, stored
<1>10. TypeInv'
  BY <1>2, <1>8, <1>9 DEF TypeInv, Reached, NextGen, chainVars, clientVars
<1> QED BY <1>4, <1>5, <1>6, <1>10

LiveRows == {rows[k] : k \in {j \in Keys : Live(rows[j])}}
LateRows == {rows[k] : k \in {j \in Keys : rows[j] # 0 /\ Version(rows[j]) >= LowerBound}}

\* The objects a build leaves in the store.
LEMMA ObjectsBuilt ==
    ASSUME TypeInv, NEW full \in BOOLEAN, BuildObjects(full)
    PROVE  /\ NextGen \in Gens
           /\ objects' \in [Gens \X Kinds -> SUBSET (0..Len(log))]
           /\ full => objects'[<<NextGen, "full">>] = LiveRows
           /\ LastGen # 0 => objects'[<<NextGen, "delta">>] = LateRows
           /\ \A g \in Gens, kind \in Kinds :
                  g # NextGen => objects'[<<g, kind>>] = objects[<<g, kind>>]
<1>1. NextGen \in Gens
  BY DEF TypeInv, BuildObjects
<1>2. /\ LiveRows \in SUBSET (0..Len(log)) /\ LateRows \in SUBSET (0..Len(log))
  BY DEF LiveRows, LateRows, TypeInv, TypeOK
<1> DEFINE made(o) ==
          CASE o = <<NextGen, "full">> /\ full -> LiveRows
            [] o = <<NextGen, "delta">> /\ LastGen # 0 -> LateRows
            [] OTHER -> objects[o]
<1>3. objects' = [o \in Gens \X Kinds |-> made(o)]
  BY DEF BuildObjects, LiveRows, LateRows
<1>4. /\ full => made(<<NextGen, "full">>) = LiveRows
      /\ LastGen # 0 => made(<<NextGen, "delta">>) = LateRows
      /\ \A o : made(o) \in {LiveRows, LateRows, objects[o]}
      /\ \A g, kind : g # NextGen => made(<<g, kind>>) = objects[<<g, kind>>]
  OBVIOUS
<1> HIDE DEF made
<1>5. \A o \in Gens \X Kinds : objects[o] \in SUBSET (0..Len(log))
  BY DEF TypeInv, TypeOK
<1>6. objects' \in [Gens \X Kinds -> SUBSET (0..Len(log))]
  <2>1. \A o \in Gens \X Kinds : made(o) \in SUBSET (0..Len(log))
    BY <1>2, <1>4, <1>5
  <2> QED BY <1>3, <2>1
<1>7. <<NextGen, "full">> \in Gens \X Kinds /\ <<NextGen, "delta">> \in Gens \X Kinds
  BY <1>1 DEF Kinds
<1>8. \A g \in Gens, kind \in Kinds : objects'[<<g, kind>>] = made(<<g, kind>>)
  BY <1>3
<1> QED BY <1>1, <1>3, <1>4, <1>6, <1>7, <1>8

LEMMA BuildObjectsType ==
    ASSUME TypeInv, NEW full \in BOOLEAN, BuildObjects(full)
    PROVE  TypeInv'
<1>1. objects' \in [Gens \X Kinds -> SUBSET (0..Len(log))] /\ NextGen \in Gens
  BY ObjectsBuilt
<1>2. build' = [build EXCEPT !.cut = now, !.gc = gcw, !.full = full]
  BY DEF BuildObjects
<1>3. build' \in [seq : 0..last, floor : 0..now, cut : 0..now, gc : Nat, full : BOOLEAN]
  <2>1. build \in [seq : 0..last, floor : 0..now, cut : 0..now, gc : Nat, full : BOOLEAN]
        /\ now \in Nat /\ gcw \in Nat
    BY DEF TypeInv, TypeOK
  <2>2. build' = [seq |-> build.seq, floor |-> build.floor, cut |-> now, gc |-> gcw, full |-> full]
    BY <1>2, <2>1
  <2>3. build.seq \in 0..last /\ build.floor \in 0..now /\ now \in 0..now
    BY <2>1
  <2> QED BY <2>1, <2>2, <2>3
<1>4. TypeOK'
  BY <1>1, <1>3 DEF TypeInv, TypeOK, BuildObjects, pgVars, streamVars, clientVars, stored
<1> QED BY <1>1, <1>4 DEF TypeInv, BuildObjects, Reached, NextGen, pgVars, streamVars, clientVars

\* A recorded generation given another state is otherwise what it was.
LEMMA Restated ==
    ASSUME NEW n, NEW r \in Record(n), NEW s \in {"live", "retired", "gone"},
           NEW q, q = [r EXCEPT !.state = s]
    PROVE  /\ q \in Record(n) /\ q.state = s
           /\ q.cut = r.cut /\ q.prev = r.prev /\ q.floor = r.floor
           /\ q.full = r.full /\ q.seq = r.seq
BY DEF Record

\* What pruning leaves of the recorded generations.
LEMMA Kept ==
    ASSUME TypeInv, NEW gone \in SUBSET DOMAIN gens
    PROVE  /\ PruneChain(gone) \in Seq(Record(last)) /\ Len(PruneChain(gone)) = Len(gens)
           /\ \A g \in 1..Len(gens) : \A f \in {"cut", "prev", "floor", "full", "seq"} :
                  PruneChain(gone)[g][f] = gens[g][f]
           /\ \A g \in 1..Len(gens) : PruneChain(gone)[g].state =
                  IF g \in gone THEN "gone"
                  ELSE IF gens[g].state = "live" /\ g <= KeepFrom THEN "retired"
                  ELSE gens[g].state
<1>1. /\ Len(gens) \in Nat /\ DOMAIN gens = 1..Len(gens)
      /\ \A g \in 1..Len(gens) : gens[g] \in Record(last)
  BY Sizes
<1> DEFINE kept == PruneChain(gone)
           state(g) == IF g \in gone THEN "gone"
                       ELSE IF gens[g].state = "live" /\ g <= KeepFrom THEN "retired"
                       ELSE gens[g].state
<1>2. kept = [g \in 1..Len(gens) |-> [gens[g] EXCEPT !.state = state(g)]]
  BY <1>1 DEF PruneChain
<1>3. \A g \in 1..Len(gens) : state(g) \in {"live", "retired", "gone"}
  BY <1>1 DEF Record
<1> HIDE DEF state
<1>4. \A g \in 1..Len(gens) : kept[g] = [gens[g] EXCEPT !.state = state(g)]
  BY <1>2
<1>5. ASSUME NEW g \in 1..Len(gens)
      PROVE  /\ kept[g] \in Record(last) /\ kept[g].state = state(g)
             /\ kept[g].cut = gens[g].cut /\ kept[g].prev = gens[g].prev
             /\ kept[g].floor = gens[g].floor /\ kept[g].full = gens[g].full
             /\ kept[g].seq = gens[g].seq
  <2>1. /\ gens[g] \in Record(last) /\ state(g) \in {"live", "retired", "gone"}
        /\ kept[g] = [gens[g] EXCEPT !.state = state(g)]
    BY <1>1, <1>3, <1>4
  <2> HIDE DEF kept
  <2> QED BY <2>1, Restated
<1>6. kept \in Seq(Record(last)) /\ Len(kept) = Len(gens)
  <2>1. kept \in [1..Len(gens) -> Record(last)]
    BY <1>2, <1>4, <1>5
  <2> HIDE DEF kept
  <2> QED BY <1>1, <2>1
<1>7. \A g \in 1..Len(gens) : /\ kept[g].state = state(g)
                              /\ \A f \in {"cut", "prev", "floor", "full", "seq"} :
                                     kept[g][f] = gens[g][f]
  <2> HIDE DEF kept
  <2> QED BY <1>5
<1> QED BY <1>6, <1>7 DEF state

LEMMA NewManifestType ==
    ASSUME TypeInv, ppc = "built", NEW gone \in SUBSET DOMAIN gens
    PROVE  /\ NewManifest(PruneChain(gone)) \in Manifest
           /\ Reached(NewManifest(PruneChain(gone)))
<1> DEFINE kept == PruneChain(gone)
           man  == NewManifest(kept)
           base == NewestFull(kept)
<1>1. /\ Len(gens) \in 0..MaxGens /\ MaxGens \in Nat /\ NextGen \in Gens /\ last \in Nat /\ now \in Nat
      /\ build.cut \in 0..now /\ build.seq \in 0..last /\ build.gc \in Nat /\ build.full \in BOOLEAN
  BY Sizes, GenerationsAssumption DEF TypeInv, TypeOK
<1>2. kept \in Seq(Record(last)) /\ Len(kept) = Len(gens)
  BY Kept
<1>3. \A g \in 1..Len(gens) : kept[g].cut \in Nat /\ kept[g].prev \in Nat
  <2> HIDE DEF kept
  <2>1. \A g \in 1..Len(gens) : kept[g] \in Record(last)
    BY <1>2, ElementOfSeq
  <2> QED BY <2>1 DEF Record
<1>4. LiveGens(kept) \subseteq 1..Len(gens) /\ base \in {0} \cup LiveGens(kept)
  <2> HIDE DEF kept
  <2> QED BY <1>1, <1>2, Chosen
<1>5. LastGen # 0 => gens[LastGen].cut \in Nat
  BY Sizes, LastGens DEF Record
<1> HIDE DEF kept
<1>6. ListedDeltas(kept) \subseteq Delta
  <2>1. \A g \in LiveGens(kept) : [gen |-> g, prev |-> kept[g].prev, cut |-> kept[g].cut] \in Delta
    BY <1>1, <1>3, <1>4 DEF Delta
  <2>2. LastGen # 0 => [gen |-> NextGen, prev |-> gens[LastGen].cut, cut |-> build.cut] \in Delta
    BY <1>1, <1>5 DEF Delta, Gens
  <2> QED BY <2>1, <2>2 DEF ListedDeltas
<1> DEFINE named == IF build.full THEN [gen |-> NextGen, cut |-> build.cut]
                    ELSE [gen |-> base, cut |-> IF base = 0 THEN 0 ELSE kept[base].cut]
<1>7. named \in [gen : Nat, cut : Nat] /\ named.gen <= MaxGens
  <2>1. base \in 0..MaxGens /\ NextGen \in 0..MaxGens
    BY <1>1, <1>4 DEF Gens
  <2>2. (IF base = 0 THEN 0 ELSE kept[base].cut) \in Nat
    BY <1>3, <1>4
  <2> HIDE DEF base
  <2> QED BY <1>1, <2>1, <2>2
<1>8. man = [gen |-> NextGen, cut |-> build.cut, seq |-> build.seq, gc |-> build.gc,
             base |-> named, deltas |-> ListedDeltas(kept)]
  BY DEF NewManifest
<1> HIDE DEF named, man
<1>9. man \in Manifest
  BY <1>1, <1>6, <1>7, <1>8 DEF Manifest, Gens
<1>10. Reached(man)
  BY <1>1, <1>7, <1>8 DEF Reached
<1> QED BY <1>9, <1>10 DEF man, kept

LEMMA FinishType ==
    ASSUME TypeInv, NEW gone \in SUBSET DOMAIN gens, NEW upto \in {"prune", "put", "record"},
           Finish(gone, upto)
    PROVE  TypeInv'
<1> DEFINE kept == PruneChain(gone)
<1>1. ppc = "built" /\ ppc' = "idle" /\ build' = NoBuild /\ UNCHANGED <<pgVars, streamVars, clientVars>>
      /\ objects' = [o \in Gens \X Kinds |-> IF o[1] \in gone THEN Gone ELSE objects[o]]
      /\ manifest' = (IF upto = "prune" THEN manifest ELSE NewManifest(kept))
      /\ gens' = IF upto = "record" THEN Append(kept, NewRow) ELSE kept
  BY DEF Finish
<1>2. /\ Len(gens) \in 0..MaxGens /\ MaxGens \in Nat /\ NextGen \in Gens /\ last \in Nat /\ now \in Nat
      /\ build.cut \in 0..now /\ build.seq \in 0..last /\ build.gc \in Nat /\ build.full \in BOOLEAN
      /\ build.floor \in 0..now /\ Len(log) \in Nat
  BY <1>1, Sizes, GenerationsAssumption DEF TypeInv, TypeOK
<1>3. manifest' \in Manifest /\ Reached(manifest')
  BY <1>1, NewManifestType DEF TypeInv, TypeOK
<1>4. NewRow \in Record(last)
  <2>1. LastGen # 0 => gens[LastGen].cut \in Nat
    BY Sizes, LastGens DEF Record
  <2> QED BY <1>2, <2>1 DEF NewRow, Record
<1>5. kept \in Seq(Record(last)) /\ Len(kept) = Len(gens)
  BY Kept
<1>6. gens' \in Seq(Record(last)) /\ Len(gens') \in {Len(gens), Len(gens) + 1}
  <2> HIDE DEF kept
  <2> QED BY <1>1, <1>4, <1>5, AppendProperties
<1>7. Len(gens') <= MaxGens
  BY <1>2, <1>6 DEF NextGen, Gens
<1>8. objects' \in [Gens \X Kinds -> SUBSET (0..Len(log))]
  BY <1>1, <1>2 DEF TypeInv, TypeOK, Gone
<1>9. build' \in [seq : 0..last, floor : 0..now, cut : 0..now, gc : Nat, full : BOOLEAN]
  BY <1>1, <1>2 DEF NoBuild
<1>10. TypeOK'
  BY <1>1, <1>3, <1>6, <1>8, <1>9 DEF TypeInv, TypeOK, Record, pgVars, streamVars, clientVars, stored
<1> QED BY <1>1, <1>3, <1>7, <1>10 DEF TypeInv, Reached, pgVars, streamVars, clientVars

LEMMA CrashType ==
    ASSUME TypeInv, ProducerCrash
    PROVE  TypeInv'
<1>1. now \in Nat /\ last \in Nat
  BY Sizes DEF TypeInv, TypeOK
<1>2. build' \in [seq : 0..last, floor : 0..now, cut : 0..now, gc : Nat, full : BOOLEAN]
  BY <1>1 DEF ProducerCrash, NoBuild
<1> QED BY <1>2 DEF TypeInv, TypeOK, ProducerCrash, Reached, NextGen,
           pgVars, chainVars, streamVars, clientVars, stored

-----------------------------------------------------------------------------
(* The client.                                                             *)

LEMMA FollowType ==
    ASSUME TypeInv, Follow
    PROVE  TypeInv'
<1>1. /\ last \in 0..Len(log) /\ pos \in 0..last /\ Len(log) \in Nat /\ last \in Nat
      /\ replica \in [Keys -> 0..Len(log)]
  BY Sizes DEF TypeInv, TypeOK
<1>2. pos + 1 \in 0..last /\ pos + 1 \in 1..Len(log)
  BY <1>1 DEF Follow
<1>3. log[pos+1].k \in Keys
  BY <1>2, Sizes DEF Commit
<1>4. Upsert(replica, pos + 1) \in [Keys -> 0..Len(log)]
  BY <1>1, <1>2, <1>3 DEF Upsert
<1>5. replica' \in [Keys -> 0..Len(log)] /\ pos' \in 0..last
  BY <1>1, <1>2, <1>4 DEF Follow
<1> QED BY <1>5 DEF TypeInv, TypeOK, Follow, Reached, NextGen,
           pgVars, chainVars, streamVars, producerVars

PassType == [man : Manifest, plan : Plan, first : Nat, gap : BOOLEAN, fence : BOOLEAN]

LEMMA NoPassType ==
    ASSUME TypeInv
    PROVE  NoPass \in PassType /\ Reached(NoPass.man) /\ NoPass.plan.base <= MaxGens
<1>1. NoPass \in PassType
  BY DEF NoPass, PassType, NoManifest, NoPlan, Manifest, Plan
<1>2. now \in Nat /\ last \in Nat
  BY Sizes DEF TypeInv, TypeOK
<1> QED BY <1>1, <1>2, GenerationsAssumption DEF NoPass, NoManifest, NoPlan, Reached

LEMMA SeedBeginType ==
    ASSUME TypeInv, SeedBegin
    PROVE  TypeInv'
<1> DEFINE plan == planFromManifest(manifest, wm)
           fence == fullPredatesReplica(manifest, plan, pos) \/ owed
<1>1. /\ now \in Nat /\ last \in Nat /\ wm \in 0..now /\ pos \in 0..last /\ anchor \in 0..last
      /\ first \in Nat /\ manifest \in Manifest /\ Reached(manifest)
  BY Sizes DEF TypeInv, TypeOK
<1>2. pass' = [man |-> manifest, plan |-> plan, first |-> first,
               gap |-> streamHasGap(first, pos), fence |-> fence]
  BY DEF SeedBegin
<1>3. plan \in Plan /\ plan.base = manifest.base.gen
  BY <1>1, PlanType
<1>4. streamHasGap(first, pos) \in BOOLEAN /\ fence \in BOOLEAN
  BY DEF streamHasGap, fullPredatesReplica, TypeInv, TypeOK
<1>5. pass' \in PassType /\ Reached(pass'.man) /\ pass'.plan.base <= MaxGens
  <2> HIDE DEF plan, fence
  <2> QED BY <1>1, <1>2, <1>3, <1>4 DEF PassType, Reached
<1>6. wm' \in 0..now /\ anchor' \in 0..last /\ owed' \in BOOLEAN
  <2>1. wm' \in {wm, 0} /\ anchor' \in {anchor, 0} /\ owed' \in {owed, TRUE}
    BY Zenon DEF SeedBegin
  <2>2. wm' \in 0..now /\ anchor' \in 0..last
    BY <1>1, <2>1
  <2>3. owed' \in BOOLEAN
    BY <2>1 DEF TypeInv, TypeOK
  <2> QED BY <2>2, <2>3
<1>7. pos' \in 0..last
  <2>1. manifest.seq \in 0..last
    BY <1>1 DEF Manifest, Reached
  <2>2. Min({pos, manifest.seq}) \in 0..last
    BY <1>1, <2>1, MinPair
  <2> QED BY <1>1, <2>2 DEF SeedBegin
<1>8. UNCHANGED <<pgVars, chainVars, streamVars, producerVars, replica>> /\ cpc' = "load"
  BY DEF SeedBegin
<1>9. TypeOK'
  BY <1>5, <1>6, <1>7, <1>8 DEF TypeInv, TypeOK, PassType, pgVars, chainVars, streamVars, producerVars
<1> QED BY <1>5, <1>8, <1>9 DEF TypeInv, Reached, NextGen, pgVars, chainVars, streamVars, producerVars

\* The end of a pass that loaded some of its plan.
LEMMA LoadType ==
    ASSUME TypeInv, replica' \in [Keys -> 0..Len(log)], pass' = NoPass, cpc' = "idle",
           wm' \in 0..now, anchor' \in 0..last, owed' \in BOOLEAN, pos' \in 0..last,
           UNCHANGED <<pgVars, chainVars, streamVars, producerVars>>
    PROVE  TypeInv'
<1>1. NoPass \in PassType /\ Reached(NoPass.man) /\ NoPass.plan.base <= MaxGens
  BY NoPassType
<1>2. TypeOK'
  BY <1>1 DEF TypeInv, TypeOK, PassType, pgVars, chainVars, streamVars, producerVars
<1> QED BY <1>1, <1>2 DEF TypeInv, Reached, NextGen, pgVars, chainVars, streamVars, producerVars

LEMMA PositionMoves ==
    ASSUME NEW hi \in Nat, NEW from \in 0..hi, NEW to \in 0..hi, NEW f \in Nat
    PROVE  streamResume(from, f, to) \in 0..hi /\ streamSplice(from, f, to) \in 0..hi
BY MaxPair DEF streamResume, streamSplice

LEMMA SeedCommitType ==
    ASSUME TypeInv, NEW moved \in BOOLEAN, SeedCommit(moved)
    PROVE  TypeInv'
<1>1. /\ now \in Nat /\ last \in Nat /\ pos \in 0..last /\ replica \in [Keys -> 0..Len(log)]
      /\ pass.man \in Manifest /\ Reached(pass.man) /\ pass.plan \in Plan /\ pass.first \in Nat
      /\ pass.plan.base <= MaxGens
  BY Sizes DEF TypeInv, TypeOK
<1>2. pass.man.cut \in 0..now /\ pass.man.seq \in 0..last
  BY <1>1 DEF Manifest, Reached
<1>3. replica' \in [Keys -> 0..Len(log)]
  <2>1. MaxGens \in 0..MaxGens
    BY GenerationsAssumption
  <2>2. replica' = Loaded(pass.plan, replica)[MaxGens]
    BY DEF SeedCommit
  <2> QED BY <1>1, <2>1, <2>2, LoadedType
<1>4. pos' \in 0..last
  BY <1>1, <1>2, PositionMoves DEF SeedCommit
<1>5. /\ wm' = pass.man.cut /\ anchor' = pass.man.seq /\ owed' = FALSE /\ cpc' = "idle" /\ pass' = NoPass
      /\ UNCHANGED <<pgVars, chainVars, streamVars, producerVars>>
  BY DEF SeedCommit
<1> QED BY <1>2, <1>3, <1>4, <1>5, LoadType

LEMMA SeedFailsType ==
    ASSUME TypeInv,
           \/ SeedAborts
           \/ \E n \in 0..MaxGens, chunks \in SUBSET (1..Len(log)) : SeedStops(n, chunks)
           \/ \E chunks \in SUBSET (1..Len(log)) : SeedStopsInFull(chunks)
    PROVE  TypeInv'
<1>1. /\ now \in Nat /\ last \in Nat /\ pos \in 0..last /\ replica \in [Keys -> 0..Len(log)]
      /\ wm \in 0..now /\ anchor \in 0..last /\ owed \in BOOLEAN
      /\ pass.plan \in Plan /\ pass.plan.base <= MaxGens
  BY Sizes DEF TypeInv, TypeOK
<1>2. CASE SeedAborts
  <2>1. UNCHANGED <<pgVars, chainVars, streamVars, producerVars, stored>> /\ cpc' = "idle" /\ pass' = NoPass
    BY <1>2 DEF SeedAborts
  <2>2. UNCHANGED <<pgVars, chainVars, streamVars, producerVars>>
    BY <2>1
  <2>3. replica' = replica /\ wm' = wm /\ anchor' = anchor /\ owed' = owed /\ pos' = pos
    BY <2>1 DEF stored
  <2> QED BY <1>1, <2>1, <2>2, <2>3, LoadType
<1>3. OweReplacement => wm' \in 0..now /\ anchor' \in 0..last /\ owed' \in BOOLEAN
  <2>1. OweReplacement => wm' \in {wm, 0} /\ anchor' \in {anchor, 0} /\ owed' \in {owed, TRUE}
    BY Zenon DEF OweReplacement
  <2>2. OweReplacement => wm' \in 0..now /\ anchor' \in 0..last
    BY <1>1, <2>1
  <2>3. OweReplacement => owed' \in BOOLEAN
    BY <1>1, <2>1
  <2> QED BY <2>2, <2>3
<1>4. ASSUME NEW n \in 0..MaxGens, NEW chunks \in SUBSET (1..Len(log)), SeedStops(n, chunks)
      PROVE  TypeInv'
  <2>1. /\ replica' = Merge(Loaded(pass.plan, replica)[n], chunks) /\ OweReplacement
        /\ cpc' = "idle" /\ pass' = NoPass
        /\ UNCHANGED <<pgVars, chainVars, streamVars, producerVars>> /\ pos' = pos
    BY <1>4 DEF SeedStops
  <2>2. Loaded(pass.plan, replica)[n] \in [Keys -> 0..Len(log)]
    BY <1>1, LoadedType
  <2>3. chunks \in SUBSET (0..Len(log))
    BY Sizes
  <2>4. replica' \in [Keys -> 0..Len(log)]
    BY <2>1, <2>2, <2>3, MergeType
  <2> QED BY <1>1, <1>3, <2>1, <2>4, LoadType
<1>5. ASSUME NEW chunks \in SUBSET (1..Len(log)), SeedStopsInFull(chunks) PROVE TypeInv'
  <2>1. /\ replica' = Wiped(chunks) /\ OweReplacement /\ cpc' = "idle" /\ pass' = NoPass
        /\ UNCHANGED <<pgVars, chainVars, streamVars, producerVars>> /\ pos' = pos
    BY <1>5 DEF SeedStopsInFull
  <2>2. chunks \in SUBSET (0..Len(log))
    BY Sizes
  <2>3. replica' \in [Keys -> 0..Len(log)]
    BY <2>1, <2>2, WipedType
  <2> QED BY <1>1, <1>3, <2>1, <2>3, LoadType
<1> QED BY <1>2, <1>4, <1>5

-----------------------------------------------------------------------------
LEMMA NextTypeInv == TypeInv /\ [Next]_vars => TypeInv'
<1> SUFFICES ASSUME TypeInv, [Next]_vars PROVE TypeInv'
  OBVIOUS
<1>1. CASE Postgres
  BY <1>1, PostgresType
<1>2. CASE Sweeper \/ Publish \/ Expire
  BY <1>2, SweeperStreamType
<1>3. CASE Producer
  BY <1>3, BuildBeginType, BuildObjectsType, FinishType, CrashType DEF Producer
<1>4. CASE Client
  BY <1>4, FollowType, SeedBeginType, SeedCommitType, SeedFailsType DEF Client
<1>5. CASE UNCHANGED vars
  BY <1>5 DEF TypeInv, TypeOK, Reached, NextGen, vars,
     pgVars, chainVars, streamVars, producerVars, clientVars, stored
<1> QED BY <1>1, <1>2, <1>3, <1>4, <1>5 DEF Next

\* The clock, the stream, the chain, the client's rows and its position keep
\* within what there is of each, however the producer, the sweeper and the
\* client's passes interleave, fail and start again: in particular a client
\* never names a row the database has not written, nor takes a position the
\* stream has not reached.
THEOREM GenerationsTypeCorrect == Spec => []TypeOK
<1>1. TypeInv => TypeOK
  BY DEF TypeInv
<1> QED BY <1>1, InitTypeInv, NextTypeInv, PTL DEF Spec
=============================================================================
