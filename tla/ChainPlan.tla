------------------------------ MODULE ChainPlan ------------------------------
(***************************************************************************)
(* The decisions taken from a generation manifest, as pure operators: how  *)
(* far back the producer keeps its chain and what a delta must hold        *)
(* (src/src/generation_producer.zig), what a client loads and where it     *)
(* goes on in the change stream (src/libzb/src/core.zig).                  *)
(*                                                                         *)
(* A manifest names a base (every live row), deltas (rows whose version    *)
(* moved, tombstones too), in the order of their generations, each with    *)
(* the cutoff it starts from, the cutoff of the newest of them, the last   *)
(* stream sequence they hold for certain, and how far tombstones may have  *)
(* been reaped.  Versions, cutoffs and sequences are numbers above 0; 0 is *)
(* "none".                                                                 *)
(***************************************************************************)
EXTENDS Integers, FiniteSetsExt

Delta    == [gen : Nat, prev : Nat, cut : Nat]
Manifest == [gen : Nat, cut : Nat, seq : Nat, gc : Nat,
             base : [gen : Nat, cut : Nat], deltas : SUBSET Delta]

\* What a client loads: a full, or not, and then the deltas of generations.
Plan     == [full : BOOLEAN, base : Nat, deltas : SUBSET Nat]

-----------------------------------------------------------------------------
(* The producer.                                                            *)

\* Mutant: the last generations, whether or not the full is among them.
keepFromDepth(gen, depth, newestFull) == Max({gen - depth, 0})

\* Generations up to this one are retired: all but the last ones, the newest
\* full and every delta after it.
keepFrom(gen, depth, newestFull) ==
    IF newestFull = 0 THEN Max({gen - depth, 0})
    ELSE Max({Min({gen - depth, newestFull - 1}), 0})

\* Versions from here on are in the delta after a generation.
deltaLowerBound(cut, floor, tolerance) == Min({cut - tolerance, floor})

-----------------------------------------------------------------------------
(* The client.  wm is the cutoff its rows were loaded at, stored its        *)
(* position in the stream.                                                  *)

\* The objects to load: the deltas newer than the watermark if they reach back
\* to it and no tombstone of the time in between can be gone; else the base and
\* what came after it.
planFromManifest(man, wm) ==
    LET applicable == {d \in man.deltas : wm = 0 \/ d.cut > wm}
        oldest(d)  == \A e \in applicable : d.gen <= e.gen
        reaches    == /\ wm # 0 /\ wm >= man.gc
                      /\ \A d \in applicable : oldest(d) => d.prev <= wm
                      /\ applicable = {} => man.base.cut <= wm
        above      == {d \in man.deltas : d.gen > man.base.gen}
    IN  [full   |-> ~reaches,
         base   |-> man.base.gen,
         deltas |-> {d.gen : d \in IF reaches THEN applicable ELSE above}]

\* Mutant: the position does not matter.
fullIsNeverBehind(man, plan, stored) == FALSE

\* A full that would take the rows back behind the client's position.
fullPredatesReplica(man, plan, stored) ==
    plan.full /\ man.seq > 0 /\ man.seq < stored

\* Deltas may stand in for the change stream between the position and the cut.
deltaEligible(man, wm, stored) ==
    /\ man.seq > stored /\ wm # 0 /\ man.base.cut <= wm
    /\ ~planFromManifest(man, wm).full /\ planFromManifest(man, wm).deltas # {}

\* The stream does not continue from the position (no stream is recreated here,
\* so a position is never past its end).
streamHasGap(first, stored) == stored = 0 \/ stored < first - 1

\* Mutant: one further than the cut.
streamResumePast(stored, first, cut) == cut + 1

\* Where the position goes after a chain was loaded across a gap; the cut is
\* unknown when it is 0.
streamResume(stored, first, cut) ==
    LET gap == stored = 0 \/ (first > 1 /\ stored < first - 1)
    IN  IF ~gap \/ cut = 0 \/ (first > 1 /\ cut < first - 1) THEN stored
        ELSE Max({stored, cut})

\* And when there was no gap: back to the cut if the stream still has what
\* follows it, or forward to it.
streamSplice(stored, first, cut) ==
    IF cut = 0 \/ (cut < stored /\ first > 1 /\ cut < first - 1) THEN stored ELSE cut

\* Events up to the anchor are in the rows already.
seedGateDrops(seq, anchor) == seq <= anchor
=============================================================================
