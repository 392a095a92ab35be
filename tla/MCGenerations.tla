---------------------------- MODULE MCGenerations ----------------------------
(***************************************************************************)
(* Bounds on the generations of a table of two rows.                       *)
(***************************************************************************)
EXTENDS Generations

\* One full and then deltas, none of their builds failing; nothing expires, no
\* fence; the writes are devices' and come after a second generation and the
\* client's first seed.
DeltasOnly ==
    /\ first = 1 /\ ~owed /\ manifest.gen = Len(gens) /\ open = {}
    /\ build.full => gens = << >>
    /\ Len(log) > Cardinality(Keys) => wm # 0 /\ Len(gens) > 1
=============================================================================
