------------------------ MODULE MCMutationReceipts ------------------------
(***************************************************************************)
(* Instances of MutationReceipts.                                          *)
(***************************************************************************)
EXTENDS MutationReceipts, TLC

CONSTANTS m1, m2, m3, m4, a, b, x, y

(* Two writes: batches of both, in either order, and redeliveries.         *)
PairIdOf   == m1 :> a @@ m2 :> b
PairBodyOf == m1 :> x @@ m2 :> x
PairKind   == m1 :> "write" @@ m2 :> "write"

(* A write, its copy, another write under its ID, and a forbidden one.     *)
CopyIdOf   == m1 :> a @@ m2 :> a @@ m3 :> a @@ m4 :> b
CopyBodyOf == m1 :> x @@ m2 :> x @@ m3 :> y @@ m4 :> x
CopyKind   == m1 :> "write" @@ m2 :> "write" @@ m3 :> "write" @@ m4 :> "forbidden"

SoleIdOf   == m1 :> a
SoleBodyOf == m1 :> x
SoleKind   == m1 :> "write"

(* An ID of the first or of the second month, and a legacy one.            *)
EarlyMonthOf == a :> 1 @@ b :> LegacyMonth
LaterMonthOf == a :> 2 @@ b :> LegacyMonth

MCLockKey == a :> 1 @@ b :> 2

Copies == Permutations({m1, m2})
=============================================================================
