-------------------------- MODULE MCStorageMigration --------------------------
(* Small instances of StorageMigration for TLC. *)
EXTENDS StorageMigration, TLC

CONSTANTS t1, t2, f1, f2, f3, w1, w2

\* The tasks move to different providers: what one has moved the other moves on,
\* and what both have listed they move at the same time.
Elsewhere == (t1 :> "cloud" @@ t2 :> "archive")

\* Every task is asked for at the root.
AllFiles == [t \in Tasks |-> Files]

Symmetry == Permutations(Workers)
=============================================================================
