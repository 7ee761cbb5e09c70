-------------------------- MODULE MCUploadSession --------------------------
(* Small instances of UploadSession for TLC. *)
EXTENDS UploadSession, TLC

CONSTANTS s1, s2, r1, r2, r3, A, B, n1, n2, j1, j2

OneActor == [s \in Sessions |-> "actor"]

\* Requests, node ids and client operations are interchangeable.
Symmetry == Permutations(Requests) \cup Permutations(NodeIds) \cup Permutations(ClientOps)
            \cup Permutations(Janitors)

\* Single-mode sessions of one actor are interchangeable too.
SessionSymmetry == Symmetry \cup Permutations(Sessions)
=============================================================================
