------------------------------ MODULE MCNodeTree ------------------------------
(***************************************************************************)
(* The node trees that instances of NodeTree start from.                   *)
(***************************************************************************)
EXTENDS NodeTree, TLC

FreeRow == [st |-> "free", dir |-> FALSE, parent |-> 0, name |-> RootName]
DirRow(st, p, nm) == [st |-> st, dir |-> TRUE, parent |-> p, name |-> nm]

\* A root with a chain of two directories, ...
LiveChain == 1 :> RootRow @@ 2 :> DirRow("live", 1, "a") @@ 3 :> DirRow("live", 2, "a") @@ 4 :> FreeRow
\* ... the same in the recycle bin, ...
BinnedChain == 1 :> RootRow @@ 2 :> DirRow("deleted", 1, "a") @@ 3 :> DirRow("deleted", 2, "a") @@ 4 :> FreeRow
\* ... no row yet, ...
NoRows == [n \in 1 .. 4 |-> FreeRow]
\* ... an older root in the recycle bin, which has been renamed, ...
OlderRoot == 1 :> DirRow("deleted", 0, "a") @@ 2 :> RootRow @@ 3 :> FreeRow @@ 4 :> FreeRow
\* ... and a chain with a directory beside it.
TwoBranches == 1 :> RootRow @@ 2 :> DirRow("live", 1, "a") @@ 3 :> DirRow("live", 2, "b")
               @@ 4 :> DirRow("live", 1, "b")

ServiceTrees == {LiveChain, BinnedChain, OlderRoot, NoRows}
MoveTrees == {TwoBranches}
=============================================================================
