----------------------------- MODULE MacTableMC -----------------------------
(***************************************************************************)
(* Instances of MacTable for TLC.                                          *)
(***************************************************************************)
EXTENDS MacTable, TLC

CONSTANTS k1, k2, k3

MCKeys == {k1, k2, k3}

\* Of two buckets k1 and k3 are in one.
MCHashOf == (k1 :> 0) @@ (k2 :> 1) @@ (k3 :> 2)

\* An address moves at once, or after one or two seconds.
MCPersistences == {-1, 0, 1}

Symmetry == Permutations(Cells)
=============================================================================
