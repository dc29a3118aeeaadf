----------------------------- MODULE MCDirIndex -----------------------------
(* A small instance of DirIndex for TLC: one folder. *)
EXTENDS DirIndex, TLC

CONSTANTS sub, w1, w2, marker

OneFolder == [d \in {sub} |-> 0]

Symmetry == Permutations(Walkers)
=============================================================================
