--------------------------- MODULE MCRawViewStore ---------------------------
(* Small instances of RawViewStore for TLC. *)
EXTENDS RawViewStore, TLC

CONSTANTS f1, f2, r1, r2, r3, lib, lib2

OneRoot == [f \in {f1, f2} |-> lib]
TwoRoots == [f \in {f1, f2} |-> IF f = f1 THEN lib ELSE lib2]

Op(k, f) == [kind |-> k, folder |-> f]

CoreCalls == {Op("rescan", f1), Op("mark", f1), Op("unmark", f1), Op("mark", f2)}
EveryCall == {Op("read", f1), Op("rescan", f1), Op("mark", f1),
              Op("unmark", f1), Op("outside", f1)}
MarkAndOtherUndo == {Op("read", f1), Op("mark", f1), Op("unmark", f2)}
TwoMarks == {Op("read", f1), Op("mark", f1), Op("mark", f2)}

Symmetry == Permutations(Requests)
=============================================================================
