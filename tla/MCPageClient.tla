---------------------------- MODULE MCPageClient ----------------------------
(* Small instances of PageClient for TLC. *)
EXTENDS PageClient

CONSTANTS f1, f2, c1, lib, lib2

TwoRoots == [f \in {f1, f2} |-> IF f = f1 THEN lib ELSE lib2]
OneFolder == [f \in {f1} |-> lib]
=============================================================================
