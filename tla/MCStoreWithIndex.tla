-------------------------- MODULE MCStoreWithIndex --------------------------
(* A small instance of StoreWithIndex for TLC: two folders of one level. *)
EXTENDS StoreWithIndex, TLC

CONSTANTS f1, f2, r1, r2, lib

OneRoot == [f \in Folders |-> lib]
Call(k, f) == [kind |-> k, folder |-> f]
EveryCall == {Call(k, f1) : k \in Kinds} \cup {Call("mark", f2)}

Symmetry == Permutations(Requests)
=============================================================================
