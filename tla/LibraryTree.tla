---------------------------- MODULE LibraryTree -----------------------------
(* The directories of one library root, as a tree. *)
EXTENDS Naturals, FiniteSets

CONSTANTS
  Folders,    \* the directories of the library root, with the root itself
  Root,
  Parent,     \* the directory each other folder sits in
  Above       \* the proper ancestors of each folder

ASSUME FoldersAssumption == IsFiniteSet(Folders) /\ Root \in Folders
ASSUME ParentAssumption == Parent \in [Folders \ {Root} -> Folders]
ASSUME AboveAssumption ==
  /\ Above \in [Folders -> SUBSET Folders]
  /\ Above[Root] = {}
  /\ \A f \in Folders \ {Root} : Above[f] = Above[Parent[f]] \cup {Parent[f]}
(* Directories form a tree: going up from any of them ends at the root. *)
ASSUME TreeAssumption ==
  \A T \in SUBSET Folders :
    T # {} => \E f \in T : f = Root \/ Parent[f] \notin T

Within(f) == {g \in Folders : g = f \/ f \in Above[g]}
=============================================================================
