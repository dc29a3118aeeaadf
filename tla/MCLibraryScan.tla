---------------------------- MODULE MCLibraryScan ---------------------------
(* A small library for TLC: an author with two books, one of them with a
   subfolder too deep to walk, beside an excluded directory. *)
EXTENDS LibraryScan

CONSTANTS library_root, author, book, disc, hidden

ParentOf ==
  [f \in Folders \ {library_root} |->
     IF f \in {author, hidden} THEN library_root ELSE IF f = disc THEN book ELSE author]

AboveOf ==
  [f \in Folders |->
     IF f = library_root THEN {} ELSE IF f \in {author, hidden} THEN {library_root}
     ELSE IF f = disc THEN {library_root, author, book} ELSE {library_root, author}]

LevelOf == [f \in Folders |-> Cardinality(AboveOf[f])]
=============================================================================
