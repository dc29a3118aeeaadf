---------------------------- MODULE MCLibraryView ---------------------------
(* A small library for TLC: an author with two books, one of them in discs,
   and one whose only book lies in a series. *)
EXTENDS LibraryView

CONSTANTS library_root, author, book, boxed, disc, series, single

AboveOf ==
  [f \in Folders |->
     CASE f = library_root      -> {}
       [] f \in {author, series} -> {library_root}
       [] f \in {book, boxed}    -> {library_root, author}
       [] f = disc              -> {library_root, author, boxed}
       [] f = single            -> {library_root, series}]

(* The lowest ancestor is the one with the most above it. *)
ParentOf ==
  [f \in Folders \ {library_root} |->
     CHOOSE p \in AboveOf[f] : AboveOf[f] = AboveOf[p] \cup {p}]
=============================================================================
