----------------------------- MODULE LibraryScan ----------------------------
(***************************************************************************)
(* One library root: how src/scanner.rs walks it into a RootScan, and how  *)
(* src/raw_view.rs edits that RootScan in place when a marker is written.  *)
(*                                                                         *)
(* The walk is breadth first.  It reads a level in parallel, then descends *)
(* into the folders that were listed, handing down whether an ebook or a   *)
(* marker covers them.  A marker written later flips the stored folders    *)
(* without a walk; an undo walks again.                                    *)
(*                                                                         *)
(* The index is left out: module DirIndex says when a reused listing is as *)
(* good as a fresh one, and what an entry that cannot be read costs.       *)
(* Which folders hold audio is a constant: the walk copies it and decides  *)
(* nothing by it.  The order of names is left out.                         *)
(***************************************************************************)
EXTENDS LibraryTree

CONSTANTS
  Level,      \* how many proper ancestors each folder has
  Audio,      \* folders whose own listing holds audio files
  Excluded,   \* directories is_excluded matches: by dot, name or glob
  MaxDepth,   \* ScanSettings::MAX_DEPTH
  ReadCanFail \* canonicalize and read_dir may fail

ASSUME AudioAssumption == Audio \subseteq Folders
ASSUME RootAssumption == Root \notin Excluded
ASSUME LevelAssumption ==
  /\ Level \in [Folders -> Nat]
  /\ Level[Root] = 0
  /\ \A f \in Folders \ {Root} : Level[f] = Level[Parent[f]] + 1
ASSUME MaxDepthAssumption == MaxDepth \in Nat
ASSUME ReadAssumption == ReadCanFail \in BOOLEAN

Markers == {"ebook_elsewhere", "no_ebook"}
CoverFiles == {"ebook"} \cup Markers

VARIABLES
  ebooks,   \* folders that hold an ebook
  markers,  \* the marker files in each folder
  section,  \* RootScan: Walked or Failed, or the walk still going
  frontier, \* the level to read next
  covered,  \* the frontier's folders that are covered from above
  depth,    \* the depth of that level
  listed,   \* the section's folders
  missing,  \* those with missing_ebook set
  cover,    \* the cover_files of each
  unread,   \* directories this walk could not read (dirs_skipped counts them)
  capped    \* dirs_skipped_depth_capped

library == <<ebooks, markers>>
walk == <<frontier, covered, depth>>
result == <<listed, missing, cover, unread, capped>>
vars == <<library, section, walk, result>>

(* What covers a folder on its own. *)
LocalCover(f) == markers[f] \cup (IF f \in ebooks THEN {"ebook"} ELSE {})

TypeOK ==
  /\ ebooks \in SUBSET Folders
  /\ markers \in [Folders -> SUBSET Markers]
  /\ section \in {"walking", "walked", "failed"}
  /\ frontier \in SUBSET Folders
  /\ covered \in SUBSET frontier
  /\ depth \in Nat
  /\ listed \in SUBSET Folders
  /\ missing \in SUBSET listed
  /\ cover \in [Folders -> SUBSET CoverFiles]
  /\ unread \in SUBSET (Folders \ listed)
  /\ capped \in Nat

(* A walk starts at the root, covered by nothing. *)
Begun ==
  /\ section = "walking"
  /\ frontier = {Root}
  /\ covered = {}
  /\ depth = 0
  /\ listed = {}
  /\ missing = {}
  /\ cover = [f \in Folders |-> {}]
  /\ unread = {}
  /\ capped = 0

Init ==
  /\ ebooks \in SUBSET Folders
  /\ markers \in [Folders -> SUBSET Markers]
  /\ Begun

-----------------------------------------------------------------------------
(* scan_root: the root does not resolve, or is no directory. *)
RootFails ==
  /\ section = "walking" /\ frontier = {Root}
  /\ ReadCanFail
  /\ section' = "failed"
  /\ frontier' = {}
  /\ UNCHANGED <<library, covered, depth, result>>

Children(read) == {f \in Folders \ ({Root} \cup Excluded) : Parent[f] \in read}

(* Covered from above, or by a file of its own. *)
Covers(f) == f \in covered \/ LocalCover(f) # {}

(* Mutant: the depth cap drops children without counting them. *)
DescendUncounted(read) ==
  /\ frontier' = IF depth >= MaxDepth THEN {} ELSE Children(read)
  /\ covered' = {f \in frontier' : Covers(Parent[f])}
  /\ UNCHANGED capped

Descend(read) ==
  IF depth >= MaxDepth
  THEN /\ capped' = capped + Cardinality(Children(read))
       /\ frontier' = {}
       /\ covered' = {}
  ELSE /\ frontier' = Children(read)
       /\ covered' = {f \in Children(read) : Covers(Parent[f])}
       /\ UNCHANGED capped

ContributingAll(failed) == frontier  \* mutant: an unreadable directory emits a folder
(* A directory that cannot be read contributes no folder and no children. *)
Contributing(failed) == frontier \ failed

(* One turn of scan_warm's loop. *)
ReadLevel ==
  /\ section = "walking" /\ frontier # {}
  /\ \E failed \in SUBSET frontier :
       LET read == Contributing(failed)
       IN  /\ failed # {} => ReadCanFail
           /\ listed' = listed \cup read
           /\ missing' = missing \cup {f \in read : ~Covers(f)}
           /\ cover' = [f \in Folders |->
                          IF f \in read THEN LocalCover(f) ELSE cover[f]]
           /\ unread' = unread \cup failed
           /\ Descend(read)
  /\ depth' = depth + 1
  /\ UNCHANGED <<library, section>>

Finish ==
  /\ section = "walking" /\ frontier = {}
  /\ section' = "walked"
  /\ UNCHANGED <<library, walk, result>>

(* Mutant: only the marked folder flips, not what lies below. *)
EditOneFolder(f, m) ==
  IF section = "failed" THEN UNCHANGED <<missing, cover>>
  ELSE /\ missing' = missing \ {f}
       /\ cover' = IF f \in listed
                   THEN [cover EXCEPT ![f] = @ \cup {m}] ELSE cover

(* apply_mark_raw; a failed section has nothing to flip. *)
EditInPlace(f, m) ==
  IF section = "failed" THEN UNCHANGED <<missing, cover>>
  ELSE /\ missing' = IF f = Root THEN {} ELSE missing \ Within(f)
       /\ cover' = IF f \in listed
                   THEN [cover EXCEPT ![f] = @ \cup {m}] ELSE cover

(* write_marker into any folder on disk, listed or not.  A marker already
   there leaves the stored section alone. *)
Mark(f, m) ==
  /\ section # "walking" /\ m \notin markers[f]
  /\ markers' = [markers EXCEPT ![f] = @ \cup {m}]
  /\ EditInPlace(f, m)
  /\ UNCHANGED <<ebooks, section, walk, listed, unread, capped>>

WalkAgain ==
  /\ section' = "walking"
  /\ frontier' = {Root}
  /\ covered' = {}
  /\ depth' = 0
  /\ listed' = {}
  /\ missing' = {}
  /\ cover' = [f \in Folders |-> {}]
  /\ unread' = {}
  /\ capped' = 0

(* delete_marker, then build_section. *)
Undo(f, m) ==
  /\ section # "walking"
  /\ markers' = [markers EXCEPT ![f] = @ \ {m}]
  /\ WalkAgain
  /\ UNCHANGED ebooks

Next ==
  \/ RootFails \/ ReadLevel \/ Finish
  \/ \E f \in Folders, m \in Markers : Mark(f, m) \/ Undo(f, m)

Spec == Init /\ [][Next]_vars

-----------------------------------------------------------------------------
(* Properties *)

Reached(f) == /\ Level[f] <= MaxDepth
              /\ (Above[f] \cup {f}) \cap (Excluded \cup unread) = {}
Covered(f) == \E g \in Above[f] \cup {f} : LocalCover(g) # {}

(* Walked or edited in place since, the section is what the library says: each
   folder that can be reached, with missing_ebook exactly where neither it nor
   an ancestor holds an ebook or a marker, and its own covering files. *)
SectionIsExact ==
  section = "walked" =>
    /\ listed = {f \in Folders : Reached(f)}
    /\ missing = {f \in listed : ~Covered(f)}
    /\ \A f \in listed : cover[f] = LocalCover(f)

(* A folder the section lacks, though nothing excludes it, is owned up to: the
   counts behind the "couldn't be read" and "depth limit" warnings are not
   both zero. *)
OmissionsCounted ==
  section = "walked" /\ unread = {} /\ capped = 0 =>
    \A f \in Folders : (Above[f] \cup {f}) \cap Excluded = {} => f \in listed

(* What the tree builder is handed: the walk and its edits implement the scans
   of LibraryView. *)
View == INSTANCE LibraryView WITH
  status  <- IF section = "walking" THEN "none" ELSE section,
  listed  <- IF section = "walked" THEN listed ELSE {},
  missing <- IF section = "walked" THEN missing ELSE {},
  audio   <- IF section = "walked" THEN listed \cap Audio ELSE {}
ViewSpec == View!Spec
=============================================================================
