------------------------- MODULE LibraryScan_proofs -------------------------
(***************************************************************************)
(* Proofs about LibraryScan, for any finite tree of directories, depth cap *)
(* and placement of ebooks and markers.                                    *)
(***************************************************************************)
EXTENDS LibraryScan, FiniteSetTheorems, TLAPS

-----------------------------------------------------------------------------
(* The tree.  Where the argument goes up from a folder to the root, it takes
   a folder that fails the claim while its parent does not. *)

LEMMA AncestorsLieAbove ==
  \A f \in Folders : \A g \in Above[f] : g \in Folders /\ Level[g] < Level[f]
<1> DEFINE T == {f \in Folders : \E g \in Above[f] : ~(Level[g] < Level[f])}
<1>1. SUFFICES ASSUME T # {} PROVE FALSE
  BY AboveAssumption
<1>2. PICK f \in T : f = Root \/ Parent[f] \notin T
  BY <1>1, TreeAssumption
<1>3. f # Root
  BY AboveAssumption
<1>4. Parent[f] \in Folders /\ Parent[f] \notin T
  BY <1>2, <1>3, ParentAssumption
<1>5. \A g \in Above[Parent[f]] : Level[g] < Level[Parent[f]]
  BY <1>4
<1>6. Level[f] = Level[Parent[f]] + 1 /\ Level[Parent[f]] \in Nat
  BY <1>3, <1>4, LevelAssumption
<1>7. \A g \in Above[f] : g = Parent[f] \/ g \in Above[Parent[f]]
  BY <1>3, AboveAssumption
<1>8. \A g \in Above[f] : g \in Folders /\ Level[g] \in Nat
  BY AboveAssumption, LevelAssumption
<1>9. QED BY <1>5, <1>6, <1>7, <1>8

LEMMA AncestorsNest ==
  \A f \in Folders : \A g \in Above[f] : Above[g] \subseteq Above[f]
<1> DEFINE T == {f \in Folders : \E g \in Above[f] : ~(Above[g] \subseteq Above[f])}
<1>1. SUFFICES ASSUME T # {} PROVE FALSE
  OBVIOUS
<1>2. PICK f \in T : f = Root \/ Parent[f] \notin T
  BY <1>1, TreeAssumption
<1>3. f # Root
  BY AboveAssumption
<1>4. Parent[f] \in Folders /\ Above[f] = Above[Parent[f]] \cup {Parent[f]}
  BY <1>3, ParentAssumption, AboveAssumption
<1>5. QED BY <1>2, <1>3, <1>4

LEMMA RootAboveAll == \A f \in Folders : Root \in Above[f] \cup {f}
<1> DEFINE T == {f \in Folders : Root \notin Above[f] \cup {f}}
<1>1. SUFFICES ASSUME T # {} PROVE FALSE
  OBVIOUS
<1>2. PICK f \in T : f = Root \/ Parent[f] \notin T
  BY <1>1, TreeAssumption
<1>3. f # Root /\ Parent[f] \in Folders
  BY <1>2, ParentAssumption
<1>4. Above[f] = Above[Parent[f]] \cup {Parent[f]}
  BY <1>3, AboveAssumption
<1>5. QED BY <1>2, <1>3, <1>4

(* A set of folders is all of them that have a property if it has the root
   and goes down with the property. *)
LEMMA DownFromRoot ==
  ASSUME NEW P \in SUBSET Folders, NEW L,
         Root \in P => Root \in L,
         \A f \in P \ {Root} : Parent[f] \in P /\ (Parent[f] \in L => f \in L)
  PROVE  P \subseteq L
<1> DEFINE T == P \ L
<1>1. SUFFICES ASSUME T # {} PROVE FALSE
  OBVIOUS
<1>2. PICK f \in T : f = Root \/ Parent[f] \notin T
  BY <1>1, TreeAssumption
<1>3. QED BY <1>2

-----------------------------------------------------------------------------
(* The levels read so far. *)

Walking == section \in {"walking", "walked"}
Barred == Excluded \cup unread
Path(f) == Above[f] \cup {f}

(* The frontier is of one level, and it and the listed folders are reached. *)
Levels ==
  /\ \A f \in frontier : Level[f] = depth /\ depth <= MaxDepth
  /\ \A f \in listed : Level[f] < depth /\ Level[f] <= MaxDepth
  /\ \A f \in unread : Level[f] < depth
  /\ \A f \in frontier \cup listed : Path(f) \cap Barred = {}

(* Nothing is lost on the way down, but below the cap, which counts it. *)
Complete ==
  /\ Root \in frontier \cup listed \cup unread
  /\ \A f \in Folders \ ({Root} \cup Excluded) :
       Parent[f] \in listed
         => \/ f \in frontier \cup listed \cup unread
            \/ Level[f] > MaxDepth /\ capped > 0

(* Coverage is handed down as it is defined. *)
Coverage ==
  /\ \A f \in frontier : f \in covered <=> \E g \in Above[f] : LocalCover(g) # {}
  /\ \A f \in listed : /\ f \in missing <=> ~Covered(f)
                       /\ cover[f] = LocalCover(f)

Inv ==
  /\ TypeOK
  /\ section # "walking" => frontier = {}
  /\ Walking => Levels /\ Complete /\ Coverage

LEMMA LocalCoverType ==
  TypeOK => \A f \in Folders : LocalCover(f) \subseteq CoverFiles
  BY DEF TypeOK, LocalCover, CoverFiles

LEMMA ChildrenFinite ==
  ASSUME NEW read
  PROVE  /\ Children(read) \subseteq Folders
         /\ IsFiniteSet(Children(read))
         /\ Cardinality(Children(read)) \in Nat
         /\ Cardinality(Children(read)) = 0 => Children(read) = {}
<1>1. Children(read) \subseteq Folders
  BY DEF Children
<1>2. IsFiniteSet(Children(read))
  BY <1>1, FoldersAssumption, FS_Subset
<1>3. QED BY <1>1, <1>2, FS_CardinalityType, FS_EmptySet

(* A walk that begins. *)
LEMMA BegunInv == TypeOK /\ Begun => Inv
  BY RootAssumption, FoldersAssumption, AboveAssumption, LevelAssumption, MaxDepthAssumption
  DEF Begun, Inv, Walking, Levels, Complete, Coverage, Path, Barred, TypeOK, Covered

LEMMA TypeInit == Init => TypeOK
  BY RootAssumption, FoldersAssumption DEF Init, Begun, TypeOK

-----------------------------------------------------------------------------
(* One level. *)

LEMMA ReadLevelInv == Inv /\ ReadLevel => Inv'
<1> SUFFICES ASSUME Inv, ReadLevel PROVE Inv'
  OBVIOUS
<1>0. PICK failed \in SUBSET frontier :
        LET read == Contributing(failed)
        IN  /\ listed' = listed \cup read
            /\ missing' = missing \cup {f \in read : ~Covers(f)}
            /\ cover' = [f \in Folders |->
                           IF f \in read THEN LocalCover(f) ELSE cover[f]]
            /\ unread' = unread \cup failed
            /\ Descend(read)
  BY DEF ReadLevel
<1> DEFINE read == frontier \ failed
<1>1. /\ listed' = listed \cup read
      /\ missing' = missing \cup {f \in read : ~Covers(f)}
      /\ cover' = [f \in Folders |-> IF f \in read THEN LocalCover(f) ELSE cover[f]]
      /\ unread' = unread \cup failed
      /\ Descend(read)
  BY <1>0 DEF Contributing
<1>2. /\ section = "walking" /\ section' = section /\ depth' = depth + 1
      /\ UNCHANGED <<ebooks, markers>>
  BY DEF ReadLevel, library
<1>3. TypeOK /\ Levels /\ Complete /\ Coverage
  BY <1>2 DEF Inv, Walking
<1>4. /\ depth \in Nat /\ capped \in Nat /\ read \subseteq Folders
      /\ frontier \subseteq Folders /\ listed \subseteq Folders
      /\ unread \subseteq Folders /\ failed \subseteq Folders
      /\ MaxDepth \in Nat /\ \A f \in Folders : Level[f] \in Nat
  BY <1>3, MaxDepthAssumption, LevelAssumption DEF TypeOK
<1>5. /\ frontier' \subseteq Children(read)
      /\ depth >= MaxDepth => frontier' = {} /\ covered' = {}
                              /\ capped' = capped + Cardinality(Children(read))
      /\ ~(depth >= MaxDepth) =>
           /\ frontier' = Children(read) /\ capped' = capped
           /\ covered' = {f \in Children(read) : Covers(Parent[f])}
  BY <1>1 DEF Descend
<1>6. \A f \in Children(read) :
        /\ f \in Folders \ {Root} /\ f \notin Excluded /\ Parent[f] \in read
        /\ Above[f] = Above[Parent[f]] \cup {Parent[f]}
        /\ Level[f] = depth + 1
  <2> TAKE f \in Children(read)
  <2>1. f \in Folders \ {Root} /\ f \notin Excluded /\ Parent[f] \in read
    BY DEF Children
  <2>2. QED BY <2>1, <1>3, AboveAssumption, LevelAssumption DEF Levels
<1>c. capped' \in Nat /\ capped' >= capped
  BY <1>4, <1>5, ChildrenFinite
<1>7. TypeOK'
  <2>1. listed' \subseteq Folders /\ unread' \subseteq Folders \ listed'
    <3>1. frontier \cap (listed \cup unread) = {}
      BY <1>3, <1>4 DEF Levels
    <3>2. QED BY <1>1, <1>3, <1>4, <3>1 DEF TypeOK
  <2>2. missing' \subseteq listed'
    BY <1>1, <1>3 DEF TypeOK
  <2>3. cover' \in [Folders -> SUBSET CoverFiles]
    BY <1>1, <1>3, LocalCoverType DEF TypeOK
  <2>4. frontier' \subseteq Folders /\ covered' \subseteq frontier'
    BY <1>5, <1>6
  <2>5. QED BY <1>2, <1>3, <1>4, <1>c, <2>1, <2>2, <2>3, <2>4 DEF TypeOK
<1>8. Levels'
  <2>1. \A f \in frontier' : Level[f] = depth' /\ depth' <= MaxDepth
    <3> TAKE f \in frontier'
    <3>1. ~(depth >= MaxDepth)
      BY <1>5
    <3>2. Level[f] = depth + 1
      BY <1>5, <1>6
    <3>3. QED BY <1>2, <1>4, <3>1, <3>2
  <2>2. \A f \in listed' : Level[f] < depth' /\ Level[f] <= MaxDepth
    BY <1>1, <1>2, <1>3, <1>4 DEF Levels
  <2>3. \A f \in unread' : Level[f] < depth'
    BY <1>1, <1>2, <1>3, <1>4 DEF Levels
  <2>4. \A f \in listed \cup read : Path(f) \cap failed = {}
    <3>1. \A f \in listed \cup read : f \notin failed
      BY <1>3, <1>4 DEF Levels
    <3>2. \A f \in listed \cup read : \A g \in Above[f] : Level[g] < depth
      BY <1>3, <1>4, AncestorsLieAbove DEF Levels
    <3>3. \A g \in failed : Level[g] = depth
      BY <1>3 DEF Levels
    <3>4. QED BY <1>4, <3>1, <3>2, <3>3 DEF Path
  <2>5. \A f \in listed' : Path(f) \cap Barred' = {}
    BY <1>1, <1>3, <2>4 DEF Levels, Barred, Path
  <2>6. \A f \in frontier' : Path(f) \cap Barred' = {}
    <3> TAKE f \in frontier'
    <3>1. Parent[f] \in read /\ Path(f) = Path(Parent[f]) \cup {f} /\ f \notin Excluded
      BY <1>5, <1>6 DEF Path
    <3>2. Path(Parent[f]) \cap Barred' = {}
      BY <1>1, <2>5, <3>1
    <3>3. f \notin unread'
      BY <1>2, <1>4, <1>5, <2>1, <2>3
    <3>4. QED BY <3>1, <3>2, <3>3 DEF Barred
  <2>7. QED BY <2>1, <2>2, <2>3, <2>5, <2>6 DEF Levels, Path
<1>9. Complete'
  <2>1. Root \in frontier' \cup listed' \cup unread'
    BY <1>1, <1>3 DEF Complete
  <2>2. ASSUME NEW f \in Folders \ ({Root} \cup Excluded), Parent[f] \in listed'
        PROVE  \/ f \in frontier' \cup listed' \cup unread'
               \/ Level[f] > MaxDepth /\ capped' > 0
    <3>1. CASE Parent[f] \in listed
      BY <1>1, <1>3, <1>4, <1>c, <3>1 DEF Complete
    <3>2. CASE Parent[f] \in read
      <4>1. f \in Children(read)
        BY <3>2 DEF Children
      <4>2. CASE depth >= MaxDepth
        <5>1. Level[f] > MaxDepth
          BY <1>4, <1>6, <4>1, <4>2
        <5>2. Cardinality(Children(read)) > 0
          BY <4>1, ChildrenFinite
        <5>3. QED BY <1>4, <1>5, <4>2, <5>1, <5>2, ChildrenFinite
      <4>3. CASE ~(depth >= MaxDepth)
        BY <1>5, <4>1, <4>3
      <4>4. QED BY <4>2, <4>3
    <3>3. QED BY <1>1, <2>2, <3>1, <3>2
  <2>3. QED BY <2>1, <2>2 DEF Complete
<1>10. Coverage'
  <2>1. \A f : LocalCover(f)' = LocalCover(f)
    BY <1>2 DEF LocalCover
  <2>2. \A f \in frontier : Covers(f) <=> Covered(f)
    BY <1>3 DEF Coverage, Covers, Covered
  <2>3. ASSUME NEW f \in frontier'
        PROVE  f \in covered' <=> \E g \in Above[f] : LocalCover(g)' # {}
    <3>1. f \in Children(read) /\ Parent[f] \in frontier
          /\ Above[f] = Above[Parent[f]] \cup {Parent[f]}
      BY <1>5, <1>6
    <3>2. ~(depth >= MaxDepth)
      BY <1>5
    <3>3. f \in covered' <=> Covers(Parent[f])
      BY <1>5, <3>1, <3>2
    <3>4. Covers(Parent[f]) <=> \E g \in Above[f] : LocalCover(g) # {}
      BY <2>2, <3>1 DEF Covered
    <3>5. QED BY <2>1, <3>3, <3>4
  <2>4. ASSUME NEW f \in listed'
        PROVE  (f \in missing' <=> ~Covered(f)') /\ cover'[f] = LocalCover(f)'
    <3>0. Covered(f)' <=> Covered(f)
      BY <2>1 DEF Covered
    <3>1. CASE f \in read
      <4>1. f \notin missing
        BY <1>3, <1>4, <3>1 DEF Levels, TypeOK
      <4>2. QED BY <1>1, <1>4, <2>1, <2>2, <3>0, <3>1, <4>1
    <3>2. CASE f \in listed /\ f \notin read
      BY <1>1, <1>3, <1>4, <2>1, <3>0, <3>2 DEF Coverage
    <3>3. QED BY <1>1, <2>4, <3>1, <3>2
  <2>5. QED BY <2>3, <2>4 DEF Coverage
<1>11. QED BY <1>2, <1>7, <1>8, <1>9, <1>10 DEF Inv, Walking

-----------------------------------------------------------------------------
(* A mark on a section that is not being walked. *)

LEMMA MarkInv == ASSUME Inv, NEW f \in Folders, NEW m \in Markers, Mark(f, m)
                 PROVE  Inv'
<1>1. /\ section # "walking" /\ frontier = {} /\ TypeOK
      /\ markers' = [markers EXCEPT ![f] = @ \cup {m}]
      /\ EditInPlace(f, m)
      /\ UNCHANGED <<ebooks, section, frontier, covered, depth, listed, unread, capped>>
  BY DEF Mark, Inv, walk
<1>2. /\ \A g \in Folders : missing' \subseteq missing
      /\ cover' \in [Folders -> SUBSET CoverFiles]
  BY <1>1 DEF EditInPlace, TypeOK, CoverFiles
<1>3. TypeOK'
  BY <1>1, <1>2 DEF TypeOK
<1>4. ASSUME Walking' PROVE Levels' /\ Complete' /\ Coverage'
  <2>1. section = "walked" /\ Levels /\ Complete /\ Coverage
    BY <1>1, <1>4 DEF Inv, Walking
  <2>2. Levels' /\ Complete'
    BY <1>1, <2>1 DEF Levels, Complete, Barred, Path
  <2>3. \A g \in Folders :
          LocalCover(g)' = IF g = f THEN LocalCover(g) \cup {m} ELSE LocalCover(g)
    BY <1>1 DEF LocalCover, TypeOK
  <2>4. \A g \in Folders : Covered(g)' <=> Covered(g) \/ g \in Within(f)
    BY <2>3, AboveAssumption DEF Covered, Within
  <2>5. \A g \in listed : g \in missing' <=> g \in missing /\ g \notin Within(f)
    <3>1. f = Root => \A g \in Folders : g \in Within(f)
      BY RootAboveAll DEF Within
    <3>2. QED BY <1>1, <2>1, <3>1 DEF EditInPlace, TypeOK
  <2>6. \A g \in listed : cover'[g] = LocalCover(g)'
    BY <1>1, <2>1, <2>3 DEF EditInPlace, TypeOK, Coverage
  <2>7. \A g \in listed : g \in missing' <=> ~Covered(g)'
    BY <1>1, <2>1, <2>4, <2>5 DEF Coverage, TypeOK
  <2>8. QED BY <1>1, <2>2, <2>6, <2>7 DEF Coverage
<1>5. QED BY <1>1, <1>3, <1>4 DEF Inv

LEMMA InvStep == Inv /\ [Next]_vars => Inv'
<1> SUFFICES ASSUME Inv, [Next]_vars PROVE Inv'
  OBVIOUS
<1>1. CASE RootFails
  <2>1. covered = {}
    BY <1>1, AboveAssumption DEF RootFails, Inv, Walking, Coverage, TypeOK
  <2>2. QED BY <1>1, <2>1 DEF RootFails, Inv, TypeOK, Walking, library, result
<1>2. CASE ReadLevel
  BY <1>2, ReadLevelInv
<1>3. CASE Finish
  BY <1>3 DEF Finish, Inv, TypeOK, Walking, library, result, walk, Levels, Complete,
              Coverage, Barred, Path, Covered, LocalCover
<1>4. ASSUME NEW f \in Folders, NEW m \in Markers, Mark(f, m) PROVE Inv'
  BY <1>4, MarkInv
<1>5. ASSUME NEW f \in Folders, NEW m \in Markers, Undo(f, m) PROVE Inv'
  <2>1. TypeOK'
    BY <1>5, RootAssumption, FoldersAssumption DEF Undo, WalkAgain, TypeOK, Inv
  <2>2. Begun'
    BY <1>5 DEF Undo, WalkAgain, Begun
  <2>3. (TypeOK /\ Begun => Inv)'
    BY BegunInv, PTL
  <2>4. QED BY <2>1, <2>2, <2>3
<1>6. CASE UNCHANGED vars
  BY <1>6 DEF vars, Inv, TypeOK, Walking, library, result, walk, Levels, Complete,
              Coverage, Barred, Path, Covered, LocalCover
<1>7. QED BY <1>1, <1>2, <1>3, <1>4, <1>5, <1>6 DEF Next

LEMMA InvAlways == Spec => []Inv
<1>1. Init => Inv
  BY TypeInit, BegunInv DEF Init
<1>2. QED BY <1>1, InvStep, PTL DEF Spec

(* The types of the walk and its section. *)
THEOREM TypeCorrect == Spec => []TypeOK
<1>1. Inv => TypeOK BY DEF Inv
<1>2. QED BY <1>1, InvAlways, PTL

LEMMA SectionExact == ASSUME Inv PROVE SectionIsExact
<1>1. SUFFICES ASSUME section = "walked"
               PROVE  /\ listed = {f \in Folders : Reached(f)}
                      /\ missing = {f \in listed : ~Covered(f)}
                      /\ \A f \in listed : cover[f] = LocalCover(f)
  BY DEF SectionIsExact
<1>2. TypeOK /\ frontier = {} /\ Levels /\ Complete /\ Coverage
  BY <1>1 DEF Inv, Walking
<1>3. listed \subseteq {f \in Folders : Reached(f)}
  BY <1>2 DEF Levels, Reached, Path, Barred, TypeOK
<1>4. {f \in Folders : Reached(f)} \subseteq listed
  <2> DEFINE P == {f \in Folders : Reached(f)}
  <2>1. Root \in P => Root \in listed
    BY <1>2 DEF Complete, Reached
  <2>2. ASSUME NEW f \in P \ {Root}
        PROVE  Parent[f] \in P /\ (Parent[f] \in listed => f \in listed)
    <3>1. /\ Parent[f] \in Folders /\ Level[f] = Level[Parent[f]] + 1
          /\ Above[f] = Above[Parent[f]] \cup {Parent[f]}
          /\ Level[Parent[f]] \in Nat /\ MaxDepth \in Nat
      BY ParentAssumption, LevelAssumption, AboveAssumption, MaxDepthAssumption
    <3>2. Reached(f) /\ f \notin Excluded \cup unread
      BY DEF Reached
    <3>3. Reached(Parent[f])
      BY <3>1, <3>2 DEF Reached
    <3>4. ~(Level[f] > MaxDepth)
      BY <3>1, <3>2 DEF Reached
    <3>5. Parent[f] \in listed => f \in listed
      BY <1>2, <3>2, <3>4 DEF Complete
    <3>6. QED BY <3>1, <3>3, <3>5
  <2> HIDE DEF P
  <2>3. P \subseteq Folders
    BY DEF P
  <2>4. P \subseteq listed
    BY <2>1, <2>2, <2>3, DownFromRoot
  <2>5. QED BY <2>4 DEF P
<1>5. missing = {f \in listed : ~Covered(f)}
  BY <1>2 DEF Coverage, TypeOK
<1>6. QED BY <1>2, <1>3, <1>4, <1>5 DEF Coverage

(* Walked, and edited in place by any number of marks since, the section lists
   exactly the folders that can be reached and flags exactly those that
   neither they nor an ancestor cover: scan_warm and apply_mark_raw agree. *)
THEOREM SectionAlwaysExact == Spec => []SectionIsExact
BY SectionExact, InvAlways, PTL

(* Whatever the walk and the marks do is what LibraryView takes a scan to do:
   lists and flags that reach up to the root, an edit of all that lies below. *)
THEOREM ImplementsView == Spec => ViewSpec
<1> USE DEF View!Walk, View!Fail, View!Expire, View!Mark, View!Edited, View!Within
<1>1. Init => View!Init
  BY DEF Init, Begun, View!Init
<1>2. Inv /\ Inv' /\ [Next]_vars => [View!Next]_(View!scan)
  <2> SUFFICES ASSUME Inv, Inv', [Next]_vars PROVE View!Next \/ UNCHANGED View!scan
    OBVIOUS
  <2>1. CASE RootFails
    BY <2>1 DEF RootFails, View!Next
  <2>2. CASE ReadLevel
    BY <2>2 DEF ReadLevel, View!scan
  <2>3. CASE Finish
    <3>1. section' = "walked" /\ section = "walking"
      BY <2>3 DEF Finish
    <3>2. SectionIsExact'
      BY SectionExact, PTL
    <3>3. listed' \subseteq Folders /\ missing' \subseteq listed'
      BY DEF Inv, TypeOK
    <3>4. ASSUME NEW f \in listed', NEW g \in Above[f]
          PROVE  /\ g \in listed'
                 /\ f \in missing' => g \in missing'
      <4>1. f \in Folders /\ g \in Folders /\ Above[g] \subseteq Above[f]
        BY <3>3, <3>4, AncestorsNest, AncestorsLieAbove
      <4>2. Level[g] < Level[f] /\ Level[f] \in Nat /\ Level[g] \in Nat
        BY <4>1, <3>4, AncestorsLieAbove, LevelAssumption
      <4>3. g \in listed'
        BY <3>1, <3>2, <3>4, <4>1, <4>2, MaxDepthAssumption DEF SectionIsExact, Reached
      <4>4. ~Covered(f)' => ~Covered(g)'
        BY <3>4, <4>1 DEF Covered
      <4>5. QED BY <3>1, <3>2, <3>4, <4>3, <4>4 DEF SectionIsExact
    <3>5. View!Walk
      BY <3>1, <3>3, <3>4
    <3>6. QED BY <3>5 DEF View!Next
  <2>4. ASSUME NEW f \in Folders, NEW m \in Markers, Mark(f, m)
        PROVE  View!Next \/ UNCHANGED View!scan
    <3>1. section' = section /\ listed' = listed /\ missing \subseteq Folders
      BY <2>4 DEF Mark, Inv, TypeOK
    <3>2. CASE section = "walked"
      <4>1. missing' = missing \ Within(f)
        BY <2>4, <3>1, <3>2, RootAboveAll DEF Mark, EditInPlace, Within
      <4>2. View!Mark(f)
        BY <3>1, <3>2, <4>1 DEF Within
      <4>3. QED BY <4>2 DEF View!Next
    <3>3. CASE section = "failed"
      BY <3>1, <3>3 DEF View!scan
    <3>4. QED BY <2>4, <3>2, <3>3 DEF Mark, Inv, TypeOK
  <2>5. ASSUME NEW f \in Folders, NEW m \in Markers, Undo(f, m)
        PROVE  View!Next
    BY <2>5 DEF Undo, WalkAgain, View!Next
  <2>6. CASE UNCHANGED vars
    BY <2>6 DEF vars, result, View!scan
  <2>7. QED BY <2>1, <2>2, <2>3, <2>4, <2>5, <2>6 DEF Next
<1>3. QED BY <1>1, <1>2, InvAlways, PTL DEF Spec, ViewSpec, View!Spec

(* LibraryView again, with its theorems. *)
Dashboard == INSTANCE LibraryView_proofs WITH
  status  <- IF section = "walking" THEN "none" ELSE section,
  listed  <- IF section = "walked" THEN listed ELSE {},
  missing <- IF section = "walked" THEN missing ELSE {},
  audio   <- IF section = "walked" THEN listed \cap Audio ELSE {}

LEMMA ImplementsDashboard == Spec => Dashboard!Spec
<1>1. View!Init <=> Dashboard!Init
  BY DEF View!Init, Dashboard!Init
<1>2. [View!Next]_(View!scan) <=> [Dashboard!Next]_(Dashboard!scan)
  BY DEF View!Next, Dashboard!Next, View!scan, Dashboard!scan, View!Walk, Dashboard!Walk,
         View!Fail, Dashboard!Fail, View!Expire, Dashboard!Expire, View!Mark,
         Dashboard!Mark, View!Edited, Dashboard!Edited, View!Within, Dashboard!Within
<1>3. QED
  BY <1>1, <1>2, ImplementsView, PTL DEF ViewSpec, View!Spec, Dashboard!Spec

(* The folders a section is there to point out: audio that can be reached, and no
   ebook or marker in it or above it. *)
Gaps == {f \in Audio : Reached(f) /\ ~Covered(f)}

(* From the disk to the badge, for any library: once walked, and whatever marks
   edited the section since, the number on a section is the number of its gaps,
   and the badge says "no gaps" just where there is none. *)
SectionCountsGaps ==
  section = "walked" =>
    \A mode \in Dashboard!Modes :
      /\ Dashboard!SectionGaps(mode) = Cardinality(Gaps)
      /\ Dashboard!Badge(mode) = "no gaps" <=> Gaps = {}

THEOREM SectionAlwaysCountsGaps == Spec => []SectionCountsGaps
<1>1. Dashboard!Spec => []Dashboard!CountsAreTrue
  BY Dashboard!CountsAreAlwaysTrue, FoldersAssumption, ParentAssumption,
     AboveAssumption, TreeAssumption, PTL
     DEF IsFiniteSet, Dashboard!IsFiniteSet
<1>2. ASSUME SectionIsExact, Dashboard!CountsAreTrue PROVE SectionCountsGaps
  <2> SUFFICES ASSUME section = "walked" PROVE SectionCountsGaps
    BY DEF SectionCountsGaps
  <2>1. Dashboard!Flagged = Gaps
    BY <1>2, AudioAssumption DEF Dashboard!Flagged, SectionIsExact, Gaps
  <2>2. (IF section = "walking" THEN "none" ELSE section) = "walked"
    OBVIOUS
  <2>3. \A mode \in Dashboard!Modes :
          /\ Dashboard!SectionGaps(mode) = Dashboard!Cardinality(Dashboard!Flagged)
          /\ Dashboard!Badge(mode) = "no gaps" <=> Dashboard!Flagged = {}
    BY ONLY <1>2, <2>2, Zenon DEF Dashboard!CountsAreTrue
  <2>4. Dashboard!Cardinality(Gaps) = Cardinality(Gaps)
    BY ONLY Zenon DEF Dashboard!Cardinality, Cardinality
  <2>5. QED BY ONLY <2>1, <2>3, <2>4, Zenon DEF SectionCountsGaps
<1>3. QED
  BY <1>1, <1>2, ImplementsDashboard, SectionAlwaysExact, PTL

(* A folder that nothing excludes is either in the section or owned up to by
   one of the two counts. *)
THEOREM OmissionsAlwaysCounted == Spec => []OmissionsCounted
<1>1. ASSUME Inv PROVE OmissionsCounted
  <2>1. SUFFICES ASSUME section = "walked", unread = {}, capped = 0
                 PROVE  {f \in Folders : Path(f) \cap Excluded = {}} \subseteq listed
    BY DEF OmissionsCounted, Path
  <2>2. frontier = {} /\ Complete
    BY <1>1, <2>1 DEF Inv, Walking
  <2> DEFINE P == {f \in Folders : Path(f) \cap Excluded = {}}
  <2>3. Root \in listed
    BY <2>1, <2>2 DEF Complete
  <2>4. ASSUME NEW f \in P \ {Root}
        PROVE  Parent[f] \in P /\ (Parent[f] \in listed => f \in listed)
    <3>1. Parent[f] \in Folders /\ Above[f] = Above[Parent[f]] \cup {Parent[f]}
      BY ParentAssumption, AboveAssumption
    <3>2. Parent[f] \in P /\ f \notin Excluded
      BY <3>1 DEF Path
    <3>3. QED BY <2>1, <2>2, <3>2 DEF Complete
  <2> HIDE DEF P
  <2>5. P \subseteq Folders
    BY DEF P
  <2>6. P \subseteq listed
    BY <2>3, <2>4, <2>5, DownFromRoot
  <2>7. QED BY <2>6 DEF P
<1>2. QED BY <1>1, InvAlways, PTL
=============================================================================
