------------------------- MODULE LibraryView_proofs -------------------------
(* Proofs about LibraryView, for any finite tree of directories. *)
EXTENDS LibraryView, FiniteSetTheorems, TLAPS

(* What lies above an ancestor lies above. *)
LEMMA AncestorsNest ==
  \A f \in Folders : \A g \in Above[f] : g \in Folders /\ Above[g] \subseteq Above[f]
<1> DEFINE T == {f \in Folders : \E g \in Above[f] : ~(Above[g] \subseteq Above[f])}
<1>1. SUFFICES ASSUME T # {} PROVE FALSE
  BY AboveAssumption
<1>2. PICK f \in T : f = Root \/ Parent[f] \notin T
  BY <1>1, TreeAssumption
<1>3. f # Root
  BY AboveAssumption
<1>4. Parent[f] \in Folders /\ Above[f] = Above[Parent[f]] \cup {Parent[f]}
  BY <1>3, ParentAssumption, AboveAssumption
<1>5. \A g \in Above[Parent[f]] : Above[g] \subseteq Above[Parent[f]]
  BY <1>2, <1>3, <1>4
<1>6. QED BY <1>4, <1>5

(* The folders listed, and those missing an ebook, reach up to the root. *)
Upward ==
  /\ \A f \in listed : Above[f] \subseteq listed
  /\ \A f \in missing : Above[f] \subseteq missing

(* Nothing is left of a scan that expired or failed. *)
NothingUnwalked == status # "walked" => listed = {}

Inv == TypeOK /\ Upward /\ NothingUnwalked

LEMMA Initially == Init => Inv
BY DEF Init, Inv, TypeOK, Upward, NothingUnwalked

LEMMA Step == Inv /\ [Next]_scan => Inv'
<1> SUFFICES ASSUME Inv, [Next]_scan PROVE Inv'
  OBVIOUS
<1> USE DEF Inv, TypeOK, Upward, NothingUnwalked
<1>1. CASE Walk
  BY <1>1 DEF Walk
<1>2. CASE Fail
  BY <1>2 DEF Fail
<1>3. CASE Expire
  BY <1>3 DEF Expire
<1>4. ASSUME NEW f \in Folders, Mark(f) PROVE Inv'
  <2>1. missing' = missing \ Within(f)
    BY <1>4 DEF Mark, Edited
  <2>2. ASSUME NEW g \in missing', NEW a \in Above[g] PROVE a \in missing'
    <3>1. g \in Folders /\ a \in missing
      BY <2>1, <2>2
    <3>2. a \in Folders /\ Above[a] \subseteq Above[g]
      BY <3>1, AncestorsNest
    <3>3. g # f /\ f \notin Above[g]
      BY <2>1, <2>2, <3>1 DEF Within
    <3>4. QED BY <2>1, <3>1, <3>2, <3>3 DEF Within
  <2>3. QED BY <1>4, <2>1, <2>2 DEF Mark
<1>5. CASE UNCHANGED scan
  BY <1>5 DEF scan
<1>6. QED BY <1>1, <1>2, <1>3, <1>4, <1>5 DEF Next

(* The types of a section, for any tree. *)
THEOREM TypeCorrect == Spec => []TypeOK
<1>1. Inv => TypeOK
  BY DEF Inv
<1>2. QED BY Initially, Step, <1>1, PTL DEF Spec

LEMMA PlaceholdersTellTruth == Inv => NodesTellTruth
<1> SUFFICES ASSUME Inv, NEW mode \in Modes, NEW f \in Shown(mode)
             PROVE /\ f \in listed
                   /\ HoldsAudio(f, mode) <=> f \in audio
                   /\ MissingEbook(f, mode) <=> f \in missing
  BY DEF NodesTellTruth
<1> USE DEF Inv, TypeOK, Upward
<1>1. CASE f \in Kept(mode)
  BY <1>1 DEF Kept, Flagged, HoldsAudio, MissingEbook, Modes
<1>2. CASE f \notin Kept(mode)
  <2>1. PICK k \in Kept(mode) : f \in Above[k]
    BY <1>2 DEF Shown, Nodes, Path
  <2>2. k \in Flagged /\ mode = "gaps"
    BY <1>2, <2>1 DEF Kept, Flagged, Modes
  <2>3. f \in missing
    BY <2>1, <2>2 DEF Flagged
  <2>4. f \notin audio
    BY <1>2, <2>2, <2>3 DEF Kept, Flagged
  <2>5. QED BY <1>2, <2>3, <2>4 DEF HoldsAudio, MissingEbook
<1>3. QED BY <1>1, <1>2

(* A row says in either view what the scan says, for any tree: a placeholder
   is only ever made for a folder it is right about. *)
THEOREM RowsTellTruth == Spec => []NodesTellTruth
BY Initially, Step, PlaceholdersTellTruth, PTL DEF Spec

-----------------------------------------------------------------------------
(* render.rs:118: "199 of 200 reads 99% rather than rounding up to a false
   100%".  For any numbers, 100 is what the percentage says just when the
   all-clear line does. *)
THEOREM PercentageIsHonest ==
  ASSUME NEW gaps \in Nat, NEW audiobooks \in Nat, gaps <= audiobooks
  PROVE  Summary(gaps, audiobooks).pct = 100 <=> Summary(gaps, audiobooks).tail
<1> DEFINE covered == audiobooks - gaps
           q == (covered * 100) \div audiobooks
<1>1. CASE audiobooks = 0
  <2>1. ~(audiobooks > 0)
    BY <1>1
  <2>2. Summary(gaps, audiobooks).pct = 0
    BY <2>1 DEF Summary
  <2>3. ~Summary(gaps, audiobooks).tail
    BY <2>1 DEF Summary
  <2>4. QED BY <2>2, <2>3
<1>2. CASE audiobooks > 0
  <2>1. Monus(audiobooks, gaps) = covered
    BY DEF Monus
  <2>2. Summary(gaps, audiobooks).pct = q /\ Summary(gaps, audiobooks).tail = (gaps = 0)
    BY <1>2, <2>1 DEF Summary
  <2>3. ASSUME q = 100 PROVE gaps = 0
    <3>1. audiobooks * 100 <= covered * 100
      <4> DEFINE n == covered * 100
      <4>1. n \in Nat /\ n \div audiobooks = 100
        BY <2>3
      <4> HIDE DEF n
      <4>2. audiobooks * 100 <= n
        BY <1>2, <4>1
      <4>3. QED BY <4>2 DEF n
    <3>2. QED BY <3>1
  <2>4. ASSUME gaps = 0 PROVE q = 100
    <3>1. covered = audiobooks
      BY <2>4
    <3>2. (audiobooks * 100) \div audiobooks = 100
      BY <1>2
    <3>3. QED BY <3>1, <3>2
  <2>5. Summary(gaps, audiobooks).tail <=> gaps = 0
    BY <2>2
  <2>6. QED BY <2>2, <2>3, <2>4, <2>5
<1>3. QED BY <1>1, <1>2

-----------------------------------------------------------------------------
(* Sums of counts *)

(* Of finite sets, some are smallest. *)
LEMMA Smallest ==
  ASSUME NEW S, IsFiniteSet(S), NEW T \in SUBSET SUBSET S, T # {}
  PROVE  \E t \in T : \A u \in T : u \subseteq t => u = t
<1>1. SUBSET S \subseteq FiniteSubsetsOf(S)
  BY FS_Subset DEF FiniteSubsetsOf
<1>2. IsWellFoundedOn(StrictSubsetOrdering(S), FiniteSubsetsOf(S))
  BY FS_StrictSubsetOrderingWellFounded
<1>3. \E t \in T : \A u \in T : ~(<<u, t>> \in StrictSubsetOrdering(S))
  BY <1>1, <1>2, WFMin
<1>4. QED BY <1>3 DEF StrictSubsetOrdering

(* Disjoint finite sets, and the size of their union. *)
Parts(part, S) ==
  /\ IsFiniteSet(S)
  /\ \A x \in S : IsFiniteSet(part[x])
  /\ \A x, y \in S : x # y => part[x] \cap part[y] = {}
Union(part, s) == UNION {part[x] : x \in s}
Size(part, s) == Cardinality(Union(part, s))
Sum(val, s) == MapThenSumSet(LAMBDA x : val[x], s)

(* One part at a time. *)
LEMMA PartsAddUp ==
  ASSUME NEW S, NEW part, Parts(part, S)
  PROVE  \A s \in SUBSET S :
           /\ IsFiniteSet(Union(part, s))
           /\ \A x \in s : Size(part, s) = Cardinality(part[x]) + Size(part, s \ {x})
<1> USE DEF Parts
<1> DEFINE U(t) == Union(part, t)
<1>1. ASSUME NEW t \in SUBSET S, NEW x \in t
      PROVE  U(t) = part[x] \cup U(t \ {x}) /\ part[x] \cap U(t \ {x}) = {}
  BY DEF Union
<1>2. \A t \in SUBSET S : IsFiniteSet(U(t))
  <2> DEFINE T == {t \in SUBSET S : ~IsFiniteSet(U(t))}
  <2>1. SUFFICES ASSUME T # {} PROVE FALSE
    OBVIOUS
  <2>2. PICK t \in T : \A u \in T : u \subseteq t => u = t
    <3>1. T \in SUBSET SUBSET S
      OBVIOUS
    <3> HIDE DEF T
    <3>2. QED BY <2>1, <3>1, Smallest
  <2>3. U({}) = {}
    BY DEF Union
  <2>4. t # {}
    BY <2>3, FS_EmptySet
  <2>5. PICK x \in t : TRUE
    BY <2>4
  <2>6. t \ {x} \in SUBSET S /\ t \ {x} # t /\ t \ {x} \subseteq t
    BY <2>5
  <2>7. U(t) = part[x] \cup U(t \ {x})
    BY <1>1, <2>5
  <2> HIDE DEF U
  <2>8. IsFiniteSet(U(t \ {x}))
    BY <2>2, <2>6
  <2>9. IsFiniteSet(part[x]) /\ ~IsFiniteSet(U(t))
    BY <2>5
  <2>10. IsFiniteSet(part[x] \cup U(t \ {x}))
    BY <2>8, <2>9, FS_Union
  <2>11. QED BY <2>7, <2>9, <2>10
<1>3. ASSUME NEW s \in SUBSET S, NEW x \in s
      PROVE  Cardinality(U(s)) = Cardinality(part[x]) + Cardinality(U(s \ {x}))
  <2> HIDE DEF U
  <2>1. IsFiniteSet(part[x]) /\ IsFiniteSet(U(s \ {x}))
    <3>1. s \ {x} \in SUBSET S /\ x \in S
      OBVIOUS
    <3>2. QED BY <1>2, <3>1
  <2>2. Cardinality(part[x] \cup U(s \ {x}))
          = Cardinality(part[x]) + Cardinality(U(s \ {x})) - Cardinality(part[x] \cap U(s \ {x}))
    BY <2>1, FS_Union
  <2>3. Cardinality(part[x] \cap U(s \ {x})) = 0
    BY <1>1, FS_EmptySet
  <2>4. Cardinality(part[x]) \in Nat /\ Cardinality(U(s \ {x})) \in Nat
    BY <2>1, FS_CardinalityType
  <2>5. U(s) = part[x] \cup U(s \ {x})
    BY <1>1
  <2>6. QED BY <2>2, <2>3, <2>4, <2>5
<1>4. QED BY <1>2, <1>3 DEF Size

(* MapThenSumSet, by its definition a recursion over subsets, adds up to the size
   of the union.  The sizes meet the recursion's equation, so it has a solution;
   and any solution agrees with them, since no subset is the smallest on which it
   would not. *)
LEMMA SumOfParts ==
  ASSUME NEW S, NEW part, NEW val, Parts(part, S),
         \A x \in S : val[x] = Cardinality(part[x])
  PROVE  Sum(val, S) = Size(part, S)
<1> DEFINE some(s) == CHOOSE x \in s : TRUE
           Adds(h) == h = [s \in SUBSET S |->
                             IF s = {} THEN 0
                             ELSE val[CHOOSE x \in s : TRUE] + h[s \ {CHOOSE x \in s : TRUE}]]
           sizes == [s \in SUBSET S |-> Size(part, s)]
<1>1. ASSUME NEW s \in SUBSET S, s # {}
      PROVE  some(s) \in s
  BY <1>1
<1>2. Size(part, {}) = 0
  BY FS_EmptySet DEF Size, Union
<1>3. ASSUME NEW s \in SUBSET S, NEW x \in s
      PROVE  Size(part, s) = val[x] + Size(part, s \ {x})
  <2>1. \A t \in SUBSET S :
          /\ IsFiniteSet(Union(part, t))
          /\ \A y \in t : Size(part, t) = Cardinality(part[y]) + Size(part, t \ {y})
    BY PartsAddUp
  <2>2. Cardinality(part[x]) = val[x]
    OBVIOUS
  <2>3. QED BY <2>1, <2>2
<1>4. Adds(sizes)
  <2>1. ASSUME NEW s \in SUBSET S, s # {}
        PROVE  sizes[s] = val[some(s)] + sizes[s \ {some(s)}]
    BY <1>1, <1>3, <2>1
  <2>2. sizes[{}] = 0
    BY <1>2
  <2> HIDE DEF sizes
  <2>3. sizes = [s \in SUBSET S |-> IF s = {} THEN 0 ELSE val[some(s)] + sizes[s \ {some(s)}]]
    BY <2>1, <2>2 DEF sizes
  <2>4. QED BY <2>3
<1>5. PICK h : Adds(h) /\ MapThenSumSet(LAMBDA x : val[x], S) = h[S]
  BY ONLY <1>4, Zenon DEF MapThenSumSet, MapThenFoldSet
<1>6. Adds(h)
  BY <1>5, Zenon
<1>7. \A s \in SUBSET S : h[s] = Size(part, s)
  <2> DEFINE T == {s \in SUBSET S : h[s] # Size(part, s)}
  <2>1. SUFFICES ASSUME T # {} PROVE FALSE
    OBVIOUS
  <2>i. IsFiniteSet(S)
    BY DEF Parts
  <2>2. PICK s \in T : \A u \in T : u \subseteq s => u = s
    <3>1. T \in SUBSET SUBSET S
      OBVIOUS
    <3> HIDE DEF T
    <3>2. QED BY <2>1, <2>i, <3>1, Smallest
  <2>3. h[{}] = 0
    BY <1>6
  <2>4. s # {}
    BY <1>2, <2>3
  <2>5. some(s) \in s
    BY <1>1, <2>4
  <2>6. s \ {some(s)} \in SUBSET S /\ s \ {some(s)} # s
    BY <2>5
  <2>7. h[s \ {some(s)}] = Size(part, s \ {some(s)})
    BY <2>2, <2>6
  <2>8. h[s] = val[some(s)] + h[s \ {some(s)}]
    BY <1>6, <2>4
  <2>9. QED BY <1>3, <2>5, <2>7, <2>8
<1>8. h[S] = Size(part, S)
  BY <1>7
<1>9. QED BY <1>5, <1>8, Zenon DEF Sum

-----------------------------------------------------------------------------
(* The tree *)

LEMMA NotAboveItself == \A f \in Folders : f \notin Above[f]
<1> DEFINE T == {f \in Folders : f \in Above[f]}
<1>1. SUFFICES ASSUME T # {} PROVE FALSE
  OBVIOUS
<1>2. PICK f \in T : f = Root \/ Parent[f] \notin T
  BY <1>1, TreeAssumption
<1>3. f # Root
  BY AboveAssumption
<1>4. Parent[f] \in Folders /\ Above[f] = Above[Parent[f]] \cup {Parent[f]}
  BY <1>3, ParentAssumption, AboveAssumption
<1>5. Parent[f] \notin Above[Parent[f]]
  BY <1>2, <1>3, <1>4
<1>6. f \in Above[Parent[f]]
  BY <1>2, <1>4, <1>5
<1>7. QED BY <1>4, <1>5, <1>6, AncestorsNest

(* What lies above one folder is a line. *)
LEMMA PathIsLine ==
  \A g \in Folders : \A c, d \in Path(g) : c = d \/ c \in Above[d] \/ d \in Above[c]
<1> DEFINE Line(g) == \A c, d \in Path(g) : c = d \/ c \in Above[d] \/ d \in Above[c]
           T == {g \in Folders : ~Line(g)}
<1>1. SUFFICES ASSUME T # {} PROVE FALSE
  OBVIOUS
<1>2. PICK g \in T : g = Root \/ Parent[g] \notin T
  BY <1>1, TreeAssumption
<1>3. CASE g = Root
  BY <1>3, AboveAssumption DEF Path
<1>4. CASE g # Root
  <2>1. Parent[g] \in Folders /\ Above[g] = Path(Parent[g])
    BY <1>4, ParentAssumption, AboveAssumption DEF Path
  <2>2. Line(Parent[g])
    BY <1>2, <1>4, <2>1
  <2>3. Path(g) = Path(Parent[g]) \cup {g}
    BY <2>1 DEF Path
  <2>4. Line(g)
    BY <2>1, <2>2, <2>3
  <2>5. QED BY <2>4
<1>5. QED BY <1>3, <1>4

LEMMA RootIsAbove == \A f \in Folders \ {Root} : Root \in Above[f]
<1> DEFINE T == {f \in Folders \ {Root} : Root \notin Above[f]}
<1>1. SUFFICES ASSUME T # {} PROVE FALSE
  OBVIOUS
<1>2. PICK f \in T : f = Root \/ Parent[f] \notin T
  BY <1>1, TreeAssumption
<1>3. QED BY <1>2, ParentAssumption, AboveAssumption

(* One of a folder's subdirectories is on the way down to what lies below it. *)
LEMMA OneIsOnTheWay ==
  \A g \in Folders : \A p \in Above[g] :
    \E c \in Folders \ {Root} : Parent[c] = p /\ g \in Within(c)
<1> DEFINE OnTheWay(g, p) ==
             \E c \in Folders \ {Root} : Parent[c] = p /\ g \in Within(c)
           T == {g \in Folders : \E p \in Above[g] : ~OnTheWay(g, p)}
<1>1. SUFFICES ASSUME T # {} PROVE FALSE
  OBVIOUS
<1>2. PICK g \in T : g = Root \/ Parent[g] \notin T
  BY <1>1, TreeAssumption
<1>3. PICK p \in Above[g] : ~OnTheWay(g, p)
  OBVIOUS
<1>4. g # Root
  BY <1>3, AboveAssumption
<1>5. Parent[g] \in Folders /\ Above[g] = Above[Parent[g]] \cup {Parent[g]}
  BY <1>4, ParentAssumption, AboveAssumption
<1>6. CASE p = Parent[g]
  BY <1>3, <1>4, <1>6 DEF Within
<1>7. CASE p \in Above[Parent[g]]
  <2>1. PICK c \in Folders \ {Root} : Parent[c] = p /\ Parent[g] \in Within(c)
    BY <1>2, <1>4, <1>5, <1>7
  <2>2. g \in Within(c)
    BY <1>5, <2>1 DEF Within
  <2>3. QED BY <1>3, <2>1, <2>2
<1>8. QED BY <1>3, <1>5, <1>6, <1>7

(* Going down ends, too: of some folders, one lies above none. *)
LEMMA Lowest ==
  ASSUME NEW T \in SUBSET Folders, T # {}
  PROVE  \E f \in T : \A g \in T : f \notin Above[g]
<1> DEFINE below == {Within(f) : f \in T}
<1>1. below \in SUBSET SUBSET Folders /\ below # {}
  BY DEF Within
<1>2. PICK w \in below : \A u \in below : u \subseteq w => u = w
  <2> HIDE DEF below
  <2> QED BY <1>1, Smallest, FoldersAssumption
<1>3. PICK f \in T : w = Within(f)
  OBVIOUS
<1>4. ASSUME NEW g \in T, f \in Above[g] PROVE FALSE
  <2>1. Within(g) \subseteq Within(f)
    BY <1>4, AncestorsNest DEF Within
  <2>2. Within(g) = Within(f)
    BY <1>2, <1>3, <2>1
  <2>3. f \in Within(g)
    BY <2>2 DEF Within
  <2>4. f \in Above[f]
    BY <1>4, <2>3, AncestorsNest DEF Within
  <2>5. QED BY <2>4, NotAboveItself
<1>5. QED BY <1>4

-----------------------------------------------------------------------------
(* Counting bottom up *)

(* What lies below a row.  The root's row stands beside the others. *)
Below(f) == IF f = Root THEN {Root} ELSE Within(f)
Share(f, C) == Below(f) \cap C
Shares(rows, C) == [f \in rows |-> Share(f, C)]

(* Folders of the library, of whatever a view keeps. *)
Countable(C, mode) == C \subseteq Folders /\ C \subseteq Kept(mode) \cap audio

LEMMA NodesAreOnTheWay ==
  ASSUME NEW mode
  PROVE  \A c : c \in Nodes(mode) <=> c # Root /\ \E k \in Kept(mode) : c \in Path(k)
BY DEF Nodes

LEMMA ShownAreFolders ==
  ASSUME Inv, NEW mode \in Modes
  PROVE  /\ Shown(mode) \subseteq Folders /\ Nodes(mode) \subseteq Folders \ {Root}
         /\ Nodes(mode) \subseteq Shown(mode) /\ Kept(mode) \subseteq Folders
         /\ Shown(mode) \subseteq Nodes(mode) \cup {Root}
<1>1. Kept(mode) \subseteq Folders
  BY DEF Inv, TypeOK, Kept, Flagged
<1>2. \A f \in Kept(mode) : Path(f) \subseteq Folders
  BY <1>1, AboveAssumption DEF Path
<1>3. Nodes(mode) \subseteq Folders \ {Root}
  BY <1>2, NodesAreOnTheWay
<1>4. QED BY <1>1, <1>3, FoldersAssumption DEF Shown

(* Children of one folder, or the top rows: what lies below them is disjoint. *)
LEMMA SiblingsApart ==
  ASSUME NEW p \in Folders, NEW s \in SUBSET Folders, NEW C,
         \A f \in s : f = Root \/ Parent[f] = p
  PROVE  Parts(Shares(s, C), s)
<1>1. IsFiniteSet(s)
  BY FoldersAssumption, FS_Subset
<1>2. ASSUME NEW f \in s PROVE IsFiniteSet(Shares(s, C)[f])
  <2>1. Shares(s, C)[f] = Share(f, C)
    BY DEF Shares
  <2>2. Share(f, C) \in SUBSET Folders
    BY DEF Share, Below, Within
  <2>3. QED BY <2>1, <2>2, FoldersAssumption, FS_Subset
<1>3. ASSUME NEW f \in s, NEW g \in s, f # g, NEW h \in Below(f), h \in Below(g)
      PROVE  FALSE
  <2>1. ASSUME NEW x \in s, x # Root PROVE Below(x) = Within(x) /\ Root \notin Below(x)
    BY <2>1, AboveAssumption DEF Below, Within
  <2>2. f # Root /\ g # Root
    BY <1>3, <2>1 DEF Below
  <2>3. h \in Folders /\ f \in Path(h) /\ g \in Path(h)
    BY <1>3, <2>1, <2>2 DEF Within, Path
  <2>4. Above[f] = Above[p] \cup {p} /\ Above[g] = Above[p] \cup {p}
    BY <2>2, AboveAssumption
  <2>5. f \in Above[g] \/ g \in Above[f]
    BY <1>3, <2>3, PathIsLine
  <2>6. QED BY <2>4, <2>5, NotAboveItself
<1>4. \A f, g \in s : f # g => Shares(s, C)[f] \cap Shares(s, C)[g] = {}
  BY <1>3 DEF Shares, Share
<1>5. QED BY <1>1, <1>2, <1>4 DEF Parts

(* A row's own count and its children's make the count of what lies below it. *)
LEMMA OneRowUp ==
  ASSUME Inv, NEW mode \in Modes, NEW C, Countable(C, mode), NEW f \in Shown(mode),
         NEW val,
         \A g \in Children(f, mode) : val[g] = Cardinality(Share(g, C))
  PROVE  (IF f \in C THEN 1 ELSE 0) + Sum(val, Children(f, mode))
           = Cardinality(Share(f, C))
<1> DEFINE s == Children(f, mode)
           part == Shares(s, C)
<1>1. f \in Folders /\ s \subseteq Folders \ {Root} /\ \A g \in s : Parent[g] = f
  BY ShownAreFolders DEF Children
<1>2. Parts(part, s)
  BY <1>1, SiblingsApart
<1>3. Share(f, C) = Union(part, s) \cup ({f} \cap C)
  <2>1. CASE f = Root
    BY <2>1 DEF Children, Union, Share, Below
  <2>2. CASE f # Root
    <3>1. ASSUME NEW g \in Within(f) \cap C, g # f PROVE g \in Union(part, s)
      <4>1. g \in Folders /\ f \in Above[g]
        BY <3>1 DEF Within
      <4>2. PICK c \in Folders \ {Root} : Parent[c] = f /\ g \in Within(c)
        BY <4>1, OneIsOnTheWay
      <4>3. g \in Kept(mode) /\ c \in Path(g)
        BY <3>1, <4>2 DEF Countable, Within, Path
      <4>4. c \in s
        BY <2>2, <4>2, <4>3, NodesAreOnTheWay DEF Children
      <4>5. g \in Share(c, C)
        BY <3>1, <4>2 DEF Share, Below
      <4>6. QED BY <4>4, <4>5 DEF Union, Shares
    <3>2. ASSUME NEW c \in s, NEW g \in Share(c, C) PROVE g \in Within(f) \cap C
      <4>1. c \in Folders \ {Root} /\ Parent[c] = f
        BY <1>1
      <4>2. f \in Above[c]
        BY <4>1, AboveAssumption
      <4>3. g \in Within(c) /\ g \in C
        BY <3>2, <4>1 DEF Share, Below
      <4>4. QED BY <4>2, <4>3, AncestorsNest DEF Within
    <3>3. Union(part, s) \subseteq Within(f) \cap C
      BY <3>2 DEF Union, Shares
    <3>4. f \in Within(f)
      BY <1>1 DEF Within
    <3>5. Share(f, C) = Within(f) \cap C
      BY <2>2 DEF Share, Below
    <3>6. QED BY <3>1, <3>3, <3>4, <3>5
  <2>3. QED BY <2>1, <2>2
<1>4. f \notin Union(part, s)
  <2>1. ASSUME NEW c \in s, f \in Within(c) PROVE FALSE
    <3>1. f \in Above[c]
      BY <1>1, AboveAssumption
    <3>2. QED BY <1>1, <2>1, <3>1, AncestorsNest, NotAboveItself DEF Within
  <2>2. QED BY <1>1, <2>1 DEF Union, Shares, Share, Below
<1>5. Sum(val, s) = Cardinality(Union(part, s))
  <2>1. \A g \in s : val[g] = Cardinality(part[g])
    BY DEF Shares
  <2> HIDE DEF s, part
  <2>2. QED BY <1>2, <2>1, SumOfParts DEF Size
<1>6. IsFiniteSet(Union(part, s)) /\ Cardinality(Union(part, s)) \in Nat
  <2> HIDE DEF s, part
  <2>1. IsFiniteSet(Union(part, s))
    BY <1>2, PartsAddUp
  <2>2. QED BY <2>1, FS_CardinalityType
<1> HIDE DEF s, part
<1>7. CASE f \in C
  <2>1. Cardinality(Union(part, s) \cup {f}) = Cardinality(Union(part, s)) + 1
    BY <1>4, <1>6, FS_AddElement
  <2>2. Share(f, C) = Union(part, s) \cup {f}
    BY <1>3, <1>7
  <2>3. QED BY <1>5, <1>6, <1>7, <2>1, <2>2 DEF s
<1>8. CASE f \notin C
  <2>1. Share(f, C) = Union(part, s)
    BY <1>3, <1>8
  <2>2. QED BY <1>5, <1>6, <1>8, <2>1 DEF s
<1>9. QED BY <1>7, <1>8

(* So counting bottom up has a result, and only this one. *)
LEMMA CountedBelow ==
  ASSUME Inv, NEW mode \in Modes, NEW C, Countable(C, mode), NEW val,
         \A f \in Shown(mode) :
           val[f] = (IF f \in C THEN 1 ELSE 0) + Sum(val, Children(f, mode))
  PROVE  \A f \in Shown(mode) : val[f] = Cardinality(Share(f, C))
<1> DEFINE T == {f \in Shown(mode) : val[f] # Cardinality(Share(f, C))}
<1>1. SUFFICES ASSUME T # {} PROVE FALSE
  OBVIOUS
<1>2. T \in SUBSET Folders
  BY ShownAreFolders
<1>3. PICK f \in T : \A g \in T : f \notin Above[g]
  <2> HIDE DEF T
  <2> QED BY <1>1, <1>2, Lowest
<1>4. ASSUME NEW g \in Children(f, mode) PROVE val[g] = Cardinality(Share(g, C))
  <2>1. g \in Shown(mode) /\ g \in Folders \ {Root} /\ Parent[g] = f
    BY ShownAreFolders DEF Children
  <2>2. f \in Above[g]
    BY <2>1, AboveAssumption
  <2>3. QED BY <1>3, <2>1, <2>2
<1>5. QED BY <1>4, OneRowUp

-----------------------------------------------------------------------------
(* What the rows and badges count *)

LEMMA FlaggedIsCountable ==
  ASSUME Inv, NEW mode \in Modes
  PROVE  /\ Countable(Flagged, mode) /\ Countable(audio \cap Kept(mode), mode)
         /\ \A f \in Shown(mode) : NeedsEbook(f, mode) <=> f \in Flagged
         /\ \A f \in Shown(mode) : HoldsAudio(f, mode) <=> f \in audio \cap Kept(mode)
<1>1. Flagged \subseteq Kept(mode)
  BY DEF Inv, TypeOK, Kept, Flagged
<1>2. Kept(mode) \subseteq Folders
  BY ShownAreFolders
<1>3. QED
  BY <1>1, <1>2 DEF Countable, Flagged, NeedsEbook, HoldsAudio, MissingEbook

(* fill_gaps_within: the recursion up the tree counts the gaps below a row. *)
LEMMA GapsAreCounted ==
  ASSUME Inv, NEW mode \in Modes
  PROVE  \A f \in Shown(mode) : GapsWithin(mode)[f] = Cardinality(Share(f, Flagged))
<1> DEFINE Adds(h) ==
             h = [f \in Shown(mode) |->
                    (IF NeedsEbook(f, mode) THEN 1 ELSE 0)
                      + MapThenSumSet(LAMBDA g : h[g], Children(f, mode))]
           counts == [f \in Shown(mode) |-> Cardinality(Share(f, Flagged))]
<1>1. ASSUME NEW f \in Shown(mode)
      PROVE  counts[f] = (IF NeedsEbook(f, mode) THEN 1 ELSE 0) + Sum(counts, Children(f, mode))
  <2>1. \A g \in Children(f, mode) : counts[g] = Cardinality(Share(g, Flagged))
    BY ShownAreFolders DEF Children
  <2>2. counts[f] = Cardinality(Share(f, Flagged))
    OBVIOUS
  <2>3. Countable(Flagged, mode) /\ (NeedsEbook(f, mode) <=> f \in Flagged)
    BY FlaggedIsCountable
  <2> HIDE DEF counts
  <2>4. QED BY <2>1, <2>2, <2>3, OneRowUp
<1>2. counts = [f \in Shown(mode) |->
                  (IF NeedsEbook(f, mode) THEN 1 ELSE 0) + Sum(counts, Children(f, mode))]
  <2>1. counts = [f \in Shown(mode) |-> counts[f]]
    OBVIOUS
  <2> HIDE DEF counts
  <2>2. QED BY <1>1, <2>1
<1> HIDE DEF counts
<1>3. Adds(counts)
  BY ONLY <1>2, Zenon DEF Sum
<1>4. Adds(GapsWithin(mode))
  BY ONLY <1>3, Zenon DEF GapsWithin, CountWithin
<1>5. GapsWithin(mode)
        = [f \in Shown(mode) |->
             (IF NeedsEbook(f, mode) THEN 1 ELSE 0) + Sum(GapsWithin(mode), Children(f, mode))]
  BY ONLY <1>4, Zenon DEF Sum
<1>6. PICK val : val = GapsWithin(mode)
  OBVIOUS
<1>7. \A f \in Shown(mode) :
        val[f] = (IF f \in Flagged THEN 1 ELSE 0) + Sum(val, Children(f, mode))
  BY <1>5, <1>6, FlaggedIsCountable
<1>8. \A f \in Shown(mode) : val[f] = Cardinality(Share(f, Flagged))
  BY <1>7, CountedBelow, FlaggedIsCountable
<1>9. QED BY <1>6, <1>8

(* fill_audio_within. *)
LEMMA AudioIsCounted ==
  ASSUME Inv, NEW mode \in Modes
  PROVE  \A f \in Shown(mode) :
           AudioWithin(mode)[f] = Cardinality(Share(f, audio \cap Kept(mode)))
<1> DEFINE C == audio \cap Kept(mode)
           Adds(h) ==
             h = [f \in Shown(mode) |->
                    (IF HoldsAudio(f, mode) THEN 1 ELSE 0)
                      + MapThenSumSet(LAMBDA g : h[g], Children(f, mode))]
           counts == [f \in Shown(mode) |-> Cardinality(Share(f, C))]
<1>1. ASSUME NEW f \in Shown(mode)
      PROVE  counts[f] = (IF HoldsAudio(f, mode) THEN 1 ELSE 0) + Sum(counts, Children(f, mode))
  <2>1. \A g \in Children(f, mode) : counts[g] = Cardinality(Share(g, C))
    BY ShownAreFolders DEF Children
  <2>2. counts[f] = Cardinality(Share(f, C))
    OBVIOUS
  <2>3. Countable(C, mode) /\ (HoldsAudio(f, mode) <=> f \in C)
    BY FlaggedIsCountable
  <2> HIDE DEF counts, C
  <2>4. QED BY <2>1, <2>2, <2>3, OneRowUp
<1>2. counts = [f \in Shown(mode) |->
                  (IF HoldsAudio(f, mode) THEN 1 ELSE 0) + Sum(counts, Children(f, mode))]
  <2>1. counts = [f \in Shown(mode) |-> counts[f]]
    OBVIOUS
  <2> HIDE DEF counts
  <2>2. QED BY <1>1, <2>1
<1> HIDE DEF counts
<1>3. Adds(counts)
  BY ONLY <1>2, Zenon DEF Sum
<1>4. Adds(AudioWithin(mode))
  BY ONLY <1>3, Zenon DEF AudioWithin, CountWithin
<1>5. AudioWithin(mode)
        = [f \in Shown(mode) |->
             (IF HoldsAudio(f, mode) THEN 1 ELSE 0) + Sum(AudioWithin(mode), Children(f, mode))]
  BY ONLY <1>4, Zenon DEF Sum
<1>6. PICK val : val = AudioWithin(mode)
  OBVIOUS
<1>7. \A f \in Shown(mode) :
        val[f] = (IF f \in C THEN 1 ELSE 0) + Sum(val, Children(f, mode))
  BY <1>5, <1>6, FlaggedIsCountable
<1>8. \A f \in Shown(mode) : val[f] = Cardinality(Share(f, C))
  <2>1. Countable(C, mode)
    BY FlaggedIsCountable
  <2> HIDE DEF C
  <2>2. QED BY <1>7, <2>1, CountedBelow
<1>9. QED BY <1>6, <1>8

(* The top rows have every folder below them, the root's own row included. *)
LEMMA TopsHaveAll ==
  ASSUME Inv, NEW mode \in Modes, NEW C, Countable(C, mode)
  PROVE  /\ Parts(Shares(Tops(mode), C), Tops(mode))
         /\ Union(Shares(Tops(mode), C), Tops(mode)) = C
<1> DEFINE tops == Tops(mode)
<1>1. tops \subseteq Folders /\ \A f \in tops : f = Root \/ Parent[f] = Root
  BY ShownAreFolders DEF Tops
<1>2. Parts(Shares(tops, C), tops)
  <2> HIDE DEF tops
  <2> QED BY <1>1, FoldersAssumption, SiblingsApart
<1>3. ASSUME NEW c \in C PROVE \E t \in tops : c \in Share(t, C)
  <2>1. c \in Folders /\ c \in Kept(mode) /\ c \in audio
    BY DEF Countable
  <2>2. CASE c = Root
    BY <2>1, <2>2, <1>3 DEF Tops, Shown, Share, Below
  <2>3. CASE c # Root
    <3>1. PICK t \in Folders \ {Root} : Parent[t] = Root /\ c \in Within(t)
      BY <2>1, <2>3, RootIsAbove, OneIsOnTheWay
    <3>2. t \in Nodes(mode)
      BY <2>1, <3>1, NodesAreOnTheWay DEF Within, Path
    <3>3. t \in tops
      BY <3>1, <3>2 DEF Tops, Shown
    <3>4. QED BY <3>1, <3>3 DEF Share, Below
  <2>4. QED BY <2>2, <2>3
<1>4. \A t \in tops : Share(t, C) \subseteq C
  BY DEF Share
<1> HIDE DEF tops
<1>5. Union(Shares(tops, C), tops) = C
  BY <1>3, <1>4 DEF Union, Shares
<1>6. QED BY <1>2, <1>5 DEF tops

LEMMA FlaggedIsShown ==
  ASSUME Inv, NEW mode \in Modes
  PROVE  Flagged \subseteq Shown(mode) /\ IsFiniteSet(Flagged) /\ IsFiniteSet(audio)
<1>1. Flagged \subseteq Kept(mode) /\ Flagged \subseteq Folders
  BY FlaggedIsCountable DEF Countable
<1>2. Flagged \subseteq Nodes(mode) \cup ({Root} \cap Kept(mode) \cap audio)
  BY <1>1, NodesAreOnTheWay DEF Path, Flagged
<1>3. audio \in SUBSET Folders /\ Flagged \in SUBSET Folders
  BY <1>1 DEF Inv, TypeOK
<1>4. QED BY <1>2, <1>3, FoldersAssumption, FS_Subset DEF Shown

(* The section adds up its top rows. *)
LEMMA SectionIsCounted ==
  ASSUME Inv, NEW mode \in Modes
  PROVE  SectionGaps(mode) = Cardinality(Flagged)
<1>1. CASE State(mode) = "forest"
  <2> DEFINE val == GapsWithin(mode)
             tops == Tops(mode)
             part == Shares(tops, Flagged)
  <2>1. SectionGaps(mode) = Sum(val, tops)
    BY ONLY <1>1, Zenon DEF SectionGaps, Sum
  <2>2. Parts(part, tops) /\ Union(part, tops) = Flagged
    BY TopsHaveAll, FlaggedIsCountable
  <2>3. \A t \in tops : val[t] = Cardinality(part[t])
    BY GapsAreCounted DEF Tops, Shares
  <2> HIDE DEF val, tops, part
  <2>4. QED BY <2>1, <2>2, <2>3, SumOfParts DEF Size
<1>2. CASE State(mode) # "forest"
  <2>1. SectionGaps(mode) = 0
    BY ONLY <1>2, Zenon DEF SectionGaps
  <2>2. status = "failed" \/ listed = {} \/ Shown(mode) = {}
    BY <1>2 DEF State
  <2>3. Flagged = {}
    BY <2>2, FlaggedIsShown DEF Inv, TypeOK, NothingUnwalked, Flagged
  <2>4. QED BY <2>1, <2>3, FS_EmptySet
<1>3. QED BY <1>1, <1>2

LEMMA CountsFollow == Inv => CountsAreTrue
<1> SUFFICES ASSUME Inv, NEW mode \in Modes
             PROVE  /\ \A f \in Shown(mode) \ {Root} :
                         /\ GapsWithin(mode)[f] = Cardinality(Within(f) \cap Flagged)
                         /\ HasButtons(f, mode) \/ mode = "all"
                         /\ RowMark(f, mode) = "no audio" <=> Within(f) \cap audio = {}
                    /\ SectionGaps(mode) = Cardinality(Flagged)
                    /\ status = "walked" => (Badge(mode) = "no gaps" <=> Flagged = {})
  BY DEF CountsAreTrue
<1>1. ASSUME NEW f \in Shown(mode) \ {Root}
      PROVE  /\ GapsWithin(mode)[f] = Cardinality(Within(f) \cap Flagged)
             /\ HasButtons(f, mode) \/ mode = "all"
             /\ RowMark(f, mode) = "no audio" <=> Within(f) \cap audio = {}
  <2>1. /\ GapsWithin(mode)[f] = Cardinality(Within(f) \cap Flagged)
        /\ AudioWithin(mode)[f] = Cardinality(Within(f) \cap (audio \cap Kept(mode)))
    BY GapsAreCounted, AudioIsCounted DEF Share, Below
  <2>2. Within(f) \cap Flagged \in SUBSET Folders
        /\ Within(f) \cap (audio \cap Kept(mode)) \in SUBSET Folders
    BY DEF Within
  <2>3. /\ IsFiniteSet(Within(f) \cap Flagged)
        /\ IsFiniteSet(Within(f) \cap (audio \cap Kept(mode)))
    BY <2>2, FoldersAssumption, FS_Subset
  <2>4. /\ GapsWithin(mode)[f] \in Nat /\ AudioWithin(mode)[f] \in Nat
        /\ GapsWithin(mode)[f] = 0 <=> Within(f) \cap Flagged = {}
        /\ AudioWithin(mode)[f] = 0 <=> Within(f) \cap (audio \cap Kept(mode)) = {}
    BY <2>1, <2>3, FS_CardinalityType, FS_EmptySet
  <2>5. f \in Folders /\ f \in Within(f)
    BY ShownAreFolders DEF Within
  <2>6. mode = "gaps" => Within(f) \cap Flagged # {}
    <3>1. SUFFICES ASSUME mode = "gaps" PROVE Within(f) \cap Flagged # {}
      OBVIOUS
    <3>2. Kept(mode) = Flagged
      BY <3>1 DEF Kept
    <3>3. PICK k \in Kept(mode) : f \in Path(k)
      BY ShownAreFolders, NodesAreOnTheWay
    <3>4. k \in Folders
      BY ShownAreFolders
    <3>5. k \in Within(f)
      BY <3>3, <3>4 DEF Path, Within
    <3>6. QED BY <3>2, <3>3, <3>5
  <2>7. Within(f) \cap audio = {} <=> Within(f) \cap (audio \cap Kept(mode)) = {}
    <3>1. CASE mode = "gaps"
      BY <2>6, <3>1 DEF Kept, Flagged
    <3>2. CASE mode = "all"
      BY <3>2 DEF Kept, Inv, TypeOK
    <3>3. QED BY <3>1, <3>2 DEF Modes
  <2>8. RowMark(f, mode) = "no audio" <=> ~NeedsEbook(f, mode) /\ AudioWithin(mode)[f] = 0
    <3>1. NeedsEbook(f, mode) \in BOOLEAN
      BY DEF NeedsEbook
    <3>2. PICK n : n = AudioWithin(mode)[f]
      OBVIOUS
    <3>3. QED BY <2>4, <3>1, <3>2 DEF RowMark
  <2>9. NeedsEbook(f, mode) => Within(f) \cap audio # {}
    BY <2>5 DEF NeedsEbook, HoldsAudio
  <2>10. HasButtons(f, mode) \/ mode = "all"
    BY <2>4, <2>6 DEF HasButtons, Modes
  <2>11. QED BY <2>1, <2>4, <2>7, <2>8, <2>9, <2>10
<1>2. SectionGaps(mode) = Cardinality(Flagged)
  BY SectionIsCounted
<1>3. ASSUME status = "walked" PROVE Badge(mode) = "no gaps" <=> Flagged = {}
  <2>1. SectionGaps(mode) = 0 <=> Flagged = {}
    BY <1>2, FlaggedIsShown, FS_EmptySet
  <2>2. State(mode) = "clean" \/ State(mode) = "forest"
    BY <1>3 DEF State
  <2>3. State(mode) = "clean" => Flagged = {}
    <3>1. State(mode) = "clean" => listed = {} \/ Shown(mode) = {}
      BY <1>3 DEF State
    <3>2. QED BY <3>1, FlaggedIsShown DEF Inv, TypeOK, Flagged
  <2>4. Badge(mode) = "no gaps"
          <=> State(mode) = "clean" \/ (State(mode) = "forest" /\ SectionGaps(mode) = 0)
    BY <2>2 DEF Badge
  <2>5. QED BY <2>1, <2>2, <2>3, <2>4
<1>4. QED BY <1>1, <1>2, <1>3

(* Every number on a section, for any tree: the counts added up bottom up are
   those of the gaps below a row, in the section, and behind the badge; and a
   row says "no audio" just where none is below it. *)
THEOREM CountsAreAlwaysTrue == Spec => []CountsAreTrue
BY Initially, Step, CountsFollow, PTL DEF Spec

LEMMA RowsAreCounted ==
  ASSUME Inv, NEW mode \in Modes
  PROVE  CountGapRows({}, mode) = Cardinality(Flagged)
<1>1. {f \in Shown(mode) : NeedsEbook(f, mode) /\ RowsAround(f) \cap {} = {}} = Flagged
  BY FlaggedIsCountable, FlaggedIsShown
<1>2. QED BY <1>1 DEF CountGapRows

LEMMA SummaryFollows == Inv => SummaryAgrees
<1> SUFFICES ASSUME Inv, NEW mode \in Modes
             PROVE  /\ Recomputed(mode) = GapSummary(mode)
                    /\ GapSummary(mode).pct = 100 <=> GapSummary(mode).tail
  BY DEF SummaryAgrees
<1>1. Recomputed(mode) = GapSummary(mode)
  BY RowsAreCounted, SectionIsCounted DEF Recomputed, GapSummary
<1>2. /\ Cardinality(Flagged) \in Nat /\ Cardinality(audio) \in Nat
      /\ Cardinality(Flagged) <= Cardinality(audio)
  BY FlaggedIsShown, FS_CardinalityType, FS_Subset DEF Flagged
<1>3. PICK gaps, audiobooks \in Nat :
        gaps <= audiobooks /\ gaps = SectionGaps(mode) /\ audiobooks = TotalAudiobooks
  BY <1>2, SectionIsCounted DEF TotalAudiobooks
<1>4. Summary(gaps, audiobooks).pct = 100 <=> Summary(gaps, audiobooks).tail
  BY <1>3, PercentageIsHonest
<1>5. QED BY <1>1, <1>3, <1>4 DEF GapSummary

(* The numbers the page recounts from its rows are those of the server, and its
   percentage is honest, for any tree. *)
THEOREM SummaryAlwaysAgrees == Spec => []SummaryAgrees
BY Initially, Step, SummaryFollows, PTL DEF Spec

-----------------------------------------------------------------------------
(* The page's count leads the swap *)

(* spineOf without its recursion: upwards from a row, as long as each row below
   is alone in its list. *)
Spine(f, mode) ==
  {a \in Path(f) :
     a = f \/ (a # Root /\ \A b \in Path(f) : a \in Above[b] => AloneInList(b, mode))}
Climbs(f, mode) == f # Root /\ Parent[f] # Root /\ AloneInList(f, mode)

LEMMA ParentIsShown ==
  ASSUME Inv, NEW mode \in Modes, NEW f \in Shown(mode), Climbs(f, mode)
  PROVE  Parent[f] \in Shown(mode) /\ Parent[f] \in Folders \ {Root}
<1>1. f \in Nodes(mode) /\ f \in Folders \ {Root}
  BY ShownAreFolders DEF Climbs
<1>2. PICK k \in Kept(mode) : f \in Path(k)
  BY <1>1, NodesAreOnTheWay
<1>3. Parent[f] \in Above[f] /\ k \in Folders
  BY <1>1, ShownAreFolders, AboveAssumption
<1>4. Parent[f] \in Path(k)
  BY <1>2, <1>3, AncestorsNest DEF Path
<1>5. Parent[f] \in Nodes(mode)
  BY <1>4, NodesAreOnTheWay DEF Climbs
<1>6. QED BY <1>5, ShownAreFolders

LEMMA SpineClimbs ==
  ASSUME Inv, NEW mode \in Modes, NEW f \in Folders
  PROVE  Spine(f, mode) = {f} \cup (IF Climbs(f, mode) THEN Spine(Parent[f], mode) ELSE {})
<1>0. f \in Spine(f, mode) /\ Spine(f, mode) \subseteq Path(f)
  BY DEF Spine, Path
<1>1. ASSUME f # Root
      PROVE  Parent[f] \in Folders /\ Path(f) = Path(Parent[f]) \cup {f} /\ Above[f] = Path(Parent[f])
  BY <1>1, ParentAssumption, AboveAssumption DEF Path
<1>2. ASSUME NEW a \in Spine(f, mode), a # f
      PROVE  Climbs(f, mode) /\ a \in Spine(Parent[f], mode)
  <2>1. a \in Above[f] /\ a # Root /\ \A b \in Path(f) : a \in Above[b] => AloneInList(b, mode)
    BY <1>2 DEF Spine, Path
  <2>2. f # Root
    BY <2>1, AboveAssumption
  <2>3. AloneInList(f, mode)
    BY <2>1 DEF Path
  <2>4. Parent[f] # Root
    BY <1>1, <2>1, <2>2, AboveAssumption DEF Path
  <2>5. a \in Path(Parent[f]) /\ \A b \in Path(Parent[f]) : a \in Above[b] => AloneInList(b, mode)
    BY <1>1, <2>1, <2>2
  <2>6. QED BY <2>1, <2>2, <2>3, <2>4, <2>5 DEF Climbs, Spine
<1>3. ASSUME Climbs(f, mode), NEW a \in Spine(Parent[f], mode)
      PROVE  a \in Spine(f, mode)
  <2> DEFINE p == Parent[f]
  <2>1. f # Root /\ p # Root /\ AloneInList(f, mode)
    BY <1>3 DEF Climbs
  <2>2. p \in Folders /\ Path(f) = Path(p) \cup {f} /\ Above[f] = Path(p)
    BY <1>1, <2>1
  <2>3. a \in Path(p)
    BY DEF Spine
  <2> HIDE DEF p
  <2>4. CASE a = p
    <3>1. \A b \in Path(p) : p \notin Above[b]
      BY <2>2, AncestorsNest, NotAboveItself DEF Path
    <3>2. \A b \in Path(f) : a \in Above[b] => AloneInList(b, mode)
      BY <2>1, <2>2, <2>4, <3>1
    <3>3. QED BY <2>1, <2>2, <2>3, <2>4, <3>2 DEF Spine
  <2>5. CASE a # p
    <3>1. a # Root /\ \A b \in Path(p) : a \in Above[b] => AloneInList(b, mode)
      BY <2>5 DEF Spine, p
    <3>2. \A b \in Path(f) : a \in Above[b] => AloneInList(b, mode)
      BY <2>1, <2>2, <3>1
    <3>3. QED BY <2>2, <2>3, <3>1, <3>2 DEF Spine
  <2>6. QED BY <2>4, <2>5
<1>4. CASE Climbs(f, mode)
  BY <1>0, <1>2, <1>3, <1>4
<1>5. CASE ~Climbs(f, mode)
  BY <1>0, <1>2, <1>5
<1>6. QED BY <1>4, <1>5

LEMMA SpineIsRecursive ==
  ASSUME Inv, NEW mode \in Modes
  PROVE  \A f \in Shown(mode) :
           SpineOf(mode)[f] = {f} \cup (IF Climbs(f, mode) THEN SpineOf(mode)[Parent[f]] ELSE {})
<1> DEFINE Grows(h) ==
             h = [f \in Shown(mode) |->
                    {f} \cup (IF f # Root /\ Parent[f] # Root /\ AloneInList(f, mode)
                              THEN h[Parent[f]] ELSE {})]
           spines == [f \in Shown(mode) |-> Spine(f, mode)]
<1>1. \A f \in Shown(mode) :
        spines[f] = {f} \cup (IF Climbs(f, mode) THEN spines[Parent[f]] ELSE {})
  BY SpineClimbs, ShownAreFolders, ParentIsShown
<1>2. Grows(spines)
  <2>1. spines = [f \in Shown(mode) |-> spines[f]]
    OBVIOUS
  <2> HIDE DEF spines
  <2>2. QED BY <1>1, <2>1 DEF Climbs
<1> HIDE DEF spines
<1>3. Grows(SpineOf(mode))
  BY ONLY <1>2, Zenon DEF SpineOf
<1>4. QED BY <1>3 DEF Climbs

(* What collapses with a marked row holds no gap but the row's. *)
LEMMA SpineHoldsNoOther ==
  ASSUME Inv
  PROVE  \A f \in Shown("gaps") \ {Root} :
           /\ f \in SpineOf("gaps")[f]
           /\ \A a \in SpineOf("gaps")[f] :
                a # Root /\ Within(a) \cap Flagged \subseteq Within(f)
<1> DEFINE spine == SpineOf("gaps")
           Holds(f) == /\ f \in spine[f]
                       /\ \A a \in spine[f] :
                            a # Root /\ Within(a) \cap Flagged \subseteq Within(f)
           T == {f \in Shown("gaps") \ {Root} : ~Holds(f)}
<1>m. "gaps" \in Modes
  BY DEF Modes
<1>1. SUFFICES ASSUME T # {} PROVE FALSE
  OBVIOUS
<1>2. PICK f \in T : f = Root \/ Parent[f] \notin T
  <2>1. T \in SUBSET Folders
    BY <1>m, ShownAreFolders
  <2>2. QED BY <1>1, <2>1, TreeAssumption
<1>3. f \in Shown("gaps") /\ f \in Folders \ {Root}
  BY <1>m, ShownAreFolders
<1>4. spine[f] = {f} \cup (IF Climbs(f, "gaps") THEN spine[Parent[f]] ELSE {})
  BY <1>m, <1>3, SpineIsRecursive
<1>5. CASE ~Climbs(f, "gaps")
  BY <1>3, <1>4, <1>5
<1>6. CASE Climbs(f, "gaps")
  <2> DEFINE p == Parent[f]
  <2>1. p \in Shown("gaps") /\ p \in Folders \ {Root}
    BY <1>m, <1>3, <1>6, ParentIsShown
  <2>2. Holds(p)
    BY <1>2, <1>3, <2>1
  <2>3. ASSUME NEW g \in Within(p), g \in Flagged PROVE g \in Within(f)
    <3>1. Children(p, "gaps") = {f} /\ ~NeedsEbook(p, "gaps")
      BY <1>6 DEF Climbs, AloneInList
    <3>2. g # p
      BY <1>m, <2>1, <2>3, <3>1, FlaggedIsCountable
    <3>3. g \in Folders /\ p \in Above[g]
      BY <2>3, <3>2 DEF Within
    <3>4. PICK c \in Folders \ {Root} : Parent[c] = p /\ g \in Within(c)
      BY <3>3, OneIsOnTheWay
    <3>5. g \in Kept("gaps") /\ c \in Path(g)
      BY <2>3, <3>4 DEF Kept, Within, Path
    <3>6. c \in Children(p, "gaps")
      BY <2>1, <3>4, <3>5, NodesAreOnTheWay DEF Children
    <3>7. QED BY <3>1, <3>4, <3>6
  <2>4. spine[f] = {f} \cup spine[p]
    BY <1>4, <1>6
  <2> HIDE DEF spine, p
  <2>5. Holds(f)
    BY <1>3, <2>2, <2>3, <2>4
  <2>6. QED BY <2>5
<1>7. QED BY <1>5, <1>6

LEMMA CountLeads ==
  ASSUME Inv, NEW f \in Shown("gaps") \ {Root}
  PROVE  CountGapRows(SpineOf("gaps")[f], "gaps") = Cardinality(Flagged \ Within(f))
<1> DEFINE spine == SpineOf("gaps")[f]
           rows == {g \in Shown("gaps") :
                      NeedsEbook(g, "gaps") /\ RowsAround(g) \cap spine = {}}
<1>m. "gaps" \in Modes
  BY DEF Modes
<1>1. \A g \in Shown("gaps") : NeedsEbook(g, "gaps") <=> g \in Flagged
  BY <1>m, FlaggedIsCountable
<1>2. Flagged \subseteq Shown("gaps") /\ Shown("gaps") \subseteq Folders
  BY <1>m, FlaggedIsShown, ShownAreFolders
<1>3. f \in spine /\ \A a \in spine : a # Root /\ Within(a) \cap Flagged \subseteq Within(f)
  BY SpineHoldsNoOther
<1> HIDE DEF spine
<1>4. ASSUME NEW g \in Flagged, g \in Within(f) PROVE RowsAround(g) \cap spine # {}
  BY <1>3, <1>4 DEF Within, RowsAround
<1>5. ASSUME NEW g \in Flagged, NEW a \in RowsAround(g), a \in spine PROVE g \in Within(f)
  <2>1. g \in Within(a)
    BY <1>2, <1>5 DEF Within, RowsAround
  <2>2. QED BY <1>3, <1>5, <2>1
<1>6. rows = Flagged \ Within(f)
  BY <1>1, <1>2, <1>4, <1>5
<1>7. QED BY <1>6 DEF CountGapRows, spine

SectionsCounted == \A mode \in Modes : SectionGaps(mode) = Cardinality(Flagged)

(* app.js:1383, "The count leads the delayed section swap", for any tree: what
   the page counts while a marked row collapses is what the edited section will
   add up to.  The row may take with it only what holds no other gap. *)
THEOREM CountAlwaysLeads == Spec => CollapseLeadsSwap
<1>1. Inv => SectionsCounted
  BY SectionIsCounted DEF SectionsCounted
<1>2. ASSUME Inv, SectionsCounted', NEW f \in Shown("gaps") \ {Root}, Mark(f)
      PROVE  CountGapRows(SpineOf("gaps")[f], "gaps") = SectionGaps("gaps")'
  <2>1. Flagged' = Flagged \ Within(f)
    BY <1>2 DEF Mark, Edited, Flagged
  <2>2. SectionGaps("gaps")' = Cardinality(Flagged')
    BY <1>2 DEF SectionsCounted, Modes
  <2>3. QED BY <1>2, <2>1, <2>2, CountLeads
<1>3. Inv /\ SectionsCounted'
        => \A f \in Shown("gaps") \ {Root} :
             Mark(f) => CountGapRows(SpineOf("gaps")[f], "gaps") = SectionGaps("gaps")'
  BY <1>2
<1>4. QED
  BY Initially, Step, <1>1, <1>3, PTL DEF Spec, CollapseLeadsSwap
=============================================================================
