----------------------------- MODULE LibraryView ----------------------------
(***************************************************************************)
(* What the dashboard makes of one root's RootScan: src/tree.rs builds the *)
(* tree, src/web/package.rs and src/web/render.rs turn it into rows,       *)
(* badges and numbers, and assets/app.js counts the rows again whenever a  *)
(* section lands or a marked row starts to collapse.                       *)
(*                                                                         *)
(* All of it is a function of the scan, so the scan is the only state: it  *)
(* is walked again (module LibraryScan says how) or edited in place.       *)
(* Names, their order, markup, and the sums over several roots are left    *)
(* out.  A row is named by its folder; the root's own row is ".".          *)
(***************************************************************************)
EXTENDS LibraryTree, FiniteSetsExt

VARIABLES
  status,  \* RootScan::Walked or Failed, or none when the slot is empty
  listed,  \* its folders
  missing, \* those with missing_ebook
  audio    \* those with directly_holds_audio

scan == <<status, listed, missing, audio>>
Path(f) == Above[f] \cup {f}

TypeOK ==
  /\ status \in {"none", "walked", "failed"}
  /\ listed \subseteq Folders
  /\ missing \subseteq listed /\ audio \subseteq listed

Init == status = "none" /\ listed = {} /\ missing = {} /\ audio = {}

(* A walk lists nothing below what it does not list and hands coverage down. *)
Walk ==
  /\ status = "none"
  /\ status' = "walked"
  /\ listed' \in {found \in SUBSET Folders : \A f \in found : Above[f] \subseteq found}
  /\ missing' \in {bare \in SUBSET listed' : \A f \in bare : Above[f] \subseteq bare}
  /\ audio' \in SUBSET listed'

Fail ==
  /\ status = "none"
  /\ status' = "failed"
  /\ UNCHANGED <<listed, missing, audio>>

(* Mutant: the flags of the last walk are not cleared. *)
ExpireKeepingFlags ==
  status' = "none" /\ listed' = {} /\ audio' = {} /\ UNCHANGED missing

(* The TTL passes, a rescan, an undo: the next view is of another walk. *)
Expire ==
  /\ status' = "none"
  /\ listed' = {} /\ missing' = {} /\ audio' = {}

(* apply_mark_raw: the folder and what lies below it. *)
Edited(f) == missing \ Within(f)

(* A marker button's write, answered with the edited section. *)
Mark(f) ==
  /\ status = "walked"
  /\ missing' = Edited(f)
  /\ UNCHANGED <<status, listed, audio>>

Next == Walk \/ Fail \/ Expire \/ \E f \in Folders : Mark(f)

Spec == Init /\ [][Next]_scan

-----------------------------------------------------------------------------
(* tree.rs *)

Modes == {"gaps", "all"}
Flagged == audio \cap missing
KeptMissing(mode) == IF mode = "gaps" THEN missing ELSE listed  \* mutant: audio is not asked for
(* build's filter: reduce_to_flagged, or every folder. *)
Kept(mode) == IF mode = "gaps" THEN Flagged ELSE listed

(* insert_all makes a node of each component on the way to a kept folder. *)
Nodes(mode) == (UNION {Path(f) : f \in Kept(mode)}) \ {Root}
CoveredByDefault(f, mode) == f \in Kept(mode) \cap missing  \* mutant: another placeholder
(* A node's own facts, or the placeholder's: no audio, missing an ebook. *)
HoldsAudio(f, mode) == f \in audio \cap Kept(mode)
MissingEbook(f, mode) == f \in Kept(mode) => f \in missing
NeedsEbook(f, mode) == HoldsAudio(f, mode) /\ MissingEbook(f, mode)

(* The root's own node stands beside the others, not above them. *)
Shown(mode) == Nodes(mode) \cup ({Root} \cap Kept(mode) \cap audio)
Children(f, mode) ==
  IF f = Root THEN {} ELSE {g \in Nodes(mode) : Parent[g] = f}
Tops(mode) == Shown(mode) \cap ({Root} \cup {f \in Folders \ {Root} : Parent[f] = Root})

(* fill_gaps_within and fill_audio_within, bottom up. *)
CountWithin(Counts(_, _), mode) ==
  LET below[f \in Shown(mode)] ==
        (IF Counts(f, mode) THEN 1 ELSE 0)
          + MapThenSumSet(LAMBDA g : below[g], Children(f, mode))
  IN  below
GapsWithin(mode) == CountWithin(NeedsEbook, mode)
AudioWithin(mode) == CountWithin(HoldsAudio, mode)

State(mode) ==
  CASE status = "failed" -> "error"
    [] status = "walked" /\ (listed = {} \/ (mode = "gaps" /\ Shown(mode) = {})) -> "clean"
    [] OTHER -> "forest"

(* package_section: the section's gaps, and its audiobooks whatever its state. *)
SectionGaps(mode) ==
  IF State(mode) = "forest"
  THEN MapThenSumSet(LAMBDA f : GapsWithin(mode)[f], Tops(mode)) ELSE 0
TotalAudiobooks == Cardinality(audio)

-----------------------------------------------------------------------------
(* render.rs *)

(* root_badge *)
Badge(mode) ==
  CASE State(mode) = "error" -> "scan error"
    [] State(mode) = "clean" \/ (State(mode) = "forest" /\ SectionGaps(mode) = 0) -> "no gaps"
    [] OTHER -> "gaps"

(* The row's mark slot and the two marker buttons. *)
RowMark(f, mode) ==
  CASE NeedsEbook(f, mode) -> "needs ebook"
    [] ~NeedsEbook(f, mode) /\ AudioWithin(mode)[f] = 0 -> "no audio"
    [] ~NeedsEbook(f, mode) /\ AudioWithin(mode)[f] > 0
         /\ mode = "all" /\ ~MissingEbook(f, mode) -> "covered"
    [] OTHER -> "none"
HasButtons(f, mode) == GapsWithin(mode)[f] > 0

Monus(a, b) == IF a > b THEN a - b ELSE 0

(* gap_summary *)
Summary(gaps, audiobooks) ==
  LET covered == Monus(audiobooks, gaps)
  IN  [gaps |-> gaps, covered |-> covered, of |-> audiobooks,
       pct |-> IF audiobooks > 0 THEN (covered * 100) \div audiobooks ELSE 0,
       clear |-> gaps = 0, tail |-> audiobooks > 0 /\ gaps = 0]
GapSummary(mode) == Summary(SectionGaps(mode), TotalAudiobooks)

-----------------------------------------------------------------------------
(* app.js *)

AloneAmongNodes(f, mode) == Children(Parent[f], mode) = {f}  \* mutant: files are no rows
(* The <li>s of the list f's row is in: a flagged parent's audio files are
   rows of it, too. *)
AloneInList(f, mode) ==
  /\ Children(Parent[f], mode) = {f}
  /\ ~NeedsEbook(Parent[f], mode)

(* spineOf: the row, and upwards while it is alone in its list. *)
SpineOf(mode) ==
  LET spine[f \in Shown(mode)] ==
        {f} \cup (IF f # Root /\ Parent[f] # Root /\ AloneInList(f, mode)
                  THEN spine[Parent[f]] ELSE {})
  IN  spine

RowsAround(f) == {f} \cup (Above[f] \ {Root})
(* Mutant: rows that lack an ebook, whether they hold audio or not. *)
CountBareRows(leaving, mode) ==
  Cardinality({f \in Shown(mode) :
                 MissingEbook(f, mode) /\ RowsAround(f) \cap leaving = {}})
(* countGapRows: flagged rows that are in no row that is leaving. *)
CountGapRows(leaving, mode) ==
  Cardinality({f \in Shown(mode) :
                 NeedsEbook(f, mode) /\ RowsAround(f) \cap leaving = {}})

(* recomputeSummary, of a section on the page. *)
Recomputed(mode) == Summary(CountGapRows({}, mode), TotalAudiobooks)

-----------------------------------------------------------------------------
(* Properties *)

(* A node on the way to a gap is a placeholder in the gaps view, but never
   says what the scan does not: it is listed, lacks an ebook, and holds no
   audio of its own.  So a row looks the same in both views. *)
NodesTellTruth ==
  \A mode \in Modes : \A f \in Shown(mode) :
    /\ f \in listed
    /\ HoldsAudio(f, mode) <=> f \in audio
    /\ MissingEbook(f, mode) <=> f \in missing

(* What is added up bottom up is what lies below, in either view: a row's gaps,
   so that buttons stand where there is a gap to act on, the "no audio" label
   of a folder with none beneath it, the section's gaps and its badge. *)
CountsAreTrue ==
  \A mode \in Modes :
    /\ \A f \in Shown(mode) \ {Root} :
         /\ GapsWithin(mode)[f] = Cardinality(Within(f) \cap Flagged)
         /\ HasButtons(f, mode) \/ mode = "all"
         /\ RowMark(f, mode) = "no audio" <=> Within(f) \cap audio = {}
    /\ SectionGaps(mode) = Cardinality(Flagged)
    /\ status = "walked" => (Badge(mode) = "no gaps" <=> Flagged = {})

(* The summary the page recounts from its rows is the one a reload would show,
   and 100% is never printed beside a gap. *)
SummaryAgrees ==
  \A mode \in Modes :
    /\ Recomputed(mode) = GapSummary(mode)
    /\ GapSummary(mode).pct = 100 <=> GapSummary(mode).tail

(* "The count leads the delayed section swap" (app.js:1383): while a marked row
   and its spine collapse, the page counts what the edited section will hold.
   (Not so for the root's own row, which stands beside what it covers.) *)
CollapseLeadsSwap ==
  [][\A f \in Shown("gaps") \ {Root} :
       Mark(f) => CountGapRows(SpineOf("gaps")[f], "gaps") = SectionGaps("gaps")']_scan
=============================================================================
