------------------------------ MODULE DirIndex ------------------------------
(***************************************************************************)
(* The per-root directory index of src/scanner.rs, used by walks that run  *)
(* side by side (builds and undo rescans share it) while markers are       *)
(* written and other programs change the library.                          *)
(*                                                                         *)
(* A walk stats a directory, reuses the indexed listing when the mtime     *)
(* still matches, lists the directory otherwise, and inserts what it       *)
(* listed only after its whole level has been read.  A listing is taken    *)
(* in one step, and the tree's shape is fixed: what a directory holds is a *)
(* set of Entries.                                                         *)
(***************************************************************************)
EXTENDS Integers

CONSTANTS
  Dirs,        \* the directories of one root
  Depth,       \* the level of the walk each is read at
  Entries,     \* the entries a directory may have
  Walkers,     \* walks that may run at the same time
  ReadCanFail, \* stat and read_dir may fail
  EntriesCanFail, \* reading one entry of a directory may fail
  MaxChanges   \* bound: changes to the library in one behaviour

ASSUME DepthAssumption == Depth \in [Dirs -> Nat]
ASSUME MaxChangesAssumption == MaxChanges \in Nat
ASSUME FlagsAssumption ==
  {ReadCanFail, EntriesCanFail} \subseteq BOOLEAN

VARIABLES
  contents,  \* what each directory holds
  mtime,     \* its modification time
  clock,     \* the latest time stamp handed out
  changes,   \* changes so far (bounded by MaxChanges)
  index,     \* DirIndex.entries: each directory's CachedDir, as a set of at most one
  at,        \* where each walk is with each directory
  stat,      \* the mtime the walk read
  got,       \* the listing the walk uses, reused or fresh: a set of at most one
  dirty,     \* markers written here whose invalidate_index is still to run
  since,     \* history: what each directory held since a walk began
  tied,      \* history: directories changed twice in one tick of the clock
  outside,   \* history: directories another program changed
  late,      \* history: a marker write met a listing not yet inserted
  lossy      \* history: directories a listing of which lost an entry

disk == <<contents, mtime, clock, changes>>
walks == <<at, stat, got>>
history == <<since, tied, outside, late, lossy>>
vars == <<disk, index, walks, dirty, history>>

Stages == {"ahead", "stated", "list", "list_uncached", "listed", "settled", "skipped"}
Contents == SUBSET Entries
Passed == {"settled", "skipped"}  \* the level's pass is through with it
CachedDir == [mtime : Nat, listing : Contents]

TypeOK ==
  /\ contents \in [Dirs -> Contents]
  /\ mtime \in [Dirs -> Nat]
  /\ clock \in Nat
  /\ changes \in Nat
  /\ index \in [Dirs -> SUBSET CachedDir]
  /\ at \in [Walkers -> [Dirs -> Stages]]
  /\ stat \in [Walkers -> [Dirs -> Nat]]
  /\ got \in [Walkers -> [Dirs -> SUBSET Contents]]
  /\ dirty \in [Dirs -> Nat]
  /\ since \in [Walkers -> [Dirs -> SUBSET Contents]]
  /\ tied \in SUBSET Dirs
  /\ outside \in SUBSET Dirs
  /\ late \in SUBSET Dirs
  /\ lossy \in SUBSET Dirs

Init ==
  /\ contents \in [Dirs -> Contents]
  /\ mtime = [d \in Dirs |-> 0]
  /\ clock = 0
  /\ changes = 0
  /\ index = [d \in Dirs |-> {}]
  /\ at = [w \in Walkers |-> [d \in Dirs |-> "ahead"]]
  /\ stat = [w \in Walkers |-> [d \in Dirs |-> 0]]
  /\ got = [w \in Walkers |-> [d \in Dirs |-> {}]]
  /\ dirty = [d \in Dirs |-> 0]
  /\ since = [w \in Walkers |-> [d \in Dirs |-> {contents[d]}]]
  /\ tied = {}
  /\ outside = {}
  /\ late = {}
  /\ lossy = {}

-----------------------------------------------------------------------------
(* One walk: scan_warm and read_dir_all. *)

Stage(w, d, s) == at' = [at EXCEPT ![w][d] = s]

(* The level above is wholly dealt with; the level itself is read in parallel. *)
LevelOpen(w, d) ==
  \A e \in Dirs : Depth[e] < Depth[d] => at[w][e] \in Passed
LevelRead(w, d) ==
  \A e \in Dirs : Depth[e] = Depth[d] => at[w][e] \in {"listed"} \cup Passed

Stat(w, d) ==
  /\ at[w][d] = "ahead" /\ LevelOpen(w, d)
  /\ stat' = [stat EXCEPT ![w][d] = mtime[d]]
  /\ Stage(w, d, "stated")
  /\ UNCHANGED <<disk, index, got, dirty, history>>

(* Mutant: a failed stat goes on with a placeholder time. *)
StatPlaceholder(w, d) ==
  /\ ReadCanFail
  /\ at[w][d] = "ahead" /\ LevelOpen(w, d)
  /\ stat' = [stat EXCEPT ![w][d] = -1]
  /\ Stage(w, d, "stated")
  /\ UNCHANGED <<disk, index, got, dirty, history>>

(* metadata() failed: list without caching. *)
StatFails(w, d) ==
  /\ ReadCanFail
  /\ at[w][d] = "ahead" /\ LevelOpen(w, d)
  /\ Stage(w, d, "list_uncached")
  /\ UNCHANGED <<disk, index, stat, got, dirty, history>>

HitsAnyTime(w, d) == index[d]  \* mutant: reuse without comparing mtimes
Hits(w, d) == {e \in index[d] : e.mtime = stat[w][d]}

LookUp(w, d) ==
  /\ at[w][d] = "stated"
  /\ \/ \E e \in Hits(w, d) : /\ got' = [got EXCEPT ![w][d] = {e.listing}]
                               /\ Stage(w, d, "settled")
     \/ Hits(w, d) = {} /\ Stage(w, d, "list") /\ UNCHANGED got
  /\ UNCHANGED <<disk, index, stat, dirty, history>>

(* Only a listing made under a known mtime is kept for the index. *)
ListAs(w, d, listing) ==
  /\ at[w][d] \in {"list", "list_uncached"}
  /\ got' = [got EXCEPT ![w][d] = {listing}]
  /\ Stage(w, d, IF at[w][d] = "list" THEN "listed" ELSE "settled")
  /\ UNCHANGED <<disk, index, stat, dirty, since, tied, outside, late>>

List(w, d) == ListAs(w, d, contents[d]) /\ UNCHANGED lossy

(* An entry, or its file type, cannot be read: it is passed over, and what is
   left is kept like a whole listing. *)
ListPartly(w, d) ==
  /\ EntriesCanFail
  /\ \E part \in (SUBSET contents[d]) \ {contents[d]} : ListAs(w, d, part)
  /\ lossy' = lossy \cup {d}

(* read_dir() failed: counted in dirs_skipped, nothing listed or cached. *)
ListFails(w, d) ==
  /\ ReadCanFail
  /\ at[w][d] \in {"list", "list_uncached"}
  /\ Stage(w, d, "skipped")
  /\ UNCHANGED <<disk, index, stat, got, dirty, history>>

(* Mutant: the entry gets the mtime read after the listing. *)
InsertRestat(w, d) ==
  /\ at[w][d] = "listed" /\ LevelRead(w, d)
  /\ index' = [index EXCEPT ![d] =
                 {[mtime |-> mtime[d], listing |-> l] : l \in got[w][d]}]
  /\ Stage(w, d, "settled")
  /\ UNCHANGED <<disk, stat, got, dirty, history>>

(* The sequential pass after a level: entries go into the index. *)
Insert(w, d) ==
  /\ at[w][d] = "listed" /\ LevelRead(w, d)
  /\ index' = [index EXCEPT ![d] =
                 {[mtime |-> stat[w][d], listing |-> l] : l \in got[w][d]}]
  /\ Stage(w, d, "settled")
  /\ UNCHANGED <<disk, stat, got, dirty, history>>

(* The walk is over and the next one on this walker begins. *)
NextWalk(w) ==
  /\ \A d \in Dirs : at[w][d] \in Passed
  /\ at' = [at EXCEPT ![w] = [d \in Dirs |-> "ahead"]]
  /\ stat' = [stat EXCEPT ![w] = [d \in Dirs |-> 0]]
  /\ got' = [got EXCEPT ![w] = [d \in Dirs |-> {}]]
  /\ since' = [since EXCEPT ![w] = [d \in Dirs |-> {contents[d]}]]
  /\ UNCHANGED <<disk, index, dirty, tied, outside, late, lossy>>

-----------------------------------------------------------------------------
(* Changes to the library, and to the index from outside a walk. *)

Change(d) ==
  /\ changes < MaxChanges
  /\ changes' = changes + 1
  /\ \E t \in {clock, clock + 1} :
       /\ clock' = t
       /\ mtime' = [mtime EXCEPT ![d] = t]
       /\ tied' = IF t = mtime[d] THEN tied \cup {d} ELSE tied
  /\ \E c \in Contents :
       /\ contents' = [contents EXCEPT ![d] = c]
       /\ since' = [w \in Walkers |-> [since[w] EXCEPT ![d] = @ \cup {c}]]

OutsideChange(d) ==
  /\ Change(d)
  /\ outside' = outside \cup {d}
  /\ UNCHANGED <<index, walks, dirty, late, lossy>>

(* write_marker or delete_marker; its task invalidates the entry next. *)
SelfWrite(d) ==
  /\ Change(d)
  /\ dirty' = [dirty EXCEPT ![d] = @ + 1]
  /\ late' = IF \E w \in Walkers : at[w][d] = "listed" THEN late \cup {d} ELSE late
  /\ UNCHANGED <<index, walks, outside, lossy>>

(* Mutant: the write is taken to have moved the mtime. *)
InvalidateNothing(d) ==
  /\ dirty[d] > 0
  /\ dirty' = [dirty EXCEPT ![d] = @ - 1]
  /\ UNCHANGED <<disk, index, walks, history>>

(* invalidate_index after the marker IO. *)
Invalidate(d) ==
  /\ dirty[d] > 0
  /\ dirty' = [dirty EXCEPT ![d] = @ - 1]
  /\ index' = [index EXCEPT ![d] = {}]
  /\ UNCHANGED <<disk, walks, history>>

(* An honored rescan. *)
Clear ==
  /\ index' = [d \in Dirs |-> {}]
  /\ UNCHANGED <<disk, walks, dirty, history>>

-----------------------------------------------------------------------------
WalkStep(w, d) ==
  \/ Stat(w, d) \/ StatFails(w, d) \/ LookUp(w, d)
  \/ List(w, d) \/ ListPartly(w, d) \/ ListFails(w, d) \/ Insert(w, d)

Next ==
  \/ \E w \in Walkers : NextWalk(w) \/ \E d \in Dirs : WalkStep(w, d)
  \/ \E d \in Dirs : OutsideChange(d) \/ SelfWrite(d) \/ Invalidate(d)
  \/ Clear

Spec == Init /\ [][Next]_vars

-----------------------------------------------------------------------------
(* Properties *)

(* The directory shows what the index says, whenever its mtime says so: an
   entry the next walk would reuse is never out of date.  It needs the stat to
   come before the listing, stamps that tell the directory's changes apart, and
   listings that lost no entry. *)
Trustworthy(d) ==
  \A e \in index[d] : e.mtime = mtime[d] => e.listing = contents[d]
IndexSound == \A d \in Dirs \ (tied \cup lossy) : Trustworthy(d)

(* Whatever a walk uses for a directory, reused or listed, the directory really
   held since that walk began: module RawViewStore lets walks read the disk. *)
WalkSeesCurrent ==
  \A w \in Walkers, d \in Dirs \ (tied \cup lossy) :
    got[w][d] \subseteq since[w][d]

(* Entries that cannot be read may be missing from a listing, and stay missing
   while it is reused, but nothing is invented: an entry a walk reports, the
   directory really held since the walk began, if stamps tell its changes
   apart. *)
NothingInvented ==
  \A w \in Walkers, d \in Dirs \ tied :
    \A l \in got[w][d] : l \subseteq UNION since[w][d]

(* Even where stamps tie, invalidation keeps the index right about a directory
   that only this process changes, except where a listing taken before a marker
   write was still waiting to be inserted. *)
SelfWritesShow ==
  \A d \in Dirs \ (outside \cup late \cup lossy) : dirty[d] = 0 => Trustworthy(d)
=============================================================================
