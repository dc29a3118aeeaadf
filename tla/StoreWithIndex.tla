--------------------------- MODULE StoreWithIndex ---------------------------
(***************************************************************************)
(* RawViewStore whose walks read through the directory index, as they do   *)
(* in src/state.rs: module RawViewStore lets a walk read the disk, and     *)
(* module DirIndex knows neither builds nor their joining.  Here are both, *)
(* with the points where they meet: a write's invalidation before its      *)
(* edit, an honored rescan's clear before its build, an undo's walk.       *)
(*                                                                         *)
(* A folder is a directory that has its marker file or not.  What cannot   *)
(* be read is left to the two modules.                                     *)
(***************************************************************************)
EXTENDS RawViewStore

VARIABLES
  coarse,   \* the clock is so coarse that two changes may get the same mtime
  mtime,    \* each folder's modification time
  index,    \* DirIndex.entries: a folder's CachedDir, as a set of at most one
  stage,    \* where each walk is with each folder
  stat,     \* the mtime the walk read
  dirty,    \* requests with a marker written and invalidate_index to run
  toClear,  \* roots whose index an honored rescan has still to clear
  late      \* history: folders that changed within a tick, after a listing
            \* that was not yet in the index

walks == <<stage, stat>>
indexVars == <<coarse, mtime, index, walks, dirty, toClear, late>>
allVars == <<vars, indexVars>>

(* The index is new, or warm from walks whose views have left the slot. *)
IndexedInit ==
  /\ Init
  /\ coarse \in BOOLEAN
  /\ mtime = [f \in Folders |-> 0]
  /\ index \in {[f \in Folders |-> {}],
                [f \in Folders |-> {[mtime |-> 0, listing |-> disk[f]]}]}
  /\ stage = [w \in Requests |-> [f \in Folders |-> "ahead"]]
  /\ stat = [w \in Requests |-> [f \in Folders |-> 0]]
  /\ dirty = {}
  /\ toClear = [r \in Requests |-> {}]
  /\ late = {}

-----------------------------------------------------------------------------
(* A walk, folder by folder: scan_warm. *)

Reads(w, f, v) ==
  /\ scan' = [scan EXCEPT ![w][f] = v]
  /\ UNCHANGED <<disk, slot, coalescer, cooling, op, pc, spawned, io, minGen,
                 target, reply, build, reg, history>>
Stage(w, f, s) == stage' = [stage EXCEPT ![w][f] = s]

(* An undo's own walk comes after its invalidation. *)
Stat(w, f) ==
  /\ f \in ToVisit(w) /\ stage[w][f] = "ahead" /\ w \notin dirty
  /\ stat' = [stat EXCEPT ![w][f] = mtime[f]]
  /\ Stage(w, f, "stated")
  /\ UNCHANGED <<vars, coarse, mtime, index, dirty, toClear, late>>

HitsAnyTime(w, f) == index[f]  \* mutant: reuse without comparing mtimes
Hits(w, f) == {e \in index[f] : e.mtime = stat[w][f]}

Reuse(w, f) ==
  /\ stage[w][f] = "stated"
  /\ \E e \in Hits(w, f) : Reads(w, f, e.listing)
  /\ Stage(w, f, "settled")
  /\ UNCHANGED <<coarse, mtime, index, stat, dirty, toClear, late>>

Miss(w, f) ==
  /\ stage[w][f] = "stated" /\ Hits(w, f) = {}
  /\ Stage(w, f, "list")
  /\ UNCHANGED <<vars, coarse, mtime, index, stat, dirty, toClear, late>>

List(w, f) ==
  /\ stage[w][f] = "list"
  /\ Reads(w, f, disk[f])
  /\ Stage(w, f, "listed")
  /\ UNCHANGED <<coarse, mtime, index, stat, dirty, toClear, late>>

(* Mutant: the mtime is read after the listing. *)
InsertRestat(w, f) ==
  /\ stage[w][f] = "listed"
  /\ \A g \in Siblings(f) : stage[w][g] \in {"listed", "settled"}
  /\ index' = [index EXCEPT ![f] = {[mtime |-> mtime[f], listing |-> scan[w][f]]}]
  /\ Stage(w, f, "settled")
  /\ UNCHANGED <<vars, coarse, mtime, stat, dirty, toClear, late>>

(* The pass after a level was read: the folders of one root are one level. *)
Insert(w, f) ==
  /\ stage[w][f] = "listed"
  /\ \A g \in Siblings(f) : stage[w][g] \in {"listed", "settled"}
  /\ index' = [index EXCEPT ![f] = {[mtime |-> stat[w][f], listing |-> scan[w][f]]}]
  /\ Stage(w, f, "settled")
  /\ UNCHANGED <<vars, coarse, mtime, stat, dirty, toClear, late>>

SettledIn(w, fs) == \A f \in fs : stage[w][f] = "settled"

-----------------------------------------------------------------------------
(* Where the store meets the index. *)

(* What a step did to f on disk moves its mtime, unless the clock stood still. *)
Stamped(f) ==
  IF disk'[f] = disk[f] THEN UNCHANGED <<mtime, late>>
  ELSE \/ /\ mtime' = [mtime EXCEPT ![f] = @ + 1]
          /\ UNCHANGED late
       \/ /\ coarse
          /\ late' = late \cup {g \in {f} : \E w \in Requests : stage[w][g] = "listed"}
          /\ UNCHANGED mtime

MarkerIo(r) ==
  /\ WriteMarker(r) \/ DeleteMarker(r)
  /\ Stamped(folder(r))
  /\ dirty' = IF io'[r] = "applied" THEN dirty \cup {r} ELSE dirty
  /\ UNCHANGED <<coarse, index, walks, toClear>>

(* Mutant: the write is taken to have moved the mtime. *)
InvalidateNothing(r) ==
  /\ r \in dirty
  /\ dirty' = dirty \ {r}
  /\ UNCHANGED <<vars, coarse, mtime, index, walks, toClear, late>>

(* invalidate_index, after the marker IO and before anything else. *)
Invalidate(r) ==
  /\ r \in dirty
  /\ dirty' = dirty \ {r}
  /\ index' = [index EXCEPT ![folder(r)] = {}]
  /\ UNCHANGED <<vars, coarse, mtime, walks, toClear, late>>

EditSlot(r) ==
  /\ r \notin dirty
  /\ \/ EditMark(r)
     \/ SettledIn(r, Siblings(folder(r))) /\ SpliceSection(r)
  /\ UNCHANGED indexVars

(* An honored rescan clears the index of one root after another in its task. *)
BeginRescan(r) ==
  /\ StartRescan(r)
  /\ toClear' = [toClear EXCEPT ![r] = IF cooling THEN {} ELSE Roots]
  /\ UNCHANGED <<coarse, mtime, index, walks, dirty, late>>

(* Mutant: the warm index is kept. *)
KeepRoot(r, root) ==
  /\ root \in toClear[r]
  /\ toClear' = [toClear EXCEPT ![r] = @ \ {root}]
  /\ UNCHANGED <<vars, coarse, mtime, index, walks, dirty, late>>
ClearRoot(r, root) ==
  /\ root \in toClear[r]
  /\ toClear' = [toClear EXCEPT ![r] = @ \ {root}]
  /\ index' = [f \in Folders |-> IF RootOf[f] = root THEN {} ELSE index[f]]
  /\ UNCHANGED <<vars, coarse, mtime, walks, dirty, late>>

EnterCoalescer(r) ==
  /\ toClear[r] = {}
  /\ Acquire(r)
  /\ UNCHANGED indexVars

BeginBuild(r) ==
  /\ Register(r)
  /\ stage' = [stage EXCEPT ![r] = [f \in Folders |-> "ahead"]]
  /\ UNCHANGED <<coarse, mtime, index, stat, dirty, toClear, late>>

EndBuild(b) ==
  /\ SettledIn(b, Folders)
  /\ StoreBuild(b)
  /\ UNCHANGED indexVars

ChangeOutside(r) ==
  /\ OutsideChange(r)
  /\ Stamped(folder(r))
  /\ UNCHANGED <<coarse, index, walks, dirty, toClear>>

-----------------------------------------------------------------------------
WalkStep(w, f) == Stat(w, f) \/ Reuse(w, f) \/ Miss(w, f) \/ List(w, f) \/ Insert(w, f)

(* Steps of the store that leave the index alone. *)
Beside(r) ==
  /\ \/ StartRead(r) \/ StartMutation(r) \/ DropHandler(r)
     \/ Load(r) \/ Bump(r) \/ Join(r) \/ Resume(r)
  /\ UNCHANGED indexVars

IndexedNext ==
  \/ \E r \in Requests :
       \/ Beside(r) \/ MarkerIo(r) \/ Invalidate(r) \/ EditSlot(r)
       \/ BeginRescan(r) \/ EnterCoalescer(r) \/ BeginBuild(r)
       \/ EndBuild(r) \/ ChangeOutside(r)
       \/ \E f \in Folders : WalkStep(r, f)
       \/ \E root \in Roots : ClearRoot(r, root)
  \/ (Expire \/ CoolDown \/ AllServed) /\ UNCHANGED indexVars

IndexedSpec == IndexedInit /\ [][IndexedNext]_allVars

-----------------------------------------------------------------------------
(* Properties *)

(* OwnWriteVisible of the whole: invalidation makes up for a clock that hides
   the write, except where a listing taken before it was still on its way into
   the index. *)
OwnWriteShows ==
  \A r \in Requests :
    pc[r] = "done" /\ Wrote(r) /\ folder(r) \notin late
      => reply[r][folder(r)] \in held[r][folder(r)]

(* An honored rescan that walks, and joins nobody, shows each folder as it was
   at some moment since the click, also where mtimes hide a change from the
   index: it is why the index is cleared. *)
RescanSeesHiddenChanges ==
  \A r \in Requests :
    pc[r] = "done" /\ op[r].kind = "rescan" /\ r \in spawned /\ target[r] = r
      => \A f \in Folders \ late : reply[r][f] \in held[r][f]

(* SequentialEditsSettle of the whole: while mutations come one at a time and no
   other program touches the library, no build stores what the index had from
   before a mutation. *)
SlotSettles ==
  ~tangled /\ Mutating = {}
    => \A f \in Folders \ late : entry[f] \in {disk[f], "unread"}

(* With a clock that tells changes apart the index does not show at all. *)
ServesThroughIndex ==
  /\ coarse \/ Service!Init
  /\ [][coarse \/ Service!Next]_(Service!vars)
=============================================================================
