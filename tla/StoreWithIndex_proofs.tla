------------------------ MODULE StoreWithIndex_proofs -----------------------
(***************************************************************************)
(* Proofs about StoreWithIndex, for any folders, roots, requests and       *)
(* calls.  A step of the whole is one of RawViewStore, or a walk that      *)
(* reads a folder from the index; what a walk takes from there, or puts    *)
(* there, is judged by its mtime.                                          *)
(***************************************************************************)
EXTENDS StoreWithIndex, RawViewStore_proofs

Stages == {"ahead", "stated", "list", "listed", "settled"}

IndexTyped ==
  /\ coarse \in BOOLEAN
  /\ mtime \in [Folders -> Nat]
  /\ index \in [Folders -> SUBSET [mtime : Nat, listing : OnDisk]]
  /\ stage \in [Requests -> [Folders -> Stages]]
  /\ stat \in [Requests -> [Folders -> Nat]]
  /\ dirty \subseteq Requests
  /\ toClear \in [Requests -> SUBSET Roots]
  /\ late \subseteq Folders
  /\ coarse \/ late = {}

(* Where a request is when it has something to do in the index. *)
WalksPlaced ==
  /\ \A r \in dirty : pc[r] \in {"edit", "section"}
  /\ \A w \in Requests, f \in Folders :
       pc[w] \in {"idle", "io"} \/ w \in dirty => stage[w][f] = "ahead"
  /\ \A r \in Requests : toClear[r] # {} => pc[r] = "lock" /\ r \in spawned
  /\ \A r \in Requests : pc[r] = "idle" => r \notin spawned
  /\ \A r \in Requests : op[r].kind = "rescan" => pc[r] # "load"

(* No walk fails here, so nothing is shown as unread but an empty slot. *)
AllRead ==
  /\ \A w \in Requests, f \in Folders : scan[w][f] # "unread"
  /\ \A w \in Requests, f \in Folders : stage[w][f] = "listed" => scan[w][f] # "unvisited"
  /\ fresh => \A f \in Folders : entry[f] # "unread"

(* No recorded mtime is later than the folder's. *)
StampsPast ==
  /\ \A f \in Folders : \A e \in index[f] : e.mtime <= mtime[f]
  /\ \A w \in Requests, f \in Folders : stat[w][f] <= mtime[f]

(* A listing on its way into the index is what the folder holds, or is under an
   mtime that has passed. *)
ListingsTell ==
  \A w \in Requests, f \in Folders \ late :
    stage[w][f] = "listed" => scan[w][f] = disk[f] \/ stat[w][f] < mtime[f]

Indexed == IndexTyped /\ WalksPlaced /\ AllRead /\ StampsPast /\ ListingsTell

Since(f, values, walkers, cleared, m) ==
  /\ m <= mtime[f]
  /\ disk[f] \in values
  /\ cleared => \A e \in index[f] : e.listing \in values \/ e.mtime < m
  /\ \A w \in Requests :
       stage[w][f] = "listed" => scan[w][f] \in values \/ stat[w][f] < m
  /\ \A w \in walkers :
       /\ scan[w][f] \in values \cup {"unvisited"}
       /\ stage[w][f] = "stated" => stat[w][f] >= m

(* The walks that r's write is visible to. *)
After(r) ==
  {w \in Requests : \/ minGen[r] > 0 /\ build[w] # "none" /\ reg[w] >= minGen[r]
                    \/ w = r /\ pc[r] = "section"}

WriteWatched(r) ==
  Wrote(r) /\ pc[r] \notin Over /\ folder(r) \notin late =>
    \E m \in Nat :
      Since(folder(r), held[r][folder(r)], After(r), r \notin dirty, m)

Honored(r) == op[r].kind = "rescan" /\ r \in spawned

RescanWatched(r) ==
  Honored(r) /\ pc[r] \notin Over => \A f \in Folders \ late :
    \E m \in Nat :
      Since(f, held[r][f], {w \in {r} : build[w] # "none"}, RootOf[f] \notin toClear[r], m)

EditWatched(r) == pc[r] = "edit" => "marked" \in held[r][folder(r)]

Watched == \A r \in Requests : WriteWatched(r) /\ RescanWatched(r) /\ EditWatched(r)

IndexSettled(f) ==
  /\ \A e \in index[f] :
       e.mtime = mtime[f] => e.listing = disk[f] \/ \E r \in dirty : folder(r) = f
  /\ \A b \in Requests :
       build[b] = "running" /\ reg[b] = gen /\ stage[b][f] = "stated"
         => stat[b][f] = mtime[f] \/ Exposed(f)
  /\ \A r \in Requests :
       pc[r] = "section" /\ stage[r][f] = "stated" => stat[r][f] = mtime[f]

-----------------------------------------------------------------------------
(* What a step of the whole is to the store, and to one folder's index. *)

LEMMA StoreOrWalk ==
  ASSUME TypeOK, IndexTyped, [IndexedNext]_allVars
  PROVE  [Next]_vars \/ \E w \in Requests, f \in Folders : Reuse(w, f) \/ List(w, f)
<1> DEFINE Goal == [Next]_vars \/ \E w \in Requests, f \in Folders : Reuse(w, f) \/ List(w, f)
<1>1. ASSUME NEW r \in Requests, Beside(r) PROVE Goal
  BY <1>1 DEF Beside, Next, Server, Environment, Arrival
<1>2. ASSUME NEW r \in Requests,
             MarkerIo(r) \/ EditSlot(r) \/ BeginRescan(r) \/ EnterCoalescer(r)
               \/ BeginBuild(r) \/ EndBuild(r) \/ ChangeOutside(r)
      PROVE Goal
  BY <1>2 DEF MarkerIo, EditSlot, BeginRescan, EnterCoalescer, BeginBuild, EndBuild,
              ChangeOutside, Next, Server, Environment, Arrival
<1>3. ASSUME NEW r \in Requests, Invalidate(r) \/ \E root \in Roots : ClearRoot(r, root)
      PROVE Goal
  BY <1>3 DEF Invalidate, ClearRoot
<1>4. ASSUME NEW w \in Requests, NEW f \in Folders, WalkStep(w, f) PROVE Goal
  <2>1. CASE Stat(w, f) \/ Miss(w, f) \/ Insert(w, f)
    BY <2>1 DEF Stat, Miss, Insert
  <2>2. QED BY <1>4, <2>1 DEF WalkStep
<1>5. CASE Expire \/ CoolDown \/ AllServed \/ UNCHANGED allVars
  BY <1>5 DEF Next, allVars
<1>6. QED BY <1>1, <1>2, <1>3, <1>4, <1>5, Zenon DEF IndexedNext

LEMMA StoreOrRead ==
  ASSUME TypeOK, IndexTyped, [IndexedNext]_allVars
  PROVE  [Next]_vars \/ \E w \in Requests, f \in Folders, v \in OnDisk : Reads(w, f, v)
<1>1. ASSUME NEW w \in Requests, NEW f \in Folders, Reuse(w, f)
      PROVE  \E v \in OnDisk : Reads(w, f, v)
  BY <1>1 DEF Reuse, Hits, IndexTyped
<1>2. ASSUME NEW w \in Requests, NEW f \in Folders, List(w, f)
      PROVE  \E v \in OnDisk : Reads(w, f, v)
  BY <1>2 DEF List, TypeOK
<1>3. QED BY <1>1, <1>2, StoreOrWalk

LEMMA ControlThroughIndex ==
  ASSUME Control, IndexTyped, [IndexedNext]_allVars
  PROVE  Control'
<1>1. CASE [Next]_vars
  BY <1>1, ControlStep
<1>2. ASSUME NEW w \in Requests, NEW f \in Folders, NEW v \in OnDisk, Reads(w, f, v)
      PROVE  Control'
  <2>1. TypeOK'
    BY <1>2 DEF Control, TypeOK, Reads, slot, coalescer, history, Seen, Shown, Views
  <2>2. \A b \in Requests : Walked(b) => Walked(b)'
    BY <1>2 DEF Control, TypeOK, Reads, Walked, OnDisk
  <2>3. UNCHANGED <<pc, build, target, inflight, op, io, minGen, spawned, gen, reg>>
    BY <1>2 DEF Reads, slot, coalescer
  <2>4. BuildsPlaced'
    BY <2>2, <2>3 DEF Control, BuildsPlaced
  <2>5. CallsPlaced'
    BY <2>3 DEF Control, CallsPlaced, Wrote, Mutations
  <2>6. GenerationsPast'
    BY <2>3 DEF Control, GenerationsPast
  <2>7. QED BY <2>1, <2>4, <2>5, <2>6 DEF Control
<1>3. QED BY <1>1, <1>2, StoreOrRead DEF Control

(* A step in which no walk takes anything from f, or brings it to the index. *)
Apart(f) ==
  /\ mtime[f] <= mtime'[f]
  /\ index'[f] \subseteq index[f]
  /\ \A w \in Requests :
       /\ stat'[w][f] = stat[w][f]
       /\ \/ scan'[w][f] = scan[w][f] /\ stage'[w][f] = stage[w][f]
          \/ scan'[w][f] = "unvisited" /\ stage'[w][f] = "ahead"

LEMMA StampedGrows ==
  ASSUME IndexTyped, NEW r \in Requests, Stamped(folder(r)), NEW f \in Folders
  PROVE  /\ mtime[f] <= mtime'[f]
         /\ late \subseteq late'
         /\ f \notin late' /\ f = folder(r) /\ disk'[f] # disk[f] =>
              mtime[f] < mtime'[f] \/ \A w \in Requests : stage[w][f] # "listed"
BY DEF Stamped, IndexTyped

LEMMA FolderStep ==
  ASSUME TypeOK, IndexTyped, WalksPlaced, [IndexedNext]_allVars, NEW f \in Folders
  PROVE  Apart(f) \/ \E w \in Requests : WalkStep(w, f)
<1> USE DEF indexVars, walks, builds
<1>1. ASSUME UNCHANGED <<mtime, index, stage, stat, scan>> PROVE Apart(f)
  BY <1>1 DEF Apart, IndexTyped
<1>2. ASSUME NEW r \in Requests, Beside(r) PROVE Apart(f)
  BY <1>1, <1>2
  DEF Beside, StartRead, StartMutation, DropHandler, Load, Bump, Join, Resume
<1>3. ASSUME NEW r \in Requests, MarkerIo(r) PROVE Apart(f)
  <2>1. /\ pc[r] = "io" /\ UNCHANGED <<index, stage, stat>>
        /\ UNCHANGED scan \/ scan' = [scan EXCEPT ![r] = Unvisited]
    BY <1>3 DEF MarkerIo, WriteMarker, DeleteMarker, IoWithoutEffect
  <2>2. mtime[f] <= mtime'[f]
    BY <1>3, StampedGrows DEF MarkerIo
  <2>3. stage[r][f] = "ahead"
    BY <2>1 DEF WalksPlaced
  <2>4. \A w \in Requests :
          \/ scan'[w][f] = scan[w][f]
          \/ w = r /\ scan'[w][f] = "unvisited"
    BY <2>1 DEF Unvisited, TypeOK
  <2>5. QED BY <2>1, <2>2, <2>3, <2>4 DEF Apart
<1>4. ASSUME NEW r \in Requests, Invalidate(r) \/ \E root \in Roots : ClearRoot(r, root)
      PROVE  Apart(f)
  <2>1. index'[f] \subseteq index[f]
    BY <1>4 DEF Invalidate, ClearRoot, IndexTyped
  <2>2. UNCHANGED <<mtime, stage, stat, scan>>
    BY <1>4 DEF Invalidate, ClearRoot, vars
  <2>3. QED BY <2>1, <2>2 DEF Apart, IndexTyped
<1>5. ASSUME NEW r \in Requests, EditSlot(r) \/ EnterCoalescer(r) \/ EndBuild(r) PROVE Apart(f)
  BY <1>1, <1>5
  DEF EditSlot, EditMark, SpliceSection, EditFresh, EnterCoalescer, Acquire, EndBuild, StoreBuild
<1>6. ASSUME NEW r \in Requests, BeginRescan(r) PROVE Apart(f)
  BY <1>1, <1>6 DEF BeginRescan, StartRescan
<1>7. ASSUME NEW r \in Requests, BeginBuild(r) PROVE Apart(f)
  <2>1. /\ UNCHANGED <<mtime, index, stat>> /\ scan' = [scan EXCEPT ![r] = Unvisited]
        /\ stage' = [stage EXCEPT ![r] = [g \in Folders |-> "ahead"]]
    BY <1>7 DEF BeginBuild, Register
  <2>2. QED BY <2>1 DEF Apart, Unvisited, TypeOK, IndexTyped
<1>8. ASSUME NEW r \in Requests, ChangeOutside(r) PROVE Apart(f)
  <2>1. mtime[f] <= mtime'[f]
    BY <1>8, StampedGrows DEF ChangeOutside
  <2>2. UNCHANGED <<index, stage, stat, scan>>
    BY <1>8 DEF ChangeOutside, OutsideChange
  <2>3. QED BY <2>1, <2>2 DEF Apart
<1>9. ASSUME NEW w \in Requests, NEW g \in Folders, g # f, WalkStep(w, g) PROVE Apart(f)
  <2>1. UNCHANGED mtime
    BY <1>9 DEF WalkStep, Stat, Reuse, Miss, List, Insert
  <2>2. index' = index \/ \E e : index' = [index EXCEPT ![g] = e]
    BY <1>9 DEF WalkStep, Stat, Reuse, Miss, List, Insert
  <2>3. \E s : stage' = [stage EXCEPT ![w][g] = s]
    BY <1>9 DEF WalkStep, Stat, Reuse, Miss, List, Insert, Stage
  <2>4. stat' = stat \/ \E s : stat' = [stat EXCEPT ![w][g] = s]
    BY <1>9 DEF WalkStep, Stat, Reuse, Miss, List, Insert
  <2>5. scan' = scan \/ \E s : scan' = [scan EXCEPT ![w][g] = s]
    BY <1>9 DEF WalkStep, Stat, Reuse, Miss, List, Insert, Reads, vars
  <2>6. \A u \in Requests : /\ stage'[u][f] = stage[u][f] /\ stat'[u][f] = stat[u][f]
                            /\ scan'[u][f] = scan[u][f]
    BY <1>9, <2>3, <2>4, <2>5 DEF IndexTyped, TypeOK
  <2>7. index'[f] = index[f]
    BY <1>9, <2>2 DEF IndexTyped
  <2>8. QED BY <2>1, <2>6, <2>7 DEF Apart, IndexTyped
<1>10. CASE (Expire \/ CoolDown \/ AllServed) /\ UNCHANGED indexVars
  BY <1>1, <1>10 DEF Expire, CoolDown, AllServed, vars
<1>11. CASE UNCHANGED allVars
  BY <1>1, <1>11 DEF allVars, vars
<1>12. ASSUME NEW r \in Requests, \E g \in Folders : WalkStep(r, g)
       PROVE  Apart(f) \/ \E w \in Requests : WalkStep(w, f)
  BY <1>9, <1>12
<1>13. QED
  BY <1>2, <1>3, <1>4, <1>5, <1>6, <1>7, <1>8, <1>10, <1>11, <1>12, Zenon DEF IndexedNext

(* The disk changes with its mtime, or where no listing is on its way. *)
LEMMA DiskStep ==
  ASSUME TypeOK, IndexTyped, [IndexedNext]_allVars
  PROVE  /\ late \subseteq late'
         /\ coarse' = coarse
         /\ \A f \in Folders \ late' :
              \/ disk'[f] = disk[f]
              \/ mtime[f] < mtime'[f]
              \/ \A w \in Requests : stage[w][f] # "listed"
<1> DEFINE Goal == /\ late \subseteq late'
                   /\ coarse' = coarse
                   /\ \A f \in Folders \ late' :
                        \/ disk'[f] = disk[f]
                        \/ mtime[f] < mtime'[f]
                        \/ \A w \in Requests : stage[w][f] # "listed"
<1> SUFFICES Goal
  OBVIOUS
<1> USE DEF indexVars, walks, builds
<1>1. ASSUME UNCHANGED <<disk, late, coarse>> PROVE Goal
  BY <1>1
<1>2. ASSUME NEW r \in Requests, coarse' = coarse, Stamped(folder(r)),
             \A f \in Folders \ {folder(r)} : disk'[f] = disk[f]
      PROVE  Goal
  <2>1. late \subseteq late'
    BY <1>2, StampedGrows DEF Stamped
  <2>2. ASSUME NEW f \in Folders \ late'
        PROVE  \/ disk'[f] = disk[f]
               \/ mtime[f] < mtime'[f]
               \/ \A w \in Requests : stage[w][f] # "listed"
    BY <1>2, StampedGrows
  <2>3. QED BY <1>2, <2>1, <2>2
<1>3. ASSUME NEW r \in Requests, MarkerIo(r) PROVE Goal
  <2>1. UNCHANGED disk \/ \E v : disk' = [disk EXCEPT ![folder(r)] = v]
    BY <1>3 DEF MarkerIo, WriteMarker, DeleteMarker, IoWithoutEffect, SetMarker
  <2>2. \A f \in Folders \ {folder(r)} : disk'[f] = disk[f]
    BY <2>1 DEF TypeOK
  <2>3. QED BY <1>2, <1>3, <2>2 DEF MarkerIo
<1>4. ASSUME NEW r \in Requests, ChangeOutside(r) PROVE Goal
  <2>1. \A f \in Folders \ {folder(r)} : disk'[f] = disk[f]
    BY <1>4 DEF ChangeOutside, OutsideChange, TypeOK
  <2>2. QED BY <1>2, <1>4, <2>1 DEF ChangeOutside
<1>5. ASSUME NEW r \in Requests,
             Beside(r) \/ Invalidate(r) \/ EditSlot(r) \/ BeginRescan(r) \/ EnterCoalescer(r)
               \/ BeginBuild(r) \/ EndBuild(r) \/ \E root \in Roots : ClearRoot(r, root)
      PROVE  Goal
  BY <1>1, <1>5
  DEF Beside, StartRead, StartMutation, DropHandler, Load, Bump, Join, Resume, Invalidate,
      EditSlot, EditMark, SpliceSection, EditFresh, BeginRescan, StartRescan, EnterCoalescer,
      Acquire, BeginBuild, Register, EndBuild, StoreBuild, ClearRoot, vars
<1>6. ASSUME NEW w \in Requests, NEW f \in Folders, WalkStep(w, f) PROVE Goal
  BY <1>1, <1>6 DEF WalkStep, Stat, Reuse, Miss, List, Insert, Reads, vars
<1>7. CASE (Expire \/ CoolDown \/ AllServed) /\ UNCHANGED indexVars
  BY <1>1, <1>7 DEF Expire, CoolDown, AllServed, vars
<1>8. CASE UNCHANGED allVars
  BY <1>1, <1>8 DEF allVars, vars
<1> HIDE DEF Goal
<1>9. QED
  BY <1>3, <1>4, <1>5, <1>6, <1>7, <1>8, Zenon DEF IndexedNext

LEMMA TypedStep ==
  ASSUME TypeOK, IndexTyped, AllRead, [IndexedNext]_allVars
  PROVE  IndexTyped'
<1> USE DEF indexVars, walks, builds
<1>1. ASSUME UNCHANGED indexVars PROVE IndexTyped'
  BY <1>1 DEF IndexTyped
<1>2. ASSUME NEW r \in Requests, Beside(r) \/ EditSlot(r) \/ EnterCoalescer(r) \/ EndBuild(r)
      PROVE  IndexTyped'
  BY <1>1, <1>2 DEF Beside, EditSlot, EnterCoalescer, EndBuild
<1>3. ASSUME NEW r \in Requests, Stamped(folder(r)),
             UNCHANGED <<coarse, index, walks, toClear>>, dirty' \subseteq Requests
      PROVE  IndexTyped'
  <2>1. folder(r) \in Folders
    BY OpsAssumption DEF TypeOK, folder
  <2>2. mtime' \in [Folders -> Nat] /\ late' \subseteq Folders /\ (coarse \/ late' = {})
    BY <1>3, <2>1 DEF Stamped, IndexTyped
  <2>3. QED BY <1>3, <2>2 DEF IndexTyped
<1>4. ASSUME NEW r \in Requests, MarkerIo(r) \/ ChangeOutside(r) PROVE IndexTyped'
  <2>1. dirty' \subseteq Requests
    BY <1>4 DEF MarkerIo, ChangeOutside, IndexTyped
  <2>2. QED BY <1>3, <1>4, <2>1 DEF MarkerIo, ChangeOutside
<1>5. ASSUME NEW r \in Requests, Invalidate(r) PROVE IndexTyped'
  BY <1>5 DEF Invalidate, IndexTyped
<1>6. ASSUME NEW r \in Requests, BeginRescan(r) PROVE IndexTyped'
  BY <1>6 DEF BeginRescan, IndexTyped
<1>7. ASSUME NEW r \in Requests, NEW root \in Roots, ClearRoot(r, root) PROVE IndexTyped'
  BY <1>7 DEF ClearRoot, IndexTyped
<1>8. ASSUME NEW r \in Requests, BeginBuild(r) PROVE IndexTyped'
  BY <1>8 DEF BeginBuild, IndexTyped, Stages
<1>9. ASSUME NEW w \in Requests, NEW f \in Folders, WalkStep(w, f) PROVE IndexTyped'
  <2>1. CASE Stat(w, f)
    BY <2>1 DEF Stat, Stage, IndexTyped, Stages
  <2>2. CASE Reuse(w, f) \/ Miss(w, f) \/ List(w, f)
    <3>1. /\ UNCHANGED <<coarse, mtime, index, stat, dirty, toClear, late>>
          /\ \E s \in Stages : Stage(w, f, s)
      BY <2>2 DEF Reuse, Miss, List, Stages
    <3>2. QED BY <3>1 DEF Stage, IndexTyped
  <2>3. CASE Insert(w, f)
    <3>1. scan[w][f] \in OnDisk
      BY <2>3 DEF Insert, AllRead, TypeOK, Seen, Shown
    <3>2. [mtime |-> stat[w][f], listing |-> scan[w][f]] \in [mtime : Nat, listing : OnDisk]
      BY <3>1 DEF IndexTyped
    <3>3. QED BY <2>3, <3>2 DEF Insert, Stage, IndexTyped, Stages
  <2>4. QED BY <1>9, <2>1, <2>2, <2>3 DEF WalkStep
<1>10. CASE (Expire \/ CoolDown \/ AllServed) /\ UNCHANGED indexVars
  BY <1>1, <1>10
<1>11. CASE UNCHANGED allVars
  BY <1>1, <1>11 DEF allVars
<1>12. QED
  BY <1>2, <1>4, <1>5, <1>6, <1>7, <1>8, <1>9, <1>10, <1>11, Zenon DEF IndexedNext

LEMMA PlacedStep ==
  ASSUME Control, IndexTyped, WalksPlaced, [IndexedNext]_allVars
  PROVE  WalksPlaced'
<1>t. TypeOK /\ BuildsPlaced /\ CallsPlaced
  BY DEF Control
<1> USE DEF indexVars, walks, Goto, Answer
(* Steps of the store that leave the index: only the request's place counts. *)
<1>1. ASSUME NEW r \in Requests, NEW l \in PcStates \ {"idle"}, Goto(r, l),
             UNCHANGED <<op, stage, dirty, toClear>>,
             spawned' = spawned \/ spawned' = spawned \cup {r},
             l = "io" => pc[r] = "idle",
             l = "load" => op[r].kind # "rescan",
             r \notin dirty, toClear[r] = {}
      PROVE  WalksPlaced'
  <2>1. pc'[r] = l /\ \A q \in Requests \ {r} : pc'[q] = pc[q]
    BY <1>1, <1>t DEF TypeOK
  <2>2. QED BY <1>1, <2>1 DEF WalksPlaced
<1>2. ASSUME NEW r \in Requests, Beside(r) PROVE WalksPlaced'
  <2>1. /\ pc[r] \in {"idle", "lock", "await", "load", "bump", "join"}
        /\ pc[r] = "lock" => r \notin spawned
        /\ UNCHANGED <<op, stage, dirty, toClear>>
        /\ spawned' = spawned \/ spawned' = spawned \cup {r}
    BY <1>2
    DEF Beside, StartRead, StartMutation, DropHandler, Load, Bump, Join, Resume
  <2>2. r \notin dirty /\ toClear[r] = {}
    BY <2>1 DEF WalksPlaced
  <2>3. PICK l \in PcStates \ {"idle"} : /\ Goto(r, l)
                                         /\ l = "io" => pc[r] = "idle"
                                         /\ l = "load" => op[r].kind # "rescan"
    BY <1>2
    DEF Beside, StartRead, StartMutation, DropHandler, Load, Bump, Join, Resume, PcStates
  <2>4. QED BY <1>1, <2>1, <2>2, <2>3
<1>3. ASSUME NEW r \in Requests, EditSlot(r) \/ EnterCoalescer(r) PROVE WalksPlaced'
  <2>1. /\ pc[r] \in {"edit", "section", "lock"} /\ r \notin dirty /\ toClear[r] = {}
        /\ UNCHANGED <<op, stage, dirty, toClear, spawned>>
    BY <1>3
    DEF EditSlot, EditMark, SpliceSection, EditFresh, EnterCoalescer, Acquire, WalksPlaced
  <2>2. PICK l \in {"done", "bump", "join"} : Goto(r, l)
    BY <1>3 DEF EditSlot, EditMark, SpliceSection, EditFresh, EnterCoalescer, Acquire
  <2>3. QED BY <1>1, <2>1, <2>2 DEF PcStates
<1>4. ASSUME NEW r \in Requests, MarkerIo(r) PROVE WalksPlaced'
  <2>1. /\ pc[r] = "io" /\ op[r].kind \in {"mark", "unmark"}
        /\ UNCHANGED <<op, stage, toClear, spawned>>
    BY <1>4 DEF MarkerIo, WriteMarker, DeleteMarker
  <2>2. PICK l \in {"load", "edit", "section"} :
          /\ Goto(r, l)
          /\ l = "load" => io'[r] # "applied"
    BY <1>4, <1>t DEF MarkerIo, WriteMarker, DeleteMarker, IoWithoutEffect, TypeOK
  <2>3. r \notin dirty /\ toClear[r] = {} /\ \A f \in Folders : stage[r][f] = "ahead"
    BY <2>1 DEF WalksPlaced
  <2>4. CASE l = "load"
    <3>1. dirty' = dirty
      BY <1>4, <2>2, <2>4 DEF MarkerIo
    <3>2. QED BY <1>1, <2>1, <2>2, <2>3, <2>4, <3>1 DEF PcStates
  <2>5. CASE l # "load"
    <3>1. dirty' \subseteq dirty \cup {r}
      BY <1>4 DEF MarkerIo
    <3>2. pc'[r] = l /\ \A q \in Requests \ {r} : pc'[q] = pc[q]
      BY <2>2, <1>t DEF TypeOK
    <3>3. \A q \in dirty' : pc'[q] \in {"edit", "section"}
      BY <2>5, <3>1, <3>2 DEF WalksPlaced, IndexTyped
    <3>4. ASSUME NEW w \in Requests, NEW f \in Folders,
                 pc'[w] \in {"idle", "io"} \/ w \in dirty'
          PROVE  stage'[w][f] = "ahead"
      BY <2>1, <2>3, <2>5, <3>1, <3>2, <3>4 DEF WalksPlaced
    <3>5. QED BY <2>1, <2>3, <2>5, <3>2, <3>3, <3>4 DEF WalksPlaced
  <2>6. QED BY <2>4, <2>5
<1>5. ASSUME NEW r \in Requests, Invalidate(r) PROVE WalksPlaced'
  BY <1>5 DEF Invalidate, WalksPlaced, vars
<1>6. ASSUME NEW r \in Requests, NEW root \in Roots, ClearRoot(r, root) PROVE WalksPlaced'
  <2>1. /\ UNCHANGED <<pc, op, spawned, stage, dirty>>
        /\ toClear' = [toClear EXCEPT ![r] = @ \ {root}]
    BY <1>6 DEF ClearRoot, vars
  <2>2. \A q \in Requests : toClear'[q] \subseteq toClear[q]
    BY <2>1 DEF IndexTyped
  <2>3. QED BY <2>1, <2>2 DEF WalksPlaced
<1>7. ASSUME NEW r \in Requests, BeginRescan(r) PROVE WalksPlaced'
  <2>1. /\ pc[r] = "idle" /\ op[r].kind = "rescan" /\ UNCHANGED <<op, stage, dirty>>
        /\ spawned' = (IF cooling THEN spawned ELSE spawned \cup {r})
        /\ toClear' = [toClear EXCEPT ![r] = IF cooling THEN {} ELSE Roots]
        /\ pc' = [pc EXCEPT ![r] = "lock"]
    BY <1>7 DEF BeginRescan, StartRescan
  <2>2. r \notin dirty
    BY <2>1 DEF WalksPlaced
  <2>3. pc'[r] = "lock" /\ \A q \in Requests \ {r} : pc'[q] = pc[q] /\ toClear'[q] = toClear[q]
    BY <2>1, <1>t DEF TypeOK, IndexTyped
  <2>4. toClear'[r] # {} => r \in spawned'
    BY <2>1 DEF IndexTyped
  <2>5. QED BY <2>1, <2>2, <2>3, <2>4 DEF WalksPlaced
<1>8. ASSUME NEW r \in Requests, BeginBuild(r) PROVE WalksPlaced'
  <2>1. /\ pc[r] = "join" /\ UNCHANGED <<op, dirty, toClear, spawned>>
        /\ pc' = [pc EXCEPT ![r] = "await"]
        /\ stage' = [stage EXCEPT ![r] = [f \in Folders |-> "ahead"]]
    BY <1>8 DEF BeginBuild, Register
  <2>2. r \notin dirty /\ toClear[r] = {}
    BY <2>1 DEF WalksPlaced
  <2>3. pc'[r] = "await" /\ \A q \in Requests \ {r} : pc'[q] = pc[q] /\ stage'[q] = stage[q]
    BY <2>1, <1>t DEF TypeOK, IndexTyped
  <2>4. QED BY <2>1, <2>2, <2>3 DEF WalksPlaced, IndexTyped
<1>9. ASSUME NEW r \in Requests, EndBuild(r) PROVE WalksPlaced'
  BY <1>9 DEF EndBuild, StoreBuild, WalksPlaced
<1>10. ASSUME NEW r \in Requests, ChangeOutside(r) PROVE WalksPlaced'
  <2>1. /\ pc[r] = "idle" /\ Goto(r, "done") /\ UNCHANGED <<op, stage, dirty, toClear, spawned>>
    BY <1>10 DEF ChangeOutside, OutsideChange
  <2>2. r \notin dirty /\ toClear[r] = {}
    BY <2>1 DEF WalksPlaced
  <2>3. QED BY <1>1, <2>1, <2>2 DEF PcStates
<1>11. ASSUME NEW w \in Requests, NEW f \in Folders, WalkStep(w, f) PROVE WalksPlaced'
  <2>1. UNCHANGED <<pc, op, spawned, dirty, toClear>> /\ \E s : Stage(w, f, s)
    BY <1>11 DEF WalkStep, Stat, Reuse, Miss, List, Insert, Reads, vars
  <2>2. w \notin dirty /\ pc[w] \notin {"idle", "io"}
    <3>1. CASE Stat(w, f)
      BY <3>1, <1>t DEF Stat, ToVisit, BuildsPlaced, Over
    <3>2. CASE ~Stat(w, f)
      BY <1>11, <3>2 DEF WalkStep, Reuse, Miss, List, Insert, WalksPlaced
    <3>3. QED BY <3>1, <3>2
  <2>3. \A u \in Requests \ {w} : stage'[u] = stage[u]
    BY <2>1 DEF Stage, IndexTyped
  <2>4. QED BY <2>1, <2>2, <2>3 DEF WalksPlaced
<1>12. CASE (Expire \/ CoolDown \/ AllServed) /\ UNCHANGED indexVars
  BY <1>12 DEF Expire, CoolDown, AllServed, WalksPlaced, vars
<1>13. CASE UNCHANGED allVars
  BY <1>13 DEF allVars, vars, WalksPlaced
<1>14. QED
  BY <1>2, <1>3, <1>4, <1>5, <1>6, <1>7, <1>8, <1>9, <1>10, <1>11, <1>12, <1>13, Zenon
  DEF IndexedNext

(* What a walk's step does at its folder, to the walk itself. *)
LEMMA WalkChanges ==
  ASSUME TypeOK, IndexTyped, NEW w \in Requests, NEW f \in Folders, WalkStep(w, f)
  PROVE  /\ UNCHANGED <<disk, mtime, late>>
         /\ \A u \in Requests \ {w} :
              /\ scan'[u][f] = scan[u][f] /\ stage'[u][f] = stage[u][f]
              /\ stat'[u][f] = stat[u][f]
         /\ \/ /\ Stat(w, f) /\ index' = index
               /\ stage'[w][f] = "stated" /\ stat'[w][f] = mtime[f] /\ scan' = scan
            \/ /\ stage[w][f] = "stated" /\ stage'[w][f] = "settled" /\ UNCHANGED <<stat, index>>
               /\ \E e \in index[f] : e.mtime = stat[w][f] /\ scan'[w][f] = e.listing
            \/ /\ stage[w][f] = "stated" /\ stage'[w][f] = "list"
               /\ UNCHANGED <<stat, index, scan>>
            \/ /\ stage[w][f] = "list" /\ stage'[w][f] = "listed"
               /\ UNCHANGED <<stat, index>> /\ scan'[w][f] = disk[f]
            \/ /\ stage[w][f] = "listed" /\ stage'[w][f] = "settled" /\ UNCHANGED <<stat, scan>>
               /\ index'[f] = {[mtime |-> stat[w][f], listing |-> scan[w][f]]}
<1>1. CASE Stat(w, f)
  BY <1>1 DEF Stat, Stage, IndexTyped, vars, builds
<1>2. CASE Reuse(w, f)
  BY <1>2 DEF Reuse, Hits, Reads, Stage, IndexTyped, TypeOK
<1>3. CASE Miss(w, f)
  BY <1>3 DEF Miss, Stage, IndexTyped, vars, builds
<1>4. CASE List(w, f)
  BY <1>4 DEF List, Reads, Stage, IndexTyped, TypeOK
<1>5. CASE Insert(w, f)
  BY <1>5 DEF Insert, Stage, IndexTyped, vars, builds
<1>6. QED BY <1>1, <1>2, <1>3, <1>4, <1>5 DEF WalkStep

LEMMA ReadStep ==
  ASSUME TypeOK, IndexTyped, WalksPlaced, AllRead, [IndexedNext]_allVars
  PROVE  AllRead'
<1>1. ASSUME NEW w \in Requests, NEW f \in Folders
      PROVE  scan'[w][f] # "unread" /\ (stage'[w][f] = "listed" => scan'[w][f] # "unvisited")
  <2>1. CASE Apart(f)
    BY <2>1 DEF Apart, AllRead
  <2>2. ASSUME NEW u \in Requests, WalkStep(u, f)
        PROVE  scan'[w][f] # "unread" /\ (stage'[w][f] = "listed" => scan'[w][f] # "unvisited")
    <3>1. CASE u # w
      BY <2>2, <3>1, WalkChanges DEF AllRead
    <3>2. CASE u = w
      <4>1. disk[f] \in OnDisk /\ \A e \in index[f] : e.listing \in OnDisk
        BY DEF TypeOK, IndexTyped
      <4>2. QED BY <2>2, <3>2, <4>1, WalkChanges DEF AllRead, OnDisk
    <3>3. QED BY <3>1, <3>2
  <2>3. QED BY <2>1, <2>2, FolderStep
<1>2. fresh' => \A f \in Folders : entry'[f] # "unread"
  <2> DEFINE Goal == fresh' => \A f \in Folders : entry'[f] # "unread"
  <2> SUFFICES Goal
    OBVIOUS
  <2> USE DEF slot, indexVars
  <2>1. ASSUME UNCHANGED <<fresh, entry>> PROVE Goal
    BY <2>1 DEF AllRead
  <2>2. ASSUME NEW r \in Requests, EditSlot(r) PROVE Goal
    <3>1. CASE ~fresh
      BY <2>1, <2>2, <3>1 DEF EditSlot, EditMark, SpliceSection, EditFresh
    <3>2. CASE fresh /\ EditMark(r)
      <4>1. entry' = WithMark(entry, folder(r))
        BY <3>2 DEF EditMark, EditFresh, PutEntry
      <4>2. QED BY <3>2, <4>1 DEF WithMark, AllRead, TypeOK, Views
    <3>3. CASE fresh /\ SpliceSection(r)
      <4>1. entry' = Spliced(entry, scan[r], folder(r))
        BY <3>3 DEF SpliceSection, EditFresh, PutEntry
      <4>2. QED BY <3>3, <4>1 DEF Spliced, AllRead
    <3>4. QED BY <2>2, <3>1, <3>2, <3>3 DEF EditSlot
  <2>3. ASSUME NEW r \in Requests, EndBuild(r) PROVE Goal
    BY <2>1, <2>3 DEF EndBuild, StoreBuild, PutEntry, AllRead
  <2>4. ASSUME NEW r \in Requests,
               Beside(r) \/ MarkerIo(r) \/ Invalidate(r) \/ BeginRescan(r) \/ EnterCoalescer(r)
                 \/ BeginBuild(r) \/ ChangeOutside(r) \/ \E root \in Roots : ClearRoot(r, root)
        PROVE  Goal
    BY <2>1, <2>4
    DEF Beside, StartRead, StartMutation, DropHandler, Load, Bump, Join, Resume, MarkerIo,
        WriteMarker, DeleteMarker, Invalidate, BeginRescan, StartRescan, EnterCoalescer,
        Acquire, BeginBuild, Register, ChangeOutside, OutsideChange, ClearRoot, vars
  <2>5. ASSUME NEW w \in Requests, NEW f \in Folders, WalkStep(w, f) PROVE Goal
    BY <2>1, <2>5 DEF WalkStep, Stat, Reuse, Miss, List, Insert, Reads, vars
  <2>6. CASE (Expire \/ CoolDown \/ AllServed) /\ UNCHANGED indexVars
    BY <2>1, <2>6 DEF Expire, CoolDown, AllServed, vars, AllRead
  <2>7. CASE UNCHANGED allVars
    BY <2>1, <2>7 DEF allVars, vars
  <2> HIDE DEF Goal
  <2>8. QED
    BY <2>2, <2>3, <2>4, <2>5, <2>6, <2>7, Zenon DEF IndexedNext
<1>3. QED BY <1>1, <1>2 DEF AllRead

LEMMA StampsStep ==
  ASSUME TypeOK, IndexTyped, WalksPlaced, StampsPast, [IndexedNext]_allVars, IndexTyped'
  PROVE  StampsPast'
<1> SUFFICES ASSUME NEW f \in Folders
             PROVE  /\ \A e \in index'[f] : e.mtime <= mtime'[f]
                    /\ \A w \in Requests : stat'[w][f] <= mtime'[f]
  BY DEF StampsPast
<1>1. CASE Apart(f)
  <2>1. mtime[f] \in Nat /\ mtime'[f] \in Nat /\ mtime[f] <= mtime'[f]
    BY <1>1 DEF Apart, IndexTyped
  <2>2. ASSUME NEW e \in index'[f] PROVE e.mtime <= mtime'[f]
    <3>1. e.mtime \in Nat /\ e.mtime <= mtime[f]
      BY <1>1, <2>2 DEF Apart, IndexTyped, StampsPast
    <3>2. QED BY <2>1, <3>1
  <2>3. ASSUME NEW w \in Requests PROVE stat'[w][f] <= mtime'[f]
    <3>1. stat'[w][f] \in Nat /\ stat'[w][f] <= mtime[f]
      BY <1>1 DEF Apart, IndexTyped, StampsPast
    <3>2. QED BY <2>1, <3>1
  <2>4. QED BY <2>2, <2>3
<1>2. ASSUME NEW w \in Requests, WalkStep(w, f)
      PROVE  /\ \A e \in index'[f] : e.mtime <= mtime'[f]
             /\ \A u \in Requests : stat'[u][f] <= mtime'[f]
  <2>1. mtime'[f] = mtime[f] /\ mtime[f] \in Nat
    BY <1>2, WalkChanges DEF IndexTyped
  <2>2. \A u \in Requests : stat'[u][f] = stat[u][f] \/ stat'[u][f] = mtime[f]
    BY <1>2, WalkChanges
  <2>3. \A e \in index'[f] : e \in index[f] \/ e.mtime = stat[w][f]
    BY <1>2, WalkChanges
  <2>4. QED BY <2>1, <2>2, <2>3 DEF StampsPast
<1>3. QED BY <1>1, <1>2, FolderStep

LEMMA ListingsStep ==
  ASSUME TypeOK, IndexTyped, WalksPlaced, StampsPast, ListingsTell, [IndexedNext]_allVars,
         TypeOK', IndexTyped'
  PROVE  ListingsTell'
<1> SUFFICES ASSUME NEW w \in Requests, NEW f \in Folders \ late', stage'[w][f] = "listed"
             PROVE  scan'[w][f] = disk'[f] \/ stat'[w][f] < mtime'[f]
  BY DEF ListingsTell
<1>1. f \notin late
  BY DiskStep
<1>2. CASE Apart(f)
  <2>1. /\ stage[w][f] = "listed" /\ scan'[w][f] = scan[w][f] /\ stat'[w][f] = stat[w][f]
        /\ mtime[f] \in Nat /\ mtime'[f] \in Nat /\ mtime[f] <= mtime'[f]
        /\ stat[w][f] \in Nat /\ stat[w][f] <= mtime[f]
    BY <1>2 DEF Apart, IndexTyped, StampsPast
  <2>2. scan[w][f] = disk[f] \/ stat[w][f] < mtime[f]
    BY <1>1, <2>1 DEF ListingsTell
  <2>3. disk'[f] = disk[f] \/ mtime[f] < mtime'[f]
    BY <2>1, DiskStep
  <2>4. QED BY <2>1, <2>2, <2>3
<1>3. ASSUME NEW u \in Requests, WalkStep(u, f)
      PROVE  scan'[w][f] = disk'[f] \/ stat'[w][f] < mtime'[f]
  <2>1. CASE u # w
    BY <1>1, <1>3, <2>1, WalkChanges DEF ListingsTell
  <2>2. CASE u = w
    BY <1>3, <2>2, WalkChanges
  <2>3. QED BY <2>1, <2>2
<1>4. QED BY <1>2, <1>3, FolderStep

LEMMA IndexedStep ==
  Control /\ Indexed /\ [IndexedNext]_allVars => Control' /\ Indexed'
<1> SUFFICES ASSUME Control, Indexed, [IndexedNext]_allVars PROVE Control' /\ Indexed'
  OBVIOUS
<1>1. TypeOK /\ IndexTyped /\ WalksPlaced /\ AllRead /\ StampsPast /\ ListingsTell
  BY DEF Control, Indexed
<1>2. Control' /\ TypeOK' /\ IndexTyped'
  BY <1>1, ControlThroughIndex, TypedStep DEF Control
<1>3. QED
  BY <1>1, <1>2, PlacedStep, ReadStep, StampsStep, ListingsStep DEF Indexed

LEMMA IndexedInitially == IndexedInit => Control /\ Indexed
<1> SUFFICES ASSUME IndexedInit PROVE Control /\ Indexed
  OBVIOUS
<1>1. Init
  BY DEF IndexedInit
<1>2. Control
  BY <1>1, ControlInit
<1>3. \A f \in Folders : disk[f] \in OnDisk
  BY <1>2 DEF Control, TypeOK
<1>4. \A f \in Folders : \A e \in index[f] : e = [mtime |-> 0, listing |-> disk[f]]
  BY DEF IndexedInit
<1>5. /\ index \in [Folders -> SUBSET [mtime : Nat, listing : OnDisk]]
      /\ \A f \in Folders : \A e \in index[f] : e.mtime = 0
  <2>1. \A f \in Folders : index[f] \subseteq [mtime : Nat, listing : OnDisk]
    BY <1>3, <1>4
  <2>2. index = [f \in Folders |-> index[f]]
    BY DEF IndexedInit
  <2>3. QED BY <1>4, <2>1, <2>2
<1>6. IndexTyped
  BY <1>5 DEF IndexedInit, IndexTyped, Stages
<1>7. /\ \A f \in Folders : mtime[f] = 0
      /\ \A w \in Requests, f \in Folders : stage[w][f] = "ahead" /\ stat[w][f] = 0
  BY DEF IndexedInit
<1>8. WalksPlaced
  BY <1>1, <1>7 DEF IndexedInit, Init, WalksPlaced
<1>9. AllRead
  BY <1>1, <1>7 DEF Init, AllRead, Unvisited
<1>10. StampsPast
  BY <1>5, <1>7 DEF StampsPast
<1>11. ListingsTell
  BY <1>7 DEF ListingsTell
<1>12. QED BY <1>2, <1>6, <1>8, <1>9, <1>10, <1>11 DEF Indexed

-----------------------------------------------------------------------------
(* What a step of the whole is to one request. *)

RequestKept(q) ==
  /\ io'[q] = io[q] /\ minGen'[q] = minGen[q] /\ target'[q] = target[q]
  /\ q \in spawned' => q \in spawned
  /\ reg'[q] = reg[q] /\ (build'[q] # "none" => build[q] # "none")
  /\ q \in dirty => q \in dirty'
  /\ toClear'[q] = toClear[q]
  /\ pc'[q] \in {"edit", "section"} => pc'[q] = pc[q]
  /\ pc[q] \in Over => pc'[q] = pc[q] /\ reply'[q] = reply[q]
  /\ pc'[q] = "done" => pc[q] \in Over

(* The steps of a request that its watch, or its answer, depends on. *)
Acts(q) ==
  \/ BeginRescan(q) \/ MarkerIo(q) \/ BeginBuild(q) \/ Invalidate(q) \/ EnterCoalescer(q)
  \/ EditSlot(q) \/ ChangeOutside(q) \/ \E root \in Roots : ClearRoot(q, root)
  \/ /\ StartMutation(q) \/ Bump(q) \/ Join(q) \/ Load(q) \/ Resume(q)
     /\ UNCHANGED indexVars

LEMMA RequestStep ==
  ASSUME TypeOK, IndexTyped, WalksPlaced, [IndexedNext]_allVars, NEW q \in Requests
  PROVE  op' = op /\ (RequestKept(q) \/ (Acts(q) /\ pc[q] \notin Over))
<1> DEFINE Goal == op' = op /\ (RequestKept(q) \/ (Acts(q) /\ pc[q] \notin Over))
<1> SUFFICES Goal
  OBVIOUS
<1> USE DEF indexVars, walks, builds, slot, coalescer, history, Goto, Answer, Over
<1>1. ASSUME UNCHANGED <<op, io, minGen, target, spawned, reg, build, dirty, toClear, pc, reply>>
      PROVE  Goal
  BY <1>1 DEF RequestKept
<1>2. ASSUME NEW r \in Requests, StartRead(r) \/ DropHandler(r), UNCHANGED indexVars PROVE Goal
  BY <1>2 DEF StartRead, DropHandler, RequestKept, TypeOK, Over
<1>3. ASSUME NEW r \in Requests, Load(r) \/ Resume(r), UNCHANGED indexVars PROVE Goal
  <2>1. op' = op /\ pc[r] \notin Over
    BY <1>3 DEF Load, Resume, Over
  <2>2. r # q => RequestKept(q)
    BY <1>3 DEF Load, Resume, RequestKept, TypeOK
  <2>3. QED BY <1>3, <2>1, <2>2 DEF Acts
<1>4. ASSUME NEW r \in Requests, StartMutation(r) \/ Bump(r) \/ Join(r), UNCHANGED indexVars
      PROVE  Goal
  <2>1. op' = op /\ pc[r] \notin Over
    BY <1>4 DEF StartMutation, Bump, Join, Over
  <2>2. r # q => RequestKept(q)
    BY <1>4 DEF StartMutation, Bump, Join, RequestKept, TypeOK
  <2>3. QED BY <1>4, <2>1, <2>2 DEF Acts
<1>5. ASSUME NEW r \in Requests, Beside(r) PROVE Goal
  BY <1>2, <1>3, <1>4, <1>5 DEF Beside
<1>6. ASSUME NEW r \in Requests, MarkerIo(r) PROVE Goal
  <2>1. /\ op' = op /\ pc[r] \notin Over
        /\ UNCHANGED <<minGen, target, spawned, reg, build, toClear, reply>>
        /\ dirty \subseteq dirty'
        /\ \E v : io' = [io EXCEPT ![r] = v]
        /\ \E l : pc' = [pc EXCEPT ![r] = l]
    BY <1>6 DEF MarkerIo, WriteMarker, DeleteMarker, IoWithoutEffect, Over
  <2>2. r # q => RequestKept(q)
    BY <2>1 DEF RequestKept, TypeOK
  <2>3. QED BY <1>6, <2>1, <2>2 DEF Acts
<1>7. ASSUME NEW r \in Requests, Invalidate(r) PROVE Goal
  <2>1. UNCHANGED vars /\ UNCHANGED toClear /\ dirty' = dirty \ {r} /\ pc[r] \notin Over
    BY <1>7 DEF Invalidate, WalksPlaced, Over
  <2>2. op' = op /\ (r # q => RequestKept(q))
    BY <2>1 DEF RequestKept, vars
  <2>3. QED BY <1>7, <2>1, <2>2 DEF Acts
<1>8. ASSUME NEW r \in Requests, EditSlot(r) \/ EnterCoalescer(r) PROVE Goal
  <2>1. op' = op /\ pc[r] \notin Over
    BY <1>8 DEF EditSlot, EditMark, SpliceSection, EditFresh, EnterCoalescer, Acquire, Over
  <2>2. r # q => RequestKept(q)
    BY <1>8
    DEF EditSlot, EditMark, SpliceSection, EditFresh, EnterCoalescer, Acquire, RequestKept,
        TypeOK
  <2>3. QED BY <1>8, <2>1, <2>2 DEF Acts
<1>9. ASSUME NEW r \in Requests, BeginRescan(r) PROVE Goal
  <2>1. op' = op /\ pc[r] \notin Over
    BY <1>9 DEF BeginRescan, StartRescan, Over
  <2>2. r # q => RequestKept(q)
    BY <1>9 DEF BeginRescan, StartRescan, RequestKept, TypeOK, IndexTyped
  <2>3. QED BY <1>9, <2>1, <2>2 DEF Acts
<1>10. ASSUME NEW r \in Requests, BeginBuild(r) PROVE Goal
  <2>1. op' = op /\ pc[r] \notin Over
    BY <1>10 DEF BeginBuild, Register, Over
  <2>2. r # q => RequestKept(q)
    BY <1>10 DEF BeginBuild, Register, RequestKept, TypeOK
  <2>3. QED BY <1>10, <2>1, <2>2 DEF Acts
<1>11. ASSUME NEW r \in Requests, EndBuild(r) PROVE Goal
  BY <1>11 DEF EndBuild, StoreBuild, RequestKept, TypeOK
<1>12. ASSUME NEW r \in Requests, ChangeOutside(r) PROVE Goal
  <2>1. op' = op /\ pc[r] \notin Over
    BY <1>12 DEF ChangeOutside, OutsideChange, Over
  <2>2. r # q => RequestKept(q)
    BY <1>12 DEF ChangeOutside, OutsideChange, RequestKept, TypeOK
  <2>3. QED BY <1>12, <2>1, <2>2 DEF Acts
<1>13. ASSUME NEW r \in Requests, NEW root \in Roots, ClearRoot(r, root) PROVE Goal
  <2>1. /\ UNCHANGED vars /\ UNCHANGED dirty
        /\ toClear' = [toClear EXCEPT ![r] = @ \ {root}]
        /\ pc[r] \notin Over
    BY <1>13 DEF ClearRoot, WalksPlaced, Over
  <2>2. op' = op /\ (r # q => RequestKept(q))
    BY <2>1 DEF RequestKept, vars, IndexTyped
  <2>3. QED BY <1>13, <2>1, <2>2 DEF Acts
<1>14. ASSUME NEW w \in Requests, NEW f \in Folders, WalkStep(w, f) PROVE Goal
  BY <1>1, <1>14 DEF WalkStep, Stat, Reuse, Miss, List, Insert, Reads, vars
<1>15. CASE (Expire \/ CoolDown \/ AllServed) /\ UNCHANGED indexVars
  BY <1>1, <1>15 DEF Expire, CoolDown, AllServed, vars
<1>16. CASE UNCHANGED allVars
  BY <1>1, <1>16 DEF allVars, vars
<1> HIDE DEF Goal
<1>17. QED
  BY <1>5, <1>6, <1>7, <1>8, <1>9, <1>10, <1>11, <1>12, <1>13, <1>14, <1>15, <1>16, Zenon
  DEF IndexedNext

(* Who watches a folder sees what becomes of it; who is answered watches no more. *)
LEMMA HeldStep ==
  ASSUME TypeOK, [IndexedNext]_allVars, NEW q \in Requests, NEW f \in Folders
  PROVE  /\ pc[q] \notin {"idle", "io"} \cup Over =>
              /\ held[q][f] \subseteq held'[q][f]
              /\ disk'[f] = disk[f] \/ disk'[f] \in held'[q][f]
         /\ pc[q] \in Over => held'[q][f] = held[q][f]
<1> DEFINE Goal == /\ pc[q] \notin {"idle", "io"} \cup Over =>
                        /\ held[q][f] \subseteq held'[q][f]
                        /\ disk'[f] = disk[f] \/ disk'[f] \in held'[q][f]
                   /\ pc[q] \in Over => held'[q][f] = held[q][f]
<1> SUFFICES Goal
  OBVIOUS
<1> USE DEF indexVars, walks, builds, slot, coalescer, history
<1>1. ASSUME UNCHANGED <<disk, held>> PROVE Goal
  BY <1>1
<1>2. ASSUME NEW r \in Requests, pc[r] = "idle", UNCHANGED disk,
             held' = [held EXCEPT ![r] = [g \in Folders |-> {disk[g]}]]
      PROVE  Goal
  <2>1. r # q => held'[q] = held[q]
    BY <1>2 DEF TypeOK
  <2>2. QED BY <1>2, <2>1 DEF Over
<1>3. ASSUME NEW r \in Requests, Beside(r) \/ BeginRescan(r) PROVE Goal
  <2>1. CASE StartRead(r) \/ StartMutation(r) \/ BeginRescan(r)
    BY <1>2, <2>1 DEF StartRead, StartMutation, BeginRescan, StartRescan, WatchFrom
  <2>2. CASE DropHandler(r) \/ Load(r) \/ Bump(r) \/ Join(r) \/ Resume(r)
    BY <1>1, <2>2 DEF DropHandler, Load, Bump, Join, Resume
  <2>3. QED BY <1>3, <2>1, <2>2 DEF Beside
<1>4. ASSUME NEW r \in Requests, MarkerIo(r) PROVE Goal
  <2>1. /\ pc[r] = "io"
        /\ UNCHANGED <<disk, held>> \/ SetMarker(r, "marked") \/ SetMarker(r, "bare")
    BY <1>4 DEF MarkerIo, WriteMarker, DeleteMarker, IoWithoutEffect
  <2>2. ASSUME NEW v \in OnDisk, SetMarker(r, v) PROVE Goal
    <3>1. CASE q = r
      BY <2>1, <3>1 DEF Over
    <3>2. CASE q # r
      <4>1. /\ disk'[folder(r)] = v
            /\ \A g \in Folders \ {folder(r)} : disk'[g] = disk[g]
            /\ \A p \in Requests, g \in Folders :
                 p # r => held'[p][g] =
                            IF g = folder(r) /\ pc[p] \notin {"idle"} \cup Over
                            THEN held[p][g] \cup {v} ELSE held[p][g]
        BY <2>2, MarkerChange
      <4>2. held'[q][f] = IF f = folder(r) /\ pc[q] \notin {"idle"} \cup Over
                          THEN held[q][f] \cup {v} ELSE held[q][f]
        BY <3>2, <4>1
      <4>3. QED BY <4>1, <4>2
    <3>3. QED BY <3>1, <3>2
  <2>3. QED BY <1>1, <2>1, <2>2 DEF OnDisk
<1>5. ASSUME NEW r \in Requests, ChangeOutside(r) PROVE Goal
  <2>1. PICK v : disk' = [disk EXCEPT ![folder(r)] = v] /\ held' = HeldWith(folder(r), v)
    BY <1>5 DEF ChangeOutside, OutsideChange
  <2>2. pc[q] \in Over => held'[q] = held[q]
    BY <2>1 DEF HeldWith
  <2>3. pc[q] \notin {"idle"} \cup Over =>
          held'[q] = [held[q] EXCEPT ![folder(r)] = @ \cup {v}]
    BY <2>1 DEF HeldWith
  <2>4. QED BY <2>1, <2>2, <2>3 DEF TypeOK
<1>6. ASSUME NEW r \in Requests,
             Invalidate(r) \/ EditSlot(r) \/ EnterCoalescer(r) \/ BeginBuild(r) \/ EndBuild(r)
               \/ \E root \in Roots : ClearRoot(r, root)
      PROVE  Goal
  BY <1>1, <1>6
  DEF Invalidate, EditSlot, EditMark, SpliceSection, EditFresh, EnterCoalescer, Acquire,
      BeginBuild, Register, EndBuild, StoreBuild, ClearRoot, vars
<1>7. ASSUME NEW w \in Requests, NEW g \in Folders, WalkStep(w, g) PROVE Goal
  BY <1>1, <1>7 DEF WalkStep, Stat, Reuse, Miss, List, Insert, Reads, vars
<1>8. CASE (Expire \/ CoolDown \/ AllServed) /\ UNCHANGED indexVars
  BY <1>1, <1>8 DEF Expire, CoolDown, AllServed, vars
<1>9. CASE UNCHANGED allVars
  BY <1>1, <1>9 DEF allVars, vars
<1> HIDE DEF Goal
<1>10. QED
  BY <1>3, <1>4, <1>5, <1>6, <1>7, <1>8, <1>9, Zenon DEF IndexedNext

-----------------------------------------------------------------------------
(* What a step leaves of a watch on folder f from mtime m on. *)

LEMMA SinceStep ==
  ASSUME TypeOK, IndexTyped, WalksPlaced, [IndexedNext]_allVars, TypeOK', IndexTyped',
         NEW f \in Folders, NEW m \in Nat, NEW H, NEW H2, NEW Y, NEW Y2,
         NEW C \in BOOLEAN, NEW C2 \in BOOLEAN,
         Since(f, H, Y, C, m), H \subseteq H2, disk'[f] \in H2, Y2 \subseteq Requests,
         C2 => C \/ index'[f] = {},
         \A w \in Y2 : w \in Y \/ (scan'[w][f] = "unvisited" /\ stage'[w][f] = "ahead"),
         \A w \in Y : stage[w][f] = "stated" => C
  PROVE  Since(f, H2, Y2, C2, m)'
<1>1. CASE Apart(f)
  <2>1. m <= mtime'[f]
    BY <1>1 DEF Apart, Since, IndexTyped
  <2>2. C2 => \A e \in index'[f] : e.listing \in H2 \/ e.mtime < m
    BY <1>1 DEF Apart, Since
  <2>3. ASSUME NEW w \in Requests, stage'[w][f] = "listed"
        PROVE  scan'[w][f] \in H2 \/ stat'[w][f] < m
    BY <1>1, <2>3 DEF Apart, Since
  <2>4. ASSUME NEW w \in Y2
        PROVE  /\ scan'[w][f] \in H2 \cup {"unvisited"}
               /\ stage'[w][f] = "stated" => stat'[w][f] >= m
    BY <1>1, <2>4 DEF Apart, Since
  <2>5. QED BY <2>1, <2>2, <2>3, <2>4 DEF Since
<1>2. ASSUME NEW u \in Requests, WalkStep(u, f) PROVE Since(f, H2, Y2, C2, m)'
  <2>1. m <= mtime'[f] /\ mtime'[f] = mtime[f]
    BY <1>2, WalkChanges DEF Since
  <2>2. ASSUME C2, NEW e \in index'[f] PROVE e.listing \in H2 \/ e.mtime < m
    <3>1. CASE e \in index[f]
      BY <2>2, <3>1 DEF Since
    <3>2. CASE e \notin index[f]
      <4>1. stage[u][f] = "listed" /\ e = [mtime |-> stat[u][f], listing |-> scan[u][f]]
        BY <1>2, <2>2, <3>2, WalkChanges
      <4>2. QED BY <4>1 DEF Since
    <3>3. QED BY <3>1, <3>2
  <2>3. ASSUME NEW w \in Requests, stage'[w][f] = "listed"
        PROVE  scan'[w][f] \in H2 \/ stat'[w][f] < m
    <3>1. CASE u # w
      BY <1>2, <2>3, <3>1, WalkChanges DEF Since
    <3>2. CASE u = w
      BY <1>2, <2>3, <3>2, WalkChanges DEF Since
    <3>3. QED BY <3>1, <3>2
  <2>4. ASSUME NEW w \in Y2
        PROVE  /\ scan'[w][f] \in H2 \cup {"unvisited"}
               /\ stage'[w][f] = "stated" => stat'[w][f] >= m
    <3>1. CASE w \notin Y
      BY <2>4, <3>1
    <3>2. CASE w \in Y /\ u # w
      BY <1>2, <2>4, <3>2, WalkChanges DEF Since
    <3>3. CASE w \in Y /\ u = w
      <4>1. scan[w][f] \in H2 \cup {"unvisited"}
        BY <2>4, <3>3 DEF Since
      <4>2. CASE Stat(u, f)
        <5>1. stat'[u][f] = mtime[f] /\ scan' = scan
          BY <4>2 DEF Stat, IndexTyped, vars, builds
        <5>2. QED BY <2>1, <3>3, <4>1, <5>1 DEF Since, IndexTyped
      <4>3. CASE stage[u][f] = "stated" /\ stage'[u][f] = "settled"
        <5>1. PICK e \in index[f] : e.mtime = stat[u][f] /\ scan'[u][f] = e.listing
          BY <1>2, <4>3, WalkChanges
        <5>2. ~(e.mtime < m)
          BY <3>3, <4>3, <5>1 DEF Since, IndexTyped
        <5>3. e.listing \in H
          BY <3>3, <4>3, <5>2 DEF Since
        <5>4. QED BY <3>3, <4>3, <5>1, <5>3
      <4>4. CASE stage'[u][f] # "stated" /\ (scan'[u][f] = scan[u][f] \/ scan'[u][f] = disk[f])
        BY <3>3, <4>1, <4>4 DEF Since
      <4>5. QED BY <1>2, <4>2, <4>3, <4>4, WalkChanges
    <3>4. QED BY <3>1, <3>2, <3>3
  <2>5. QED BY <2>1, <2>2, <2>3, <2>4 DEF Since
<1>3. QED BY <1>1, <1>2, FolderStep

(* A watch that begins now: what is not what the folder holds is from before. *)
LEMMA SinceBegins ==
  ASSUME IndexTyped, AllRead, ListingsTell, NEW f \in Folders \ late, NEW Y, Y \subseteq Requests,
         \A w \in Y : scan[w][f] = "unvisited" /\ stage[w][f] = "ahead",
         NEW H, disk[f] \in H
  PROVE  Since(f, H, Y, FALSE, mtime[f])
<1>1. mtime[f] \in Nat
  BY DEF IndexTyped
<1>2. QED BY <1>1 DEF Since, ListingsTell

LEMMA WalkerKept ==
  ASSUME TypeOK, IndexTyped, WalksPlaced, [IndexedNext]_allVars,
         NEW w \in Requests, ~BeginBuild(w), build'[w] # "none"
  PROVE  reg'[w] = reg[w] /\ build[w] # "none"
<1>1. RequestKept(w) \/ Acts(w)
  BY RequestStep
<1>2. CASE RequestKept(w)
  BY <1>2 DEF RequestKept
<1>3. CASE Acts(w)
  BY <1>3
  DEF Acts, BeginRescan, StartRescan, StartMutation, MarkerIo, WriteMarker, DeleteMarker, Bump,
      Join, Invalidate, Load, EnterCoalescer, Acquire, EditSlot, EditMark, SpliceSection,
      EditFresh, Resume, ChangeOutside, OutsideChange, ClearRoot, vars, builds
<1>4. QED BY <1>1, <1>2, <1>3

(* No build that has registered meets a minimum set now. *)
LEMMA MinimumKept ==
  ASSUME TypeOK, GenerationsPast, IndexTyped, WalksPlaced, [IndexedNext]_allVars,
         NEW q \in Requests, NEW w \in Requests, reg'[w] = reg[w], reg'[w] >= minGen'[q]
  PROVE  minGen'[q] = minGen[q]
<1>1. RequestKept(q) \/ Acts(q)
  BY RequestStep
<1>2. CASE RequestKept(q)
  BY <1>2 DEF RequestKept
<1>3. CASE Bump(q)
  <2>1. minGen'[q] = gen + 1 /\ reg[w] <= gen /\ gen \in Nat /\ reg[w] \in Nat
    BY <1>3 DEF Bump, TypeOK, GenerationsPast
  <2>2. QED BY <2>1
<1>4. CASE Acts(q) /\ ~Bump(q)
  BY <1>4
  DEF Acts, BeginRescan, StartRescan, StartMutation, MarkerIo, WriteMarker, DeleteMarker,
      BeginBuild, Register, Join, Invalidate, Load, EnterCoalescer, Acquire, EditSlot, EditMark,
      SpliceSection, EditFresh, Resume, ChangeOutside, OutsideChange, ClearRoot, vars
<1>5. QED BY <1>1, <1>2, <1>3, <1>4

(* A finished build stays so; generations grow; an undo reaches its walk by IO. *)
LEMMA StoreSteps ==
  ASSUME TypeOK, BuildsPlaced, IndexTyped, [IndexedNext]_allVars
  PROVE  /\ gen \in Nat /\ gen' \in Nat /\ gen <= gen'
         /\ \A w \in Requests : build[w] = "finished" => build'[w] = "finished"
         /\ \A r \in Requests : pc'[r] = "section" => pc[r] \in {"io", "section"}
<1>1. CASE [Next]_vars
  <2>1. gen \in Nat /\ (gen' = gen \/ gen' = gen + 1)
    BY <1>1
    DEF Next, Server, Environment, Arrival, StartRead, StartRescan, StartMutation, Load,
        WriteMarker, DeleteMarker, EditMark, SpliceSection, EditFresh, Bump, Acquire, Join,
        Register, VisitFolder, FailRoot, StoreBuild, Resume, DropHandler, OutsideChange,
        Expire, CoolDown, AllServed, vars, PutEntry, slot,
        TypeOK
  <2>2. ASSUME NEW w \in Requests, build[w] = "finished" PROVE build'[w] = "finished"
    <3>1. pc[w] # "join"
      BY <2>2 DEF BuildsPlaced, Over
    <3>2. QED
      BY <1>1, <2>2, <3>1
      DEF Next, Server, Environment, Arrival, StartRead, StartRescan, StartMutation, Load,
          WriteMarker, DeleteMarker, EditMark, SpliceSection, EditFresh, Bump, Acquire, Join,
          Register, VisitFolder, FailRoot, StoreBuild, Resume, DropHandler, OutsideChange,
          Expire, CoolDown, AllServed, vars, builds, TypeOK
  <2>3. ASSUME NEW r \in Requests, pc'[r] = "section" PROVE pc[r] \in {"io", "section"}
    BY <1>1, <2>3
    DEF Next, Server, Environment, Arrival, StartRead, StartRescan, StartMutation, Load,
        WriteMarker, DeleteMarker, EditMark, SpliceSection, EditFresh, Bump, Acquire, Join,
        Register, VisitFolder, FailRoot, StoreBuild, Resume, DropHandler, OutsideChange,
        Expire, CoolDown, AllServed, vars, Goto, Answer, IoWithoutEffect,
        TypeOK
  <2>4. QED BY <2>1, <2>2, <2>3
<1>2. QED BY <1>1, StoreOrRead DEF Reads, slot, TypeOK

(* A request's watch on its own write lasts until it is answered. *)
LEMMA WriteWatchStep ==
  ASSUME Control, Indexed, [IndexedNext]_allVars, Control', Indexed',
         NEW q \in Requests, WriteWatched(q)
  PROVE  WriteWatched(q)'
<1> SUFFICES ASSUME Wrote(q)', pc'[q] \notin Over, folder(q)' \notin late'
             PROVE  \E m \in Nat : Since(folder(q), held[q][folder(q)], After(q), q \notin dirty, m)'
  BY DEF WriteWatched
<1>t. /\ TypeOK /\ BuildsPlaced /\ CallsPlaced /\ GenerationsPast
      /\ IndexTyped /\ WalksPlaced
      /\ TypeOK' /\ IndexTyped' /\ WalksPlaced' /\ AllRead' /\ ListingsTell'
  BY DEF Control, Indexed
<1> DEFINE f == folder(q)
<1>1. op' = op /\ (RequestKept(q) \/ (Acts(q) /\ pc[q] \notin Over))
  BY <1>t, RequestStep
<1>2. f' = f /\ f \in Folders /\ f \notin late'
  BY <1>t, <1>1, OpsAssumption DEF folder, TypeOK
<1>3. PICK H2 : H2 = held'[q][f]
  OBVIOUS
<1>4. PICK Y2 : Y2 = After(q)'
  OBVIOUS
<1>5. PICK C2 \in BOOLEAN : C2 = (q \notin dirty')
  OBVIOUS
<1>6. (\E m \in Nat : Since(f, H2, Y2, C2, m)')
        => \E m \in Nat : Since(folder(q), held[q][folder(q)], After(q), q \notin dirty, m)'
  BY <1>2, <1>3, <1>4, <1>5 DEF Since
<1>7. Y2 \subseteq Requests
  BY <1>4 DEF After
<1>8. CASE Wrote(q)
  <2>1. pc[q] \notin Over
    BY <1>1 DEF RequestKept
  <2>2. f \notin late
    BY <1>t, <1>2, DiskStep
  <2>3. pc[q] \notin {"idle", "load", "io"}
    BY <1>t, <1>8 DEF CallsPlaced
  <2>4. PICK H : H = held[q][f]
    OBVIOUS
  <2>5. PICK Y : Y = After(q)
    OBVIOUS
  <2>6. PICK C \in BOOLEAN : C = (q \notin dirty)
    OBVIOUS
  <2>7. PICK m \in Nat : Since(f, H, Y, C, m)
    BY <1>8, <2>1, <2>2, <2>4, <2>5, <2>6 DEF WriteWatched
  <2>8. H \subseteq H2 /\ disk'[f] \in H2
    <3>1. disk[f] \in H
      BY <2>7 DEF Since
    <3>2. QED
      BY <1>t, <1>2, <1>3, <2>1, <2>3, <2>4, <3>1, HeldStep
  <2>9. C2 => C \/ index'[f] = {}
    <3>1. CASE RequestKept(q)
      BY <1>5, <2>6, <3>1 DEF RequestKept
    <3>2. CASE Invalidate(q)
      BY <1>t, <1>2, <3>2 DEF Invalidate, IndexTyped
    <3>3. CASE Acts(q) /\ ~Invalidate(q)
      <4>1. dirty \subseteq dirty'
        BY <3>3
        DEF Acts, indexVars, BeginRescan, StartMutation, MarkerIo, Bump, BeginBuild, Join, Load,
            EnterCoalescer, EditSlot, Resume, ChangeOutside, ClearRoot
      <4>2. QED BY <1>5, <2>6, <4>1
    <3>4. QED BY <1>1, <3>1, <3>2, <3>3
  <2>10. ASSUME NEW w \in Y2
         PROVE  w \in Y \/ (scan'[w][f] = "unvisited" /\ stage'[w][f] = "ahead")
    <3>1. w \in Requests
      BY <1>7, <2>10
    <3>2. CASE w = q /\ pc'[q] = "section"
      <4>1. pc[q] = "section"
        BY <1>t, <1>1, <2>3, <3>2
        DEF RequestKept, Acts, BeginRescan, StartRescan, StartMutation, MarkerIo, WriteMarker,
            DeleteMarker, Bump, BeginBuild, Register, Join, Invalidate, Load, EnterCoalescer,
            Acquire, EditSlot, EditMark, SpliceSection, EditFresh, Resume, ChangeOutside,
            OutsideChange, ClearRoot, vars, Goto, Answer, TypeOK
      <4>2. QED BY <2>5, <3>2, <4>1 DEF After
    <3>3. CASE minGen'[q] > 0 /\ build'[w] # "none" /\ reg'[w] >= minGen'[q]
      <4>1. CASE BeginBuild(w)
        BY <1>t, <1>2, <4>1 DEF BeginBuild, Register, Unvisited, TypeOK, IndexTyped
      <4>2. CASE ~BeginBuild(w)
        <5>1. reg'[w] = reg[w] /\ build[w] # "none"
          BY <1>t, <3>1, <3>3, <4>2, WalkerKept
        <5>2. minGen'[q] = minGen[q]
          BY <1>t, <3>1, <3>3, <5>1, MinimumKept
        <5>3. QED BY <2>5, <3>1, <3>3, <5>1, <5>2 DEF After
      <4>3. QED BY <4>1, <4>2
    <3>4. QED BY <1>4, <2>10, <3>2, <3>3 DEF After
  <2>11. ASSUME NEW w \in Y, stage[w][f] = "stated" PROVE C
    <3>1. SUFFICES ASSUME q \in dirty PROVE FALSE
      BY <2>6
    <3>2. pc[q] \in {"edit", "section"} /\ minGen[q] = 0
      BY <1>t, <3>1 DEF WalksPlaced, CallsPlaced
    <3>3. w = q
      BY <2>5, <2>11, <3>2 DEF After
    <3>4. QED BY <1>t, <1>2, <2>11, <3>1, <3>3 DEF WalksPlaced
  <2>12. Since(f, H2, Y2, C2, m)'
    BY <1>t, <1>2, <1>7, <2>7, <2>8, <2>9, <2>10, <2>11, SinceStep
  <2>13. QED BY <1>6, <2>12
<1>9. CASE ~Wrote(q)
  <2>1. MarkerIo(q) /\ io'[q] = "applied"
    <3>1. io'[q] # io[q]
      BY <1>9 DEF Wrote
    <3>2. QED
      BY <1>1, <3>1
      DEF RequestKept, Acts, BeginRescan, StartRescan, StartMutation, MarkerIo, Bump, BeginBuild,
          Register, Join, Invalidate, Load, EnterCoalescer, Acquire, EditSlot, EditMark,
          SpliceSection, EditFresh, Resume, ChangeOutside, OutsideChange, ClearRoot, vars, Wrote
  <2>2. PICK v \in OnDisk : SetMarker(q, v)
    BY <1>t, <2>1
    DEF MarkerIo, WriteMarker, DeleteMarker, IoWithoutEffect, OnDisk, TypeOK
  <2>3. disk'[f] \in H2
    BY <1>t, <1>3, <2>2, MarkerChange
  <2>4. q \in dirty' /\ C2 = FALSE
    BY <1>5, <2>1 DEF MarkerIo
  <2>5. pc[q] = "io" /\ minGen'[q] = minGen[q]
    BY <2>1 DEF MarkerIo, WriteMarker, DeleteMarker
  <2>6. minGen'[q] = 0
    BY <1>t, <2>5 DEF CallsPlaced, TypeOK
  <2>7. ASSUME NEW w \in Y2 PROVE scan'[w][f] = "unvisited" /\ stage'[w][f] = "ahead"
    <3>1. w = q /\ pc'[q] = "section"
      BY <1>4, <2>6, <2>7 DEF After
    <3>2. scan' = [scan EXCEPT ![q] = Unvisited]
      BY <1>t, <2>1, <3>1
      DEF MarkerIo, WriteMarker, DeleteMarker, IoWithoutEffect, Goto, TypeOK
    <3>3. stage'[q][f] = "ahead"
      BY <1>t, <1>2, <2>4 DEF WalksPlaced
    <3>4. QED BY <1>t, <1>2, <3>1, <3>2, <3>3 DEF Unvisited, TypeOK
  <2>8. PICK m \in Nat : m = mtime'[f]
    BY <1>t, <1>2 DEF IndexTyped
  <2>9. Since(f, H2, Y2, C2, m)'
    BY <1>t, <1>2, <1>7, <2>3, <2>4, <2>7, <2>8 DEF Since, ListingsTell
  <2>10. QED BY <1>6, <2>9
<1>10. QED BY <1>8, <1>9

(* An honored rescan's watch on every folder lasts until it is answered. *)
LEMMA RescanWatchStep ==
  ASSUME Control, Indexed, [IndexedNext]_allVars, Control', Indexed',
         NEW q \in Requests, RescanWatched(q)
  PROVE  RescanWatched(q)'
<1> SUFFICES ASSUME Honored(q)', pc'[q] \notin Over, NEW f \in Folders, f \notin late'
             PROVE  \E m \in Nat : Since(f, held[q][f], {w \in {q} : build[w] # "none"},
                                         RootOf[f] \notin toClear[q], m)'
  BY DEF RescanWatched
<1>t. /\ TypeOK /\ BuildsPlaced /\ CallsPlaced
      /\ IndexTyped /\ WalksPlaced
      /\ TypeOK' /\ IndexTyped' /\ AllRead' /\ ListingsTell'
  BY DEF Control, Indexed
<1>1. op' = op /\ (RequestKept(q) \/ (Acts(q) /\ pc[q] \notin Over))
  BY <1>t, RequestStep
<1>2. op[q].kind = "rescan" /\ q \in spawned'
  BY <1>1 DEF Honored
<1>3. PICK H2 : H2 = held'[q][f]
  OBVIOUS
<1>4. PICK Y2 : Y2 = {w \in {q} : build'[w] # "none"}
  OBVIOUS
<1>5. PICK C2 \in BOOLEAN : C2 = (RootOf[f] \notin toClear'[q])
  OBVIOUS
<1>6. (\E m \in Nat : Since(f, H2, Y2, C2, m)')
        => \E m \in Nat : Since(f, held[q][f], {w \in {q} : build[w] # "none"},
                                RootOf[f] \notin toClear[q], m)'
  BY <1>3, <1>4, <1>5 DEF Since
<1>7. Y2 \subseteq Requests
  BY <1>4
<1>8. CASE q \in spawned
  <2>1. pc[q] \notin Over
    BY <1>1 DEF RequestKept
  <2>2. f \notin late
    BY <1>t, DiskStep
  <2>3. pc[q] \notin {"idle", "io"}
    BY <1>t, <1>2, <1>8 DEF WalksPlaced, CallsPlaced, Mutations
  <2>4. PICK H : H = held[q][f]
    OBVIOUS
  <2>5. PICK Y : Y = {w \in {q} : build[w] # "none"}
    OBVIOUS
  <2>6. PICK C \in BOOLEAN : C = (RootOf[f] \notin toClear[q])
    OBVIOUS
  <2>7. PICK m \in Nat : Since(f, H, Y, C, m)
    BY <1>2, <1>8, <2>1, <2>2, <2>4, <2>5, <2>6 DEF RescanWatched, Honored
  <2>8. H \subseteq H2 /\ disk'[f] \in H2
    <3>1. disk[f] \in H
      BY <2>7 DEF Since
    <3>2. QED
      BY <1>t, <1>3, <2>1, <2>3, <2>4, <3>1, HeldStep
  <2>9. C2 => C \/ index'[f] = {}
    <3>1. CASE toClear'[q] = toClear[q]
      BY <1>5, <2>6, <3>1
    <3>2. ASSUME NEW root \in Roots, ClearRoot(q, root) PROVE C2 => C \/ index'[f] = {}
      <4>1. CASE RootOf[f] = root
        BY <3>2, <4>1 DEF ClearRoot
      <4>2. CASE RootOf[f] # root
        BY <1>t, <1>5, <2>6, <3>2, <4>2 DEF ClearRoot, IndexTyped
      <4>3. QED BY <4>1, <4>2
    <3>3. CASE BeginRescan(q)
      BY <2>3, <3>3 DEF BeginRescan, StartRescan
    <3>4. QED
      BY <1>1, <3>1, <3>2, <3>3
      DEF RequestKept, Acts, indexVars, StartMutation, MarkerIo, Bump, BeginBuild, Join,
          Invalidate, Load, EnterCoalescer, EditSlot, Resume, ChangeOutside
  <2>10. ASSUME NEW w \in Y2
         PROVE  w \in Y \/ (scan'[w][f] = "unvisited" /\ stage'[w][f] = "ahead")
    <3>1. w = q /\ build'[w] # "none"
      BY <1>4, <2>10
    <3>2. CASE BeginBuild(w)
      BY <1>t, <3>1, <3>2 DEF BeginBuild, Register, Unvisited, TypeOK, IndexTyped
    <3>3. CASE ~BeginBuild(w)
      BY <1>t, <2>5, <3>1, <3>3, WalkerKept
    <3>4. QED BY <3>2, <3>3
  <2>11. ASSUME NEW w \in Y, stage[w][f] = "stated" PROVE C
    <3>1. pc[q] # "lock"
      BY <1>t, <2>5, <2>11 DEF BuildsPlaced, Over
    <3>2. toClear[q] = {}
      BY <1>t, <3>1 DEF WalksPlaced
    <3>3. QED BY <2>6, <3>2
  <2>12. Since(f, H2, Y2, C2, m)'
    BY <1>t, <1>7, <2>7, <2>8, <2>9, <2>10, <2>11, SinceStep
  <2>13. QED BY <1>6, <2>12
<1>9. CASE q \notin spawned
  <2>1. BeginRescan(q) /\ ~cooling
    <3>1. ~StartMutation(q)
      BY <1>2 DEF StartMutation, Mutations
    <3>2. QED
      BY <1>1, <1>2, <1>9, <3>1
      DEF RequestKept, Acts, BeginRescan, StartRescan, MarkerIo, WriteMarker, DeleteMarker, Bump,
          BeginBuild, Register, Join, Invalidate, Load, EnterCoalescer, Acquire, EditSlot,
          EditMark, SpliceSection, EditFresh, Resume, ChangeOutside, OutsideChange, ClearRoot,
          vars
  <2>2. /\ pc[q] = "idle" /\ UNCHANGED <<disk, build>>
        /\ held' = [held EXCEPT ![q] = [g \in Folders |-> {disk[g]}]]
        /\ toClear' = [toClear EXCEPT ![q] = Roots]
    BY <2>1 DEF BeginRescan, StartRescan, WatchFrom, builds
  <2>3. disk'[f] \in H2
    BY <1>t, <1>3, <2>2 DEF TypeOK
  <2>4. C2 = FALSE
    BY <1>t, <1>5, <2>2, RootOfAssumption DEF IndexTyped
  <2>5. Y2 = {}
    BY <1>t, <1>4, <2>2 DEF BuildsPlaced, Over
  <2>6. PICK m \in Nat : m = mtime'[f]
    BY <1>t DEF IndexTyped
  <2>7. Since(f, H2, Y2, C2, m)'
    BY <1>t, <2>3, <2>4, <2>5, <2>6 DEF Since, ListingsTell
  <2>8. QED BY <1>6, <2>7
<1>10. QED BY <1>8, <1>9

(* A mark that has to be edited in was on disk since its write. *)
LEMMA EditWatchStep ==
  ASSUME Control, Indexed, [IndexedNext]_allVars, Control', Indexed',
         NEW q \in Requests, EditWatched(q)
  PROVE  EditWatched(q)'
<1> SUFFICES ASSUME pc'[q] = "edit" PROVE "marked" \in held'[q][folder(q)']
  BY DEF EditWatched, folder
<1>t. TypeOK /\ CallsPlaced /\ IndexTyped /\ WalksPlaced
  BY DEF Control, Indexed
<1>1. op' = op /\ (RequestKept(q) \/ (Acts(q) /\ pc[q] \notin Over))
  BY <1>t, RequestStep
<1>2. folder(q)' = folder(q) /\ folder(q) \in Folders
  BY <1>t, <1>1, OpsAssumption DEF folder, TypeOK
<1>3. CASE pc[q] = "edit"
  BY <1>t, <1>2, <1>3, HeldStep DEF EditWatched, Over
<1>4. CASE pc[q] # "edit"
  <2>1. MarkerIo(q)
    BY <1>t, <1>1, <1>4
    DEF RequestKept, Acts, BeginRescan, StartRescan, StartMutation, Bump, BeginBuild, Register,
        Join, Invalidate, Load, EnterCoalescer, Acquire, EditSlot, EditMark, SpliceSection,
        EditFresh, Resume, ChangeOutside, OutsideChange, ClearRoot, vars, Goto, Answer, TypeOK
  <2>2. SetMarker(q, "marked")
    BY <1>t, <2>1 DEF MarkerIo, WriteMarker, DeleteMarker, IoWithoutEffect, Goto, TypeOK
  <2>3. QED BY <1>t, <1>2, <2>2, MarkerChange DEF OnDisk
<1>5. QED BY <1>3, <1>4

LEMMA WatchedStep ==
  Control /\ Indexed /\ Watched /\ [IndexedNext]_allVars => Control' /\ Indexed' /\ Watched'
<1> SUFFICES ASSUME Control, Indexed, Watched, [IndexedNext]_allVars
             PROVE  Control' /\ Indexed' /\ Watched'
  OBVIOUS
<1>1. Control' /\ Indexed'
  BY IndexedStep
<1>2. ASSUME NEW q \in Requests
      PROVE  WriteWatched(q)' /\ RescanWatched(q)' /\ EditWatched(q)'
  BY <1>1, WriteWatchStep, RescanWatchStep, EditWatchStep DEF Watched
<1>3. QED BY <1>1, <1>2 DEF Watched

LEMMA WatchedInitially == IndexedInit => Watched
BY DEF IndexedInit, Init, Watched, WriteWatched, RescanWatched, EditWatched, Honored, Wrote

-----------------------------------------------------------------------------
(* The answer is taken from a walk its request has watched. *)

LEMMA WriteAnswered ==
  ASSUME Control, Indexed, Watched, OwnWriteShows, [IndexedNext]_allVars
  PROVE  OwnWriteShows'
<1> SUFFICES ASSUME NEW q \in Requests, pc'[q] = "done", Wrote(q)', folder(q)' \notin late'
             PROVE  reply'[q][folder(q)'] \in held'[q][folder(q)']
  BY DEF OwnWriteShows, folder
<1>t. /\ TypeOK /\ BuildsPlaced /\ CallsPlaced /\ GenerationsPast
      /\ IndexTyped /\ WalksPlaced /\ AllRead
  BY DEF Control, Indexed
<1>1. op' = op /\ (RequestKept(q) \/ (Acts(q) /\ pc[q] \notin Over))
  BY <1>t, RequestStep
<1> DEFINE f == folder(q)
<1>2. folder(q)' = f /\ f \in Folders
  BY <1>t, <1>1, OpsAssumption DEF folder, TypeOK
<1>3. f \notin late
  BY <1>t, <1>2, DiskStep
<1>4. CASE RequestKept(q)
  <2>1. pc[q] = "done" /\ Wrote(q) /\ reply'[q] = reply[q]
    BY <1>4 DEF RequestKept, Wrote
  <2>2. held'[q][f] = held[q][f]
    BY <1>t, <1>2, <2>1, HeldStep DEF Over
  <2>3. QED BY <1>2, <1>3, <2>1, <2>2 DEF OwnWriteShows
<1>5. CASE Acts(q) /\ pc[q] \notin Over
  <2>1. \/ Load(q) \/ EnterCoalescer(q) \/ EditSlot(q) \/ Resume(q) \/ ChangeOutside(q)
    BY <1>t, <1>5
    DEF Acts, BeginRescan, StartRescan, StartMutation, MarkerIo, WriteMarker, DeleteMarker,
        IoWithoutEffect, Bump, BeginBuild, Register, Join, Invalidate, ClearRoot, vars, Goto,
        TypeOK, Over
  <2>2. io' = io
    BY <2>1
    DEF Load, EnterCoalescer, Acquire, EditSlot, EditMark, SpliceSection, EditFresh, Resume,
        ChangeOutside, OutsideChange
  <2>3. Wrote(q)
    BY <2>2 DEF Wrote
  <2>4. pc[q] \notin {"idle", "load", "io"}
    BY <1>t, <2>3 DEF CallsPlaced
  <2>5. held[q][f] \subseteq held'[q][f]
    BY <1>t, <1>2, <1>5, <2>4, HeldStep
  <2>6. PICK m \in Nat : Since(f, held[q][f], After(q), q \notin dirty, m)
    BY <1>3, <1>5, <2>3 DEF Watched, WriteWatched
  <2>7. ASSUME NEW w \in After(q), scan[w][f] # "unvisited", reply'[q][f] = scan[w][f]
        PROVE  reply'[q][f] \in held'[q][f]
    BY <2>5, <2>6, <2>7 DEF Since
  <2>8. ~Load(q) /\ ~ChangeOutside(q)
    BY <2>4 DEF Load, ChangeOutside, OutsideChange
  <2>9. CASE EnterCoalescer(q)
    <3>1. pc[q] = "lock" /\ Rechecks(q)
      BY <1>t, <2>9 DEF EnterCoalescer, Acquire, Goto, TypeOK
    <3>2. QED BY <1>t, <2>3, <3>1 DEF Rechecks, CallsPlaced
  <2>10. CASE EditSlot(q) /\ EditMark(q)
    <3>1. pc[q] = "edit" /\ fresh /\ reply' = [reply EXCEPT ![q] = WithMark(entry, f)]
      BY <1>t, <2>10 DEF EditMark, EditFresh, Answer, Goto, TypeOK
    <3>2. reply'[q][f] = "marked"
      BY <1>t, <1>2, <3>1 DEF WithMark, TypeOK, Views, AllRead
    <3>3. QED BY <1>2, <2>5, <3>1, <3>2 DEF Watched, EditWatched
  <2>11. CASE EditSlot(q) /\ SpliceSection(q)
    <3>1. /\ pc[q] = "section" /\ SectionWalked(q)
          /\ reply' = [reply EXCEPT ![q] = Spliced(entry, scan[q], f)]
      BY <1>t, <2>11 DEF SpliceSection, EditFresh, Answer, Goto, TypeOK
    <3>2. f \in Siblings(f)
      BY <1>2 DEF Siblings
    <3>3. reply'[q][f] = scan[q][f] /\ scan[q][f] # "unvisited"
      BY <1>t, <1>2, <3>1, <3>2 DEF Spliced, SectionWalked, TypeOK
    <3>4. q \in After(q)
      BY <3>1 DEF After
    <3>5. QED BY <1>2, <2>7, <3>3, <3>4
  <2>12. CASE Resume(q)
    <3>1. PICK w \in Requests : w = target[q]
      BY <1>t DEF TypeOK
    <3>2. pc[q] = "await" /\ build[w] = "finished" /\ reply'[q] = scan[w]
      BY <1>t, <2>12, <3>1 DEF Resume, Answer, TypeOK
    <3>3. minGen[q] > 0 /\ reg[w] >= minGen[q]
      BY <1>t, <2>3, <3>1, <3>2 DEF CallsPlaced, GenerationsPast, TypeOK
    <3>4. w \in After(q) /\ scan[w][f] # "unvisited"
      BY <1>t, <1>2, <3>2, <3>3 DEF After, BuildsPlaced, Walked
    <3>5. QED BY <1>2, <2>7, <3>2, <3>4
  <2>13. QED BY <2>1, <2>8, <2>9, <2>10, <2>11, <2>12 DEF EditSlot
<1>6. QED BY <1>1, <1>4, <1>5

LEMMA RescanAnswered ==
  ASSUME Control, Indexed, Watched, RescanSeesHiddenChanges, [IndexedNext]_allVars
  PROVE  RescanSeesHiddenChanges'
<1> SUFFICES ASSUME NEW q \in Requests, pc'[q] = "done", op'[q].kind = "rescan",
                    q \in spawned', target'[q] = q, NEW f \in Folders \ late'
             PROVE  reply'[q][f] \in held'[q][f]
  BY DEF RescanSeesHiddenChanges
<1>t. /\ TypeOK /\ BuildsPlaced /\ CallsPlaced
      /\ IndexTyped /\ WalksPlaced /\ AllRead
  BY DEF Control, Indexed
<1>1. op' = op /\ (RequestKept(q) \/ (Acts(q) /\ pc[q] \notin Over))
  BY <1>t, RequestStep
<1>2. f \notin late
  BY <1>t, DiskStep
<1>3. CASE RequestKept(q)
  <2>1. pc[q] = "done" /\ reply'[q] = reply[q] /\ q \in spawned /\ target[q] = q
    BY <1>3 DEF RequestKept
  <2>2. held'[q][f] = held[q][f]
    BY <1>t, <2>1, HeldStep DEF Over
  <2>3. QED BY <1>1, <1>2, <2>1, <2>2 DEF RescanSeesHiddenChanges
<1>4. CASE Acts(q) /\ pc[q] \notin Over
  <2>1. \/ Load(q) \/ EnterCoalescer(q) \/ EditSlot(q) \/ Resume(q) \/ ChangeOutside(q)
    BY <1>t, <1>4
    DEF Acts, BeginRescan, StartRescan, StartMutation, MarkerIo, WriteMarker, DeleteMarker,
        IoWithoutEffect, Bump, BeginBuild, Register, Join, Invalidate, ClearRoot, vars, Goto,
        TypeOK, Over
  <2>2. ~Load(q) /\ ~EditSlot(q) /\ ~ChangeOutside(q)
    BY <1>t, <1>1
    DEF Load, EditSlot, EditMark, SpliceSection, ChangeOutside, OutsideChange, CallsPlaced,
        WalksPlaced
  <2>3. ~EnterCoalescer(q)
    BY <1>t, <1>1 DEF EnterCoalescer, Acquire, Rechecks, Goto, TypeOK
  <2>4. Resume(q)
    BY <2>1, <2>2, <2>3
  <2>5. /\ pc[q] = "await" /\ target[q] = q /\ build[q] = "finished" /\ q \in spawned
        /\ reply'[q] = scan[q]
    BY <1>t, <2>4 DEF Resume, Answer, TypeOK
  <2>6. PICK m \in Nat : Since(f, held[q][f], {w \in {q} : build[w] # "none"},
                               RootOf[f] \notin toClear[q], m)
    BY <1>1, <1>2, <1>4, <2>5 DEF Watched, RescanWatched, Honored
  <2>7. scan[q][f] \in held[q][f]
    BY <1>t, <2>5, <2>6 DEF Since, BuildsPlaced, Walked
  <2>8. held[q][f] \subseteq held'[q][f]
    BY <1>t, <2>5, HeldStep DEF Over
  <2>9. QED BY <2>5, <2>7, <2>8
<1>5. QED BY <1>1, <1>3, <1>4

(* Reading through the index leaves every call, build and generation where the
   store alone would have them. *)
THEOREM ControlHoldsThroughIndex == IndexedSpec => []Control
<1>1. IndexedInit => Control /\ Indexed
  BY IndexedInitially
<1>2. QED
  BY <1>1, IndexedStep, PTL DEF IndexedSpec

(* An answer shows its own write also where the clock hides the write from the
   index, unless a listing from before it was then on its way there: the
   invalidation makes up for the mtime. *)
THEOREM WritesShowThroughIndex == IndexedSpec => []OwnWriteShows
<1>1. IndexedInit => Control /\ Indexed /\ Watched /\ OwnWriteShows
  <2>1. IndexedInit => OwnWriteShows
    BY DEF IndexedInit, Init, OwnWriteShows
  <2>2. QED BY <2>1, IndexedInitially, WatchedInitially
<1>2. Control /\ Indexed /\ Watched /\ OwnWriteShows /\ [IndexedNext]_allVars
        => Control' /\ Indexed' /\ Watched' /\ OwnWriteShows'
  BY WatchedStep, WriteAnswered
<1>3. QED
  BY <1>1, <1>2, PTL DEF IndexedSpec

(* An honored rescan that walks shows no folder as it was before the click, not
   even a change the clock hides from the index: it has cleared the index. *)
THEOREM RescansSeeHiddenChanges == IndexedSpec => []RescanSeesHiddenChanges
<1>1. IndexedInit => Control /\ Indexed /\ Watched /\ RescanSeesHiddenChanges
  <2>1. IndexedInit => RescanSeesHiddenChanges
    BY DEF IndexedInit, Init, RescanSeesHiddenChanges
  <2>2. QED BY <2>1, IndexedInitially, WatchedInitially
<1>2. Control /\ Indexed /\ Watched /\ RescanSeesHiddenChanges /\ [IndexedNext]_allVars
        => Control' /\ Indexed' /\ Watched' /\ RescanSeesHiddenChanges'
  BY WatchedStep, RescanAnswered
<1>3. QED
  BY <1>1, <1>2, PTL DEF IndexedSpec

-----------------------------------------------------------------------------
(* Between two mutations nothing is on its way to the slot from before them. *)

SettledThroughIndex ==
  ~tangled => OneAtATime /\ \A f \in Folders \ late : Agree(f) /\ IndexSettled(f)

(* While nobody else writes, a folder changes by the marker IO of a request. *)
LEMMA OnlyMarkersChange ==
  ASSUME TypeOK, IndexTyped, [IndexedNext]_allVars, ~tangled', NEW f \in Folders,
         disk'[f] # disk[f] \/ mtime'[f] # mtime[f]
  PROVE  \E r \in Requests : MarkerIo(r) /\ folder(r) = f /\ io'[r] = "applied"
<1> DEFINE Goal == \E r \in Requests : MarkerIo(r) /\ folder(r) = f /\ io'[r] = "applied"
<1> SUFFICES Goal
  OBVIOUS
<1> USE DEF indexVars, walks, builds, slot, coalescer, history
<1>1. ASSUME UNCHANGED <<disk, mtime>> PROVE Goal
  BY <1>1
<1>2. ASSUME NEW r \in Requests,
             Beside(r) \/ Invalidate(r) \/ EditSlot(r) \/ BeginRescan(r) \/ EnterCoalescer(r)
               \/ BeginBuild(r) \/ EndBuild(r) \/ \E root \in Roots : ClearRoot(r, root)
      PROVE  Goal
  BY <1>1, <1>2
  DEF Beside, StartRead, StartMutation, DropHandler, Load, Bump, Join, Resume, Invalidate,
      EditSlot, EditMark, SpliceSection, EditFresh, BeginRescan, StartRescan, EnterCoalescer,
      Acquire, BeginBuild, Register, EndBuild, StoreBuild, ClearRoot, vars
<1>3. ASSUME NEW r \in Requests, MarkerIo(r) PROVE Goal
  <2>1. UNCHANGED disk \/ (io'[r] = "applied" /\ \E v : disk' = [disk EXCEPT ![folder(r)] = v])
    BY <1>3 DEF MarkerIo, WriteMarker, DeleteMarker, IoWithoutEffect, SetMarker, TypeOK
  <2>2. CASE disk'[folder(r)] = disk[folder(r)]
    <3>1. disk'[f] = disk[f] /\ mtime' = mtime
      BY <1>3, <2>1, <2>2 DEF MarkerIo, Stamped, TypeOK
    <3>2. QED BY <3>1
  <2>3. CASE disk'[folder(r)] # disk[folder(r)]
    <3>1. f # folder(r) => disk'[f] = disk[f] /\ mtime'[f] = mtime[f]
      BY <1>3, <2>1, <2>3 DEF MarkerIo, Stamped, TypeOK, IndexTyped
    <3>2. QED BY <1>3, <2>1, <2>3, <3>1
  <2>4. QED BY <2>2, <2>3
<1>4. ASSUME NEW r \in Requests, ChangeOutside(r) PROVE Goal
  BY <1>4 DEF ChangeOutside, OutsideChange
<1>5. ASSUME NEW w \in Requests, NEW g \in Folders, WalkStep(w, g) PROVE Goal
  BY <1>1, <1>5 DEF WalkStep, Stat, Reuse, Miss, List, Insert, Reads, vars
<1>6. CASE (Expire \/ CoolDown \/ AllServed) /\ UNCHANGED indexVars
  BY <1>1, <1>6 DEF Expire, CoolDown, AllServed, vars
<1>7. CASE UNCHANGED allVars
  BY <1>1, <1>7 DEF allVars, vars
<1> HIDE DEF Goal
<1>8. QED
  BY <1>2, <1>3, <1>4, <1>5, <1>6, <1>7, Zenon DEF IndexedNext

(* A request's edit, or its bump, moves the generation. *)
LEMMA ExposedKept ==
  ASSUME TypeOK, IndexTyped, [IndexedNext]_allVars, gen' = gen, NEW f \in Folders, Exposed(f)
  PROVE  Exposed(f)'
<1>1. PICK q \in Requests : Wrote(q) /\ folder(q) = f /\ pc[q] \in {"edit", "section", "bump"}
  BY DEF Exposed
<1>2. CASE [Next]_vars
  <2>1. op' = op
    BY <1>2
    DEF Next, Server, Environment, Arrival, StartRead, StartRescan, StartMutation, Load,
        WriteMarker, DeleteMarker, EditMark, SpliceSection, EditFresh, Bump, Acquire, Join,
        Register, VisitFolder, FailRoot, StoreBuild, Resume, DropHandler, OutsideChange,
        Expire, CoolDown, AllServed, vars
  <2>2. pc'[q] \in {"edit", "section", "bump"} /\ io'[q] = io[q]
    BY <1>1, <1>2
    DEF Next, Server, Environment, Arrival, StartRead, StartRescan, StartMutation, Load,
        WriteMarker, DeleteMarker, EditMark, SpliceSection, EditFresh, Bump, Acquire, Join,
        Register, VisitFolder, FailRoot, StoreBuild, Resume, DropHandler, OutsideChange,
        Expire, CoolDown, AllServed, vars, Goto, Answer, IoWithoutEffect, PutEntry, TypeOK
  <2>3. QED BY <1>1, <2>1, <2>2 DEF Exposed, Wrote, folder
<1>3. ASSUME NEW w \in Requests, NEW g \in Folders, NEW v \in OnDisk, Reads(w, g, v)
      PROVE  Exposed(f)'
  BY <1>1, <1>3 DEF Reads, Exposed, Wrote, folder
<1>4. QED BY <1>2, <1>3, StoreOrRead

(* What a walk takes from the index, or the disk, agrees with the disk. *)
LEMMA AgreeThroughIndex ==
  ASSUME Control, Indexed, [IndexedNext]_allVars, ~tangled', OneAtATime,
         NEW f \in Folders, Agree(f), IndexSettled(f)
  PROVE  Agree(f)'
<1>t. TypeOK /\ CallsPlaced /\ IndexTyped /\ WalksPlaced
  BY DEF Control, Indexed
<1>1. CASE [Next]_vars
  BY <1>1, AgreeStep
<1>2. ASSUME NEW w \in Requests, NEW g \in Folders, NEW v, Reads(w, g, v),
             g = f /\ build[w] = "running" /\ reg[w] = gen => v = disk[f] \/ Exposed(f),
             g = f /\ pc[w] = "section" => v = disk[f]
      PROVE  Agree(f)'
  <2>1. /\ UNCHANGED <<disk, entry, gen, op, pc, io, minGen, build, reg>>
        /\ scan' = [scan EXCEPT ![w][g] = v]
    BY <1>2 DEF Reads, slot
  <2>2. Exposed(f)' = Exposed(f) /\ Late(f)' = Late(f)
    BY <2>1 DEF Exposed, Late, Wrote, folder
  <2>3. \A b \in Requests : \/ scan'[b][f] = scan[b][f]
                            \/ b = w /\ g = f /\ scan'[b][f] = v
    BY <1>t, <2>1 DEF TypeOK
  <2>4. WalksAgree(f)'
    BY <1>2, <2>1, <2>2, <2>3 DEF Agree, WalksAgree
  <2>5. SectionAgrees(f)'
    BY <1>2, <2>1, <2>3 DEF Agree, SectionAgrees
  <2>6. SlotAgrees(f)'
    BY <2>1, <2>2 DEF Agree, SlotAgrees
  <2>7. EditIsOnDisk(f)'
    BY <2>1 DEF Agree, EditIsOnDisk, folder
  <2>8. QED BY <2>4, <2>5, <2>6, <2>7 DEF Agree
<1>3. ASSUME NEW w \in Requests, NEW g \in Folders, List(w, g) PROVE Agree(f)'
  BY <1>2, <1>3 DEF List
<1>4. ASSUME NEW w \in Requests, NEW g \in Folders, Reuse(w, g) PROVE Agree(f)'
  <2>1. PICK e \in index[g] : /\ stage[w][g] = "stated" /\ e.mtime = stat[w][g]
                              /\ Reads(w, g, e.listing)
    BY <1>4 DEF Reuse, Hits
  <2>2. ASSUME NEW r \in dirty, folder(r) = f
        PROVE  Exposed(f) /\ (g = f => pc[w] # "section")
    <3>1. r \in Requests /\ pc[r] \in {"edit", "section"} /\ Wrote(r)
      BY <1>t, <2>2 DEF IndexTyped, WalksPlaced, CallsPlaced
    <3>2. r = w => stage[w][g] = "ahead"
      BY <1>t, <2>2 DEF WalksPlaced
    <3>3. r # w => pc[w] # "section"
      BY <3>1, OneWriter
    <3>4. QED BY <2>1, <2>2, <3>1, <3>2, <3>3 DEF Exposed
  <2>3. g = f /\ build[w] = "running" /\ reg[w] = gen => e.listing = disk[f] \/ Exposed(f)
    BY <2>1, <2>2 DEF IndexSettled
  <2>4. g = f /\ pc[w] = "section" => e.listing = disk[f]
    BY <2>1, <2>2 DEF IndexSettled
  <2>5. QED BY <1>2, <2>1, <2>3, <2>4
<1>5. QED BY <1>1, <1>3, <1>4, <1>t, StoreOrWalk

LEMMA IndexSettledStep ==
  ASSUME Control, Indexed, [IndexedNext]_allVars, Control', Indexed', ~tangled', OneAtATime,
         NEW f \in Folders, f \notin late', IndexSettled(f)
  PROVE  IndexSettled(f)'
<1>t. /\ TypeOK /\ BuildsPlaced /\ CallsPlaced /\ GenerationsPast
      /\ IndexTyped /\ WalksPlaced /\ StampsPast /\ ListingsTell
      /\ TypeOK' /\ IndexTyped' /\ WalksPlaced'
  BY DEF Control, Indexed
<1>1. f \notin late /\ op' = op
  BY <1>t, DiskStep, RequestStep DEF TypeOK
<1>2. \A r \in Requests : folder(r)' = folder(r)
  BY <1>1 DEF folder
(* A marker IO at f: its request has its invalidation and its edit to come. *)
<1>3. ASSUME disk'[f] # disk[f] \/ mtime'[f] # mtime[f]
      PROVE  \E r \in Requests : /\ r \in dirty' /\ folder(r) = f /\ pc[r] = "io"
                                 /\ Exposed(f)'
  <2>1. PICK r \in Requests : MarkerIo(r) /\ folder(r) = f /\ io'[r] = "applied"
    BY <1>t, <1>3, OnlyMarkersChange
  <2>2. r \in dirty' /\ pc[r] = "io"
    BY <2>1 DEF MarkerIo, WriteMarker, DeleteMarker
  <2>3. pc'[r] \in {"edit", "section"} /\ Wrote(r)'
    BY <1>t, <2>1, <2>2 DEF WalksPlaced, Wrote
  <2>4. QED BY <1>2, <2>1, <2>2, <2>3 DEF Exposed
<1>4. ASSUME NEW r \in dirty, folder(r) = f, index'[f] # {} PROVE r \in dirty'
  <2>1. r \in Requests
    BY <1>t, <1>4 DEF IndexTyped
  <2>2. CASE RequestKept(r)
    BY <1>4, <2>2 DEF RequestKept
  <2>3. CASE Invalidate(r)
    BY <1>t, <1>4, <2>3 DEF Invalidate, IndexTyped
  <2>4. CASE Acts(r) /\ ~Invalidate(r)
    BY <1>4, <2>4
    DEF Acts, indexVars, BeginRescan, MarkerIo, BeginBuild, EnterCoalescer, EditSlot,
        ChangeOutside, ClearRoot
  <2>5. QED BY <1>t, <2>1, <2>2, <2>3, <2>4, RequestStep
<1>5. ASSUME NEW e \in index'[f], e.mtime = mtime'[f]
      PROVE  e.listing = disk'[f] \/ \E r \in dirty' : folder(r)' = f
  <2>1. ASSUME e \in index[f], e.mtime = mtime[f]
        PROVE  e.listing = disk'[f] \/ \E r \in dirty' : folder(r)' = f
    <3>1. CASE disk'[f] # disk[f]
      BY <1>2, <1>3, <3>1
    <3>2. CASE disk'[f] = disk[f] /\ e.listing = disk[f]
      BY <3>2
    <3>3. ASSUME NEW r \in dirty, folder(r) = f PROVE \E q \in dirty' : folder(q)' = f
      <4>1. r \in dirty' /\ r \in Requests
        BY <1>t, <1>4, <1>5, <3>3 DEF IndexTyped
      <4>2. QED BY <1>2, <3>3, <4>1
    <3>4. QED BY <2>1, <3>1, <3>2, <3>3 DEF IndexSettled
  <2>2. CASE Apart(f)
    <3>1. e \in index[f] /\ mtime[f] <= mtime'[f]
      BY <1>5, <2>2 DEF Apart
    <3>2. e.mtime <= mtime[f] /\ e.mtime \in Nat /\ mtime[f] \in Nat /\ mtime'[f] \in Nat
      BY <1>t, <3>1 DEF StampsPast, IndexTyped
    <3>3. e.mtime = mtime[f]
      BY <1>5, <3>1, <3>2
    <3>4. QED BY <2>1, <3>1, <3>3
  <2>3. ASSUME NEW w \in Requests, WalkStep(w, f)
        PROVE  e.listing = disk'[f] \/ \E r \in dirty' : folder(r)' = f
    <3>1. disk' = disk /\ mtime' = mtime
      BY <1>t, <2>3, WalkChanges
    <3>2. CASE e \in index[f]
      BY <1>5, <2>1, <3>1, <3>2
    <3>3. CASE e \notin index[f]
      <4>1. stage[w][f] = "listed" /\ e = [mtime |-> stat[w][f], listing |-> scan[w][f]]
        BY <1>t, <1>5, <2>3, <3>3, WalkChanges
      <4>2. e.listing = scan[w][f] /\ stat[w][f] = mtime[f]
        BY <1>5, <3>1, <4>1
      <4>3. scan[w][f] = disk[f]
        BY <1>t, <1>1, <4>1, <4>2 DEF ListingsTell, IndexTyped
      <4>4. QED BY <3>1, <4>2, <4>3
    <3>4. QED BY <3>2, <3>3
  <2>4. QED BY <1>t, <2>2, <2>3, FolderStep
<1>6. ASSUME NEW b \in Requests, build'[b] = "running", reg'[b] = gen', stage'[b][f] = "stated"
      PROVE  stat'[b][f] = mtime'[f] \/ Exposed(f)'
  <2>1. ~BeginBuild(b)
    BY <1>t, <1>6 DEF BeginBuild, IndexTyped
  <2>2. reg'[b] = reg[b] /\ build[b] = "running" /\ gen' = gen
    <3>1. reg'[b] = reg[b] /\ build[b] # "none"
      BY <1>t, <1>6, <2>1, WalkerKept
    <3>2. build[b] = "running"
      BY <1>t, <1>6, <3>1, StoreSteps DEF TypeOK
    <3>3. reg[b] <= gen /\ gen <= gen' /\ reg[b] \in Nat /\ gen \in Nat /\ gen' \in Nat
      BY <1>t, StoreSteps DEF GenerationsPast, TypeOK
    <3>4. QED BY <1>6, <3>1, <3>2, <3>3
  <2>3. ASSUME stage[b][f] = "stated", stat'[b][f] = stat[b][f]
        PROVE  stat'[b][f] = mtime'[f] \/ Exposed(f)'
    <3>1. CASE mtime'[f] # mtime[f]
      BY <1>3, <3>1
    <3>2. CASE mtime'[f] = mtime[f] /\ stat[b][f] = mtime[f]
      BY <2>3, <3>2
    <3>3. CASE Exposed(f)
      BY <1>t, <2>2, <3>3, ExposedKept
    <3>4. QED BY <1>6, <2>2, <2>3, <3>1, <3>2, <3>3 DEF IndexSettled
  <2>4. CASE Apart(f)
    BY <1>6, <2>3, <2>4 DEF Apart
  <2>5. ASSUME NEW w \in Requests, WalkStep(w, f)
        PROVE  stat'[b][f] = mtime'[f] \/ Exposed(f)'
    BY <1>t, <1>6, <2>3, <2>5, WalkChanges
  <2>6. QED BY <1>t, <2>4, <2>5, FolderStep
<1>7. ASSUME NEW r \in Requests, pc'[r] = "section", stage'[r][f] = "stated"
      PROVE  stat'[r][f] = mtime'[f]
  <2>1. ASSUME stage[r][f] = "stated", stat'[r][f] = stat[r][f]
        PROVE  stat'[r][f] = mtime'[f]
    <3>1. pc[r] # "io"
      BY <1>t, <2>1 DEF WalksPlaced
    <3>2. pc[r] = "section"
      BY <1>t, <1>7, <3>1, StoreSteps
    <3>3. mtime'[f] = mtime[f]
      BY <1>3, <3>2, OneWriter
    <3>4. QED BY <2>1, <3>2, <3>3 DEF IndexSettled
  <2>2. CASE Apart(f)
    BY <1>7, <2>1, <2>2 DEF Apart
  <2>3. ASSUME NEW w \in Requests, WalkStep(w, f) PROVE stat'[r][f] = mtime'[f]
    BY <1>t, <1>7, <2>1, <2>3, WalkChanges
  <2>4. QED BY <1>t, <2>2, <2>3, FolderStep
<1>8. QED BY <1>5, <1>6, <1>7 DEF IndexSettled

LEMMA SettledThroughStep ==
  ASSUME Control, Indexed, SettledThroughIndex, [IndexedNext]_allVars
  PROVE  SettledThroughIndex'
<1> SUFFICES ASSUME ~tangled'
             PROVE  OneAtATime' /\ \A f \in Folders \ late' : Agree(f)' /\ IndexSettled(f)'
  BY DEF SettledThroughIndex
<1>1. Control' /\ Indexed' /\ TypeOK /\ IndexTyped
  BY IndexedStep DEF Control, Indexed
<1>2. ~tangled
  <2>1. CASE [Next]_vars
    BY <2>1
    DEF Next, Server, Environment, Arrival, StartRead, StartRescan, StartMutation, Load,
        WriteMarker, DeleteMarker, EditMark, SpliceSection, EditFresh, Bump, Acquire, Join,
        Register, VisitFolder, FailRoot, StoreBuild, Resume, DropHandler, OutsideChange,
        Expire, CoolDown, AllServed, vars, history
  <2>2. QED BY <1>1, <2>1, StoreOrRead DEF Reads, history
<1>3. OneAtATime
  BY <1>2 DEF SettledThroughIndex
<1>4. OneAtATime'
  <2>1. CASE [Next]_vars
    BY <1>3, <2>1, OneStep
  <2>2. ASSUME NEW w \in Requests, NEW g \in Folders, NEW v \in OnDisk, Reads(w, g, v)
        PROVE  OneAtATime'
    BY <1>3, <2>2 DEF Reads, OneAtATime, Mutating, Mutations
  <2>3. QED BY <1>1, <2>1, <2>2, StoreOrRead
<1>5. ASSUME NEW f \in Folders \ late' PROVE Agree(f)' /\ IndexSettled(f)'
  <2>1. f \notin late
    BY <1>1, DiskStep
  <2>2. Agree(f) /\ IndexSettled(f)
    BY <1>2, <2>1 DEF SettledThroughIndex
  <2>3. Agree(f)'
    BY <1>3, <2>2, AgreeThroughIndex
  <2>4. IndexSettled(f)'
    BY <1>1, <1>3, <2>2, IndexSettledStep
  <2>5. QED BY <2>3, <2>4
<1>6. QED BY <1>4, <1>5

(* While mutations come one at a time and nobody else writes, the slot shows
   between them what is on disk: no build stores what the index had from before
   a mutation, whatever the clock can tell apart. *)
THEOREM SlotSettlesThroughIndex == IndexedSpec => []SlotSettles
<1>1. IndexedInit => Control /\ Indexed /\ SettledThroughIndex
  <2> SUFFICES ASSUME IndexedInit PROVE Control /\ Indexed /\ SettledThroughIndex
    OBVIOUS
  <2>1. Settles /\ ~tangled
    BY SettlesInit DEF IndexedInit, Init
  <2>2. \A f \in Folders : IndexSettled(f)
    BY DEF IndexedInit, Init, IndexSettled
  <2>3. QED BY <2>1, <2>2, IndexedInitially DEF Settles, SettledThroughIndex
<1>2. Control /\ Indexed /\ SettledThroughIndex /\ [IndexedNext]_allVars
        => Control' /\ Indexed' /\ SettledThroughIndex'
  BY IndexedStep, SettledThroughStep
<1>3. Control /\ SettledThroughIndex => SlotSettles
  <2> SUFFICES ASSUME Control, SettledThroughIndex, ~tangled, Mutating = {},
                      NEW f \in Folders \ late
               PROVE  entry[f] \in {disk[f], "unread"}
    BY DEF SlotSettles
  <2>1. ~Late(f)
    BY DEF Control, CallsPlaced, Late, Exposed, Mutating, Over
  <2>2. QED BY <2>1 DEF SettledThroughIndex, Agree, SlotAgrees
<1>4. QED
  BY <1>1, <1>2, <1>3, PTL DEF IndexedSpec

-----------------------------------------------------------------------------
(* With a clock that tells changes apart no folder is late, so an answer shows
   its write for every folder, which is all the store's refinement asks. *)

LEMMA ServiceThroughIndex ==
  ASSUME Control, Indexed, OutsidersPlaced, [IndexedNext]_allVars,
         Control', Indexed', OwnWriteShows'
  PROVE  OutsidersPlaced' /\ [coarse \/ Service!Next]_(Service!vars)
<1>t. TypeOK /\ IndexTyped /\ TypeOK' /\ IndexTyped'
  BY DEF Control, Indexed
<1>1. CASE [Next]_vars
  <2>1. OutsidersPlaced'
    BY <1>1, OutsidersStep
  <2>2. CASE coarse
    BY <2>1, <2>2
  <2>3. CASE ~coarse
    <3>1. ~coarse'
      BY <1>t, <2>3, DiskStep
    <3>2. OwnWriteVisible'
      BY <1>t, <3>1 DEF IndexTyped, OwnWriteShows, OwnWriteVisible
    <3>3. [Service!Next]_(Service!vars)
      BY <1>1, <1>t, <3>2, ServiceStep
    <3>4. QED BY <2>1, <3>3
  <2>4. QED BY <2>2, <2>3
<1>2. ASSUME NEW w \in Requests, NEW f \in Folders, NEW v \in OnDisk, Reads(w, f, v)
      PROVE  OutsidersPlaced' /\ [coarse \/ Service!Next]_(Service!vars)
  <2>1. UNCHANGED <<disk, op, held, reply, pc, io>>
    BY <1>2 DEF Reads, history
  <2>2. OutsidersPlaced'
    BY <2>1 DEF OutsidersPlaced
  <2>3. UNCHANGED Service!vars
    BY <2>1, ServiceStutters DEF Wrote, ServicePhase
  <2>4. QED BY <2>2, <2>3
<1>3. QED BY <1>1, <1>2, <1>t, StoreOrRead

(* The refinement: with a clock that tells changes apart, the store that reads
   through the directory index serves marks, undos, reads and rescans as
   MarkerService asks, as the store that reads the disk does. *)
THEOREM IndexedImplementsService == IndexedSpec => ServesThroughIndex
<1>1. IndexedInit => /\ Control /\ Indexed /\ Watched /\ OwnWriteShows /\ OutsidersPlaced
                     /\ Service!Init
  <2>1. IndexedInit => OwnWriteShows
    BY DEF IndexedInit, Init, OwnWriteShows
  <2>2. IndexedInit => OutsidersPlaced /\ Service!Init
    BY OutsidersInit, ServiceInit DEF IndexedInit
  <2>3. QED BY <2>1, <2>2, IndexedInitially, WatchedInitially
<1>2. Control /\ Indexed /\ Watched /\ OwnWriteShows /\ OutsidersPlaced /\ [IndexedNext]_allVars
        => /\ Control' /\ Indexed' /\ Watched' /\ OwnWriteShows' /\ OutsidersPlaced'
           /\ [coarse \/ Service!Next]_(Service!vars)
  BY WatchedStep, WriteAnswered, ServiceThroughIndex
<1>3. QED
  BY <1>1, <1>2, PTL DEF IndexedSpec, ServesThroughIndex
=============================================================================
