---------------------------- MODULE RawViewStore ----------------------------
(***************************************************************************)
(* The scan cache of src/state.rs: RawViewStore and its StoreInner.        *)
(*                                                                         *)
(* One slot holds the raw view of every library root.  Requests read it,   *)
(* force a rescan, write a marker file or undo one; builds walk the        *)
(* library beside them and publish what they saw unless the slot's         *)
(* generation moved meanwhile.  A step here is what runs between two       *)
(* points at which another task can observe or change shared state.        *)
(*                                                                         *)
(* A view says of each folder whether it is shown with its marker          *)
(* ("marked"), without ("bare"), or not at all because the walk of its     *)
(* root failed ("unread").  A walk reads the disk itself: that the         *)
(* directory index in between does not show is module DirIndex's subject.  *)
(***************************************************************************)
EXTENDS Naturals, FiniteSets

CONSTANTS
  Roots,          \* the configured library roots
  Folders,        \* the folders a marker can be written to
  RootOf,         \* the root each folder lies under
  Requests,       \* one identity per call made to the store
  Ops,            \* the calls the requests choose from
  WriteCanFail,   \* marker IO may fail
  WalkCanFail,    \* the walk of a root may fail
  NoRequest       \* not a request: no lock holder, no build in flight

Kinds == {"read", "rescan", "mark", "unmark", "outside"}

ASSUME RootOfAssumption == RootOf \in [Folders -> Roots]
ASSUME OpsAssumption == Ops \subseteq [kind : Kinds, folder : Folders]
ASSUME NoRequestAssumption == NoRequest \notin Requests
ASSUME FlagsAssumption == {WriteCanFail, WalkCanFail} \subseteq BOOLEAN

OnDisk == {"marked", "bare"}
Shown == OnDisk \cup {"unread"}
Seen == Shown \cup {"unvisited"}
Views == [Folders -> Shown]

Unread == [f \in Folders |-> "unread"]        \* an empty slot shows nothing
Unvisited == [f \in Folders |-> "unvisited"]  \* a walk that has not begun

VARIABLES
  disk,       \* which folders hold a marker file
  gen,        \* Slot.generation
  entry,      \* the view in Slot.entry (Unread while the slot is empty)
  fresh,      \* the slot holds an entry younger than the TTL
  lock,       \* the request holding the inflight mutex
  inflight,   \* the build the inflight cell points at (its Weak may be dead)
  cooling,    \* last_rescan is younger than RESCAN_COOLDOWN
  op,         \* the call each request makes
  pc,         \* where each request is
  spawned,    \* requests whose work runs in a task of its own
  io,         \* how a mutation's marker IO ended
  minGen,     \* build_coalesced's min_generation (0: None)
  target,     \* the build a request awaits, named by the request that began it
  reply,      \* the view handed back
  build,      \* the state of the build task each request may start
  reg,        \* the generation that build registered at
  scan,       \* what its walk (or an undo's walk of one root) has read so far
  held,       \* history: values each folder had on disk since a request's
              \* start, or since its own marker IO
  tangled     \* history: two mutations overlapped, or the disk was changed
              \* by another program

slot == <<gen, entry, fresh>>
coalescer == <<lock, inflight>>
builds == <<build, reg, scan>>
history == <<held, tangled>>
vars == <<disk, slot, coalescer, cooling, op, pc, spawned, io, minGen, target,
          reply, builds, history>>

PcStates == {"idle", "load", "lock", "join", "await", "io", "section", "edit",
             "bump", "done", "dropped"}
Over == {"done", "dropped"}

folder(r) == op[r].folder
Mutations == {r \in Requests : op[r].kind \in {"mark", "unmark"}}
Mutating == {r \in Mutations : pc[r] \notin {"idle"} \cup Over}
Siblings(f) == {g \in Folders : RootOf[g] = RootOf[f]}

(* The Weak upgrades exactly while some caller still awaits the build. *)
Alive(b) == \E r \in Requests : pc[r] = "await" /\ target[r] = b

Rechecks(r) == op[r].kind # "rescan" /\ minGen[r] = 0
(* Mutant: join without comparing generations. *)
JoinableAnyAge(r) == inflight # NoRequest /\ Alive(inflight)
(* Mutant: only a call with no write to wait for joins. *)
JoinableUnforced(r) == inflight # NoRequest /\ Alive(inflight) /\ minGen[r] = 0
Joinable(r) == /\ inflight # NoRequest
               /\ Alive(inflight)
               /\ reg[inflight] >= minGen[r]
Wrote(r) == io[r] = "applied"
Walked(b) == \A f \in Folders : scan[b][f] # "unvisited"
SectionWalked(r) == \A f \in Siblings(folder(r)) : scan[r][f] # "unvisited"

TypeOK ==
  /\ disk \in [Folders -> OnDisk]
  /\ gen \in Nat
  /\ entry \in Views
  /\ fresh \in BOOLEAN
  /\ lock \in Requests \cup {NoRequest}
  /\ inflight \in Requests \cup {NoRequest}
  /\ cooling \in BOOLEAN
  /\ op \in [Requests -> Ops]
  /\ pc \in [Requests -> PcStates]
  /\ spawned \in SUBSET Requests
  /\ io \in [Requests -> {"none", "failed", "existing", "applied"}]
  /\ minGen \in [Requests -> Nat]
  /\ target \in [Requests -> Requests]
  /\ reply \in [Requests -> Views]
  /\ build \in [Requests -> {"none", "running", "finished"}]
  /\ reg \in [Requests -> Nat]
  /\ scan \in [Requests -> [Folders -> Seen]]
  /\ held \in [Requests -> [Folders -> SUBSET OnDisk]]
  /\ tangled \in BOOLEAN

Init ==
  /\ disk \in [Folders -> OnDisk]
  /\ gen = 0
  /\ entry = Unread
  /\ fresh = FALSE
  /\ lock = NoRequest
  /\ inflight = NoRequest
  /\ cooling = FALSE
  /\ op \in [Requests -> Ops]
  /\ pc = [r \in Requests |-> "idle"]
  /\ spawned = {}
  /\ io = [r \in Requests |-> "none"]
  /\ minGen = [r \in Requests |-> 0]
  /\ target = [r \in Requests |-> r]
  /\ reply = [r \in Requests |-> Unread]
  /\ build = [r \in Requests |-> "none"]
  /\ reg = [r \in Requests |-> 0]
  /\ scan = [r \in Requests |-> Unvisited]
  /\ held = [r \in Requests |-> [f \in Folders |-> {}]]
  /\ tangled = FALSE

-----------------------------------------------------------------------------
(* Shared pieces of the steps. *)

Goto(r, l) == pc' = [pc EXCEPT ![r] = l]

Answer(r, view) ==
  /\ reply' = [reply EXCEPT ![r] = view]
  /\ Goto(r, "done")

(* The values each folder holds from now on, as r will judge its reply. *)
WatchFrom(r, contents) ==
  held' = [held EXCEPT ![r] = [f \in Folders |-> {contents[f]}]]

(* f becomes v on disk: every request under way has seen it hold v. *)
HeldWith(f, v) ==
  [q \in Requests |->
     IF pc[q] \in {"idle"} \cup Over THEN held[q]
     ELSE [held[q] EXCEPT ![f] = @ \cup {v}]]

SetMarker(r, v) ==
  LET f == folder(r)
      now == [disk EXCEPT ![f] = v]
  IN  /\ disk' = now
      /\ held' = [HeldWith(f, v) EXCEPT ![r] = [g \in Folders |-> {now[g]}]]

(* store_if_unchanged and edit_fresh both end in a new entry and generation. *)
PutEntryInPlace(view) == entry' = view /\ UNCHANGED gen  \* mutant: same generation
PutEntry(view) ==
  /\ entry' = view
  /\ gen' = gen + 1

(* apply_mark_raw: a root that failed to walk has no folder to flip. *)
WithMark(view, f) ==
  [view EXCEPT ![f] = IF @ = "unread" THEN @ ELSE "marked"]

(* next[root] = section *)
Spliced(view, section, f) ==
  [g \in Folders |-> IF g \in Siblings(f) THEN section[g] ELSE view[g]]

-----------------------------------------------------------------------------
(* The calls. *)

StartRead(r) ==
  /\ pc[r] = "idle" /\ op[r].kind = "read"
  /\ Goto(r, "load")
  /\ WatchFrom(r, disk)
  /\ UNCHANGED <<disk, slot, coalescer, cooling, op, spawned, io, minGen,
                 target, reply, builds, tangled>>

(* Mutant: while a build is in flight, wait for the slot instead of joining. *)
LoadWaiting(r) ==
  /\ pc[r] = "load"
  /\ \/ fresh /\ Answer(r, entry)
     \/ ~fresh /\ inflight = NoRequest /\ Goto(r, "lock") /\ UNCHANGED reply
     \/ ~fresh /\ inflight # NoRequest /\ UNCHANGED <<pc, reply>>
  /\ UNCHANGED <<disk, slot, coalescer, cooling, op, spawned, io, minGen,
                 target, builds, history>>

(* StoreInner::current, the lock-free part: a fresh entry is the answer. *)
Load(r) ==
  /\ pc[r] = "load"
  /\ \/ fresh /\ Answer(r, entry)
     \/ ~fresh /\ Goto(r, "lock") /\ UNCHANGED reply
  /\ UNCHANGED <<disk, slot, coalescer, cooling, op, spawned, io, minGen,
                 target, builds, history>>

(* Honored at most once per cooldown, and then in a task of its own. *)
StartRescan(r) ==
  /\ pc[r] = "idle" /\ op[r].kind = "rescan"
  /\ cooling' = TRUE
  /\ spawned' = IF cooling THEN spawned ELSE spawned \cup {r}
  /\ Goto(r, "lock")
  /\ WatchFrom(r, disk)
  /\ UNCHANGED <<disk, slot, coalescer, op, io, minGen, target, reply, builds,
                 tangled>>

StartMutation(r) ==
  /\ pc[r] = "idle" /\ r \in Mutations
  /\ spawned' = spawned \cup {r}
  /\ Goto(r, "io")
  /\ WatchFrom(r, disk)
  /\ tangled' = (tangled \/ Mutating # {})
  /\ UNCHANGED <<disk, slot, coalescer, cooling, op, io, minGen, target, reply,
                 builds>>

(* Marker IO that failed, or a re-mark: answer with the current view. *)
IoWithoutEffect(r, outcome) ==
  /\ io' = [io EXCEPT ![r] = outcome]
  /\ Goto(r, "load")
  /\ UNCHANGED <<disk, held, scan>>

(* write_marker: create_new tells a new marker from one already there. *)
WriteMarker(r) ==
  /\ pc[r] = "io" /\ op[r].kind = "mark"
  /\ \/ WriteCanFail /\ IoWithoutEffect(r, "failed")
     \/ disk[folder(r)] = "marked" /\ IoWithoutEffect(r, "existing")
     \/ /\ disk[folder(r)] = "bare"
        /\ SetMarker(r, "marked")
        /\ io' = [io EXCEPT ![r] = "applied"]
        /\ Goto(r, "edit")
        /\ UNCHANGED scan
  /\ UNCHANGED <<slot, coalescer, cooling, op, spawned, minGen, target, reply,
                 build, reg, tangled>>

(* delete_marker is tolerant: a marker already gone is success. *)
DeleteMarker(r) ==
  /\ pc[r] = "io" /\ op[r].kind = "unmark"
  /\ \/ WriteCanFail /\ IoWithoutEffect(r, "failed")
     \/ /\ SetMarker(r, "bare")
        /\ io' = [io EXCEPT ![r] = "applied"]
        /\ Goto(r, "section")
        /\ scan' = [scan EXCEPT ![r] = Unvisited]
  /\ UNCHANGED <<slot, coalescer, cooling, op, spawned, minGen, target, reply,
                 build, reg, tangled>>

(* Clone-edit-store under the inflight lock and the slot's write lock, which
   a cold or stale slot declines. *)
EditFresh(r, view) ==
  /\ lock = NoRequest
  /\ \/ fresh /\ PutEntry(view) /\ Answer(r, view)
     \/ ~fresh /\ Goto(r, "bump") /\ UNCHANGED <<gen, entry, reply>>
  /\ UNCHANGED <<disk, fresh, coalescer, cooling, op, spawned, io, minGen,
                 target, builds, history>>

EditMark(r) ==
  /\ pc[r] = "edit"
  /\ EditFresh(r, WithMark(entry, folder(r)))

SpliceSection(r) ==
  /\ pc[r] = "section" /\ SectionWalked(r)
  /\ EditFresh(r, Spliced(entry, scan[r], folder(r)))

(* The cold path of a mutation: invalidate the builds already registered.
   The inflight lock was released when edit_fresh declined. *)
Bump(r) ==
  /\ pc[r] = "bump"
  /\ gen' = gen + 1
  /\ minGen' = [minGen EXCEPT ![r] = gen + 1]
  /\ Goto(r, "lock")
  /\ UNCHANGED <<disk, entry, fresh, coalescer, cooling, op, spawned, io,
                 target, reply, builds, history>>

-----------------------------------------------------------------------------
(* build_coalesced *)

Acquire(r) ==
  /\ pc[r] = "lock" /\ lock = NoRequest
  /\ \/ Rechecks(r) /\ fresh /\ Answer(r, entry) /\ UNCHANGED lock
     \/ ~(Rechecks(r) /\ fresh) /\ lock' = r /\ Goto(r, "join")
        /\ UNCHANGED reply
  /\ UNCHANGED <<disk, slot, inflight, cooling, op, spawned, io, minGen,
                 target, builds, history>>

Join(r) ==
  /\ pc[r] = "join" /\ Joinable(r)
  /\ target' = [target EXCEPT ![r] = inflight]
  /\ Goto(r, "await")
  /\ lock' = NoRequest
  /\ UNCHANGED <<disk, slot, inflight, cooling, op, spawned, io, minGen, reply,
                 builds, history>>

Register(r) ==
  /\ pc[r] = "join" /\ ~Joinable(r)
  /\ reg' = [reg EXCEPT ![r] = gen]
  /\ build' = [build EXCEPT ![r] = "running"]
  /\ scan' = [scan EXCEPT ![r] = Unvisited]
  /\ inflight' = r
  /\ target' = [target EXCEPT ![r] = r]
  /\ Goto(r, "await")
  /\ lock' = NoRequest
  /\ UNCHANGED <<disk, slot, cooling, op, spawned, io, minGen, reply, history>>

(* What a walk under way still has to read: a build every folder, an undo the
   folders of its own root. *)
ToVisit(w) ==
  {f \in Folders : /\ scan[w][f] = "unvisited"
                   /\ \/ build[w] = "running"
                      \/ pc[w] = "section" /\ f \in Siblings(folder(w))}

(* A directory that cannot be read is skipped. *)
VisitFolder(w) ==
  /\ \E f \in ToVisit(w), v \in Shown :
       /\ v = disk[f] \/ (v = "unread" /\ WalkCanFail)
       /\ scan' = [scan EXCEPT ![w][f] = v]
  /\ UNCHANGED <<disk, slot, coalescer, cooling, op, pc, spawned, io, minGen,
                 target, reply, build, reg, history>>

(* scan_root fails, or its blocking task panics: RootScan::Failed. *)
FailRoot(w) ==
  /\ WalkCanFail
  /\ \E f \in ToVisit(w) :
       scan' = [scan EXCEPT ![w] =
                  [g \in Folders |-> IF g \in Siblings(f) THEN "unread" ELSE @[g]]]
  /\ UNCHANGED <<disk, slot, coalescer, cooling, op, pc, spawned, io, minGen,
                 target, reply, build, reg, history>>

(* Mutants: store whatever the generation; store before the walk is done. *)
StoreBuildAnyway(b) ==
  /\ build[b] = "running" /\ Walked(b)
  /\ build' = [build EXCEPT ![b] = "finished"]
  /\ PutEntry(scan[b]) /\ fresh' = TRUE
  /\ UNCHANGED <<disk, coalescer, cooling, op, pc, spawned, io, minGen, target,
                 reply, reg, scan, history>>
StoreBuildUnwalked(b) ==
  /\ build[b] = "running"
  /\ build' = [build EXCEPT ![b] = "finished"]
  /\ \/ reg[b] = gen /\ PutEntry(scan[b]) /\ fresh' = TRUE
     \/ reg[b] # gen /\ UNCHANGED slot
  /\ UNCHANGED <<disk, coalescer, cooling, op, pc, spawned, io, minGen, target,
                 reply, reg, scan, history>>

(* The build task's end: store_if_unchanged, and the result to its awaiters. *)
StoreBuild(b) ==
  /\ build[b] = "running" /\ Walked(b)
  /\ build' = [build EXCEPT ![b] = "finished"]
  /\ \/ reg[b] = gen /\ PutEntry(scan[b]) /\ fresh' = TRUE
     \/ reg[b] # gen /\ UNCHANGED slot
  /\ UNCHANGED <<disk, coalescer, cooling, op, pc, spawned, io, minGen, target,
                 reply, reg, scan, history>>

Resume(r) ==
  /\ pc[r] = "await" /\ build[target[r]] = "finished"
  /\ Answer(r, scan[target[r]])
  /\ UNCHANGED <<disk, slot, coalescer, cooling, op, spawned, io, minGen,
                 target, builds, history>>

-----------------------------------------------------------------------------
(* The environment. *)

(* Mutant: a mutation run inside its handler, dropped with it. *)
DropAnyHandler(r) ==
  /\ pc[r] \in {"lock", "await"}
  /\ Goto(r, "dropped")
  /\ UNCHANGED <<disk, slot, coalescer, cooling, op, spawned, io, minGen,
                 target, reply, builds, history>>

(* The client is gone: a handler that spawned nothing is dropped where it
   waits.  A spawned task runs on. *)
DropHandler(r) ==
  /\ pc[r] \in {"lock", "await"} /\ r \notin spawned
  /\ Goto(r, "dropped")
  /\ UNCHANGED <<disk, slot, coalescer, cooling, op, spawned, io, minGen,
                 target, reply, builds, history>>

(* The TTL runs out, at any moment after a store: a TTL of 0, which disables
   the cache, is the case where it always does so at once. *)
Expire ==
  /\ fresh
  /\ fresh' = FALSE
  /\ UNCHANGED <<disk, gen, entry, coalescer, cooling, op, pc, spawned, io,
                 minGen, target, reply, builds, history>>

CoolDown ==
  /\ cooling
  /\ cooling' = FALSE
  /\ UNCHANGED <<disk, slot, coalescer, op, pc, spawned, io, minGen, target,
                 reply, builds, history>>

(* Another program creates or deletes a marker. *)
OutsideChange(r) ==
  /\ pc[r] = "idle" /\ op[r].kind = "outside"
  /\ LET f == folder(r)
         v == IF disk[f] = "marked" THEN "bare" ELSE "marked"
     IN  /\ disk' = [disk EXCEPT ![f] = v]
         /\ held' = HeldWith(f, v)
  /\ tangled' = TRUE
  /\ Goto(r, "done")
  /\ UNCHANGED <<slot, coalescer, cooling, op, spawned, io, minGen, target,
                 reply, builds>>

(* Every call of the run has been served. *)
AllServed ==
  /\ \A r \in Requests : pc[r] \in Over
  /\ UNCHANGED vars

-----------------------------------------------------------------------------
Server(r) ==
  \/ Load(r) \/ WriteMarker(r) \/ DeleteMarker(r) \/ EditMark(r)
  \/ SpliceSection(r) \/ Bump(r) \/ Acquire(r) \/ Join(r) \/ Register(r)
  \/ VisitFolder(r) \/ FailRoot(r) \/ StoreBuild(r) \/ Resume(r)

Arrival(r) == StartRead(r) \/ StartRescan(r) \/ StartMutation(r)

Environment(r) == Arrival(r) \/ DropHandler(r) \/ OutsideChange(r)

Next == \/ \E r \in Requests : Server(r) \/ Environment(r)
        \/ Expire
        \/ CoolDown
        \/ AllServed

Spec == Init /\ [][Next]_vars

(* The runtime polls every task that can run; a blocking call returns; nothing
   obliges a client to call or to leave, or the clock to pass a deadline. *)
FairSpec == Spec /\ \A r \in Requests : WF_vars(Server(r))

-----------------------------------------------------------------------------
(* Properties *)

(* A mark or undo whose marker IO took effect answers with a view in which its
   own folder has a value it really held since that IO (or its root failed to
   walk): never the state from before the write, whatever walks were in flight.
   build_coalesced's min_generation is there for this. *)
OwnWriteVisible ==
  \A r \in Requests :
    pc[r] = "done" /\ Wrote(r)
      => reply[r][folder(r)] \in held[r][folder(r)] \cup {"unread"}

(* Callers coalesce: a build somebody still awaits is the one a newcomer would
   join, unless a mutation's cold path refused it as too old. *)
CoalescedWalks ==
  \A b \in Requests :
    Alive(b) => b = inflight \/ \E r \in Requests : minGen[r] > reg[b]

(* A mark edited into a fresh slot stays there, through every store, rescan
   and other mark, as long as nothing undoes a marker of its root: the
   generation check makes older walks decline. *)
InPlaceMarkSurvives ==
  \A r \in Requests :
    /\ pc[r] = "done" /\ op[r].kind = "mark"
    /\ io[r] = "applied" /\ minGen[r] = 0
    /\ \A q \in Requests :
         op[q].kind \in {"unmark", "outside"} /\ folder(q) \in Siblings(folder(r))
           => pc[q] = "idle"
    => entry[folder(r)] \in {"marked", "unread"}

(* While mutations come one at a time and no other program touches the
   library, the slot never disagrees with the disk between mutations. *)
SequentialEditsSettle ==
  ~tangled /\ Mutating = {}
    => \A f \in Folders : entry[f] \in {disk[f], "unread"}

ServicePhase(r) ==
  IF pc[r] = "idle" THEN "idle"
  ELSE IF pc[r] = "done" THEN "answered"
  ELSE IF pc[r] = "dropped" THEN "left"
  ELSE IF Wrote(r) THEN "written" ELSE "called"

(* The store implements the service its handlers rely on.  Only the written
   value of a request's own folder is part of that service. *)
Service == INSTANCE MarkerService WITH
  phase <- [r \in Requests |-> ServicePhase(r)],
  shown <- [r \in Requests |-> reply[r][folder(r)]],
  since <- [r \in Requests |-> IF Wrote(r) THEN held[r][folder(r)] ELSE {}]

ServiceSpec == Service!Spec

(* Every call is answered, unless its client left: no lock or build is waited
   for forever. *)
EveryRequestAnswered ==
  \A r \in Requests : pc[r] # "idle" ~> pc[r] \in Over

(* ADR-0022: a stale build cannot clobber a newer mark or undo.  So once every
   call is served, an entry that will be served for the rest of its TTL shows
   each folder as it is on disk. *)
QuiescentSlotMatchesDisk ==
  (fresh /\ \A r \in Requests : pc[r] \in Over)
    => \A f \in Folders : entry[f] \in {disk[f], "unread"}
=============================================================================
