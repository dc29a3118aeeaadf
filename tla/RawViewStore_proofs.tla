------------------------- MODULE RawViewStore_proofs ------------------------
(***************************************************************************)
(* Proofs about RawViewStore, for any folders, roots, requests and calls:  *)
(* where each call and build can be, that a write is visible in its own    *)
(* answer, that the store implements MarkerService, and three invariants   *)
(* of the slot and its coalescer: CoalescedWalks, InPlaceMarkSurvives and  *)
(* SequentialEditsSettle.                                                  *)
(***************************************************************************)
EXTENDS RawViewStore, TLAPS

(* How far each request has come, and what that says of its build. *)
BuildsPlaced ==
  /\ \A b \in Requests : build[b] # "none" => pc[b] \in {"await"} \cup Over
  /\ \A b \in Requests : build[b] = "finished" => Walked(b)
  /\ \A r \in Requests : pc[r] = "await" => build[target[r]] # "none"
  /\ inflight # NoRequest => build[inflight] # "none"

(* Where each call can be, by its kind. *)
CallsPlaced ==
  /\ \A r \in Requests : pc[r] = "edit" => op[r].kind = "mark"
  /\ \A r \in Requests : pc[r] = "section" => op[r].kind = "unmark"
  /\ \A r \in Requests : pc[r] \in {"io", "edit", "section", "bump"} => r \in Mutations
  /\ \A r \in Requests : pc[r] \in {"idle", "load", "io"} => ~Wrote(r)
  /\ \A r \in Requests : Wrote(r) => r \in Mutations
  /\ \A r \in Requests : pc[r] \in {"edit", "section", "bump"} => Wrote(r) /\ minGen[r] = 0
  /\ \A r \in Requests : Wrote(r) /\ pc[r] \in {"lock", "join", "await"} => minGen[r] > 0
  /\ \A r \in Requests : minGen[r] > 0 => Wrote(r) /\ pc[r] \in {"lock", "join", "await", "done"}
  /\ \A r \in Mutations : pc[r] # "idle" => r \in spawned
  /\ \A r \in Mutations : pc[r] # "dropped"

(* Generations only grow, so what is recorded never exceeds the slot's. *)
GenerationsPast ==
  /\ \A r \in Requests : minGen[r] <= gen
  /\ \A b \in Requests : reg[b] <= gen
  /\ \A b \in Requests : build[b] = "finished" => reg[b] < gen
  /\ \A r \in Requests : pc[r] = "await" => minGen[r] <= reg[target[r]]

Control == TypeOK /\ BuildsPlaced /\ CallsPlaced /\ GenerationsPast

LEMMA ControlInit == Init => Control
<1> SUFFICES ASSUME Init PROVE Control
  OBVIOUS
<1>1. TypeOK
  BY DEF Init, TypeOK, Unread, Unvisited, Views, Shown, Seen, OnDisk, PcStates
<1>2. \A r \in Requests : /\ pc[r] = "idle" /\ io[r] = "none" /\ build[r] = "none"
                          /\ minGen[r] = 0 /\ reg[r] = 0
  BY DEF Init
<1>3. gen = 0 /\ inflight = NoRequest
  BY DEF Init
<1>4. BuildsPlaced BY <1>2, <1>3 DEF BuildsPlaced
<1>5. CallsPlaced BY <1>2 DEF CallsPlaced, Wrote, Mutations
<1>6. GenerationsPast BY <1>2, <1>3 DEF GenerationsPast
<1>7. QED BY <1>1, <1>4, <1>5, <1>6 DEF Control

(* A marker IO changes its own folder, and notes it with every watcher. *)
LEMMA MarkerChange ==
  ASSUME TypeOK, NEW r \in Requests, NEW v \in OnDisk, SetMarker(r, v)
  PROVE  /\ disk' \in [Folders -> OnDisk]
         /\ held' \in [Requests -> [Folders -> SUBSET OnDisk]]
         /\ folder(r) \in Folders
         /\ disk'[folder(r)] = v
         /\ \A f \in Folders \ {folder(r)} : disk'[f] = disk[f]
         /\ held'[r][folder(r)] = {v}
         /\ \A q \in Requests, f \in Folders :
              q # r => held'[q][f] =
                         IF f = folder(r) /\ pc[q] \notin {"idle"} \cup Over
                         THEN held[q][f] \cup {v} ELSE held[q][f]
<1> DEFINE now == [disk EXCEPT ![folder(r)] = v]
<1>1. folder(r) \in Folders
  BY OpsAssumption DEF TypeOK, folder
<1>2. disk' = now /\ now \in [Folders -> OnDisk]
  BY <1>1 DEF SetMarker, TypeOK
<1>3. held' = [HeldWith(folder(r), v) EXCEPT ![r] = [g \in Folders |-> {now[g]}]]
  BY DEF SetMarker
<1>4. HeldWith(folder(r), v) \in [Requests -> [Folders -> SUBSET OnDisk]]
  BY <1>1 DEF HeldWith, TypeOK
<1>5. [g \in Folders |-> {now[g]}] \in [Folders -> SUBSET OnDisk]
  BY <1>2
<1>6. held' \in [Requests -> [Folders -> SUBSET OnDisk]]
  BY <1>3, <1>4, <1>5
<1>7. held'[r][folder(r)] = {v}
  BY <1>1, <1>2, <1>3, <1>4 DEF TypeOK
<1>8. \A q \in Requests \ {r} : held'[q] = HeldWith(folder(r), v)[q]
  BY <1>3, <1>4
<1>9. \A q \in Requests, f \in Folders :
        q # r => held'[q][f] =
          IF f = folder(r) /\ pc[q] \notin {"idle"} \cup Over
          THEN held[q][f] \cup {v} ELSE held[q][f]
  <2> SUFFICES ASSUME NEW q \in Requests, NEW f \in Folders, q # r
               PROVE held'[q][f] =
                       IF f = folder(r) /\ pc[q] \notin {"idle"} \cup Over
                       THEN held[q][f] \cup {v} ELSE held[q][f]
    OBVIOUS
  <2>1. CASE pc[q] \in {"idle"} \cup Over BY <1>8, <2>1 DEF HeldWith
  <2>2. CASE pc[q] \notin {"idle"} \cup Over
    <3>1. held'[q] = [held[q] EXCEPT ![folder(r)] = @ \cup {v}]
      BY <1>8, <2>2 DEF HeldWith
    <3>2. QED BY <1>1, <2>2, <3>1 DEF TypeOK
  <2>3. QED BY <2>1, <2>2
<1>10. disk'[folder(r)] = v /\ \A f \in Folders \ {folder(r)} : disk'[f] = disk[f]
  BY <1>1, <1>2 DEF TypeOK
<1>11. QED
  BY <1>1, <1>2, <1>6, <1>7, <1>9, <1>10

LEMMA TypeStep == Control /\ [Next]_vars => TypeOK'
<1> SUFFICES ASSUME Control, [Next]_vars PROVE TypeOK'
  OBVIOUS
<1> USE DEF Control, TypeOK, Views, Shown, Seen, OnDisk, PcStates,
            Goto, Answer, WatchFrom, SetMarker, HeldWith, PutEntry, slot,
            coalescer, builds, history
<1>f. \A r \in Requests : folder(r) \in Folders /\ op[r] \in Ops
  BY OpsAssumption DEF folder
<1>1. ASSUME NEW r \in Requests, StartRead(r) PROVE TypeOK'
  BY <1>1 DEF StartRead
<1>2. ASSUME NEW r \in Requests, Load(r) PROVE TypeOK'
  <2>1. CASE fresh /\ Answer(r, entry) BY <1>2, <2>1 DEF Load
  <2>2. CASE ~fresh /\ Goto(r, "lock") /\ UNCHANGED reply BY <1>2, <2>2 DEF Load
  <2>3. QED BY <1>2, <2>1, <2>2 DEF Load
<1>3. ASSUME NEW r \in Requests, StartRescan(r) PROVE TypeOK'
  BY <1>3 DEF StartRescan
<1>4. ASSUME NEW r \in Requests, StartMutation(r) PROVE TypeOK'
  BY <1>4 DEF StartMutation
<1>5. ASSUME NEW r \in Requests, WriteMarker(r) PROVE TypeOK'
  <2>1. ASSUME NEW o \in {"failed", "existing"}, IoWithoutEffect(r, o) PROVE TypeOK'
    BY <1>5, <2>1 DEF WriteMarker, IoWithoutEffect
  <2>2. CASE SetMarker(r, "marked") /\ io' = [io EXCEPT ![r] = "applied"]
             /\ Goto(r, "edit") /\ UNCHANGED scan
    <3>1. disk' \in [Folders -> OnDisk] /\ held' \in [Requests -> [Folders -> SUBSET OnDisk]]
      BY <2>2, MarkerChange
    <3>2. QED BY <1>5, <2>2, <3>1 DEF WriteMarker
  <2>3. QED BY <1>5, <2>1, <2>2 DEF WriteMarker
<1>6. ASSUME NEW r \in Requests, DeleteMarker(r) PROVE TypeOK'
  <2>1. CASE IoWithoutEffect(r, "failed")
    BY <1>6, <2>1 DEF DeleteMarker, IoWithoutEffect
  <2>2. CASE SetMarker(r, "bare") /\ io' = [io EXCEPT ![r] = "applied"]
             /\ Goto(r, "section") /\ scan' = [scan EXCEPT ![r] = Unvisited]
    <3>1. disk' \in [Folders -> OnDisk] /\ held' \in [Requests -> [Folders -> SUBSET OnDisk]]
      BY <2>2, MarkerChange
    <3>2. QED BY <1>6, <2>2, <3>1 DEF DeleteMarker, Unvisited
  <2>3. QED BY <1>6, <2>1, <2>2 DEF DeleteMarker
<1>7. ASSUME NEW r \in Requests, NEW view \in Views, EditFresh(r, view) PROVE TypeOK'
  <2>1. CASE fresh /\ PutEntry(view) /\ Answer(r, view)
    BY <1>7, <2>1 DEF EditFresh
  <2>2. CASE ~fresh /\ Goto(r, "bump") /\ UNCHANGED <<gen, entry, reply>>
    BY <1>7, <2>2 DEF EditFresh
  <2>3. QED BY <1>7, <2>1, <2>2 DEF EditFresh
<1>8. ASSUME NEW r \in Requests, EditMark(r) PROVE TypeOK'
  <2>1. WithMark(entry, folder(r)) \in Views
    BY <1>f DEF WithMark
  <2>2. QED BY <1>7, <1>8, <2>1 DEF EditMark
<1>9. ASSUME NEW r \in Requests, SpliceSection(r) PROVE TypeOK'
  <2>1. Spliced(entry, scan[r], folder(r)) \in Views
    BY <1>9 DEF SpliceSection, SectionWalked, Spliced, Siblings
  <2>2. QED BY <1>7, <1>9, <2>1 DEF SpliceSection
<1>10. ASSUME NEW r \in Requests, Bump(r) PROVE TypeOK'
  BY <1>10 DEF Bump
<1>11. ASSUME NEW r \in Requests, Acquire(r) PROVE TypeOK'
  <2>1. CASE Rechecks(r) /\ fresh /\ Answer(r, entry) /\ UNCHANGED lock
    BY <1>11, <2>1 DEF Acquire
  <2>2. CASE lock' = r /\ Goto(r, "join") /\ UNCHANGED reply
    BY <1>11, <2>2 DEF Acquire
  <2>3. QED BY <1>11, <2>1, <2>2 DEF Acquire
<1>12. ASSUME NEW r \in Requests, Join(r) PROVE TypeOK'
  BY <1>12 DEF Join, Joinable
<1>13. ASSUME NEW r \in Requests, Register(r) PROVE TypeOK'
  BY <1>13 DEF Register, Unvisited
<1>14. ASSUME NEW r \in Requests, VisitFolder(r) PROVE TypeOK'
  BY <1>14 DEF VisitFolder, ToVisit
<1>15. ASSUME NEW r \in Requests, FailRoot(r) PROVE TypeOK'
  BY <1>15 DEF FailRoot, ToVisit
<1>16. ASSUME NEW r \in Requests, StoreBuild(r) PROVE TypeOK'
  <2>1. scan[r] \in Views
    BY <1>16 DEF StoreBuild, Walked
  <2>2. CASE PutEntry(scan[r]) /\ fresh' = TRUE
    BY <1>16, <2>1, <2>2 DEF StoreBuild
  <2>3. CASE UNCHANGED slot
    BY <1>16, <2>3 DEF StoreBuild
  <2>4. QED BY <1>16, <2>2, <2>3 DEF StoreBuild
<1>17. ASSUME NEW r \in Requests, Resume(r) PROVE TypeOK'
  <2>1. scan[target[r]] \in Views
    BY <1>17 DEF Resume, BuildsPlaced, Walked
  <2>2. QED BY <1>17, <2>1 DEF Resume
<1>18. ASSUME NEW r \in Requests, DropHandler(r) PROVE TypeOK'
  BY <1>18 DEF DropHandler
<1>19. ASSUME NEW r \in Requests, OutsideChange(r) PROVE TypeOK'
  BY <1>19, <1>f DEF OutsideChange
<1>20. CASE Expire BY <1>20 DEF Expire
<1>21. CASE CoolDown BY <1>21 DEF CoolDown
<1>22. CASE UNCHANGED vars BY <1>22 DEF vars
<1>23. QED
  BY <1>1, <1>2, <1>3, <1>4, <1>5, <1>6, <1>8, <1>9, <1>10, <1>11, <1>12, <1>13,
     <1>14, <1>15, <1>16, <1>17, <1>18, <1>19, <1>20, <1>21, <1>22
  DEF Next, Server, Environment, Arrival, AllServed

LEMMA ControlStep == Control /\ [Next]_vars => Control'
<1> SUFFICES ASSUME Control, [Next]_vars PROVE Control'
  OBVIOUS
<1>t. TypeOK' BY TypeStep
<1>s. BuildsPlaced' /\ CallsPlaced' /\ GenerationsPast' => Control'
  BY <1>t DEF Control
<1> USE DEF Control, BuildsPlaced, CallsPlaced, GenerationsPast, TypeOK, Over, PcStates,
            Goto, Answer, PutEntry, slot, coalescer, builds, history, Wrote, Mutations
<1>1. ASSUME NEW r \in Requests, StartRead(r) PROVE Control'
  BY <1>1, <1>s DEF StartRead, Walked
<1>2. ASSUME NEW r \in Requests, Load(r) PROVE Control'
  <2>1. /\ pc[r] = "load" /\ UNCHANGED <<gen, inflight, op, spawned, io, minGen,
                                         target, build, reg, scan>>
        /\ \/ pc' = [pc EXCEPT ![r] = "done"] \/ pc' = [pc EXCEPT ![r] = "lock"]
    BY <1>2 DEF Load
  <2>2. CASE pc' = [pc EXCEPT ![r] = "done"]
    BY <1>s, <2>1, <2>2 DEF Walked
  <2>3. CASE pc' = [pc EXCEPT ![r] = "lock"]
    BY <1>s, <2>1, <2>3 DEF Walked
  <2>4. QED BY <2>1, <2>2, <2>3
<1>3. ASSUME NEW r \in Requests, StartRescan(r) PROVE Control'
  BY <1>3, <1>s DEF StartRescan, Walked
<1>4. ASSUME NEW r \in Requests, StartMutation(r) PROVE Control'
  BY <1>4, <1>s DEF StartMutation, Walked
<1>5. ASSUME NEW r \in Requests, WriteMarker(r) PROVE Control'
  <2>1. /\ pc[r] = "io" /\ op[r].kind = "mark"
        /\ UNCHANGED <<gen, inflight, op, spawned, minGen, target, build, reg, scan>>
        /\ \/ /\ pc' = [pc EXCEPT ![r] = "load"]
              /\ \/ io' = [io EXCEPT ![r] = "failed"]
                 \/ io' = [io EXCEPT ![r] = "existing"]
           \/ pc' = [pc EXCEPT ![r] = "edit"] /\ io' = [io EXCEPT ![r] = "applied"]
    BY <1>5 DEF WriteMarker, IoWithoutEffect
  <2>2. CASE pc' = [pc EXCEPT ![r] = "load"] /\ io' = [io EXCEPT ![r] = "failed"]
    BY <1>s, <2>1, <2>2 DEF Walked
  <2>3. CASE pc' = [pc EXCEPT ![r] = "load"] /\ io' = [io EXCEPT ![r] = "existing"]
    BY <1>s, <2>1, <2>3 DEF Walked
  <2>4. CASE pc' = [pc EXCEPT ![r] = "edit"] /\ io' = [io EXCEPT ![r] = "applied"]
    BY <1>s, <2>1, <2>4 DEF Walked
  <2>5. QED BY <2>1, <2>2, <2>3, <2>4
<1>6. ASSUME NEW r \in Requests, DeleteMarker(r) PROVE Control'
  <2>1. /\ pc[r] = "io" /\ op[r].kind = "unmark"
        /\ UNCHANGED <<gen, inflight, op, spawned, minGen, target, build, reg>>
        /\ \/ /\ pc' = [pc EXCEPT ![r] = "load"]
              /\ io' = [io EXCEPT ![r] = "failed"]
              /\ UNCHANGED scan
           \/ /\ pc' = [pc EXCEPT ![r] = "section"]
              /\ io' = [io EXCEPT ![r] = "applied"]
              /\ scan' = [scan EXCEPT ![r] = Unvisited]
    BY <1>6 DEF DeleteMarker, IoWithoutEffect
  <2>2. \A b \in Requests : build[b] = "finished" => scan'[b] = scan[b]
    <3>1. build[r] # "finished" BY <2>1
    <3>2. scan' = scan \/ scan' = [scan EXCEPT ![r] = Unvisited] BY <2>1
    <3>3. QED BY <3>1, <3>2
  <2>3. CASE pc' = [pc EXCEPT ![r] = "load"] /\ io' = [io EXCEPT ![r] = "failed"]
    BY <1>s, <2>1, <2>2, <2>3 DEF Walked
  <2>4. CASE pc' = [pc EXCEPT ![r] = "section"] /\ io' = [io EXCEPT ![r] = "applied"]
    BY <1>s, <2>1, <2>2, <2>4 DEF Walked
  <2>5. QED BY <2>1, <2>3, <2>4
<1>7. ASSUME NEW r \in Requests, NEW view, EditFresh(r, view),
             pc[r] \in {"edit", "section"}
      PROVE  Control'
  <2>1. /\ UNCHANGED <<inflight, op, spawned, io, minGen, target, build, reg, scan>>
        /\ \/ pc' = [pc EXCEPT ![r] = "done"] /\ gen' = gen + 1
           \/ pc' = [pc EXCEPT ![r] = "bump"] /\ gen' = gen
    BY <1>7 DEF EditFresh
  <2>2. CASE pc' = [pc EXCEPT ![r] = "done"] /\ gen' = gen + 1
    BY <1>7, <1>s, <2>1, <2>2 DEF Walked
  <2>3. CASE pc' = [pc EXCEPT ![r] = "bump"] /\ gen' = gen
    BY <1>7, <1>s, <2>1, <2>3 DEF Walked
  <2>4. QED BY <2>1, <2>2, <2>3
<1>8. ASSUME NEW r \in Requests, EditMark(r) \/ SpliceSection(r) PROVE Control'
  BY <1>7, <1>8 DEF EditMark, SpliceSection
<1>9. ASSUME NEW r \in Requests, Bump(r) PROVE Control'
  BY <1>9, <1>s DEF Bump, Walked
<1>10. ASSUME NEW r \in Requests, Acquire(r) PROVE Control'
  <2>1. /\ pc[r] = "lock" /\ UNCHANGED <<gen, inflight, op, spawned, io, minGen,
                                         target, build, reg, scan>>
        /\ \/ pc' = [pc EXCEPT ![r] = "done"] \/ pc' = [pc EXCEPT ![r] = "join"]
    BY <1>10 DEF Acquire
  <2>2. CASE pc' = [pc EXCEPT ![r] = "done"]
    BY <1>s, <2>1, <2>2 DEF Walked
  <2>3. CASE pc' = [pc EXCEPT ![r] = "join"]
    BY <1>s, <2>1, <2>3 DEF Walked
  <2>4. QED BY <2>1, <2>2, <2>3
<1>11. ASSUME NEW r \in Requests, Join(r) PROVE Control'
  BY <1>11, <1>s DEF Join, Joinable, Walked
<1>12. ASSUME NEW r \in Requests, Register(r) PROVE Control'
  <2>1. BuildsPlaced'
    BY <1>12, <1>t DEF Register, Walked
  <2>2. CallsPlaced'
    BY <1>12, <1>t DEF Register
  <2>3. GenerationsPast'
    BY <1>12, <1>t DEF Register
  <2>4. QED BY <2>1, <2>2, <2>3, <1>s
<1>13. ASSUME NEW r \in Requests, VisitFolder(r) \/ FailRoot(r) PROVE Control'
  <2>1. UNCHANGED <<gen, inflight, op, pc, spawned, io, minGen, target, build, reg>>
    BY <1>13 DEF VisitFolder, FailRoot
  <2>2. \A b \in Requests : build[b] = "finished" => scan'[b] = scan[b]
    <3>1. build[r] = "running" \/ pc[r] = "section"
      BY <1>13 DEF VisitFolder, FailRoot, ToVisit
    <3>2. build[r] # "finished"
      BY <3>1
    <3>3. \A b \in Requests \ {r} : scan'[b] = scan[b]
      BY <1>13 DEF VisitFolder, FailRoot
    <3>4. QED BY <3>2, <3>3
  <2>3. QED BY <2>1, <2>2, <1>s DEF Walked
<1>14. ASSUME NEW r \in Requests, StoreBuild(r) PROVE Control'
  <2>1. /\ build[r] = "running" /\ Walked(r)
        /\ build' = [build EXCEPT ![r] = "finished"]
        /\ UNCHANGED <<inflight, op, pc, spawned, io, minGen, target, reg, scan>>
        /\ \/ reg[r] = gen /\ gen' = gen + 1
           \/ reg[r] # gen /\ gen' = gen
    BY <1>14 DEF StoreBuild
  <2>2. BuildsPlaced'
    BY <2>1 DEF Walked
  <2>3. CallsPlaced'
    BY <2>1
  <2>4. GenerationsPast'
    <3>1. CASE reg[r] = gen /\ gen' = gen + 1
      BY <2>1, <3>1
    <3>2. CASE reg[r] # gen /\ gen' = gen
      <4>1. reg[r] \in Nat /\ gen \in Nat /\ reg[r] <= gen
        OBVIOUS
      <4>3. reg[r] < gen BY ONLY <3>2, <4>1
      <4>2. QED BY <2>1, <3>2, <4>3
    <3>3. QED BY <2>1, <3>1, <3>2
  <2>5. QED BY <1>s, <2>2, <2>3, <2>4
<1>15. ASSUME NEW r \in Requests, Resume(r) PROVE Control'
  BY <1>15, <1>s DEF Resume, Walked
<1>16. ASSUME NEW r \in Requests, DropHandler(r) PROVE Control'
  BY <1>16, <1>s DEF DropHandler, Walked
<1>17. ASSUME NEW r \in Requests, OutsideChange(r) PROVE Control'
  BY <1>17, <1>s DEF OutsideChange, Walked
<1>18. CASE Expire \/ CoolDown \/ UNCHANGED vars
  BY <1>18, <1>s DEF Expire, CoolDown, vars, Walked
<1>19. QED
  BY <1>1, <1>2, <1>3, <1>4, <1>5, <1>6, <1>8, <1>9, <1>10, <1>11, <1>12, <1>13,
     <1>14, <1>15, <1>16, <1>17, <1>18
  DEF Next, Server, Environment, Arrival, AllServed

(* Every reachable state of the store is well typed. *)
THEOREM TypeCorrect == Spec => []TypeOK
<1>1. Control => TypeOK
  BY DEF Control
<1>2. QED
  BY ControlInit, ControlStep, <1>1, PTL DEF Spec

(* Every reachable state has its calls and builds where Control says. *)
THEOREM ControlHolds == Spec => []Control
BY ControlInit, ControlStep, PTL DEF Spec

-----------------------------------------------------------------------------
(* A write is visible in its own answer: OwnWriteVisible, and with it the
   refinement of MarkerService.  The argument: once r's marker IO took effect,
   every value its folder takes is in held[r] (OwnDisk); a build it may await
   registered after its generation bump, so that build reads the folder after
   the IO (OwnBuilds); an undo walks its section after the IO (OwnSection). *)

OwnHeld(r) == held[r][folder(r)]

OwnDisk(r) == Wrote(r) /\ pc[r] \notin Over => disk[folder(r)] \in OwnHeld(r)

OwnBuilds(r) ==
  \A b \in Requests :
    /\ Wrote(r) /\ minGen[r] > 0 /\ pc[r] \notin Over
    /\ build[b] # "none" /\ reg[b] >= minGen[r]
    => scan[b][folder(r)] \in OwnHeld(r) \cup {"unread", "unvisited"}

OwnSection(r) ==
  pc[r] = "section" =>
    scan[r][folder(r)] \in OwnHeld(r) \cup {"unread", "unvisited"}

OwnEdit(r) == pc[r] = "edit" => "marked" \in OwnHeld(r)

OwnReply(r) ==
  pc[r] = "done" /\ Wrote(r) => reply[r][folder(r)] \in OwnHeld(r) \cup {"unread"}

Own(r) == OwnDisk(r) /\ OwnBuilds(r) /\ OwnSection(r) /\ OwnEdit(r) /\ OwnReply(r)

OwnWrites == \A r \in Requests : Own(r)

LEMMA OwnInit == Init => OwnWrites
<1> SUFFICES ASSUME Init, NEW r \in Requests PROVE Own(r)
  BY DEF OwnWrites
<1>1. pc[r] = "idle" /\ ~Wrote(r)
  BY DEF Init, Wrote
<1>2. QED
  BY <1>1 DEF Own, OwnDisk, OwnBuilds, OwnSection, OwnEdit, OwnReply

(* A step that leaves the disk, the histories, the walks and the generations
   alone, and moves only a request that answers nothing it wrote. *)
LEMMA OwnFrame ==
  ASSUME Control, OwnWrites, NEW q \in Requests,
         UNCHANGED <<disk, held, scan, build, reg, op, io, minGen>>,
         \/ pc'[q] = pc[q] /\ reply'[q] = reply[q]
         \/ ~Wrote(q) /\ pc'[q] \notin {"section", "edit"}
         \/ pc'[q] \notin {"done", "section", "edit"} /\ pc[q] \notin Over
         \/ /\ pc'[q] = "done"
            /\ reply'[q][folder(q)] \in OwnHeld(q) \cup {"unread"}
  PROVE  Own(q)'
<1> Own(q) BY DEF OwnWrites
<1> USE DEF Own, OwnDisk, OwnBuilds, OwnSection, OwnEdit, OwnReply, OwnHeld,
            Wrote, folder, Over
<1>1. CASE pc'[q] = pc[q] /\ reply'[q] = reply[q] BY <1>1
<1>2. CASE ~Wrote(q) /\ pc'[q] \notin {"section", "edit"} BY <1>2
<1>3. CASE pc'[q] \notin {"done", "section", "edit"} /\ pc[q] \notin Over BY <1>3
<1>4. CASE pc'[q] = "done" /\ reply'[q][folder(q)] \in OwnHeld(q) \cup {"unread"}
  BY <1>4
<1>5. QED BY <1>1, <1>2, <1>3, <1>4

LEMMA OwnStep == Control /\ OwnWrites /\ [Next]_vars => OwnWrites'
<1> SUFFICES ASSUME Control, OwnWrites, [Next]_vars, NEW q \in Requests
             PROVE Own(q)'
  BY DEF OwnWrites
<1>t. TypeOK /\ BuildsPlaced /\ CallsPlaced /\ GenerationsPast
  BY DEF Control
<1>q. Own(q) BY DEF OwnWrites
<1>f. \A r \in Requests : folder(r) \in Folders
  BY <1>t, OpsAssumption DEF TypeOK, folder
<1> USE DEF Goto, Answer, slot, coalescer, builds, history, Over
<1>1. ASSUME NEW r \in Requests, Arrival(r) PROVE Own(q)'
  <2>1. /\ pc[r] = "idle" /\ UNCHANGED <<disk, scan, build, reg, op, io, minGen, reply>>
        /\ \A p \in Requests : p # r => held'[p] = held[p] /\ pc'[p] = pc[p]
        /\ pc'[r] \in {"load", "lock", "io"}
    BY <1>1, <1>t DEF Arrival, StartRead, StartRescan, StartMutation, WatchFrom, TypeOK
  <2>2. CASE q = r
    <3>1. ~Wrote(q) BY <1>t, <2>1, <2>2 DEF CallsPlaced
    <3>2. QED BY <2>1, <2>2, <3>1
      DEF Own, OwnDisk, OwnBuilds, OwnSection, OwnEdit, OwnReply, Wrote
  <2>3. CASE q # r
    BY <1>q, <2>1, <2>3
      DEF Own, OwnDisk, OwnBuilds, OwnSection, OwnEdit, OwnReply, OwnHeld, Wrote, folder
  <2>4. QED BY <2>2, <2>3
<1>2. ASSUME NEW r \in Requests, Load(r) PROVE Own(q)'
  <2>1. /\ pc[r] = "load" /\ pc'[r] \in {"done", "lock"}
        /\ \A p \in Requests : p # r => pc'[p] = pc[p] /\ reply'[p] = reply[p]
        /\ UNCHANGED <<disk, held, scan, build, reg, op, io, minGen>>
    BY <1>2, <1>t DEF Load, TypeOK
  <2>2. ~Wrote(r) BY <1>t, <2>1 DEF CallsPlaced
  <2>3. QED BY <2>1, <2>2, OwnFrame
<1>3. ASSUME NEW r \in Requests, Acquire(r) PROVE Own(q)'
  <2>1. /\ pc[r] = "lock" /\ pc'[r] \in {"done", "join"}
        /\ pc'[r] = "done" => minGen[r] = 0
        /\ \A p \in Requests : p # r => pc'[p] = pc[p] /\ reply'[p] = reply[p]
        /\ UNCHANGED <<disk, held, scan, build, reg, op, io, minGen>>
    BY <1>3, <1>t DEF Acquire, TypeOK, Rechecks
  <2>2. pc'[r] = "done" => ~Wrote(r) BY <1>t, <2>1 DEF CallsPlaced
  <2>3. QED BY <2>1, <2>2, OwnFrame
<1>4. ASSUME NEW r \in Requests, Join(r) \/ DropHandler(r) PROVE Own(q)'
  <2>1. /\ pc[r] \notin Over /\ pc'[r] \in {"await", "dropped"}
        /\ \A p \in Requests : p # r => pc'[p] = pc[p]
        /\ UNCHANGED <<disk, held, scan, build, reg, op, io, minGen, reply>>
    BY <1>4, <1>t DEF Join, DropHandler, TypeOK
  <2>2. QED BY <2>1, OwnFrame
<1>5. ASSUME NEW r \in Requests, Bump(r) PROVE Own(q)'
  <2>1. /\ pc[r] = "bump" /\ pc'[r] = "lock" /\ minGen'[r] = gen + 1
        /\ \A p \in Requests : p # r => pc'[p] = pc[p] /\ minGen'[p] = minGen[p]
        /\ UNCHANGED <<disk, held, scan, build, reg, op, io, reply>>
    BY <1>5, <1>t DEF Bump, TypeOK
  <2>2. CASE q = r
    <3>1. \A b \in Requests : ~(reg[b] >= gen + 1)
      BY <1>t DEF GenerationsPast, TypeOK
    <3>2. OwnBuilds(q)' BY <2>1, <2>2, <3>1 DEF OwnBuilds
    <3>3. QED BY <1>q, <2>1, <2>2, <3>2
      DEF Own, OwnDisk, OwnSection, OwnEdit, OwnReply, OwnHeld, Wrote, folder
  <2>3. CASE q # r
    BY <1>q, <2>1, <2>3
      DEF Own, OwnDisk, OwnBuilds, OwnSection, OwnEdit, OwnReply, OwnHeld, Wrote, folder
  <2>4. QED BY <2>2, <2>3
<1>6. ASSUME NEW r \in Requests, Register(r) PROVE Own(q)'
  <2>1. /\ pc[r] = "join" /\ pc'[r] = "await" /\ scan'[r] = Unvisited
        /\ \A p \in Requests : p # r => /\ pc'[p] = pc[p] /\ scan'[p] = scan[p]
                                        /\ reg'[p] = reg[p] /\ build'[p] = build[p]
        /\ UNCHANGED <<disk, held, op, io, reply, minGen>>
    BY <1>6, <1>t DEF Register, TypeOK
  <2>2. scan'[r][folder(q)] = "unvisited" BY <1>f, <2>1 DEF Unvisited
  <2>3. OwnBuilds(q)' 
    BY <1>q, <2>1, <2>2 DEF Own, OwnBuilds, OwnHeld, Wrote, folder
  <2>4. QED BY <1>q, <2>1, <2>3
    DEF Own, OwnDisk, OwnSection, OwnEdit, OwnReply, OwnHeld, Wrote, folder
<1>7. ASSUME NEW r \in Requests, VisitFolder(r) \/ FailRoot(r) PROVE Own(q)'
  <2>1. /\ \A p \in Requests, f \in Folders :
             \/ scan'[p][f] = scan[p][f]
             \/ p = r /\ scan'[p][f] \in {disk[f], "unread"}
        /\ UNCHANGED <<disk, held, op, pc, io, reply, minGen, build, reg>>
    <3>1. CASE VisitFolder(r)
      BY <3>1, <1>t DEF VisitFolder, TypeOK
    <3>2. CASE FailRoot(r)
      BY <3>2, <1>t DEF FailRoot, TypeOK
    <3>3. QED BY <1>7, <3>1, <3>2
  <2>2. ASSUME NEW p \in Requests, Wrote(q), pc[q] \notin Over,
               scan[p][folder(q)] \in OwnHeld(q) \cup {"unread", "unvisited"}
        PROVE  scan'[p][folder(q)] \in OwnHeld(q) \cup {"unread", "unvisited"}
    BY <1>f, <1>q, <2>1, <2>2 DEF Own, OwnDisk
  <2>3. OwnHeld(q)' = OwnHeld(q) /\ folder(q)' = folder(q) /\ Wrote(q)' = Wrote(q)
    BY <2>1 DEF OwnHeld, folder, Wrote
  <2>4. OwnBuilds(q)' BY <1>q, <2>1, <2>2, <2>3 DEF Own, OwnBuilds
  <2>5. OwnSection(q)'
    BY <1>q, <1>t, <2>1, <2>2, <2>3 DEF Own, OwnSection, CallsPlaced
  <2>6. QED BY <1>q, <2>1, <2>3, <2>4, <2>5 DEF Own, OwnDisk, OwnEdit, OwnReply
<1>8. ASSUME NEW r \in Requests, StoreBuild(r) PROVE Own(q)'
  <2>1. /\ build[r] = "running" /\ build' = [build EXCEPT ![r] = "finished"]
        /\ UNCHANGED <<disk, held, scan, reg, op, pc, io, reply, minGen>>
    BY <1>8 DEF StoreBuild
  <2>2. \A b \in Requests : build'[b] # "none" => build[b] # "none"
    BY <1>t, <2>1 DEF TypeOK
  <2>3. QED BY <1>q, <2>1, <2>2
    DEF Own, OwnDisk, OwnBuilds, OwnSection, OwnEdit, OwnReply, OwnHeld, Wrote, folder
<1>9. ASSUME NEW r \in Requests, Resume(r) PROVE Own(q)'
  <2>1. /\ pc[r] = "await" /\ build[target[r]] = "finished"
        /\ pc'[r] = "done" /\ reply'[r] = scan[target[r]]
        /\ \A p \in Requests : p # r => pc'[p] = pc[p] /\ reply'[p] = reply[p]
        /\ UNCHANGED <<disk, held, scan, build, reg, op, io, minGen>>
    BY <1>9, <1>t DEF Resume, TypeOK
  <2>2. Wrote(r) => reply'[r][folder(r)] \in OwnHeld(r) \cup {"unread"}
    <3>1. target[r] \in Requests /\ scan[target[r]][folder(r)] # "unvisited"
      BY <1>f, <1>t, <2>1 DEF BuildsPlaced, Walked, TypeOK
    <3>2. Wrote(r) => minGen[r] > 0 /\ reg[target[r]] >= minGen[r]
      BY <1>t, <2>1, <3>1 DEF CallsPlaced, GenerationsPast, TypeOK
    <3>3. OwnBuilds(r) BY DEF OwnWrites, Own
    <3>4. QED BY <2>1, <3>1, <3>2, <3>3 DEF OwnBuilds
  <2>3. QED BY <2>1, <2>2, OwnFrame
<1>10. ASSUME NEW r \in Requests, NEW view, EditFresh(r, view),
              pc[r] \in {"edit", "section"},
              view[folder(r)] \in OwnHeld(r) \cup {"unread"}
       PROVE  Own(q)'
  <2>1. /\ \/ pc'[r] = "bump"
           \/ pc'[r] = "done" /\ reply'[r] = view
        /\ \A p \in Requests : p # r => pc'[p] = pc[p] /\ reply'[p] = reply[p]
        /\ UNCHANGED <<disk, held, scan, build, reg, op, io, minGen>>
    BY <1>10, <1>t DEF EditFresh, TypeOK
  <2>2. QED BY <1>10, <2>1, OwnFrame
<1>11. ASSUME NEW r \in Requests, EditMark(r) PROVE Own(q)'
  <2>1. OwnEdit(r) /\ pc[r] = "edit" BY <1>11 DEF OwnWrites, Own, EditMark
  <2>2. WithMark(entry, folder(r))[folder(r)] \in {"marked", "unread"}
    BY <1>f, <1>t DEF WithMark, TypeOK, Views
  <2>3. QED BY <1>10, <1>11, <2>1, <2>2 DEF EditMark, OwnEdit
<1>12. ASSUME NEW r \in Requests, SpliceSection(r) PROVE Own(q)'
  <2>1. OwnSection(r) /\ pc[r] = "section" BY <1>12 DEF OwnWrites, Own, SpliceSection
  <2>2. folder(r) \in Siblings(folder(r)) BY <1>f DEF Siblings
  <2>3. Spliced(entry, scan[r], folder(r))[folder(r)] = scan[r][folder(r)]
    BY <1>f, <2>2 DEF Spliced
  <2>4. scan[r][folder(r)] # "unvisited"
    BY <1>12, <2>2 DEF SpliceSection, SectionWalked
  <2>5. QED BY <1>10, <1>12, <2>1, <2>3, <2>4 DEF SpliceSection, OwnSection
<1>13. ASSUME NEW r \in Requests, IoWithoutEffect(r, "failed") \/ IoWithoutEffect(r, "existing"),
              pc[r] = "io", UNCHANGED <<build, reg, op, reply, minGen>>
       PROVE  Own(q)'
  <2>1. /\ pc'[r] = "load" /\ io'[r] \in {"failed", "existing"}
        /\ \A p \in Requests : p # r => pc'[p] = pc[p] /\ io'[p] = io[p]
        /\ UNCHANGED <<disk, held, scan>>
    BY <1>13, <1>t DEF IoWithoutEffect, TypeOK
  <2>2. CASE q = r
    BY <2>1, <2>2 DEF Own, OwnDisk, OwnBuilds, OwnSection, OwnEdit, OwnReply, Wrote
  <2>3. CASE q # r
    BY <1>13, <1>q, <2>1, <2>3
      DEF Own, OwnDisk, OwnBuilds, OwnSection, OwnEdit, OwnReply, OwnHeld, Wrote, folder
  <2>4. QED BY <2>2, <2>3
(* The disk changes at f: by q itself, or beside q. *)
<1>14. ASSUME NEW r \in Requests, NEW f \in Folders, q # r, pc'[q] = pc[q], io'[q] = io[q],
              UNCHANGED <<build, reg, op, reply, minGen>>,
              \A b \in Requests : b # r => scan'[b] = scan[b],
              build[r] = "none",
              \A g \in Folders : g # f => disk'[g] = disk[g],
              \A g \in Folders : held[q][g] \subseteq held'[q][g],
              pc[q] \in {"idle"} \cup Over => held'[q] = held[q],
              pc[q] \notin {"idle"} \cup Over => disk'[f] \in held'[q][f]
       PROVE  Own(q)'
  <2>1. folder(q)' = folder(q) /\ folder(q) \in Folders /\ Wrote(q)' = Wrote(q)
    BY <1>14, <1>f DEF folder, Wrote
  <2>2. OwnHeld(q) \subseteq OwnHeld(q)' BY <1>14, <2>1 DEF OwnHeld
  <2>3. OwnDisk(q)'
    <3>1. CASE folder(q) = f
      <4>1. Wrote(q) => pc[q] # "idle" BY <1>t DEF CallsPlaced
      <4>2. QED BY <1>14, <2>1, <3>1, <4>1 DEF OwnDisk, OwnHeld
    <3>2. CASE folder(q) # f
      BY <1>14, <1>q, <2>1, <2>2, <3>2 DEF Own, OwnDisk
    <3>3. QED BY <3>1, <3>2
  <2>4. OwnBuilds(q)' BY <1>14, <1>q, <2>1, <2>2 DEF Own, OwnBuilds
  <2>5. OwnSection(q)' BY <1>14, <1>q, <2>1, <2>2 DEF Own, OwnSection
  <2>6. OwnEdit(q)' BY <1>14, <1>q, <2>1, <2>2 DEF Own, OwnEdit
  <2>7. OwnReply(q)' BY <1>14, <1>q, <2>1, <2>2 DEF Own, OwnReply
  <2>8. QED BY <2>3, <2>4, <2>5, <2>6, <2>7 DEF Own
<1>15. ASSUME NEW r \in Requests, NEW v \in OnDisk, SetMarker(r, v), pc[r] = "io",
              io' = [io EXCEPT ![r] = "applied"],
              UNCHANGED <<build, reg, op, reply, minGen>>,
              \/ v = "marked" /\ Goto(r, "edit") /\ UNCHANGED scan
              \/ /\ v = "bare" /\ Goto(r, "section")
                 /\ scan' = [scan EXCEPT ![r] = Unvisited]
       PROVE  Own(q)'
  <2>1. /\ folder(r) \in Folders /\ disk'[folder(r)] = v
        /\ \A g \in Folders \ {folder(r)} : disk'[g] = disk[g]
        /\ held'[r][folder(r)] = {v}
        /\ \A p \in Requests, g \in Folders :
              p # r => held'[p][g] =
                         IF g = folder(r) /\ pc[p] \notin {"idle"} \cup Over
                         THEN held[p][g] \cup {v} ELSE held[p][g]
        /\ held' \in [Requests -> [Folders -> SUBSET OnDisk]]
    BY <1>15, <1>t, MarkerChange
  <2>2. CASE q = r
    <3>1. minGen'[r] = 0 /\ folder(r)' = folder(r)
      BY <1>15, <1>t DEF CallsPlaced, GenerationsPast, TypeOK, folder
    <3>2. OwnHeld(q)' = {v} BY <2>1, <2>2, <3>1 DEF OwnHeld
    <3>3. OwnDisk(q)' BY <2>1, <2>2, <3>1, <3>2 DEF OwnDisk
    <3>4. OwnBuilds(q)' BY <2>2, <3>1 DEF OwnBuilds
    <3>5. CASE v = "marked" /\ pc' = [pc EXCEPT ![r] = "edit"]
      BY <1>t, <2>2, <3>2, <3>3, <3>4, <3>5
        DEF Own, OwnSection, OwnEdit, OwnReply, TypeOK
    <3>6. CASE v = "bare" /\ pc' = [pc EXCEPT ![r] = "section"]
               /\ scan' = [scan EXCEPT ![r] = Unvisited]
      <4>1. scan'[r][folder(r)'] = "unvisited"
        BY <1>t, <2>1, <3>1, <3>6 DEF TypeOK, Unvisited
      <4>2. QED BY <1>t, <2>2, <3>2, <3>3, <3>4, <3>6, <4>1
        DEF Own, OwnSection, OwnEdit, OwnReply, TypeOK
    <3>7. QED BY <1>15, <3>5, <3>6
  <2>3. CASE q # r
    <3>1. pc'[q] = pc[q] /\ io'[q] = io[q] BY <1>15, <1>t, <2>3 DEF TypeOK
    <3>2. build[r] = "none" BY <1>15, <1>t DEF BuildsPlaced
    <3>3. \A b \in Requests : b # r => scan'[b] = scan[b] BY <1>15, <1>t DEF TypeOK
    <3>4. \A g \in Folders : held[q][g] \subseteq held'[q][g] BY <2>1, <2>3
    <3>5. pc[q] \in {"idle"} \cup Over => held'[q] = held[q]
      <4> SUFFICES ASSUME pc[q] \in {"idle"} \cup Over PROVE held'[q] = held[q]
        OBVIOUS
      <4>1. \A g \in Folders : held'[q][g] = held[q][g] BY <2>1, <2>3
      <4>2. held'[q] \in [Folders -> SUBSET OnDisk] /\ held[q] \in [Folders -> SUBSET OnDisk]
        BY <1>t, <2>1 DEF TypeOK
      <4>3. QED BY <4>1, <4>2
    <3>6. pc[q] \notin {"idle"} \cup Over => disk'[folder(r)] \in held'[q][folder(r)]
      BY <2>1, <2>3
    <3>7. QED BY <1>14, <1>15, <2>1, <2>3, <3>1, <3>2, <3>3, <3>4, <3>5, <3>6
  <2>4. QED BY <2>2, <2>3
<1>16. ASSUME NEW r \in Requests, WriteMarker(r) PROVE Own(q)'
  <2>1. pc[r] = "io" /\ UNCHANGED <<build, reg, op, reply, minGen>>
    BY <1>16 DEF WriteMarker
  <2>2. \/ IoWithoutEffect(r, "failed") \/ IoWithoutEffect(r, "existing")
        \/ SetMarker(r, "marked") /\ io' = [io EXCEPT ![r] = "applied"]
           /\ Goto(r, "edit") /\ UNCHANGED scan
    BY <1>16 DEF WriteMarker
  <2>3. "marked" \in OnDisk BY DEF OnDisk
  <2>4. QED BY <2>1, <2>2, <2>3, <1>13, <1>15
<1>17. ASSUME NEW r \in Requests, DeleteMarker(r) PROVE Own(q)'
  <2>1. pc[r] = "io" /\ UNCHANGED <<build, reg, op, reply, minGen>>
    BY <1>17 DEF DeleteMarker
  <2>2. \/ IoWithoutEffect(r, "failed")
        \/ SetMarker(r, "bare") /\ io' = [io EXCEPT ![r] = "applied"]
           /\ Goto(r, "section") /\ scan' = [scan EXCEPT ![r] = Unvisited]
    BY <1>17 DEF DeleteMarker
  <2>3. "bare" \in OnDisk BY DEF OnDisk
  <2>4. QED BY <2>1, <2>2, <2>3, <1>13, <1>15
<1>18. ASSUME NEW r \in Requests, OutsideChange(r) PROVE Own(q)'
  <2>1. /\ pc[r] = "idle" /\ pc' = [pc EXCEPT ![r] = "done"]
        /\ UNCHANGED <<scan, build, reg, op, io, reply, minGen>>
    BY <1>18 DEF OutsideChange
  <2>2. PICK v \in OnDisk : disk' = [disk EXCEPT ![folder(r)] = v] /\ held' = HeldWith(folder(r), v)
    BY <1>18 DEF OutsideChange, OnDisk
  <2>3. CASE q = r
    <3>1. ~Wrote(q) BY <1>t, <2>1, <2>3 DEF CallsPlaced
    <3>2. QED BY <1>t, <2>1, <2>3, <3>1
      DEF Own, OwnDisk, OwnBuilds, OwnSection, OwnEdit, OwnReply, Wrote, TypeOK
  <2>4. CASE q # r
    <3>1. folder(r) \in Folders BY <1>f
    <3>2. pc'[q] = pc[q] /\ io'[q] = io[q] BY <1>t, <2>1, <2>4 DEF TypeOK
    <3>3. build[r] = "none" BY <2>1, <1>t DEF BuildsPlaced
    <3>4. pc[q] \in {"idle"} \cup Over => held'[q] = held[q]
      BY <2>2 DEF HeldWith
    <3>5. pc[q] \notin {"idle"} \cup Over =>
            held'[q] = [held[q] EXCEPT ![folder(r)] = @ \cup {v}]
      BY <2>2 DEF HeldWith
    <3>6. disk'[folder(r)] = v /\ \A g \in Folders : g # folder(r) => disk'[g] = disk[g]
      BY <1>t, <2>2, <3>1 DEF TypeOK
    <3>7. \A g \in Folders : held[q][g] \subseteq held'[q][g]
      <4>1. CASE pc[q] \in {"idle"} \cup Over BY <3>4, <4>1
      <4>2. CASE pc[q] \notin {"idle"} \cup Over
        <5>1. held'[q] = [held[q] EXCEPT ![folder(r)] = @ \cup {v}] BY <3>5, <4>2
        <5>2. held[q] \in [Folders -> SUBSET OnDisk] BY <1>t DEF TypeOK
        <5>3. QED BY <3>1, <5>1, <5>2
      <4>3. QED BY <4>1, <4>2
    <3>8. pc[q] \notin {"idle"} \cup Over => disk'[folder(r)] \in held'[q][folder(r)]
      BY <1>t, <3>1, <3>5, <3>6 DEF TypeOK
    <3>9. QED BY <1>14, <2>1, <2>4, <3>1, <3>2, <3>3, <3>4, <3>6, <3>7, <3>8
  <2>5. QED BY <2>3, <2>4
<1>19. CASE Expire \/ CoolDown \/ UNCHANGED vars
  <2>1. UNCHANGED <<disk, held, scan, build, reg, op, io, minGen, pc, reply>>
    BY <1>19 DEF Expire, CoolDown, vars
  <2>2. QED BY <2>1, OwnFrame
<1>20. ASSUME NEW r \in Requests, Server(r) PROVE Own(q)'
  BY <1>2, <1>3, <1>4, <1>5, <1>6, <1>7, <1>8, <1>9, <1>11, <1>12, <1>16, <1>17,
     <1>20, Zenon DEF Server
<1>21. ASSUME NEW r \in Requests, Environment(r) PROVE Own(q)'
  BY <1>1, <1>4, <1>18, <1>21, Zenon DEF Environment
<1>22. QED
  BY <1>19, <1>20, <1>21, Zenon DEF Next, AllServed

(* A mark or undo that took effect is visible in the view it answers with. *)
THEOREM WritesAreVisible == Spec => []OwnWriteVisible
<1>1. OwnWrites => OwnWriteVisible
  BY DEF OwnWrites, Own, OwnReply, OwnHeld, OwnWriteVisible
<1>2. Control /\ OwnWrites /\ [Next]_vars => Control' /\ OwnWrites'
  BY ControlStep, OwnStep
<1>3. QED
  BY ControlInit, OwnInit, <1>1, <1>2, PTL DEF Spec

-----------------------------------------------------------------------------
(* The store implements MarkerService.  Each call passes from phase to phase,
   and what it notes since its write is its own folder's held values; a step
   is one of the service's, or changes nothing that the service has. *)

(* Another program's change is over as soon as it has begun. *)
OutsidersPlaced ==
  \A r \in Requests : op[r].kind = "outside" => pc[r] \in {"idle", "done"}

LEMMA OutsidersInit == Init => OutsidersPlaced
BY DEF Init, OutsidersPlaced

LEMMA OutsidersStep == Control /\ OutsidersPlaced /\ [Next]_vars => OutsidersPlaced'
<1> SUFFICES ASSUME Control, OutsidersPlaced, [Next]_vars, NEW q \in Requests,
                    op'[q].kind = "outside"
             PROVE  pc'[q] \in {"idle", "done"}
  BY DEF OutsidersPlaced
<1>1. op' = op
  BY DEF Next, Server, Environment, Arrival, StartRead, StartRescan, StartMutation, Load,
         WriteMarker, DeleteMarker, EditMark, SpliceSection, EditFresh, Bump, Acquire, Join,
         Register, VisitFolder, FailRoot, StoreBuild, Resume, DropHandler, OutsideChange,
         Expire, CoolDown, AllServed, vars
<1>2. op[q].kind = "outside" /\ pc[q] \in {"idle", "done"} /\ q \notin Mutations
  BY <1>1 DEF OutsidersPlaced, Mutations
<1>3. TypeOK
  BY DEF Control
<1>4. QED
  BY <1>2, <1>3
  DEF Next, Server, Environment, Arrival, StartRead, StartRescan, StartMutation, Load,
      WriteMarker, DeleteMarker, EditMark, SpliceSection, EditFresh, Bump, Acquire, Join,
      Register, VisitFolder, FailRoot, StoreBuild, Resume, DropHandler, OutsideChange,
      Expire, CoolDown, AllServed, vars, Goto, Answer, IoWithoutEffect, TypeOK

(* Steps within a phase. *)
LEMMA ServiceStutters ==
  ASSUME UNCHANGED <<disk, op, held, reply>>,
         \A q \in Requests : Wrote(q)' = Wrote(q) /\ ServicePhase(q)' = ServicePhase(q)
  PROVE  UNCHANGED Service!vars
<1>1. UNCHANGED [r \in Requests |-> ServicePhase(r)]
  OBVIOUS
<1>2. UNCHANGED [r \in Requests |-> reply[r][folder(r)]]
  BY DEF folder
<1>3. UNCHANGED [r \in Requests |-> IF Wrote(r) THEN held[r][folder(r)] ELSE {}]
  BY DEF folder
<1>4. QED BY <1>1, <1>2, <1>3 DEF Service!vars

(* The end of a call, wherever it waited: what it wrote shows in the view. *)
LEMMA ServiceAnswers ==
  ASSUME TypeOK, TypeOK', OwnWriteVisible', NEW r \in Requests,
         pc[r] \notin {"idle"} \cup Over, pc' = [pc EXCEPT ![r] = "done"],
         \A q \in Requests \ {r} : reply'[q] = reply[q],
         UNCHANGED <<disk, op, io, held>>
  PROVE  Service!Next
<1>1. folder(r) \in Folders /\ \A q \in Requests : folder(q)' = folder(q) /\ Wrote(q)' = Wrote(q)
  BY OpsAssumption DEF TypeOK, folder, Wrote
<1>2. PICK s \in Service!Shown : s = reply'[r][folder(r)]
  BY <1>1 DEF TypeOK, Views, Shown, OnDisk, Service!Shown, Service!OnDisk
<1>3. ServicePhase(r) = IF Wrote(r) THEN "written" ELSE "called"
  BY DEF ServicePhase, Over
<1>4. Wrote(r) => s \in held[r][folder(r)] \cup {"unread"}
  BY <1>1, <1>2 DEF OwnWriteVisible, TypeOK
<1>5. [q \in Requests |-> ServicePhase(q)]'
        = [[q \in Requests |-> ServicePhase(q)] EXCEPT ![r] = "answered"]
  BY <1>1 DEF ServicePhase, TypeOK
<1>6. [q \in Requests |-> reply[q][folder(q)]]'
        = [[q \in Requests |-> reply[q][folder(q)]] EXCEPT ![r] = s]
  BY <1>1, <1>2
<1>7. UNCHANGED [q \in Requests |-> IF Wrote(q) THEN held[q][folder(q)] ELSE {}]
  BY <1>1
<1>8. Service!Answer(r, s)
  BY <1>3, <1>4, <1>5, <1>6, <1>7 DEF Service!Answer, Service!Enter
<1>9. QED BY <1>8 DEF Service!Next

(* The beginning of a call. *)
LEMMA ServiceCalls ==
  ASSUME TypeOK, CallsPlaced, NEW r \in Requests, op[r].kind # "outside",
         pc[r] = "idle", pc'[r] \in {"load", "lock", "io"},
         \A q \in Requests \ {r} : pc'[q] = pc[q] /\ held'[q] = held[q],
         UNCHANGED <<disk, op, io, reply>>
  PROVE  Service!Next
<1>1. \A q \in Requests : folder(q)' = folder(q) /\ Wrote(q)' = Wrote(q)
  BY DEF folder, Wrote
<1>2. ~Wrote(r)
  BY DEF CallsPlaced
<1>3. ServicePhase(r) = "idle"
  BY DEF ServicePhase
<1>4. [q \in Requests |-> ServicePhase(q)]'
        = [[q \in Requests |-> ServicePhase(q)] EXCEPT ![r] = "called"]
  BY <1>1, <1>2 DEF ServicePhase
<1>5. UNCHANGED [q \in Requests |-> reply[q][folder(q)]]
  BY <1>1
<1>6. UNCHANGED [q \in Requests |-> IF Wrote(q) THEN held[q][folder(q)] ELSE {}]
  BY <1>1, <1>2
<1>7. Service!Call(r)
  BY <1>3, <1>4, <1>5, <1>6 DEF Service!Call, Service!Enter
<1>8. QED BY <1>7 DEF Service!Next

(* The marker IO: the one step in which a call writes. *)
LEMMA ServiceWrites ==
  ASSUME TypeOK, TypeOK', CallsPlaced, NEW r \in Requests, NEW v \in OnDisk, pc[r] = "io",
         SetMarker(r, v), io' = [io EXCEPT ![r] = "applied"],
         NEW l \in {"edit", "section"}, Goto(r, l), UNCHANGED <<op, reply>>,
         \/ op[r].kind = "mark" /\ disk[folder(r)] = "bare" /\ v = "marked"
         \/ op[r].kind = "unmark" /\ v = "bare"
  PROVE  Service!Next
<1>1. \A q \in Requests : folder(q)' = folder(q) /\ folder(q) \in Folders
  BY OpsAssumption DEF folder, TypeOK
<1>2. ~Wrote(r) /\ Wrote(r)' /\ \A q \in Requests \ {r} : Wrote(q)' = Wrote(q)
  BY DEF CallsPlaced, Wrote, TypeOK
<1>3. /\ held'[r][folder(r)] = {v}
      /\ \A q \in Requests, f \in Folders :
           q # r => held'[q][f] =
                      IF f = folder(r) /\ pc[q] \notin {"idle"} \cup Over
                      THEN held[q][f] \cup {v} ELSE held[q][f]
  BY MarkerChange
<1>4. ServicePhase(r) = "called"
  BY <1>2 DEF ServicePhase
<1>5. [q \in Requests |-> ServicePhase(q)]'
        = [[q \in Requests |-> ServicePhase(q)] EXCEPT ![r] = "written"]
  <2>1. pc'[r] \in {"edit", "section"} /\ \A q \in Requests \ {r} : pc'[q] = pc[q]
    BY DEF Goto, TypeOK
  <2>2. ServicePhase(r)' = "written" /\ \A q \in Requests \ {r} : ServicePhase(q)' = ServicePhase(q)
    BY <1>2, <2>1 DEF ServicePhase
  <2>3. QED BY <2>2
<1>6. UNCHANGED [q \in Requests |-> reply[q][folder(q)]]
  BY <1>1
<1> DEFINE since == [q \in Requests |-> IF Wrote(q) THEN held[q][folder(q)] ELSE {}]
           noted == [q \in Requests |->
                       IF ServicePhase(q) = "written" /\ folder(q) = folder(r)
                       THEN since[q] \cup {v} ELSE since[q]]
<1>7. \A q \in Requests : ServicePhase(q) = "written" <=> Wrote(q) /\ pc[q] \notin {"idle"} \cup Over
  BY DEF ServicePhase, Over
<1>8. since' = [noted EXCEPT ![r] = {v}]
  <2>1. since'[r] = {v}
    BY <1>1, <1>2, <1>3
  <2>2. ASSUME NEW q \in Requests \ {r} PROVE since'[q] = noted[q]
    <3>1. CASE Wrote(q) /\ folder(q) = folder(r)
      BY <1>1, <1>2, <1>3, <1>7, <3>1
    <3>2. CASE ~(Wrote(q) /\ folder(q) = folder(r))
      BY <1>1, <1>2, <1>3, <1>7, <3>2
    <3>3. QED BY <3>1, <3>2
  <2>3. since' = [q \in Requests |-> since'[q]] /\ noted = [q \in Requests |-> noted[q]]
    OBVIOUS
  <2> HIDE DEF since, noted
  <2>4. QED BY <2>1, <2>2, <2>3
<1>9. Service!Noted(folder(r), v) = noted
  BY DEF Service!Noted, Service!own, folder
<1>10. disk' = [disk EXCEPT ![folder(r)] = v]
  BY DEF SetMarker
<1>11. Service!Write(r, v)
  BY <1>4, <1>5, <1>6, <1>8, <1>9, <1>10
  DEF Service!Write, Service!Becomes, Service!Enter, Service!own, folder
<1>12. v \in Service!OnDisk
  BY DEF OnDisk, Service!OnDisk
<1>13. QED BY <1>11, <1>12 DEF Service!Next

(* Another program's change: the calls that wrote to its folder note it. *)
LEMMA ServiceSeesOutside ==
  ASSUME TypeOK, CallsPlaced, NEW r \in Requests, OutsideChange(r)
  PROVE  Service!Next
<1>1. /\ pc[r] = "idle" /\ op[r].kind = "outside" /\ UNCHANGED <<op, io, reply>>
      /\ pc'[r] = "done" /\ \A q \in Requests \ {r} : pc'[q] = pc[q]
  BY DEF OutsideChange, Goto, TypeOK
<1>2. PICK v \in OnDisk : disk' = [disk EXCEPT ![folder(r)] = v] /\ held' = HeldWith(folder(r), v)
  BY DEF OutsideChange, OnDisk
<1>3. \A q \in Requests : folder(q)' = folder(q) /\ folder(q) \in Folders /\ Wrote(q)' = Wrote(q)
  BY <1>1, OpsAssumption DEF folder, Wrote, TypeOK
<1>4. ~Wrote(r) /\ ServicePhase(r) = "idle"
  BY <1>1 DEF CallsPlaced, ServicePhase
<1>5. [q \in Requests |-> ServicePhase(q)]'
        = [[q \in Requests |-> ServicePhase(q)] EXCEPT ![r] = "answered"]
  <2>1. ServicePhase(r)' = "answered" /\ \A q \in Requests \ {r} : ServicePhase(q)' = ServicePhase(q)
    BY <1>1, <1>3 DEF ServicePhase
  <2>2. QED BY <2>1
<1>6. UNCHANGED [q \in Requests |-> reply[q][folder(q)]]
  BY <1>1, <1>3
<1> DEFINE since == [q \in Requests |-> IF Wrote(q) THEN held[q][folder(q)] ELSE {}]
           noted == [q \in Requests |->
                       IF ServicePhase(q) = "written" /\ folder(q) = folder(r)
                       THEN since[q] \cup {v} ELSE since[q]]
<1>7. \A q \in Requests : ServicePhase(q) = "written" <=> Wrote(q) /\ pc[q] \notin {"idle"} \cup Over
  BY DEF ServicePhase, Over
<1>8. since' = noted
  <2>1. ASSUME NEW q \in Requests PROVE since'[q] = noted[q]
    <3>1. CASE pc[q] \in {"idle"} \cup Over
      BY <1>2, <1>3, <1>7, <3>1 DEF HeldWith
    <3>2. CASE pc[q] \notin {"idle"} \cup Over
      <4>1. held'[q] = [held[q] EXCEPT ![folder(r)] = @ \cup {v}]
        BY <1>2, <3>2 DEF HeldWith
      <4>2. held[q] \in [Folders -> SUBSET OnDisk]
        BY DEF TypeOK
      <4>3. held'[q][folder(q)] = IF folder(q) = folder(r) THEN held[q][folder(q)] \cup {v}
                                  ELSE held[q][folder(q)]
        BY <1>3, <4>1, <4>2
      <4>4. QED BY <1>3, <1>7, <3>2, <4>3
    <3>3. QED BY <3>1, <3>2
  <2>2. since' = [q \in Requests |-> since'[q]] /\ noted = [q \in Requests |-> noted[q]]
    OBVIOUS
  <2> HIDE DEF since, noted
  <2>3. QED BY <2>1, <2>2
<1>9. Service!Noted(folder(r), v) = noted
  BY DEF Service!Noted, Service!own, folder
<1>10. Service!Outside(r, v)
  BY <1>1, <1>2, <1>4, <1>5, <1>6, <1>8, <1>9
  DEF Service!Outside, Service!Becomes, Service!Enter, Service!own, folder
<1>11. v \in Service!OnDisk
  BY DEF OnDisk, Service!OnDisk
<1>12. QED BY <1>10, <1>11 DEF Service!Next

(* A client leaves a read or a rescan, never a mutation. *)
LEMMA ServiceLeaves ==
  ASSUME TypeOK, CallsPlaced, OutsidersPlaced, NEW r \in Requests, DropHandler(r)
  PROVE  Service!Next
<1>1. /\ pc[r] \in {"lock", "await"} /\ r \notin spawned
      /\ UNCHANGED <<disk, op, io, held, reply>>
      /\ pc'[r] = "dropped" /\ \A q \in Requests \ {r} : pc'[q] = pc[q]
  BY DEF DropHandler, Goto, TypeOK, history
<1>2. r \notin Mutations
  BY <1>1 DEF CallsPlaced
<1>3. ~Wrote(r)
  BY <1>2 DEF CallsPlaced
<1>4. op[r].kind \in {"read", "rescan"}
  <2>1. op[r].kind # "outside"
    BY <1>1 DEF OutsidersPlaced
  <2>2. op[r].kind \notin {"mark", "unmark"}
    BY <1>2 DEF Mutations
  <2>3. op[r] \in [kind : Kinds, folder : Folders]
    BY OpsAssumption DEF TypeOK
  <2>4. op[r].kind \in Kinds
    BY <2>3
  <2>5. QED BY <2>1, <2>2, <2>4 DEF Kinds
<1>5. ServicePhase(r) = "called"
  BY <1>1, <1>3 DEF ServicePhase
<1>6. [q \in Requests |-> ServicePhase(q)]'
        = [[q \in Requests |-> ServicePhase(q)] EXCEPT ![r] = "left"]
  <2>1. ServicePhase(r)' = "left" /\ \A q \in Requests \ {r} : ServicePhase(q)' = ServicePhase(q)
    BY <1>1 DEF ServicePhase, Wrote
  <2>2. QED BY <2>1
<1>7. UNCHANGED [q \in Requests |-> reply[q][folder(q)]]
  BY <1>1 DEF folder
<1>8. UNCHANGED [q \in Requests |-> IF Wrote(q) THEN held[q][folder(q)] ELSE {}]
  BY <1>1 DEF folder, Wrote
<1>9. Service!Leave(r)
  BY <1>1, <1>4, <1>5, <1>6, <1>7, <1>8 DEF Service!Leave, Service!Enter
<1>10. QED BY <1>9 DEF Service!Next

LEMMA ServiceInit == Init => Service!Init
<1> SUFFICES ASSUME Init PROVE Service!Init
  OBVIOUS
<1>1. \A r \in Requests : /\ ServicePhase(r) = "idle" /\ ~Wrote(r)
                          /\ reply[r] = Unread /\ folder(r) \in Folders
  BY OpsAssumption DEF Init, ServicePhase, Wrote, folder
<1>2. \A r \in Requests : reply[r][folder(r)] = "unread"
  BY <1>1 DEF Unread
<1>3. QED BY <1>1, <1>2 DEF Init, Service!Init, OnDisk, Service!OnDisk

LEMMA ServiceStep ==
  ASSUME Control, OutsidersPlaced, TypeOK', OwnWriteVisible', [Next]_vars
  PROVE  [Service!Next]_(Service!vars)
<1>t. TypeOK /\ CallsPlaced
  BY DEF Control
<1> DEFINE Served == Service!Next \/ UNCHANGED Service!vars
<1> SUFFICES Served
  OBVIOUS
<1> HIDE DEF Served
<1> USE DEF Served
<1>1. ASSUME NEW r \in Requests, StartRead(r) \/ StartRescan(r) \/ StartMutation(r)
      PROVE  Served
  <2>1. /\ pc[r] = "idle" /\ op[r].kind # "outside" /\ pc'[r] \in {"load", "lock", "io"}
        /\ UNCHANGED <<disk, op, io, reply>>
        /\ \A q \in Requests \ {r} : pc'[q] = pc[q] /\ held'[q] = held[q]
    BY <1>1, <1>t DEF StartRead, StartRescan, StartMutation, Goto, WatchFrom, Mutations, TypeOK
  <2>2. QED BY <1>t, <2>1, ServiceCalls
<1>2. ASSUME NEW r \in Requests,
             Load(r) \/ Acquire(r) \/ EditMark(r) \/ SpliceSection(r) \/ Resume(r)
      PROVE  Served
  <2>1. /\ pc[r] \in {"load", "lock", "edit", "section", "await"}
        /\ UNCHANGED <<disk, op, io, held>>
    BY <1>2 DEF Load, Acquire, EditMark, SpliceSection, EditFresh, Resume, history
  <2>2. \/ /\ pc' = [pc EXCEPT ![r] = "done"]
           /\ \A q \in Requests \ {r} : reply'[q] = reply[q]
        \/ /\ pc' = [pc EXCEPT ![r] = "lock"] \/ pc' = [pc EXCEPT ![r] = "bump"]
              \/ pc' = [pc EXCEPT ![r] = "join"]
           /\ UNCHANGED reply
    BY <1>2, <1>t
    DEF Load, Acquire, EditMark, SpliceSection, EditFresh, Resume, Answer, Goto, TypeOK
  <2>3. CASE /\ pc' = [pc EXCEPT ![r] = "done"]
             /\ \A q \in Requests \ {r} : reply'[q] = reply[q]
    BY <1>t, <2>1, <2>3, ServiceAnswers DEF Over
  <2>4. CASE /\ pc' = [pc EXCEPT ![r] = "lock"] \/ pc' = [pc EXCEPT ![r] = "bump"]
                \/ pc' = [pc EXCEPT ![r] = "join"]
             /\ UNCHANGED reply
    <3>1. \A q \in Requests : Wrote(q)' = Wrote(q) /\ ServicePhase(q)' = ServicePhase(q)
      BY <1>t, <2>1, <2>4 DEF ServicePhase, Wrote, TypeOK
    <3>2. QED BY <2>1, <2>4, <3>1, ServiceStutters
  <2>5. QED BY <2>2, <2>3, <2>4
<1>3. ASSUME NEW r \in Requests, WriteMarker(r) \/ DeleteMarker(r)
      PROVE  Served
  <2>1. /\ pc[r] = "io" /\ UNCHANGED <<op, reply>>
        /\ \/ IoWithoutEffect(r, "failed") \/ IoWithoutEffect(r, "existing")
           \/ /\ op[r].kind = "mark" /\ disk[folder(r)] = "bare"
              /\ SetMarker(r, "marked") /\ Goto(r, "edit")
              /\ io' = [io EXCEPT ![r] = "applied"]
           \/ /\ op[r].kind = "unmark" /\ SetMarker(r, "bare") /\ Goto(r, "section")
              /\ io' = [io EXCEPT ![r] = "applied"]
    BY <1>3 DEF WriteMarker, DeleteMarker
  <2>2. CASE IoWithoutEffect(r, "failed") \/ IoWithoutEffect(r, "existing")
    <3>1. ~Wrote(r)
      BY <1>t, <2>1 DEF CallsPlaced
    <3>2. \A q \in Requests : Wrote(q)' = Wrote(q) /\ ServicePhase(q)' = ServicePhase(q)
      BY <1>t, <2>1, <2>2, <3>1 DEF IoWithoutEffect, Goto, ServicePhase, Wrote, TypeOK
    <3>3. QED BY <2>1, <2>2, <3>2, ServiceStutters DEF IoWithoutEffect
  <2>3. CASE /\ op[r].kind = "mark" /\ disk[folder(r)] = "bare"
             /\ SetMarker(r, "marked") /\ Goto(r, "edit")
             /\ io' = [io EXCEPT ![r] = "applied"]
    <3>1. "marked" \in OnDisk
      BY DEF OnDisk
    <3>2. QED BY <1>t, <2>1, <2>3, <3>1, ServiceWrites
  <2>4. CASE /\ op[r].kind = "unmark" /\ SetMarker(r, "bare") /\ Goto(r, "section")
             /\ io' = [io EXCEPT ![r] = "applied"]
    <3>1. "bare" \in OnDisk
      BY DEF OnDisk
    <3>2. QED BY <1>t, <2>1, <2>4, <3>1, ServiceWrites
  <2>5. QED BY <2>1, <2>2, <2>3, <2>4
<1>4. ASSUME NEW r \in Requests, Bump(r) \/ Join(r) \/ Register(r)
      PROVE  Served
  <2>1. /\ UNCHANGED <<disk, op, io, held, reply>> /\ pc[r] \in {"bump", "join"}
        /\ pc' = [pc EXCEPT ![r] = "lock"] \/ pc' = [pc EXCEPT ![r] = "await"]
    BY <1>4 DEF Bump, Join, Register, Goto, history
  <2>2. \A q \in Requests : Wrote(q)' = Wrote(q) /\ ServicePhase(q)' = ServicePhase(q)
    BY <1>t, <2>1 DEF ServicePhase, Wrote, TypeOK
  <2>3. QED BY <2>1, <2>2, ServiceStutters
<1>5. ASSUME \/ Expire \/ CoolDown \/ AllServed \/ UNCHANGED vars
             \/ \E r \in Requests : VisitFolder(r) \/ FailRoot(r) \/ StoreBuild(r)
      PROVE  Served
  <2>1. UNCHANGED <<disk, op, io, held, reply, pc>>
    BY <1>5 DEF Expire, CoolDown, AllServed, VisitFolder, FailRoot, StoreBuild, vars, history
  <2>2. \A q \in Requests : Wrote(q)' = Wrote(q) /\ ServicePhase(q)' = ServicePhase(q)
    BY <2>1 DEF ServicePhase, Wrote
  <2>3. QED BY <2>1, <2>2, ServiceStutters
<1>6. ASSUME NEW r \in Requests, DropHandler(r) PROVE Served
  BY <1>t, <1>6, ServiceLeaves
<1>7. ASSUME NEW r \in Requests, OutsideChange(r) PROVE Served
  BY <1>t, <1>7, ServiceSeesOutside
<1>8. QED
  BY <1>1, <1>2, <1>3, <1>4, <1>5, <1>6, <1>7 DEF Next, Server, Environment, Arrival

(* The refinement: whatever the roots, folders and requests, every behaviour
   of the scan cache of state.rs is one of the service its handlers rely on.
   A mark or undo writes its own folder at most once, between its call and its
   answer, always gets that answer once it has written, and the answer shows
   the folder as it was at some moment since; reads and rescans change nothing. *)
THEOREM ImplementsService == Spec => ServiceSpec
<1>1. Init => Control /\ OutsidersPlaced /\ OwnWrites
  BY ControlInit, OwnInit, OutsidersInit
<1>2. Control /\ OutsidersPlaced /\ OwnWrites /\ [Next]_vars
        => Control' /\ OutsidersPlaced' /\ OwnWrites'
  BY ControlStep, OwnStep, OutsidersStep
<1>3. Control => TypeOK
  BY DEF Control
<1>4. OwnWrites => OwnWriteVisible
  BY DEF OwnWrites, Own, OwnReply, OwnHeld, OwnWriteVisible
<1>5. Control /\ OutsidersPlaced /\ TypeOK' /\ OwnWriteVisible' /\ [Next]_vars
        => [Service!Next]_(Service!vars)
  BY ServiceStep
<1>6. QED
  BY <1>1, <1>2, <1>3, <1>4, <1>5, ServiceInit, PTL DEF Spec, ServiceSpec, Service!Spec

-----------------------------------------------------------------------------
(* Walks coalesce *)

LEMMA CoalescedStep == Control /\ CoalescedWalks /\ [Next]_vars => CoalescedWalks'
<1> SUFFICES ASSUME Control, CoalescedWalks, [Next]_vars, NEW b \in Requests, Alive(b)'
             PROVE (b = inflight \/ \E r \in Requests : minGen[r] > reg[b])'
  BY Zenon DEF CoalescedWalks
<1>t. TypeOK /\ BuildsPlaced /\ CallsPlaced
  BY DEF Control
<1> USE DEF Goto, Answer, slot, coalescer, builds, history, Over
(* Most steps start no await, and leave the cell and what is recorded. *)
<1>1. ASSUME UNCHANGED <<inflight, reg, minGen, target>>,
             \A p \in Requests : pc'[p] = "await" => pc[p] = "await"
      PROVE  (b = inflight \/ \E r \in Requests : minGen[r] > reg[b])'
  <2>1. Alive(b) BY <1>1 DEF Alive
  <2>2. QED BY <1>1, <2>1 DEF CoalescedWalks
<1>2. ASSUME NEW r \in Requests, Arrival(r)
      PROVE  (b = inflight \/ \E p \in Requests : minGen[p] > reg[b])'
  BY <1>1, <1>2, <1>t DEF Arrival, StartRead, StartRescan, StartMutation, TypeOK
<1>3. ASSUME NEW r \in Requests, WriteMarker(r) \/ DeleteMarker(r)
      PROVE  (b = inflight \/ \E p \in Requests : minGen[p] > reg[b])'
  <2>1. /\ \/ Goto(r, "load") \/ Goto(r, "edit") \/ Goto(r, "section")
        /\ UNCHANGED <<inflight, reg, minGen, target>>
    BY <1>3 DEF WriteMarker, DeleteMarker, IoWithoutEffect
  <2>2. \A p \in Requests : pc'[p] = "await" => pc[p] = "await"
    BY <2>1, <1>t DEF TypeOK
  <2>3. QED BY <1>1, <2>1, <2>2
<1>4. ASSUME NEW r \in Requests, EditMark(r) \/ SpliceSection(r)
      PROVE  (b = inflight \/ \E p \in Requests : minGen[p] > reg[b])'
  <2>1. /\ \/ Goto(r, "done") \/ Goto(r, "bump")
        /\ UNCHANGED <<inflight, reg, minGen, target>>
    BY <1>4 DEF EditMark, SpliceSection, EditFresh
  <2>2. \A p \in Requests : pc'[p] = "await" => pc[p] = "await"
    BY <2>1, <1>t DEF TypeOK
  <2>3. QED BY <1>1, <2>1, <2>2
<1>5. ASSUME NEW r \in Requests, Load(r) \/ Acquire(r)
      PROVE  (b = inflight \/ \E p \in Requests : minGen[p] > reg[b])'
  <2>1. /\ \/ Goto(r, "done") \/ Goto(r, "lock") \/ Goto(r, "join")
        /\ UNCHANGED <<inflight, reg, minGen, target>>
    BY <1>5 DEF Load, Acquire
  <2>2. \A p \in Requests : pc'[p] = "await" => pc[p] = "await"
    BY <2>1, <1>t DEF TypeOK
  <2>3. QED BY <1>1, <2>1, <2>2
<1>6. ASSUME NEW r \in Requests, VisitFolder(r) \/ FailRoot(r) \/ StoreBuild(r)
      PROVE  (b = inflight \/ \E p \in Requests : minGen[p] > reg[b])'
  BY <1>1, <1>6 DEF VisitFolder, FailRoot, StoreBuild
<1>7. ASSUME NEW r \in Requests, Resume(r) \/ DropHandler(r) \/ OutsideChange(r)
      PROVE  (b = inflight \/ \E p \in Requests : minGen[p] > reg[b])'
  <2>1. /\ Goto(r, "done") \/ Goto(r, "dropped")
        /\ UNCHANGED <<inflight, reg, minGen, target>>
    BY <1>7 DEF Resume, DropHandler, OutsideChange
  <2>2. \A p \in Requests : pc'[p] = "await" => pc[p] = "await"
    BY <2>1, <1>t DEF TypeOK
  <2>3. QED BY <1>1, <2>1, <2>2
(* A bump only raises its request's minimum, from 0. *)
<1>8. ASSUME NEW r \in Requests, Bump(r)
      PROVE  (b = inflight \/ \E p \in Requests : minGen[p] > reg[b])'
  <2>1. /\ pc' = [pc EXCEPT ![r] = "lock"] /\ UNCHANGED <<inflight, reg, target>>
        /\ pc[r] = "bump" /\ minGen' = [minGen EXCEPT ![r] = gen + 1]
    BY <1>8 DEF Bump
  <2>2. Alive(b) BY <2>1, <1>t DEF Alive, TypeOK
  <2>3. CASE b = inflight BY <2>1, <2>3
  <2>4. CASE b # inflight
    <3>1. PICK p \in Requests : minGen[p] > reg[b] BY <2>2, <2>4 DEF CoalescedWalks
    <3>2. minGen[r] = 0 BY <1>t, <2>1 DEF CallsPlaced
    <3>3. p # r BY <1>t, <3>1, <3>2 DEF TypeOK
    <3>4. minGen'[p] = minGen[p] /\ reg'[b] = reg[b] BY <1>t, <2>1, <3>3 DEF TypeOK
    <3>5. QED BY <3>1, <3>4
  <2>5. QED BY <2>3, <2>4
(* A join awaits the cell's own build. *)
<1>9. ASSUME NEW r \in Requests, Join(r)
      PROVE  (b = inflight \/ \E p \in Requests : minGen[p] > reg[b])'
  <2>1. /\ UNCHANGED <<inflight, reg, minGen>>
        /\ pc' = [pc EXCEPT ![r] = "await"]
        /\ target' = [target EXCEPT ![r] = inflight]
    BY <1>9 DEF Join
  <2>2. b = inflight \/ Alive(b) BY <2>1, <1>t DEF Alive, TypeOK
  <2>3. QED BY <2>1, <2>2 DEF CoalescedWalks
(* A new build replaces one that is dead, or that its request refused. *)
<1>10. ASSUME NEW r \in Requests, Register(r)
       PROVE  (b = inflight \/ \E p \in Requests : minGen[p] > reg[b])'
  <2>1. /\ pc[r] = "join" /\ ~Joinable(r) /\ inflight' = r
        /\ reg' = [reg EXCEPT ![r] = gen]
        /\ pc' = [pc EXCEPT ![r] = "await"]
        /\ target' = [target EXCEPT ![r] = r]
        /\ UNCHANGED minGen
    BY <1>10 DEF Register
  <2>2. CASE b = r BY <2>1, <2>2
  <2>3. CASE b # r
    <3>1. Alive(b) BY <2>1, <2>3, <1>t DEF Alive, TypeOK
    <3>2. reg'[b] = reg[b] BY <2>1, <2>3, <1>t DEF TypeOK
    <3>3. CASE b = inflight
      <4>1. ~(reg[b] >= minGen[r])
        BY <2>1, <3>1, <3>3, NoRequestAssumption DEF Joinable
      <4>2. minGen[r] > reg[b] BY <4>1, <1>t DEF TypeOK
      <4>3. QED BY <2>1, <3>2, <4>2
    <3>4. CASE b # inflight BY <2>1, <3>1, <3>2, <3>4 DEF CoalescedWalks
    <3>5. QED BY <3>3, <3>4
  <2>4. QED BY <2>2, <2>3
<1>11. CASE Expire \/ CoolDown \/ UNCHANGED vars
  BY <1>1, <1>11 DEF Expire, CoolDown, vars
<1>12. ASSUME NEW r \in Requests, Server(r)
       PROVE  (b = inflight \/ \E p \in Requests : minGen[p] > reg[b])'
  BY <1>3, <1>4, <1>5, <1>6, <1>7, <1>8, <1>9, <1>10, <1>12, Zenon DEF Server
<1>13. ASSUME NEW r \in Requests, Environment(r)
       PROVE  (b = inflight \/ \E p \in Requests : minGen[p] > reg[b])'
  BY <1>2, <1>7, <1>13, Zenon DEF Environment
<1>14. QED
  BY <1>11, <1>12, <1>13, Zenon DEF Next, AllServed

(* Concurrent callers share one walk: a build with a caller is the one a
   newcomer joins, unless a mutation found it too old. *)
THEOREM WalksCoalesce == Spec => []CoalescedWalks
<1>1. Init => CoalescedWalks
  BY DEF Init, CoalescedWalks, Alive
<1>2. Control /\ CoalescedWalks /\ [Next]_vars => Control' /\ CoalescedWalks'
  BY ControlStep, CoalescedStep
<1>3. QED
  BY ControlInit, <1>1, <1>2, PTL DEF Spec

-----------------------------------------------------------------------------
(* InPlaceMarkSurvives.  While a folder's root is quiet, its marker stays on
   disk once written; so a walk that would store at the present generation,
   having registered after the mark's edit, reads it. *)

Quiet(f) == \A q \in Requests :
  op[q].kind \in {"unmark", "outside"} /\ folder(q) \in Siblings(f) => pc[q] = "idle"

Landed(r) == pc[r] = "done" /\ op[r].kind = "mark" /\ Wrote(r) /\ minGen[r] = 0

MarkOnDisk(r) ==
  op[r].kind = "mark" /\ Wrote(r) /\ Quiet(folder(r)) => disk[folder(r)] = "marked"

WalksShowMark(r) ==
  \A b \in Requests :
    Landed(r) /\ Quiet(folder(r)) /\ build[b] = "running" /\ reg[b] = gen
      => scan[b][folder(r)] \in {"marked", "unread", "unvisited"}

SlotShowsMark(r) ==
  Landed(r) /\ Quiet(folder(r)) => entry[folder(r)] \in {"marked", "unread"}

Kept(r) == MarkOnDisk(r) /\ WalksShowMark(r) /\ SlotShowsMark(r)
MarksKept == \A r \in Requests : Kept(r)

LEMMA KeptInit == Init => MarksKept
BY DEF Init, MarksKept, Kept, MarkOnDisk, WalksShowMark, SlotShowsMark, Landed, Wrote

(* Nothing goes back to idle, so a quiet root was quiet before. *)
LEMMA QuietBefore ==
  ASSUME op' = op, \A p \in Requests : pc'[p] = "idle" => pc[p] = "idle",
         NEW q \in Requests
  PROVE  Quiet(folder(q))' => Quiet(folder(q))
BY DEF Quiet, Siblings, folder

(* A step that leaves r's folder, the slot and the walks alone. *)
LEMMA KeptFrame ==
  ASSUME MarksKept, NEW q \in Requests,
         UNCHANGED <<op, gen, build, reg>>, Wrote(q)' => Wrote(q),
         entry'[folder(q)] = entry[folder(q)],
         Quiet(folder(q))' => disk'[folder(q)] = disk[folder(q)],
         \A p \in Requests : pc'[p] = "idle" => pc[p] = "idle",
         \A b \in Requests : build[b] = "running" =>
                               scan'[b][folder(q)] = scan[b][folder(q)],
         Landed(q)' => Landed(q)
  PROVE  Kept(q)'
<1>1. folder(q)' = folder(q) BY DEF folder
<1>2. Kept(q) BY DEF MarksKept
<1>3. Quiet(folder(q))' => Quiet(folder(q)) BY QuietBefore
<1>4. MarkOnDisk(q)' BY <1>1, <1>2, <1>3 DEF Kept, MarkOnDisk
<1>5. WalksShowMark(q)' BY <1>1, <1>2, <1>3 DEF Kept, WalksShowMark
<1>6. SlotShowsMark(q)' BY <1>1, <1>2, <1>3 DEF Kept, SlotShowsMark
<1>7. QED BY <1>4, <1>5, <1>6 DEF Kept

(* A step that moves on to a new generation: no running walk can store, and
   the slot's new view shows what the old one did, or the marker. *)
LEMMA KeptBump ==
  ASSUME Control, MarksKept, NEW q \in Requests,
         UNCHANGED <<disk, op, io, minGen, reg>>, gen' = gen + 1,
         \A p \in Requests : pc'[p] = "idle" => pc[p] = "idle",
         Landed(q)' /\ Quiet(folder(q))' =>
           \/ Landed(q) /\ entry'[folder(q)] = entry[folder(q)]
           \/ entry'[folder(q)] \in {"marked", "unread"}
  PROVE  Kept(q)'
<1>1. folder(q)' = folder(q) /\ Wrote(q)' = Wrote(q) BY DEF folder, Wrote
<1>2. Kept(q) BY DEF MarksKept
<1>3. Quiet(folder(q))' => Quiet(folder(q)) BY QuietBefore
<1>4. MarkOnDisk(q)' BY <1>1, <1>2, <1>3 DEF Kept, MarkOnDisk
<1>5. \A b \in Requests : reg'[b] # gen'
  BY DEF Control, GenerationsPast, TypeOK
<1>6. WalksShowMark(q)' BY <1>5 DEF WalksShowMark
<1>7. SlotShowsMark(q)' BY <1>1, <1>2, <1>3 DEF Kept, SlotShowsMark
<1>8. QED BY <1>4, <1>6, <1>7 DEF Kept

LEMMA KeptStep == Control /\ MarksKept /\ [Next]_vars => MarksKept'
<1> SUFFICES ASSUME Control, MarksKept, [Next]_vars, NEW q \in Requests PROVE Kept(q)'
  BY DEF MarksKept
<1>t. TypeOK /\ BuildsPlaced /\ CallsPlaced /\ GenerationsPast
  BY DEF Control
<1>k. Kept(q) BY DEF MarksKept
<1>f. \A r \in Requests : folder(r) \in Folders
  BY <1>t, OpsAssumption DEF TypeOK, folder
<1> USE DEF Goto, Answer, slot, coalescer, builds, history
(* Steps of r that change no folder, view or walk, and land no mark. *)
<1>1. ASSUME NEW r \in Requests,
             UNCHANGED <<disk, gen, entry, op, build, reg, scan, minGen>>,
             io' = io \/ (pc[r] = "io" /\ io'[r] # "applied"
                          /\ \A p \in Requests : p # r => io'[p] = io[p]),
             \E l \in PcStates \ {"idle"} : pc' = [pc EXCEPT ![r] = l],
             pc'[r] = "done" /\ Wrote(r) => minGen[r] > 0
      PROVE  Kept(q)'
  <2>1. \A p \in Requests : pc'[p] = "idle" => pc[p] = "idle" BY <1>1, <1>t DEF TypeOK
  <2>2. Wrote(q)' => Wrote(q) BY <1>1 DEF Wrote
  <2>3. Landed(q)' => Landed(q)
    <3>1. q # r => pc'[q] = pc[q] BY <1>1, <1>t DEF TypeOK
    <3>2. CASE q # r BY <1>1, <2>2, <3>1, <3>2 DEF Landed
    <3>3. CASE q = r
      BY <1>1, <1>t, <2>2, <3>3 DEF Landed, GenerationsPast, TypeOK
    <3>4. QED BY <3>2, <3>3
  <2>4. QED BY <1>1, <2>1, <2>2, <2>3, KeptFrame
<1>2. ASSUME NEW r \in Requests, Arrival(r) PROVE Kept(q)'
  <2>1. \E l \in PcStates \ {"idle", "done"} : pc' = [pc EXCEPT ![r] = l]
    BY <1>2 DEF Arrival, StartRead, StartRescan, StartMutation, PcStates
  <2>2. pc'[r] # "done" BY <1>t, <2>1 DEF TypeOK
  <2>3. UNCHANGED <<disk, gen, entry, op, io, build, reg, scan, minGen>>
    BY <1>2 DEF Arrival, StartRead, StartRescan, StartMutation
  <2>4. QED BY <1>1, <2>1, <2>2, <2>3
<1>3. ASSUME NEW r \in Requests, Load(r) \/ Acquire(r) PROVE Kept(q)'
  <2>1. \E l \in {"done", "lock", "join"} : pc' = [pc EXCEPT ![r] = l]
    BY <1>3 DEF Load, Acquire
  <2>2. pc'[r] = "done" /\ Wrote(r) => minGen[r] > 0
    BY <1>3, <1>t, <2>1 DEF Load, Acquire, Rechecks, CallsPlaced, TypeOK
  <2>3. UNCHANGED <<disk, gen, entry, op, io, build, reg, scan, minGen>>
    BY <1>3 DEF Load, Acquire
  <2>4. QED BY <1>1, <2>1, <2>2, <2>3 DEF PcStates
<1>4. ASSUME NEW r \in Requests, Join(r) \/ Resume(r) \/ DropHandler(r) PROVE Kept(q)'
  <2>1. \E l \in {"await", "done", "dropped"} : pc' = [pc EXCEPT ![r] = l]
    BY <1>4 DEF Join, Resume, DropHandler
  <2>2. pc'[r] = "done" => Resume(r)
    BY <1>4, <1>t DEF Join, DropHandler, TypeOK
  <2>3. pc'[r] = "done" /\ Wrote(r) => minGen[r] > 0
    BY <1>t, <2>2 DEF Resume, CallsPlaced
  <2>4. UNCHANGED <<disk, gen, entry, op, io, build, reg, scan, minGen>>
    BY <1>4 DEF Join, Resume, DropHandler
  <2>5. QED BY <1>1, <2>1, <2>3, <2>4 DEF PcStates
<1>5. ASSUME NEW r \in Requests, IoWithoutEffect(r, "failed") \/ IoWithoutEffect(r, "existing"),
             pc[r] = "io", UNCHANGED <<gen, entry, op, build, reg, minGen>>
      PROVE  Kept(q)'
  <2>1. /\ pc' = [pc EXCEPT ![r] = "load"] /\ UNCHANGED <<disk, scan>>
        /\ io'[r] # "applied" /\ \A p \in Requests : p # r => io'[p] = io[p]
    BY <1>5, <1>t DEF IoWithoutEffect, TypeOK
  <2>2. pc'[r] # "done" BY <1>t, <2>1 DEF TypeOK
  <2>3. QED BY <1>1, <1>5, <2>1, <2>2 DEF PcStates
(* A new marker is on disk; it has not landed in the slot yet. *)
<1>6. ASSUME NEW r \in Requests, SetMarker(r, "marked"), pc[r] = "io",
             io' = [io EXCEPT ![r] = "applied"], Goto(r, "edit"),
             UNCHANGED <<gen, entry, op, build, reg, scan, minGen>>
      PROVE  Kept(q)'
  <2>1. /\ disk'[folder(r)] = "marked"
        /\ \A g \in Folders \ {folder(r)} : disk'[g] = disk[g]
    BY <1>6, <1>t, MarkerChange DEF OnDisk
  <2>2. \A p \in Requests : pc'[p] = "idle" => pc[p] = "idle" BY <1>6, <1>t DEF TypeOK
  <2>3. folder(q)' = folder(q) /\ (Quiet(folder(q))' => Quiet(folder(q)))
    BY <1>6, <2>2, QuietBefore DEF folder
  <2>4. q # r => pc'[q] = pc[q] /\ io'[q] = io[q] BY <1>6, <1>t DEF TypeOK
  <2>5. pc'[r] = "edit" BY <1>6, <1>t DEF TypeOK
  <2>6. Landed(q)' => Landed(q) BY <1>6, <2>4, <2>5 DEF Landed, Wrote
  <2>7. MarkOnDisk(q)'
    <3>1. CASE folder(q) = folder(r) BY <2>1, <2>3, <3>1 DEF MarkOnDisk
    <3>2. CASE folder(q) # folder(r)
      <4>1. q # r /\ disk'[folder(q)] = disk[folder(q)] BY <1>f, <2>1, <3>2
      <4>2. QED BY <1>6, <1>k, <2>3, <2>4, <4>1 DEF Kept, MarkOnDisk, Wrote
    <3>3. QED BY <3>1, <3>2
  <2>8. WalksShowMark(q)' BY <1>6, <1>k, <2>3, <2>6 DEF Kept, WalksShowMark
  <2>9. SlotShowsMark(q)' BY <1>6, <1>k, <2>3, <2>6 DEF Kept, SlotShowsMark
  <2>10. QED BY <2>7, <2>8, <2>9 DEF Kept
<1>7. ASSUME NEW r \in Requests, WriteMarker(r) PROVE Kept(q)'
  <2>1. pc[r] = "io" /\ UNCHANGED <<gen, entry, op, build, reg, minGen>>
    BY <1>7 DEF WriteMarker
  <2>2. \/ IoWithoutEffect(r, "failed") \/ IoWithoutEffect(r, "existing")
        \/ SetMarker(r, "marked") /\ io' = [io EXCEPT ![r] = "applied"]
           /\ Goto(r, "edit") /\ UNCHANGED scan
    BY <1>7 DEF WriteMarker
  <2>3. QED BY <2>1, <2>2, <1>5, <1>6
(* An undo elsewhere: under a quiet root no request is past idle. *)
<1>8. ASSUME NEW r \in Requests, DeleteMarker(r) PROVE Kept(q)'
  <2>1. /\ pc[r] = "io" /\ op[r].kind = "unmark"
        /\ UNCHANGED <<gen, entry, op, build, reg, minGen>>
    BY <1>8 DEF DeleteMarker
  <2>2. CASE IoWithoutEffect(r, "failed") BY <1>5, <2>1, <2>2
  <2>3. CASE SetMarker(r, "bare") /\ io' = [io EXCEPT ![r] = "applied"]
             /\ Goto(r, "section") /\ scan' = [scan EXCEPT ![r] = Unvisited]
    <3>1. \A g \in Folders \ {folder(r)} : disk'[g] = disk[g]
      BY <2>3, <1>t, MarkerChange DEF OnDisk
    <3>2. \A p \in Requests : pc'[p] = "idle" => pc[p] = "idle" BY <2>3, <1>t DEF TypeOK
    <3>3. pc'[r] = "section" /\ (q # r => pc'[q] = pc[q] /\ io'[q] = io[q])
      BY <2>3, <1>t DEF TypeOK
    <3>4. Quiet(folder(q))' => folder(q) # folder(r)
      BY <1>f, <2>1, <3>3 DEF Quiet, Siblings, folder
    <3>5. CASE q = r BY <2>1, <3>5 DEF Kept, MarkOnDisk, WalksShowMark, SlotShowsMark, Landed
    <3>6. CASE q # r
      <4>1. Landed(q)' => Landed(q) BY <2>1, <3>3, <3>6 DEF Landed, Wrote
      <4>2. build[r] # "running" BY <1>t, <2>1 DEF BuildsPlaced, Over
      <4>3. \A b \in Requests : build[b] = "running" => scan'[b] = scan[b]
        BY <1>t, <2>3, <4>2 DEF TypeOK
      <4>4. Quiet(folder(q))' => disk'[folder(q)] = disk[folder(q)] BY <1>f, <3>1, <3>4
      <4>5. Wrote(q)' => Wrote(q) BY <3>3, <3>6 DEF Wrote
      <4>6. QED BY <2>1, <3>2, <4>1, <4>3, <4>4, <4>5, KeptFrame
    <3>7. QED BY <3>5, <3>6
  <2>4. QED BY <1>8, <2>2, <2>3 DEF DeleteMarker
<1>9. ASSUME NEW r \in Requests, OutsideChange(r) PROVE Kept(q)'
  <2>1. /\ pc[r] = "idle" /\ op[r].kind = "outside" /\ pc' = [pc EXCEPT ![r] = "done"]
        /\ \A g \in Folders : g # folder(r) => disk'[g] = disk[g]
        /\ UNCHANGED <<gen, entry, op, io, build, reg, scan, minGen>>
    BY <1>9, <1>t DEF OutsideChange, TypeOK
  <2>2. \A p \in Requests : pc'[p] = "idle" => pc[p] = "idle" BY <2>1, <1>t DEF TypeOK
  <2>3. pc'[r] = "done" BY <2>1, <1>t DEF TypeOK
  <2>4. Quiet(folder(q))' => disk'[folder(q)] = disk[folder(q)]
    <3>1. Quiet(folder(q))' => folder(q) # folder(r)
      BY <1>f, <2>1, <2>3 DEF Quiet, Siblings, folder
    <3>2. QED BY <1>f, <2>1, <3>1
  <2>5. Landed(q)' => Landed(q)
    <3>1. CASE q = r BY <2>1, <3>1 DEF Landed
    <3>2. CASE q # r BY <1>t, <2>1, <3>2 DEF Landed, Wrote, TypeOK
    <3>3. QED BY <3>1, <3>2
  <2>6. QED BY <2>1, <2>2, <2>4, <2>5, KeptFrame DEF Wrote
(* Edits of the slot. *)
<1>10. ASSUME NEW r \in Requests, NEW view, EditFresh(r, view),
              pc[r] \in {"edit", "section"},
              q = r /\ op[r].kind = "mark" => view[folder(q)] \in {"marked", "unread"},
              q # r /\ Landed(q) /\ Quiet(folder(q))' =>
                \/ view[folder(q)] = entry[folder(q)]
                \/ view[folder(q)] \in {"marked", "unread"}
       PROVE  Kept(q)'
  <2>1. CASE fresh /\ PutEntry(view) /\ Answer(r, view)
    <3>1. /\ UNCHANGED <<disk, op, io, minGen, reg>> /\ gen' = gen + 1 /\ entry' = view
          /\ pc' = [pc EXCEPT ![r] = "done"]
      BY <1>10, <2>1 DEF EditFresh, PutEntry
    <3>2. \A p \in Requests : pc'[p] = "idle" => pc[p] = "idle" BY <3>1, <1>t DEF TypeOK
    <3>3. q # r => (Landed(q)' => Landed(q))
      BY <1>t, <3>1 DEF Landed, Wrote, TypeOK
    <3>4. Landed(q)' => op[q].kind = "mark" BY <3>1 DEF Landed
    <3>5. QED BY <1>10, <3>1, <3>2, <3>3, <3>4, KeptBump
  <2>2. CASE ~fresh /\ Goto(r, "bump") /\ UNCHANGED <<gen, entry, reply>>
    <3>1. /\ pc' = [pc EXCEPT ![r] = "bump"]
          /\ UNCHANGED <<disk, gen, entry, op, io, build, reg, scan, minGen>>
      BY <1>10, <2>2 DEF EditFresh
    <3>2. pc'[r] # "done" BY <3>1, <1>t DEF TypeOK
    <3>3. QED BY <1>1, <3>1, <3>2 DEF PcStates
  <2>3. QED BY <1>10, <2>1, <2>2 DEF EditFresh
<1>11. ASSUME NEW r \in Requests, EditMark(r) PROVE Kept(q)'
  <2>1. \A g \in Folders :
          LET view == WithMark(entry, folder(r)) IN
            IF g = folder(r) THEN view[g] \in {"marked", "unread"}
            ELSE view[g] = entry[g]
    BY <1>f, <1>t DEF WithMark, TypeOK, Views
  <2>2. QED BY <1>f, <1>10, <1>11, <2>1 DEF EditMark
<1>12. ASSUME NEW r \in Requests, SpliceSection(r) PROVE Kept(q)'
  <2>1. pc[r] = "section" /\ op[r].kind = "unmark"
    BY <1>12, <1>t DEF SpliceSection, CallsPlaced
  <2>2. EditFresh(r, Spliced(entry, scan[r], folder(r))) BY <1>12 DEF SpliceSection
  <2>3. op' = op /\ pc'[r] # "idle"
    <3>1. op' = op BY <2>2 DEF EditFresh
    <3>2. Goto(r, "done") \/ Goto(r, "bump") BY <2>2 DEF EditFresh
    <3>3. QED BY <1>t, <3>1, <3>2 DEF TypeOK
  <2>4. Quiet(folder(q))' => folder(r) \notin Siblings(folder(q))
    BY <2>1, <2>3 DEF Quiet, Siblings, folder
  <2>5. Quiet(folder(q))' =>
          Spliced(entry, scan[r], folder(r))[folder(q)] = entry[folder(q)]
    BY <1>f, <2>4 DEF Spliced, Siblings
  <2>6. QED BY <1>10, <2>1, <2>2, <2>5
<1>13. ASSUME NEW r \in Requests, Bump(r) PROVE Kept(q)'
  <2>1. /\ pc[r] = "bump" /\ pc' = [pc EXCEPT ![r] = "lock"]
        /\ minGen' = [minGen EXCEPT ![r] = gen + 1] /\ gen' = gen + 1
        /\ UNCHANGED <<disk, entry, op, io, build, reg, scan>>
    BY <1>13 DEF Bump
  <2>2. \A p \in Requests : pc'[p] = "idle" => pc[p] = "idle" BY <2>1, <1>t DEF TypeOK
  <2>3. Landed(q)' => Landed(q)
    <3>1. q # r => pc'[q] = pc[q] /\ minGen'[q] = minGen[q] BY <2>1, <1>t DEF TypeOK
    <3>2. pc'[r] # "done" BY <2>1, <1>t DEF TypeOK
    <3>3. QED BY <2>1, <3>1, <3>2 DEF Landed, Wrote
  <2>4. \A b \in Requests : reg[b] # gen + 1 BY <1>t DEF GenerationsPast, TypeOK
  <2>5. folder(q)' = folder(q) /\ Wrote(q)' = Wrote(q)
        /\ (Quiet(folder(q))' => Quiet(folder(q)))
    BY <2>1, <2>2, QuietBefore DEF folder, Wrote
  <2>6. QED BY <1>k, <2>1, <2>3, <2>4, <2>5
    DEF Kept, MarkOnDisk, WalksShowMark, SlotShowsMark
(* Walks. *)
<1>14. ASSUME NEW r \in Requests, Register(r) PROVE Kept(q)'
  <2>1. /\ pc[r] = "join" /\ pc' = [pc EXCEPT ![r] = "await"]
        /\ scan' = [scan EXCEPT ![r] = Unvisited] /\ reg' = [reg EXCEPT ![r] = gen]
        /\ build' = [build EXCEPT ![r] = "running"]
        /\ UNCHANGED <<disk, gen, entry, op, io, minGen>>
    BY <1>14 DEF Register
  <2>2. \A p \in Requests : pc'[p] = "idle" => pc[p] = "idle" BY <2>1, <1>t DEF TypeOK
  <2>3. Landed(q)' => Landed(q) BY <2>1, <1>t DEF Landed, Wrote, TypeOK
  <2>4. folder(q)' = folder(q) /\ Wrote(q)' = Wrote(q)
        /\ (Quiet(folder(q))' => Quiet(folder(q)))
    BY <2>1, <2>2, QuietBefore DEF folder, Wrote
  <2>5. scan'[r][folder(q)] = "unvisited" BY <1>f, <1>t, <2>1 DEF Unvisited, TypeOK
  <2>6. \A b \in Requests : b # r => /\ scan'[b] = scan[b] /\ reg'[b] = reg[b]
                                     /\ build'[b] = build[b]
    BY <1>t, <2>1 DEF TypeOK
  <2>7. WalksShowMark(q)'
    BY <1>k, <2>1, <2>3, <2>4, <2>5, <2>6 DEF Kept, WalksShowMark
  <2>8. QED BY <1>k, <2>1, <2>3, <2>4, <2>7 DEF Kept, MarkOnDisk, SlotShowsMark
<1>15. ASSUME NEW r \in Requests, VisitFolder(r) \/ FailRoot(r) PROVE Kept(q)'
  <2>1. UNCHANGED <<disk, gen, entry, op, pc, io, minGen, build, reg>>
    BY <1>15 DEF VisitFolder, FailRoot
  <2>2. \A b \in Requests, f \in Folders : scan'[b][f] \in {scan[b][f], disk[f], "unread"}
    <3>1. CASE VisitFolder(r) BY <3>1, <1>t DEF VisitFolder, TypeOK
    <3>2. CASE FailRoot(r) BY <3>2, <1>t DEF FailRoot, TypeOK
    <3>3. QED BY <1>15, <3>1, <3>2
  <2>3. /\ folder(q)' = folder(q) /\ Wrote(q)' = Wrote(q) /\ Landed(q)' = Landed(q)
        /\ (Quiet(folder(q))' => Quiet(folder(q)))
    BY <2>1, QuietBefore DEF folder, Wrote, Landed
  <2>4. Landed(q) /\ Quiet(folder(q)) => disk[folder(q)] = "marked"
    BY <1>k DEF Kept, MarkOnDisk, Landed
  <2>5. WalksShowMark(q)' BY <1>f, <1>k, <2>1, <2>2, <2>3, <2>4 DEF Kept, WalksShowMark
  <2>6. QED BY <1>k, <2>1, <2>3, <2>5 DEF Kept, MarkOnDisk, SlotShowsMark
<1>16. ASSUME NEW r \in Requests, StoreBuild(r) PROVE Kept(q)'
  <2>1. /\ build[r] = "running" /\ Walked(r)
        /\ build' = [build EXCEPT ![r] = "finished"]
        /\ UNCHANGED <<disk, op, pc, io, minGen, reg, scan>>
    BY <1>16 DEF StoreBuild
  <2>2. Landed(q)' = Landed(q) BY <2>1 DEF Landed, Wrote
  <2>3. CASE reg[r] = gen /\ PutEntry(scan[r])
    <3>1. scan[r][folder(q)] # "unvisited" BY <1>f, <2>1 DEF Walked
    <3>2. Quiet(folder(q))' => Quiet(folder(q)) BY <2>1, QuietBefore
    <3>3. Landed(q) /\ Quiet(folder(q)) => scan[r][folder(q)] \in {"marked", "unread"}
      BY <1>k, <2>1, <2>3, <3>1 DEF Kept, WalksShowMark
    <3>4. QED BY <2>1, <2>2, <2>3, <3>2, <3>3, KeptBump DEF PutEntry
  <2>4. CASE UNCHANGED slot
    <3>1. folder(q)' = folder(q) /\ Wrote(q)' = Wrote(q)
          /\ (Quiet(folder(q))' => Quiet(folder(q)))
      BY <2>1, QuietBefore DEF folder, Wrote
    <3>2. \A b \in Requests : build'[b] = "running" => build[b] = "running"
      BY <1>t, <2>1 DEF TypeOK
    <3>3. QED BY <1>k, <2>1, <2>2, <2>4, <3>1, <3>2
      DEF Kept, MarkOnDisk, WalksShowMark, SlotShowsMark
  <2>5. QED BY <1>16, <2>3, <2>4 DEF StoreBuild
<1>17. CASE Expire \/ CoolDown \/ UNCHANGED vars
  <2>1. UNCHANGED <<disk, gen, entry, op, pc, io, minGen, build, reg, scan>>
    BY <1>17 DEF Expire, CoolDown, vars
  <2>2. QED BY <2>1, KeptFrame DEF Landed, Wrote
<1>18. ASSUME NEW r \in Requests, Server(r) PROVE Kept(q)'
  BY <1>3, <1>4, <1>7, <1>8, <1>11, <1>12, <1>13, <1>14, <1>15, <1>16, <1>18, Zenon
  DEF Server
<1>19. ASSUME NEW r \in Requests, Environment(r) PROVE Kept(q)'
  BY <1>2, <1>4, <1>9, <1>19, Zenon DEF Environment
<1>20. QED
  BY <1>17, <1>18, <1>19, Zenon DEF Next, AllServed

(* A mark edited into a fresh slot is not lost while its root is quiet. *)
THEOREM InPlaceMarksSurvive == Spec => []InPlaceMarkSurvives
<1>1. MarksKept => InPlaceMarkSurvives
  BY DEF MarksKept, Kept, SlotShowsMark, Landed, Wrote, Quiet, InPlaceMarkSurvives
<1>2. Control /\ MarksKept /\ [Next]_vars => Control' /\ MarksKept'
  BY ControlStep, KeptStep
<1>3. QED
  BY ControlInit, KeptInit, <1>1, <1>2, PTL DEF Spec

-----------------------------------------------------------------------------
(* SequentialEditsSettle.  While mutations come one at a time, the slot and
   the walks that may still be stored in it agree with the disk, but for the
   folder of the one mutation under way: from its marker IO until its edit, or
   until a walk registered after its bump is stored. *)

(* The folder's own edit or bump is still to come. *)
Exposed(f) ==
  \E r \in Requests : Wrote(r) /\ folder(r) = f /\ pc[r] \in {"edit", "section", "bump"}

(* ... or, after the bump, nothing has been stored yet. *)
Late(f) ==
  \/ Exposed(f)
  \/ \E r \in Requests : /\ Wrote(r) /\ folder(r) = f /\ pc[r] \in {"lock", "join", "await"}
                         /\ minGen[r] >= gen

OneAtATime == \A q, r \in Mutating : q = r

WalksAgree(f) ==
  \A b \in Requests :
    build[b] = "running" /\ reg[b] = gen
      => scan[b][f] \in {disk[f], "unread", "unvisited"} \/ Exposed(f)

SectionAgrees(f) ==
  \A r \in Requests :
    pc[r] = "section" => scan[r][f] \in {disk[f], "unread", "unvisited"}

SlotAgrees(f) == entry[f] \in {disk[f], "unread"} \/ Late(f)

EditIsOnDisk(f) ==
  \A r \in Requests : pc[r] = "edit" /\ folder(r) = f => disk[f] = "marked"

Agree(f) == WalksAgree(f) /\ SectionAgrees(f) /\ SlotAgrees(f) /\ EditIsOnDisk(f)

Settles == ~tangled => OneAtATime /\ \A f \in Folders : Agree(f)

LEMMA SettlesInit == Init => Settles
<1> SUFFICES ASSUME Init PROVE OneAtATime /\ \A f \in Folders : Agree(f)
  BY DEF Settles
<1>1. \A r \in Requests : pc[r] = "idle" /\ build[r] = "none"
  BY DEF Init
<1>2. \A f \in Folders : entry[f] = "unread"
  BY DEF Init, Unread
<1>3. OneAtATime
  BY <1>1 DEF OneAtATime, Mutating, Mutations
<1>4. QED
  BY <1>1, <1>2, <1>3 DEF Agree, WalksAgree, SectionAgrees, SlotAgrees, EditIsOnDisk

(* The mutation under way is the only request with a write to answer for. *)
LEMMA OneWriter ==
  ASSUME Control, OneAtATime, NEW r \in Requests,
         pc[r] \in {"io", "edit", "section", "bump"}, NEW q \in Requests, q # r
  PROVE  /\ pc[q] \notin {"io", "edit", "section", "bump"}
         /\ ~(Wrote(q) /\ pc[q] \in {"lock", "join", "await"})
<1>1. r \in Mutating
  BY DEF Control, CallsPlaced, Mutating, Over
<1>2. q \notin Mutating
  BY <1>1 DEF OneAtATime
<1>3. QED BY <1>2 DEF Control, CallsPlaced, Mutating, Over

(* A request that moves on, with nothing the slot or a walk shows changed. *)
LEMMA AgreeFrame ==
  ASSUME TypeOK, NEW x \in Folders, Agree(x), NEW r \in Requests,
         NEW l \in PcStates \ {"edit", "section"},
         Goto(r, l), UNCHANGED <<disk, gen, entry, op, build, reg, scan, minGen>>,
         \A q \in Requests : Wrote(q)' = Wrote(q),
         Wrote(r) => \/ pc[r] \in {"edit", "section"} /\ l = "bump"
                     \/ pc[r] \in {"lock", "join"} /\ l \in {"join", "await"}
                     \/ pc[r] = "await" /\ minGen[r] < gen
  PROVE  Agree(x)'
<1>1. pc'[r] = l /\ \A q \in Requests \ {r} : pc'[q] = pc[q]
  BY DEF TypeOK, Goto
<1>2. \A q \in Requests : folder(q)' = folder(q)
  BY DEF folder
<1>3. \A f \in Folders : Exposed(f) => Exposed(f)'
  <2> SUFFICES ASSUME NEW f \in Folders, Exposed(f) PROVE Exposed(f)'
    OBVIOUS
  <2>1. PICK q \in Requests : Wrote(q) /\ folder(q) = f /\ pc[q] \in {"edit", "section", "bump"}
    BY DEF Exposed
  <2>2. pc'[q] \in {"edit", "section", "bump"}
    BY <1>1, <2>1
  <2>3. QED BY <1>2, <2>1, <2>2 DEF Exposed
<1>4. \A f \in Folders : Late(f) => Late(f)'
  <2> SUFFICES ASSUME NEW f \in Folders, Late(f), ~Exposed(f) PROVE Late(f)'
    BY <1>3 DEF Late
  <2>1. PICK q \in Requests : /\ Wrote(q) /\ folder(q) = f
                              /\ pc[q] \in {"lock", "join", "await"} /\ minGen[q] >= gen
    BY DEF Late
  <2>2. pc'[q] \in {"lock", "join", "await"}
    BY <1>1, <2>1 DEF TypeOK
  <2>3. QED BY <1>2, <2>1, <2>2 DEF Late
<1>5. WalksAgree(x)'
  BY <1>3 DEF Agree, WalksAgree
<1>6. SectionAgrees(x)'
  BY <1>1 DEF Agree, SectionAgrees
<1>7. SlotAgrees(x)'
  BY <1>4 DEF Agree, SlotAgrees
<1>8. EditIsOnDisk(x)'
  BY <1>1, <1>2 DEF Agree, EditIsOnDisk
<1>9. QED BY <1>5, <1>6, <1>7, <1>8 DEF Agree

(* A marker IO that takes effect: its own folder is late from here on. *)
LEMMA AgreeWrite ==
  ASSUME Control, OneAtATime, NEW x \in Folders, Agree(x),
         NEW r \in Requests, NEW v \in OnDisk, pc[r] = "io",
         SetMarker(r, v), io' = [io EXCEPT ![r] = "applied"],
         NEW l \in {"edit", "section"}, Goto(r, l), UNCHANGED <<gen, entry, op, build, reg>>,
         l = "edit" => v = "marked" /\ UNCHANGED scan,
         l = "section" => scan' = [scan EXCEPT ![r] = Unvisited]
  PROVE  Agree(x)'
<1>t. TypeOK /\ BuildsPlaced /\ CallsPlaced
  BY DEF Control
<1>1. pc'[r] = l /\ \A q \in Requests \ {r} : pc'[q] = pc[q]
  BY <1>t DEF TypeOK, Goto
<1>2. \A q \in Requests : folder(q)' = folder(q)
  BY DEF folder
<1>3. /\ folder(r) \in Folders /\ disk'[folder(r)] = v
      /\ \A f \in Folders \ {folder(r)} : disk'[f] = disk[f]
  BY <1>t, MarkerChange
<1>4. \A f \in Folders : ~Late(f) /\ ~Exposed(f)
  <2>1. ~Wrote(r)
    BY <1>t DEF CallsPlaced
  <2>2. QED BY <2>1, OneWriter DEF Late, Exposed
<1>5. Wrote(r)'
  BY <1>t DEF Wrote, TypeOK
<1>6. \A f \in Folders : f = folder(r) => Exposed(f)'
  <2>1. folder(r)' = folder(r) /\ pc'[r] \in {"edit", "section", "bump"}
    BY <1>1, <1>2
  <2>2. QED BY <1>5, <2>1 DEF Exposed
<1>7. \A b \in Requests : build[b] = "running" => scan'[b] = scan[b]
  BY <1>t DEF BuildsPlaced, Over, TypeOK
<1>8. WalksAgree(x)'
  BY <1>3, <1>4, <1>6, <1>7 DEF Agree, WalksAgree
<1>9. SlotAgrees(x)'
  BY <1>3, <1>4, <1>6 DEF Agree, SlotAgrees, Late
<1>10. SectionAgrees(x)'
  <2> SUFFICES ASSUME NEW q \in Requests, pc'[q] = "section"
               PROVE  scan'[q][x] = "unvisited"
    BY DEF SectionAgrees
  <2>1. q = r
    BY <1>1, OneWriter
  <2>2. QED BY <1>1, <1>t, <2>1 DEF TypeOK, Unvisited
<1>11. EditIsOnDisk(x)'
  <2> SUFFICES ASSUME NEW q \in Requests, pc'[q] = "edit" PROVE disk'[folder(q)] = "marked"
    BY <1>2 DEF EditIsOnDisk
  <2>1. q = r
    BY <1>1, OneWriter
  <2>2. QED BY <1>1, <1>3, <2>1
<1>12. QED BY <1>8, <1>9, <1>10, <1>11 DEF Agree

(* An edit of the fresh slot, whose bump disqualifies the walks under way. *)
LEMMA AgreeEdit ==
  ASSUME Control, NEW x \in Folders, Agree(x), NEW r \in Requests, NEW view,
         EditFresh(r, view), pc[r] \in {"edit", "section"},
         view[x] \in {disk[x], "unread"}
  PROVE  Agree(x)'
<1>t. TypeOK /\ GenerationsPast
  BY DEF Control
<1>1. CASE PutEntry(view) /\ Answer(r, view)
  <2>1. pc'[r] = "done" /\ \A q \in Requests \ {r} : pc'[q] = pc[q]
    BY <1>1, <1>t DEF Answer, Goto, TypeOK
  <2>2. UNCHANGED <<disk, op, build, reg, scan>> /\ entry' = view /\ gen' = gen + 1
    BY <1>1 DEF EditFresh, builds, PutEntry
  <2>3. \A b \in Requests : reg'[b] # gen'
    BY <1>t, <2>2 DEF GenerationsPast, TypeOK
  <2>4. QED
    BY <2>1, <2>2, <2>3
    DEF Agree, WalksAgree, SectionAgrees, SlotAgrees, EditIsOnDisk, folder
<1>2. CASE Goto(r, "bump") /\ UNCHANGED <<gen, entry>>
  <2>1. UNCHANGED <<disk, op, io, build, reg, scan, minGen>>
    BY DEF EditFresh, builds
  <2>2. QED BY <1>2, <1>t, <2>1, AgreeFrame DEF Wrote, PcStates
<1>3. QED BY <1>1, <1>2 DEF EditFresh

LEMMA OneStep ==
  ASSUME Control, OneAtATime, [Next]_vars, ~tangled'
  PROVE  OneAtATime'
<1>t. TypeOK /\ CallsPlaced
  BY DEF Control
<1>1. op' = op /\ Mutations' = Mutations
  BY DEF Next, Server, Environment, Arrival, StartRead, StartRescan, StartMutation, Load,
         WriteMarker, DeleteMarker, EditMark, SpliceSection, EditFresh, Bump, Acquire, Join,
         Register, VisitFolder, FailRoot, StoreBuild, Resume, DropHandler, OutsideChange,
         Expire, CoolDown, AllServed, vars, Mutations
<1>2. CASE \E r \in Requests : StartMutation(r)
  <2>1. PICK r \in Requests : StartMutation(r)
    BY <1>2
  <2>2. Mutating = {} /\ \A q \in Requests \ {r} : pc'[q] = pc[q]
    BY <1>t, <2>1 DEF StartMutation, Goto, TypeOK
  <2>3. QED BY <1>1, <2>2 DEF OneAtATime, Mutating, Mutations
<1>3. CASE ~\E r \in Requests : StartMutation(r)
  <2>1. \A q \in Mutations : pc'[q] \notin {"idle"} \cup Over => pc[q] \notin {"idle"} \cup Over
    BY <1>3, <1>t
    DEF Next, Server, Environment, Arrival, StartRead, StartRescan, Load, Mutations,
        WriteMarker, DeleteMarker, EditMark, SpliceSection, EditFresh, Bump, Acquire, Join,
        Register, VisitFolder, FailRoot, StoreBuild, Resume, DropHandler, OutsideChange,
        Expire, CoolDown, AllServed, vars, Goto, Answer, IoWithoutEffect, TypeOK, Over
  <2>2. QED BY <1>1, <2>1 DEF OneAtATime, Mutating
<1>4. QED BY <1>2, <1>3

LEMMA AgreeStep ==
  ASSUME Control, OneAtATime, NEW x \in Folders, Agree(x), [Next]_vars, ~tangled'
  PROVE  Agree(x)'
<1>t. TypeOK /\ BuildsPlaced /\ CallsPlaced /\ GenerationsPast
  BY DEF Control
<1>f. \A r \in Requests : folder(r) \in Folders
  BY <1>t, OpsAssumption DEF TypeOK, folder
<1> USE DEF slot, coalescer, builds, history
(* Steps of a request that change nothing shown. *)
<1>1. ASSUME NEW r \in Requests, Arrival(r) PROVE Agree(x)'
  <2>1. PICK l \in {"load", "lock", "io"} : Goto(r, l)
    BY <1>1 DEF Arrival, StartRead, StartRescan, StartMutation
  <2>2. ~Wrote(r) /\ UNCHANGED <<disk, gen, entry, op, io, build, reg, scan, minGen>>
    BY <1>1, <1>t DEF Arrival, StartRead, StartRescan, StartMutation, CallsPlaced
  <2>3. QED BY <1>t, <2>1, <2>2, AgreeFrame DEF Wrote, PcStates
<1>2. ASSUME NEW r \in Requests, Load(r) \/ Acquire(r) PROVE Agree(x)'
  <2>1. PICK l \in {"done", "lock", "join"} : Goto(r, l)
    BY <1>2 DEF Load, Acquire, Answer
  <2>2. UNCHANGED <<disk, gen, entry, op, io, build, reg, scan, minGen>>
    BY <1>2 DEF Load, Acquire
  <2>3. Wrote(r) => pc[r] = "lock" /\ l = "join"
    BY <1>2, <1>t, <2>1 DEF Load, Acquire, Answer, Goto, Rechecks, CallsPlaced, TypeOK
  <2>4. QED BY <1>t, <2>1, <2>2, <2>3, AgreeFrame DEF Wrote, PcStates
<1>3. ASSUME NEW r \in Requests, Join(r) PROVE Agree(x)'
  BY <1>3, <1>t, AgreeFrame DEF Join, Wrote, PcStates
<1>4. ASSUME NEW r \in Requests, Resume(r) \/ DropHandler(r) PROVE Agree(x)'
  <2>1. PICK l \in Over : Goto(r, l)
    BY <1>4 DEF Resume, DropHandler, Answer, Over
  <2>2. UNCHANGED <<disk, gen, entry, op, io, build, reg, scan, minGen>>
    BY <1>4 DEF Resume, DropHandler
  <2>3. Wrote(r) => Resume(r)
    BY <1>4, <1>t DEF DropHandler, CallsPlaced
  <2>4. Resume(r) => pc[r] = "await" /\ minGen[r] < gen
    BY <1>t DEF Resume, GenerationsPast, TypeOK
  <2>5. QED BY <1>t, <2>1, <2>2, <2>3, <2>4, AgreeFrame DEF Wrote, PcStates, Over
<1>5. ASSUME NEW r \in Requests, pc[r] = "io",
             IoWithoutEffect(r, "failed") \/ IoWithoutEffect(r, "existing"),
             UNCHANGED <<gen, entry, op, build, reg, minGen>>
      PROVE  Agree(x)'
  <2>1. ~Wrote(r)
    BY <1>5, <1>t DEF CallsPlaced
  <2>2. \A q \in Requests : Wrote(q)' = Wrote(q)
    BY <1>5, <1>t, <2>1 DEF IoWithoutEffect, Wrote, TypeOK
  <2>3. QED BY <1>5, <1>t, <2>1, <2>2, AgreeFrame DEF IoWithoutEffect, PcStates
(* The mutation's own steps. *)
<1>6. ASSUME NEW r \in Requests, WriteMarker(r) PROVE Agree(x)'
  <2>1. pc[r] = "io" /\ UNCHANGED <<gen, entry, op, build, reg, minGen>>
    BY <1>6 DEF WriteMarker
  <2>2. \/ IoWithoutEffect(r, "failed") \/ IoWithoutEffect(r, "existing")
        \/ SetMarker(r, "marked") /\ io' = [io EXCEPT ![r] = "applied"]
           /\ Goto(r, "edit") /\ UNCHANGED scan
    BY <1>6 DEF WriteMarker
  <2>3. "marked" \in OnDisk
    BY DEF OnDisk
  <2>4. QED BY <1>5, <2>1, <2>2, <2>3, AgreeWrite
<1>7. ASSUME NEW r \in Requests, DeleteMarker(r) PROVE Agree(x)'
  <2>1. pc[r] = "io" /\ UNCHANGED <<gen, entry, op, build, reg, minGen>>
    BY <1>7 DEF DeleteMarker
  <2>2. \/ IoWithoutEffect(r, "failed")
        \/ SetMarker(r, "bare") /\ io' = [io EXCEPT ![r] = "applied"]
           /\ Goto(r, "section") /\ scan' = [scan EXCEPT ![r] = Unvisited]
    BY <1>7 DEF DeleteMarker
  <2>3. "bare" \in OnDisk
    BY DEF OnDisk
  <2>4. QED BY <1>5, <2>1, <2>2, <2>3, AgreeWrite
<1>8. ASSUME NEW r \in Requests, EditMark(r) PROVE Agree(x)'
  <2>1. pc[r] = "edit" /\ EditFresh(r, WithMark(entry, folder(r)))
    BY <1>8 DEF EditMark
  <2>2. WithMark(entry, folder(r))[x] \in {disk[x], "unread"}
    <3>1. CASE x = folder(r)
      BY <1>t, <2>1, <3>1 DEF WithMark, Agree, EditIsOnDisk, TypeOK, Views
    <3>2. CASE x # folder(r)
      <4>1. ~Late(x)
        BY <2>1, <3>2, OneWriter DEF Late, Exposed
      <4>2. QED BY <1>t, <3>2, <4>1 DEF WithMark, Agree, SlotAgrees, TypeOK, Views
    <3>3. QED BY <3>1, <3>2
  <2>3. QED BY <2>1, <2>2, AgreeEdit
<1>9. ASSUME NEW r \in Requests, SpliceSection(r) PROVE Agree(x)'
  <2>1. /\ pc[r] = "section" /\ SectionWalked(r)
        /\ EditFresh(r, Spliced(entry, scan[r], folder(r)))
    BY <1>9 DEF SpliceSection
  <2>2. Spliced(entry, scan[r], folder(r))[x] \in {disk[x], "unread"}
    <3>1. CASE x \in Siblings(folder(r))
      BY <2>1, <3>1 DEF Spliced, SectionWalked, Agree, SectionAgrees
    <3>2. CASE x \notin Siblings(folder(r))
      <4>1. x # folder(r)
        BY <3>2 DEF Siblings
      <4>2. ~Late(x)
        BY <2>1, <4>1, OneWriter DEF Late, Exposed
      <4>3. QED BY <3>2, <4>2 DEF Spliced, Agree, SlotAgrees
    <3>3. QED BY <3>1, <3>2
  <2>3. QED BY <2>1, <2>2, AgreeEdit
<1>10. ASSUME NEW r \in Requests, Bump(r) PROVE Agree(x)'
  <2>1. /\ pc[r] = "bump" /\ gen' = gen + 1 /\ minGen' = [minGen EXCEPT ![r] = gen + 1]
        /\ UNCHANGED <<disk, entry, op, io, build, reg, scan>> /\ Goto(r, "lock")
    BY <1>10 DEF Bump
  <2>2. pc'[r] = "lock" /\ minGen'[r] = gen' /\ \A q \in Requests \ {r} : pc'[q] = pc[q]
    BY <1>t, <2>1 DEF TypeOK, Goto
  <2>3. \A b \in Requests : reg'[b] # gen'
    BY <1>t, <2>1 DEF GenerationsPast, TypeOK
  <2>4. \A f \in Folders : Late(f) => f = folder(r)
    BY <2>1, OneWriter DEF Late, Exposed
  <2>5. \A f \in Folders : f = folder(r) => Late(f)'
    <3>1. Wrote(r)' /\ folder(r)' = folder(r)
      BY <1>t, <2>1 DEF CallsPlaced, Wrote, folder
    <3>2. minGen'[r] >= gen'
      BY <1>t, <2>1, <2>2 DEF TypeOK
    <3>3. QED BY <2>2, <3>1, <3>2 DEF Late
  <2>6. SlotAgrees(x)'
    BY <2>1, <2>4, <2>5 DEF Agree, SlotAgrees
  <2>7. QED
    BY <2>1, <2>2, <2>3, <2>6 DEF Agree, WalksAgree, SectionAgrees, EditIsOnDisk, folder
(* Walks. *)
<1>11. ASSUME NEW r \in Requests, Register(r) PROVE Agree(x)'
  <2>1. /\ pc[r] = "join" /\ pc' = [pc EXCEPT ![r] = "await"]
        /\ scan' = [scan EXCEPT ![r] = Unvisited] /\ reg' = [reg EXCEPT ![r] = gen]
        /\ build' = [build EXCEPT ![r] = "running"]
        /\ UNCHANGED <<disk, gen, entry, op, io, minGen>>
    BY <1>11 DEF Register, Goto
  <2>2. pc'[r] = "await" /\ \A q \in Requests \ {r} : pc'[q] = pc[q]
    BY <1>t, <2>1 DEF TypeOK
  <2>3. \A f \in Folders : Exposed(f)' = Exposed(f) /\ Late(f)' = Late(f)
    BY <2>1, <2>2 DEF Late, Exposed, Wrote, folder
  <2>4. /\ \A f \in Folders : scan'[r][f] = "unvisited"
        /\ \A b \in Requests \ {r} : scan'[b] = scan[b] /\ reg'[b] = reg[b] /\ build'[b] = build[b]
    BY <1>t, <2>1 DEF Unvisited, TypeOK
  <2>5. WalksAgree(x)'
    BY <2>1, <2>3, <2>4 DEF Agree, WalksAgree
  <2>6. QED
    BY <2>1, <2>2, <2>3, <2>4, <2>5 DEF Agree, SectionAgrees, SlotAgrees, EditIsOnDisk, folder
<1>12. ASSUME NEW r \in Requests, VisitFolder(r) \/ FailRoot(r) PROVE Agree(x)'
  <2>1. UNCHANGED <<disk, gen, entry, op, pc, io, minGen, build, reg>>
    BY <1>12 DEF VisitFolder, FailRoot
  <2>2. \A b \in Requests, f \in Folders : scan'[b][f] \in {scan[b][f], disk[f], "unread"}
    <3>1. CASE VisitFolder(r) BY <3>1, <1>t DEF VisitFolder, TypeOK
    <3>2. CASE FailRoot(r) BY <3>2, <1>t DEF FailRoot, TypeOK
    <3>3. QED BY <1>12, <3>1, <3>2
  <2>3. \A f \in Folders : Exposed(f)' = Exposed(f) /\ Late(f)' = Late(f)
    BY <2>1 DEF Late, Exposed, Wrote, folder
  <2>4. WalksAgree(x)' /\ SectionAgrees(x)'
    BY <2>1, <2>2, <2>3 DEF Agree, WalksAgree, SectionAgrees
  <2>5. QED BY <2>1, <2>3, <2>4 DEF Agree, SlotAgrees, EditIsOnDisk, folder
<1>13. ASSUME NEW r \in Requests, StoreBuild(r) PROVE Agree(x)'
  <2>1. /\ build[r] = "running" /\ Walked(r)
        /\ build' = [build EXCEPT ![r] = "finished"]
        /\ UNCHANGED <<disk, op, pc, io, minGen, reg, scan>>
    BY <1>13 DEF StoreBuild
  <2>2. \A f \in Folders : Exposed(f)' = Exposed(f)
    BY <2>1 DEF Exposed, Wrote, folder
  <2>3. SectionAgrees(x)' /\ EditIsOnDisk(x)'
    BY <2>1 DEF Agree, SectionAgrees, EditIsOnDisk, folder
  <2>4. CASE reg[r] = gen /\ PutEntry(scan[r])
    <3>1. entry' = scan[r] /\ gen' = gen + 1
      BY <2>4 DEF PutEntry
    <3>2. WalksAgree(x)'
      BY <1>t, <2>1, <3>1 DEF WalksAgree, GenerationsPast, TypeOK
    <3>3. scan[r][x] \in {disk[x], "unread"} \/ Exposed(x)
      BY <2>1, <2>4 DEF Agree, WalksAgree, Walked
    <3>4. SlotAgrees(x)'
      BY <2>1, <2>2, <3>1, <3>3 DEF SlotAgrees, Late
    <3>5. QED BY <2>3, <3>2, <3>4 DEF Agree
  <2>5. CASE UNCHANGED slot
    <3>1. \A f \in Folders : Late(f)' = Late(f)
      BY <2>1, <2>2, <2>5 DEF Late, Wrote, folder
    <3>2. \A b \in Requests : build'[b] = "running" => build[b] = "running"
      BY <1>t, <2>1 DEF TypeOK
    <3>3. WalksAgree(x)' /\ SlotAgrees(x)'
      BY <2>1, <2>2, <2>5, <3>1, <3>2 DEF Agree, WalksAgree, SlotAgrees
    <3>4. QED BY <2>3, <3>3 DEF Agree
  <2>6. QED BY <1>13, <2>4, <2>5 DEF StoreBuild
<1>14. CASE Expire \/ CoolDown \/ UNCHANGED vars
  <2>1. UNCHANGED <<disk, gen, entry, op, pc, io, minGen, build, reg, scan>>
    BY <1>14 DEF Expire, CoolDown, vars
  <2>2. QED
    BY <2>1 DEF Agree, WalksAgree, SectionAgrees, SlotAgrees, EditIsOnDisk, Late, Exposed,
                Wrote, folder
<1>15. ASSUME NEW r \in Requests, OutsideChange(r) PROVE FALSE
  BY <1>15 DEF OutsideChange
<1>16. ASSUME NEW r \in Requests, Server(r) PROVE Agree(x)'
  BY <1>2, <1>3, <1>4, <1>6, <1>7, <1>8, <1>9, <1>10, <1>11, <1>12, <1>13, <1>16, Zenon
  DEF Server
<1>17. ASSUME NEW r \in Requests, Environment(r) PROVE Agree(x)'
  BY <1>1, <1>4, <1>15, <1>17, Zenon DEF Environment
<1>18. QED
  BY <1>14, <1>16, <1>17, Zenon DEF Next, AllServed

LEMMA SettlesStep == Control /\ Settles /\ [Next]_vars => Settles'
<1> SUFFICES ASSUME Control, Settles, [Next]_vars, ~tangled' PROVE OneAtATime' /\ \A f \in Folders : Agree(f)'
  BY DEF Settles
<1>1. ~tangled
  BY DEF Next, Server, Environment, Arrival, StartRead, StartRescan, StartMutation, Load,
         WriteMarker, DeleteMarker, EditMark, SpliceSection, EditFresh, Bump, Acquire, Join,
         Register, VisitFolder, FailRoot, StoreBuild, Resume, DropHandler, OutsideChange,
         Expire, CoolDown, AllServed, vars, history
<1>2. QED BY <1>1, OneStep, AgreeStep DEF Settles

(* Mutations that do not overlap leave the slot showing what is on disk,
   whatever reads, rescans, expiries and failed walks run beside them. *)
THEOREM SequentialEditsAlwaysSettle == Spec => []SequentialEditsSettle
<1>1. Control /\ Settles => SequentialEditsSettle
  <2> SUFFICES ASSUME Control, Settles, ~tangled, Mutating = {}, NEW f \in Folders
               PROVE  entry[f] \in {disk[f], "unread"}
    BY DEF SequentialEditsSettle
  <2>1. ~Late(f)
    BY DEF Control, CallsPlaced, Late, Exposed, Mutating, Over
  <2>2. QED BY <2>1 DEF Settles, Agree, SlotAgrees
<1>2. Control /\ Settles /\ [Next]_vars => Control' /\ Settles'
  BY ControlStep, SettlesStep
<1>3. QED
  BY ControlInit, SettlesInit, <1>1, <1>2, PTL DEF Spec
=============================================================================
