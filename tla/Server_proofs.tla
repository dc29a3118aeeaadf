---------------------------- MODULE Server_proofs ----------------------------
(***************************************************************************)
(* Proofs about Server, for any requests, cap and surroundings.            *)
(***************************************************************************)
EXTENDS Server, FiniteSetTheorems, SequenceTheorems, TLAPS

Held == {r \in Request : at[r] \in Holding}

(* The queue is made of those waiting, each once. *)
QueueOK ==
  /\ \A i \in 1..Len(queue) : at[queue[i]] = "queued"
  /\ \A i, j \in 1..Len(queue) : queue[i] = queue[j] => i = j

(* Until shutdown::signal resolves it awaits every handler it has installed; *)
(* it resolves on a signal, and the server drains on its resolving.          *)
ListenerOK ==
  /\ listener # "resolved" => installed = Awaited(listener)
  /\ listener = "resolved" => received # {}
  /\ phase \in {"draining", "stopping"} => listener = "resolved"

(* A write not yet begun is awaited by its client or was abandoned by it. *)
WritesOK ==
  /\ \A t \in Request \cup {Startup} :
       stage[t] \in {"asked", "writing", "written"} => t \in Request /\ Work[t] = "write"
  /\ \A r \in Request :
       /\ at[r] = "reading" => Work[r] = "write"
       /\ stage[r] = "asked" => (at[r] = "awaiting" /\ task[r] = r) \/ r \in gone

(* main returns when no connection has a request, and nothing is discarded   *)
(* before.                                                                   *)
StoppedIdle ==
  /\ phase = "stopping" => \A r \in Request : at[r] = "none"
  /\ phase \notin {"stopping", "exited"} => lost = {}

(* No task runs before the server does. *)
Dormant == phase \in {"starting", "configured"} => \A t \in DOMAIN stage : stage[t] = "none"

(* What is served is what the surroundings gave. *)
ConfigOK ==
  phase = "configured" =>
    Refusal(setup) = "none" /\ roots = RootsOf(setup) /\ bind = BindOf(setup)

RequestsOK == QueueOK /\ NoPermitLost /\ WritesOK /\ StoppedIdle /\ AwaitedWritesKept
Inv == TypeOK /\ RequestsOK /\ Dormant /\ ListenerOK /\ ConfigOK

-----------------------------------------------------------------------------
(* Lemmas on the queue and on who holds a permit. *)

LEMMA RemovalKeepsTheRest ==
  ASSUME NEW q \in Seq(Request), NEW i \in 1..Len(q)
  PROVE  /\ RemoveAt(q, i) \in Seq(Request)
         /\ Len(RemoveAt(q, i)) = Len(q) - 1
         /\ \A j \in 1..Len(q) - 1 :
              RemoveAt(q, i)[j] = IF j < i THEN q[j] ELSE q[j + 1]
<1> DEFINE before == SubSeq(q, 1, i - 1)
           after == SubSeq(q, i + 1, Len(q))
<1>1. /\ before \in Seq(Request) /\ Len(before) = i - 1
      /\ \A j \in 1..i - 1 : before[j] = q[j]
  BY SubSeqProperties
<1>2. /\ after \in Seq(Request) /\ Len(after) = Len(q) - i
      /\ \A j \in 1..Len(q) - i : after[j] = q[j + i]
  BY SubSeqProperties
<1> HIDE DEF before, after
<1>3. /\ before \o after \in Seq(Request)
      /\ Len(before \o after) = Len(before) + Len(after)
      /\ \A j \in 1..Len(before) + Len(after) :
           (before \o after)[j] =
             IF j <= Len(before) THEN before[j] ELSE after[j - Len(before)]
  BY <1>1, <1>2, ConcatProperties
<1>4. ASSUME NEW j \in 1..Len(q) - 1
      PROVE  (before \o after)[j] = IF j < i THEN q[j] ELSE q[j + 1]
  BY <1>1, <1>2, <1>3
<1>5. RemoveAt(q, i) = before \o after
  BY DEF RemoveAt, before, after
<1>6. QED BY <1>1, <1>2, <1>3, <1>4, <1>5

(* Taking out the one place a request has leaves the others, each once. *)
LEMMA RemovalKeepsQueue ==
  ASSUME TypeOK, QueueOK, NEW i \in 1..Len(queue), NEW p \in Places,
         queue' = RemoveAt(queue, i), at' = [at EXCEPT ![queue[i]] = p]
  PROVE  queue' \in Seq(Request) /\ QueueOK'
<1>1. /\ queue \in Seq(Request) /\ Len(queue) \in Nat /\ queue[i] \in Request
      /\ \A k \in 1..Len(queue) : queue[k] \in Request /\ at[queue[k]] = "queued"
      /\ \A j, k \in 1..Len(queue) : queue[j] = queue[k] => j = k
  BY DEF TypeOK, QueueOK
<1>2. /\ queue' \in Seq(Request) /\ Len(queue') = Len(queue) - 1
      /\ \A j \in 1..Len(queue) - 1 : queue'[j] = IF j < i THEN queue[j] ELSE queue[j + 1]
  BY <1>1, RemovalKeepsTheRest
<1> DEFINE origin(j) == IF j < i THEN j ELSE j + 1
<1>3. ASSUME NEW j \in 1..Len(queue')
      PROVE  /\ origin(j) \in 1..Len(queue) /\ origin(j) # i
             /\ queue'[j] = queue[origin(j)]
  BY <1>1, <1>2
<1>4. \A j, k \in 1..Len(queue') : origin(j) = origin(k) => j = k
  BY <1>2
<1> HIDE DEF origin
<1>5. ASSUME NEW j \in 1..Len(queue') PROVE at'[queue'[j]] = "queued"
  <2>1. queue'[j] # queue[i] /\ queue'[j] \in Request /\ at[queue'[j]] = "queued"
    BY <1>1, <1>3
  <2>2. QED BY <2>1 DEF TypeOK
<1>6. ASSUME NEW j \in 1..Len(queue'), NEW k \in 1..Len(queue'), queue'[j] = queue'[k]
      PROVE  j = k
  <2>1. queue[origin(j)] = queue[origin(k)]
    BY <1>3, <1>6
  <2>2. origin(j) = origin(k)
    BY <1>1, <1>3, <2>1
  <2>3. QED BY <1>4, <2>2
<1>7. QED BY <1>2, <1>5, <1>6 DEF QueueOK

LEMMA QueueKept ==
  ASSUME TypeOK, QueueOK, queue' = queue,
         \A r \in Request : at[r] = "queued" => at'[r] = "queued"
  PROVE  QueueOK'
<1>1. \A i \in 1..Len(queue) : queue[i] \in Request
  BY DEF TypeOK
<1>2. QED BY <1>1 DEF QueueOK

LEMMA HeldIsFinite ==
  ASSUME TypeOK
  PROVE  IsFiniteSet(Held) /\ Cardinality(Held) \in Nat
BY RequestAssumption, FS_Subset, FS_CardinalityType DEF Held

LEMMA PermitsCounted == NoPermitLost <=> permits + Cardinality(Held) = Cap
BY DEF NoPermitLost, Held

(* A request that comes to hold a permit, or stops, moves the count by one. *)
LEMMA Taken ==
  ASSUME TypeOK, NEW r \in Request, NEW p \in Holding, at[r] \notin Holding,
         at' = [at EXCEPT ![r] = p]
  PROVE  Cardinality(Held') = Cardinality(Held) + 1
<1>1. Held' = Held \cup {r} /\ r \notin Held
  BY DEF TypeOK, Held
<1>2. QED BY <1>1, HeldIsFinite, FS_AddElement

LEMMA Released ==
  ASSUME TypeOK, NEW r \in Request, NEW p \in Places \ Holding, at[r] \in Holding,
         at' = [at EXCEPT ![r] = p]
  PROVE  Cardinality(Held') = Cardinality(Held) - 1
<1>1. Held' = Held \ {r} /\ r \in Held
  BY DEF TypeOK, Held
<1>2. QED BY <1>1, HeldIsFinite, FS_RemoveElement

LEMMA Kept ==
  ASSUME TypeOK, at' \in [Request -> Places],
         \A r \in Request : at'[r] \in Holding <=> at[r] \in Holding
  PROVE  Held' = Held
BY DEF Held

-----------------------------------------------------------------------------
(* The invariant, action by action. *)

LEMMA InvInit == Init => Inv
<1> SUFFICES ASSUME Init PROVE Inv
  OBVIOUS
<1>1. TypeOK
  BY CapAssumption, SetupsAssumption
     DEF Init, TypeOK, Phases, Places, Binds, Signals, Stages, Listeners
<1>2. Held = {} /\ Cardinality(Held) = 0
  BY FS_EmptySet DEF Init, Held, Holding
<1>3. NoPermitLost
  BY <1>2, CapAssumption DEF Init, NoPermitLost, Held
<1>4. QueueOK /\ WritesOK /\ StoppedIdle /\ AwaitedWritesKept
  BY DEF Init, QueueOK, WritesOK, StoppedIdle, AwaitedWritesKept
<1>5. Dormant /\ ListenerOK /\ ConfigOK
  BY DEF Init, Dormant, ListenerOK, Awaited, ConfigOK
<1>6. QED BY <1>1, <1>3, <1>4, <1>5 DEF Inv, RequestsOK

(* Steps of main leave the requests and the listener as they are. *)
LEMMA InvMain ==
  ASSUME Inv, PrintConfig \/ Configure \/ Refuse \/ Drain \/ Return \/ Exit
  PROVE  Inv'
<1> USE DEF Inv, config, requests, tasks, signals
<1>1. UNCHANGED <<requests, signals>>
  BY DEF PrintConfig, Configure, Refuse, Drain, Return, Exit
<1>2. /\ RootsOf(setup) \in {Unset, "file", "env"}
      /\ phase = "starting" => BindOf(setup) \in Binds
      /\ Refusal(setup) \in {"none", "1", "2"}
  <2>1. phase = "starting" => setup \in SetupSpace
    BY SetupsAssumption DEF TypeOK
  <2>2. phase = "starting" => setup.envBind \in Binds \cup {Unset}
                               /\ setup.fileBind \in Binds \cup {Unset}
    BY <2>1 DEF SetupSpace
  <2>3. QED BY <2>2, Zenon DEF RootsOf, BindOf, Refusal, Binds
<1>3. TypeOK'
  BY <1>1, <1>2 DEF TypeOK, Phases, PrintConfig, Configure, Refuse, Drain, Return, Exit
<1>4. QueueOK' /\ NoPermitLost' /\ WritesOK' /\ AwaitedWritesKept'
  BY <1>1 DEF RequestsOK, QueueOK, NoPermitLost, WritesOK, AwaitedWritesKept
<1>5. StoppedIdle'
  BY <1>1 DEF RequestsOK, StoppedIdle, ConnectionsIdle,
              PrintConfig, Configure, Refuse, Drain, Return, Exit
<1>6. ListenerOK'
  BY <1>1 DEF ListenerOK, Awaited, PrintConfig, Configure, Refuse, Drain, Return, Exit
<1>7. Dormant' /\ ConfigOK'
  BY <1>1 DEF Dormant, ConfigOK, PrintConfig, Configure, Refuse, Drain, Return, Exit
<1>8. QED BY <1>3, <1>4, <1>5, <1>6, <1>7 DEF RequestsOK

LEMMA InvBoot == ASSUME Inv, Boot PROVE Inv'
<1> USE DEF Inv, Boot, signals, RequestsOK
<1>1. TypeOK'
  BY DEF TypeOK, Phases, Stages, Asked
<1>2. WritesOK'
  BY RequestAssumption DEF WritesOK, TypeOK
<1>3. QED
  BY <1>1, <1>2 DEF QueueOK, NoPermitLost, StoppedIdle, AwaitedWritesKept,
                    Dormant, ListenerOK, Awaited, ConfigOK

(* Steps of the operating system and of shutdown::signal. *)
LEMMA InvSignals ==
  ASSUME Inv, (\E s \in Signals : Deliver(s)) \/ InstallTerm \/ InstallInt \/ Hear
  PROVE  Inv'
<1> USE DEF Inv, config, requests, tasks
<1>1. UNCHANGED <<config, requests>>
  BY DEF Deliver, InstallTerm, InstallInt, Hear
<1>2. TypeOK'
  <2>1. CASE \E s \in Signals : Deliver(s)
    BY <1>1, <2>1 DEF TypeOK, Phases, Deliver
  <2>2. CASE InstallTerm \/ Hear
    BY <1>1, <2>2 DEF TypeOK, Signals, Listeners, InstallTerm, Hear
  <2>3. CASE InstallInt
    BY <1>1, <2>3 DEF TypeOK, Signals, Listeners, InstallInt, WithoutInt
  <2>4. QED BY <2>1, <2>2, <2>3
<1>3. QueueOK' /\ NoPermitLost' /\ WritesOK' /\ AwaitedWritesKept'
  BY <1>1 DEF RequestsOK, QueueOK, NoPermitLost, WritesOK, AwaitedWritesKept
<1>4. StoppedIdle' /\ Dormant' /\ ConfigOK'
  BY <1>1 DEF RequestsOK, StoppedIdle, Dormant, ConfigOK, Deliver, InstallTerm, InstallInt, Hear
<1>5. ListenerOK'
  <2>1. CASE \E s \in Signals : Deliver(s)
    BY <2>1 DEF ListenerOK, Awaited, Deliver, TypeOK
  <2>2. CASE InstallTerm
    BY <2>2 DEF ListenerOK, Awaited, InstallTerm, TypeOK, Signals
  <2>3. CASE InstallInt
    BY <2>3 DEF ListenerOK, Awaited, InstallInt, WithoutInt, TypeOK, Signals
  <2>4. CASE Hear
    BY <2>4 DEF ListenerOK, Hear
  <2>5. QED BY <2>1, <2>2, <2>3, <2>4
<1>6. QED BY <1>2, <1>3, <1>4, <1>5 DEF RequestsOK

(* A step of requests and tasks: main and the signals stay as they are, so   *)
(* only the queue, the count and the writes matter.                          *)
LEMMA InvRequests ==
  ASSUME Inv, UNCHANGED <<phase, code, config, signals>>,
         at' \in [Request -> Places],
         task' \in [Request -> Request \cup {Startup}],
         stage' \in [Request \cup {Startup} -> Stages],
         gone' \subseteq Request, lost' \subseteq Request,
         queue' \in Seq(Request), QueueOK',
         permits' \in Nat, permits' + Cardinality(Held') = Cap,
         WritesOK', AwaitedWritesKept', Open \/ at' = at,
         phase = "stopping" \/ lost' = lost,
         phase \notin {"starting", "configured"}
  PROVE  Inv'
<1> USE DEF Inv, config, signals
<1>1. TypeOK'
  <2>1. IsFiniteSet(Held') /\ Cardinality(Held') \in Nat
    BY RequestAssumption, FS_Subset, FS_CardinalityType DEF Held
  <2>2. permits' \in 0..Cap
    BY <2>1, CapAssumption
  <2>3. QED BY <2>2 DEF TypeOK
<1>2. NoPermitLost'
  BY DEF NoPermitLost, Held
<1>3. StoppedIdle'
  BY DEF RequestsOK, StoppedIdle, Open
<1>4. Dormant' /\ ListenerOK' /\ ConfigOK'
  BY DEF Dormant, ListenerOK, Awaited, ConfigOK
<1>5. QED BY <1>1, <1>2, <1>3, <1>4 DEF RequestsOK

(* Coming and going of requests whose tasks stay as they are. *)
LEMMA InvOpen ==
  ASSUME Inv, Open, UNCHANGED <<phase, code, config, signals, stage, lost>>,
         at' \in [Request -> Places],
         task' \in [Request -> Request \cup {Startup}],
         gone' \subseteq Request,
         queue' \in Seq(Request), QueueOK',
         permits' \in Nat, permits' + Cardinality(Held') = Cap,
         \A r \in Request :
           /\ at'[r] = "reading" => Work[r] = "write"
           /\ stage[r] = "asked" => (at'[r] = "awaiting" /\ task'[r] = r) \/ r \in gone'
  PROVE  Inv'
<1>1. WritesOK'
  BY DEF Inv, RequestsOK, WritesOK
<1>2. lost = {}
  BY DEF Inv, RequestsOK, StoppedIdle, Open
<1>3. QED BY <1>1, <1>2, InvRequests DEF Inv, TypeOK, AwaitedWritesKept, Open

LEMMA InvArrive == ASSUME Inv, NEW r \in Request, Arrive(r) PROVE Inv'
<1> USE DEF Inv, TypeOK, RequestsOK
<1>1. at' = [at EXCEPT ![r] = "arriving"] /\ at' \in [Request -> Places] /\ at[r] = "none"
  BY DEF Arrive, Move, Places
<1>2. QueueOK'
  BY <1>1, QueueKept DEF Arrive
<1>3. Held' = Held
  BY <1>1, Kept DEF Holding
<1>4. \A q \in Request :
        /\ at'[q] = "reading" => Work[q] = "write"
        /\ stage[q] = "asked" => (at'[q] = "awaiting" /\ task'[q] = q) \/ q \in gone'
  BY <1>1 DEF WritesOK, Arrive
<1>5. QED BY <1>1, <1>2, <1>3, <1>4, InvOpen, PermitsCounted DEF Arrive, Open

LEMMA InvHeadRead == ASSUME Inv, NEW r \in Request, HeadRead(r) PROVE Inv'
<1> USE DEF Inv, TypeOK, RequestsOK, tasks
<1>1. /\ at' = [at EXCEPT ![r] = "queued"] /\ at' \in [Request -> Places] /\ at[r] = "arriving"
      /\ queue' = Append(queue, r) /\ queue' \in Seq(Request)
      /\ Len(queue') = Len(queue) + 1 /\ Len(queue) \in Nat
  BY DEF HeadRead, Move, Places
<1>2. \A i \in 1..Len(queue) : queue'[i] = queue[i] /\ queue[i] \in Request /\ queue[i] # r
  BY <1>1 DEF QueueOK
<1>3. queue'[Len(queue) + 1] = r
  BY <1>1
<1>4. QueueOK'
  BY <1>1, <1>2, <1>3 DEF QueueOK
<1>5. Held' = Held
  BY <1>1, Kept DEF Holding
<1>6. \A q \in Request :
        /\ at'[q] = "reading" => Work[q] = "write"
        /\ stage[q] = "asked" => (at'[q] = "awaiting" /\ task'[q] = q) \/ q \in gone'
  BY <1>1 DEF WritesOK, HeadRead
<1>7. QED BY <1>1, <1>4, <1>5, <1>6, InvOpen, PermitsCounted DEF HeadRead

LEMMA InvAdmit == ASSUME Inv, Admit PROVE Inv'
<1> USE DEF Inv, TypeOK, RequestsOK, tasks
<1>1. /\ 1 \in 1..Len(queue) /\ queue[1] \in Request
      /\ at' = [at EXCEPT ![queue[1]] = "running"] /\ at' \in [Request -> Places]
  BY DEF Admit, Move, NextInLine, Places, Holding
<1>2. queue' \in Seq(Request) /\ QueueOK'
  BY <1>1, RemovalKeepsQueue DEF Admit, NextInLine, Places, Holding
<1>3. Cardinality(Held') = Cardinality(Held) + 1
  BY <1>1, Taken DEF QueueOK, Holding
<1>4. permits' = permits - 1 /\ permits' \in Nat
  BY DEF Admit
<1>5. permits' + Cardinality(Held') = Cap
  BY <1>3, <1>4, HeldIsFinite, CapAssumption, PermitsCounted
<1>6. at[queue[1]] = "queued"
  BY <1>1 DEF QueueOK
<1>7. \A q \in Request :
        /\ at'[q] = "reading" => Work[q] = "write"
        /\ stage[q] = "asked" => (at'[q] = "awaiting" /\ task'[q] = q) \/ q \in gone'
  BY <1>1, <1>6 DEF WritesOK, Admit
<1>8. QED BY <1>1, <1>2, <1>4, <1>5, <1>7, InvOpen DEF Admit

(* A handler answers, reads on, joins or spawns, its permit in hand. *)
LEMMA InvBegin == ASSUME Inv, NEW r \in Request, Begin(r) \/ FormRead(r) PROVE Inv'
<1> USE DEF Inv, TypeOK, RequestsOK
<1>1. /\ UNCHANGED <<phase, code, config, queue, permits, gone, lost, signals>> /\ Open
      /\ at[r] \in {"running", "reading"}
  BY DEF Begin, FormRead
<1> DEFINE Moved(p) == at' = [at EXCEPT ![r] = p]
           Spawned(first) == /\ Moved("awaiting") /\ task' = [task EXCEPT ![r] = r]
                             /\ stage' = [stage EXCEPT ![r] = first]
<1>2. \/ Moved("answered") /\ UNCHANGED <<task, stage>>
      \/ /\ Moved("awaiting") /\ UNCHANGED stage /\ Work[r] = "page"
         /\ \E t \in Request \cup {Startup} : task' = [task EXCEPT ![r] = t]
      \/ Spawned("walk asked")
      \/ Moved("reading") /\ Work[r] = "write" /\ UNCHANGED <<task, stage>>
      \/ Spawned("asked") /\ Work[r] = "write"
  <2>1. at[r] = "reading" => Work[r] = "write"
    BY DEF WritesOK
  <2>2. DOMAIN stage = Request \cup {Startup}
    OBVIOUS
  <2>3. QED BY <2>1, <2>2 DEF Begin, FormRead, Spawn, Stage, Move
<1>3. PICK p \in {"answered", "awaiting", "reading"} : at' = [at EXCEPT ![r] = p]
  BY <1>2
<1>4. /\ at' \in [Request -> Places]
      /\ at'[r] = p /\ \A q \in Request \ {r} : at'[q] = at[q]
  BY <1>3 DEF Places, Holding
<1>5. /\ task' \in [Request -> Request \cup {Startup}]
      /\ stage' \in [Request \cup {Startup} -> Stages]
      /\ \A q \in Request \ {r} : task'[q] = task[q]
      /\ \A t \in (Request \cup {Startup}) \ {r} : stage'[t] = stage[t]
  <2>1. \/ UNCHANGED task
        \/ \E t \in Request \cup {Startup} : task' = [task EXCEPT ![r] = t]
    BY <1>2
  <2>2. \/ UNCHANGED stage
        \/ \E a \in Asked : stage' = [stage EXCEPT ![r] = a]
    BY <1>2 DEF Asked
  <2>3. Asked \subseteq Stages
    BY DEF Stages
  <2>4. QED BY <2>1, <2>2, <2>3
<1>6. QueueOK'
  BY <1>1, <1>3, QueueKept
<1>7. Held' = Held
  BY <1>1, <1>3, <1>4, Kept DEF Holding
<1>8. /\ at'[r] = "reading" => Work[r] = "write"
      /\ stage'[r] \in {"asked", "writing", "written"} => Work[r] = "write"
      /\ stage'[r] = "asked" => (at'[r] = "awaiting" /\ task'[r] = r) \/ r \in gone
  BY <1>1, <1>2, <1>4 DEF WritesOK
<1>9. WritesOK'
  BY <1>1, <1>4, <1>5, <1>8 DEF WritesOK
<1>10. AwaitedWritesKept'
  BY <1>1 DEF AwaitedWritesKept
<1>11. QED
  BY <1>1, <1>4, <1>5, <1>6, <1>7, <1>9, <1>10, InvRequests, PermitsCounted DEF Open

LEMMA InvRespond == ASSUME Inv, NEW r \in Request, Respond(r) PROVE Inv'
<1> USE DEF Inv, TypeOK, RequestsOK, tasks
<1>1. at' = [at EXCEPT ![r] = "sending"] /\ at[r] = "answered"
  BY DEF Respond, Move
<1>2. at' \in [Request -> Places] /\ "sending" \in Places \ Holding
  BY <1>1 DEF Places, Holding
<1>3. QueueOK'
  BY <1>1, QueueKept DEF Respond
<1>4. Cardinality(Held') = Cardinality(Held) - 1
  BY <1>1, <1>2, Released DEF Holding
<1>5. permits' = permits + 1
  BY DEF Respond
<1>6. permits' + Cardinality(Held') = Cap
  BY <1>4, <1>5, HeldIsFinite, CapAssumption, PermitsCounted
<1>7. \A q \in Request :
        /\ at'[q] = "reading" => Work[q] = "write"
        /\ stage[q] = "asked" => (at'[q] = "awaiting" /\ task'[q] = q) \/ q \in gone'
  BY <1>1 DEF WritesOK, Respond
<1>8. QED BY <1>2, <1>3, <1>5, <1>6, <1>7, InvOpen DEF Respond

LEMMA InvSent == ASSUME Inv, NEW r \in Request, Sent(r) PROVE Inv'
<1> USE DEF Inv, TypeOK, RequestsOK, tasks
<1>1. at' = [at EXCEPT ![r] = "none"] /\ at[r] = "sending"
  BY DEF Sent, Move
<1>2. at' \in [Request -> Places]
  BY <1>1 DEF Places
<1>3. QueueOK'
  BY <1>1, QueueKept DEF Sent
<1>4. Held' = Held
  BY <1>1, <1>2, Kept DEF Holding
<1>5. \A q \in Request :
        /\ at'[q] = "reading" => Work[q] = "write"
        /\ stage[q] = "asked" => (at'[q] = "awaiting" /\ task'[q] = q) \/ q \in gone'
  BY <1>1 DEF WritesOK, Sent
<1>6. QED BY <1>2, <1>3, <1>4, <1>5, InvOpen, PermitsCounted DEF Sent

(* A client leaves from the queue, from under a permit, or from neither. *)
LEMMA InvLeave == ASSUME Inv, NEW r \in Request, Leave(r) PROVE Inv'
<1> USE DEF Inv, TypeOK, RequestsOK
<1>1. /\ at' = [at EXCEPT ![r] = "none"] /\ at' \in [Request -> Places]
      /\ "none" \in Places \ Holding
  BY DEF Leave, Move, Places, Holding
<1>2. /\ task' = [task EXCEPT ![r] = r] /\ task' \in [Request -> Request \cup {Startup}]
      /\ gone' \subseteq Request
  BY DEF Leave
<1>3. queue' \in Seq(Request) /\ QueueOK'
  <2>1. CASE at[r] = "queued"
    BY <1>1, <2>1, RemovalKeepsQueue DEF Leave
  <2>2. CASE at[r] # "queued"
    BY <1>1, <2>2, QueueKept DEF Leave
  <2>3. QED BY <2>1, <2>2
<1>4. permits' \in Nat /\ permits' + Cardinality(Held') = Cap
  <2>1. CASE at[r] \in Holding
    <3>1. Cardinality(Held') = Cardinality(Held) - 1
      BY <1>1, <2>1, Released
    <3>2. permits' = permits + 1
      BY <2>1 DEF Leave, GivenBack
    <3>3. QED BY <3>1, <3>2, HeldIsFinite, CapAssumption, PermitsCounted
  <2>2. CASE at[r] \notin Holding
    <3>1. Held' = Held
      BY <1>1, <2>2, Kept
    <3>2. QED BY <3>1, <2>2, PermitsCounted DEF Leave, GivenBack
  <2>3. QED BY <2>1, <2>2
<1>5. \A q \in Request :
        /\ at'[q] = "reading" => Work[q] = "write"
        /\ stage[q] = "asked" => (at'[q] = "awaiting" /\ task'[q] = q) \/ q \in gone'
  BY <1>1, <1>2 DEF WritesOK, Leave
<1>6. QED BY <1>1, <1>2, <1>3, <1>4, <1>5, InvOpen DEF Leave

LEMMA Awake ==
  ASSUME Inv, NEW t \in Request \cup {Startup}, stage[t] # "none"
  PROVE  phase \notin {"starting", "configured"}
BY DEF Inv, TypeOK, Dormant

(* The pool's steps and a rebuild move a task on; none comes to be asked. *)
LEMMA InvPool ==
  ASSUME Inv, NEW t \in Request \cup {Startup},
         StartBlocking(t) \/ BlockingReturns(t) \/ Rebuild(t)
  PROVE  Inv'
<1> USE DEF Inv, TypeOK, RequestsOK
<1>1. /\ UNCHANGED <<phase, code, config, at, task, queue, permits, gone, lost, signals>>
      /\ stage' \in [Request \cup {Startup} -> Stages]
      /\ \A u \in (Request \cup {Startup}) \ {t} : stage'[u] = stage[u]
      /\ stage[t] # "none" /\ stage'[t] # "asked"
      /\ stage'[t] \in {"writing", "written"} => stage[t] \in {"asked", "writing"}
  BY DEF StartBlocking, BlockingReturns, Rebuild, Stage, Stages, Asked, Running, Returned
<1>2. WritesOK'
  BY <1>1 DEF WritesOK
<1>3. QueueOK' /\ AwaitedWritesKept' /\ Held' = Held
  BY <1>1 DEF QueueOK, AwaitedWritesKept, Held
<1>4. QED BY <1>1, <1>2, <1>3, Awake, InvRequests, PermitsCounted

LEMMA InvFinish == ASSUME Inv, NEW t \in Request \cup {Startup}, Finish(t) PROVE Inv'
<1> USE DEF Inv, TypeOK, RequestsOK
<1>1. /\ \A r \in Request : \/ at'[r] = at[r]
                            \/ at[r] = "awaiting" /\ task[r] = t /\ at'[r] = "answered"
      /\ \A r \in Request : task[r] # t => task'[r] = task[r]
  BY DEF Finish
<1>2. at' \in [Request -> Places]
  BY DEF Finish, Places, Holding
<1>3. /\ task' \in [Request -> Request \cup {Startup}]
      /\ stage' \in [Request \cup {Startup} -> Stages]
      /\ stage'[t] = "none" /\ stage[t] # "asked"
      /\ \A u \in (Request \cup {Startup}) \ {t} : stage'[u] = stage[u]
      /\ UNCHANGED <<phase, code, config, queue, permits, gone, lost, signals>>
  BY DEF Finish, Stage, Stages, Returned
<1>4. QueueOK'
  BY <1>1, <1>3, QueueKept
<1>5. Held' = Held
  BY <1>1, <1>2, Kept DEF Holding
<1>6. WritesOK'
  <2>1. \A u \in Request \cup {Startup} :
          stage'[u] \in {"asked", "writing", "written"} => u \in Request /\ Work[u] = "write"
    BY <1>3 DEF WritesOK
  <2>2. \A r \in Request : at'[r] = "reading" => Work[r] = "write"
    BY <1>1 DEF WritesOK
  <2>3. ASSUME NEW r \in Request, stage'[r] = "asked"
        PROVE  (at'[r] = "awaiting" /\ task'[r] = r) \/ r \in gone'
    BY <1>1, <1>3, <2>3 DEF WritesOK
  <2>4. QED BY <2>1, <2>2, <2>3 DEF WritesOK
<1>7. AwaitedWritesKept'
  BY <1>3 DEF AwaitedWritesKept
<1>8. phase \notin {"starting", "configured", "exited"}
  BY Awake DEF Finish, Returned
<1>9. Open \/ at' = at
  BY <1>1, <1>2, <1>8 DEF StoppedIdle, Phases, Open
<1>10. QED
  BY <1>2, <1>3, <1>4, <1>5, <1>6, <1>7, <1>8, <1>9, InvRequests, PermitsCounted

(* Whoever still waited for a write would have kept main from returning. *)
LEMMA InvDropTask == ASSUME Inv, NEW t \in Request \cup {Startup}, DropTask(t) PROVE Inv'
<1> USE DEF Inv, TypeOK, RequestsOK
<1>1. /\ UNCHANGED <<phase, code, config, at, task, queue, permits, gone, signals>>
      /\ stage' \in [Request \cup {Startup} -> Stages]
      /\ stage'[t] \in {"none", "detached"}
      /\ \A u \in (Request \cup {Startup}) \ {t} : stage'[u] = stage[u]
      /\ phase = "stopping"
  BY DEF DropTask, Stage, Stages
<1>2. stage[t] = "asked" => t \in Request /\ t \in gone
  BY <1>1 DEF WritesOK, StoppedIdle
<1>3. lost' \subseteq Request /\ AwaitedWritesKept'
  BY <1>1, <1>2 DEF DropTask, AwaitedWritesKept
<1>4. WritesOK'
  BY <1>1 DEF WritesOK
<1>5. QueueOK' /\ Held' = Held
  BY <1>1 DEF QueueOK, Held
<1>6. permits' \in Nat /\ permits' + Cardinality(Held') = Cap
  BY <1>1, <1>5, PermitsCounted
<1>7. /\ at' \in [Request -> Places] /\ task' \in [Request -> Request \cup {Startup}]
      /\ queue' \in Seq(Request) /\ gone' \subseteq Request
  BY <1>1
<1>8. /\ UNCHANGED <<phase, code, config, signals>> /\ (Open \/ at' = at)
      /\ phase = "stopping" \/ lost' = lost
      /\ phase \notin {"starting", "configured"}
  BY <1>1
<1>9. QED BY ONLY Inv, <1>1, <1>3, <1>4, <1>5, <1>6, <1>7, <1>8, InvRequests, Zenon

LEMMA InvNext == Inv /\ [Next]_vars => Inv'
<1> SUFFICES ASSUME Inv, [Next]_vars PROVE Inv'
  OBVIOUS
<1>1. CASE UNCHANGED vars
  <2> USE <1>1 DEF vars, config, requests, tasks, signals
  <2>1. TypeOK'
    BY DEF Inv, TypeOK
  <2>2. RequestsOK'
    BY DEF Inv, RequestsOK, QueueOK, NoPermitLost, WritesOK, StoppedIdle, AwaitedWritesKept
  <2>3. Dormant' /\ ListenerOK' /\ ConfigOK'
    BY DEF Inv, Dormant, ListenerOK, Awaited, ConfigOK
  <2>4. QED BY <2>1, <2>2, <2>3 DEF Inv
<1>2. CASE Next
  <2>1. DOMAIN stage = Request \cup {Startup}
    BY DEF Inv, TypeOK
  <2>2. QED
    BY <1>2, <2>1, InvMain, InvBoot, InvSignals, InvArrive, InvHeadRead, InvAdmit,
       InvBegin, InvRespond, InvSent, InvLeave, InvPool, InvFinish, InvDropTask DEF Next
<1>3. QED BY <1>1, <1>2

LEMMA Invariance == Spec => []Inv
BY InvInit, InvNext, PTL DEF Spec

-----------------------------------------------------------------------------
(* The theorems. *)

(* Every variable keeps its type, and permits never leave 0..Cap. *)
THEOREM TypeCorrect == Spec => []TypeOK
<1>1. Inv => TypeOK
  BY DEF Inv
<1>2. QED BY <1>1, Invariance, PTL

(* The semaphore of web.rs loses and mints no permit, whoever leaves when. *)
THEOREM PermitsConserved == Spec => []NoPermitLost
<1>1. Inv => NoPermitLost
  BY DEF Inv, RequestsOK
<1>2. QED BY <1>1, Invariance, PTL

(* shutdown::signal resolves on no signal but one it was sent, and awaits    *)
(* every one a handler of its catches, whichever handlers it could install.  *)
THEOREM HearsWhatItCatches == Spec => []SignalsHeard
<1>1. Inv => SignalsHeard
  BY DEF Inv, TypeOK, ListenerOK, SignalsHeard
<1>2. QED BY <1>1, Invariance, PTL

(* Dropping the runtime discards no write that a client still waited for or  *)
(* was told of.                                                              *)
THEOREM StopKeepsAwaitedWrites == Spec => []AwaitedWritesKept
<1>1. Inv => AwaitedWritesKept
  BY DEF Inv, RequestsOK
<1>2. QED BY <1>1, Invariance, PTL

(* The configuration main serves is the one its layers say, or it refuses. *)
THEOREM StartsAreAsTold == Spec => ServesAsTold
<1> DEFINE
  Told == /\ phase' = "serving" /\ phase # "serving" =>
               /\ bind = "loopback" \/ (bind = "public" /\ setup.allow = "On")
               /\ roots = (IF setup.envRoots THEN "env" ELSE "file")
               /\ "flag" \in setup.given => "flag" \notin setup.absent /\ setup.valid
               /\ roots = "file" => setup.given # {} /\ setup.fileRoots /\ setup.valid
          /\ code # "2" /\ code' = "2" /\ setup.argsParse =>
               /\ ~setup.envRoots /\ setup.envNumbersParse
               /\ "flag" \in setup.given => setup.valid /\ ~setup.fileRoots
<1>1. Inv /\ [Next]_vars => [Told]_vars
  <2> SUFFICES ASSUME Inv, Next PROVE Told
    OBVIOUS
  <2>1. CASE Boot
    <3>1. /\ Refusal(setup) = "none" /\ roots = RootsOf(setup) /\ bind = BindOf(setup)
          /\ bind = "loopback" \/ (bind = "public" /\ setup.allow = "On")
          /\ code' = code
      BY <2>1 DEF Inv, ConfigOK, Boot, Startable
    <3>2. QED
      BY <3>1 DEF Refusal, RootsOf, BindOf, FromFile, FileReads, ConfigPath, Unset
  <2>2. CASE Refuse
    BY <2>2 DEF Refuse, Refusal, RootsOf, FromFile, FileReads, ConfigPath, Unset
  <2>3. CASE ~Boot /\ ~Refuse
    BY <2>3 DEF Next, PrintConfig, Configure, Admit, InstallTerm, InstallInt, Hear, Drain,
                Return, Exit, Arrive, HeadRead, Begin, FormRead, Respond, Sent, Leave,
                StartBlocking, BlockingReturns, Rebuild, Finish, DropTask, Deliver, Open
  <2>4. QED BY <2>1, <2>2, <2>3
<1>2. QED BY <1>1, Invariance, PTL DEF Spec, ServesAsTold
=============================================================================
