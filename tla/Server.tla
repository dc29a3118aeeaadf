------------------------------- MODULE Server -------------------------------
(***************************************************************************)
(* One life of the server process: main.rs resolves the configuration and  *)
(* starts it, or refuses; web.rs serves every route under one semaphore;   *)
(* shutdown.rs turns a signal into a drain; the runtime is dropped when    *)
(* main returns.                                                           *)
(*                                                                         *)
(* What a request does to the scan cache is module RawViewStore's subject. *)
(* Here it matters that a request holding a permit may wait for a task     *)
(* that holds none, that such a task outlives a caller who left, and that  *)
(* its work is done by closures of the blocking pool, which a runtime that *)
(* is dropped runs to their end only if they have begun.                   *)
(***************************************************************************)
EXTENDS Naturals, FiniteSets, Sequences, SequencesExt

CONSTANTS
  Request,
  Work,      \* what each asks: a probe, a page or a write
  Cap,       \* MAX_IN_FLIGHT_REQUESTS
  Startup,   \* the task that warms the cache at boot
  Setups,    \* the surroundings the process may be started in
  Read       \* in their place once they have been read

Paths == {"flag", "env"}
Binds == {"loopback", "public", "no address"}
Unset == "unset"

(* The paths given, those with no file there, what the file says, the       *)
(* environment, and the two outcomes only trying tells.                     *)
SetupSpace ==
  [argsParse : BOOLEAN, given : SUBSET Paths, absent : SUBSET Paths, valid : BOOLEAN,
   fileRoots : BOOLEAN, fileBind : Binds \cup {Unset},
   envRoots : BOOLEAN, envBind : Binds \cup {Unset}, envNumbersParse : BOOLEAN,
   allow : {"On", "Off", "Invalid"}, globsCompile : BOOLEAN, portFree : BOOLEAN]

ASSUME WorkAssumption == Work \in [Request -> {"probe", "page", "write"}]
ASSUME CapAssumption == Cap \in Nat \ {0}
ASSUME RequestAssumption == IsFiniteSet(Request) /\ Startup \notin Request
ASSUME SetupsAssumption == Setups \subseteq SetupSpace /\ Read \notin Setups

VARIABLES
  phase,     \* where main is
  code,      \* the exit code, once there is one
  setup,     \* what main finds when it starts, till it serves
  roots,     \* Config::library_roots, by the layer they come from
  bind,      \* Config::bind
  at,        \* where each request is
  task,      \* the task an awaiting request waits for
  queue,     \* those waiting for a permit, the first come first
  permits,   \* the semaphore's
  stage,     \* how far each spawned task is, by who began it
  gone,      \* history: the writes whose client left before the answer
  lost,      \* history: the writes discarded before they reached the disk
  listener,  \* where shutdown::signal is
  installed, \* the signal handlers that are installed
  received   \* the signals they got

config == <<setup, roots, bind>>
tasks == <<stage, gone, lost>>
requests == <<at, task, queue, permits, tasks>>
signals == <<listener, installed, received>>
vars == <<phase, code, config, requests, signals>>

Phases == {"starting", "configured", "serving", "draining", "stopping", "exited"}
Holding == {"running", "reading", "awaiting", "answered"}   \* with a permit
Places == Holding \cup {"none", "arriving", "queued", "sending"}
(* A closure is asked of the blocking pool, runs there and returns to its    *)
(* task; a dropped task leaves the one that runs detached.                   *)
Asked == {"asked", "walk asked"}
Running == {"writing", "walking"}
Returned == {"written", "walked"}
Stages == Asked \cup Running \cup Returned \cup {"none", "detached"}
Signals == {"INT", "TERM"}
Listeners == {"unpolled", "TERM first", "no TERM", "either", "INT only",
              "TERM only", "pending", "resolved"}

TypeOK ==
  /\ phase \in Phases
  /\ code \in {"none", "0", "1", "2", "killed"}
  /\ setup \in Setups \cup {Read}
  /\ phase \in {"starting", "configured"} => setup # Read
  /\ roots \in {Unset, "file", "env", Read}
  /\ bind \in Binds \cup {Unset, Read}
  /\ at \in [Request -> Places]
  /\ task \in [Request -> Request \cup {Startup}]
  /\ queue \in Seq(Request)
  /\ permits \in 0..Cap
  /\ stage \in [Request \cup {Startup} -> Stages]
  /\ gone \subseteq Request
  /\ lost \subseteq Request
  /\ listener \in Listeners
  /\ installed \subseteq Signals
  /\ received \subseteq installed

Init ==
  /\ phase = "starting"
  /\ code = "none"
  /\ setup \in Setups
  /\ roots = Unset
  /\ bind = Unset
  /\ at = [r \in Request |-> "none"]
  /\ task = [r \in Request |-> r]
  /\ queue = <<>>
  /\ permits = Cap
  /\ stage = [t \in Request \cup {Startup} |-> "none"]
  /\ gone = {}
  /\ lost = {}
  /\ listener = "unpolled"
  /\ installed = {}
  /\ received = {}

-----------------------------------------------------------------------------
(* Configuration: environment over file over default. *)

(* mutant: a flag that names no file is passed over too *)
LenientPath(s) ==
  LET found == s.given \ s.absent
  IN  IF "flag" \in found THEN {"flag"} ELSE found
(* An explicit flag wins; the environment's path counts only if a file is there. *)
ConfigPath(s) ==
  IF "flag" \in s.given THEN {"flag"} ELSE (s.given \ s.absent) \cap {"env"}
FromFile(s) == ConfigPath(s) # {}
FileReads(s) == ConfigPath(s) \cap s.absent = {} /\ s.valid

RootsOf(s) ==
  IF s.envRoots THEN "env" ELSE IF FromFile(s) /\ s.fileRoots THEN "file" ELSE Unset
BindOf(s) ==
  IF s.envBind # Unset THEN s.envBind
  ELSE IF FromFile(s) /\ s.fileBind # Unset THEN s.fileBind
  ELSE "loopback"

(* What the process exits with if it cannot be configured, or "none".  clap  *)
(* refuses a command line it cannot parse with 2, like missing roots.        *)
Refusal(s) ==
  IF ~s.argsParse THEN "2"
  ELSE IF (FromFile(s) /\ ~FileReads(s)) \/ ~s.envNumbersParse THEN "1"
  ELSE IF RootsOf(s) = Unset THEN "2"
  ELSE "none"

PrintConfig ==
  /\ phase = "starting"
  /\ setup.argsParse
  /\ phase' = "exited" /\ code' = "0"
  /\ setup' = Read
  /\ UNCHANGED <<roots, bind, requests, signals>>

Configure ==
  /\ phase = "starting"
  /\ Refusal(setup) = "none"
  /\ phase' = "configured"
  /\ roots' = RootsOf(setup)
  /\ bind' = BindOf(setup)
  /\ UNCHANGED <<code, setup, requests, signals>>

Startable ==
  /\ setup.globsCompile
  /\ setup.portFree
  /\ bind = "loopback" \/ (bind = "public" /\ setup.allow = "On")

Refuse ==
  /\ phase' = "exited" /\ setup' = Read
  /\ \/ phase = "starting" /\ code' = Refusal(setup) /\ code' # "none"
     \/ phase = "configured" /\ ~Startable /\ code' = "1"
  /\ UNCHANGED <<roots, bind, requests, signals>>

(* main binds the listener, spawns the warm-up, which walks into an empty    *)
(* cache, and serves.                                                        *)
Boot ==
  /\ phase = "configured"
  /\ Startable
  /\ phase' = "serving"
  /\ setup' = Read /\ roots' = Read /\ bind' = Read
  /\ stage' = [stage EXCEPT ![Startup] = "walk asked"]
  /\ UNCHANGED <<code, at, task, queue, permits, gone, lost, signals>>

-----------------------------------------------------------------------------
(* Requests. *)

(* Requests are handled until the last is answered, drain or not. *)
Open == phase \in {"serving", "draining"}

Move(r, place) == at' = [at EXCEPT ![r] = place]
Stage(t, to) == stage' = [stage EXCEPT ![t] = to]

(* A connection of a listening server begins a request; its identity is      *)
(* taken again once nothing of the last request to bear it is left.          *)
Arrive(r) ==
  /\ phase = "serving"
  /\ at[r] = "none" /\ stage[r] = "none"
  /\ \A q \in Request : task[q] = r => q = r
  /\ Move(r, "arriving")
  /\ gone' = gone \ {r}
  /\ UNCHANGED <<phase, code, config, task, queue, permits, stage, lost, signals>>

(* Its head is complete, in a drain too, and it waits for a permit. *)
HeadRead(r) ==
  /\ Open
  /\ at[r] = "arriving"
  /\ Move(r, "queued")
  /\ queue' = Append(queue, r)
  /\ UNCHANGED <<phase, code, config, task, permits, tasks, signals>>

(* mutant: the last to arrive is admitted first *)
LastInLine == Len(queue)
(* The semaphore is fair: the longest waiting request takes the permit. *)
NextInLine == 1

Admit ==
  /\ Open
  /\ permits > 0 /\ queue # <<>>
  /\ Move(queue[NextInLine], "running")
  /\ queue' = RemoveAt(queue, NextInLine)
  /\ permits' = permits - 1
  /\ UNCHANGED <<phase, code, config, task, tasks, signals>>

(* A build can be joined while some caller awaits it; a write never. *)
Joinable(t) ==
  /\ stage[t] # "none"
  /\ t # Startup => /\ Work[t] = "page"
                    /\ \E r \in Request : at[r] = "awaiting" /\ task[r] = t

(* mutant: the handler answers once its task is spawned *)
Unawaited(r, first) ==
  /\ task' = [task EXCEPT ![r] = r]
  /\ Stage(r, first)
  /\ Move(r, "answered")
(* r's handler spawns a task, whose first closure is given, and awaits it. *)
Spawn(r, first) ==
  /\ task' = [task EXCEPT ![r] = r]
  /\ Stage(r, first)
  /\ Move(r, "awaiting")

(* A probe, a refused POST and a page of a warm cache answer at once; other  *)
(* pages join a build or begin one; a write reads its form.                  *)
Begin(r) ==
  /\ Open
  /\ at[r] = "running"
  /\ \/ Move(r, "answered") /\ UNCHANGED <<task, stage>>
     \/ /\ Work[r] = "page"
        /\ \E t \in DOMAIN stage : Joinable(t) /\ task' = [task EXCEPT ![r] = t]
        /\ Move(r, "awaiting") /\ UNCHANGED stage
     \/ /\ Work[r] = "page"
        /\ ~\E t \in DOMAIN stage : Joinable(t)
        /\ Spawn(r, "walk asked")
     \/ Work[r] = "write" /\ Move(r, "reading") /\ UNCHANGED <<task, stage>>
  /\ UNCHANGED <<phase, code, config, queue, permits, gone, lost, signals>>

(* The form has come, under the permit: it is refused, or written in a task. *)
FormRead(r) ==
  /\ Open
  /\ at[r] = "reading"
  /\ \/ Move(r, "answered") /\ UNCHANGED <<task, stage>>
     \/ Spawn(r, "asked")
  /\ UNCHANGED <<phase, code, config, queue, permits, gone, lost, signals>>

(* The handler's future completes: the permit goes back, the body goes out. *)
Respond(r) ==
  /\ Open
  /\ at[r] = "answered"
  /\ Move(r, "sending")
  /\ permits' = permits + 1
  /\ UNCHANGED <<phase, code, config, task, queue, tasks, signals>>

Sent(r) ==
  /\ Open
  /\ at[r] = "sending"
  /\ Move(r, "none")
  /\ UNCHANGED <<phase, code, config, task, queue, permits, tasks, signals>>

(* mutant: only an answer gives the permit back *)
KeptByDropped(r) == IF at[r] = "answered" THEN permits + 1 ELSE permits
(* mutant: every client that goes gives one back *)
GivenByAll(r) == permits + 1
(* The permits free once r's future is dropped. *)
GivenBack(r) == IF at[r] \in Holding THEN permits + 1 ELSE permits

(* The client goes; hyper drops the future, but not what it spawned. *)
Leave(r) ==
  /\ Open
  /\ at[r] # "none"
  /\ Move(r, "none")
  /\ task' = [task EXCEPT ![r] = r]
  /\ IF at[r] = "queued"
     THEN \E i \in 1..Len(queue) : queue[i] = r /\ queue' = RemoveAt(queue, i)
     ELSE UNCHANGED queue
  /\ permits' = GivenBack(r)
  /\ gone' = IF Work[r] = "write" THEN gone \cup {r} ELSE gone
  /\ UNCHANGED <<phase, code, config, stage, lost, signals>>

-----------------------------------------------------------------------------
(* Tasks and their closures. *)

(* A thread of the blocking pool takes up what t asked of it ... *)
StartBlocking(t) ==
  /\ phase # "exited"
  /\ \/ stage[t] = "asked" /\ Stage(t, "writing")
     \/ stage[t] = "walk asked" /\ Stage(t, "walking")
  /\ UNCHANGED <<phase, code, config, at, task, queue, permits, gone, lost, signals>>

(* ... and is done with it. *)
BlockingReturns(t) ==
  /\ phase # "exited"
  /\ \/ stage[t] = "writing" /\ Stage(t, "written")
     \/ stage[t] = "walking" /\ Stage(t, "walked")
     \/ stage[t] = "detached" /\ Stage(t, "none")
  /\ UNCHANGED <<phase, code, config, at, task, queue, permits, gone, lost, signals>>

(* A mark on a cold slot rebuilds it; an undo walks its root. *)
Rebuild(t) ==
  /\ phase # "exited"
  /\ stage[t] = "written"
  /\ Stage(t, "walk asked")
  /\ UNCHANGED <<phase, code, config, at, task, queue, permits, gone, lost, signals>>

(* A task ends, its bookkeeping done, and hands its result to all who await it. *)
Finish(t) ==
  /\ phase # "exited"
  /\ stage[t] \in Returned
  /\ Stage(t, "none")
  /\ at' = [r \in Request |->
             IF at[r] = "awaiting" /\ task[r] = t THEN "answered" ELSE at[r]]
  /\ task' = [r \in Request |-> IF task[r] = t THEN r ELSE task[r]]
  /\ UNCHANGED <<phase, code, config, queue, permits, gone, lost, signals>>

-----------------------------------------------------------------------------
(* Shutdown. *)

(* A signal without a handler ends the process where it stands. *)
Deliver(s) ==
  /\ phase # "exited"
  /\ IF s \in installed
     THEN received' = received \cup {s} /\ UNCHANGED <<phase, code>>
     ELSE phase' = "exited" /\ code' = "killed" /\ UNCHANGED received
  /\ UNCHANGED <<config, requests, listener, installed>>

(* shutdown::signal first installs a handler for SIGTERM, if it can ... *)
InstallTerm ==
  /\ phase = "serving"
  /\ listener = "unpolled"
  /\ \/ listener' = "TERM first" /\ installed' = installed \cup {"TERM"}
     \/ listener' = "no TERM" /\ UNCHANGED installed
  /\ UNCHANGED <<phase, code, config, requests, received>>

(* mutant: a failed ctrl_c counts as one received *)
IntFailureResolves == "resolved"
(* mutant: without SIGINT it waits for nothing *)
IntFailurePends == "pending"
(* What is left to wait for once SIGINT's handler could not be installed. *)
WithoutInt == IF listener = "TERM first" THEN "TERM only" ELSE "pending"

(* ... then one for SIGINT, and waits on those there are. *)
InstallInt ==
  /\ phase = "serving"
  /\ listener \in {"TERM first", "no TERM"}
  /\ \/ /\ listener' = IF listener = "TERM first" THEN "either" ELSE "INT only"
        /\ installed' = installed \cup {"INT"}
     \/ listener' = WithoutInt /\ UNCHANGED installed
  /\ UNCHANGED <<phase, code, config, requests, received>>

(* What each arm of it waits for.  select! polls its arms in any order, so  *)
(* SIGTERM may be heard before SIGINT's handler is installed.               *)
Awaited(l) ==
  {s \in Signals : \/ s = "TERM" /\ l \in {"TERM first", "either", "TERM only"}
                   \/ s = "INT" /\ l \in {"either", "INT only"}}

Hear ==
  /\ phase = "serving"
  /\ received \cap Awaited(listener) # {}
  /\ listener' = "resolved"
  /\ UNCHANGED <<phase, code, config, requests, installed, received>>

Drain ==
  /\ phase = "serving"
  /\ listener = "resolved"
  /\ phase' = "draining"
  /\ UNCHANGED <<code, config, requests, signals>>

(* What axum waits for: a request it has begun to read, answer or send. *)
ConnectionsIdle == \A r \in Request : at[r] = "none"

(* serve returns, main returns, and the runtime is dropped: ... *)
Return ==
  /\ phase = "draining"
  /\ ConnectionsIdle
  /\ phase' = "stopping" /\ code' = "0"
  /\ UNCHANGED <<config, requests, signals>>

(* ... a task is dropped where it awaits, and what it asked of the pool goes *)
(* with it unless a thread has taken it up, ...                              *)
DropTask(t) ==
  /\ phase = "stopping"
  /\ stage[t] \notin {"none", "detached"}
  /\ Stage(t, IF stage[t] \in Running THEN "detached" ELSE "none")
  /\ lost' = IF stage[t] = "asked" THEN lost \cup {t} ELSE lost
  /\ UNCHANGED <<phase, code, config, at, task, queue, permits, gone, signals>>

(* ... and the process ends with the last closure that runs. *)
Exit ==
  /\ phase = "stopping"
  /\ \A t \in DOMAIN stage : stage[t] = "none"
  /\ phase' = "exited"
  /\ UNCHANGED <<code, config, requests, signals>>

Next ==
  \/ PrintConfig \/ Configure \/ Refuse \/ Boot
  \/ Admit \/ InstallTerm \/ InstallInt \/ Hear \/ Drain \/ Return \/ Exit
  \/ \E r \in Request :
       Arrive(r) \/ HeadRead(r) \/ Begin(r) \/ FormRead(r) \/ Respond(r) \/ Sent(r) \/ Leave(r)
  \/ \E t \in DOMAIN stage :
       StartBlocking(t) \/ BlockingReturns(t) \/ Rebuild(t) \/ Finish(t) \/ DropTask(t)
  \/ \E s \in Signals : Deliver(s)

(* The server's own steps are fair, and a closure ends. *)
ServerFairness ==
  /\ WF_vars(Admit) /\ WF_vars(Drain) /\ WF_vars(Return) /\ WF_vars(Exit)
  /\ WF_vars(InstallTerm) /\ WF_vars(InstallInt) /\ WF_vars(Hear)
  /\ \A r \in Request : WF_vars(Begin(r)) /\ WF_vars(Respond(r))
  /\ \A t \in Request \cup {Startup} :
       /\ WF_vars(StartBlocking(t)) /\ WF_vars(BlockingReturns(t))
       /\ WF_vars(Rebuild(t) \/ Finish(t)) /\ WF_vars(DropTask(t))

(* No timeout of the code says so: a client who began a request completes    *)
(* its head and its form, and reads the answer, or her connection breaks.    *)
ClientFairness ==
  \A r \in Request :
    /\ WF_vars(HeadRead(r) \/ (at[r] = "arriving" /\ Leave(r)))
    /\ WF_vars(FormRead(r) \/ (at[r] = "reading" /\ Leave(r)))
    /\ WF_vars(Sent(r) \/ (at[r] = "sending" /\ Leave(r)))

Spec == Init /\ [][Next]_vars /\ ServerFairness /\ ClientFairness

-----------------------------------------------------------------------------
(* Properties. *)

(* The cap holds and loses nothing: a permit is free or held by one request  *)
(* being handled, through joins, answers and clients that leave anywhere.    *)
NoPermitLost ==
  permits + Cardinality({r \in Request : at[r] \in Holding}) = Cap

(* No signal is imagined and none is missed, whichever handlers can be   *)
(* installed and whenever a signal comes in between: the server stops only   *)
(* when told, and until it has heard, the arm of shutdown::signal that runs  *)
(* waits for every signal a handler has caught.                              *)
SignalsHeard ==
  /\ listener = "resolved" \/ phase \in {"draining", "stopping"} => received # {}
  /\ listener # "resolved" => received \subseteq Awaited(listener)

(* A graceful stop discards no write but of a client who left before the     *)
(* answer: a task is dropped with its runtime wherever it is, but whoever    *)
(* waits for one keeps the drain from ending.                                *)
AwaitedWritesKept == lost \subseteq gone

(* The process serves only as it was told to: on a public address only when  *)
(* opted in by one of the accepted values, over the environment's library    *)
(* roots if it names any and over a file's otherwise, and never past a       *)
(* config file given by flag that cannot be read.  Exit code 2 is a usage    *)
(* error, or says roots are missing and what was read before is well formed. *)
ServesAsTold ==
  [][/\ phase' = "serving" /\ phase # "serving" =>
          /\ bind = "loopback" \/ (bind = "public" /\ setup.allow = "On")
          /\ roots = (IF setup.envRoots THEN "env" ELSE "file")
          /\ "flag" \in setup.given => "flag" \notin setup.absent /\ setup.valid
          /\ roots = "file" => setup.given # {} /\ setup.fileRoots /\ setup.valid
     /\ code # "2" /\ code' = "2" /\ setup.argsParse =>
          /\ ~setup.envRoots /\ setup.envNumbersParse
          /\ "flag" \in setup.given => setup.valid /\ ~setup.fileRoots]_vars

(* No request starves: whatever waits for a permit, a health probe among      *)
(* slow walks included, is handled, unless the process is killed.            *)
EveryRequestServed ==
  \A r \in Request : at[r] = "queued" ~> at[r] \in {"sending", "none"} \/ phase = "exited"

(* A server told to stop does: no signal its handlers caught is overlooked, *)
(* and the drain ends with requests coming in, waiting and half sent and     *)
(* walks and writes under way.                                               *)
StopsWhenTold == received # {} ~> phase = "exited"
=============================================================================
