---------------------------- MODULE DemoSessions ----------------------------
(***************************************************************************)
(* The public demo (src/demo, src/bin/demo.rs): one server, many visitors, *)
(* each with a private set of marks kept in memory under the id her cookie *)
(* carries.  The table is capped and a reaper drops idle sessions.         *)
(*                                                                         *)
(* A handler reads the clock before it takes the session lock, and so does *)
(* the reaper.  Time is kept as ages, which is all the code compares.      *)
(* Session ids are random; here a fresh one is any id nobody holds.        *)
(***************************************************************************)
EXTENDS Integers, FiniteSets

CONSTANTS
  Visitor,
  Nobody,       \* no visitor
  Request,      \* how many requests can be under way at once
  SessionId,
  NoSession,    \* no cookie
  Mark,         \* the (root, folder, kind) keys a request can name
  Asks,         \* what handlers are asked to do
  Base,         \* those whose folder the startup walk found
  MaxSessions,
  Idle,         \* DemoConfig::idle, the cookie's Max-Age too
  Period,       \* of the reaper's interval
  MaxLag        \* how long a clock reading can wait for the session lock

ASSUME LimitsAssumption == MaxSessions \in Nat /\ Period \in Nat \ {0}
ASSUME IdleAssumption == Idle \in Nat \ {0} /\ MaxLag \in 0..Idle - 1
ASSUME MarksAssumption == Base \subseteq Mark
ASSUME IdsAssumption == IsFiniteSet(SessionId) /\ NoSession \notin SessionId
ASSUME VisitorsAssumption == Nobody \notin Visitor

NoReading == -1

(* POST /mark and /unmark name a mark. *)
ASSUME AsksAssumption ==
  Asks \subseteq [do : {"mark", "unmark"}, mark : Mark] \cup [do : {"index", "reset"}]

VARIABLES
  sessions, \* SessionStore::sessions: the live ids, with marks and age of last_seen
  request,  \* the handlers under way
  reaper,   \* the age of the reaper's clock reading, or NoReading
  swept,    \* how long ago it took its last one
  cookie,   \* each browser's cookie: its id, if any, and its age
  quiet,    \* how long ago each session was last resolved, up to Idle
  applied   \* the marks each visitor ever had applied

(* quiet and applied are for the properties only. *)
reaping == <<reaper, swept>>
server == <<sessions, request, reaping>>
witness == <<quiet, applied>>
vars == <<server, cookie, witness>>

Live == DOMAIN sessions
AgeCap == Idle + Period + MaxLag
Older(age, cap) == IF age < cap THEN age + 1 ELSE cap

Calls == [at : {"none", "sent", "ready", "answered"}, by : Visitor \cup {Nobody},
          sid : SessionId \cup {NoSession}, lag : 0..MaxLag]
NoCall == [at |-> "none", by |-> Nobody, sid |-> NoSession, lag |-> 0]
Answer(v, s) == [at |-> "answered", by |-> v, sid |-> s, lag |-> 0]

TypeOK ==
  /\ Live \subseteq SessionId
  /\ sessions \in [Live -> [marks : SUBSET Base, age : 0..AgeCap]]
  /\ Cardinality(Live) <= MaxSessions
  /\ request \in [Request -> Calls]
  /\ \A r \in Request : request[r].at # "none" => request[r].by \in Visitor
  /\ reaper \in {NoReading} \cup 0..MaxLag
  /\ swept \in 0..Period
  /\ cookie \in [Visitor -> [sid : SessionId \cup {NoSession}, age : 0..Idle]]
  /\ quiet \in [SessionId -> 0..Idle]
  /\ applied \in [Visitor -> SUBSET Mark]

Init ==
  /\ sessions = [s \in {} |-> [marks |-> {}, age |-> 0]]
  /\ request = [r \in Request |-> NoCall]
  /\ reaper = NoReading
  /\ swept = Period
  /\ cookie = [v \in Visitor |-> [sid |-> NoSession, age |-> 0]]
  /\ quiet = [s \in SessionId |-> Idle]
  /\ applied = [v \in Visitor |-> {}]

-----------------------------------------------------------------------------
(* A visitor's browser. *)

(* The request carries the cookie the browser holds now. *)
Send(r, v) ==
  /\ request[r] = NoCall
  /\ request' = [request EXCEPT ![r] =
       [at |-> "sent", by |-> v, sid |-> cookie[v].sid, lag |-> 0]]
  /\ UNCHANGED <<sessions, reaping, cookie, witness>>

(* A Set-Cookie arrives and starts a new Max-Age. *)
Receive(r) ==
  LET q == request[r]
  IN  /\ q.at = "answered"
      /\ cookie' = [cookie EXCEPT ![q.by] = [sid |-> q.sid, age |-> 0]]
      /\ request' = [request EXCEPT ![r] = NoCall]
      /\ UNCHANGED <<sessions, reaping, witness>>

(* The connection is lost, before the handler ran or with its answer. *)
Lose(r) ==
  /\ request[r].at \in {"sent", "answered"}
  /\ request' = [request EXCEPT ![r] = NoCall]
  /\ UNCHANGED <<sessions, reaping, cookie, witness>>

-----------------------------------------------------------------------------
(* The handlers. *)

UnknownAccepted(ask) == FALSE  \* mutant: the paths are not checked
(* apply_mark's 400: the folder is not in the base view. *)
Unknown(ask) == ask.do \in {"mark", "unmark"} /\ ask.mark \notin Base
Served == {ask \in Asks : ~Unknown(ask)}

(* A 400 leaves no trace. *)
Reject(r) ==
  /\ request[r].at = "sent"
  /\ \E ask \in Asks : Unknown(ask)
  /\ request' = [request EXCEPT ![r] = NoCall]
  /\ UNCHANGED <<sessions, reaping, cookie, witness>>

(* The handler's last step before the lock is Instant::now(). *)
Begin(r) ==
  /\ request[r].at = "sent"
  /\ request' = [request EXCEPT ![r].at = "ready"]
  /\ UNCHANGED <<sessions, reaping, cookie, witness>>

(* insert_mark, remove_mark, clear_marks; the index leaves the set alone. *)
Edited(ask, marks) ==
  CASE ask.do = "mark"   -> marks \cup {ask.mark}
    [] ask.do = "unmark" -> marks \ {ask.mark}
    [] ask.do = "reset"  -> {}
    [] ask.do = "index"  -> marks

TouchKeepingAge(s, lag) == sessions[s].age  \* mutant: touch forgets last_seen
(* touch: last_seen becomes the reading the handler took before the lock. *)
Touch(s, lag) == lag

(* The session with id s holds these marks now, and was seen lag ago. *)
Store(s, marks, age) ==
  sessions' = [t \in Live \cup {s} |->
                 IF t = s THEN [marks |-> marks, age |-> age] ELSE sessions[t]]

(* Both ways to serve a request: its edit under the lock resolve_in_store is
   called under, and its answer.  One without Set-Cookie needs no receiving. *)
Serve(r, ask, s, marks, age, answer) ==
  LET q == request[r]
  IN  /\ Store(s, Edited(ask, marks), age)
      /\ request' = [request EXCEPT ![r] = answer]
      /\ quiet' = [quiet EXCEPT ![s] = 0]
      /\ applied' = [applied EXCEPT ![q.by] =
                       IF ask.do = "mark" THEN @ \cup {ask.mark} ELSE @]
      /\ UNCHANGED <<reaping, cookie>>

(* The cookie names a live session.  No Set-Cookie: its Max-Age runs on. *)
Resume(r) ==
  LET q == request[r]
  IN  /\ q.at = "ready" /\ q.sid \in Live
      /\ \E ask \in Served :
           Serve(r, ask, q.sid, sessions[q.sid].marks, Touch(q.sid, q.lag), NoCall)

Full == Cardinality(Live) >= MaxSessions

AnyId(s) == s \notin Live  \* mutant: an id a browser may still hold
(* new_session_id: 128 random bits are no id that is, or may yet be, in use. *)
Fresh(s) ==
  /\ s \notin Live
  /\ \A v \in Visitor : cookie[v].sid # s
  /\ \A r \in Request : request[r].sid # s

(* No cookie, an unknown one or a reaped session: mint under the cap. *)
Mint(r) ==
  LET q == request[r]
  IN  /\ q.at = "ready" /\ q.sid \notin Live /\ ~Full
      /\ \E s \in SessionId, ask \in Served :
           /\ Fresh(s)
           /\ Serve(r, ask, s, {}, q.lag, Answer(q.by, s))

(* create's AtCapacity: the 503 page. *)
Refuse(r) ==
  LET q == request[r]
  IN  /\ q.at = "ready" /\ q.sid \notin Live /\ Full
      /\ request' = [request EXCEPT ![r] = NoCall]
      /\ UNCHANGED <<sessions, reaping, cookie, witness>>

-----------------------------------------------------------------------------
(* The reaper and the clock. *)

(* run_reaper's tick.  The first is immediate. *)
ReadClock ==
  /\ reaper = NoReading /\ swept = Period
  /\ reaper' = 0
  /\ swept' = 0
  /\ UNCHANGED <<sessions, request, cookie, witness>>

(* now.duration_since(last_seen) >= idle; a last_seen after now counts as 0. *)
IsIdle(s) ==
  LET since == sessions[s].age - reaper
  IN  (IF since < 0 THEN 0 ELSE since) >= Idle

KeepAll == Live  \* mutant: the reaper drops nothing
Kept == {s \in Live : ~IsIdle(s)}

(* reap_idle, under the lock. *)
Reap ==
  /\ reaper # NoReading
  /\ sessions' = [s \in Kept |-> sessions[s]]
  /\ reaper' = NoReading
  /\ UNCHANGED <<request, swept, cookie, witness>>

(* A browser drops a cookie at its Max-Age. *)
Aged(c) ==
  IF c.sid = NoSession \/ c.age + 1 >= Idle THEN [sid |-> NoSession, age |-> 0]
  ELSE [c EXCEPT !.age = @ + 1]

(* Time passes, but the interval ticks when it is due and no reading waits
   longer than MaxLag for the lock. *)
Tick ==
  /\ swept < Period /\ reaper < MaxLag
  /\ \A r \in Request : request[r].at = "ready" => request[r].lag < MaxLag
  /\ sessions' = [s \in Live |-> [sessions[s] EXCEPT !.age = Older(@, AgeCap)]]
  /\ request' = [r \in Request |->
                   IF request[r].at = "ready" THEN [request[r] EXCEPT !.lag = @ + 1]
                   ELSE request[r]]
  /\ reaper' = IF reaper = NoReading THEN NoReading ELSE reaper + 1
  /\ swept' = swept + 1
  /\ cookie' = [v \in Visitor |-> Aged(cookie[v])]
  /\ quiet' = [s \in SessionId |-> Older(quiet[s], Idle)]
  /\ UNCHANGED applied

Handle(r) == Reject(r) \/ Begin(r) \/ Resume(r) \/ Mint(r) \/ Refuse(r)

Next ==
  \/ \E r \in Request :
       \/ \E v \in Visitor : Send(r, v)
       \/ Handle(r) \/ Receive(r) \/ Lose(r)
  \/ ReadClock \/ Reap \/ Tick

Spec == Init /\ [][Next]_vars

-----------------------------------------------------------------------------
(* Properties *)

(* No visitor is ever shown a mark she did not make: the session behind her
   cookie, her requests and her answers holds only marks she had applied,
   however ids are recycled, answers lost and sessions reaped under her. *)
Holds(v, s) ==
  \/ cookie[v].sid = s
  \/ \E r \in Request : request[r].by = v /\ request[r].sid = s
Private ==
  \A v \in Visitor, s \in Live :
    Holds(v, s) => sessions[s].marks \subseteq applied[v]

(* A session somebody used less than the idle window ago is there, marks and
   all, though clock readings wait for the lock and reach touch and reap_idle
   late and out of order: it loses at most MaxLag of its window. *)
EarlyReturnIsServed ==
  \A s \in SessionId : quiet[s] + MaxLag < Idle => s \in Live

(* At the cap the demo recovers: no session outlives its last use by more than
   the window, a reaper's period and a lag.  Those whose cookie was lost or ran
   out hold their places no longer than that (reap_idle, run_reaper). *)
SlotsComeBack == \A s \in Live : sessions[s].age < Idle + Period + MaxLag

(* README.md:16 says that changes "stay in your session and reset when idle":
   a browser keeps the cookie of a session that was used less than the idle
   window ago. *)
ActiveVisitorKeepsSession ==
  [][\A v \in Visitor :
       cookie[v].sid # NoSession /\ quiet'[cookie[v].sid] + MaxLag < Idle
         => cookie'[v].sid = cookie[v].sid]_vars
=============================================================================
