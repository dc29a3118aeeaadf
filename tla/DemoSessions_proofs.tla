------------------------- MODULE DemoSessions_proofs ------------------------
(***************************************************************************)
(* Proofs about DemoSessions, for any visitors, requests, marks and limits.*)
(***************************************************************************)
EXTENDS DemoSessions, FiniteSetTheorems, TLAPS

USE DEF Live

LEMMA Numbers ==
  /\ MaxSessions \in Nat /\ Period \in Nat /\ Period > 0
  /\ Idle \in Nat /\ Idle > 0 /\ MaxLag \in Nat /\ MaxLag < Idle
  /\ NoReading \in Int /\ NoReading < 0
  /\ AgeCap \in Nat /\ AgeCap = Idle + Period + MaxLag
BY LimitsAssumption, IdleAssumption DEF NoReading, AgeCap

LEMMA OlderIsBounded ==
  ASSUME NEW cap \in Nat, NEW age \in 0..cap
  PROVE  Older(age, cap) \in 0..cap /\ age <= Older(age, cap)
BY DEF Older

-----------------------------------------------------------------------------
(* Type correctness, with the cap on live sessions. *)

(* Storing one session adds at most its id to the live ones. *)
LEMMA StoreTyped ==
  ASSUME TypeOK, NEW s \in SessionId, NEW ask \in Served,
         NEW marks \in SUBSET Base, NEW lag \in 0..MaxLag,
         Store(s, Edited(ask, marks), lag)
  PROVE  /\ DOMAIN sessions' = Live \cup {s}
         /\ sessions'[s].marks = Edited(ask, marks) /\ sessions'[s].age = lag
         /\ \A t \in Live \ {s} : sessions'[t] = sessions[t]
         /\ sessions' \in [Live \cup {s} -> [marks : SUBSET Base, age : 0..AgeCap]]
<1>1. Edited(ask, marks) \in SUBSET Base
  BY AsksAssumption DEF Edited, Served, Unknown
<1>2. lag \in 0..AgeCap
  BY Numbers
<1>3. sessions \in [Live -> [marks : SUBSET Base, age : 0..AgeCap]]
  BY DEF TypeOK
<1>4. sessions' = [t \in Live \cup {s} |->
                     IF t = s THEN [marks |-> Edited(ask, marks), age |-> lag]
                     ELSE sessions[t]]
  BY DEF Store
<1>5. \A t \in Live \cup {s} :
        (IF t = s THEN [marks |-> Edited(ask, marks), age |-> lag] ELSE sessions[t])
          \in [marks : SUBSET Base, age : 0..AgeCap]
  BY <1>1, <1>2, <1>3
<1>6. QED BY <1>4, <1>5

LEMMA TypeInit == Init => TypeOK
<1> SUFFICES ASSUME Init PROVE TypeOK
  OBVIOUS
<1>1. Live = {} /\ Cardinality(Live) = 0
  BY FS_EmptySet DEF Init
<1>2. NoCall \in Calls
  BY Numbers DEF NoCall, Calls
<1>3. QED BY <1>1, <1>2, Numbers DEF Init, TypeOK, NoCall

LEMMA TypeServe ==
  ASSUME TypeOK, NEW r \in Request, NEW ask \in Served, NEW s \in SessionId,
         NEW marks \in SUBSET Base, NEW lag \in 0..MaxLag,
         NEW answer \in Calls, answer.at # "none" => answer.by \in Visitor,
         request[r].by \in Visitor,
         Cardinality(Live \cup {s}) <= MaxSessions,
         Serve(r, ask, s, marks, lag, answer)
  PROVE  TypeOK'
<1>1. /\ DOMAIN sessions' = Live \cup {s}
      /\ sessions' \in [Live \cup {s} -> [marks : SUBSET Base, age : 0..AgeCap]]
  BY StoreTyped DEF Serve
<1>2. quiet' \in [SessionId -> 0..Idle]
  BY Numbers DEF Serve, TypeOK
<1>3. applied' \in [Visitor -> SUBSET Mark]
  BY AsksAssumption DEF Serve, TypeOK, Served
<1>4. request' = [request EXCEPT ![r] = answer]
  BY DEF Serve
<1>5. request' \in [Request -> Calls]
  BY <1>4 DEF TypeOK
<1>6. \A q \in Request : request'[q].at # "none" => request'[q].by \in Visitor
  BY <1>4 DEF TypeOK
<1>7. UNCHANGED <<reaper, swept, cookie>>
  BY DEF Serve, reaping
<1>8. QED BY <1>1, <1>2, <1>3, <1>5, <1>6, <1>7 DEF TypeOK

LEMMA TypeStep == TypeOK /\ [Next]_vars => TypeOK'
<1> SUFFICES ASSUME TypeOK, [Next]_vars PROVE TypeOK'
  OBVIOUS
<1>n. NoCall \in Calls /\ NoCall.at = "none"
  BY Numbers DEF NoCall, Calls
<1>f. IsFiniteSet(Live)
  BY IdsAssumption, FS_Subset DEF TypeOK
<1>1. ASSUME NEW r \in Request, NEW v \in Visitor, Send(r, v) PROVE TypeOK'
  BY <1>1, Numbers DEF Send, TypeOK, Calls, witness, reaping
<1>2. ASSUME NEW r \in Request, Reject(r) PROVE TypeOK'
  BY <1>2, <1>n DEF Reject, TypeOK, witness, reaping
<1>3. ASSUME NEW r \in Request, Begin(r) PROVE TypeOK'
  BY <1>3 DEF Begin, TypeOK, Calls, witness, reaping
<1>4. ASSUME NEW r \in Request, Resume(r) PROVE TypeOK'
  <2>1. request[r] \in Calls /\ request[r].by \in Visitor /\ request[r].sid \in Live
    BY <1>4 DEF Resume, TypeOK
  <2>2. sessions[request[r].sid].marks \in SUBSET Base
    BY <2>1 DEF TypeOK
  <2>3. PICK ask \in Served :
          Serve(r, ask, request[r].sid, sessions[request[r].sid].marks,
                request[r].lag, NoCall)
    BY <1>4 DEF Resume, Touch
  <2>4. Live \cup {request[r].sid} = Live
    BY <2>1
  <2>5. request[r].sid \in SessionId /\ request[r].lag \in 0..MaxLag
    BY <2>1 DEF Calls, TypeOK
  <2>6. Cardinality(Live \cup {request[r].sid}) <= MaxSessions
    BY <2>4 DEF TypeOK
  <2>7. QED BY <1>n, <2>1, <2>2, <2>3, <2>5, <2>6, TypeServe
<1>5. ASSUME NEW r \in Request, Mint(r) PROVE TypeOK'
  <2>1. request[r] \in Calls /\ request[r].by \in Visitor
    BY <1>5 DEF Mint, TypeOK
  <2>2. PICK s \in SessionId, ask \in Served :
          /\ Fresh(s)
          /\ Serve(r, ask, s, {}, request[r].lag, Answer(request[r].by, s))
    BY <1>5 DEF Mint
  <2>3. Answer(request[r].by, s) \in Calls /\ Answer(request[r].by, s).by \in Visitor
    BY <2>1, Numbers DEF Answer, Calls
  <2>4. request[r].lag \in 0..MaxLag
    BY <2>1 DEF Calls
  <2>5. Cardinality(Live \cup {s}) = Cardinality(Live) + 1
    BY <1>f, <2>2, FS_AddElement DEF Fresh
  <2>6. Cardinality(Live) < MaxSessions
    BY <1>5, <1>f, FS_CardinalityType, Numbers DEF Mint, Full
  <2>7. Cardinality(Live \cup {s}) <= MaxSessions
    BY <1>f, <2>5, <2>6, FS_CardinalityType, Numbers
  <2>8. QED BY <2>1, <2>2, <2>3, <2>4, <2>7, TypeServe
<1>6. ASSUME NEW r \in Request, Refuse(r) PROVE TypeOK'
  BY <1>6, <1>n DEF Refuse, TypeOK, witness, reaping
<1>7. ASSUME NEW r \in Request, Receive(r) PROVE TypeOK'
  BY <1>7, <1>n, Numbers DEF Receive, TypeOK, Calls, witness, reaping
<1>8. ASSUME NEW r \in Request, Lose(r) PROVE TypeOK'
  BY <1>8, <1>n DEF Lose, TypeOK, witness, reaping
<1>9. CASE ReadClock
  BY <1>9, Numbers DEF ReadClock, TypeOK, witness
<1>10. CASE Reap
  <2>1. Kept \subseteq Live
    BY DEF Kept
  <2>2. Cardinality(Kept) <= Cardinality(Live) /\ IsFiniteSet(Kept)
    BY <1>f, <2>1, FS_Subset
  <2>3. Cardinality(Kept) <= MaxSessions
    BY <1>f, <2>2, FS_CardinalityType, Numbers DEF TypeOK
  <2>4. sessions' = [s \in Kept |-> sessions[s]]
    BY <1>10 DEF Reap
  <2>5. /\ DOMAIN sessions' = Kept
        /\ sessions' \in [Kept -> [marks : SUBSET Base, age : 0..AgeCap]]
    BY <2>1, <2>4 DEF TypeOK
  <2>6. QED BY <1>10, <2>1, <2>3, <2>5 DEF Reap, TypeOK, witness
<1>11. CASE Tick
  <2>1. /\ DOMAIN sessions' = Live
        /\ sessions' \in [Live -> [marks : SUBSET Base, age : 0..AgeCap]]
    <3>1. \A s \in Live : sessions[s] \in [marks : SUBSET Base, age : 0..AgeCap]
      BY DEF TypeOK
    <3>2. \A s \in Live : Older(sessions[s].age, AgeCap) \in 0..AgeCap
      BY <3>1, OlderIsBounded, Numbers
    <3>3. sessions' = [s \in Live |-> [sessions[s] EXCEPT !.age = Older(@, AgeCap)]]
      BY <1>11 DEF Tick
    <3>4. QED BY <3>1, <3>2, <3>3
  <2>2. /\ request' \in [Request -> Calls]
        /\ \A r \in Request : request'[r].at = request[r].at /\ request'[r].by = request[r].by
    <3> SUFFICES ASSUME NEW r \in Request
                 PROVE  /\ request'[r] \in Calls
                        /\ request'[r].at = request[r].at /\ request'[r].by = request[r].by
      BY <1>11 DEF Tick
    <3>1. request[r] \in Calls
      BY DEF TypeOK
    <3>2. request'[r] = IF request[r].at = "ready"
                        THEN [request[r] EXCEPT !.lag = @ + 1] ELSE request[r]
      BY <1>11 DEF Tick
    <3>3. request[r].at = "ready" => request[r].lag + 1 \in 0..MaxLag
      BY <1>11, <3>1, Numbers DEF Tick, Calls
    <3>4. QED BY <3>1, <3>2, <3>3 DEF Calls
  <2>3. reaper' \in {NoReading} \cup 0..MaxLag /\ swept' \in 0..Period
    BY <1>11, Numbers DEF Tick, TypeOK
  <2>4. cookie' \in [Visitor -> [sid : SessionId \cup {NoSession}, age : 0..Idle]]
    BY <1>11, Numbers DEF Tick, TypeOK, Aged
  <2>5. quiet' \in [SessionId -> 0..Idle]
    BY <1>11, OlderIsBounded, Numbers DEF Tick, TypeOK
  <2>6. applied' = applied
    BY <1>11 DEF Tick
  <2>7. QED BY <2>1, <2>2, <2>3, <2>4, <2>5, <2>6 DEF TypeOK
<1>12. CASE UNCHANGED vars
  BY <1>12 DEF vars, server, reaping, witness, TypeOK
<1>13. QED
  BY <1>1, <1>2, <1>3, <1>4, <1>5, <1>6, <1>7, <1>8, <1>9, <1>10, <1>11, <1>12
     DEF Next, Handle

(* Every state is well typed, and never are more than MaxSessions sessions
   live. *)
THEOREM TypeCorrect == Spec => []TypeOK
BY TypeInit, TypeStep, PTL DEF Spec

-----------------------------------------------------------------------------
(* The idle window.  A session's age is at most a lag more than the time since
   it was used, since the reading touch stores is at most a lag old. *)
AgesTrue ==
  \A s \in Live : quiet[s] < Idle => sessions[s].age <= quiet[s] + MaxLag

(* While it waits for the lock, the reaper's reading is as old as its sweep. *)
ReadingIsSweep == reaper # NoReading => reaper = swept

(* No session is older than the last sweep left it, or the last touch. *)
Swept ==
  \A s \in Live :
    sessions[s].age < Idle + swept + (IF reaper = NoReading THEN 0 ELSE Period)

Window ==
  TypeOK /\ EarlyReturnIsServed /\ AgesTrue /\ ReadingIsSweep /\ Swept

LEMMA WindowInit == Init => Window
<1> SUFFICES ASSUME Init PROVE Window
  OBVIOUS
<1>1. TypeOK
  BY TypeInit
<1>2. Live = {}
  BY DEF Init
<1>3. EarlyReturnIsServed
  BY Numbers DEF EarlyReturnIsServed, Init
<1>4. ReadingIsSweep
  BY DEF Init, ReadingIsSweep
<1>5. QED BY <1>1, <1>2, <1>3, <1>4 DEF Window, AgesTrue, Swept

(* Serving a request with a reading at most a lag old. *)
LEMMA WindowServe ==
  ASSUME Window, TypeOK', NEW r \in Request, NEW ask \in Served,
         NEW s \in SessionId, NEW marks \in SUBSET Base, NEW lag \in 0..MaxLag,
         NEW answer, Serve(r, ask, s, marks, lag, answer)
  PROVE  Window'
<1>1. /\ DOMAIN sessions' = Live \cup {s}
      /\ sessions'[s].age = lag
      /\ \A t \in Live \ {s} : sessions'[t] = sessions[t]
  <2>1. TypeOK /\ Store(s, Edited(ask, marks), lag)
    BY DEF Serve, Window
  <2>2. QED BY <2>1, StoreTyped
<1>2. /\ quiet'[s] = 0
      /\ \A t \in SessionId \ {s} : quiet'[t] = quiet[t]
  BY DEF Serve, Window, TypeOK
<1>3. reaper' = reaper /\ swept' = swept /\ swept \in Nat
  BY Numbers DEF Serve, reaping, Window, TypeOK
<1>4. EarlyReturnIsServed'
  BY <1>1, <1>2 DEF EarlyReturnIsServed, Window
<1>5. AgesTrue'
  BY <1>1, <1>2, Numbers DEF AgesTrue, Window, TypeOK
<1>6. ReadingIsSweep'
  BY <1>3 DEF ReadingIsSweep, Window
<1>7. Swept'
  BY <1>1, <1>3, Numbers DEF Swept, Window
<1>8. QED BY <1>4, <1>5, <1>6, <1>7 DEF Window

LEMMA WindowStep == Window /\ [Next]_vars => Window'
<1> SUFFICES ASSUME Window, [Next]_vars PROVE Window'
  OBVIOUS
<1>t. TypeOK /\ TypeOK'
  BY TypeStep DEF Window
<1> DEFINE Same == UNCHANGED <<sessions, reaper, swept, quiet>>
<1>1. ASSUME Same PROVE Window'
  BY <1>1, <1>t DEF Window, EarlyReturnIsServed, AgesTrue, ReadingIsSweep, Swept
<1>2. ASSUME NEW r \in Request, Resume(r) PROVE Window'
  <2>1. request[r] \in Calls /\ request[r].sid \in Live
    BY <1>2, <1>t DEF Resume, TypeOK
  <2>2. sessions[request[r].sid].marks \in SUBSET Base
    BY <2>1, <1>t DEF TypeOK
  <2>3. request[r].sid \in SessionId /\ request[r].lag \in 0..MaxLag
    BY <2>1, <1>t DEF Calls, TypeOK
  <2>4. QED BY <1>2, <1>t, <2>2, <2>3, WindowServe DEF Resume, Touch
<1>3. ASSUME NEW r \in Request, Mint(r) PROVE Window'
  <2>1. request[r].lag \in 0..MaxLag
    BY <1>t DEF Calls, TypeOK
  <2>2. QED BY <1>3, <1>t, <2>1, WindowServe DEF Mint
<1>4. CASE ReadClock
  <2>1. /\ reaper = NoReading /\ swept = Period /\ reaper' = 0 /\ swept' = 0
        /\ UNCHANGED <<sessions, quiet>>
    BY <1>4 DEF ReadClock, witness
  <2>2. Swept'
    BY <2>1, Numbers DEF Swept, Window
  <2>3. QED BY <1>t, <2>1, <2>2
          DEF Window, EarlyReturnIsServed, AgesTrue, ReadingIsSweep
<1>5. CASE Reap
  <2>1. /\ reaper = swept /\ swept \in Nat /\ swept' = swept /\ reaper' = NoReading
        /\ sessions' = [s \in Kept |-> sessions[s]] /\ quiet' = quiet
    BY <1>5, <1>t, Numbers DEF Reap, witness, Window, ReadingIsSweep, TypeOK
  <2>2. \A s \in Live : sessions[s].age \in Nat /\ quiet[s] \in Nat
    BY <1>t, Numbers DEF TypeOK
  <2>3. Kept \subseteq Live
    BY DEF Kept
  <2>4. \A s \in Kept : sessions[s].age < Idle + swept
    BY <2>1, <2>2, <2>3, Numbers DEF Kept, IsIdle
  <2>5. \A s \in Live \ Kept : sessions[s].age >= Idle
    BY <2>1, <2>2, Numbers DEF Kept, IsIdle
  <2>6. EarlyReturnIsServed'
    <3> SUFFICES ASSUME NEW s \in SessionId, quiet[s] + MaxLag < Idle PROVE s \in Kept
      BY <2>1 DEF EarlyReturnIsServed
    <3>1. s \in Live /\ quiet[s] < Idle
      BY <1>t, Numbers DEF Window, EarlyReturnIsServed, TypeOK
    <3>2. sessions[s].age <= quiet[s] + MaxLag
      BY <3>1 DEF Window, AgesTrue
    <3>3. QED BY <2>2, <2>5, <3>1, <3>2, Numbers
  <2>7. AgesTrue' /\ Swept' /\ ReadingIsSweep'
    <3>1. DOMAIN sessions' = Kept /\ \A s \in Kept : sessions'[s] = sessions[s]
      BY <2>1
    <3>2. AgesTrue'
      BY <2>1, <2>3, <3>1 DEF Window, AgesTrue
    <3>3. Swept'
      BY <2>1, <2>4, <3>1, Numbers DEF Swept
    <3>4. ReadingIsSweep'
      BY <2>1 DEF ReadingIsSweep
    <3>5. QED BY <3>2, <3>3, <3>4
  <2>8. QED BY <1>t, <2>6, <2>7 DEF Window
<1>6. CASE Tick
  <2>1. /\ DOMAIN sessions' = Live
        /\ \A s \in Live : sessions'[s].age = Older(sessions[s].age, AgeCap)
        /\ quiet' = [s \in SessionId |-> Older(quiet[s], Idle)]
        /\ swept' = swept + 1 /\ swept \in Nat
        /\ reaper' = IF reaper = NoReading THEN NoReading ELSE reaper + 1
    BY <1>6, <1>t, Numbers DEF Tick, TypeOK
  <2>2. \A s \in Live : sessions[s].age \in Nat
    BY <1>t, Numbers DEF TypeOK
  <2>3. \A s \in SessionId : quiet[s] \in Nat
    BY <1>t, Numbers DEF TypeOK
  <2>4. EarlyReturnIsServed'
    BY <2>1, <2>3, Numbers DEF Window, EarlyReturnIsServed, Older
  <2>5. AgesTrue'
    <3> SUFFICES ASSUME NEW s \in Live, quiet'[s] < Idle
                 PROVE  sessions'[s].age <= quiet'[s] + MaxLag
      BY <2>1 DEF AgesTrue
    <3>1. s \in SessionId
      BY <1>t DEF TypeOK
    <3>2. quiet[s] < Idle /\ quiet'[s] = quiet[s] + 1
      BY <2>1, <2>3, <3>1, Numbers DEF Older
    <3>3. sessions[s].age <= quiet[s] + MaxLag
      BY <3>2 DEF Window, AgesTrue
    <3>4. sessions'[s].age <= sessions[s].age + 1
      BY <1>t, <2>1, <2>2, Numbers DEF Older, TypeOK
    <3>5. sessions'[s].age \in Nat /\ sessions[s].age \in Nat /\ quiet[s] \in Nat
      BY <2>1, <2>2, <2>3, <3>1, Numbers DEF Older
    <3>6. QED BY <3>2, <3>3, <3>4, <3>5, Numbers
  <2>6. ReadingIsSweep'
    BY <2>1, <1>t, Numbers DEF Window, ReadingIsSweep, TypeOK
  <2>7. Swept'
    <3>1. \A s \in Live : sessions'[s].age <= sessions[s].age + 1
      BY <1>t, <2>1, <2>2, Numbers DEF Older, TypeOK
    <3>2. reaper' = NoReading <=> reaper = NoReading
      BY <2>1, <1>t, Numbers DEF TypeOK
    <3>3. QED BY <1>t, <2>1, <2>2, <3>1, <3>2, Numbers DEF Window, Swept, TypeOK
  <2>8. QED BY <1>t, <2>4, <2>5, <2>6, <2>7 DEF Window
<1>7. ASSUME NEW r \in Request,
             \/ \E v \in Visitor : Send(r, v)
             \/ Reject(r) \/ Begin(r) \/ Refuse(r) \/ Receive(r) \/ Lose(r)
      PROVE  Window'
  BY <1>1, <1>7 DEF Send, Reject, Begin, Refuse, Receive, Lose, reaping, witness
<1>8. CASE UNCHANGED vars
  BY <1>1, <1>8 DEF vars, server, reaping, witness
<1>9. QED
  BY <1>2, <1>3, <1>4, <1>5, <1>6, <1>7, <1>8 DEF Next, Handle

(* A session used within the window, less a lag, is still in the table. *)
THEOREM EarlyReturnsAreServed == Spec => []EarlyReturnIsServed
<1>1. Window => EarlyReturnIsServed
  BY DEF Window
<1>2. QED BY <1>1, WindowInit, WindowStep, PTL DEF Spec

(* An abandoned session holds its place for the window, a period and a lag. *)
THEOREM SlotsAlwaysComeBack == Spec => []SlotsComeBack
<1>1. Window => SlotsComeBack
  <2> SUFFICES ASSUME Window, NEW s \in Live
               PROVE  sessions[s].age < Idle + Period + MaxLag
    BY DEF SlotsComeBack
  <2>1. sessions[s].age < Idle + swept + (IF reaper = NoReading THEN 0 ELSE Period)
    BY DEF Window, Swept
  <2>2. sessions[s].age \in Nat /\ swept \in 0..Period
    BY Numbers DEF Window, TypeOK
  <2>3. reaper # NoReading => swept <= MaxLag
    BY Numbers DEF Window, ReadingIsSweep, TypeOK
  <2>4. QED BY <2>1, <2>2, <2>3, Numbers
<1>2. QED BY <1>1, WindowInit, WindowStep, PTL DEF Spec

-----------------------------------------------------------------------------
(* Isolation: no session is held by two visitors. *)
HeldByOne ==
  \A s \in SessionId, v, w \in Visitor : Holds(v, s) /\ Holds(w, s) => v = w

Isolated == TypeOK /\ HeldByOne /\ Private

LEMMA IsolatedInit == Init => Isolated
<1> SUFFICES ASSUME Init PROVE Isolated
  OBVIOUS
<1>1. TypeOK /\ Live = {}
  BY TypeInit DEF Init
<1>2. \A v \in Visitor, s \in SessionId : ~Holds(v, s)
  BY IdsAssumption DEF Init, Holds, NoCall
<1>3. QED BY <1>1, <1>2 DEF Isolated, HeldByOne, Private

(* A step that gives nobody a session she did not hold, and leaves the marks
   of those that stay. *)
LEMMA IsolatedKept ==
  ASSUME Isolated, TypeOK',
         \A v \in Visitor, s \in SessionId : Holds(v, s)' => Holds(v, s),
         \A s \in DOMAIN sessions' : s \in Live /\ sessions'[s].marks = sessions[s].marks,
         applied' = applied
  PROVE  Isolated'
<1>1. HeldByOne'
  BY DEF Isolated, HeldByOne
<1>2. Private'
  BY DEF Isolated, Private, TypeOK
<1>3. QED BY <1>1, <1>2 DEF Isolated

LEMMA IsolatedStep == Isolated /\ [Next]_vars => Isolated'
<1> SUFFICES ASSUME Isolated, [Next]_vars PROVE Isolated'
  OBVIOUS
<1>t. TypeOK /\ TypeOK'
  BY TypeStep DEF Isolated
<1>1. ASSUME NEW r \in Request, NEW v \in Visitor, Send(r, v) PROVE Isolated'
  <2>1. \A q \in Request \ {r} : request'[q] = request[q]
    BY <1>1, <1>t DEF Send, TypeOK
  <2>2. request'[r].by = v /\ request'[r].sid = cookie[v].sid
    BY <1>1, <1>t DEF Send, TypeOK
  <2>3. UNCHANGED <<sessions, cookie, applied>>
    BY <1>1 DEF Send, witness
  <2>4. \A w \in Visitor, s \in SessionId : Holds(w, s)' => Holds(w, s)
    BY <2>1, <2>2, <2>3 DEF Holds
  <2>5. QED BY <1>t, <2>3, <2>4, IsolatedKept
<1>2. ASSUME NEW r \in Request, Receive(r) PROVE Isolated'
  <2>1. request[r].by \in Visitor /\ NoCall.sid = NoSession /\ NoCall.by = Nobody
    BY <1>2, <1>t DEF Receive, TypeOK, NoCall
  <2>2. /\ \A q \in Request \ {r} : request'[q] = request[q]
        /\ request'[r] = NoCall
    BY <1>2, <1>t DEF Receive, TypeOK
  <2>3. /\ \A w \in Visitor \ {request[r].by} : cookie'[w] = cookie[w]
        /\ cookie'[request[r].by].sid = request[r].sid
    BY <1>2, <2>1, <1>t DEF Receive, TypeOK
  <2>4. \A w \in Visitor, s \in SessionId : Holds(w, s)' => Holds(w, s)
    BY <2>1, <2>2, <2>3, VisitorsAssumption DEF Holds
  <2>5. UNCHANGED <<sessions, applied>>
    BY <1>2 DEF Receive, witness
  <2>6. QED BY <1>t, <2>4, <2>5, IsolatedKept
<1>3. ASSUME NEW r \in Request, Reject(r) \/ Refuse(r) \/ Lose(r) PROVE Isolated'
  <2>1. /\ \A q \in Request \ {r} : request'[q] = request[q]
        /\ request'[r] = NoCall
        /\ UNCHANGED <<sessions, cookie, applied>>
    BY <1>3, <1>t DEF Reject, Refuse, Lose, TypeOK, witness
  <2>2. \A w \in Visitor, s \in SessionId : Holds(w, s)' => Holds(w, s)
    BY <2>1, VisitorsAssumption DEF Holds, NoCall
  <2>3. QED BY <1>t, <2>1, <2>2, IsolatedKept
<1>4. ASSUME NEW r \in Request, Begin(r) PROVE Isolated'
  <2>1. /\ \A q \in Request : request'[q].by = request[q].by /\ request'[q].sid = request[q].sid
        /\ UNCHANGED <<sessions, cookie, applied>>
    BY <1>4, <1>t DEF Begin, TypeOK, Calls, witness
  <2>2. \A w \in Visitor, s \in SessionId : Holds(w, s)' => Holds(w, s)
    BY <2>1 DEF Holds
  <2>3. QED BY <1>t, <2>1, <2>2, IsolatedKept
<1>5. CASE ReadClock \/ UNCHANGED vars
  <2>1. UNCHANGED <<sessions, request, cookie, applied>>
    BY <1>5 DEF ReadClock, vars, server, witness
  <2>2. QED BY <1>t, <2>1, IsolatedKept DEF Holds
<1>6. CASE Reap
  <2>1. sessions' = [s \in Kept |-> sessions[s]] /\ Kept \subseteq Live
    BY <1>6 DEF Reap, Kept
  <2>2. UNCHANGED <<request, cookie, applied>>
    BY <1>6 DEF Reap, witness
  <2>3. QED BY <1>t, <2>1, <2>2, IsolatedKept DEF Holds
<1>7. CASE Tick
  <2>1. \A q \in Request : request'[q].by = request[q].by /\ request'[q].sid = request[q].sid
    <3> SUFFICES ASSUME NEW q \in Request
                 PROVE  request'[q].by = request[q].by /\ request'[q].sid = request[q].sid
      OBVIOUS
    <3>1. request'[q] = IF request[q].at = "ready"
                        THEN [request[q] EXCEPT !.lag = @ + 1] ELSE request[q]
      BY <1>7 DEF Tick
    <3>2. request[q] \in Calls
      BY <1>t DEF TypeOK
    <3>3. QED BY <3>1, <3>2 DEF Calls
  <2>2. \A w \in Visitor : cookie'[w].sid \in {cookie[w].sid, NoSession}
    BY <1>7, <1>t DEF Tick, Aged, TypeOK
  <2>3. \A w \in Visitor, s \in SessionId : Holds(w, s)' => Holds(w, s)
    BY <2>1, <2>2, IdsAssumption DEF Holds
  <2>4. \A s \in Live : sessions'[s].marks = sessions[s].marks
    BY <1>7, <1>t DEF Tick, TypeOK
  <2>5. DOMAIN sessions' = Live /\ applied' = applied
    BY <1>7 DEF Tick
  <2>6. QED BY <1>t, <2>3, <2>4, <2>5, IsolatedKept
<1>8. ASSUME NEW r \in Request, Resume(r) PROVE Isolated'
  <2> DEFINE s == request[r].sid
             v == request[r].by
  <2>1. s \in Live /\ s \in SessionId /\ v \in Visitor /\ request[r].lag \in 0..MaxLag
    BY <1>8, <1>t DEF Resume, TypeOK, Calls
  <2>2. sessions[s].marks \in SUBSET Base /\ applied[v] \in SUBSET Mark
    BY <2>1, <1>t DEF TypeOK
  <2>3. PICK ask \in Served :
          Serve(r, ask, s, sessions[s].marks, request[r].lag, NoCall)
    BY <1>8 DEF Resume, Touch
  <2>4. /\ DOMAIN sessions' = Live
        /\ sessions'[s].marks = Edited(ask, sessions[s].marks)
        /\ \A t \in Live \ {s} : sessions'[t] = sessions[t]
    <3>1. Store(s, Edited(ask, sessions[s].marks), request[r].lag)
      BY <2>3 DEF Serve
    <3>2. Live \cup {s} = Live
      BY <2>1
    <3>3. QED BY <1>t, <2>1, <2>2, <3>1, <3>2, StoreTyped
  <2>5. /\ \A q \in Request \ {r} : request'[q] = request[q]
        /\ request'[r] = NoCall /\ cookie' = cookie
    BY <2>3, <1>t DEF Serve, TypeOK
  <2>6. /\ applied'[v] = IF ask.do = "mark" THEN applied[v] \cup {ask.mark} ELSE applied[v]
        /\ \A w \in Visitor \ {v} : applied'[w] = applied[w]
    BY <2>1, <2>3, <1>t DEF Serve, TypeOK
  <2>7. \A w \in Visitor, t \in SessionId : Holds(w, t)' => Holds(w, t)
    BY <2>5, VisitorsAssumption DEF Holds, NoCall
  <2>8. HeldByOne'
    BY <2>7 DEF Isolated, HeldByOne
  <2>9. Holds(v, s)
    BY DEF Holds
  <2>10. sessions[s].marks \subseteq applied[v]
    BY <2>1, <2>9 DEF Isolated, Private
  <2>11. sessions'[s].marks \subseteq applied'[v]
    BY <2>4, <2>6, <2>10, AsksAssumption DEF Edited, Served
  <2>12. Private'
    <3> SUFFICES ASSUME NEW w \in Visitor, NEW t \in Live, Holds(w, t)
                 PROVE  sessions'[t].marks \subseteq applied'[w]
      BY <2>4, <2>7, <1>t DEF Private, TypeOK
    <3>1. CASE t = s
      BY <2>1, <2>9, <2>11, <3>1 DEF Isolated, HeldByOne
    <3>2. CASE t # s
      BY <2>4, <2>6, <3>2 DEF Isolated, Private
    <3>3. QED BY <3>1, <3>2
  <2>13. QED BY <1>t, <2>8, <2>12 DEF Isolated
<1>9. ASSUME NEW r \in Request, Mint(r) PROVE Isolated'
  <2> DEFINE v == request[r].by
  <2>1. v \in Visitor /\ request[r].lag \in 0..MaxLag
    BY <1>9, <1>t DEF Mint, TypeOK, Calls
  <2>2. PICK s \in SessionId, ask \in Served :
          Fresh(s) /\ Serve(r, ask, s, {}, request[r].lag, Answer(v, s))
    BY <1>9 DEF Mint
  <2>3. /\ DOMAIN sessions' = Live \cup {s}
        /\ sessions'[s].marks = Edited(ask, {})
        /\ \A t \in Live \ {s} : sessions'[t] = sessions[t]
    <3>1. Store(s, Edited(ask, {}), request[r].lag)
      BY <2>2 DEF Serve
    <3>2. {} \in SUBSET Base
      OBVIOUS
    <3>3. QED BY <1>t, <2>1, <3>1, <3>2, StoreTyped
  <2>4. /\ \A q \in Request \ {r} : request'[q] = request[q]
        /\ request'[r] = Answer(v, s) /\ cookie' = cookie
    BY <2>2, <1>t DEF Serve, TypeOK
  <2>5. /\ applied'[v] = IF ask.do = "mark" THEN applied[v] \cup {ask.mark} ELSE applied[v]
        /\ \A w \in Visitor \ {v} : applied'[w] = applied[w]
    BY <2>1, <2>2, <1>t DEF Serve, TypeOK
  <2>6. \A w \in Visitor, t \in SessionId \ {s} : Holds(w, t)' => Holds(w, t)
    BY <2>4 DEF Holds, Answer
  <2>7. \A w \in Visitor : Holds(w, s)' => w = v
    BY <2>2, <2>4 DEF Holds, Answer, Fresh
  <2>8. HeldByOne'
    BY <2>6, <2>7 DEF Isolated, HeldByOne
  <2>9. sessions'[s].marks \subseteq applied'[v]
    BY <2>3, <2>5, AsksAssumption DEF Edited, Served
  <2>10. Private'
    <3> SUFFICES ASSUME NEW w \in Visitor, NEW t \in Live \cup {s}, Holds(w, t)'
                 PROVE  sessions'[t].marks \subseteq applied'[w]
      BY <2>3 DEF Private
    <3>1. CASE t = s
      BY <2>7, <2>9, <3>1
    <3>2. CASE t # s
      BY <1>t, <2>3, <2>5, <2>6, <3>2 DEF Isolated, Private, TypeOK
    <3>3. QED BY <3>1, <3>2
  <2>11. QED BY <1>t, <2>8, <2>10 DEF Isolated
<1>10. QED
  BY <1>1, <1>2, <1>3, <1>4, <1>5, <1>6, <1>7, <1>8, <1>9 DEF Next, Handle

(* No visitor's session ever holds a mark that is not her own. *)
THEOREM SessionsArePrivate == Spec => []Private
<1>1. Isolated => Private
  BY DEF Isolated
<1>2. QED BY <1>1, IsolatedInit, IsolatedStep, PTL DEF Spec
=============================================================================
