-------------------------- MODULE PageClient_proofs -------------------------
(* Proofs about PageClient, for any folders, roots, marks and limits. *)
EXTENDS PageClient, SequenceTheorems, TLAPS

(* The body element: nothing waits behind nothing, an answer is that of the
   request in flight, and pollOnce waits only while that request is its poll. *)
BodyElement ==
  /\ waiting # NoCall => call # NoCall
  /\ answer # NoBody => call # NoCall
  /\ inFlight => call # NoCall /\ call.for = Poll

Inv == TypeOK /\ BodyElement

(* A mark by its parts. *)
LEMMA MarkParts ==
  \A x : x \in MarkStates <=>
    /\ x = [at |-> x.at, on |-> x.on, here |-> x.here, tries |-> x.tries,
            got |-> x.got, created |-> x.created]
    /\ x.at \in Phases /\ x.on \in Folders /\ x.here \in BOOLEAN
    /\ x.tries \in 0 .. MaxRetries /\ x.got \in SUBSET Folders /\ x.created \in BOOLEAN
BY DEF MarkStates

LEMMA AtIsTyped ==
  \A phase \in Phases, f \in Folders :
    /\ At(phase, f) \in MarkStates
    /\ At(phase, f).at = phase /\ At(phase, f).on = f /\ At(phase, f).here
BY LimitsAssumption DEF At, MarkStates

LEMMA IdleIsTyped == Idle \in MarkStates /\ Idle.at = "idle"
<1>1. (CHOOSE f \in Folders : TRUE) \in Folders
  BY FoldersAssumption
<1>2. QED BY <1>1, AtIsTyped DEF Idle, Phases

LEMMA Initially == Init => Inv
<1> SUFFICES ASSUME Init PROVE Inv
  OBVIOUS
<1>1. toasts \in Seq(Folders) /\ Len(toasts) <= MaxToasts
  BY LimitsAssumption DEF Init
<1>2. mark \in [Clicks -> MarkStates]
  BY IdleIsTyped DEF Init
<1>3. TypeOK
  BY <1>1, <1>2 DEF Init, TypeOK
<1>4. QED
  BY <1>3 DEF Init, Inv, BodyElement

LEMMA DetachedIsTyped ==
  ASSUME TypeOK, NEW roots
  PROVE  /\ Detached(roots) \in [Clicks -> MarkStates]
         /\ \A m \in Clicks : \/ Detached(roots)[m].at = mark[m].at
                              \/ Detached(roots)[m].at = "idle"
<1> SUFFICES ASSUME NEW m \in Clicks
             PROVE  /\ Detached(roots)[m] \in MarkStates
                    /\ \/ Detached(roots)[m].at = mark[m].at
                       \/ Detached(roots)[m].at = "idle"
  BY DEF Detached
<1>1. mark[m] \in MarkStates /\ mark[m].at \in Phases /\ mark[m].on \in Folders
  BY MarkParts DEF TypeOK
<1>2. PICK x \in MarkStates : x = At(mark[m].at, mark[m].on) /\ x.at = mark[m].at
  BY <1>1, AtIsTyped
<1>3. [x EXCEPT !.here = FALSE] \in MarkStates /\ [x EXCEPT !.here = FALSE].at = x.at
  BY DEF MarkStates
<1>4. Detached(roots)[m] \in {mark[m], Idle, [x EXCEPT !.here = FALSE]}
  BY <1>2 DEF Detached
<1>5. QED BY <1>1, <1>2, <1>3, <1>4, IdleIsTyped

LEMMA UnboundIsTyped ==
  ASSUME NEW c \in Calls \cup {NoCall}, NEW roots
  PROVE  /\ Unbound(c, roots) \in Calls \cup {NoCall}
         /\ Unbound(c, roots) = NoCall <=> c = NoCall
         /\ c # NoCall => Unbound(c, roots).for = c.for
<1>1. CASE c = NoCall
  BY <1>1 DEF Unbound
<1>2. CASE c # NoCall
  <2>1. c \in Calls
    BY <1>2
  <2>2. \A b \in BOOLEAN : [c EXCEPT !.bound = b] \in Calls /\ [c EXCEPT !.bound = b].for = c.for
    BY <2>1 DEF Calls
  <2>3. PICK b \in BOOLEAN : b = (c.bound /\ RootOf[c.for] \notin roots)
    OBVIOUS
  <2>4. Unbound(c, roots) \in {c, [c EXCEPT !.bound = b]}
    BY <1>2, <2>3 DEF Unbound
  <2>5. QED BY <1>2, <2>1, <2>2, <2>4, NamesAssumption
<1>3. QED BY <1>1, <1>2

LEMMA RemovalIsTyped ==
  ASSUME TypeOK, NEW i \in DOMAIN toasts
  PROVE  RemoveAt(toasts, i) \in Seq(Folders) /\ Len(RemoveAt(toasts, i)) <= MaxToasts
<1> DEFINE before == SubSeq(toasts, 1, i - 1)
           after == SubSeq(toasts, i + 1, Len(toasts))
<1>1. toasts \in Seq(Folders) /\ Len(toasts) \in Nat /\ Len(toasts) <= MaxToasts
      /\ i \in 1 .. Len(toasts)
  BY DEF TypeOK
<1>2. before \in Seq(Folders) /\ Len(before) = i - 1
  BY <1>1, SubSeqProperties
<1>3. after \in Seq(Folders) /\ Len(after) = Len(toasts) - i
  BY <1>1, SubSeqProperties
<1> HIDE DEF before, after
<1>4. before \o after \in Seq(Folders) /\ Len(before \o after) = Len(before) + Len(after)
  BY <1>2, <1>3, ConcatProperties
<1>5. RemoveAt(toasts, i) = before \o after
  BY DEF RemoveAt, before, after
<1>6. QED BY <1>1, <1>2, <1>3, <1>4, <1>5, LimitsAssumption

LEMMA OfferIsTyped ==
  ASSUME TypeOK, NEW f \in Folders
  PROVE  Offered(f) \in Seq(Folders) /\ Len(Offered(f)) <= MaxToasts
<1>1. toasts \in Seq(Folders) /\ Len(toasts) \in Nat /\ Len(toasts) <= MaxToasts
      /\ MaxToasts \in Nat \ {0}
  BY LimitsAssumption DEF TypeOK
<1>2. CASE Len(toasts) < MaxToasts
  BY <1>1, <1>2 DEF Offered
<1>3. CASE ~(Len(toasts) < MaxToasts)
  <2>1. toasts # <<>>
    BY <1>1, <1>3
  <2>2. Tail(toasts) \in Seq(Folders) /\ Len(Tail(toasts)) = Len(toasts) - 1
    BY <1>1, <2>1
  <2>3. QED BY <1>1, <1>3, <2>2 DEF Offered
<1>4. QED BY <1>2, <1>3

-----------------------------------------------------------------------------
(* Steps of one mark *)

(* One mark changes; the rest of the page stays. *)
LEMMA OneMark ==
  ASSUME Inv, NEW m \in Clicks, NEW x \in MarkStates,
         mark' = [mark EXCEPT ![m] = x],
         UNCHANGED <<view, shown, lastRefreshBody, toasts, body, button>>,
         served' \in SUBSET Folders, suppressConfirm' \in BOOLEAN
  PROVE  Inv'
<1>1. mark' \in [Clicks -> MarkStates]
  BY DEF Inv, TypeOK
<1>2. TypeOK'
  BY <1>1 DEF Inv, TypeOK, body, button
<1>3. QED BY <1>2 DEF Inv, BodyElement, body

LEMMA MarkChanged ==
  ASSUME TypeOK, NEW m \in Clicks
  PROVE  /\ mark[m] \in MarkStates /\ mark[m].on \in Folders /\ mark[m].at \in Phases
         /\ \A phase \in Phases :
              /\ [mark[m] EXCEPT !.at = phase] \in MarkStates
              /\ [mark[m] EXCEPT !.at = phase].at = phase
BY DEF TypeOK, MarkStates

LEMMA FreeStep ==
  ASSUME Inv, NEW m \in Clicks, Free(m),
         UNCHANGED <<view, shown, lastRefreshBody, toasts, body, button>>,
         served' \in SUBSET Folders, suppressConfirm' \in BOOLEAN
  PROVE  Inv'
BY OneMark, IdleIsTyped DEF Free

LEMMA GotoStep ==
  ASSUME Inv, NEW m \in Clicks, NEW phase \in Phases,
         Goto(m, phase),
         UNCHANGED <<view, shown, lastRefreshBody, toasts, body, button>>,
         served' \in SUBSET Folders, suppressConfirm' \in BOOLEAN
  PROVE  Inv'
<1>1. mark' = [mark EXCEPT ![m] = [mark[m] EXCEPT !.at = phase]]
  BY DEF Goto
<1>2. QED BY <1>1, MarkChanged, OneMark DEF Inv

LEMMA ClickStep ==
  ASSUME Inv, NEW m \in Clicks, NEW f \in Folders, ClickMark(m, f)
  PROVE  Inv'
<1>1. PICK x \in MarkStates : mark' = [mark EXCEPT ![m] = x]
  BY AtIsTyped DEF ClickMark, Phases
<1>2. QED BY <1>1, OneMark DEF ClickMark, Inv, TypeOK

LEMMA ServeMarkStep ==
  ASSUME Inv, NEW m \in Clicks, ServeMark(m)
  PROVE  Inv'
<1>1. served' \in SUBSET Folders
  BY MarkChanged DEF ServeMark, Inv, TypeOK
<1>2. UNCHANGED <<view, shown, lastRefreshBody, suppressConfirm, toasts, body, button>>
  BY DEF ServeMark
<1>3. suppressConfirm' \in BOOLEAN
  BY <1>2 DEF Inv, TypeOK
<1>4. CASE ~mark[m].here
  <2>1. Free(m)
    BY <1>4 DEF ServeMark
  <2>2. QED BY <1>1, <1>2, <1>3, <2>1, FreeStep
<1>5. CASE mark[m].here
  <2>1. PICK covered \in SUBSET Folders, created \in BOOLEAN :
          mark' = [mark EXCEPT ![m].at = "answered", ![m].created = created,
                     ![m].got = covered \cap Section(RootOf[mark[m].on])]
    BY <1>1, <1>5 DEF ServeMark, Inv, TypeOK
  <2>2. PICK x : x = [mark[m] EXCEPT !.at = "answered", !.created = created,
                        !.got = covered \cap Section(RootOf[mark[m].on])]
    OBVIOUS
  <2>3. mark' = [mark EXCEPT ![m] = x]
    BY <2>1, <2>2 DEF Inv, TypeOK
  <2>4. x \in MarkStates /\ x.at = "answered"
    BY <2>2 DEF Inv, TypeOK, MarkStates, Phases
  <2>5. QED BY <1>1, <1>2, <1>3, <2>3, <2>4, OneMark
<1>6. QED BY <1>4, <1>5

LEMMA LoseMarkStep ==
  ASSUME Inv, NEW m \in Clicks, LoseMark(m)
  PROVE  Inv'
<1>1. PICK retryable \in BOOLEAN : HandleFailure(m, retryable)
  BY DEF LoseMark
<1>2. UNCHANGED <<view, served, shown, lastRefreshBody, suppressConfirm, toasts, body, button>>
  BY DEF LoseMark
<1>3. served' \in SUBSET Folders /\ suppressConfirm' \in BOOLEAN
  BY <1>2 DEF Inv, TypeOK
<1>4. CASE ~mark[m].here
  BY <1>1, <1>2, <1>3, <1>4, FreeStep DEF HandleFailure
<1>5. CASE mark[m].here /\ retryable /\ mark[m].tries < MaxRetries
  <2>1. PICK x : x = [mark[m] EXCEPT !.at = "backoff", !.tries = @ + 1]
    OBVIOUS
  <2>2. mark' = [mark EXCEPT ![m] = x]
    BY <1>1, <1>5, <2>1 DEF HandleFailure, Inv, TypeOK
  <2>3. x \in MarkStates /\ x.at = "backoff"
    <3>1. mark[m] \in MarkStates /\ mark[m].tries \in 0 .. MaxRetries
      BY DEF Inv, TypeOK, MarkStates
    <3>2. PICK n : n = mark[m].tries + 1
      OBVIOUS
    <3>3. n \in 0 .. MaxRetries
      BY <1>5, <3>1, <3>2, LimitsAssumption
    <3>4. x = [mark[m] EXCEPT !.at = "backoff", !.tries = n]
      BY <2>1, <3>2
    <3>5. QED BY <3>1, <3>3, <3>4 DEF MarkStates, Phases
  <2>4. QED BY <1>2, <1>3, <2>2, <2>3, OneMark
<1>6. CASE mark[m].here /\ ~(retryable /\ mark[m].tries < MaxRetries)
  <2> DEFINE f == mark[m].on
  <2>1. mark' = [StripCleared(f) EXCEPT ![m] = At("failed", f)]
    BY <1>1, <1>6 DEF HandleFailure
  <2>2. At("failed", f) \in MarkStates /\ At("failed", f).at = "failed"
    BY MarkChanged, AtIsTyped DEF Inv, Phases
  <2>3. \A k \in Clicks : StripCleared(f)[k] \in {mark[k], Idle}
    BY DEF StripCleared
  <2>4. \A k \in Clicks : mark'[k] \in MarkStates
    BY <2>1, <2>2, <2>3, IdleIsTyped DEF Inv, TypeOK, StripCleared
  <2>5. mark' \in [Clicks -> MarkStates]
    BY <2>1, <2>4 DEF StripCleared
  <2>6. TypeOK'
    BY <1>2, <2>5 DEF Inv, TypeOK, body, button
  <2>7. QED BY <1>2, <2>6 DEF Inv, BodyElement, body
<1>7. QED BY <1>4, <1>5, <1>6

LEMMA ReissueStep ==
  ASSUME Inv, NEW m \in Clicks, Reissue(m),
         UNCHANGED <<view, served, shown, lastRefreshBody, toasts, body, button>>
  PROVE  Inv'
<1>1. served' \in SUBSET Folders
  BY DEF Inv, TypeOK
<1>2. CASE mark[m].here /\ Goto(m, "sent") /\ suppressConfirm' = FALSE
  BY <1>1, <1>2, GotoStep DEF Phases
<1>3. CASE ~mark[m].here /\ Free(m) /\ suppressConfirm' = TRUE
  BY <1>1, <1>3, FreeStep
<1>4. QED BY <1>2, <1>3 DEF Reissue

LEMMA AcceptStep ==
  ASSUME Inv, NEW m \in Clicks, AcceptConfirm(m) \/ CancelConfirm(m)
  PROVE  Inv'
<1>1. UNCHANGED <<view, served, shown, lastRefreshBody, suppressConfirm, toasts, body, button>>
  BY DEF AcceptConfirm, CancelConfirm
<1>2. served' \in SUBSET Folders /\ suppressConfirm' \in BOOLEAN
  BY <1>1 DEF Inv, TypeOK
<1>3. Goto(m, "sent") \/ Free(m)
  BY DEF AcceptConfirm, CancelConfirm
<1>4. QED BY <1>1, <1>2, <1>3, GotoStep, FreeStep DEF Phases

-----------------------------------------------------------------------------
(* Sections replaced *)

LEMMA SwapStep ==
  ASSUME Inv, NEW m \in Clicks, SwapSection(m),
         toasts' \in Seq(Folders), Len(toasts') <= MaxToasts,
         UNCHANGED <<view, served, lastRefreshBody, suppressConfirm, answer, inFlight, button>>
  PROVE  Inv'
<1> DEFINE r == RootOf[mark[m].on]
<1>1. mark' = [Detached({r}) EXCEPT ![m] = Idle]
  BY DEF SwapSection
<1>2. Detached({r}) \in [Clicks -> MarkStates]
  BY DetachedIsTyped DEF Inv
<1>3. mark' \in [Clicks -> MarkStates]
  BY <1>1, <1>2, IdleIsTyped
<1>4. shown' \in SUBSET Folders
  BY DEF SwapSection, Inv, TypeOK, MarkStates
<1>5. call' = Unbound(call, {r}) /\ waiting' = Unbound(waiting, {r})
  BY DEF SwapSection
<1>6. call \in Calls \cup {NoCall} /\ waiting \in Calls \cup {NoCall}
  BY DEF Inv, TypeOK
<1>7. /\ call' \in Calls \cup {NoCall} /\ waiting' \in Calls \cup {NoCall}
      /\ call' = NoCall <=> call = NoCall
      /\ waiting' = NoCall <=> waiting = NoCall
      /\ call # NoCall => call'.for = call.for
  BY <1>5, <1>6, UnboundIsTyped
<1>8. TypeOK'
  BY <1>3, <1>4, <1>7 DEF Inv, TypeOK, button
<1>9. BodyElement'
  BY <1>7 DEF Inv, BodyElement
<1>10. QED BY <1>8, <1>9 DEF Inv

LEMMA OfferStep ==
  ASSUME Inv, NEW m \in Clicks, OfferUndo(m)
  PROVE  toasts' \in Seq(Folders) /\ Len(toasts') <= MaxToasts
<1>1. mark[m].on \in Folders
  BY MarkChanged DEF Inv
<1>2. QED BY <1>1, OfferIsTyped DEF OfferUndo, Inv, TypeOK

LEMMA AnsweredStep ==
  ASSUME Inv, NEW m \in Clicks, MarkAnswered(m)
  PROVE  Inv'
<1>1. UNCHANGED <<view, served, shown, lastRefreshBody, suppressConfirm, body, button>>
  BY DEF MarkAnswered
<1>2. served' \in SUBSET Folders /\ suppressConfirm' \in BOOLEAN
  BY <1>1 DEF Inv, TypeOK
<1>3. CASE ~mark[m].here /\ Free(m) /\ UNCHANGED toasts
  BY <1>1, <1>2, <1>3, FreeStep
<1>4. CASE /\ mark[m].here /\ view = "gaps" /\ OfferUndo(m)
           /\ mark' = [mark EXCEPT ![m] = [At("swapping", @.on) EXCEPT !.got = mark[m].got]]
  <2>1. mark[m] \in MarkStates /\ mark[m].on \in Folders /\ mark[m].got \in SUBSET Folders
    BY DEF Inv, TypeOK, MarkStates
  <2>2. PICK y \in MarkStates : y = At("swapping", mark[m].on) /\ y.at = "swapping"
    BY <2>1, AtIsTyped DEF Phases
  <2>3. PICK x : x = [y EXCEPT !.got = mark[m].got]
    OBVIOUS
  <2>4. x \in MarkStates /\ x.at = "swapping"
    BY <2>1, <2>2, <2>3 DEF MarkStates
  <2>5. mark' = [mark EXCEPT ![m] = x]
    BY <1>4, <2>2, <2>3 DEF Inv, TypeOK
  <2>6. toasts' \in Seq(Folders) /\ Len(toasts') <= MaxToasts
    BY <1>4, OfferStep
  <2>7. TypeOK'
    BY <1>1, <2>4, <2>5, <2>6 DEF Inv, TypeOK, body, button
  <2>8. QED BY <1>1, <2>7 DEF Inv, BodyElement, body
<1>5. QED BY <1>3, <1>4 DEF MarkAnswered

LEMMA FlipStep ==
  ASSUME Inv, NEW m \in Clicks, FlipInPlace(m)
  PROVE  Inv'
BY OfferStep, SwapStep DEF FlipInPlace

LEMMA SwapMarkStep ==
  ASSUME Inv, NEW m \in Clicks, SwapMark(m)
  PROVE  Inv'
<1>1. UNCHANGED <<view, served, lastRefreshBody, suppressConfirm, toasts, answer, inFlight, button>>
  BY DEF SwapMark
<1>2. CASE SwapSection(m)
  BY <1>1, <1>2, SwapStep DEF Inv, TypeOK
<1>3. CASE Free(m) /\ UNCHANGED <<shown, call, waiting>>
  BY <1>1, <1>3, FreeStep DEF Inv, TypeOK, body
<1>4. QED BY <1>2, <1>3 DEF SwapMark

-----------------------------------------------------------------------------
(* The body element and the Rescan button *)

(* Whatever goes out from the body element: in flight, or in the queue. *)
LEMMA IssueStep ==
  ASSUME Inv, NEW c \in Calls, Issue(c),
         UNCHANGED <<view, served, shown, lastRefreshBody, mark, answer, button>>,
         toasts' \in Seq(Folders), Len(toasts') <= MaxToasts,
         \/ inFlight' = inFlight
         \/ inFlight' = (call = NoCall) /\ c.for = Poll
  PROVE  Inv'
<1>1. c # NoCall
  BY NamesAssumption
<1>2. \/ call = NoCall /\ call' = c /\ waiting' = waiting
      \/ call # NoCall /\ waiting' = c /\ call' = call
  BY DEF Issue
<1>3. suppressConfirm' = FALSE
  BY DEF Issue
<1>4. inFlight' \in BOOLEAN
  BY DEF Inv, TypeOK
<1>5. TypeOK'
  BY <1>2, <1>3, <1>4 DEF Inv, TypeOK, button
<1>6. BodyElement'
  <2>1. CASE call = NoCall
    <3>1. call' = c /\ waiting' = waiting /\ ~inFlight /\ waiting = NoCall /\ answer = NoBody
      BY <1>2, <2>1 DEF Inv, BodyElement
    <3>2. inFlight' => c.for = Poll
      BY <3>1
    <3>3. QED BY <1>1, <3>1, <3>2 DEF BodyElement
  <2>2. CASE call # NoCall
    <3>1. call' = call
      BY <1>2, <2>2
    <3>2. inFlight' => inFlight
      BY <2>2, Zenon
    <3>3. QED BY <2>2, <3>1, <3>2 DEF Inv, BodyElement
  <2>3. QED BY <2>1, <2>2
<1>7. QED BY <1>5, <1>6 DEF Inv

LEMMA CallsAreTyped ==
  \A f \in Folders \cup {Poll} :
    [for |-> f, bound |-> TRUE] \in Calls /\ [for |-> f, bound |-> TRUE].for = f
BY DEF Calls

LEMMA PollTickStep == Inv /\ PollTick => Inv'
BY CallsAreTyped, IssueStep DEF PollTick, Inv, TypeOK

LEMMA ClickUndoStep ==
  ASSUME Inv, NEW i \in 1 .. MaxToasts, ClickUndo(i)
  PROVE  Inv'
<1>1. i \in DOMAIN toasts /\ toasts[i] \in Folders
  BY DEF ClickUndo, Inv, TypeOK
<1>2. toasts' \in Seq(Folders) /\ Len(toasts') <= MaxToasts
  BY <1>1, RemovalIsTyped DEF ClickUndo, Inv
<1>3. QED BY <1>1, <1>2, CallsAreTyped, IssueStep DEF ClickUndo

LEMMA ToastEndsStep ==
  ASSUME Inv, NEW i \in 1 .. MaxToasts, ToastEnds(i)
  PROVE  Inv'
<1>1. toasts' \in Seq(Folders) /\ Len(toasts') <= MaxToasts
  BY RemovalIsTyped DEF ToastEnds, Inv
<1>2. TypeOK'
  BY <1>1 DEF ToastEnds, Inv, TypeOK, body, button
<1>3. QED
  BY <1>2 DEF ToastEnds, Inv, BodyElement, body

LEMMA ServeCallStep == Inv /\ ServeCall => Inv'
<1> SUFFICES ASSUME Inv, ServeCall PROVE Inv'
  OBVIOUS
<1>1. served' \in SUBSET Folders
  BY DEF ServeCall, Inv, TypeOK
<1>2. TypeOK'
  BY <1>1 DEF ServeCall, Inv, TypeOK, Bodies, button
<1>3. BodyElement'
  BY DEF ServeCall, Inv, BodyElement
<1>4. QED
  BY <1>2, <1>3 DEF Inv

(* A request of the body element ends, and the next one goes out. *)
LEMMA EndCallStep ==
  ASSUME Inv, NEW roots, EndCall(roots), ~inFlight',
         UNCHANGED <<view, served, toasts, button>>,
         shown' \in SUBSET Folders, lastRefreshBody' \in Bodies \cup {NoBody},
         inFlight' \in BOOLEAN,
         mark' \in [Clicks -> MarkStates]
  PROVE  Inv'
<1>1. call' = Unbound(waiting, roots) /\ waiting' = NoCall /\ answer' = NoBody
      /\ suppressConfirm' \in BOOLEAN
  BY DEF EndCall
<1>2. waiting \in Calls \cup {NoCall}
  BY DEF Inv, TypeOK
<1>3. call' \in Calls \cup {NoCall}
  BY <1>1, <1>2, UnboundIsTyped
<1>4. TypeOK'
  BY <1>1, <1>3 DEF Inv, TypeOK, button
<1>5. BodyElement'
  BY <1>1 DEF BodyElement
<1>6. QED BY <1>4, <1>5 DEF Inv

LEMMA DeliverPollStep == Inv /\ DeliverPoll => Inv'
<1> SUFFICES ASSUME Inv, DeliverPoll PROVE Inv'
  OBVIOUS
<1>1. answer \in SUBSET Folders
  BY DEF DeliverPoll, Inv, TypeOK, Bodies
<1>2. Detached(Roots) \in [Clicks -> MarkStates]
  BY DetachedIsTyped DEF Inv
<1>3. \/ UNCHANGED <<shown, mark, lastRefreshBody>>
      \/ shown' = answer /\ mark' = Detached(Roots) /\ lastRefreshBody' = answer
  BY DEF DeliverPoll, ApplyRefresh, KeepPage, SwapRoots
<1>4. shown' \in SUBSET Folders /\ lastRefreshBody' \in Bodies \cup {NoBody}
  BY <1>1, <1>3 DEF Inv, TypeOK, Bodies
<1>5. mark' \in [Clicks -> MarkStates]
  BY <1>2, <1>3 DEF Inv, TypeOK
<1>6. \E roots : EndCall(roots)
  BY DEF DeliverPoll
<1>7. inFlight' = FALSE /\ UNCHANGED <<view, served, toasts, button>>
  BY DEF DeliverPoll
<1>8. QED BY <1>4, <1>5, <1>6, <1>7, EndCallStep

LEMMA DeliverUndoStep == Inv /\ DeliverUndo => Inv'
<1> SUFFICES ASSUME Inv, DeliverUndo PROVE Inv'
  OBVIOUS
<1> DEFINE r == RootOf[call.for]
<1>1. answer \in SUBSET Folders
  BY DEF DeliverUndo, Inv, TypeOK, Bodies
<1>2. Detached({r}) \in [Clicks -> MarkStates]
  BY DetachedIsTyped DEF Inv
<1>3. \/ UNCHANGED <<shown, mark>>
      \/ shown' = (shown \ Section(r)) \cup (answer \cap Section(r)) /\ mark' = Detached({r})
  BY DEF DeliverUndo, KeepPage
<1>4. shown' \in SUBSET Folders
  BY <1>1, <1>3 DEF Inv, TypeOK
<1>5. mark' \in [Clicks -> MarkStates]
  BY <1>2, <1>3 DEF Inv, TypeOK
<1>6. \E roots : EndCall(roots)
  BY DEF DeliverUndo
<1>7. ~inFlight' /\ inFlight' \in BOOLEAN
  BY DEF DeliverUndo, Inv, TypeOK, BodyElement
<1>8. UNCHANGED <<view, served, toasts, button>> /\ lastRefreshBody' \in Bodies \cup {NoBody}
  BY DEF DeliverUndo, Inv, TypeOK
<1>9. QED BY <1>4, <1>5, <1>6, <1>7, <1>8, EndCallStep

LEMMA LoseCallStep == Inv /\ LoseCall => Inv'
<1> SUFFICES ASSUME Inv, LoseCall PROVE Inv'
  OBVIOUS
<1>1. inFlight' = FALSE
  BY DEF LoseCall, PollFailed, Inv, TypeOK, BodyElement
<1>2. EndCall({}) /\ UNCHANGED <<view, served, shown, lastRefreshBody, mark, toasts, button>>
  BY DEF LoseCall
<1>3. /\ shown' \in SUBSET Folders /\ lastRefreshBody' \in Bodies \cup {NoBody}
      /\ mark' \in [Clicks -> MarkStates]
  BY <1>2 DEF Inv, TypeOK
<1>4. QED BY <1>1, <1>2, <1>3, EndCallStep

(* The Rescan button, and what others write, leave the rest alone. *)
LEMMA RescanStep ==
  ASSUME Inv, ClickRescan \/ ServeRescan \/ LoseRescan \/ RescanBackoffOver
  PROVE  Inv'
<1>1. UNCHANGED <<view, served, shown, lastRefreshBody, mark, toasts, body>>
  BY DEF ClickRescan, ServeRescan, LoseRescan, RescanBackoffOver
<1>2. /\ suppressConfirm' \in BOOLEAN
      /\ rescan' \in {"ready", "sent", "backoff", "stuck"}
      /\ rescanned' \in Bodies \cup {NoBody}
  BY DEF ClickRescan, ServeRescan, LoseRescan, RescanBackoffOver, Inv, TypeOK, Bodies
<1>3. TypeOK'
  BY <1>1, <1>2 DEF Inv, TypeOK, body
<1>4. QED BY <1>1, <1>3 DEF Inv, BodyElement, body

LEMMA DeliverRescanStep == Inv /\ DeliverRescan => Inv'
<1> SUFFICES ASSUME Inv, DeliverRescan PROVE Inv'
  OBVIOUS
<1>1. shown' \in SUBSET Folders
  BY DEF DeliverRescan, SwapRoots, Inv, TypeOK, Bodies
<1>2. mark' = Detached(Roots)
  BY DEF DeliverRescan, SwapRoots
<1>3. mark' \in [Clicks -> MarkStates]
  BY <1>2, DetachedIsTyped DEF Inv
<1>4. call \in Calls \cup {NoCall} /\ waiting \in Calls \cup {NoCall}
  BY DEF Inv, TypeOK
<1>5. /\ call' \in Calls \cup {NoCall} /\ waiting' \in Calls \cup {NoCall}
      /\ call' = NoCall <=> call = NoCall
      /\ waiting' = NoCall <=> waiting = NoCall
      /\ call # NoCall => call'.for = call.for
  BY <1>4, UnboundIsTyped DEF DeliverRescan
<1>6. TypeOK'
  BY <1>1, <1>3, <1>5 DEF DeliverRescan, Inv, TypeOK
<1>7. BodyElement'
  BY <1>5 DEF DeliverRescan, Inv, BodyElement
<1>8. QED BY <1>6, <1>7 DEF Inv

LEMMA OutsideStep ==
  ASSUME Inv, NEW f \in Folders, OutsideChange(f)
  PROVE  Inv'
<1>1. TypeOK'
  BY DEF OutsideChange, Inv, TypeOK, body, button
<1>2. QED
  BY <1>1 DEF OutsideChange, Inv, BodyElement, body

LEMMA Step == Inv /\ [Next]_vars => Inv'
<1> SUFFICES ASSUME Inv, [Next]_vars PROVE Inv'
  OBVIOUS
<1>1. ASSUME NEW m \in Clicks, Progress(m) PROVE Inv'
  <2>1. CASE BackoffOver(m)
    BY <2>1, ReissueStep DEF BackoffOver
  <2>2. QED
    BY <1>1, <2>1, ServeMarkStep, LoseMarkStep, AnsweredStep, FlipStep, SwapMarkStep
       DEF Progress
<1>2. ASSUME NEW m \in Clicks, User(m) PROVE Inv'
  <2>1. CASE ManualRetry(m)
    BY <2>1, ReissueStep DEF ManualRetry
  <2>2. QED BY <1>2, <2>1, ClickStep, AcceptStep DEF User
<1>3. ASSUME NEW i \in 1 .. MaxToasts, ClickUndo(i) \/ ToastEnds(i) PROVE Inv'
  BY <1>3, ClickUndoStep, ToastEndsStep
<1>4. CASE PollTick \/ CallProgress
  BY <1>4, PollTickStep, ServeCallStep, DeliverPollStep, DeliverUndoStep, LoseCallStep
     DEF CallProgress
<1>5. CASE ClickRescan \/ RescanProgress
  BY <1>5, RescanStep, DeliverRescanStep DEF RescanProgress
<1>6. ASSUME NEW f \in Folders, OutsideChange(f) PROVE Inv'
  BY <1>6, OutsideStep
<1>7. CASE UNCHANGED vars
  BY <1>7 DEF vars, Inv, TypeOK, BodyElement, body, button
<1>8. QED
  BY <1>1, <1>2, <1>3, <1>4, <1>5, <1>6, <1>7 DEF Next

(* The types of a page: retries and undo offers stay within their limits. *)
THEOREM TypeCorrect == Spec => []TypeOK
<1>1. Inv => TypeOK
  BY DEF Inv
<1>2. QED BY Initially, Step, <1>1, PTL DEF Spec

(* pollOnce waits only while the body element's request is its own poll, and the
   queue holds a request only behind another: so whatever ends that request, an
   answer or a loss, lets the next poll or undo go out. *)
THEOREM BodyIsNeverStuck == Spec => []BodyElement
<1>1. Inv => BodyElement
  BY DEF Inv
<1>2. QED BY Initially, Step, <1>1, PTL DEF Spec

=============================================================================
