------------------------------ MODULE PageClient -----------------------------
(***************************************************************************)
(* One open page: src/assets/app.js over htmx, in either view, and the     *)
(* server as the page sees it.                                             *)
(*                                                                         *)
(* A mark goes out from a button that sits in its root's section, and its  *)
(* answer replaces that section: in the gaps-only view once the row has    *)
(* collapsed, in show-all at once, where the row stays and turns covered.  *)
(* A poll or a rescan replaces all of them.                                *)
(* A replaced section is off the page, with its buttons: what happens to   *)
(* their requests reaches nobody.  Polls and undos go out from the body    *)
(* element, which has one request in flight and one place in its queue.    *)
(*                                                                         *)
(* Of the server only this is kept: the folders that are covered in what   *)
(* it answers.  Module RawViewStore says how it comes to its answers.      *)
(***************************************************************************)
EXTENDS Naturals, Sequences, FiniteSets, SequencesExt

CONSTANTS
  Views,        \* the views the page may have been loaded in
  Folders,      \* the folders that are gaps unless marked
  RootOf,       \* the library root of each: one section per root
  Clicks,       \* marks that may be under way at a time
  MaxRetries,   \* MAX_RETRIES
  MaxToasts,    \* MAX_TOASTS
  MarkCanFail,  \* marker IO may fail: a 200 that carries an alert
  AnswersGetLost, \* requests may fail on the way, or time out
  OthersWrite,  \* other pages and programs change the library
  CanRescan,    \* the user may press Rescan
  Poll,         \* what a poll is for, where an undo names its folder
  NoCall,       \* the body element has no request
  NoBody        \* no answer yet; lastRefreshBody before the first

ASSUME ViewsAssumption == Views \subseteq {"gaps", "all"}
ASSUME RootsAssumption == DOMAIN RootOf = Folders
ASSUME LimitsAssumption == MaxRetries \in Nat /\ MaxToasts \in Nat \ {0}
ASSUME FoldersAssumption == Folders # {}
ASSUME SwitchesAssumption ==
  {MarkCanFail, AnswersGetLost, OthersWrite, CanRescan} \subseteq BOOLEAN

VARIABLES
  view,            \* the page's view: gaps-only or show-all
  served,          \* the folders covered in the server's present answer
  shown,           \* the folders the page shows as covered: no row of theirs in
                   \* the gaps view, no mark buttons in either
  lastRefreshBody, \* the last /refresh body swapped in
  mark,            \* the marks under way
  suppressConfirm, \* the next confirmation is skipped
  toasts,          \* the undo offers, oldest first
  call,            \* the body element's request in flight
  answer,          \* its answer, once the server gave it
  waiting,         \* the one behind it in htmx's queue
  inFlight,        \* pollOnce waits for a poll of its own
  rescan,          \* where the Rescan button is
  rescanned        \* the answer to a rescan

body == <<call, answer, waiting, inFlight>>
button == <<rescan, rescanned>>
vars == <<view, served, shown, lastRefreshBody, mark, suppressConfirm, toasts, body,
          button>>

Section(r) == {f \in Folders : RootOf[f] = r}
Roots == {RootOf[f] : f \in Folders}
Phases == {"idle", "confirming", "sent", "answered", "backoff", "swapping", "failed"}

(* A mark: where it is, its folder, whether its button is still on the page,
   retryState's attempts, the section answered, and whether a marker was
   created. *)
MarkStates ==
  [at : Phases, on : Folders, here : BOOLEAN, tries : 0 .. MaxRetries,
   got : SUBSET Folders, created : BOOLEAN]
At(phase, f) == [at |-> phase, on |-> f, here |-> TRUE, tries |-> 0,
                 got |-> {}, created |-> FALSE]
Idle == At("idle", CHOOSE f \in Folders : TRUE)

(* bound: the section an undo will replace is still on the page. *)
Calls == [for : Folders \cup {Poll}, bound : BOOLEAN]
Bodies == SUBSET Folders

ASSUME NamesAssumption ==
  /\ Poll \notin Folders
  /\ \A c \in Calls : c # NoCall
  /\ \A covered \in Bodies : covered # NoBody

TypeOK ==
  /\ view \in Views
  /\ served \in SUBSET Folders
  /\ shown \in SUBSET Folders
  /\ lastRefreshBody \in Bodies \cup {NoBody}
  /\ mark \in [Clicks -> MarkStates]
  /\ suppressConfirm \in BOOLEAN
  /\ toasts \in Seq(Folders) /\ Len(toasts) <= MaxToasts
  /\ call \in Calls \cup {NoCall}
  /\ answer \in Bodies \cup {NoBody}
  /\ waiting \in Calls \cup {NoCall}
  /\ inFlight \in BOOLEAN
  /\ rescan \in {"ready", "sent", "backoff", "stuck"}
  /\ rescanned \in Bodies \cup {NoBody}

(* A page as it was loaded. *)
Init ==
  /\ view \in Views
  /\ served \in SUBSET Folders
  /\ shown = served
  /\ lastRefreshBody = NoBody
  /\ mark = [m \in Clicks |-> Idle]
  /\ suppressConfirm = FALSE
  /\ toasts = <<>>
  /\ call = NoCall /\ answer = NoBody /\ waiting = NoCall
  /\ inFlight = FALSE
  /\ rescan = "ready" /\ rescanned = NoBody

-----------------------------------------------------------------------------
(* Replacing sections *)

(* The marks once these roots' sections are gone: buttons detached, failure
   strips gone with their rows. *)
Detached(roots) ==
  [m \in Clicks |->
     IF mark[m].at = "idle" \/ RootOf[mark[m].on] \notin roots THEN mark[m]
     ELSE IF mark[m].at = "failed" THEN Idle
     ELSE [At(mark[m].at, mark[m].on) EXCEPT !.here = FALSE]]

Unbound(c, roots) ==
  IF c = NoCall \/ c.for = Poll THEN c
  ELSE [c EXCEPT !.bound = @ /\ RootOf[c.for] \notin roots]

SwapRoots(covered) ==
  /\ shown' = covered
  /\ mark' = Detached(Roots)

KeepPage == UNCHANGED <<shown, mark>>

-----------------------------------------------------------------------------
(* Marks *)

DialogOpen == \E m \in Clicks : mark[m].at = "confirming"

(* The row's buttons are there to be clicked: only the gaps view holds a row
   saving while its mark is under way.  In show-all its other button works. *)
Clickable(m, f) ==
  /\ mark[m].at = "idle" /\ f \notin shown
  /\ view = "gaps" => \A k \in Clicks :
       mark[k].on = f => mark[k].at \in {"idle", "failed"} \/ ~mark[k].here

(* The click, and the htmx:confirm handler: it holds the request for the
   dialog, unless a resend has armed suppressConfirm. *)
ClickMark(m, f) ==
  /\ Clickable(m, f) /\ ~DialogOpen
  /\ mark' = [mark EXCEPT ![m] =
       At(IF suppressConfirm THEN "sent" ELSE "confirming", f)]
  /\ suppressConfirm' = FALSE
  /\ UNCHANGED <<view, served, shown, lastRefreshBody, toasts, body, button>>

Goto(m, phase) == mark' = [mark EXCEPT ![m].at = phase]
Free(m) == mark' = [mark EXCEPT ![m] = Idle]

(* htmx issues nothing for an element that is off the page. *)
AcceptConfirm(m) ==
  /\ mark[m].at = "confirming"
  /\ \/ mark[m].here /\ Goto(m, "sent")
     \/ ~mark[m].here /\ Free(m)
  /\ UNCHANGED <<view, served, shown, lastRefreshBody, suppressConfirm, toasts, body,
                 button>>

CancelConfirm(m) ==
  /\ mark[m].at = "confirming"
  /\ Free(m)
  /\ UNCHANGED <<view, served, shown, lastRefreshBody, suppressConfirm, toasts, body,
                 button>>

(* The mark handler: a failed write answers 200 with the section unchanged;
   `created` decides on the HX-Trigger header.  An answer to a button that is
   off the page reaches nobody. *)
ServeMark(m) ==
  LET f == mark[m].on
      Answered(covered, created) ==
        IF mark[m].here
        THEN mark' = [mark EXCEPT ![m].at = "answered", ![m].created = created,
                                  ![m].got = covered \cap Section(RootOf[f])]
        ELSE Free(m)
  IN  /\ mark[m].at = "sent"
      /\ \/ MarkCanFail /\ UNCHANGED served /\ Answered(served, FALSE)
         \/ served' = served \cup {f} /\ Answered(served', f \notin served)
      /\ UNCHANGED <<view, shown, lastRefreshBody, suppressConfirm, toasts, body,
                     button>>

(* clearMarkFailed: a row shows one failure strip at most. *)
StripCleared(f) ==
  [k \in Clicks |->
     IF mark[k].at = "failed" /\ mark[k].on = f THEN Idle ELSE mark[k]]

(* Mutant: retry without counting. *)
HandleFailureUncounted(m, retryable) ==
  IF ~mark[m].here THEN Free(m) ELSE mark' = [mark EXCEPT ![m].at = "backoff"]

(* htmx:sendError, timeout and responseError, heard only from a button that is
   on the page: back off while attempts are left, then show the strip. *)
HandleFailure(m, retryable) ==
  IF ~mark[m].here THEN Free(m)
  ELSE IF retryable /\ mark[m].tries < MaxRetries
  THEN mark' = [mark EXCEPT ![m].at = "backoff", ![m].tries = @ + 1]
  ELSE mark' = [StripCleared(mark[m].on) EXCEPT ![m] = At("failed", mark[m].on)]

(* The request or its answer is lost, or takes longer than htmx waits; the
   server may still be at it. *)
LoseMark(m) ==
  /\ AnswersGetLost
  /\ mark[m].at \in {"sent", "answered"}
  /\ \E retryable \in BOOLEAN : HandleFailure(m, retryable)
  /\ UNCHANGED <<view, served, shown, lastRefreshBody, suppressConfirm, toasts, body,
                 button>>

(* reissue, after its delay: arm suppressConfirm, then htmx.ajax, whose
   confirm event disarms it; from a detached button htmx sends nothing and
   raises no event. *)
Reissue(m) ==
  \/ mark[m].here /\ Goto(m, "sent") /\ suppressConfirm' = FALSE
  \/ ~mark[m].here /\ Free(m) /\ suppressConfirm' = TRUE

BackoffOver(m) ==
  /\ mark[m].at = "backoff"
  /\ Reissue(m)
  /\ UNCHANGED <<view, served, shown, lastRefreshBody, toasts, body, button>>

(* manualRetry, from the strip, with the attempts counted anew. *)
ManualRetry(m) ==
  /\ mark[m].at = "failed" /\ ~DialogOpen
  /\ Reissue(m)
  /\ UNCHANGED <<view, served, shown, lastRefreshBody, toasts, body, button>>

OfferedOnTop(f) == Append(toasts, f)  \* mutant: no offer makes room
(* pushToast: the oldest offer makes room. *)
Offered(f) ==
  Append(IF Len(toasts) < MaxToasts THEN toasts ELSE Tail(toasts), f)

(* The `marked` event of a response whose write created the marker. *)
OfferUndo(m) ==
  toasts' = IF mark[m].created THEN Offered(mark[m].on) ELSE toasts

(* A section replaced by the one answered. *)
SwapSection(m) ==
  LET r == RootOf[mark[m].on]
  IN  /\ shown' = (shown \ Section(r)) \cup mark[m].got
      /\ mark' = [Detached({r}) EXCEPT ![m] = Idle]
      /\ call' = Unbound(call, {r}) /\ waiting' = Unbound(waiting, {r})

(* The answer, in the gaps view: collapse the row, offer the undo, and swap
   when the row has gone.  On a detached button no event is heard and nothing
   is swapped. *)
MarkAnswered(m) ==
  /\ mark[m].at = "answered"
  /\ \/ /\ mark[m].here /\ view = "gaps" /\ OfferUndo(m)
        /\ mark' = [mark EXCEPT ![m] = [At("swapping", @.on) EXCEPT !.got = mark[m].got]]
     \/ ~mark[m].here /\ Free(m) /\ UNCHANGED toasts
  /\ UNCHANGED <<view, served, shown, lastRefreshBody, suppressConfirm, body, button>>

(* In show-all: offer the undo and swap in the same turn. *)
FlipInPlace(m) ==
  /\ view = "all" /\ mark[m].at = "answered" /\ mark[m].here
  /\ OfferUndo(m)
  /\ SwapSection(m)
  /\ UNCHANGED <<view, served, lastRefreshBody, suppressConfirm, answer, inFlight,
                 button>>

(* The delayed swap, which finds nothing to replace if a refresh came first. *)
SwapMark(m) ==
  /\ mark[m].at = "swapping"
  /\ \/ mark[m].here /\ SwapSection(m)
     \/ ~mark[m].here /\ Free(m) /\ UNCHANGED <<shown, call, waiting>>
  /\ UNCHANGED <<view, served, lastRefreshBody, suppressConfirm, toasts, answer,
                 inFlight, button>>

-----------------------------------------------------------------------------
(* The body element: polls and undos *)

(* htmx: a request of an element that has one in flight takes the only place
   in its queue. *)
Issue(c) ==
  /\ suppressConfirm' = FALSE
  /\ IF call = NoCall THEN call' = c /\ UNCHANGED waiting
     ELSE waiting' = c /\ UNCHANGED call

PollTick ==
  /\ ~inFlight
  /\ Issue([for |-> Poll, bound |-> TRUE])
  /\ inFlight' = (call = NoCall)
  /\ UNCHANGED <<view, served, shown, lastRefreshBody, mark, toasts, answer, button>>

ClickUndo(i) ==
  /\ i \in DOMAIN toasts /\ ~DialogOpen
  /\ toasts' = RemoveAt(toasts, i)
  /\ Issue([for |-> toasts[i], bound |-> TRUE])
  /\ UNCHANGED <<view, served, shown, lastRefreshBody, mark, answer, inFlight, button>>

(* Dismissed, timed out, or cleared with Escape. *)
ToastEnds(i) ==
  /\ i \in DOMAIN toasts
  /\ toasts' = RemoveAt(toasts, i)
  /\ UNCHANGED <<view, served, shown, lastRefreshBody, mark, suppressConfirm, body,
                 button>>

(* The refresh and unmark handlers. *)
ServeCall ==
  /\ call # NoCall /\ answer = NoBody
  /\ \/ (call.for = Poll \/ MarkCanFail) /\ UNCHANGED served
     \/ call.for # Poll /\ served' = served \ {call.for}
  /\ answer' = served'
  /\ UNCHANGED <<view, shown, lastRefreshBody, mark, suppressConfirm, toasts, call,
                 waiting, inFlight, button>>

ServePoll == ServeCall /\ call.for = Poll

(* The next request in the queue goes out, with an htmx:confirm of its own. *)
EndCall(roots) ==
  /\ call' = Unbound(waiting, roots)
  /\ waiting' = NoCall
  /\ answer' = NoBody
  /\ suppressConfirm' = (suppressConfirm /\ waiting = NoCall)

(* Mutant: remember every body as the one last swapped in, before swapping. *)
ApplyRefreshNever == SwapRoots(shown) /\ lastRefreshBody' = answer
(* htmx:beforeSwap of a refresh: a body equal to the last one is skipped. *)
ApplyRefresh ==
  IF answer = lastRefreshBody THEN KeepPage /\ UNCHANGED lastRefreshBody
  ELSE SwapRoots(answer) /\ lastRefreshBody' = answer

DeliverPoll ==
  /\ call # NoCall /\ call.for = Poll /\ answer # NoBody
  /\ ApplyRefresh
  /\ inFlight' = FALSE
  /\ EndCall(IF answer = lastRefreshBody THEN {} ELSE Roots)
  /\ UNCHANGED <<view, served, toasts, button>>

DeliverUndo ==
  /\ call # NoCall /\ call.for # Poll /\ answer # NoBody
  /\ LET r == RootOf[call.for]
     IN  \/ /\ call.bound
            /\ shown' = (shown \ Section(r)) \cup (answer \cap Section(r))
            /\ mark' = Detached({r})
            /\ EndCall({r})
         \/ ~call.bound /\ KeepPage /\ EndCall({})
  /\ UNCHANGED <<view, served, lastRefreshBody, toasts, inFlight, button>>

PollFailedStays == UNCHANGED inFlight  \* mutant: .then(done) for success only
(* .then(done, done) *)
PollFailed == inFlight' = (inFlight /\ call.for # Poll)

(* Nobody handles the failure of a poll or an undo. *)
LoseCall ==
  /\ AnswersGetLost
  /\ call # NoCall
  /\ PollFailed
  /\ EndCall({})
  /\ UNCHANGED <<view, served, shown, lastRefreshBody, mark, toasts, button>>

-----------------------------------------------------------------------------
(* The Rescan button, outside the sections *)

(* The r key clicks it behind an open dialog too. *)
ClickRescan ==
  /\ CanRescan /\ rescan = "ready"
  /\ rescan' = "sent"
  /\ suppressConfirm' = FALSE
  /\ UNCHANGED <<view, served, shown, lastRefreshBody, mark, toasts, body, rescanned>>

ServeRescan ==
  /\ rescan = "sent" /\ rescanned = NoBody
  /\ rescanned' = served
  /\ UNCHANGED <<view, served, shown, lastRefreshBody, mark, suppressConfirm, toasts,
                 body, rescan>>

DeliverRescan ==
  /\ rescan = "sent" /\ rescanned # NoBody
  /\ SwapRoots(rescanned)
  /\ call' = Unbound(call, Roots) /\ waiting' = Unbound(waiting, Roots)
  /\ rescan' = "ready" /\ rescanned' = NoBody
  /\ UNCHANGED <<view, served, lastRefreshBody, suppressConfirm, toasts, answer,
                 inFlight>>

(* A failure that may pass holds the button disabled for the retry; any other
   frees it. *)
LoseRescan ==
  /\ AnswersGetLost
  /\ rescan = "sent"
  /\ rescan' \in {"backoff", "ready"} /\ rescanned' = NoBody
  /\ UNCHANGED <<view, served, shown, lastRefreshBody, mark, suppressConfirm, toasts,
                 body>>

(* reissue takes its element for the form.  It is the button, of which no
   FormData can be made: the exception leaves suppressConfirm armed and the
   button held. *)
RescanBackoffOver ==
  /\ rescan = "backoff"
  /\ rescan' = "stuck"
  /\ suppressConfirm' = TRUE
  /\ UNCHANGED <<view, served, shown, lastRefreshBody, mark, toasts, body, rescanned>>

-----------------------------------------------------------------------------
(* Another page or program, or a request this page gave up on and the server
   did not. *)
OutsideChange(f) ==
  /\ OthersWrite
  /\ served' = IF f \in served THEN served \ {f} ELSE served \cup {f}
  /\ UNCHANGED <<view, shown, lastRefreshBody, mark, suppressConfirm, toasts, body,
                 button>>

(* What goes on with a mark once the user has let it go. *)
Progress(m) ==
  ServeMark(m) \/ LoseMark(m) \/ BackoffOver(m) \/ MarkAnswered(m)
  \/ FlipInPlace(m) \/ SwapMark(m)

User(m) ==
  \/ \E f \in Folders : ClickMark(m, f)
  \/ AcceptConfirm(m) \/ CancelConfirm(m) \/ ManualRetry(m)

CallProgress == ServeCall \/ DeliverPoll \/ DeliverUndo \/ LoseCall
RescanProgress == ServeRescan \/ DeliverRescan \/ LoseRescan \/ RescanBackoffOver

Next ==
  \/ \E m \in Clicks : Progress(m) \/ User(m)
  \/ \E i \in 1 .. MaxToasts : ClickUndo(i) \/ ToastEnds(i)
  \/ PollTick \/ CallProgress
  \/ ClickRescan \/ RescanProgress
  \/ \E f \in Folders : OutsideChange(f)

Spec == Init /\ [][Next]_vars

(* Timers fire and every request ends, answered or timed out; the page stays
   visible, so the interval ticks; polls do not fail for ever. *)
FairSpec ==
  /\ Spec
  /\ \A m \in Clicks : WF_vars(Progress(m))
  /\ WF_vars(CallProgress)
  /\ WF_vars(PollTick)
  /\ SF_vars(ServePoll)
  /\ SF_vars(DeliverPoll)

-----------------------------------------------------------------------------
(* Properties *)

(* However often the connection fails, a mark that went out comes to an end the
   user sees: its row collapses or, in show-all, is replaced, or it shows the
   failure strip, unless a refresh took the row away. *)
MarksComeToAnEnd ==
  \A m \in Clicks :
    mark[m].at = "sent" ~> \/ mark[m].at \in {"swapping", "failed"} \/ ~mark[m].here
                           \/ view = "all" /\ mark[m].at = "idle"

(* The poll never waits for ever for an answer to an earlier poll. *)
PollKeepsGoing == inFlight ~> ~inFlight

(* A state of the library that lasts gets shown, unless it equals the last
   /refresh body: no loss, retry or queued undo keeps the polls from it. *)
PollCatchesUp ==
  \A covered \in Bodies :
    (lastRefreshBody # covered /\ [](served = covered)) ~> (shown = covered)

(* app.js, reissue: a stray failure on a detached button can't leave the flag
   stuck and mute the next confirm.  So a mark that a click begins is asked
   for before it is sent. *)
MarksAreAskedFor ==
  [][\A m \in Clicks : mark[m].at = "idle" => mark'[m].at # "sent"]_vars
=============================================================================
