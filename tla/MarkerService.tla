--------------------------- MODULE MarkerService ----------------------------
(***************************************************************************)
(* What RawViewStore promises its callers, with no cache, lock or build:   *)
(*   - a mark or undo changes the disk at most once, only its own folder,  *)
(*     between its call and its answer;                                    *)
(*   - once it has, it always ends in an answer, even when its client left *)
(*     (ADR-0022: never split from its bookkeeping), and that answer shows *)
(*     its folder as the folder really was at some moment since the write; *)
(*   - reads and rescans change nothing and may be abandoned.              *)
(***************************************************************************)
CONSTANTS Folders, Requests, Ops

VARIABLES
  disk,    \* which folders hold a marker
  op,      \* the call each request makes
  phase,   \* idle, called, written, answered, left
  shown,   \* the answer's word on the call's own folder
  since    \* what that folder held on disk since the call's own write

vars == <<disk, op, phase, shown, since>>

OnDisk == {"marked", "bare"}
Shown == OnDisk \cup {"unread"}
own(r) == op[r].folder

Init ==
  /\ disk \in [Folders -> OnDisk]
  /\ op \in [Requests -> Ops]
  /\ phase = [r \in Requests |-> "idle"]
  /\ shown = [r \in Requests |-> "unread"]
  /\ since = [r \in Requests |-> {}]

Enter(r, p) == phase' = [phase EXCEPT ![r] = p]

(* f holds v from now on: the requests that wrote f before take note. *)
Becomes(f, v) == disk' = [disk EXCEPT ![f] = v]
Noted(f, v) ==
  [q \in Requests |-> IF phase[q] = "written" /\ own(q) = f
                      THEN since[q] \cup {v} ELSE since[q]]

Call(r) ==
  /\ phase[r] = "idle" /\ op[r].kind # "outside"
  /\ Enter(r, "called")
  /\ UNCHANGED <<disk, op, shown, since>>

Write(r, v) ==
  /\ phase[r] = "called"
  /\ \/ op[r].kind = "mark" /\ disk[own(r)] = "bare" /\ v = "marked"
     \/ op[r].kind = "unmark" /\ v = "bare"
  /\ Becomes(own(r), v)
  /\ since' = [Noted(own(r), v) EXCEPT ![r] = {v}]
  /\ Enter(r, "written")
  /\ UNCHANGED <<op, shown>>

(* A call that wrote nothing may be answered with any view. *)
Answer(r, s) ==
  /\ \/ phase[r] = "called"
     \/ phase[r] = "written" /\ s \in since[r] \cup {"unread"}
  /\ shown' = [shown EXCEPT ![r] = s]
  /\ Enter(r, "answered")
  /\ UNCHANGED <<disk, op, since>>

Leave(r) ==
  /\ phase[r] = "called" /\ op[r].kind \in {"read", "rescan"}
  /\ Enter(r, "left")
  /\ UNCHANGED <<disk, op, shown, since>>

Outside(r, v) ==
  /\ phase[r] = "idle" /\ op[r].kind = "outside"
  /\ Becomes(own(r), v)
  /\ since' = Noted(own(r), v)
  /\ Enter(r, "answered")
  /\ UNCHANGED <<op, shown>>

Next == \E r \in Requests :
  \/ Call(r) \/ Leave(r)
  \/ \E s \in Shown : Answer(r, s)
  \/ \E v \in OnDisk : Write(r, v) \/ Outside(r, v)

Spec == Init /\ [][Next]_vars
=============================================================================
