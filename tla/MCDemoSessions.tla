--------------------------- MODULE MCDemoSessions ---------------------------
(* Small instances of DemoSessions for TLC. *)
EXTENDS DemoSessions, TLC

CONSTANTS m1, stray

AllAsks == [do : {"mark", "unmark"}, mark : Mark] \cup [do : {"index", "reset"}]

Interchangeable ==
  Permutations(Visitor) \cup Permutations(Request) \cup Permutations(SessionId)
=============================================================================
