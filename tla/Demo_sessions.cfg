CONSTANTS
  m1 = m1
  stray = stray
  Visitor = {v1, v2}
  Request = {r1, r2}
  Nobody = Nobody
  NoSession = NoSession
  SessionId = {s1, s2, s3, s4}
  Mark = {m1, stray}
  Asks <- AllAsks
  Base = {m1}
  MaxSessions = 1
  Idle = 3
  Period = 1
  MaxLag = 1
SPECIFICATION Spec
INVARIANTS
  TypeOK
  Private
  EarlyReturnIsServed
  SlotsComeBack
SYMMETRY Interchangeable
