CONSTANTS
  sub = sub
  w1 = w1
  w2 = w2
  marker = marker
  Dirs = {sub}
  Depth <- OneFolder
  Entries = {marker}
  Walkers = {w1, w2}
  ReadCanFail = TRUE
  EntriesCanFail = TRUE
  MaxChanges = 4
SYMMETRY Symmetry
SPECIFICATION Spec
INVARIANTS
  TypeOK
  IndexSound
  WalkSeesCurrent
  NothingInvented
  SelfWritesShow
