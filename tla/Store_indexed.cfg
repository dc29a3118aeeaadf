CONSTANTS
  f1 = f1
  f2 = f2
  r1 = r1
  r2 = r2
  lib = lib
  NoRequest = NoRequest
  Roots = {lib}
  Folders = {f1, f2}
  RootOf <- OneRoot
  Requests = {r1, r2}
  Ops <- EveryCall
  WriteCanFail = FALSE
  WalkCanFail = FALSE
SPECIFICATION IndexedSpec
SYMMETRY Symmetry
INVARIANTS
  OwnWriteShows
  RescanSeesHiddenChanges
  SlotSettles
PROPERTIES
  ServesThroughIndex
