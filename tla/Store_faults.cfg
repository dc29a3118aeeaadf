CONSTANTS
  f1 = f1
  f2 = f2
  r1 = r1
  r2 = r2
  r3 = r3
  lib = lib
  lib2 = lib2
  NoRequest = NoRequest
  Roots = {lib, lib2}
  Folders = {f1, f2}
  RootOf <- TwoRoots
  Requests = {r1, r2}
  Ops <- EveryCall
  WriteCanFail = TRUE
  WalkCanFail = TRUE
SPECIFICATION FairSpec
PROPERTIES
  ServiceSpec
  EveryRequestAnswered
