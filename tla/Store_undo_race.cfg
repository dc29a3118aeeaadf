CONSTANTS
  f1 = f1
  f2 = f2
  r1 = r1
  r2 = r2
  r3 = r3
  lib = lib
  lib2 = lib2
  NoRequest = NoRequest
  Roots = {lib, lib2}
  Folders = {f1, f2}
  RootOf <- OneRoot
  Requests = {r1, r2, r3}
  Ops <- MarkAndOtherUndo
  WriteCanFail = FALSE
  WalkCanFail = FALSE
SYMMETRY Symmetry
SPECIFICATION Spec
INVARIANTS
  QuiescentSlotMatchesDisk
