CONSTANTS
  f1 = f1
  f2 = f2
  c1 = c1
  lib = lib
  lib2 = lib2
  Poll = Poll
  NoCall = NoCall
  NoBody = NoBody
  Views = {"gaps", "all"}
  Folders = {f1, f2}
  RootOf <- TwoRoots
  Clicks = {c1}
  MaxRetries = 1
  MaxToasts = 1
  MarkCanFail = FALSE
  AnswersGetLost = TRUE
  OthersWrite = FALSE
  CanRescan = FALSE
SPECIFICATION Spec
PROPERTIES
  MarksAreAskedFor
