CONSTANTS
  page = page
  other = other
  write = write
  Startup = Startup
  Request = {page, other, write}
  Work <- Wanted
  Cap = 2
  Read = Read
  Setups <- Starts
SPECIFICATION Spec
INVARIANTS
  TypeOK
  NoPermitLost
  SignalsHeard
  AwaitedWritesKept
PROPERTIES
  ServesAsTold
  EveryRequestServed
  StopsWhenTold
CHECK_DEADLOCK FALSE
