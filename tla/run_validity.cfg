SPECIFICATION Spec
CONSTANTS
  Runners = {r1}
  Readers = {s1}
  Inputs = {f1}
  Watched = build
  World = world
  Modes = {"refresh","noCache","noFailures","allowSkipped"}
  CacheFailed = TRUE
  Probing = TRUE
  Expiring = TRUE
  Editing = TRUE
  Faulty = TRUE
  MaxStarts = 2
  MaxWrites = 1
  MaxClock = 1
INVARIANTS ReusableIsFaithful NothingIsStale
\* Every process may have ended, with none left to start.
CHECK_DEADLOCK FALSE
