SPECIFICATION MCSpec
CONSTANTS
  Nobody = Nobody
  Paths <- MCPaths
  Files = {f1}
  Links = {l1}
  HashOnly = {}
  Hidden <- MCHidden
  Policies <- MCWiderRules
  Selections <- MCSelections
  Restores = {r1, r2}
  Budget = 4
  Faulty = TRUE
  Crashing = TRUE
  StreamPaths = {1, 2, 3}
  Inside <- MCInside
  BufferMax = 2
  MaxRecords = 3
  MaxFaults = 1
INVARIANTS OutcomesAreRight UndoBringsBack ReadsAreWhole
PROPERTY NothingIsLost
\* Every restore may have ended, and so may a command.
CHECK_DEADLOCK FALSE
