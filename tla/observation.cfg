SPECIFICATION ObservationSpec
CONSTANTS
  Paths <- MCPaths
  NoPath = none
  Before <- MCBefore
  Prefix <- MCPrefix
  Under <- MCUnder
  States <- MCStates
  Asks <- MCAsks
  Stored <- MCStored
  Trees <- MCTrees
  Scopes <- MCScopes
  NewNodes <- MCNewNodes
  Order <- MCOrder
  Protected = {".git"}
  LinkBudget = 4
  MaxEdits = 1
INVARIANTS AbsentIsTrue ScopeIsExact LinksStayInside ReportIsTheDifference
\* A comparison that has ended, or a scan that has failed, stays so.
CHECK_DEADLOCK FALSE
