SPECIFICATION Spec
CONSTANTS
  f1 = f1
  f2 = f2
  a = a
  b = b
  x = x
  Absent = Absent
  Files <- MCFiles
  Contents <- MCContents
  Unreadable <- MCUnreadable
  Worktrees <- MCWorktrees
  Checkpoints <- MCCheckpoints
  Runs <- MCRuns
  Evidence <- MCEvidence
  Rank <- MCRank
  Asks <- MCAsks
  Stores <- MCStores
  NowPolicy = "p"
  NowHidden = {}
  MaxEvents = 2
INVARIANTS NowIsAMoment PublishedIsReadable VerdictIsEarned OperandsAreResolved
\* The question has been answered.
CHECK_DEADLOCK FALSE
