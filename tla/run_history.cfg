SPECIFICATION HistorySpec
CONSTANTS
    None = None
    src = src
    out = out
    c1 = c1
    c2 = c2
    f1 = f1
    f2 = f2
    here = here
    Root = here
    Prints <- MCPrints
    Places <- MCPlaces
    Contents <- MCContents
    Configs <- MCConfigs
    Policies <- MCPolicies
    Requests <- MCRequests
    Ordinary <- MCOrdinary
    Endings <- MCEndings
    Harmless <- MCHarmless
    MaxClock = 3
    MaxOdd = 2
\* Runs and requests come to an end where the clock does.
CHECK_DEADLOCK FALSE
INVARIANTS ViewsForetell HistoryIsFaithful
