SPECIFICATION MCSpec
CONSTANTS
    Tokens <- MCTokens
    MaxTokens = 5
    MaxRouted = 2
    ChildCodes = {0, 3, 5}
    Scale <- MCScale
    MaxInt = 63
    Contents <- MCContents
    Rewrites <- MCRewrites
    MaxEdits = 1
    Dirs = {"locks"}
    Checkpoints = {"c1", "c2", "c3"}
    Blobs = {"b1", "b2"}
    Runs = {"r1"}
    Records = {"u1"}
    Temps = {"t1"}
    Locks = {"l1", "gc"}
    Refs <- MCRefs
    Captured <- MCCaptured
    RootFiles <- MCRootFiles
    Exclusive = {"gc"}
    ReportsUnknown = TRUE
    Faults <- MCFaults
    MaxChanged = 3
    Trees <- MCTrees
    Limits <- MCLimits
    PathRank <- MCPathRank
    NamedRoots = {"dist"}
    ExactRoots <- MCExact
    MaxVanished = 2
    ProjectRoots = {"p", "q"}
    ProjectPaths = {"here"}
    Declarations <- MCDeclarations
    Damages <- MCDamages
    MaxMoves = 2
    Starters = {"p1", "p2", "p3"}
    RequiredDirs = {"store", "runs"}
    Around = {"absent", "dir", "file", "opaque"}
INVARIANT InterruptedWaitExits130
