---------------------------- MODULE MCCapacity ----------------------------
(* Small worktrees with a store, watched roots and nested markers, and       *)
(* budgets that end each walk early or not at all.                           *)
EXTENDS CapacityAudit, TLC

Dr == [kind |-> "dir", size |-> 0]
Fi(n) == [kind |-> "file", size |-> n]
Odd(kind) == [kind |-> kind, size |-> 0]
(* A store, a watched root within which another name matches, a nested marker. *)
Plain == (<<".awa">> :> Dr) @@ (<<".awa", "s">> :> Dr) @@ (<<".awa", "s", "b">> :> Fi(2))
         @@ (<<"dist">> :> Dr) @@ (<<"dist", "dist">> :> Dr) @@ (<<"dist", "dist", "f">> :> Fi(3))
         @@ (<<"src">> :> Dr) @@ (<<"src", "out">> :> Dr) @@ (<<"src", "out", "f">> :> Fi(1))
Nested == (<<".awa">> :> Odd("file")) @@ (<<"v">> :> Dr) @@ (<<"v", ".awa">> :> Dr) @@ (<<"v", ".awa", "f">> :> Fi(1))
          @@ (<<".git">> :> Dr) @@ (<<".git", ".awa">> :> Dr) @@ (<<"dist">> :> Dr) @@ (<<"dist", ".awa">> :> Dr)
          @@ (<<"dist", "f">> :> Fi(2))
Shut == (<<".awa">> :> Dr) @@ (<<".awa", "x">> :> Odd("opaque")) @@ (<<".awa", "l">> :> Odd("link"))
        @@ (<<"v">> :> Odd("closed")) @@ (<<"v", ".awa">> :> Dr) @@ (<<"v", "dist">> :> Dr) @@ (<<"w">> :> Dr)
        @@ (<<"w", "dist">> :> Odd("closed")) @@ (<<"dist">> :> Odd("link"))
MCExact == {<<"src", "out">>}
MCTrees == {Plain, Nested, Shut}
Budgets(scan, size, search, dirs, root, depth, aggregate, detail, threshold) ==
    [scanDirs |-> scan, storeEntries |-> size, searchEntries |-> search, searchDirs |-> dirs, rootEntries |-> root,
     depth |-> depth, aggregate |-> aggregate, detail |-> detail, threshold |-> threshold]
MCLimits == {Budgets(9, 9, 9, 9, 9, 9, 9, 1, 3), Budgets(2, 2, 9, 2, 1, 9, 9, 2, 0),
             Budgets(3, 9, 3, 9, 9, 1, 1, 2, 2), Budgets(9, 9, 9, 9, 3, 2, 2, 1, 1)}
MCPaths == UNION {DOMAIN t : t \in MCTrees}
(* Paths in the order of their names. *)
MCNames == <<".awa", ".git", "b", "dist", "f", "l", "out", "s", "src", "v", "w", "x">>
MCPathRank ==
    LET At(p, i) == IF i > Len(p) THEN 0 ELSE CHOOSE n \in DOMAIN MCNames : MCNames[n] = p[i] IN
    [p \in MCPaths |-> At(p, 1) * 169 + At(p, 2) * 13 + At(p, 3)]
AuditDone == walk.doing = "done"
OneAudit == tree = Shut /\ limits = Budgets(9, 9, 9, 9, 9, 9, 9, 1, 3)
===========================================================================
