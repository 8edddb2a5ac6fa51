--------------------------- MODULE MCObservation ---------------------------
(* Worktrees, configurations and stored states small enough to enumerate.    *)
EXTENDS Observation, TLC

Node(kind, to, id, git, awa) == [kind |-> kind, to |-> to, id |-> id, git |-> git, awa |-> awa]
Dir == Node("dir", <<>>, 0, <<>>, <<>>)
Rules(git, awa) == Node("dir", <<>>, 0, git, awa)
File(id) == Node("file", <<>>, id, <<>>, <<>>)
Link(to) == Node("link", to, 0, <<>>, <<>>)
Special == Node("special", <<>>, 0, <<>>, <<>>)

No(name) == [name |-> name, negated |-> FALSE, dirOnly |-> FALSE]
NoDir(name) == [name |-> name, negated |-> FALSE, dirOnly |-> TRUE]
Yes(name) == [name |-> name, negated |-> TRUE, dirOnly |-> FALSE]

MCOrder == <<".git", "a", "b">>
P == <<"p">>
O == <<"o">>
PA == <<"p", "a">>
PB == <<"p", "b">>
PAA == <<"p", "a", "a">>
PAB == <<"p", "a", "b">>
PBA == <<"p", "b", "a">>
PBB == <<"p", "b", "b">>
OA == <<"o", "a">>
Base == (P :> Dir) @@ (O :> Dir) @@ (OA :> File(9))

MCTrees ==
    {(PA :> Dir) @@ (PAA :> File(1)) @@ (PB :> File(2)) @@ (<<"p", ".git">> :> Dir) @@ Base,
     \* two directories that lead into each other
     (PA :> Dir) @@ (PAA :> Link(PB)) @@ (PB :> Dir) @@ (PBA :> Link(PA)) @@ (PBB :> File(1)) @@ Base,
     \* a link deep in a followed directory to one that leads back above it
     (PA :> Link(PB)) @@ (PB :> Dir) @@ (PBA :> Dir) @@ (<<"p", "b", "a", "b">> :> Link(O))
        @@ (OA :> Link(PBA)) @@ Base,
     \* a target whose directory leads out, and a loop of links
     (PA :> Link(<<"p", "b", "a">>)) @@ (PB :> Link(O)) @@ Base,
     (PA :> Link(PB)) @@ (PB :> Link(PA)) @@ Base,
     \* a broken link, links to a file and to a device
     (PA :> Dir) @@ (PAA :> Link(<<"p", "b", "b">>)) @@ (PAB :> Link(PB)) @@ (PB :> File(1)) @@ Base,
     (PA :> Link(PB)) @@ (PB :> Special) @@ Base,
     \* a file reached through a directory, and directly
     (PA :> Link(PB)) @@ (PB :> Dir) @@ (PBA :> File(1)) @@ Base,
     (PA :> Link(PBA)) @@ (PB :> Dir) @@ (PBA :> File(1)) @@ Base,
     \* rules: an inherited .awaignore against a nearer .gitignore
     (P :> Rules(<<NoDir("b")>>, <<Yes("b")>>)) @@ (PA :> Rules(<<No("b"), No("a")>>, <<>>))
        @@ (PAB :> Dir) @@ (<<"p", "a", "b", "b">> :> File(3)) @@ (PAA :> File(1))
        @@ (PB :> File(2)) @@ (O :> Dir),
     (P :> Rules(<<No("a")>>, <<>>)) @@ (PA :> Dir) @@ (PAA :> File(1)) @@ (PB :> Dir)
        @@ (PBA :> File(2)) @@ (O :> Dir)}

Config(follow, escape, depth, include, waived, skip) ==
    [follow |-> follow, escape |-> escape, maxDepth |-> depth, include |-> include,
     waived |-> waived, allowSkipped |-> skip, git |-> TRUE, awa |-> TRUE, builtin |-> <<>>]
MCScopes ==
    {Config(FALSE, FALSE, 0, {}, {}, TRUE),
     Config(FALSE, FALSE, 0, {}, {<<"b">>}, FALSE),
     Config(TRUE, FALSE, 3, {}, {}, FALSE),
     Config(TRUE, TRUE, 4, {}, {}, TRUE),
     Config(TRUE, FALSE, 1, {<<"a", "a">>}, {}, TRUE),
     [Config(FALSE, FALSE, 0, {}, {}, TRUE) EXCEPT !.awa = FALSE, !.builtin = <<No("b"), Yes("a")>>]}

MCNewNodes == {File(7), Dir, Link(PB), Link(O), Special}

-----------------------------------------------------------------------------
(* Names as bytes: "-" sorts before "." and "/", these before the letters.   *)
NameBytes == [n \in {".git", "a", "a-b", "b"} |->
                 CASE n = ".git" -> <<2, 5>> [] n = "a" -> <<4>>
                   [] n = "a-b" -> <<4, 1, 5>> [] n = "b" -> <<5>>]
MCPaths == UNION {[1..n -> {"a", "b"}] : n \in 1..3}
              \cup {<<".git">>, <<"a-b">>} \cup {<<d, ".git">> : d \in {"a", "b"}}
Joined(v) == LET RECURSIVE J(_)
                 J(i) == IF i = 1 THEN NameBytes[v[1]] ELSE J(i - 1) \o <<3>> \o NameBytes[v[i]]
             IN  J(Len(v))
Bytes == [v \in MCPaths |-> Joined(v)]
Starts(s, t) == Len(s) <= Len(t) /\ SubSeq(t, 1, Len(s)) = s
PrefixPairs == {<<b, p>> \in MCPaths \X MCPaths : Starts(Bytes[b], Bytes[p])}
UnderPairs == {<<b, p>> \in MCPaths \X MCPaths : Starts(Append(Bytes[b], 3), Bytes[p])}
BeforePairs ==
    {<<p, q>> \in MCPaths \X MCPaths :
        LET s == Bytes[p] t == Bytes[q]
        IN  \/ Starts(s, t) /\ s # t
            \/ \E i \in 1..(IF Len(s) < Len(t) THEN Len(s) ELSE Len(t)) :
                  s[i] < t[i] /\ \A j \in 1..(i - 1) : s[j] = t[j]}
MCPrefix(b, p) == <<b, p>> \in PrefixPairs
MCUnder(b, p) == <<b, p>> \in UnderPairs
MCBefore(p, q) == <<p, q>> \in BeforePairs

R(skipped, kind, content, meta) ==
    [skipped |-> skipped, kind |-> kind, content |-> content, meta |-> meta, storage |-> "blob"]
Direct == [source |-> <<>>, depth |-> 0]
AFile(id) == R(FALSE, "file", <<id>>, Direct)
ADir == R(FALSE, "dir", "", Direct)
ASkip == R(TRUE, "symlink", PB, Direct)
OnlyHashed == [AFile(2) EXCEPT !.storage = "hash"]
Executable == [AFile(1) EXCEPT !.meta = [source |-> <<>>, depth |-> 755]]

A == <<"a">>
AB == <<"a-b">>
AX == <<"a", "a">>
B == <<"b">>
Maps(D, S) == UNION {[E -> S] : E \in SUBSET D}

(* A directory is recorded above what is below it; an excluded path is not   *)
(* recorded.                                                                 *)
Walked(rec, excluded) ==
    /\ DOMAIN rec \cap DOMAIN excluded = {}
    /\ \A b, p \in DOMAIN rec \cup DOMAIN excluded :
          MCUnder(b, p) => b \in DOMAIN rec /\ rec[b] = ADir
    /\ AX \in DOMAIN rec \cup DOMAIN excluded => A \in DOMAIN rec
Observed(r, e) ==
    [rec |-> r, excluded |-> e, coverage |-> "recorded", scope |-> {}, damaged |-> "none"]
Manifests == {r \in Maps({A, AB, AX}, {AFile(1), ADir, ASkip}) :
                 (AB \in DOMAIN r => r[AB] = AFile(1)) /\ (AX \in DOMAIN r => r[AX] # ADir)}
Scans == {Observed(r, e) : r \in Manifests,
                           e \in {<<>>, A :> "node", A :> "subtree", AX :> "node"}}

(* For the rename stage: the same content under several names. *)
Moves == {Observed(r, <<>>) :
            r \in {m \in Maps({A, AB, B}, {AFile(1), OnlyHashed, Executable}) :
                      DOMAIN m \in {{}, {A}, {AB}, {B}, {A, B}, {AB, B}}}}
(* What has no recorded coverage, covers exact paths, or fails its check. *)
Legacy == {[Observed(A :> AFile(1), <<>>) EXCEPT !.coverage = "unknown"],
           [Observed(AX :> AFile(1), <<>>) EXCEPT !.coverage = "scoped", !.scope = {{A, AX}}],
           [Observed(AX :> AFile(1), <<>>) EXCEPT !.coverage = "unknown", !.scope = {{AB, AX}}],
           [Observed(A :> AFile(1), <<>>) EXCEPT !.damaged = "manifest"],
           [Observed(B :> OnlyHashed, <<>>) EXCEPT !.damaged = "proof"]}

MCStates == {x \in Scans : Walked(x.rec, x.excluded)} \cup Moves \cup Legacy
(* What a scan is compared with: everything a tree may have had. *)
MCStored == {Observed((A :> ADir) @@ (AX :> AFile(1)) @@ (B :> ADir) @@ (<<"b", "a">> :> ADir)
                         @@ (<<"b", "b">> :> AFile(1)) @@ (<<"a", "b">> :> ADir)
                         @@ (<<"a", "b", "b">> :> AFile(3)) @@ (<<"b", "a", "a">> :> AFile(1))
                         @@ (AB :> AFile(1)), <<>>)}
MCAsks == [mode : {"changes"}, renames : {TRUE}, limit : {1, 3}, filters : {{}, {A}}]
            \cup [mode : {"changes"}, renames : {FALSE}, limit : {0}, filters : {{}, {A}}]
            \cup [mode : {"relate"}, renames : {FALSE}, limit : {0}, filters : {{}}]
=============================================================================
