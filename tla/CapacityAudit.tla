--------------------------- MODULE CapacityAudit ---------------------------
(***************************************************************************)
(* What doctor says of things it only looks at in part: whether a project  *)
(* marker lies below the root, how much the store holds, and which watched *)
(* output directories there are and how large.  Each is a walk of the      *)
(* worktree in the order directories happen to be listed, under budgets of *)
(* its own, while within disappear.                                         *)
(***************************************************************************)
EXTENDS Integers, Sequences, FiniteSets, SequencesExt, FiniteSetsExt

CONSTANTS
    Trees,          \* worktrees: path |-> [kind, size]
    Limits,         \* the budgets a walk may be given
    PathRank,       \* path |-> its place in the order of paths
    NamedRoots, ExactRoots,   \* effect-root selectors: a name anywhere, or one path
    MaxVanished     \* BOUND: how many subtrees disappear during one audit

(* Below a directory there are only its own entries, sizes are numbers, no  *)
(* two paths share a place in their order, and budgets are numbers.         *)
ASSUME AuditAssumption ==
    /\ \A t \in Trees :
        /\ IsFiniteSet(DOMAIN t)
        /\ \A p \in DOMAIN t :
            /\ p \in Seq(STRING) /\ p # <<>>
            /\ t[p].size \in Nat /\ PathRank[p] \in Nat
            /\ Len(p) > 1 => Front(p) \in DOMAIN t /\ t[Front(p)].kind \in {"dir", "closed"}
            /\ \A q \in DOMAIN t : PathRank[p] = PathRank[q] => p = q
    /\ \A l \in Limits :
        /\ l.storeEntries \in Nat /\ l.rootEntries \in Nat /\ l.aggregate \in Nat
        /\ l.detail \in Nat /\ l.threshold \in Nat

VARIABLES
    tree, limits,   \* the worktree as it was, and the budgets given
    vanished,       \* the paths deleted since
    walk,           \* the walk under way: open listings, counters, gaps
    told            \* what doctor has established so far

auditVars == <<tree, limits, vanished, walk, told>>

Root == <<>>
OwnMarker == <<".awa">>
ProtectedNames == {".git", ".awa"}
Name(p) == Last(p)
IsDir(p) == tree[p].kind \in {"dir", "closed"}
Selects(p) == Name(p) \in NamedRoots \/ p \in ExactRoots
There(p) == p = Root \/ (p \in DOMAIN tree /\ ~\E q \in vanished : IsPrefix(q, p))
Opens(p) == There(p) /\ (p = Root \/ tree[p].kind = "dir")

(* A listing in progress: the entries still to come, in any order. *)
Entries(p) == IF Opens(p) THEN {q \in DOMAIN tree : There(q) /\ Len(q) = Len(p) + 1 /\ IsPrefix(p, q)} ELSE {}
Idle(next) == [doing |-> next]

(***************************************************************************)
(* The nested-marker scan.                                                 *)
(***************************************************************************)
EndScan(found, incomplete) ==
    /\ told' = [told EXCEPT !.marker = found, !.scanIncomplete = incomplete]
    /\ walk' = Idle("store")
ScanDir ==
    /\ walk.doing = "markers" /\ walk.left = {}
    /\ IF walk.stack = <<>> THEN EndScan(Root, told.scanIncomplete)
       ELSE LET dir == Last(walk.stack) IN
            /\ walk' = [walk EXCEPT !.stack = Front(@), !.left = Entries(dir)]
            /\ told' = [told EXCEPT !.scanIncomplete = @ \/ ~Opens(dir)]
    /\ UNCHANGED <<tree, limits, vanished>>
findNestedMarker ==
    /\ walk.doing = "markers"
    /\ \E p \in walk.left :
        LET rest == [walk EXCEPT !.left = @ \ {p}] IN
        IF ~IsDir(p) \/ p = OwnMarker \/ Name(p) = ".git" THEN walk' = rest /\ told' = told
        ELSE IF Name(p) = ".awa" THEN EndScan(p, FALSE)
        ELSE IF walk.discovered + 1 > limits.scanDirs THEN EndScan(Root, TRUE)
        ELSE walk' = [rest EXCEPT !.discovered = @ + 1, !.stack = Append(@, p)] /\ told' = told
    /\ UNCHANGED <<tree, limits, vanished>>

(***************************************************************************)
(* Sizing: an explicit stack of open directories.                          *)
(***************************************************************************)
Sizing(for, p, max, entries, search) ==
    [doing |-> "sizing", for |-> for, root |-> p, open |-> <<Entries(p)>>, max |-> max,
     entries |-> entries, bytes |-> 0, gaps |-> {}, search |-> search]
Skips(p) == walk.for = "watched" /\ Name(p) \in ProtectedNames
(* Mutated: a directory past the depth limit is left out without a word. *)
SizeEntrySilently(p) ==
    LET rest == [walk EXCEPT !.open[Len(walk.open)] = @ \ {p}]
        met == [rest EXCEPT !.entries = @ + 1] IN
    IF Skips(p) THEN rest
    ELSE IF walk.entries >= walk.max THEN [walk EXCEPT !.open = <<>>, !.gaps = @ \cup {"budget"}]
    ELSE IF ~There(p) THEN met
    ELSE IF tree[p].kind = "file" THEN [met EXCEPT !.bytes = @ + tree[p].size]
    ELSE IF tree[p].kind \in {"opaque", "closed"} THEN [met EXCEPT !.gaps = @ \cup {"unreadable"}]
    ELSE IF ~IsDir(p) \/ Len(walk.open) >= limits.depth THEN met
    ELSE [met EXCEPT !.open = Append(@, Entries(p))]
SizeEntry(p) ==
    LET rest == [walk EXCEPT !.open[Len(walk.open)] = @ \ {p}]
        met == [rest EXCEPT !.entries = @ + 1] IN
    IF Skips(p) THEN rest
    ELSE IF walk.entries >= walk.max THEN [walk EXCEPT !.open = <<>>, !.gaps = @ \cup {"budget"}]
    ELSE IF ~There(p) THEN met
    ELSE IF tree[p].kind = "file" THEN [met EXCEPT !.bytes = @ + tree[p].size]
    ELSE IF tree[p].kind = "opaque" THEN [met EXCEPT !.gaps = @ \cup {"unreadable"}]
    ELSE IF ~IsDir(p) THEN met
    ELSE IF Len(walk.open) >= limits.depth THEN [met EXCEPT !.gaps = @ \cup {"depth"}]
    ELSE IF ~Opens(p) THEN [met EXCEPT !.gaps = @ \cup {"unreadable"}]
    ELSE [met EXCEPT !.open = Append(@, Entries(p))]
sizeWalk ==
    /\ walk.doing = "sizing" /\ walk.open # <<>>
    /\ IF Last(walk.open) = {} THEN walk' = [walk EXCEPT !.open = Front(@)]
       ELSE \E p \in Last(walk.open) : walk' = SizeEntry(p)
    /\ UNCHANGED <<tree, limits, vanished, told>>
Sized(for) == walk.doing = "sizing" /\ walk.open = <<>> /\ walk.for = for
Measured(bytes, gaps) == [bytes |-> bytes, gaps |-> gaps, measured |-> TRUE]
Unmeasured(reason) == [bytes |-> 0, gaps |-> {reason}, measured |-> FALSE]
Reaches(m) == m.measured /\ limits.threshold > 0 /\ m.bytes >= limits.threshold

(* The store: absent or unopenable is not empty. *)
sizeStore ==
    /\ walk.doing = "store"
    /\ IF Opens(OwnMarker) THEN walk' = Sizing("store", OwnMarker, limits.storeEntries, 1, {}) /\ told' = told
       ELSE walk' = Idle("watched") /\ told' = [told EXCEPT !.store = Unmeasured("unavailable")]
    /\ UNCHANGED <<tree, limits, vanished>>
measureStore ==
    /\ Sized("store")
    /\ told' = [told EXCEPT !.store = Measured(walk.bytes, walk.gaps)]
    /\ walk' = Idle("watched")
    /\ UNCHANGED <<tree, limits, vanished>>

(***************************************************************************)
(* The watched roots: searched for, sized where found, tallied.            *)
(***************************************************************************)
Search(stack, left, committed) ==
    [doing |-> "search", stack |-> stack, left |-> left, committed |-> committed]
auditWatched ==
    /\ walk.doing = "watched"
    /\ walk' = Search(<<Root>>, {}, 1)
    /\ UNCHANGED <<tree, limits, vanished, told>>
EndSearch(gaps) ==
    /\ walk' = Idle("done") /\ told' = [told EXCEPT !.searchGaps = @ \cup gaps]
SearchDir ==
    /\ walk.doing = "search" /\ walk.left = {}
    /\ IF walk.stack = <<>> THEN EndSearch({})
       ELSE LET dir == Last(walk.stack) IN
            /\ walk' = Search(Front(walk.stack), Entries(dir), walk.committed)
            /\ told' = IF Opens(dir) THEN told ELSE [told EXCEPT !.searchGaps = @ \cup {"unreadable"}]
    /\ UNCHANGED <<tree, limits, vanished>>

(* A larger figure first, the unmeasured last, then the path. *)
ranksBefore(x, y) ==
    \/ x.is.measured /\ ~y.is.measured
    \/ x.is.measured = y.is.measured
       /\ (x.is.bytes > y.is.bytes \/ (x.is.bytes = y.is.bytes /\ PathRank[x.path] < PathRank[y.path]))
Add(r) ==
    LET d == told.detail
        before == Cardinality({i \in DOMAIN d : ~ranksBefore(r, d[i])})
        grown == SubSeq(d, 1, before) \o <<r>> \o SubSeq(d, before + 1, Len(d)) IN
    SubSeq(grown, 1, IF Len(grown) < limits.detail THEN Len(grown) ELSE limits.detail)
Tally(p, m) ==
    LET r == [path |-> p, is |-> m] IN
    [told EXCEPT !.found = @ \cup {r}, !.detail = Add(r), !.observed = @ + m.bytes,
                 !.reaching = @ + (IF Reaches(m) THEN 1 ELSE 0)]

SearchEntry ==
    /\ walk.doing = "search"
    /\ \E p \in walk.left :
        LET rest == [walk EXCEPT !.left = @ \ {p}] IN
        IF told.examined >= limits.searchEntries THEN EndSearch({"budget"})
        ELSE LET met == [told EXCEPT !.examined = @ + 1] IN
             IF Name(p) \in ProtectedNames \/ ~IsDir(p)
             THEN walk' = rest /\ told' = met
             ELSE IF Selects(p) THEN walk' = [doing |-> "measure", at |-> p, search |-> rest] /\ told' = met
             ELSE IF walk.committed >= limits.searchDirs
                  THEN walk' = Idle("done")
                       /\ told' = [met EXCEPT !.searchGaps = @ \cup {"budget"}]
             ELSE walk' = [rest EXCEPT !.committed = @ + 1, !.stack = Append(@, p)] /\ told' = met
    /\ UNCHANGED <<tree, limits, vanished>>

Least(a, b) == IF a < b THEN a ELSE b
sizeWatchedRoot ==
    /\ walk.doing = "measure"
    /\ LET p == walk.at IN
       IF told.spare <= 0 \/ ~Opens(p)
       THEN /\ told' = Tally(p, Unmeasured(IF told.spare <= 0 THEN "aggregate" ELSE "unavailable"))
            /\ walk' = walk.search
       ELSE /\ walk' = Sizing("watched", p, Least(limits.rootEntries, told.spare), 0, walk.search)
            /\ told' = told
    /\ UNCHANGED <<tree, limits, vanished>>
measure ==
    /\ Sized("watched")
    /\ LET gaps == {IF g = "budget" /\ walk.max < limits.rootEntries THEN "aggregate" ELSE g : g \in walk.gaps} IN
       told' = [Tally(walk.root, Measured(walk.bytes, gaps)) EXCEPT !.spare = @ - walk.entries]
    /\ walk' = walk.search
    /\ UNCHANGED <<tree, limits, vanished>>

(***************************************************************************)
(* The audit, beside whatever deletes within.                               *)
(***************************************************************************)
AuditInit ==
    /\ tree \in Trees /\ limits \in Limits /\ vanished = {}
    /\ walk = [doing |-> "markers", stack |-> <<Root>>, left |-> {}, discovered |-> 1]
    /\ told = [marker |-> Root, scanIncomplete |-> FALSE, store |-> Unmeasured("unavailable"),
               searchGaps |-> {}, examined |-> 0, spare |-> limits.aggregate, found |-> {}, detail |-> <<>>,
               observed |-> 0, reaching |-> 0]

Vanish(p) ==
    /\ walk.doing # "done" /\ Cardinality(vanished) < MaxVanished /\ There(p)
    /\ vanished' = vanished \cup {p}
    /\ UNCHANGED <<tree, limits, walk, told>>

AuditNext ==
    \/ ScanDir \/ findNestedMarker \/ sizeStore \/ sizeWalk \/ measureStore
    \/ auditWatched \/ SearchDir \/ SearchEntry \/ sizeWatchedRoot \/ measure
    \/ \E p \in DOMAIN tree : Vanish(p)
AuditSpec == AuditInit /\ [][AuditNext]_auditVars

(***************************************************************************)
(* Properties.                                                             *)
(***************************************************************************)
Enclosing(p) == {SubSeq(p, 1, n) : n \in 1..(Len(p) - 1)}
Markers == {p \in DOMAIN tree : /\ IsDir(p) /\ Name(p) = ".awa" /\ p # OwnMarker
                                /\ ~\E q \in Enclosing(p) : Name(q) \in ProtectedNames}
Outermost == {p \in DOMAIN tree : /\ IsDir(p) /\ Selects(p)
                                  /\ ~\E q \in Enclosing(p) \cup {p} : Name(q) \in ProtectedNames
                                  /\ ~\E q \in Enclosing(p) : Selects(q)}
Files(p, all) == {q \in DOMAIN tree :
                    /\ tree[q].kind = "file" /\ p # q /\ IsPrefix(p, q)
                    /\ all \/ ~\E q2 \in (Enclosing(q) \cup {q}) \ (Enclosing(p) \cup {p}) : Name(q2) \in ProtectedNames}
Total(within) == SumFunctionOnSet([q \in DOMAIN tree |-> tree[q].size], within)
Figure(m, within) ==
    /\ m.bytes <= Total(within)
    /\ m.measured /\ m.gaps = {} => m.bytes >= Total({q \in within : There(q)})
    /\ ~m.measured => m.bytes = 0 /\ m.gaps # {}

(* What doctor says is complete is complete, and what it gave up on it says *)
(* it gave up on, whatever the order directories are listed in and whatever *)
(* disappears meanwhile: a scan without a marker and without a gap has met *)
(* every place one could be; an exact figure counts every file that is      *)
(* still there and none twice, a partial one is a lower bound, an absent    *)
(* store is not an empty one; a search without gaps has found every         *)
(* outermost watched root, and the roots it lists are the largest ones, so  *)
(* that none above the threshold goes unmentioned while a smaller one is    *)
(* listed (findNestedMarker, measureStore, search, measure, Add).           *)
AuditIsHonest ==
    walk.doing = "done" =>
        /\ told.marker # Root => told.marker \in Markers
        /\ told.marker = Root /\ ~told.scanIncomplete => ~\E p \in Markers : There(p)
        /\ Figure(told.store, Files(OwnMarker, TRUE))
        /\ ~told.store.measured => ~There(OwnMarker) \/ tree[OwnMarker].kind # "dir"
        /\ {r.path : r \in told.found} \subseteq Outermost
        /\ \A r1, r2 \in told.found : r1.path = r2.path => r1 = r2
        /\ told.searchGaps = {} => {p \in Outermost : There(p)} \subseteq {r.path : r \in told.found}
        /\ \A r \in told.found : Figure(r.is, Files(r.path, FALSE))
        /\ told.observed = SumFunctionOnSet([r \in told.found |-> r.is.bytes], told.found)
        /\ told.reaching = Cardinality({r \in told.found : Reaches(r.is)})
        /\ Len(told.detail) = Least(limits.detail, Cardinality(told.found))
        /\ \A r \in told.found \ ToSet(told.detail) :
              \A i \in DOMAIN told.detail : ranksBefore(told.detail[i], r)
        /\ told.spare >= 0
=============================================================================
