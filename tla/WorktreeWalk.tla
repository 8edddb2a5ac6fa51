---------------------------- MODULE WorktreeWalk ----------------------------
(* One scan of a worktree: the walk through real directories and, when asked *)
(* to, through links, the ignore rules it meets on its way, what it records  *)
(* and what it leaves unobserved; and an editor beside it                    *)
(* (internal/infra/worktreefs, internal/app/scanner/processor.go).           *)
(*                                                                           *)
(* A path is a sequence of names.  Real paths begin with the root, <<"p">>,  *)
(* or lie outside it; virtual ones are relative to the root and may lead     *)
(* through followed links.  The rules of a directory's ignore files are part *)
(* of its node.                                                              *)
EXTENDS Naturals, Sequences, SequencesExt, FiniteSets

CONSTANTS Trees,      \* the worktrees a scan may start in: real path -> node
          Scopes,     \* what a scan can be configured to: see ScopeShape
          NewNodes,   \* what the editor puts into place
          Order,      \* all names, sorted
          Protected,  \* names no scan looks into
          LinkBudget, \* links one resolution may cross
          MaxEdits

Root == <<"p">>

(* A node: its kind, the target of a link, the identity of a file, and the   *)
(* rules of a directory's .gitignore and .awaignore.                         *)
(* A scope: follow, escape, maxDepth, include (virtual paths, none for all), *)
(* waived, allowSkipped, git, awa, builtin.                                  *)
VARIABLES
    tree,      \* the worktree, and what is around it
    edits,     \* edits so far
    scope,     \* the configuration of the scan
    frames,    \* directories being walked, innermost last
    visit,     \* the one entry in work
    loaded,    \* virtual directory -> the rules its ignore files gave
    compiled,  \* virtual directory -> the matcher that decides for it
    manifest,  \* virtual path -> what was recorded
    frontier,  \* virtual path -> how much it hides
    progress,  \* "walking", "done", "failed"
    steady,    \* virtual paths that were there ever since the scan began
    inside     \* files that were inside the root at some moment of the scan

vars == <<tree, edits, scope, frames, visit, loaded, compiled, manifest, frontier,
          progress, steady, inside>>
world == <<tree, edits, steady, inside>>
rules == <<loaded, compiled>>
found == <<manifest, frontier>>

-----------------------------------------------------------------------------
(* The file system.                                                          *)

KindAt(t, p) == IF p \in DOMAIN t THEN t[p].kind ELSE "none"

(* A path with every link on it resolved, as far as the budget goes; what is *)
(* missing is taken literally (EvalSymlinks, resolveTolerant).  A path       *)
(* without links is its own.                                                 *)
Linkless(t, p) == \A i \in 1..Len(p) : KindAt(t, SubSeq(p, 1, i)) # "link"

Real(t, p, n) ==
    LET Resolved[q \in Seq(STRING), k \in Nat] ==
            IF q = <<>> THEN q
            ELSE LET here == Append(Resolved[Front(q), k], Last(q))
                 IN  IF KindAt(t, here) = "link" /\ k > 0 THEN Resolved[t[here].to, k - 1] ELSE here
    IN  IF Linkless(t, p) THEN p ELSE Resolved[p, n]

(* canonicalizeParent: all but the last element resolved. *)
InParent(t, p) == Append(Real(t, Front(p), LinkBudget), Last(p))

(* What lstat finds at a path. *)
Lstat(t, p) == KindAt(t, InParent(t, p))

WithinRoot(p) == IsPrefix(Root, p)

(* The names in a directory, sorted. *)
Places(t, d) == {i \in DOMAIN Order : Append(d, Order[i]) \in DOMAIN t}

Nth(places, k) == CHOOSE i \in places : Cardinality({j \in places : j <= i}) = k

Children(t, d) == [k \in 1..Cardinality(Places(t, d)) |-> Order[Nth(Places(t, d), k)]]

(* What is on the way to something is a directory, and so is the root. *)
WellFormed(t) ==
    /\ DOMAIN t \subseteq Seq(STRING) \ {<<>>} /\ t = [p \in DOMAIN t |-> t[p]]
    /\ Root \in DOMAIN t /\ t[Root].kind = "dir"
    /\ \A p \in DOMAIN t : \A i \in 1..(Len(p) - 1) :
          SubSeq(p, 1, i) \in DOMAIN t /\ t[SubSeq(p, 1, i)].kind = "dir"

(* The virtual tree: what a virtual path leads to.  Without following, the   *)
(* directories on its way must be real ones.                                 *)
Abs(v) == Root \o v

Exists(t, follow, v) ==
    LET at == IF follow THEN InParent(t, Abs(v)) ELSE Abs(v)
    IN  /\ at \in DOMAIN t
        /\ ~follow => \A i \in 1..(Len(v) - 1) : t[Abs(SubSeq(v, 1, i))].kind = "dir"

Virtual == UNION {[1..n -> Range(Order)] : n \in 1..3}

Below(t, follow) == {v \in Virtual : Exists(t, follow, v)}

FilesInside(t) == {t[p].id : p \in {q \in DOMAIN t : WithinRoot(q) /\ t[q].kind = "file"}}

-----------------------------------------------------------------------------
NoVisit == [step |-> "none"]

Frame(real, virt, depth, chain, source, hops, followed) ==
    [real |-> real, virt |-> virt, depth |-> depth, chain |-> chain, source |-> source,
     hops |-> hops, followed |-> followed, step |-> "load", left |-> <<>>]

Init ==
    /\ tree \in Trees /\ scope \in Scopes
    /\ edits = 0
    /\ frames = <<Frame(Root, <<>>, 0, {}, <<>>, <<>>, FALSE)>>
    /\ visit = NoVisit
    /\ loaded = <<>> /\ compiled = <<>>
    /\ manifest = <<>> /\ frontier = <<>>
    /\ progress = "walking"
    /\ steady = Below(tree, scope.follow)
    /\ inside = FilesInside(tree)

Walking == progress = "walking"
Top == frames[Len(frames)]
WithTop(f) == [frames EXCEPT ![Len(frames)] = f]

Abort == progress' = "failed" /\ UNCHANGED <<world, scope, frames, visit, rules, found>>

With(f, k, x) == [i \in DOMAIN f \cup {k} |-> IF i = k THEN x ELSE f[i]]

-----------------------------------------------------------------------------
(* Ignore rules.                                                             *)

Ancestors(v) == [i \in 1..(Len(v) + 1) |-> SubSeq(v, 1, i - 1)]

Own(file, d) == IF d \in DOMAIN loaded THEN loaded[d][file] ELSE <<>>

(* compileFor: built-in rules, then .gitignore shallow to deep, then         *)
(* .awaignore likewise.                                                      *)
Compile(d) ==
    scope.builtin
      \o FlattenSeq([i \in 1..(Len(d) + 1) |-> Own("git", Ancestors(d)[i])])
      \o FlattenSeq([i \in 1..(Len(d) + 1) |-> Own("awa", Ancestors(d)[i])])

(* Mutated: a directory's own rules follow its parent's matcher. *)
MatchersAppended(d) ==
    LET parent == IF d = <<>> THEN scope.builtin ELSE Compile(Front(d))
    IN  With(compiled, d, parent \o Own("git", d) \o Own("awa", d))

(* combinedFor: a directory without rules of its own shares the matcher of   *)
(* the nearest one above that has some; all on the way are cached.           *)
Matchers(d) ==
    LET Shared[e \in Seq(STRING)] ==
            IF e \in DOMAIN compiled THEN compiled
            ELSE IF e = <<>> \/ e \in DOMAIN loaded THEN With(compiled, e, Compile(e))
            ELSE LET above == Shared[Front(e)] IN With(above, e, above[Front(e)])
    IN  Shared[d]

(* The last rule that matches decides. *)
Matches(r, name, isDir) == r.name = name /\ (r.dirOnly => isDir)

Excludes(ruleSeq, name, isDir) ==
    LET hits == SelectSeq(ruleSeq, LAMBDA r : Matches(r, name, isDir))
    IN  hits # <<>> /\ ~Last(hits).negated

-----------------------------------------------------------------------------
(* Scope.                                                                    *)

Narrowed == scope.include # {}

(* includeFilter.allows: what is at or below an included path, and for a     *)
(* directory what is above one.                                              *)
Allows(v, isDir) ==
    \/ ~Narrowed
    \/ \E inc \in scope.include : IsPrefix(inc, v) \/ (isDir /\ IsPrefix(v, inc))

(* What a directory, or a link that may lead to one, hides is all below it.  *)
(* Mutated: a link hides itself only.                                        *)
LimitNodeOfLink(kind) == IF kind = "dir" THEN "subtree" ELSE "node"

Limit(kind) == IF kind = "dir" \/ (kind = "link" /\ scope.follow) THEN "subtree" ELSE "node"

(* Decided by the name alone, before any rule is read.                       *)
Barred(v, kind) ==
    \/ Last(v) \in Protected
    \/ kind = "dir" /\ v \in scope.waived
    \/ ~Allows(v, kind = "dir" \/ (kind = "link" /\ scope.follow))

-----------------------------------------------------------------------------
(* Entering directories.                                                     *)

(* loadDirAt: a missing file means no rules, and so does a directory that is *)
(* gone; one that is no directory any more is an error.                      *)
RulesOf(d) ==
    LET p == Real(tree, d, LinkBudget)
        some == [git |-> IF scope.git THEN tree[p].git ELSE <<>>,
                 awa |-> IF scope.awa THEN tree[p].awa ELSE <<>>]
    IN  IF KindAt(tree, p) = "dir" THEN some ELSE [git |-> <<>>, awa |-> <<>>]

LoadDir ==
    /\ Walking /\ visit.step = "none" /\ frames # <<>> /\ Top.step = "load"
    /\ KindAt(tree, Real(tree, Top.real, LinkBudget)) \in {"dir", "none"}
    /\ LET own == RulesOf(Top.real)
       IN  loaded' = IF own.git = <<>> /\ own.awa = <<>> THEN loaded
                     ELSE With(loaded, Top.virt, own)
    /\ frames' = WithTop([Top EXCEPT !.step = "list"])
    /\ UNCHANGED <<world, scope, visit, compiled, found, progress>>

(* ReadDir: names and kinds at one moment. *)
ListDir ==
    /\ Walking /\ visit.step = "none" /\ frames # <<>> /\ Top.step = "list"
    /\ LET d == Real(tree, Top.real, LinkBudget)
       IN  /\ KindAt(tree, d) = "dir"
           /\ frames' = WithTop([Top EXCEPT !.step = "entries",
                  !.left = [i \in 1..Len(Children(tree, d)) |->
                               [name |-> Children(tree, d)[i],
                                kind |-> tree[Append(d, Children(tree, d)[i])].kind]]])
    /\ UNCHANGED <<world, scope, visit, rules, found, progress>>

DirGone ==
    /\ Walking /\ visit.step = "none" /\ frames # <<>>
    /\ LET kind == KindAt(tree, Real(tree, Top.real, LinkBudget))
       IN  \/ Top.step = "load" /\ kind \notin {"dir", "none"}
           \/ Top.step = "list" /\ kind # "dir"
    /\ Abort

(* The last entry of a directory is done. *)
LeaveDir ==
    /\ Walking /\ visit.step = "none" /\ frames # <<>>
    /\ Top.step = "entries" /\ Top.left = <<>>
    /\ frames' = Front(frames)
    /\ progress' = IF Len(frames) = 1 THEN "done" ELSE progress
    /\ UNCHANGED <<world, scope, visit, rules, found>>

-----------------------------------------------------------------------------
(* One entry: base and walkRealChildren.                                     *)

AtEntry == Walking /\ visit.step = "none" /\ frames # <<>>
              /\ Top.step = "entries" /\ Top.left # <<>>
Entry == Top.left[1]
Here == Append(Top.virt, Entry.name)
There == Append(Top.real, Entry.name)
Passed == [Top EXCEPT !.left = Tail(@)]

Omitted(v, limit) == frontier' = With(frontier, v, limit) /\ UNCHANGED manifest
Recorded(v, r) == manifest' = With(manifest, v, r) /\ UNCHANGED frontier

(* What a record keeps; via is the provenance of a node reached through links. *)
Record(kind, skipped, content, via) ==
    [kind |-> kind, skipped |-> skipped, content |-> content, via |-> via]
Direct == [source |-> <<>>, depth |-> 0]
ViaTop == IF Top.followed THEN [source |-> Top.source, depth |-> Top.depth] ELSE Direct

(* Protected, waived or out of scope; or, in a scope that is not narrowed,   *)
(* ignored.                                                                  *)
Bar ==
    /\ AtEntry /\ Barred(Here, Entry.kind)
    /\ Omitted(Here, Limit(Entry.kind))
    /\ frames' = WithTop(Passed)
    /\ UNCHANGED <<world, scope, visit, rules, progress>>

Unbarred == AtEntry /\ ~Barred(Here, Entry.kind)

Consulted == IF Narrowed THEN compiled ELSE Matchers(Top.virt)

Kept == ~Narrowed => ~Excludes(Consulted[Top.virt], Entry.name, Entry.kind = "dir")

Ignore ==
    /\ Unbarred /\ ~Kept
    /\ compiled' = Consulted
    /\ Omitted(Here, Limit(Entry.kind))
    /\ frames' = WithTop(Passed)
    /\ UNCHANGED <<world, scope, visit, loaded, progress>>

(* A directory is recorded and entered; below a followed link it also joins  *)
(* the chain.                                                                *)
(* Mutated: only the targets of links are on the chain. *)
ChainOfTargets(chain, dir) == chain

ChainWith(chain, dir) == chain \cup {dir}

EnterDir ==
    /\ Unbarred /\ Kept /\ Entry.kind = "dir"
    /\ compiled' = Consulted
    /\ Recorded(Here, Record("dir", FALSE, "", ViaTop))
    /\ frames' = Append(WithTop(Passed),
                    IF Top.followed
                    THEN Frame(There, Here, Top.depth, ChainWith(Top.chain, There),
                               Top.source, Top.hops, TRUE)
                    ELSE Frame(There, Here, 0, {}, <<>>, <<>>, FALSE))
    /\ UNCHANGED <<world, scope, visit, loaded, progress>>

(* A link that is not followed is recorded by its target. *)
RecordLink ==
    /\ Unbarred /\ Kept /\ Entry.kind = "link" /\ ~scope.follow
    /\ Lstat(tree, There) = "link"
    /\ compiled' = Consulted
    /\ Recorded(Here, Record("symlink", FALSE, tree[InParent(tree, There)].to, ViaTop))
    /\ frames' = WithTop(Passed)
    /\ UNCHANGED <<world, scope, visit, loaded, progress>>

(* classifyFile: what the listing called no link and no directory is looked  *)
(* at again; what is not a regular file now is a special one.                *)
MeetFile ==
    /\ Unbarred /\ Kept /\ Entry.kind \in {"file", "special"}
    /\ Lstat(tree, There) # "none"
    /\ compiled' = Consulted
    /\ frames' = WithTop(Passed)
    /\ LET node == tree[InParent(tree, There)]
       IN  IF node.kind = "file"
           THEN /\ visit' = [step |-> "open", virt |-> Here, real |-> There, id |-> node.id,
                             hops |-> Top.hops, followed |-> Top.followed, via |-> ViaTop]
                /\ UNCHANGED found
           ELSE /\ Recorded(Here, Record("special", TRUE, "", ViaTop))
                /\ UNCHANGED visit
    /\ UNCHANGED <<world, scope, loaded, progress>>

StartFollow ==
    /\ Unbarred /\ Kept /\ Entry.kind = "link" /\ scope.follow
    /\ Lstat(tree, There) = "link"
    /\ compiled' = Consulted
    /\ frames' = WithTop(Passed)
    /\ visit' = [step |-> "hop", virt |-> Here, link |-> There, via |-> ViaTop,
                 target |-> tree[InParent(tree, There)].to,
                 cur |-> InParent(tree, There), dir |-> Front(InParent(tree, There)),
                 next |-> <<>>, real |-> <<>>, hop |-> Top.depth + 1, seen |-> {},
                 hops |-> Top.hops, chain |-> Top.chain]
    /\ UNCHANGED <<world, scope, loaded, found, progress>>

(* An entry is gone, or is no link any more, when it is looked at. *)
EntryGone ==
    /\ Unbarred /\ Kept
    /\ \/ Entry.kind = "link" /\ Lstat(tree, There) # "link"
       \/ Entry.kind \in {"file", "special"} /\ Lstat(tree, There) = "none"
    /\ Abort

-----------------------------------------------------------------------------
(* follow: one hop after another.                                            *)

Hopping == Walking /\ visit.step = "hop"

(* A leaf at a name that was let in as the way to an included path only is   *)
(* left unobserved.                                                          *)
LeafInScope == Allows(visit.virt, FALSE)

Settle(record) ==
    /\ IF LeafInScope THEN Recorded(visit.virt, record) ELSE Omitted(visit.virt, "subtree")
    /\ visit' = NoVisit

SkipLink == Settle(Record("symlink", TRUE, visit.target, visit.via))

(* recordBrokenLink reads the link once more. *)
Broken ==
    IF LeafInScope /\ Lstat(tree, visit.link) # "link" THEN Abort
    ELSE /\ Settle(Record("symlink", FALSE,
                       IF LeafInScope THEN tree[InParent(tree, visit.link)].to ELSE <<>>, visit.via))
         /\ UNCHANGED <<world, scope, frames, rules, progress>>

TooFar == visit.hop > scope.maxDepth \/ visit.cur \in visit.seen

NextHop == InParent(tree, tree[InParent(tree, visit.cur)].to)

Escapes == ~scope.escape /\ ~WithinRoot(NextHop)

RefuseHop ==
    /\ Hopping
    /\ \/ TooFar
       \/ ~TooFar /\ Lstat(tree, visit.cur) = "link" /\ Escapes
    /\ SkipLink
    /\ UNCHANGED <<world, scope, frames, rules, progress>>

BrokenHop ==
    /\ Hopping /\ ~TooFar
    /\ \/ Lstat(tree, visit.cur) # "link"
       \/ Lstat(tree, visit.cur) = "link" /\ ~Escapes /\ NextHop \notin DOMAIN tree
    /\ Broken

Crossed == Append(visit.hops, [link |-> visit.cur, to |-> tree[InParent(tree, visit.cur)].to])

(* Another link, or the end of the chain.  The link is read, the directory   *)
(* of its target resolved and the target looked at in one step: nothing is   *)
(* concluded from a target that is there before its name is looked at again. *)
Hop ==
    /\ Hopping /\ ~TooFar /\ Lstat(tree, visit.cur) = "link"
    /\ ~Escapes /\ NextHop \in DOMAIN tree
    /\ visit' = IF KindAt(tree, NextHop) = "link"
                THEN [visit EXCEPT !.cur = NextHop, !.hop = @ + 1,
                                   !.seen = @ \cup {visit.cur}, !.hops = Crossed]
                ELSE [visit EXCEPT !.step = "arrive", !.next = NextHop,
                                   !.seen = @ \cup {visit.cur}, !.hops = Crossed]
    /\ UNCHANGED <<world, scope, frames, rules, found, progress>>

(* The end of a chain is resolved, looked at and opened one after the other, *)
(* each time by its name, and an edit may fall between any two of these.     *)
At(step) == Walking /\ visit.step = step

Terminal == Real(tree, visit.next, LinkBudget)

Resolvable(t, p) == p \in DOMAIN t /\ t[p].kind # "link"

(* Mutated: a directory that became a link since the hop is crossed unseen. *)
SameParentTrusted == TRUE

SameParent == Front(Terminal) = Front(visit.next)

(* canonicalTerminal: it may be gone by now, or lie in another directory.    *)
Resolve ==
    /\ At("arrive") /\ Resolvable(tree, Terminal) /\ SameParent
    /\ visit' = [visit EXCEPT !.step = "resolved", !.real = Terminal]
    /\ UNCHANGED <<world, scope, frames, rules, found, progress>>

Detour ==
    /\ At("arrive")
    /\ \/ ~Resolvable(tree, Terminal) /\ Broken
       \/ Resolvable(tree, Terminal) /\ ~SameParent /\ Abort

(* The name is looked at again: a link put there is one more hop.            *)
LookAgain ==
    /\ At("resolved")
    /\ \/ Lstat(tree, visit.next) = "none" /\ Broken
       \/ /\ Lstat(tree, visit.next) # "none"
          /\ visit' = IF Lstat(tree, visit.next) = "link"
                      THEN [visit EXCEPT !.step = "hop", !.cur = visit.next, !.hop = @ + 1]
                      ELSE [visit EXCEPT !.step = "stat"]
          /\ UNCHANGED <<world, scope, frames, rules, found, progress>>

(* Stat follows whatever is a link by now on the way to what was resolved.   *)
Met == Real(tree, visit.real, LinkBudget)

Via == [source |-> visit.virt, depth |-> visit.hop]

ReachNothing == At("stat") /\ ~Resolvable(tree, Met) /\ Abort

ReachFile ==
    /\ At("stat") /\ KindAt(tree, Met) = "file"
    /\ IF LeafInScope
       THEN /\ visit' = [step |-> "open", virt |-> visit.virt, real |-> visit.real,
                         id |-> tree[Met].id, hops |-> visit.hops, followed |-> TRUE,
                         via |-> Via]
            /\ UNCHANGED found
       ELSE Omitted(visit.virt, "subtree") /\ visit' = NoVisit
    /\ UNCHANGED <<world, scope, frames, rules, progress>>

ReachSpecial ==
    /\ At("stat") /\ KindAt(tree, Met) = "special"
    /\ Settle(Record("special", TRUE, "", Via))
    /\ UNCHANGED <<world, scope, frames, rules, progress>>

(* A directory the traversal is in already, or one the link lay in when it   *)
(* was met.                                                                  *)
Cyclic == visit.real \in visit.chain \/ IsPrefix(visit.real, visit.dir)

ReachDir ==
    /\ At("stat") /\ KindAt(tree, Met) = "dir" /\ ~Cyclic
    /\ Recorded(visit.virt, Record("dir", FALSE, "", Via))
    /\ frames' = Append(frames, Frame(visit.real, visit.virt, visit.hop,
                                      visit.chain \cup {visit.real}, visit.virt, visit.hops, TRUE))
    /\ visit' = NoVisit
    /\ UNCHANGED <<world, scope, rules, progress>>

CutCycle ==
    /\ At("stat") /\ KindAt(tree, Met) = "dir" /\ Cyclic
    /\ SkipLink
    /\ UNCHANGED <<world, scope, frames, rules, progress>>

-----------------------------------------------------------------------------
(* The content of a file (readAndHash), through its opener.                  *)

Opening == Walking /\ visit.step \in {"open", "verified"}

(* followedOpener: the links crossed still say what they said and the        *)
(* virtual path still ends where the walk ended; then the file is opened.    *)
ChainHolds ==
    /\ \A i \in 1..Len(visit.hops) :
          /\ Lstat(tree, visit.hops[i].link) = "link"
          /\ tree[InParent(tree, visit.hops[i].link)].to = visit.hops[i].to
    /\ Resolvable(tree, visit.real) /\ Real(tree, Abs(visit.virt), LinkBudget) = visit.real

VerifyChain ==
    /\ Walking /\ visit.step = "open" /\ visit.followed /\ ChainHolds
    /\ visit' = [visit EXCEPT !.step = "verified"]
    /\ UNCHANGED <<world, scope, frames, rules, found, progress>>

(* A file met directly is opened without crossing a link anywhere, one that  *)
(* was followed without crossing one at its end; either must be the one seen. *)
Target == IF visit.followed THEN InParent(tree, visit.real) ELSE visit.real

Unchanged ==
    /\ KindAt(tree, Target) = "file" /\ tree[Target].id = visit.id
    /\ ~visit.followed => \A i \in 1..(Len(visit.real) - 1) :
                             KindAt(tree, SubSeq(visit.real, 1, i)) = "dir"

Ready == visit.step = IF visit.followed THEN "verified" ELSE "open"

ReadContent ==
    /\ Opening /\ Ready /\ Unchanged
    /\ Recorded(visit.virt, Record("file", FALSE, tree[Target].id, visit.via))
    /\ visit' = NoVisit
    /\ UNCHANGED <<world, scope, frames, rules, progress>>

Changed == \/ visit.step = "open" /\ visit.followed /\ ~ChainHolds
           \/ Ready /\ ~Unchanged

(* A strict observation fails; otherwise, if that is allowed, the file is    *)
(* recorded as one that could not be read.                                   *)
ReadFails ==
    /\ Opening /\ Changed
    /\ IF scope.allowSkipped
       THEN /\ Recorded(visit.virt, Record("file", TRUE, "", visit.via))
            /\ visit' = NoVisit
            /\ UNCHANGED <<world, scope, frames, rules, progress>>
       ELSE Abort

-----------------------------------------------------------------------------
(* The editor.                                                               *)

Edited(t) ==
    /\ Walking /\ edits < MaxEdits
    /\ tree' = t /\ t # tree
    /\ edits' = edits + 1
    /\ steady' = IF scope.follow THEN {} ELSE steady \cap Below(t, FALSE)
    /\ inside' = inside \cup FilesInside(t)
    /\ UNCHANGED <<scope, frames, visit, rules, found, progress>>

Without(t, p) == [q \in {r \in DOMAIN t : ~IsPrefix(p, r)} |-> t[q]]

(* Something new at a name, in place of what was there; no two names are one *)
(* file.                                                                     *)
Put(p, node) ==
    /\ node.kind = "file" => \A q \in DOMAIN tree : tree[q].id # node.id
    /\ Edited(With(Without(tree, p), p, node))

(* What moves with p, seen from q. *)
Rebased(r, p, q) == q \o SubSeq(r, Len(p) + 1, Len(r))

Moved(t, p, q) ==
    LET moved == {r \in DOMAIN t : IsPrefix(p, r)}
    IN  [s \in (DOMAIN t \ moved) \cup {Rebased(r, p, q) : r \in moved} |->
            IF IsPrefix(q, s) THEN t[Rebased(s, q, p)] ELSE t[s]]

(* A directory or file moves, with what is in it, to a free name. *)
Move(p, q) ==
    /\ q \notin DOMAIN tree /\ Front(q) \in DOMAIN tree /\ tree[Front(q)].kind = "dir"
    /\ ~IsPrefix(p, q)
    /\ Edited(Moved(tree, p, q))

Edit ==
    \E p \in DOMAIN tree \ {Root, <<"o">>} :
        \/ \E node \in NewNodes : Put(p, node)
        \/ \E d \in {Root, <<"o">>}, n \in Range(Order) : Move(p, Append(d, n))

Step ==
    \/ LoadDir \/ ListDir \/ DirGone \/ LeaveDir
    \/ Bar \/ Ignore \/ EnterDir \/ RecordLink \/ MeetFile \/ StartFollow \/ EntryGone
    \/ RefuseHop \/ BrokenHop \/ Hop \/ Resolve \/ Detour \/ LookAgain
    \/ ReachNothing \/ ReachFile \/ ReachSpecial \/ ReachDir \/ CutCycle
    \/ VerifyChain \/ ReadContent \/ ReadFails

Next == Step \/ Edit

Spec == Init /\ [][Next]_vars

(* The walk is one goroutine that runs; the editor need not.                 *)
FairSpec == Spec /\ WF_vars(Step)

-----------------------------------------------------------------------------
(* What a scan promises.                                                     *)

Strictly(b, v) == b # v /\ IsPrefix(b, v)

(* Nothing the scan recorded or left out can stand for v: what a comparison, *)
(* a restore and the run cache read as proof that v was not there            *)
(* (Absence!Verdict).                                                        *)
ProvedAbsent(v) ==
    /\ v \notin DOMAIN manifest
    /\ \A b \in DOMAIN frontier : b # v /\ (frontier[b] = "subtree" => ~Strictly(b, v))
    /\ \A b \in DOMAIN manifest :
          manifest[b].skipped /\ manifest[b].kind \in {"symlink", "dir"} => ~Strictly(b, v)

(* No scan proves absent what was there all the time it ran, whatever else   *)
(* was moved around it.  Through followed links this holds of a worktree     *)
(* nobody edits; through real directories always.                            *)
AbsentIsTrue == progress = "done" => \A v \in steady : ~ProvedAbsent(v)

(* The rules in force in a directory, from the files themselves. *)
InForce(d) ==
    LET dirs == [i \in 1..(Len(d) + 1) |-> tree[Abs(Ancestors(d)[i])]]
    IN  scope.builtin
          \o (IF scope.git THEN FlattenSeq([i \in DOMAIN dirs |-> dirs[i].git]) ELSE <<>>)
          \o (IF scope.awa THEN FlattenSeq([i \in DOMAIN dirs |-> dirs[i].awa]) ELSE <<>>)

Selects(v) ==
    LET kind == tree[Abs(v)].kind
    IN  /\ ~Barred(v, kind)
        /\ Narrowed \/ ~Excludes(InForce(Front(v)), Last(v), kind = "dir")

InScope(v) == \A i \in 1..Len(v) : Selects(SubSeq(v, 1, i))

(* In a worktree nobody edits, a scan records what no rule on the way to it  *)
(* excludes, and nothing else, whatever matchers it shared or cached; what a *)
(* followed link leads to is the subject of the other properties.            *)
ScopeIsExact ==
    progress = "done" /\ edits = 0 =>
        \A v \in Below(tree, FALSE) :
            tree[Abs(v)].kind \in {"dir", "file"} =>
                /\ v \in DOMAIN manifest <=> InScope(v)
                /\ v \in DOMAIN manifest => /\ manifest[v].kind = tree[Abs(v)].kind
                                           /\ manifest[v].via = Direct

(* Without permission to leave the root no file is read that was outside it  *)
(* ever since the scan began, however links and directories are exchanged    *)
(* between the checks and the read.  A file reached through links is         *)
(* resolved, looked at, verified and opened by name one after the other, and *)
(* bound to what its own stat found: for these, and only these, nothing is   *)
(* promised once more than one edit is made beside the scan.                 *)
NothingFromOutside ==
    ~scope.escape => \A v \in DOMAIN manifest :
        manifest[v].kind = "file" /\ ~manifest[v].skipped =>
            \/ manifest[v].content \in inside
            \/ manifest[v].via.source # <<>> /\ edits > 1

(* No link leads back into a directory that the traversal, since it left the *)
(* real directories of the worktree, is in.                                  *)
LinksDoNotReenter ==
    \A i, j \in 1..Len(frames) :
        i < j /\ frames[i].followed /\ frames[j].followed /\ frames[j].virt = frames[j].source
            => frames[i].real # frames[j].real
=============================================================================
