------------------------------ MODULE Absence ------------------------------
(* What an observation proves about a path it does not list.  A walk leaves  *)
(* a frontier of what it did not look at, and records of what it looked at   *)
(* and could not read; the tracker reads both in path order, once, in step   *)
(* with the queries, and keeps only the boundaries that can still matter     *)
(* (internal/domain/worktree/coverage.go).                                   *)

CONSTANTS Paths,        \* project-relative paths
          NoPath,       \* the zero path
          Before(_, _), \* the order of their bytes
          Prefix(_, _), \* string prefix, a path being one of itself: "a" of "a-b" too
          Under(_, _)   \* Under(b, p): b and a slash are a prefix of p

(* What strings are like.  Between a string and one it is a prefix of there  *)
(* are, in byte order, only strings it is a prefix of.                       *)
ASSUME PathOrder ==
    /\ NoPath \notin Paths
    /\ \A p, q \in Paths : Before(p, q) \in BOOLEAN /\ Prefix(p, q) \in BOOLEAN
                                /\ Under(p, q) \in BOOLEAN
    /\ \A p \in Paths : ~Before(p, p) /\ Prefix(p, p) /\ ~Under(p, p)
    /\ \A p, q \in Paths : p = q \/ Before(p, q) \/ Before(q, p)
    /\ \A p, q, r \in Paths : Before(p, q) /\ Before(q, r) => Before(p, r)
    /\ \A b, p \in Paths : Prefix(b, p) => ~Before(p, b)
    /\ \A b, p \in Paths : Under(b, p) => Prefix(b, p)
    /\ \A b, p, q \in Paths : Prefix(b, q) /\ ~Before(p, b) /\ ~Before(q, p) => Prefix(b, p)

UpTo(q, p) == q = p \/ Before(q, p)

(* How far a boundary reaches, and whether it stands for a node that was met *)
(* and skipped or for one that was excluded.                                 *)
Boundary(path, subtree, skipped) == [path |-> path, subtree |-> subtree, skipped |-> skipped]

Boundaries == [path : Paths, subtree : BOOLEAN, skipped : BOOLEAN]

(* An excluded path hides what is below it if its limit is subtree. *)
Frontier(excluded) == {Boundary(p, excluded[p] = "subtree", FALSE) : p \in DOMAIN excluded}

(* A skipped file or device was seen as a non-directory, a skipped link may  *)
(* have led anywhere.                                                        *)
SkippedBoundary(path, kind) == Boundary(path, kind \in {"symlink", "dir"}, TRUE)

NewTracker == [last |-> NoPath, open |-> {}]

(* Mutated: only what reaches the present path stays open, so that a name    *)
(* that sorts between a directory and what is in it closes the directory.    *)
AdvanceReaching(t, frontier, p) ==
    LET Stays(b) == b.path = p \/ Under(b.path, p)
    IN  [last |-> p,
         open |-> {b \in t.open : Stays(b)}
                      \cup {b \in frontier : /\ UpTo(b.path, p)
                                             /\ (t.last = NoPath \/ ~UpTo(b.path, t.last))
                                             /\ Stays(b)}]

(* Drop what is no prefix of p; read the frontier up to p, and keep of that  *)
(* what is one.                                                              *)
Advance(t, frontier, p) ==
    [last |-> p,
     open |-> {b \in t.open : Prefix(b.path, p)}
                  \cup {b \in frontier : /\ UpTo(b.path, p)
                                         /\ (t.last = NoPath \/ ~UpTo(b.path, t.last))
                                         /\ Prefix(b.path, p)}]

OutOfOrder(t, p) == t.last # NoPath /\ Before(p, t.last)

(* Note: a skipped record of this side. *)
Noted(t, frontier, p, kind) ==
    LET moved == Advance(t, frontier, p)
    IN  [moved EXCEPT !.open = @ \cup {SkippedBoundary(p, kind)}]

(* What a boundary says of a path; a skipped node says more than an excluded one. *)
Reaches(b, p) == b.path = p \/ (b.subtree /\ Under(b.path, p))

Verdict(open, p) ==
    LET hits == {b \in open : Reaches(b, p)}
    IN  IF hits = {} THEN "absent"
        ELSE IF \E b \in hits : b.skipped THEN "skipped-boundary"
        ELSE "outside-observation"
=============================================================================
