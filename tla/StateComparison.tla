-------------------------- MODULE StateComparison --------------------------
(* The comparison of two recorded states, as "changes", "diff", "status" and *)
(* the assessment of a foreign state run it: one merge of two ordered        *)
(* streams, the proof of what the missing side of an entry amounts to, and   *)
(* the stage that pairs renames within a bounded buffer                      *)
(* (internal/domain/compare, app/stateprovider/coverage.go).                 *)
EXTENDS Absence, FiniteSets, Naturals, Sequences

CONSTANTS States,   \* what a resolved state can be: see StateShape
          Asks      \* what a comparison can be asked for: see AskShape

Sides == {"left", "right"}

Other(s) == IF s = "left" THEN "right" ELSE "left"

Kinds == {"file", "dir", "symlink", "special"}

(* A state: its manifest, what it did not observe, how much its coverage     *)
(* proves, the exact paths a recovery observation covers, and which stream   *)
(* of it fails its integrity check at its end.                               *)
(*   rec      : path -> [skipped, kind, content, meta, storage]              *)
(*   excluded : path -> "node" or "subtree"                                  *)
(*   coverage : "unknown", "recorded" or "scoped"                            *)
(*   scope    : {} or {the set of covered paths}                             *)
(* content is the hash of a file or the target of a link; meta the other     *)
(* observed facts: permission bits and provenance, for a skip its reason,    *)
(* size and mtime too.                                                       *)
StateShape(x) ==
    /\ DOMAIN x.rec \subseteq Paths
    /\ \A p \in DOMAIN x.rec : x.rec[p].skipped \in BOOLEAN /\ x.rec[p].kind \in Kinds
    /\ DOMAIN x.excluded \subseteq Paths
    /\ x.coverage \in {"unknown", "recorded", "scoped"}
    /\ x.scope \subseteq SUBSET Paths
    /\ x.damaged \in {"none", "manifest", "proof"}

AskShape(a) ==
    /\ a.mode \in {"changes", "relate"}
    /\ a.renames \in BOOLEAN
    /\ a.limit \in Nat
    /\ a.filters \subseteq Paths

ASSUME ComparisonAssumption ==
    /\ \A x \in States : StateShape(x)
    /\ \A a \in Asks : AskShape(a)

VARIABLES
    state,     \* side -> the state compared
    ask,       \* what was asked for
    rest,      \* side -> the paths its cursor has not come to
    tracker,   \* side -> its absence tracker
    buffered,  \* changes the rename stage holds
    overflow,  \* the change that exceeded its limit
    served,    \* changes the consumer has got, in order
    stage,     \* the rename stage: "off", "buffering", "passing", "applied"
    outcome    \* "idle", "merging", "complete", "unsupported", "failed", "disordered"

vars == <<state, ask, rest, tracker, buffered, overflow, served, stage, outcome>>
inputs == <<state, ask>>
report == <<buffered, overflow, served, stage>>

NoState == [rec |-> <<>>, excluded |-> <<>>, coverage |-> "unknown", scope |-> {},
            damaged |-> "none"]

Init ==
    /\ state = [s \in Sides |-> NoState]
    /\ ask = [mode |-> "changes", renames |-> FALSE, limit |-> 0, filters |-> {}]
    /\ rest = [s \in Sides |-> {}]
    /\ tracker = [s \in Sides |-> NewTracker]
    /\ buffered = <<>> /\ overflow = <<>> /\ served = <<>>
    /\ stage = "off"
    /\ outcome = "idle"

(* OpenComparison, or openSide twice: the cursors stand before their first   *)
(* records.  The assessor relates only states whose coverage is known and    *)
(* that cover every path (Classify), without renames and without selection.  *)
Open(l, r, a) ==
    /\ outcome = "idle"
    /\ a.mode = "relate" =>
          /\ \A x \in {l, r} : x.coverage # "unknown" /\ x.scope = {}
          /\ ~a.renames /\ a.filters = {}
    /\ state' = [s \in Sides |-> IF s = "left" THEN l ELSE r]
    /\ ask' = a
    /\ rest' = [s \in Sides |-> IF s = "left" THEN DOMAIN l.rec ELSE DOMAIN r.rec]
    /\ stage' = IF a.renames THEN "buffering" ELSE "off"
    /\ outcome' = "merging"
    /\ UNCHANGED <<tracker, buffered, overflow, served>>

Rec(s, p) == state[s].rec[p]
Has(s, p) == p \in DOMAIN state[s].rec

-----------------------------------------------------------------------------
(* One pair of records.                                                      *)

(* Mutated: only the content of a file counts. *)
SameEntryContent(l, r) == l.kind = r.kind /\ l.content = r.content

(* entryIdentityEqual and skipEqual: storage is policy, not identity. *)
SameEntry(l, r) ==
    /\ l.kind = r.kind /\ l.meta = r.meta
    /\ l.kind # "dir" => l.content = r.content

(* comparePresent *)
PresentStatus(l, r) ==
    IF l.skipped # r.skipped THEN "skipped"
    ELSE IF l.skipped THEN (IF SameEntry(l, r) THEN "same" ELSE "skipped")
    ELSE IF l.kind # r.kind THEN "type-changed"
    ELSE IF SameEntry(l, r) THEN "same" ELSE "modified"

StatusAt(p) ==
    IF ~Has("right", p) THEN "deleted"
    ELSE IF ~Has("left", p) THEN "added"
    ELSE PresentStatus(Rec("left", p), Rec("right", p))

IsBlob(r) == ~r.skipped /\ r.kind = "file" /\ r.storage = "blob"

(* Whether bytes are there to be diffed (ContentDiffAvailable). *)
DiffableAt(p) ==
    CASE StatusAt(p) = "deleted" -> IsBlob(Rec("left", p))
      [] StatusAt(p) = "added" -> IsBlob(Rec("right", p))
      [] StatusAt(p) = "modified" ->
            /\ IsBlob(Rec("left", p)) /\ IsBlob(Rec("right", p))
            /\ Rec("left", p).content # Rec("right", p).content
      [] OTHER -> FALSE

ChangeAt(p, missing) ==
    [status |-> StatusAt(p),
     old |-> IF Has("left", p) THEN p ELSE NoPath,
     new |-> IF Has("right", p) THEN p ELSE NoPath,
     diffable |-> DiffableAt(p),
     missing |-> missing]

Primary(c) == IF c.status = "deleted" THEN c.old ELSE c.new

(* matchesAny: a filter selects its path and what is below it. *)
Selected(p) == \/ ask.filters = {}
               \/ \E f \in ask.filters : p = f \/ Under(f, p)

-----------------------------------------------------------------------------
(* The evidence of one side.                                                 *)

Excluded(s) == Frontier(state[s].excluded)

(* noteSide: a skipped record is a boundary of its own side. *)
NotedAt(s, p) ==
    IF Has(s, p) /\ Rec(s, p).skipped /\ state[s].coverage = "recorded"
    THEN Noted(tracker[s], Excluded(s), p, Rec(s, p).kind)
    ELSE tracker[s]

InScope(s, p) == \A covered \in state[s].scope : p \in covered

(* Whether qualify, or the assessor, asks the tracker of side s for p. *)
Consults(s, p) == InScope(s, p) /\ state[s].coverage = "recorded"

AskedAt(s, p) == IF Consults(s, p) THEN Advance(tracker[s], Excluded(s), p) ELSE tracker[s]

QualifiedAt(s, p) ==
    IF ~InScope(s, p) THEN "outside-observation"
    ELSE CASE state[s].coverage = "unknown" -> "unknown"
           [] state[s].coverage = "scoped" -> "absent"
           [] OTHER -> Verdict(AskedAt(s, p).open, p)

-----------------------------------------------------------------------------
(* The merge: the least path either cursor has not passed.                   *)

Unread == rest["left"] \cup rest["right"]

Least(p) == p \in Unread /\ \A q \in Unread : ~Before(q, p)

(* A cursor verifies its manifest when it comes to its end.  The merge reads *)
(* one record ahead and drops the last record of a damaged one; the assessor *)
(* looks at the errors before its next path.                                 *)
Readable(p) ==
    \A s \in Sides : state[s].damaged = "manifest" =>
        IF ask.mode = "relate" THEN rest[s] # {} ELSE rest[s] \ {p} # {}

Moved(p) == rest' = [s \in Sides |-> rest[s] \ {p}]

(* A change goes to the consumer, to the buffer, or becomes the one that     *)
(* exceeds its limit.                                                        *)
Emit(c) ==
    \/ /\ stage \in {"off", "passing"}
       /\ served' = Append(served, c)
       /\ UNCHANGED <<buffered, overflow, stage>>
    \/ /\ stage = "buffering" /\ Len(buffered) < ask.limit
       /\ buffered' = Append(buffered, c)
       /\ UNCHANGED <<overflow, served, stage>>
    \/ /\ stage = "buffering" /\ Len(buffered) = ask.limit
       /\ overflow' = <<c>>
       /\ stage' = "passing"
       /\ UNCHANGED <<buffered, served>>

(* The base cursor is drawn on only when nothing is held back. *)
Drawing ==
    /\ outcome = "merging"
    /\ stage = "passing" => buffered = <<>> /\ overflow = <<>>

(* Both sides have the path: each notes its record. *)
ReadPair(p) ==
    /\ Drawing /\ Least(p) /\ Readable(p)
    /\ Has("left", p) /\ Has("right", p)
    /\ Moved(p)
    /\ tracker' = [s \in Sides |-> NotedAt(s, p)]
    /\ \/ /\ StatusAt(p) # "same" /\ Selected(p)
          /\ Emit(ChangeAt(p, "none"))
       \/ /\ StatusAt(p) = "same" \/ ~Selected(p)
          /\ UNCHANGED report
    /\ UNCHANGED <<inputs, outcome>>

(* Only side s has it: s notes its record and, if the change is reported,    *)
(* the other side says what its silence means.  A query behind an earlier    *)
(* one is an error of the program, and ends the comparison.                  *)
ReadOneSided(s, p) ==
    /\ Drawing /\ Least(p) /\ Readable(p)
    /\ Has(s, p) /\ ~Has(Other(s), p)
    /\ ask.mode = "changes"
    /\ Moved(p)
    /\ tracker' = [t \in Sides |-> IF t = s THEN NotedAt(s, p)
                                   ELSE IF Selected(p) THEN AskedAt(t, p) ELSE tracker[t]]
    /\ outcome' = IF Selected(p) /\ Consults(Other(s), p) /\ OutOfOrder(tracker[Other(s)], p)
                  THEN "disordered" ELSE outcome
    /\ \/ /\ Selected(p) /\ outcome' = "merging"
          /\ Emit(ChangeAt(p, QualifiedAt(Other(s), p)))
       \/ /\ Selected(p) => outcome' = "disordered"
          /\ UNCHANGED report
    /\ UNCHANGED inputs

(* The assessor's merge (walkCovered): every difference counts, and one path *)
(* the other side cannot prove absent leaves the relationship unsupported.   *)
Relates(s, p) ==
    /\ Drawing /\ Least(p) /\ Readable(p)
    /\ Has(s, p) /\ ~Has(Other(s), p)
    /\ ask.mode = "relate"
    /\ Moved(p)
    /\ tracker' = [t \in Sides |-> IF t = s THEN NotedAt(s, p) ELSE AskedAt(t, p)]
    /\ \/ /\ QualifiedAt(Other(s), p) = "absent"
          /\ Emit(ChangeAt(p, "absent"))
          /\ UNCHANGED outcome
       \/ /\ QualifiedAt(Other(s), p) # "absent"
          /\ outcome' = "unsupported"
          /\ UNCHANGED report
    /\ UNCHANGED inputs

(* A stream cannot be read to its end, or the consumer is cancelled. *)
Fail ==
    /\ outcome = "merging"
    /\ outcome' = "failed"
    /\ UNCHANGED <<inputs, rest, tracker, report>>

-----------------------------------------------------------------------------
(* The rename stage.                                                         *)

(* A one-sided change that names a file's content or a link's target. *)
RenameKey(c) ==
    LET r == IF c.status = "deleted" THEN Rec("left", c.old) ELSE Rec("right", c.new)
    IN  IF ~r.skipped /\ r.kind \in {"file", "symlink"} THEN {<<r.kind, r.content>>} ELSE {}

Pairs(changes) ==
    {x \in changes \X changes : LET d == x[1]  a == x[2] IN
        /\ d.status = "deleted" /\ a.status = "added"
        /\ RenameKey(d) = RenameKey(a) /\ RenameKey(d) # {}
        /\ \A c \in changes : /\ c.status = "deleted" /\ RenameKey(c) = RenameKey(d) => c = d
                              /\ c.status = "added" /\ RenameKey(c) = RenameKey(a) => c = a}

Renamed(d, a) ==
    [status |-> "renamed", old |-> d.old, new |-> a.new, diffable |-> FALSE, missing |-> "none"]

(* detectRenames *)
Paired(changes) ==
    LET pairs == Pairs(changes)
    IN  (changes \ UNION {{x[1], x[2]} : x \in pairs})
            \cup {Renamed(x[1], x[2]) : x \in pairs}

(* sortChanges: no two changes share a primary path. *)
Sorted(changes) ==
    CHOOSE f \in [1..Cardinality(changes) -> changes] :
        \A i, j \in 1..Cardinality(changes) :
            i < j => Before(Primary(f[i]), Primary(f[j]))

Elements(seq) == {seq[i] : i \in 1..Len(seq)}

(* Over the limit the consumer gets the held changes first, in order, *)
ServeBuffered ==
    /\ outcome = "merging" /\ stage = "passing" /\ buffered # <<>>
    /\ served' = Append(served, buffered[1])
    /\ buffered' = Tail(buffered)
    /\ UNCHANGED <<inputs, rest, tracker, overflow, stage, outcome>>

(* Mutated: the change that tipped the buffer is forgotten. *)
ServeOverflowLost ==
    /\ outcome = "merging" /\ stage = "passing" /\ buffered = <<>> /\ overflow # <<>>
    /\ overflow' = <<>>
    /\ UNCHANGED <<inputs, rest, tracker, buffered, served, stage, outcome>>

(* then the one that tipped it, *)
ServeOverflow ==
    /\ outcome = "merging" /\ stage = "passing" /\ buffered = <<>> /\ overflow # <<>>
    /\ served' = Append(served, overflow[1])
    /\ overflow' = <<>>
    /\ UNCHANGED <<inputs, rest, tracker, buffered, stage, outcome>>

(* and after it what the merge still yields.                                 *)
(* The end: both streams are verified to their last record, and so are the   *)
(* proof streams; within the limit the changes are paired and sorted now.    *)
Finish ==
    /\ Drawing /\ Unread = {}
    /\ \A s \in Sides : state[s].damaged = "none"
    /\ outcome' = "complete"
    /\ \/ /\ stage = "buffering"
          /\ served' = Sorted(Paired(Elements(buffered)))
          /\ buffered' = <<>>
          /\ stage' = "applied"
          /\ UNCHANGED overflow
       \/ /\ stage # "buffering"
          /\ UNCHANGED report
    /\ UNCHANGED <<inputs, rest, tracker>>

Merge == \E p \in Unread : \/ ReadPair(p)
                          \/ \E s \in Sides : ReadOneSided(s, p) \/ Relates(s, p)

Compare == Merge \/ Fail \/ ServeBuffered \/ ServeOverflow \/ Finish

Next == (\E l, r \in States, a \in Asks : Open(l, r, a)) \/ Compare

Spec == Init /\ [][Next]_vars

-----------------------------------------------------------------------------
(* What a comparison promises.                                               *)

(* All a side knows: what it excluded and what it skipped. *)
AllBoundaries(s) ==
    Excluded(s) \cup {SkippedBoundary(p, Rec(s, p).kind) :
                         p \in {q \in DOMAIN state[s].rec : Rec(s, q).skipped}}

(* What the silence of side s about p means, with the whole of its evidence  *)
(* at hand.                                                                  *)
Meaning(s, p) ==
    IF ~InScope(s, p) THEN "outside-observation"
    ELSE CASE state[s].coverage = "unknown" -> "unknown"
           [] state[s].coverage = "scoped" -> "absent"
           [] OTHER -> Verdict(AllBoundaries(s), p)

Missing(p) == IF ~Has("left", p) THEN Meaning("left", p)
              ELSE IF ~Has("right", p) THEN Meaning("right", p)
              ELSE "none"

Known == DOMAIN state["left"].rec \cup DOMAIN state["right"].rec

Differing == {p \in Known : StatusAt(p) # "same" /\ Selected(p)}

Expected(paths) == {ChangeAt(p, Missing(p)) : p \in paths}

Emitted == Elements(served) \cup Elements(buffered) \cup Elements(overflow)

(* What has been passed is what has been reported, with the counterpart the  *)
(* whole evidence gives, whatever part of it the tracker still holds; and    *)
(* the tracker is never asked for a path behind an earlier one.              *)
CounterpartsAreProved ==
    /\ outcome = "merging" => Emitted = Expected(Differing \ Unread)
    /\ outcome # "disordered"

InOrder(seq) == \A i, j \in 1..Len(seq) : i < j => Before(Primary(seq[i]), Primary(seq[j]))

(* The two changes a reported one stands for. *)
Halves(c) == IF c.status = "renamed"
             THEN {ChangeAt(c.old, Missing(c.old)), ChangeAt(c.new, Missing(c.new))}
             ELSE {c}

(* What the tree hash folds of a record (encodeEntry, encodeSkipped): not    *)
(* the storage of a file, and of a directory only how it was reached.        *)
Folded(r) == <<r.skipped, r.kind, IF r.kind = "dir" THEN "" ELSE r.content, r.meta>>

TreeHash(s) == {<<p, Folded(Rec(s, p))>> : p \in DOMAIN state[s].rec}

(* An unselected comparison is empty exactly when the tree hashes agree,     *)
(* which is what the assessor's "equal" and the run cache rely on.           *)
QuietMeansSameTree ==
    outcome = "complete" /\ ask.filters = {} =>
        (served = <<>> <=> TreeHash("left") = TreeHash("right"))
-----------------------------------------------------------------------------

(* A complete report is the difference of the two states: every differing    *)
(* path the selection covers once, in order, renames standing for one        *)
(* deletion and one addition nothing else could be paired with; and so is    *)
(* every part of it on the way.                                              *)
ReportIsTheDifference ==
    /\ CounterpartsAreProved /\ QuietMeansSameTree
    /\ outcome = "complete" =>
        /\ InOrder(served)
        /\ UNION {Halves(c) : c \in Elements(served)} = Expected(Differing)
        /\ \A c, d \in Elements(served) : c # d => Halves(c) \cap Halves(d) = {}
        /\ \A c \in Elements(served) : c.status = "renamed" =>
              \A d \in Expected(Differing) \ Halves(c) :
                 d.status \in {"added", "deleted"} =>
                     RenameKey(d) \cap RenameKey(ChangeAt(c.old, "none")) = {}
=============================================================================
