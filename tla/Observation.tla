---------------------------- MODULE Observation ----------------------------
(* "changes", "diff" and "status" against the present worktree: a scan of it *)
(* beside an editor, and then the comparison of a stored state with what the *)
(* scan recorded; and the comparison of two stored states, which needs no    *)
(* scan (internal/app/state/resolve.go, internal/app/changes).               *)
EXTENDS StateComparison

CONSTANTS Stored,                            \* states a scan is compared with
          Trees, Scopes, NewNodes, Order, Protected, LinkBudget, MaxEdits

VARIABLES tree, edits, scope, frames, visit, loaded, compiled, manifest, frontier,
          progress, steady, inside

Walk == INSTANCE WorktreeWalk

ASSUME ObservationAssumption ==
    /\ Order \in Seq(STRING) /\ \A t \in Trees : Walk!WellFormed(t)
    /\ \A x \in Stored : StateShape(x)

(* What is below a path begins with it and a slash. *)
ASSUME BelowAssumption == \A b, p \in Paths : Walk!Strictly(b, p) => Under(b, p)

comparison == <<inputs, rest, tracker, report, outcome>>
scan == <<tree, edits, scope, frames, visit, loaded, compiled, manifest, frontier,
          progress, steady, inside>>

(* No reference of the range is the present worktree. *)
NoScan ==
    /\ tree = <<>> /\ edits = 0 /\ scope = [follow |-> FALSE, escape |-> FALSE]
    /\ frames = <<>> /\ visit = Walk!NoVisit
    /\ loaded = <<>> /\ compiled = <<>> /\ manifest = <<>> /\ frontier = <<>>
    /\ progress = "none"
    /\ steady = {} /\ inside = {}

ObservationInit == Init /\ (Walk!Init \/ NoScan)

(* What the scan recorded, as a state: a file by what it holds, a link by    *)
(* its target, with the provenance of what was reached through a link.       *)
Recorded(r) ==
    [skipped |-> r.skipped, kind |-> r.kind,
     content |-> IF r.kind = "file" THEN <<r.content>> ELSE r.content,
     meta |-> r.via, storage |-> "blob"]

Present ==
    [rec |-> [v \in DOMAIN manifest |-> Recorded(manifest[v])], excluded |-> frontier,
     coverage |-> "recorded", scope |-> {}, damaged |-> "none"]

(* TLC follows results whose paths are all among the modelled ones. *)
Bounded == DOMAIN manifest \cup DOMAIN frontier \subseteq Paths

ScanStep == Walk!Next /\ UNCHANGED comparison

CompareStored ==
    /\ progress = "none" /\ outcome = "idle"
    /\ \E l, r \in States, a \in Asks : Open(l, r, a)
    /\ UNCHANGED scan

(* What is selected of a report does not depend on where the states come from. *)
ComparePresent ==
    /\ progress = "done" /\ outcome = "idle" /\ Bounded
    /\ \E l \in Stored, a \in {b \in Asks : b.filters = {}} : Open(l, Present, a)
    /\ UNCHANGED scan

CompareStep == Compare /\ UNCHANGED scan

ObservationNext == ScanStep \/ CompareStored \/ ComparePresent \/ CompareStep

ObservationSpec == ObservationInit /\ [][ObservationNext]_<<comparison, scan>>

-----------------------------------------------------------------------------
ScopeIsExact == Walk!ScopeIsExact

(* Following links never leads back into a directory being walked, nor to    *)
(* content from outside the root, unless more than one edit is made beside.   *)
LinksStayInside == Walk!NothingFromOutside /\ Walk!LinksDoNotReenter

(* A deletion reported as proved is one: no path the worktree had all the    *)
(* time the scan ran is reported deleted with its absence proved, whatever   *)
(* the walk left out, skipped, or the tracker forgot on the way.             *)
DeletedIsGone ==
    progress = "done" => \A c \in Emitted :
        c.status = "deleted" /\ c.missing = "absent" => c.old \notin steady

(* An absence that was proved is one, in the observation and in the report.  *)
AbsentIsTrue == Walk!AbsentIsTrue /\ DeletedIsGone
=============================================================================
