---------------------------- MODULE RestoreApply ----------------------------
(* awa restore --apply.  A restore observes the worktree, plans one           *)
(* operation per differing path, captures what it is about to destroy in a   *)
(* recovery record, observes again, and commits path by path behind a guard. *)
(* Nobody can lock the user's editor: it may change the worktree between any *)
(* two steps.  A later restore may take the record as its source (the undo). *)
(* Restores exclude each other (LockProtocol) and their records outlive them *)
(* (StoreGC); paths are sequences of names, contents are values.             *)
EXTENDS Integers, Sequences, FiniteSets

CONSTANTS
    Nobody,
    Paths,       \* every path that may hold something, with its ancestors
    Files,       \* the contents of regular files
    Links,       \* the targets of symbolic links
    HashOnly,    \* contents of which the checkpoint kept only the hash
    Hidden,      \* the paths the current ignore rules exclude
    Policies,    \* what the rules may have excluded when the checkpoint was taken
    Selections,  \* the sets of paths a restore may be asked for
    Restores,
    Budget,      \* bounds a behaviour: a restore costs two, an edit one
    Faulty,      \* whether calls fail and the user cancels
    Crashing     \* whether a restore may die

Above(p) == {SubSeq(p, 1, n) : n \in 1 .. Len(p) - 1}
Below(p) == {q \in Paths : p \in Above(q)}

ASSUME PathsAssumption ==
    /\ \A p \in Paths : p \in Seq(STRING) /\ p # <<>> /\ Above(p) \subseteq Paths
    /\ \A h \in Policies \cup {Hidden} : h \subseteq Paths /\ \A p \in h : Below(p) \subseteq h
    /\ Selections \subseteq SUBSET Paths

ASSUME NodesAssumption ==
    /\ HashOnly \subseteq Files
    /\ Files \cap Links = {}
    /\ {"absent", "dir"} \cap (Files \cup Links) = {}

ASSUME OthersAssumption ==
    /\ Budget \in Nat
    /\ Faulty \in BOOLEAN /\ Crashing \in BOOLEAN
    /\ Nobody \notin Restores \cup Paths /\ "checkpoint" \notin Restores

Leaves == Files \cup Links
Nodes == Leaves \cup {"absent", "dir"}
Worktrees == [Paths -> Nodes]

VARIABLES
    tree,     \* the worktree
    saved,    \* the checkpoint: what it observed and what was hidden from it
    record,   \* the published recovery records: the former node of each path
    outcome,  \* what each restore reported
    active,   \* the restore that holds the lock
    pc,       \* its next step
    seen,     \* its observation of the worktree
    front,    \* the hidden paths it met there
    plan,     \* its operations: the node it saw and the node it wants
    todo,     \* those it has not completed
    at,       \* the path whose guard it has passed
    changed, incomplete, stop,   \* its commitState
    log,      \* history: what each restore was asked for, found and left
    raced,    \* history: the paths edited since the guard
    edits     \* how often the worktree was edited

world == <<tree, saved, edits>>
session == <<seen, front, plan>>
commit == <<todo, at, changed, incomplete, stop, raced>>
vars == <<world, record, outcome, active, pc, session, commit, log>>

-----------------------------------------------------------------------------
(* Nodes live in directories. *)
WellFormed(t) == \A p \in Paths : t[p] # "absent" => \A a \in Above(p) : t[a] = "dir"
IsEmpty(d) == \A q \in Below(d) : tree[q] = "absent"
Reached(p) == \A a \in Above(p) : tree[a] = "dir"

(* What a scan under some ignore rules finds. *)
Observe(t, hidden) == [p \in Paths |-> IF p \in hidden THEN "absent" ELSE t[p]]

NoRecord == [p \in {} |-> "absent"]
NoPlan == [p \in {} |-> [current |-> "absent", desired |-> "absent"]]
NoLog == [source |-> Nobody, selection |-> {}, base |-> [p \in Paths |-> "absent"],
          final |-> [p \in Paths |-> "absent"], edited |-> FALSE, faulted |-> FALSE]

Init ==
    /\ tree \in {t \in Worktrees : WellFormed(t)}
    /\ saved \in {[tree |-> Observe(t, h), hidden |-> h] :
                     t \in {u \in Worktrees : WellFormed(u)}, h \in Policies}
    /\ edits = 0
    /\ record = [r \in Restores |-> NoRecord]
    /\ outcome = [r \in Restores |-> "none"]
    /\ active = Nobody /\ pc = "idle"
    /\ seen = [p \in Paths |-> "absent"] /\ front = {} /\ plan = NoPlan
    /\ todo = {} /\ at = Nobody /\ raced = {}
    /\ changed = FALSE /\ incomplete = FALSE /\ stop = "none"
    /\ log = [r \in Restores |-> NoLog]

Begun == {r \in Restores : outcome[r] # "none"}
Spent == 2 * Cardinality(Begun) + edits

(* Somebody else puts, replaces or removes one node.  What happens before    *)
(* the first restore is in Init.                                             *)
Edit ==
    /\ Begun # {} /\ Spent + 1 <= Budget
    /\ \E p \in Paths, n \in Nodes :
         /\ tree[p] # n
         /\ tree' = [tree EXCEPT ![p] = n] /\ WellFormed(tree')
         /\ raced' = IF at = Nobody THEN {} ELSE raced \cup {p}
    /\ edits' = edits + 1
    /\ log' = IF active = Nobody THEN log ELSE [log EXCEPT ![active].edited = TRUE]
    /\ UNCHANGED <<saved, record, outcome, active, pc, session, todo, at, changed,
                   incomplete, stop>>

-----------------------------------------------------------------------------
(* Planning.                                                                 *)

Asked(s, sel) == [source |-> s, selection |-> sel, base |-> tree, final |-> tree,
                  edited |-> FALSE, faulted |-> FALSE]

(* One observation, one source: the checkpoint or somebody's record. *)
Begin(r) ==
    /\ active = Nobody /\ outcome[r] = "none"
    /\ Spent + 2 <= Budget
    /\ \E s \in {"checkpoint"} \cup {x \in Restores : record[x] # NoRecord}, sel \in Selections :
         log' = [log EXCEPT ![r] = Asked(s, sel)]
    /\ active' = r /\ pc' = "plan"
    /\ outcome' = [outcome EXCEPT ![r] = "running"]
    /\ seen' = Observe(tree, Hidden)
    /\ front' = {p \in Hidden : tree[p] # "absent"}
    /\ UNCHANGED <<world, record, plan, commit>>

Source == log[active].source
Want(s, p) ==
    IF s = "checkpoint" THEN saved.tree[p]
    ELSE IF p \in DOMAIN record[s] THEN record[s][p] ELSE "absent"
Desired(p) == Want(Source, p)

Selected(sel) == {p \in Paths : p \in sel \/ Above(p) \cap sel # {}}
InScope == IF Source = "checkpoint" THEN Paths ELSE DOMAIN record[Source]
Decided == Selected(log[active].selection) \cap InScope
Candidates == {p \in Decided : Desired(p) # seen[p]}

(* No file system call reaches a path through a symbolic link. *)
BehindLink(p) == \E a \in Above(p) : tree[a] \in Links

(* Paths the evidence does not let a restore touch: a deletion under other   *)
(* ignore rules, a destination that is hidden, below something hidden or     *)
(* behind a link, and content of which there is only a hash.                 *)
Unproved(p) ==
    \/ Desired(p) = "absent" /\ Source = "checkpoint" /\ saved.hidden # Hidden
    \/ /\ seen[p] = "absent"
       /\ tree[p] # "absent" \/ Above(p) \cap front # {} \/ BehindLink(p)
    \/ Desired(p) \in HashOnly /\ Source = "checkpoint"

(* A directory goes only if the selection itself empties it. *)
RemovesDirectory(p) == seen[p] = "dir" /\ Desired(p) # "dir"
Remains(q) ==
    \/ q \in front
    \/ IF q \in Candidates /\ ~Unproved(q) THEN Desired(q) # "absent" ELSE seen[q] # "absent"
Held(p) == RemovesDirectory(p) /\ \E q \in Below(p) : Remains(q)

(* An operand of which neither side knows anything: it blocks the plan if it *)
(* is there after all, is behind a link, or is nothing a record covers.  One *)
(* below a file cannot be asked about: the question is itself an error.      *)
Unmatched(p) ==
    \A q \in Selected({p}) \cap InScope :
        Source = "checkpoint" /\ Desired(q) = "absent" /\ seen[q] = "absent"

BelowFile(t, p) == \E a \in Above(p) : t[a] \in Files

Unexplained ==
    \E p \in log[active].selection :
        /\ Unmatched(p)
        /\ Source # "checkpoint" \/ tree[p] # "absent" \/ BehindLink(p)

Unanswerable ==
    /\ Source = "checkpoint"
    /\ \E p \in log[active].selection : Unmatched(p) /\ BelowFile(tree, p)

Blocked == Unexplained \/ \E p \in Candidates : Unproved(p) \/ Held(p)

-----------------------------------------------------------------------------
(* A restore ends: its session is discarded and its record, if any, stays.   *)
EndWith(result) ==
    /\ outcome' = [outcome EXCEPT ![active] = result]
    /\ active' = Nobody /\ pc' = "idle"
    /\ seen' = [p \in Paths |-> "absent"] /\ front' = {} /\ plan' = NoPlan
    /\ todo' = {} /\ at' = Nobody /\ raced' = {}
    /\ changed' = FALSE /\ incomplete' = FALSE /\ stop' = "none"
    /\ UNCHANGED world

Leave(result) ==
    /\ EndWith(result)
    /\ log' = [log EXCEPT ![active].final = tree]
    /\ UNCHANGED record

LeaveFaulted(result) ==
    /\ Faulty
    /\ EndWith(result)
    /\ log' = [log EXCEPT ![active].final = tree, ![active].faulted = TRUE]
    /\ UNCHANGED record

MakePlan ==
    /\ pc = "plan"
    /\ \/ Unanswerable /\ Leave("error")
       \/ /\ ~Unanswerable
          /\ \/ Blocked /\ Leave("refused")
             \/ ~Blocked /\ Candidates = {} /\ Leave("no-op")
             \/ /\ ~Blocked /\ Candidates # {}
                /\ plan' = [p \in Candidates |-> [current |-> seen[p], desired |-> Desired(p)]]
                /\ pc' = "stage"
                /\ UNCHANGED <<world, record, outcome, active, seen, front, commit, log>>

(* Every payload is read and verified first. *)
StageAll ==
    /\ pc = "stage"
    /\ \/ LeaveFaulted("refused")
       \/ /\ pc' = "capture"
          /\ UNCHANGED <<world, record, outcome, active, session, commit, log>>

Planned == DOMAIN plan
Current(p) == plan[p].current
Goal(p) == plan[p].desired

(* Mutated: the record covers only the paths that hold something. *)
CapturedPresent == [p \in {q \in Planned : Current(q) # "absent"} |-> Current(p)]

(* The record: the node at every planned path, "absent" included. *)
Captured == [p \in Planned |-> Current(p)]

(* A file that is no longer what was seen, or something where nothing was    *)
(* seen, cannot be preserved; otherwise the record is published.             *)
PublishRecovery ==
    LET lost == \E p \in Planned :
                   \/ tree[p] # Current(p) /\ Current(p) \in Files \cup {"absent"}
                   \/ Current(p) = "absent" /\ BehindLink(p)
    IN /\ pc = "capture"
       /\ \/ lost /\ Leave("refused")
          \/ /\ ~lost
             /\ record' = [record EXCEPT ![active] = Captured]
             /\ pc' = "revalidate"
             /\ UNCHANGED <<world, outcome, active, session, commit, log>>

(* The record of a restore that wrote nothing is withdrawn. *)
DropRecovery(result) ==
    \/ /\ EndWith(result)
       /\ record' = [record EXCEPT ![active] = NoRecord]
       /\ log' = [log EXCEPT ![active].final = tree]
    \/ LeaveFaulted("error")

Revalidate ==
    LET fresh == Observe(tree, Hidden)
        conflicts == {p \in Planned : fresh[p] # Current(p)}
    IN /\ pc = "revalidate"
       /\ \/ conflicts # {} /\ DropRecovery("conflict")
          \/ /\ conflicts = {}
             /\ todo' = Planned /\ pc' = "commit"
             /\ UNCHANGED <<world, record, outcome, active, session, at, changed,
                            incomplete, stop, raced, log>>

(* A read fails or the user cancels before the commit. *)
GiveUp ==
    \/ pc \in {"plan", "stage", "capture"} /\ LeaveFaulted("error")
    \/ /\ pc = "revalidate" /\ Faulty
       /\ EndWith("error")
       /\ record' \in {record, [record EXCEPT ![active] = NoRecord]}
       /\ log' = [log EXCEPT ![active].final = tree, ![active].faulted = TRUE]

-----------------------------------------------------------------------------
(* Committing.                                                               *)

(* Mutated: a directory is removed before the files in it. *)
RankDirectoryFirst(p) ==
    IF Goal(p) = "absent" THEN (IF Current(p) = "dir" THEN 1 ELSE 2)
    ELSE IF Current(p) = "dir" THEN 3 ELSE 0

(* Writes, deletions of files, of directories, replacements of directories. *)
Rank(p) ==
    IF Goal(p) = "absent" THEN (IF Current(p) = "dir" THEN 2 ELSE 1)
    ELSE IF Current(p) = "dir" THEN 3 ELSE 0

(* Within a pass parents come first; directories are removed deepest first. *)
Precedes(p, q) ==
    \/ Rank(q) > Rank(p)
    \/ /\ Rank(q) = Rank(p)
       /\ IF Rank(p) = 2 THEN Len(q) <= Len(p) ELSE q \notin Above(p)

Turn(p) == \A q \in todo \ {p} : Precedes(p, q)

(* What has to go first: a rename cannot replace a directory, and a          *)
(* directory cannot be made over a file.                                     *)
InTheWay(p) == \/ Current(p) = "dir" /\ Goal(p) \in Leaves
               \/ Current(p) \in Leaves /\ Goal(p) = "dir"

StopWith(reason) ==
    /\ stop' = reason /\ pc' = "finish"
    /\ UNCHANGED <<saved, edits, record, outcome, active, session, todo, at, changed, raced>>

WithParents(p) == [q \in Paths |-> IF q \in Above(p) /\ tree[q] = "absent" THEN "dir" ELSE tree[q]]

(* Mutated: the guard looks only at whether something is there. *)
PresentAsPlanned(p) == (tree[p] = "absent") = (Current(p) = "absent")

AsPlanned(p) == tree[p] = Current(p)

(* The destination's parent is opened, and made for an operation that adds a *)
(* node; then the destination must be exactly what was planned from.         *)
Guard(p) ==
    LET adds == Goal(p) # "absent"
        opened == IF adds THEN WithParents(p) ELSE tree
    IN /\ pc = "commit" /\ p \in todo /\ Turn(p)
       /\ \/ /\ \E a \in Above(p) : tree[a] \in Leaves
             /\ StopWith("mismatch")
             /\ UNCHANGED <<tree, incomplete, log>>
          \/ /\ ~adds /\ ~Reached(p) /\ \A a \in Above(p) : tree[a] \notin Leaves
             /\ StopWith("io")
             /\ UNCHANGED <<tree, incomplete, log>>
          \/ /\ \A a \in Above(p) : opened[a] = "dir"
             /\ ~AsPlanned(p)
             /\ tree' = opened
             /\ StopWith("mismatch")
             /\ UNCHANGED <<incomplete, log>>
          \/ /\ \A a \in Above(p) : opened[a] = "dir"
             /\ AsPlanned(p)
             /\ tree' = opened
             /\ at' = p /\ raced' = {}
             /\ pc' = IF ~adds \/ InTheWay(p) THEN "remove" ELSE "put"
             /\ UNCHANGED <<saved, edits, record, outcome, active, session, todo, changed,
                            incomplete, stop, log>>
          \/ /\ Faulty
             /\ tree' \in {tree, IF \A a \in Above(p) : opened[a] = "dir" THEN opened ELSE tree}
             /\ StopWith("io")
             /\ log' = [log EXCEPT ![active].faulted = TRUE]
             /\ UNCHANGED incomplete

Done(p) ==
    /\ todo' = todo \ {p} /\ at' = Nobody /\ raced' = {} /\ pc' = "commit"
    /\ changed' = TRUE
    /\ UNCHANGED <<saved, edits, record, outcome, active, session, incomplete, stop, log>>

(* The parent the guard opened is still the one at its path. *)
Opened(p) == Above(p) \cap raced = {}

(* One node is removed, a directory only if it is empty. *)
Removable(p) ==
    /\ Opened(p)
    /\ IF Current(p) = "dir" THEN tree[p] = "dir" /\ IsEmpty(p) ELSE tree[p] \in Leaves
Mismatched(p) ==
    \/ ~Opened(p)
    \/ tree[p] = "absent"
    \/ Current(p) = "dir" /\ tree[p] = "dir" /\ ~IsEmpty(p)

Remove ==
    /\ pc = "remove"
    /\ \/ /\ Removable(at)
          /\ tree' = [tree EXCEPT ![at] = "absent"]
          /\ IF Goal(at) = "absent" THEN Done(at)
             ELSE /\ changed' = TRUE /\ incomplete' = TRUE /\ pc' = "put"
                  /\ UNCHANGED <<saved, edits, record, outcome, active, session, todo, at,
                                 stop, raced, log>>
       \/ /\ ~Removable(at)
          /\ StopWith(IF Mismatched(at) THEN "mismatch" ELSE "io")
          /\ UNCHANGED <<tree, incomplete, log>>
       \/ /\ Faulty /\ StopWith("io")
          /\ log' = [log EXCEPT ![active].faulted = TRUE]
          /\ UNCHANGED <<tree, incomplete>>

(* The new node is renamed or made into place. *)
Puttable(p) == Opened(p) /\ (IF Goal(p) = "dir" THEN tree[p] \notin Leaves ELSE tree[p] # "dir")

Put ==
    /\ pc = "put"
    /\ \/ /\ Puttable(at)
          /\ tree' = [tree EXCEPT ![at] = Goal(at)]
          /\ todo' = todo \ {at} /\ at' = Nobody /\ raced' = {} /\ pc' = "commit"
          /\ changed' = TRUE /\ incomplete' = FALSE
          /\ UNCHANGED <<saved, edits, record, outcome, active, session, stop, log>>
       \/ /\ ~Puttable(at)
          /\ StopWith(IF Opened(at) /\ Goal(at) = "dir" THEN "mismatch" ELSE "io")
          /\ UNCHANGED <<tree, incomplete, log>>
       \/ /\ Faulty /\ StopWith("io")
          /\ log' = [log EXCEPT ![active].faulted = TRUE]
          /\ UNCHANGED <<tree, incomplete>>

(* The context is looked at before each operation. *)
Cancel ==
    /\ pc = "commit" /\ todo # {} /\ Faulty
    /\ StopWith("cancelled")
    /\ log' = [log EXCEPT ![active].faulted = TRUE]
    /\ UNCHANGED <<tree, incomplete>>

EndPasses ==
    /\ pc = "commit" /\ todo = {}
    /\ pc' = "finish"
    /\ UNCHANGED <<world, record, outcome, active, session, commit, log>>

(* Mutated: whatever changed something counts as applied. *)
AlwaysApplied == "applied"

AppliedOrPartial == IF todo = {} THEN "applied" ELSE "partial"

(* The record goes only if no operation changed anything. *)
FinishCommit ==
    /\ pc = "finish"
    /\ \/ /\ ~changed
          /\ DropRecovery(CASE stop = "io" -> "error"
                            [] stop = "cancelled" -> "cancelled"
                            [] OTHER -> "conflict")
       \/ changed /\ Leave(AppliedOrPartial)

(* The process dies; its record, if published, stays. *)
Crash == Crashing /\ active # Nobody /\ Leave("dead")

Next ==
    \/ Edit
    \/ \E r \in Restores : Begin(r)
    \/ MakePlan \/ StageAll \/ PublishRecovery \/ Revalidate \/ GiveUp
    \/ \E p \in todo : Guard(p)
    \/ Remove \/ Put \/ Cancel \/ EndPasses \/ FinishCommit
    \/ Crash

Spec == Init /\ [][Next]_vars
-----------------------------------------------------------------------------
(* Properties.                                                               *)

Outcomes == {"none", "running", "refused", "no-op", "conflict", "cancelled", "error",
             "applied", "partial", "dead"}
Steps == {"idle", "plan", "stage", "capture", "revalidate", "commit", "remove", "put", "finish"}

TypeOK ==
    /\ tree \in Worktrees /\ WellFormed(tree)
    /\ saved.tree \in Worktrees /\ saved.hidden \in Policies
    /\ \A r \in Restores :
         /\ DOMAIN record[r] \subseteq Paths
         /\ \A p \in DOMAIN record[r] : record[r][p] \in Nodes
         /\ outcome[r] \in Outcomes
         /\ log[r].base \in Worktrees /\ log[r].final \in Worktrees
    /\ active \in Restores \cup {Nobody} /\ pc \in Steps /\ (pc = "idle" <=> active = Nobody)
    /\ seen \in Worktrees /\ front \subseteq Hidden
    /\ Planned \subseteq Paths
    /\ \A p \in Planned : plan[p] \in [current : Nodes, desired : Nodes]
    /\ todo \subseteq Planned /\ raced \subseteq Paths
    /\ (pc \in {"remove", "put"} => at \in todo) /\ (pc = "commit" => at = Nobody)
    /\ changed \in BOOLEAN /\ incomplete \in BOOLEAN
    /\ stop \in {"none", "mismatch", "io", "cancelled"}

Finished(r) == outcome[r] \notin {"none", "running"}

(* restore.md:148: it "reports a conflict instead of overwriting work no     *)
(* evidence describes".  What a restore removes or replaces is in its        *)
(* published record as it was, unless somebody wrote it after the last look. *)
NothingIsLost ==
    [][\A p \in Paths :
           tree[p] \notin {"absent", tree'[p]} /\ edits' = edits /\ p \notin raced =>
               p \in DOMAIN record[active] /\ record[active][p] = tree[p]]_vars

(* What a restore may leave at a path besides its operation's result: the    *)
(* directories it had to make above what it wrote.                           *)
MadeAbove(r, p) ==
    /\ log[r].base[p] = "absent" /\ log[r].final[p] = "dir"
    /\ p \notin DOMAIN record[r]
    /\ \E q \in Below(p) : q \in DOMAIN record[r] /\ Want(log[r].source, q) # "absent"

(* outcome.go:14-38: the outcomes say what became of the worktree.  If nobody  *)
(* else wrote: applied means every operation holds and nothing else moved,   *)
(* partial that each path is as before, as wanted, or gone on the way, an    *)
(* error that at most directories were made, and all others that the         *)
(* worktree is as it was.                                                    *)
HonestAt(r, p) ==
    LET before == log[r].base[p]
        after == log[r].final[p]
        covered == p \in DOMAIN record[r]
        wanted == Want(log[r].source, p)
    IN /\ outcome[r] = "applied" =>
            IF covered THEN after = wanted ELSE after = before \/ MadeAbove(r, p)
       /\ outcome[r] \in {"partial", "dead"} =>
            \/ after = before \/ MadeAbove(r, p)
            \/ covered /\ after \in {wanted, "absent"}
       /\ outcome[r] = "error" =>
            \/ after = before \/ MadeAbove(r, p)
            \/ record[r] = NoRecord /\ before = "absent" /\ after = "dir"
       /\ outcome[r] \in {"refused", "no-op", "conflict", "cancelled"} => after = before

OutcomesAreHonest ==
    \A r \in Restores : Finished(r) /\ ~log[r].edited => \A p \in Paths : HonestAt(r, p)

(* A file or a link stands above something restore r wants to write, and r   *)
(* does not make it a directory: it lies above the selection, or outside of  *)
(* what a record covers.                                                     *)
Obstructed(r) ==
    \E p \in Selected(log[r].selection) :
        /\ Want(log[r].source, p) # "absent"
        /\ \E a \in Above(p) :
             /\ log[r].base[a] \in Leaves
             /\ a \notin Selected(log[r].selection) \/ Want(log[r].source, a) # "dir"

(* It was asked for something the checkpoint does not have, below a file.    *)
AskedBelowFile(r) ==
    /\ log[r].source = "checkpoint"
    /\ \E p \in log[r].selection :
         /\ \A q \in Selected({p}) : saved.tree[q] = "absent"
         /\ BelowFile(log[r].base, p)

Hampered(r) == Obstructed(r) \/ AskedBelowFile(r)

(* restore.md:88-92: what would stop an apply blocks it first.  Without      *)
(* interference no operation of a plan stands in the way of another one, and *)
(* only an obstruction is left to the commit to meet; the plan itself fails  *)
(* only over an operand it cannot ask about.                                 *)
QuietApplySucceeds ==
    \A r \in Restores :
        Finished(r) /\ ~log[r].edited /\ ~log[r].faulted /\ ~Hampered(r) =>
            outcome[r] \in {"refused", "no-op", "applied", "dead"}

(* The outcomes are what they say, and "applied" whenever nothing interfered. *)
OutcomesAreRight == OutcomesAreHonest /\ QuietApplySucceeds

(* Restore u takes back all of restore r, and nothing happened in between.   *)
Undoes(u, r) ==
    /\ log[u].source = r /\ ~log[u].edited /\ ~log[u].faulted /\ ~log[r].edited
    /\ log[u].base = log[r].final
    /\ DOMAIN record[r] \subseteq Selected(log[u].selection)
    /\ \A p \in log[u].selection : DOMAIN record[r] \cap Selected({p}) # {}

BroughtBack(u, r) ==
    /\ outcome[u] \in {"applied", "no-op"}
    /\ \A p \in Paths : log[u].final[p] = log[r].base[p] \/ MadeAbove(r, p)

(* Restore r wrote where the rules hide it, or a link over a directory with  *)
(* something in it.                                                          *)
OutOfReach(r) ==
    \E p \in DOMAIN record[r] :
        \/ p \in Hidden
        \/ Want(log[r].source, p) \in Links /\ DOMAIN record[r] \cap Below(p) # {}

(* restore.md:128: the record "durably records the exact current state it    *)
(* may replace or delete".  Whatever r did before it ended or died, its undo *)
(* goes through and brings everything back, unless r wrote out of its reach. *)
UndoBringsBack ==
    \A u, r \in Restores :
        Finished(u) /\ outcome[u] # "dead" /\ Undoes(u, r) /\ ~OutOfReach(r) =>
            BroughtBack(u, r)

-----------------------------------------------------------------------------
(* The inductive invariant behind NothingIsLost (RestoreApplyProofs).        *)
Shape ==
    /\ tree = [p \in Paths |-> tree[p]] /\ record = [r \in Restores |-> record[r]]
    /\ edits \in Nat
    /\ active \in Restores \cup {Nobody} /\ (pc = "idle" <=> active = Nobody)
    /\ Planned \subseteq Paths /\ todo \subseteq Planned
    /\ pc \in {"idle", "plan", "stage", "capture", "revalidate"} => todo = {}

(* From its publication on, the record is what the plan was made from. *)
RecordCoversPlan ==
    pc \in {"revalidate", "commit", "remove", "put", "finish"} => record[active] = Captured

(* Past its guard a path holds what was planned from, or already nothing. *)
GuardHolds ==
    pc \in {"remove", "put"} =>
        at \in todo /\ (at \in raced \/ tree[at] \in {"absent", Current(at)})

IInv == Shape /\ RecordCoversPlan /\ GuardHolds

-----------------------------------------------------------------------------
(* The inductive invariant behind OutcomesAreRight (RestoreApplyProofs).     *)
Preparing == {"plan", "stage", "capture", "revalidate"}
During == {"commit", "remove", "put", "finish"}
Decision == {"stage", "capture", "revalidate"} \cup During

Log == [source : Restores \cup {"checkpoint", Nobody}, selection : SUBSET Paths,
        base : Worktrees, final : Worktrees, edited : BOOLEAN, faulted : BOOLEAN]

(* A restore takes its source from one that has ended, and no record holds   *)
(* something below what is not a directory.                                  *)
RecordFits(r) ==
    \A p \in DOMAIN record[r] :
        /\ p \in Paths /\ record[r][p] \in Nodes
        /\ record[r][p] # "absent" => \A a \in Above(p) \cap DOMAIN record[r] : record[r][a] = "dir"

SourceHasEnded(r) ==
    \/ log[r].source = "checkpoint"
    \/ log[r].source \in Restores /\ Finished(log[r].source)

HistoryInv ==
    /\ log \in [Restores -> Log] /\ outcome \in [Restores -> Outcomes]
    /\ \A r \in Restores :
         /\ outcome[r] = "running" <=> r = active
         /\ IF outcome[r] = "none" THEN record[r] = NoRecord ELSE SourceHasEnded(r)
         /\ RecordFits(r)

TreeInv ==
    /\ tree \in Worktrees /\ WellFormed(tree)
    /\ saved.tree \in Worktrees /\ WellFormed(saved.tree)
    /\ active # Nobody => WellFormed(log[active].base)
    /\ pc \in {"remove", "put"} => \A a \in Above(at) : a \in raced \/ tree[a] = "dir"

(* The plan is the one difference between what was observed and is wanted.   *)
PlanInv ==
    /\ pc # "idle" =>
         /\ seen = Observe(log[active].base, Hidden)
         /\ front = {p \in Hidden : log[active].base[p] # "absent"}
    /\ pc \in Decision =>
         /\ Candidates # {}
         /\ plan = [p \in Candidates |-> [current |-> seen[p], desired |-> Desired(p)]]

(* What has been done had its turn before all that is left. *)
OrderInv ==
    /\ pc \in {"idle", "plan", "stage", "capture", "revalidate"} => at = Nobody /\ raced = {}
    /\ pc \in During =>
         /\ \A p \in Planned \ todo, q \in todo : Precedes(p, q)
         /\ ~changed => todo = Planned
    /\ pc \in {"remove", "put"} => Turn(at)
    /\ pc = "remove" => Goal(at) = "absent" \/ InTheWay(at)
    /\ pc = "put" => Goal(at) # "absent"
    /\ changed \in BOOLEAN /\ pc \in Steps

Made(p) ==
    /\ log[active].base[p] = "absent" /\ tree[p] = "dir"
    /\ \E q \in Below(p) : q \in Planned /\ Goal(q) # "absent"

(* Of a restore nobody has interfered with: the plan is about the worktree,  *)
(* a directory it takes away is emptied by it, and every path is as it was,  *)
(* as it was wanted, or a directory made on the way.                         *)
PlanIsTrue ==
    \A p \in Planned :
        /\ Current(p) = log[active].base[p]
        /\ Current(p) = "dir" /\ Goal(p) # "dir" =>
             \A q \in Below(p) :
                 IF q \in Planned THEN Goal(q) = "absent" ELSE log[active].base[q] = "absent"

HalfWay ==
    /\ \A p \in Planned \ todo : tree[p] = Goal(p)
    /\ \A p \in todo :
         \/ tree[p] = Current(p)
         \/ changed /\ pc = "put" /\ p = at /\ InTheWay(p)
         \/ changed /\ pc = "finish" /\ tree[p] = "absent"
    /\ \A p \in Paths \ Planned : tree[p] = log[active].base[p] \/ Made(p)
    /\ pc = "put" /\ InTheWay(at) => tree[at] = "absent"
    /\ ~changed /\ (pc \in {"commit", "remove"} \/ (pc = "finish" /\ stop # "io")) =>
         tree = log[active].base
    /\ pc = "finish" /\ ~log[active].faulted /\ ~Obstructed(active) => todo = {}

CalmInv ==
    active # Nobody /\ ~log[active].edited =>
        /\ raced = {}
        /\ pc \in Preparing => tree = log[active].base
        /\ pc \in Decision => PlanIsTrue
        /\ pc \in During => HalfWay

OutcomeInv == HistoryInv /\ TreeInv /\ PlanInv /\ OrderInv /\ CalmInv /\ OutcomesAreRight

-----------------------------------------------------------------------------
(* The inductive invariant behind UndoBringsBack (RestoreApplyProofs).       *)
SeenBy(r) == Observe(log[r].base, Hidden)
ScopeOf(r) == IF log[r].source = "checkpoint" THEN Paths ELSE DOMAIN record[log[r].source]
CandidatesOf(r) ==
    {p \in Selected(log[r].selection) \cap ScopeOf(r) : Want(log[r].source, p) # SeenBy(r)[p]}

(* A record is of all that restore r planned.  It took a directory away only *)
(* with all there was in it, and reached nothing through a link.             *)
RecordIsWhole(r) ==
    /\ record[r] = [p \in CandidatesOf(r) |-> SeenBy(r)[p]]
    /\ \A p \in DOMAIN record[r] :
         /\ record[r][p] = "dir" =>
              \A q \in Below(p) : q \in DOMAIN record[r] \/ SeenBy(r)[q] = "absent"
         /\ ~log[r].edited =>
              record[r][p] = log[r].base[p] /\ \A a \in Above(p) : log[r].base[a] \notin Links

(* What the end of restore r says of its plan. *)
PlanWasRight(r) ==
    /\ outcome[r] = "no-op" => CandidatesOf(r) = {}
    /\ outcome[r] = "applied" => record[r] # NoRecord
    /\ outcome[r] = "refused" /\ ~log[r].edited /\ ~log[r].faulted =>
         \A x \in Restores : Undoes(r, x) => OutOfReach(x)

PlanIsWhole ==
    pc \in Decision =>
        \A p \in Planned :
            /\ Current(p) = "dir" => \A q \in Below(p) : q \in Planned \/ seen[q] = "absent"
            /\ ~log[active].edited => \A a \in Above(p) : log[active].base[a] \notin Links

UndoInv ==
    /\ \A r \in Restores :
         /\ WellFormed(log[r].base)
         /\ record[r] # NoRecord => RecordIsWhole(r)
         /\ PlanWasRight(r)
         /\ outcome[r] # "none" /\ log[r].source \in Restores => record[log[r].source] # NoRecord
    /\ PlanIsWhole
=============================================================================
