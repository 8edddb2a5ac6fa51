--------------------------- MODULE NowObservation ---------------------------
(* How the provider observes the worktree as it is now                       *)
(* (internal/app/stateprovider): two full scans that must agree.  A scan     *)
(* lists the directory, then stats and reads one file at a time, while       *)
(* editors go on; a file seen to move between its stat and its read ends the *)
(* observation, everything else has to show in the comparison of the scans.  *)
(* A content stands for a file with its stat; the folder is flat.            *)

CONSTANTS Files,       \* the names within scope
          Contents,
          Unreadable,  \* those of them whose file cannot be opened
          Absent,
          Worktrees    \* what may be there at the beginning

ASSUME NowAssumption ==
    /\ Unreadable \subseteq Contents
    /\ Absent \notin Contents
    /\ Worktrees \subseteq [Files -> Contents \cup {Absent}]

None == "none"

Nodes == Contents \cup {Absent}

(* What a scan records of a file.  A skipped input keeps the stat, which     *)
(* identifies the content.                                                   *)
Entries == [kind : {"none", "file", "skip"}, node : Nodes]

NoEntry == [kind |-> "none", node |-> Absent]
FileEntry(n) == [kind |-> "file", node |-> n]
SkipEntry(n) == [kind |-> "skip", node |-> n]

EntryOf(n) == IF n = Absent THEN NoEntry
              ELSE IF n \in Unreadable THEN SkipEntry(n) ELSE FileEntry(n)

VARIABLES
    worktree,  \* file -> what is there
    step,      \* "idle", "list", "walk", "agreed" or "failed"
    pass,      \* the scan under way, 1 or 2
    listed,    \* names the walk has not come to yet
    current,   \* the file the walk is at with the content it had, or {}
    seen,      \* file -> what this scan recorded
    first,     \* file -> what the first scan recorded
    failure,   \* why there is no observation
    between,   \* auxiliary: the worktree between the two scans
    past,      \* auxiliary: file -> what it has been and ceased to be since the start
    early,     \* auxiliary: past, between the two scans
    returned   \* auxiliary: a file became again what it had been

scan == <<step, pass, listed, current, seen, first, failure>>
aux == <<between, past, early, returned>>
nowVars == <<worktree, scan, aux>>

NowTypeOK ==
    /\ worktree \in [Files -> Nodes]
    /\ step \in {"idle", "list", "walk", "agreed", "failed"}
    /\ pass \in {1, 2}
    /\ listed \subseteq Files
    /\ current \subseteq [file : Files, node : Contents]
    /\ seen \in [Files -> Entries]
    /\ first \in [Files -> Entries]
    /\ failure \in {None, "observation-unstable", "not-found"}
    /\ between \in [Files -> Nodes]
    /\ past \in [Files -> SUBSET Nodes]
    /\ early \in [Files -> SUBSET Nodes]
    /\ returned \in BOOLEAN

Nothing == [f \in Files |-> NoEntry]

NowInit ==
    /\ worktree \in Worktrees
    /\ step = "idle" /\ pass = 1
    /\ listed = {} /\ current = {}
    /\ seen = Nothing /\ first = Nothing
    /\ failure = None
    /\ between = [f \in Files |-> Absent]
    /\ past = [f \in Files |-> {}] /\ early = [f \in Files |-> {}]
    /\ returned = FALSE

Forget ==
    /\ listed' = {} /\ current' = {}
    /\ seen' = Nothing /\ first' = Nothing
    /\ between' = [f \in Files |-> Absent]
    /\ past' = [f \in Files |-> {}] /\ early' = [f \in Files |-> {}]
    /\ returned' = FALSE

Begin ==
    /\ step = "idle"
    /\ step' = "list" /\ pass' = 1
    /\ failure' = None
    /\ Forget
    /\ UNCHANGED worktree

List ==
    /\ step = "list"
    /\ step' = "walk"
    /\ listed' = {f \in Files : worktree[f] # Absent}
    /\ seen' = Nothing
    /\ UNCHANGED <<worktree, pass, current, first, failure, aux>>

Fail(reason) ==
    /\ step' = "failed"
    /\ failure' = reason
    /\ listed' = {} /\ current' = {}
    /\ UNCHANGED <<worktree, pass, seen, first, aux>>

Stat(f) ==
    /\ step = "walk" /\ current = {}
    /\ f \in listed
    /\ worktree[f] # Absent
    /\ current' = {[file |-> f, node |-> worktree[f]]}
    /\ listed' = listed \ {f}
    /\ UNCHANGED <<worktree, step, pass, seen, first, failure, aux>>

(* The entry is gone before its stat: the scan fails with the stat's error,  *)
(* which the provider takes for a reference that names nothing.              *)
Vanish(f) ==
    /\ step = "walk" /\ current = {}
    /\ f \in listed
    /\ worktree[f] = Absent
    /\ Fail("not-found")

Record(f, entry) ==
    /\ seen' = [seen EXCEPT ![f] = entry]
    /\ current' = {}
    /\ UNCHANGED <<worktree, step, pass, listed, first, failure, aux>>

(* The worktree index knows the hash of a file with this stat.               *)
Reuse(c) ==
    /\ step = "walk"
    /\ c \in current
    /\ c.node \notin Unreadable
    /\ Record(c.file, FileEntry(c.node))

Read(c) ==
    /\ step = "walk"
    /\ c \in current
    /\ c.node \notin Unreadable
    /\ worktree[c.file] = c.node
    /\ Record(c.file, FileEntry(c.node))

(* The open fails: a skipped input, even if the file is merely gone.         *)
Skip(c) ==
    /\ step = "walk"
    /\ c \in current
    /\ worktree[c.file] \in Unreadable \cup {Absent}
    /\ Record(c.file, SkipEntry(c.node))

Moved(c) ==
    /\ step = "walk"
    /\ c \in current
    /\ worktree[c.file] \notin Unreadable \cup {Absent, c.node}
    /\ Fail("observation-unstable")

EndFirstScan ==
    /\ step = "walk" /\ pass = 1
    /\ listed = {} /\ current = {}
    /\ step' = "list" /\ pass' = 2
    /\ first' = seen
    /\ between' = worktree
    /\ early' = past
    /\ UNCHANGED <<worktree, listed, current, seen, failure, past, returned>>

(* Mutated: each scan has its own guard against moving files, so the second  *)
(* one need not agree with the first.                                        *)
EndSecondScanAlone ==
    /\ step = "walk" /\ pass = 2
    /\ listed = {} /\ current = {}
    /\ step' = "agreed"
    /\ UNCHANGED <<worktree, pass, listed, current, seen, first, failure, aux>>

EndSecondScan ==
    /\ step = "walk" /\ pass = 2
    /\ listed = {} /\ current = {}
    /\ IF seen = first
         THEN /\ step' = "agreed"
              /\ UNCHANGED <<worktree, pass, listed, current, seen, first, failure, aux>>
         ELSE Fail("observation-unstable")

Scan ==
    \/ List \/ EndFirstScan \/ EndSecondScan
    \/ \E f \in listed : Stat(f) \/ Vanish(f)
    \/ \E c \in current : Reuse(c) \/ Read(c) \/ Skip(c) \/ Moved(c)

(* The caller has taken the outcome, and the scans are closed.               *)
Collect ==
    /\ step \in {"agreed", "failed"}
    /\ step' = "idle" /\ pass' = 1
    /\ failure' = None
    /\ Forget
    /\ UNCHANGED worktree

Edit(f, n) ==
    /\ worktree[f] # n
    /\ worktree' = [worktree EXCEPT ![f] = n]
    /\ IF step = "idle"
         THEN UNCHANGED aux
         ELSE /\ past' = [past EXCEPT ![f] = @ \cup {worktree[f]}]
              /\ returned' = (returned \/ n \in past[f])
              /\ UNCHANGED <<between, early>>
    /\ UNCHANGED scan

NowNext ==
    \/ Begin \/ Scan \/ Collect
    \/ \E f \in Files, n \in Nodes : Edit(f, n)

NowSpec == NowInit /\ [][NowNext]_nowVars

-----------------------------------------------------------------------------
(* Unless a file was changed and changed back meanwhile, an observation the  *)
(* provider publishes is the worktree of one moment: the one between the two *)
(* scans (resolveStableNow: "proving a consistent point-in-time              *)
(* observation").                                                            *)
NowIsAMoment ==
    step = "agreed" /\ ~returned => \A f \in Files : seen[f] = EntryOf(between[f])
=============================================================================
