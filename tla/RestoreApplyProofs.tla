------------------------ MODULE RestoreApplyProofs --------------------------
(* For any worktree, any number of restores and any number of foreign        *)
(* writes: a restore destroys nothing its record does not hold, what it      *)
(* reports is what became of the worktree, and its undo brings back what it  *)
(* changed.                                                                  *)
EXTENDS RestoreApply, TLAPS

(* A path is not above itself. *)
LEMMA NotAboveItself == ASSUME NEW p \in Paths PROVE p \notin Above(p)
<1>1. p \in Seq(STRING)
  BY PathsAssumption
<1>2. ASSUME NEW n \in 1 .. Len(p) - 1 PROVE SubSeq(p, 1, n) # p
  <2>1. n \in Nat /\ n < Len(p) /\ Len(p) \in Nat
    BY <1>1
  <2>2. Len(SubSeq(p, 1, n)) = n
    BY <1>1, <2>1
  <2> QED
    BY <2>1, <2>2
<1> QED
  BY <1>2 DEF Above

LEMMA InitInv == Init => IInv
  BY DEF Init, IInv, Shape, RecordCoversPlan, GuardHolds, Planned, NoPlan, NoRecord, Worktrees

(* Restores that end leave nothing open. *)
LEMMA EndWithInv ==
    ASSUME IInv, NEW x, EndWith(x),
           record' = [r \in Restores |-> record'[r]]
    PROVE  IInv'
  BY DEF IInv, Shape, RecordCoversPlan, GuardHolds, Planned, EndWith, NoPlan, world

LEMMA LeaveInv == ASSUME IInv, NEW x, Leave(x) PROVE IInv'
<1>1. record' = [r \in Restores |-> record'[r]]
  BY DEF IInv, Shape, Leave
<1> QED
  BY <1>1, EndWithInv DEF Leave

LEMMA LeaveFaultedInv == ASSUME IInv, NEW x, LeaveFaulted(x) PROVE IInv'
<1>1. record' = [r \in Restores |-> record'[r]]
  BY DEF IInv, Shape, LeaveFaulted
<1> QED
  BY <1>1, EndWithInv DEF LeaveFaulted

LEMMA DropRecoveryInv == ASSUME IInv, NEW x, DropRecovery(x) PROVE IInv'
<1>1. CASE LeaveFaulted("error")
  BY <1>1, LeaveFaultedInv
<1>2. CASE EndWith(x) /\ record' = [record EXCEPT ![active] = NoRecord]
  <2>1. record' = [r \in Restores |-> record'[r]]
    BY <1>2 DEF IInv, Shape
  <2> QED
    BY <1>2, <2>1, EndWithInv
<1> QED
  BY <1>1, <1>2 DEF DropRecovery

LEMMA EditInv == ASSUME IInv, Edit PROVE IInv'
<1>1. PICK p \in Paths, n \in Nodes :
         /\ tree' = [tree EXCEPT ![p] = n]
         /\ raced' = IF at = Nobody THEN {} ELSE raced \cup {p}
  BY DEF Edit
<1>2. /\ edits' = edits + 1
      /\ UNCHANGED <<record, active, pc, plan, todo, at>>
  BY DEF Edit, session
<1>3. Shape'
  BY <1>1, <1>2 DEF IInv, Shape, Planned
<1>4. RecordCoversPlan'
  BY <1>2 DEF IInv, RecordCoversPlan, Captured, Planned, Current
<1>5. GuardHolds'
  <2> SUFFICES ASSUME pc \in {"remove", "put"}
               PROVE  at \in todo /\ (at \in raced' \/ tree'[at] \in {"absent", Current(at)})
    BY <1>2 DEF GuardHolds, Current
  <2>1. at \in todo /\ at \in Paths /\ (at \in raced \/ tree[at] \in {"absent", Current(at)})
    BY DEF IInv, Shape, GuardHolds
  <2>2. at # Nobody
    BY <2>1, OthersAssumption
  <2>3. raced' = raced \cup {p}
    BY <1>1, <2>2
  <2>4. at = p \/ tree'[at] = tree[at]
    BY <1>1, <2>1 DEF IInv, Shape
  <2> QED
    BY <2>1, <2>3, <2>4
<1> QED
  BY <1>3, <1>4, <1>5 DEF IInv

LEMMA BeginInv == ASSUME IInv, NEW r \in Restores, Begin(r) PROVE IInv'
  BY OthersAssumption
     DEF Begin, IInv, Shape, RecordCoversPlan, GuardHolds, Planned, Current, world, commit

LEMMA MakePlanInv == ASSUME IInv, MakePlan PROVE IInv'
<1>1. CASE Leave("refused")
  BY <1>1, LeaveInv
<1>2. CASE Leave("no-op") \/ Leave("error")
  BY <1>2, LeaveInv
<1>3. CASE /\ pc = "plan" /\ pc' = "stage"
           /\ plan' = [p \in Candidates |-> [current |-> seen[p], desired |-> Desired(p)]]
           /\ UNCHANGED <<world, record, active, commit>>
  <2>1. Candidates \subseteq Paths
    BY DEF Candidates, Decided, Selected
  <2>2. Planned' = Candidates
    BY <1>3 DEF Planned
  <2>3. Shape'
    BY <1>3, <2>1, <2>2 DEF IInv, Shape, world, commit
  <2> QED
    BY <1>3, <2>3 DEF IInv, RecordCoversPlan, GuardHolds
<1> QED
  BY <1>1, <1>2, <1>3 DEF MakePlan

LEMMA StageAllInv == ASSUME IInv, StageAll PROVE IInv'
<1>1. CASE LeaveFaulted("refused")
  BY <1>1, LeaveFaultedInv
<1>2. CASE pc = "stage" /\ pc' = "capture" /\ UNCHANGED <<world, record, active, session, commit>>
  BY <1>2 DEF IInv, Shape, RecordCoversPlan, GuardHolds, Planned, world, session, commit
<1> QED
  BY <1>1, <1>2 DEF StageAll

LEMMA PublishRecoveryInv == ASSUME IInv, PublishRecovery PROVE IInv'
<1>1. CASE Leave("refused")
  BY <1>1, LeaveInv
<1>2. CASE /\ pc = "capture" /\ pc' = "revalidate"
           /\ record' = [record EXCEPT ![active] = Captured]
           /\ UNCHANGED <<world, active, session, commit>>
  <2>1. active \in Restores
    BY <1>2 DEF IInv, Shape
  <2>2. Captured' = Captured
    BY <1>2 DEF Captured, Planned, Current, session
  <2>3. RecordCoversPlan'
    BY <1>2, <2>1, <2>2 DEF IInv, Shape, RecordCoversPlan
  <2> QED
    BY <1>2, <2>1, <2>3 DEF IInv, Shape, GuardHolds, Planned, world, session, commit
<1> QED
  BY <1>1, <1>2 DEF PublishRecovery

LEMMA RevalidateInv == ASSUME IInv, Revalidate PROVE IInv'
<1>1. CASE DropRecovery("conflict")
  BY <1>1, DropRecoveryInv
<1>2. CASE /\ pc = "revalidate" /\ todo' = Planned /\ pc' = "commit"
           /\ UNCHANGED <<world, record, active, session>>
  BY <1>2 DEF IInv, Shape, RecordCoversPlan, GuardHolds, Captured, Planned, Current, world, session
<1> QED
  BY <1>1, <1>2 DEF Revalidate

LEMMA GiveUpInv == ASSUME IInv, GiveUp PROVE IInv'
<1>1. CASE LeaveFaulted("error")
  BY <1>1, LeaveFaultedInv
<1>2. CASE /\ EndWith("error")
           /\ record' \in {record, [record EXCEPT ![active] = NoRecord]}
  <2>1. record' = [r \in Restores |-> record'[r]]
    BY <1>2 DEF IInv, Shape
  <2> QED
    BY <1>2, <2>1, EndWithInv
<1> QED
  BY <1>1, <1>2 DEF GiveUp

(* Making parents only fills paths that hold nothing. *)
LEMMA ParentsFill ==
    ASSUME NEW p, NEW q \in Paths
    PROVE  WithParents(p)[q] = tree[q] \/ tree[q] = "absent"
  BY DEF WithParents

(* A step that changes no more than the tree, the reason and the state. *)
LEMMA StopInv ==
    ASSUME IInv, NEW reason, StopWith(reason), tree' = [p \in Paths |-> tree'[p]],
           pc \in {"commit", "remove", "put"}
    PROVE  IInv'
  BY DEF StopWith, IInv, Shape, RecordCoversPlan, GuardHolds, Captured, Planned, Current, session

LEMMA GuardInv == ASSUME IInv, NEW p \in todo, Guard(p) PROVE IInv'
<1> DEFINE opened == IF Goal(p) # "absent" THEN WithParents(p) ELSE tree
<1>1. opened = [q \in Paths |-> opened[q]] /\ tree = [q \in Paths |-> tree[q]]
  BY DEF WithParents, IInv, Shape
<1>2. pc = "commit" /\ p \in Paths
  BY DEF Guard, IInv, Shape
<1>3. ASSUME NEW reason, StopWith(reason), tree' \in {tree, opened} PROVE IInv'
  <2>1. tree' = [q \in Paths |-> tree'[q]]
    BY <1>1, <1>3
  <2> QED
    BY <1>2, <1>3, <2>1, StopInv
<1>4. CASE /\ AsPlanned(p) /\ tree' = opened /\ at' = p
           /\ pc' \in {"remove", "put"}
           /\ UNCHANGED <<saved, edits, record, active, session, todo>>
  <2>1. p \notin Above(p)
    BY <1>2, NotAboveItself
  <2>2. opened[p] = tree[p]
    BY <1>2, <2>1 DEF WithParents
  <2>3. tree'[p] = Current(p)
    BY <1>4, <2>2 DEF AsPlanned
  <2>4. Shape'
    BY <1>1, <1>2, <1>4 DEF IInv, Shape, Planned, session
  <2>5. RecordCoversPlan'
    BY <1>2, <1>4 DEF IInv, RecordCoversPlan, Captured, Planned, Current, session
  <2>6. GuardHolds'
    BY <1>4, <2>3 DEF GuardHolds, Current, session
  <2> QED
    BY <2>4, <2>5, <2>6 DEF IInv
<1>5. CASE \/ StopWith("mismatch") /\ (tree' = tree \/ tree' = opened)
           \/ StopWith("io") /\ (tree' = tree \/ tree' = opened)
  BY <1>3, <1>5
<1> HIDE DEF opened
<1> QED
  <2>1. \/ StopWith("mismatch") /\ (tree' = tree \/ tree' = opened)
        \/ StopWith("io") /\ (tree' = tree \/ tree' = opened)
        \/ /\ AsPlanned(p) /\ tree' = opened /\ at' = p
           /\ pc' \in {"remove", "put"}
           /\ UNCHANGED <<saved, edits, record, active, session, todo>>
    BY DEF Guard, opened
  <2> QED
    BY <1>4, <1>5, <2>1

LEMMA RemoveInv == ASSUME IInv, Remove PROVE IInv'
<1>1. pc = "remove" /\ at \in todo /\ at \in Paths
  BY DEF Remove, IInv, Shape, GuardHolds
<1>2. CASE tree' = [tree EXCEPT ![at] = "absent"] /\ Done(at)
  BY <1>1, <1>2 DEF Done, IInv, Shape, RecordCoversPlan, GuardHolds, Captured, Planned, Current,
                    session
<1>3. CASE /\ tree' = [tree EXCEPT ![at] = "absent"] /\ pc' = "put"
           /\ UNCHANGED <<edits, record, active, session, todo, at, raced>>
  BY <1>1, <1>3 DEF IInv, Shape, RecordCoversPlan, GuardHolds, Captured, Planned, Current, session
<1>4. ASSUME NEW reason, StopWith(reason), tree' = tree PROVE IInv'
  <2>1. tree' = [q \in Paths |-> tree'[q]]
    BY <1>4 DEF IInv, Shape
  <2> QED
    BY <1>1, <1>4, <2>1, StopInv
<1> QED
  BY <1>2, <1>3, <1>4 DEF Remove

LEMMA PutInv == ASSUME IInv, Put PROVE IInv'
<1>1. pc = "put" /\ at \in todo /\ at \in Paths
  BY DEF Put, IInv, Shape, GuardHolds
<1>2. CASE /\ tree' = [tree EXCEPT ![at] = Goal(at)] /\ todo' = todo \ {at} /\ pc' = "commit"
           /\ UNCHANGED <<edits, record, active, session>>
  BY <1>1, <1>2 DEF IInv, Shape, RecordCoversPlan, GuardHolds, Captured, Planned, Current, session
<1>3. ASSUME NEW reason, StopWith(reason), tree' = tree PROVE IInv'
  <2>1. tree' = [q \in Paths |-> tree'[q]]
    BY <1>3 DEF IInv, Shape
  <2> QED
    BY <1>1, <1>3, <2>1, StopInv
<1> QED
  BY <1>2, <1>3 DEF Put

LEMMA CancelInv == ASSUME IInv, Cancel PROVE IInv'
<1>1. tree' = [q \in Paths |-> tree'[q]]
  BY DEF Cancel, IInv, Shape
<1> QED
  BY <1>1, StopInv DEF Cancel

LEMMA EndPassesInv == ASSUME IInv, EndPasses PROVE IInv'
  BY DEF EndPasses, IInv, Shape, RecordCoversPlan, GuardHolds, Captured, Planned, Current, world,
         session, commit

LEMMA FinishCommitInv == ASSUME IInv, FinishCommit PROVE IInv'
  BY LeaveInv, DropRecoveryInv DEF FinishCommit

LEMMA CrashInv == ASSUME IInv, Crash PROVE IInv'
  BY LeaveInv DEF Crash

LEMMA StutterInv == ASSUME IInv, UNCHANGED vars PROVE IInv'
  BY DEF vars, IInv, Shape, RecordCoversPlan, GuardHolds, Captured, Planned, Current, world,
         session, commit

(* The inductive invariant holds for any paths, contents and restores. *)
THEOREM Invariance == Spec => []IInv
<1>1. Init => IInv
  BY InitInv
<1>2. IInv /\ [Next]_vars => IInv'
  BY EditInv, BeginInv, MakePlanInv, StageAllInv, PublishRecoveryInv, RevalidateInv, GiveUpInv,
     GuardInv, RemoveInv, PutInv, CancelInv, EndPassesInv, FinishCommitInv, CrashInv, StutterInv
     DEF Next
<1> QED
  BY <1>1, <1>2, PTL DEF Spec

(* What a step takes from a path is in the record. *)
LEMMA StepLosesNothing ==
    ASSUME IInv, Next, NEW p \in Paths,
           tree[p] \notin {"absent", tree'[p]}, edits' = edits, p \notin raced
    PROVE  p \in DOMAIN record[active] /\ record[active][p] = tree[p]
<1>1. tree = [q \in Paths |-> tree[q]] /\ edits \in Nat /\ todo \subseteq Planned
  BY DEF IInv, Shape
<1>2. tree' # tree
  OBVIOUS
<1>3. ~Edit
  BY <1>1 DEF Edit
<1>4. ASSUME NEW q \in todo, Guard(q) PROVE FALSE
  <2>1. tree' \in {tree, WithParents(q)}
    BY <1>4 DEF Guard
  <2> QED
    BY <2>1, ParentsFill
<1>5. CASE Remove
  <2>1. p = at /\ Removable(at)
    BY <1>1, <1>5 DEF Remove
  <2>2. tree[at] = Current(at)
    BY <1>5, <2>1 DEF IInv, GuardHolds, Remove
  <2>3. record[active] = Captured /\ at \in Planned
    BY <1>1, <1>5 DEF IInv, RecordCoversPlan, GuardHolds, Remove
  <2> QED
    BY <2>1, <2>2, <2>3 DEF Captured
<1>6. CASE Put
  <2>1. p = at
    BY <1>1, <1>6 DEF Put
  <2>2. tree[at] = Current(at)
    BY <1>6, <2>1 DEF IInv, GuardHolds, Put
  <2>3. record[active] = Captured /\ at \in Planned
    BY <1>1, <1>6 DEF IInv, RecordCoversPlan, GuardHolds, Put
  <2> QED
    BY <2>1, <2>2, <2>3 DEF Captured
<1>7. ASSUME NEW x, EndWith(x) PROVE FALSE
  BY <1>2, <1>7 DEF EndWith, world
<1>8. ~(\E r \in Restores : Begin(r)) /\ ~MakePlan /\ ~StageAll /\ ~PublishRecovery
  BY <1>2, <1>7 DEF Begin, MakePlan, StageAll, PublishRecovery, Leave, LeaveFaulted, world
<1>9. ~Revalidate /\ ~GiveUp /\ ~Cancel /\ ~EndPasses /\ ~FinishCommit /\ ~Crash
  BY <1>2, <1>7 DEF Revalidate, GiveUp, Cancel, EndPasses, FinishCommit, Crash, DropRecovery,
                    Leave, LeaveFaulted, world
<1> QED
  BY <1>3, <1>4, <1>5, <1>6, <1>8, <1>9 DEF Next

(* Whatever a restore removes or replaces is in its record as it was, unless *)
(* somebody wrote it after the last look at it.                              *)
THEOREM NothingLost == Spec => NothingIsLost
<1>1. IInv /\ [Next]_vars =>
        [\A p \in Paths :
           tree[p] \notin {"absent", tree'[p]} /\ edits' = edits /\ p \notin raced =>
               p \in DOMAIN record[active] /\ record[active][p] = tree[p]]_vars
  BY StepLosesNothing
<1> QED
  BY <1>1, Invariance, PTL DEF Spec, NothingIsLost

-----------------------------------------------------------------------------
(* What a restore reports is what became of the worktree.                    *)

(* What stands above what stands above a path stands above it. *)
LEMMA AboveChain ==
    ASSUME NEW p \in Paths, NEW a \in Above(p)
    PROVE  /\ a \in Paths /\ Len(a) \in Nat /\ Len(p) \in Nat /\ Len(a) < Len(p)
           /\ Above(a) \subseteq Above(p)
<1>1. p \in Seq(STRING) /\ a \in Paths
  BY PathsAssumption
<1>2. PICK n \in 1 .. Len(p) - 1 : a = SubSeq(p, 1, n)
  BY DEF Above
<1>3. Len(p) \in Nat /\ n \in Nat /\ n < Len(p)
  BY <1>1
<1>4. Len(a) = n
  BY <1>1, <1>2, <1>3
<1>5. ASSUME NEW m \in 1 .. Len(a) - 1 PROVE SubSeq(a, 1, m) \in Above(p)
  <2>1. m \in 1 .. Len(p) - 1 /\ m < n
    BY <1>3, <1>4
  <2>2. SubSeq(a, 1, m) = SubSeq(p, 1, m)
    BY <1>1, <1>2, <1>3, <2>1
  <2> QED
    BY <2>1, <2>2 DEF Above
<1> QED
  BY <1>1, <1>3, <1>4, <1>5 DEF Above

LEMMA BelowAbove ==
    ASSUME NEW p \in Paths, NEW q
    PROVE  q \in Below(p) <=> q \in Paths /\ p \in Above(q)
  BY DEF Below

(* What is wanted of one source fits into itself. *)
LEMMA WantFits ==
    ASSUME HistoryInv, TreeInv, NEW s \in Restores \cup {"checkpoint"},
           NEW p \in Paths, NEW a \in Above(p),
           s # "checkpoint" => {p, a} \subseteq DOMAIN record[s],
           Want(s, p) # "absent"
    PROVE  Want(s, a) = "dir"
<1>1. a \in Paths
  BY AboveChain
<1>2. CASE s = "checkpoint"
  BY <1>1, <1>2 DEF Want, TreeInv, WellFormed
<1>3. CASE s # "checkpoint"
  BY <1>3 DEF Want, HistoryInv, RecordFits
<1> QED
  BY <1>2, <1>3

LEMMA WantIsNode ==
    ASSUME HistoryInv, TreeInv, NEW s \in Restores \cup {"checkpoint"}, NEW p \in Paths
    PROVE  Want(s, p) \in Nodes
  BY DEF Want, HistoryInv, RecordFits, TreeInv, Worktrees, Nodes

(* The source of a restore under way is not itself. *)
LEMMA SourceIsAnother ==
    ASSUME HistoryInv, NEW r \in Restores, outcome[r] # "none"
    PROVE  /\ log[r].source \in Restores \cup {"checkpoint"}
           /\ active \in Restores => log[r].source # active
  BY OthersAssumption DEF HistoryInv, SourceHasEnded, Finished

(* A step of the restore under way that does not end it. *)
Working ==
    /\ active \in Restores /\ saved' = saved /\ active' = active /\ outcome' = outcome
    /\ log' \in {log, [log EXCEPT ![active].edited = TRUE],
                      [log EXCEPT ![active].faulted = TRUE]}
    /\ \A r \in Restores \ {active} : record'[r] = record[r]

LEMMA WorkingLog ==
    ASSUME HistoryInv, Working
    PROVE  /\ log' \in [Restores -> Log]
           /\ \A r \in Restores :
                /\ log'[r].source = log[r].source /\ log'[r].selection = log[r].selection
                /\ log'[r].base = log[r].base /\ log'[r].final = log[r].final
                /\ ~log'[r].edited => ~log[r].edited
                /\ ~log'[r].faulted => ~log[r].faulted
                /\ r # active => log'[r] = log[r]
<1>1. log \in [Restores -> Log] /\ active \in Restores
  BY DEF HistoryInv, Working
<1>2. CASE log' = log
  BY <1>1, <1>2
<1>3. CASE log' = [log EXCEPT ![active].edited = TRUE]
  BY <1>1, <1>3 DEF Log
<1>4. CASE log' = [log EXCEPT ![active].faulted = TRUE]
  BY <1>1, <1>4 DEF Log
<1> QED
  BY <1>2, <1>3, <1>4 DEF Working

LEMMA WorkingWant ==
    ASSUME HistoryInv, Working, NEW r \in Restores, outcome[r] # "none", NEW p
    PROVE  Want(log[r].source, p)' = Want(log[r].source, p)
<1>1. log'[r].source = log[r].source
  BY WorkingLog
<1>2. log[r].source \in Restores \cup {"checkpoint"} /\ log[r].source # active
  BY SourceIsAnother DEF Working
<1> QED
  BY <1>1, <1>2 DEF Want, Working

LEMMA WorkingHonest ==
    ASSUME HistoryInv, OutcomesAreRight, Working PROVE OutcomesAreRight'
<1> SUFFICES ASSUME NEW r \in Restores, Finished(r)', ~log'[r].edited
             PROVE  /\ \A p \in Paths : HonestAt(r, p)'
                    /\ ~log'[r].faulted /\ ~Hampered(r)' =>
                         outcome'[r] \in {"refused", "no-op", "applied", "dead"}
  BY DEF OutcomesAreRight, OutcomesAreHonest, QuietApplySucceeds
<1>1. outcome'[r] = outcome[r] /\ Finished(r) /\ r # active /\ outcome[r] # "none"
  BY DEF Working, Finished, HistoryInv
<1>2. log'[r] = log[r] /\ record'[r] = record[r]
  BY <1>1, WorkingLog DEF Working
<1>3. \A p : Want(log[r].source, p)' = Want(log[r].source, p)
  BY <1>1, WorkingWant
<1>4. ASSUME NEW p \in Paths PROVE HonestAt(r, p)'
  <2>1. HonestAt(r, p)
    BY <1>1, <1>2 DEF OutcomesAreRight, OutcomesAreHonest
  <2>2. MadeAbove(r, p)' = MadeAbove(r, p)
    BY <1>2, <1>3 DEF MadeAbove
  <2> QED
    BY <1>1, <1>2, <1>3, <2>1, <2>2 DEF HonestAt
<1>5. Hampered(r)' = Hampered(r)
  BY <1>2, <1>3 DEF Hampered, Obstructed, AskedBelowFile, Working
<1> QED
  BY <1>1, <1>2, <1>4, <1>5 DEF OutcomesAreRight, QuietApplySucceeds

LEMMA WorkingPlan ==
    ASSUME IInv, HistoryInv, Working, NEW p
    PROVE  /\ Desired(p)' = Desired(p) /\ Source' = Source /\ Decided' = Decided
           /\ seen' = seen => Candidates' = Candidates
<1>1. outcome[active] # "none"
  BY DEF HistoryInv, Working
<1>2. Source' = Source /\ \A q : Desired(q)' = Desired(q)
  BY <1>1, WorkingWant, WorkingLog DEF Working, Source, Desired
<1>3. Source \in Restores \cup {"checkpoint"} /\ Source # active
  BY <1>1, SourceIsAnother DEF Source, Working
<1>4. InScope' = InScope
  BY <1>2, <1>3 DEF InScope, Working
<1>5. Decided' = Decided
  BY <1>4, WorkingLog DEF Decided, Working
<1> QED
  BY <1>2, <1>5 DEF Candidates

-----------------------------------------------------------------------------
(* A step that ends the restore under way. *)
Ending(x) ==
    /\ active \in Restores /\ EndWith(x) /\ x \in Outcomes \ {"none", "running"}
    /\ log' \in {[log EXCEPT ![active].final = tree],
                 [log EXCEPT ![active].final = tree, ![active].faulted = TRUE]}
    /\ record' \in {record, [record EXCEPT ![active] = NoRecord]}

LEMMA EndingLog ==
    ASSUME HistoryInv, tree \in Worktrees, NEW x, Ending(x)
    PROVE  /\ log' \in [Restores -> Log]
           /\ \A r \in Restores :
                /\ log'[r].source = log[r].source /\ log'[r].selection = log[r].selection
                /\ log'[r].base = log[r].base /\ log'[r].edited = log[r].edited
                /\ ~log'[r].faulted => ~log[r].faulted
                /\ r # active => log'[r] = log[r]
           /\ log'[active].final = tree
<1>1. log \in [Restores -> Log] /\ active \in Restores
  BY DEF HistoryInv, Ending
<1>2. CASE log' = [log EXCEPT ![active].final = tree]
  BY <1>1, <1>2 DEF Log
<1>3. CASE log' = [log EXCEPT ![active].final = tree, ![active].faulted = TRUE]
  BY <1>1, <1>3 DEF Log
<1> QED
  BY <1>2, <1>3 DEF Ending

LEMMA EndingOthers ==
    ASSUME IInv, HistoryInv, NEW x, Ending(x)
    PROVE  /\ \A r \in Restores : outcome'[r] = IF r = active THEN x ELSE outcome[r]
           /\ \A r \in Restores \ {active} : record'[r] = record[r]
           /\ record'[active] \in {record[active], NoRecord}
           /\ \A r \in Restores : Finished(r) => Finished(r)'
           /\ \A r \in Restores : \A p : outcome[r] # "none" =>
                Want(log[r].source, p) = IF log[r].source = "checkpoint" THEN saved'.tree[p]
                    ELSE IF p \in DOMAIN record'[log[r].source]
                         THEN record'[log[r].source][p] ELSE "absent"
<1>1. outcome \in [Restores -> Outcomes] /\ active \in Restores
  BY DEF HistoryInv, Ending
<1>2. \A r \in Restores : outcome'[r] = IF r = active THEN x ELSE outcome[r]
  BY <1>1 DEF Ending, EndWith
<1>3. /\ \A r \in Restores \ {active} : record'[r] = record[r]
      /\ record'[active] \in {record[active], NoRecord}
  BY <1>1 DEF Ending, IInv, Shape
<1>4. \A r \in Restores : Finished(r) => Finished(r)'
  BY <1>2 DEF Finished, Ending
<1>5. saved' = saved
  BY DEF Ending, EndWith, world
<1> QED
  BY <1>2, <1>3, <1>4, <1>5, SourceIsAnother DEF Want, Ending

LEMMA EndingWant ==
    ASSUME IInv, HistoryInv, tree \in Worktrees, NEW x, Ending(x),
           NEW r \in Restores, outcome[r] # "none", NEW p
    PROVE  Want(log[r].source, p)' = Want(log[r].source, p)
<1>1. log'[r].source = log[r].source
  BY EndingLog
<1> QED
  BY <1>1, EndingOthers DEF Want

(* Whatever ends a restore ends it for the invariants, its outcome aside. *)
LEMMA EndingKeeps ==
    ASSUME IInv, HistoryInv, TreeInv, NEW x, Ending(x)
    PROVE  HistoryInv' /\ TreeInv' /\ PlanInv' /\ OrderInv' /\ CalmInv'
<1> USE DEF TreeInv
<1>1. HistoryInv'
  <2>1. log' \in [Restores -> Log] /\ outcome' \in [Restores -> Outcomes]
    BY EndingLog DEF Ending, EndWith, HistoryInv
  <2>2. active' = Nobody /\ active \in Restores /\ x \notin {"none", "running"}
    BY DEF Ending, EndWith
  <2>3. ASSUME NEW r \in Restores PROVE outcome'[r] = "running" <=> r = active'
    BY <2>2, EndingOthers, OthersAssumption DEF HistoryInv
  <2>4. ASSUME NEW r \in Restores, outcome'[r] = "none" PROVE record'[r] = NoRecord
    BY <2>2, <2>4, EndingOthers DEF HistoryInv
  <2>5. ASSUME NEW r \in Restores, outcome'[r] # "none" PROVE SourceHasEnded(r)'
    <3>1. outcome[r] # "none"
      BY <2>2, <2>5, EndingOthers DEF HistoryInv
    <3>2. SourceHasEnded(r) /\ log'[r].source = log[r].source
      BY <3>1, EndingLog DEF HistoryInv
    <3> QED
      BY <3>2, EndingOthers DEF SourceHasEnded
  <2>6. ASSUME NEW r \in Restores PROVE RecordFits(r)'
    <3>1. CASE record'[r] = record[r]
      BY <3>1 DEF HistoryInv, RecordFits
    <3>2. CASE record'[r] = NoRecord
      BY <3>2 DEF RecordFits, NoRecord
    <3> QED
      BY <3>1, <3>2, EndingOthers
  <2> QED
    BY <2>1, <2>3, <2>4, <2>5, <2>6 DEF HistoryInv
<1>2. TreeInv'
  BY DEF Ending, EndWith, world, WellFormed
<1>3. pc' = "idle" /\ active' = Nobody /\ at' = Nobody /\ raced' = {} /\ changed' = FALSE
  BY DEF Ending, EndWith
<1> QED
  BY <1>1, <1>2, <1>3 DEF PlanInv, OrderInv, CalmInv, Decision, During, Steps

LEMMA EndingOutcome ==
    ASSUME IInv, HistoryInv, tree \in Worktrees, OutcomesAreRight, NEW x, Ending(x),
           NEW it \in Restores, it = active,
           ~log[it].edited => \A p \in Paths : HonestAt(it, p)',
           ~log[it].edited /\ ~log'[it].faulted /\ ~Hampered(it) =>
               x \in {"refused", "no-op", "applied", "dead"}
    PROVE  OutcomesAreRight'
<1> SUFFICES ASSUME NEW r \in Restores, Finished(r)', ~log'[r].edited
             PROVE  /\ \A p \in Paths : HonestAt(r, p)'
                    /\ ~log'[r].faulted /\ ~Hampered(r)' =>
                         outcome'[r] \in {"refused", "no-op", "applied", "dead"}
  BY DEF OutcomesAreRight, OutcomesAreHonest, QuietApplySucceeds
<1>1. outcome[r] # "none" /\ active \in Restores
  BY EndingOthers DEF Finished, Ending, HistoryInv
<1>2. \A p : Want(log[r].source, p)' = Want(log[r].source, p)
  BY <1>1, EndingWant
<1>3. /\ log'[r].selection = log[r].selection /\ log'[r].base = log[r].base
      /\ log'[r].source = log[r].source /\ saved' = saved
  BY EndingLog DEF Ending, EndWith, world
<1>4. Hampered(r)' = Hampered(r)
  BY <1>2, <1>3 DEF Hampered, Obstructed, AskedBelowFile
<1>5. CASE r = it
  <2>1. outcome'[r] = x /\ log'[r].edited = log[r].edited
    BY <1>1, <1>5, EndingLog, EndingOthers
  <2> QED
    BY <1>4, <1>5, <2>1
<1>6. CASE r # it
  <2>1. log'[r] = log[r] /\ record'[r] = record[r] /\ outcome'[r] = outcome[r]
    BY <1>6, EndingLog, EndingOthers
  <2>2. Finished(r)
    BY <2>1 DEF Finished
  <2>3. ASSUME NEW p \in Paths PROVE HonestAt(r, p)'
    <3>1. HonestAt(r, p)
      BY <2>1, <2>2 DEF OutcomesAreRight, OutcomesAreHonest
    <3>2. MadeAbove(r, p)' = MadeAbove(r, p)
      BY <1>2, <2>1 DEF MadeAbove
    <3> QED
      BY <1>2, <2>1, <3>1, <3>2 DEF HonestAt
  <2> QED
    BY <1>4, <2>1, <2>2, <2>3 DEF OutcomesAreRight, QuietApplySucceeds
<1> QED
  BY <1>5, <1>6

(* A restore that left the worktree as it was says so. *)
LEMMA EndingSame ==
    ASSUME HistoryInv, IInv, tree \in Worktrees, NEW x, Ending(x), x # "applied",
           NEW it \in Restores, it = active, tree = log[it].base, NEW p \in Paths
    PROVE  HonestAt(it, p)'
<1>1. log'[it].final = log'[it].base /\ outcome'[it] = x
  BY EndingLog, EndingOthers
<1> QED
  BY <1>1 DEF HonestAt

-----------------------------------------------------------------------------
(* What is known of a plan. *)
LEMMA PlanFacts ==
    ASSUME IInv, HistoryInv, TreeInv, PlanInv, pc \in Decision
    PROVE  /\ Planned = Candidates /\ Planned # {} /\ Planned \subseteq Paths
           /\ active \in Restores /\ outcome[active] # "none"
           /\ Source \in Restores \cup {"checkpoint"}
           /\ \A p \in Planned :
                /\ Current(p) = seen[p] /\ Goal(p) = Desired(p) /\ Goal(p) # Current(p)
                /\ Current(p) \in Nodes /\ Goal(p) \in Nodes
                /\ p \in Selected(log[active].selection)
                /\ Source # "checkpoint" => p \in DOMAIN record[Source]
           /\ log[active].base \in Worktrees
           /\ \A p \in Paths : seen[p] \in {log[active].base[p], "absent"}
<1>1. pc # "idle" /\ active \in Restores /\ outcome[active] # "none"
  BY DEF Decision, During, IInv, Shape, HistoryInv
<1>2. Source \in Restores \cup {"checkpoint"}
  BY <1>1, SourceIsAnother DEF Source
<1>3. log[active].base \in Worktrees
  BY <1>1 DEF HistoryInv, Log
<1>4. \A p \in Paths : seen[p] \in {log[active].base[p], "absent"} /\ seen[p] \in Nodes
  BY <1>1, <1>3 DEF PlanInv, Observe, Worktrees, Nodes
<1>5. Candidates \subseteq Paths
  BY DEF Candidates, Decided, Selected
<1>6. Candidates # {} /\ plan = [p \in Candidates |-> [current |-> seen[p], desired |-> Desired(p)]]
  BY DEF PlanInv
<1>7. Planned = Candidates
  BY <1>6 DEF Planned
<1>8. ASSUME NEW p \in Candidates
      PROVE  /\ Current(p) = seen[p] /\ Goal(p) = Desired(p) /\ Goal(p) # Current(p)
             /\ Current(p) \in Nodes /\ Goal(p) \in Nodes
             /\ p \in Selected(log[active].selection)
             /\ Source # "checkpoint" => p \in DOMAIN record[Source]
  <2>1. Current(p) = seen[p] /\ Goal(p) = Desired(p)
    BY <1>6 DEF Current, Goal
  <2>2. Desired(p) # seen[p] /\ p \in Decided
    BY DEF Candidates
  <2>3. p \in Selected(log[active].selection) /\ (Source # "checkpoint" => p \in DOMAIN record[Source])
    BY <2>2 DEF Decided, InScope
  <2>4. Desired(p) \in Nodes
    BY <1>2, <1>5, WantIsNode DEF Desired
  <2> QED
    BY <1>4, <1>5, <2>1, <2>2, <2>3, <2>4
<1> QED
  BY <1>1, <1>2, <1>3, <1>4, <1>5, <1>6, <1>7, <1>8

(* What a plan wants fits into what it wants. *)
LEMMA GoalFits ==
    ASSUME IInv, HistoryInv, TreeInv, PlanInv, pc \in Decision,
           NEW p \in Planned, NEW a \in Above(p), a \in Planned, Goal(p) # "absent"
    PROVE  Goal(a) = "dir"
<1>1. Want(Source, p) # "absent" /\ Goal(a) = Want(Source, a) /\ p \in Paths
  BY PlanFacts DEF Desired
<1>2. Source # "checkpoint" => {p, a} \subseteq DOMAIN record[Source]
  BY PlanFacts
<1> QED
  BY <1>1, <1>2, WantFits, PlanFacts

LEMMA PlanKept ==
    ASSUME IInv, HistoryInv, PlanInv, Working, session' = session,
           pc # "idle", pc' \in Decision => pc \in Decision
    PROVE  /\ PlanInv' /\ Planned' = Planned
           /\ \A p : Current(p)' = Current(p) /\ Goal(p)' = Goal(p)
<1>1. seen' = seen /\ front' = front /\ plan' = plan
  BY DEF session
<1>2. Candidates' = Candidates /\ \A p : Desired(p)' = Desired(p)
  BY <1>1, WorkingPlan
<1>3. log'[active].base = log[active].base /\ active' = active
  BY WorkingLog DEF Working
<1> QED
  BY <1>1, <1>2, <1>3 DEF PlanInv, Planned, Current, Goal

LEMMA WorkingHistory ==
    ASSUME IInv, HistoryInv, Working, NEW it \in Restores, it = active,
           record'[it] = record[it] \/ RecordFits(it)'
    PROVE  HistoryInv'
<1>1. log' \in [Restores -> Log] /\ outcome' = outcome /\ active' = active
  BY WorkingLog DEF Working
<1>2. ASSUME NEW r \in Restores
      PROVE  /\ outcome'[r] = "running" <=> r = active'
             /\ outcome'[r] = "none" => record'[r] = NoRecord
             /\ outcome'[r] # "none" => SourceHasEnded(r)'
             /\ RecordFits(r)'
  <2>1. outcome[r] = "running" <=> r = active
    BY DEF HistoryInv
  <2>2. r # active => record'[r] = record[r]
    BY DEF Working
  <2>3. outcome'[r] # "none" => SourceHasEnded(r)'
    <3>1. log'[r].source = log[r].source
      BY WorkingLog
    <3>2. \A s : Finished(s)' = Finished(s)
      BY <1>1 DEF Finished
    <3> QED
      BY <1>1, <3>1, <3>2 DEF HistoryInv, SourceHasEnded
  <2>4. RecordFits(r)'
    <3>1. CASE record'[r] = record[r]
      BY <3>1 DEF HistoryInv, RecordFits
    <3> QED
      BY <2>2, <3>1
  <2> QED
    BY <1>1, <2>1, <2>2, <2>3, <2>4 DEF HistoryInv
<1> QED
  BY <1>1, <1>2 DEF HistoryInv

-----------------------------------------------------------------------------
(* The steps that end a restore. *)
LEMMA EndingOut ==
    ASSUME IInv, OutcomeInv, NEW x, Ending(x), NEW it \in Restores, it = active,
           ~log[it].edited => \A p \in Paths : HonestAt(it, p)',
           ~log[it].edited /\ ~log'[it].faulted /\ ~Hampered(it) =>
               x \in {"refused", "no-op", "applied", "dead"}
    PROVE  OutcomeInv'
<1>1. tree \in Worktrees
  BY DEF OutcomeInv, TreeInv
<1> QED
  BY <1>1, EndingKeeps, EndingOutcome DEF OutcomeInv

(* Preparing the commit the worktree of an undisturbed restore is as it was. *)
LEMMA EndingEarly ==
    ASSUME IInv, OutcomeInv, NEW x, Ending(x), x # "applied", NEW it \in Restores, it = active,
           ~log[it].edited => tree = log[it].base,
           ~log[it].edited /\ ~log'[it].faulted /\ ~Hampered(it) =>
               x \in {"refused", "no-op", "dead"}
    PROVE  OutcomeInv'
<1>1. tree \in Worktrees
  BY DEF OutcomeInv, TreeInv
<1>2. ASSUME ~log[it].edited, NEW p \in Paths PROVE HonestAt(it, p)'
  BY <1>1, <1>2, EndingSame DEF OutcomeInv
<1> QED
  BY <1>2, EndingOut

LEMMA LeaveEnds ==
    ASSUME NEW x \in Outcomes \ {"none", "running"}, active \in Restores, Leave(x)
    PROVE  Ending(x)
  BY DEF Leave, Ending

LEMMA FaultedEnds ==
    ASSUME NEW x \in Outcomes \ {"none", "running"}, NEW it \in Restores, it = active,
           LeaveFaulted(x), log \in [Restores -> Log]
    PROVE  Ending(x) /\ log'[it].faulted
<1>1. log' = [log EXCEPT ![it].final = tree, ![it].faulted = TRUE]
  BY DEF LeaveFaulted
<1>2. Ending(x)
  BY DEF LeaveFaulted, Ending
<1> QED
  BY <1>1, <1>2 DEF Log

LEMMA FaultedOut ==
    ASSUME IInv, OutcomeInv, NEW x \in {"refused", "error"}, LeaveFaulted(x), active \in Restores,
           pc \in Preparing
    PROVE  OutcomeInv'
<1>1. PICK it \in Restores : it = active
  OBVIOUS
<1>2. Ending(x) /\ log'[it].faulted
  BY <1>1, FaultedEnds DEF Outcomes, OutcomeInv, HistoryInv
<1>3. ~log[it].edited => tree = log[it].base
  BY <1>1, OthersAssumption DEF OutcomeInv, CalmInv
<1> QED
  BY <1>1, <1>2, <1>3, EndingEarly

(* Refusals and deaths before the commit. *)
LEMMA LeaveEarlyOut ==
    ASSUME IInv, OutcomeInv, NEW x \in {"refused", "no-op", "dead"}, Leave(x), pc \in Preparing
    PROVE  OutcomeInv'
<1>1. PICK it \in Restores : it = active
  BY DEF IInv, Shape, Preparing
<1>2. Ending(x)
  BY <1>1, LeaveEnds DEF Outcomes
<1>3. ~log[it].edited => tree = log[it].base
  BY <1>1, OthersAssumption DEF OutcomeInv, CalmInv
<1> QED
  BY <1>1, <1>2, <1>3, EndingEarly

(* The end of a commit, whole, partial or by death. *)
LEMMA LeaveLateOut ==
    ASSUME IInv, OutcomeInv, NEW x \in {"applied", "partial", "dead"}, Leave(x), pc \in During,
           x = "applied" => todo = {},
           x = "partial" => pc = "finish" /\ todo # {}
    PROVE  OutcomeInv'
<1>1. PICK it \in Restores : it = active
  BY DEF IInv, Shape, During
<1>2. Ending(x)
  BY <1>1, LeaveEnds DEF Outcomes
<1>3. pc \in Decision
  BY DEF Decision
<1>4. HistoryInv /\ TreeInv /\ PlanInv /\ CalmInv /\ tree \in Worktrees
  BY DEF OutcomeInv, TreeInv
<1>5. record' = record /\ record[it] = Captured /\ DOMAIN record[it] = Planned
  BY <1>1 DEF Leave, IInv, RecordCoversPlan, During, Captured
<1>6. ASSUME ~log[it].edited PROVE PlanIsTrue /\ HalfWay
  BY <1>1, <1>3, <1>4, <1>6, OthersAssumption DEF CalmInv
<1>7. ASSUME ~log[it].edited, NEW p \in Paths PROVE HonestAt(it, p)'
  <2>1. outcome'[it] = x /\ log'[it].final = tree /\ log'[it].base = log[it].base
    BY <1>1, <1>2, <1>4, EndingLog, EndingOthers
  <2>2. \A q : Want(log[it].source, q)' = Desired(q)
    BY <1>1, <1>2, <1>3, <1>4, EndingLog, EndingWant, PlanFacts DEF Desired, Source
  <2>3. CASE p \in Planned
    <3>1. Goal(p) = Desired(p) /\ Current(p) = log[it].base[p]
      BY <1>1, <1>3, <1>4, <1>6, <1>7, <2>3, PlanFacts DEF PlanIsTrue
    <3>2. \/ tree[p] = Goal(p)
          \/ p \in todo /\ tree[p] \in {Current(p), "absent"}
      BY <1>6, <1>7, <2>3 DEF HalfWay
    <3> QED
      BY <1>5, <2>1, <2>2, <2>3, <3>1, <3>2 DEF HonestAt
  <2>4. CASE p \notin Planned
    <3>1. tree[p] = log[it].base[p] \/ Made(p)
      BY <1>1, <1>6, <1>7, <2>4 DEF HalfWay
    <3>2. Made(p) => MadeAbove(it, p)'
      BY <1>1, <1>3, <1>4, <1>5, <2>1, <2>2, <2>4, PlanFacts DEF Made, MadeAbove
    <3> QED
      BY <1>5, <2>1, <2>4, <3>1, <3>2 DEF HonestAt
  <2> QED
    BY <2>3, <2>4
<1>8. ASSUME ~log[it].edited, ~log'[it].faulted, ~Hampered(it)
      PROVE  x \in {"refused", "no-op", "applied", "dead"}
  <2>1. ~log[it].faulted
    BY <1>2, <1>4, <1>8, EndingLog
  <2> QED
    BY <1>1, <1>6, <1>8, <2>1 DEF HalfWay, Hampered
<1> QED
  BY <1>1, <1>2, <1>7, <1>8, EndingOut

LEMMA CrashOut == ASSUME IInv, OutcomeInv, Crash PROVE OutcomeInv'
<1>1. Leave("dead") /\ active # Nobody
  BY DEF Crash
<1>2. pc \in Preparing \cup During
  BY <1>1 DEF OutcomeInv, OrderInv, Preparing, During, Steps, IInv, Shape
<1> QED
  BY <1>1, <1>2, LeaveEarlyOut, LeaveLateOut

-----------------------------------------------------------------------------
(* The steps of a restore before its commit, and those of others. *)
LEMMA UnmovedOut ==
    ASSUME HistoryInv, OutcomesAreRight, UNCHANGED <<saved, record, outcome, active, log>>
    PROVE  HistoryInv' /\ OutcomesAreRight'
<1>1. \A s, p : Want(s, p)' = Want(s, p)
  BY DEF Want
<1>2. \A s : Finished(s)' = Finished(s)
  BY DEF Finished
<1>3. HistoryInv'
  BY <1>2 DEF HistoryInv, RecordFits, SourceHasEnded
<1>4. \A r, p : HonestAt(r, p)' = HonestAt(r, p)
  BY <1>1 DEF HonestAt, MadeAbove
<1>5. \A r : Hampered(r)' = Hampered(r)
  BY <1>1 DEF Hampered, Obstructed, AskedBelowFile
<1> QED
  BY <1>2, <1>3, <1>4, <1>5 DEF OutcomesAreRight, OutcomesAreHonest, QuietApplySucceeds

LEMMA StutterOut == ASSUME IInv, OutcomeInv, UNCHANGED vars PROVE OutcomeInv'
<1>1. UNCHANGED <<world, record, outcome, active, pc, session, commit, log>>
  BY DEF vars
<1>2. HistoryInv' /\ OutcomesAreRight'
  BY <1>1, UnmovedOut DEF OutcomeInv, world
<1>3. \A p : Desired(p)' = Desired(p)
  BY <1>1 DEF Desired, Want, Source, world
<1>4. Candidates' = Candidates /\ Planned' = Planned
  BY <1>1, <1>3 DEF Candidates, Decided, InScope, Source, Planned, session
<1>5. \A p, q : Precedes(p, q)' = Precedes(p, q) /\ InTheWay(p)' = InTheWay(p)
  BY <1>1 DEF Precedes, Rank, Goal, Current, InTheWay, session
<1>6. Obstructed(active)' = Obstructed(active)
  BY <1>1 DEF Obstructed, Want, world
<1>7. PlanInv'
  BY <1>1, <1>3, <1>4 DEF OutcomeInv, PlanInv, session
<1>8. OrderInv'
  BY <1>1, <1>4, <1>5 DEF OutcomeInv, OrderInv, Turn, Goal, commit, session
<1>9. TreeInv'
  BY <1>1 DEF OutcomeInv, TreeInv, WellFormed, world, commit
<1>10. PlanIsTrue' = PlanIsTrue
  BY <1>1, <1>4 DEF PlanIsTrue, Goal, Current, session
<1>11. HalfWay' = HalfWay
  BY <1>1, <1>4, <1>5, <1>6 DEF HalfWay, Goal, Current, Made, session, world, commit
<1>12. CalmInv'
  BY <1>1, <1>10, <1>11 DEF OutcomeInv, CalmInv, world, commit
<1> QED
  BY <1>2, <1>7, <1>8, <1>9, <1>12 DEF OutcomeInv

LEMMA BeginOut ==
    ASSUME IInv, IInv', OutcomeInv, NEW it \in Restores, Begin(it) PROVE OutcomeInv'
<1>1. PICK s \in {"checkpoint"} \cup {x \in Restores : record[x] # NoRecord}, sel \in Selections :
         log' = [log EXCEPT ![it] = Asked(s, sel)]
  BY DEF Begin
<1>2. /\ active = Nobody /\ outcome[it] = "none" /\ active' = it /\ pc' = "plan"
      /\ outcome' = [outcome EXCEPT ![it] = "running"]
      /\ seen' = Observe(tree, Hidden) /\ front' = {p \in Hidden : tree[p] # "absent"}
      /\ UNCHANGED <<world, record, plan, commit>>
  BY DEF Begin
<1>3. HistoryInv /\ TreeInv /\ PlanInv /\ OrderInv /\ CalmInv /\ OutcomesAreRight
  BY DEF OutcomeInv
<1>4. tree \in Worktrees /\ pc = "idle"
  BY <1>2, <1>3 DEF TreeInv, IInv, Shape
<1>6. /\ log' \in [Restores -> Log]
      /\ log'[it].source = s /\ log'[it].base = tree /\ ~log'[it].edited
      /\ \A r \in Restores \ {it} : log'[r] = log[r]
  <2>1. sel \in SUBSET Paths /\ s \in Restores \cup {"checkpoint", Nobody}
    BY PathsAssumption
  <2>2. Asked(s, sel) \in Log
    BY <1>4, <2>1 DEF Asked, Log
  <2> QED
    BY <1>1, <1>3, <2>2 DEF HistoryInv, Asked
<1>7. outcome' \in [Restores -> Outcomes] /\ \A r \in Restores : outcome'[r] = IF r = it THEN "running" ELSE outcome[r]
  BY <1>2, <1>3 DEF HistoryInv, Outcomes
<1>8. \A r \in Restores : Finished(r)' <=> Finished(r)
  BY <1>2, <1>7 DEF Finished
<1>9. HistoryInv'
  <2>1. s = "checkpoint" \/ (s \in Restores /\ Finished(s))
    <3>1. s \in Restores /\ record[s] # NoRecord => Finished(s)
      BY <1>2, <1>3, OthersAssumption DEF HistoryInv, Finished
    <3> QED
      BY <1>1, <3>1
  <2>2. ASSUME NEW r \in Restores PROVE outcome'[r] = "running" <=> r = active'
    BY <1>2, <1>3, <1>7, OthersAssumption DEF HistoryInv
  <2>3. ASSUME NEW r \in Restores, outcome'[r] = "none" PROVE record'[r] = NoRecord
    BY <1>2, <1>3, <1>7, <2>3 DEF HistoryInv
  <2>4. ASSUME NEW r \in Restores, outcome'[r] # "none" PROVE SourceHasEnded(r)'
    <3>1. CASE r = it
      BY <1>6, <1>8, <2>1, <3>1 DEF SourceHasEnded
    <3>2. CASE r # it
      BY <1>3, <1>6, <1>7, <1>8, <2>4, <3>2 DEF HistoryInv, SourceHasEnded
    <3> QED
      BY <3>1, <3>2
  <2>5. ASSUME NEW r \in Restores PROVE RecordFits(r)'
    BY <1>2, <1>3 DEF HistoryInv, RecordFits
  <2> QED
    BY <1>6, <1>7, <2>2, <2>3, <2>4, <2>5 DEF HistoryInv
<1>10. OutcomesAreRight'
  <2> SUFFICES ASSUME NEW r \in Restores, Finished(r)', ~log'[r].edited
               PROVE  /\ \A p \in Paths : HonestAt(r, p)'
                      /\ ~log'[r].faulted /\ ~Hampered(r)' =>
                           outcome'[r] \in {"refused", "no-op", "applied", "dead"}
    BY DEF OutcomesAreRight, OutcomesAreHonest, QuietApplySucceeds
  <2>1. r # it /\ log'[r] = log[r] /\ Finished(r) /\ outcome'[r] = outcome[r]
    BY <1>2, <1>6, <1>7, <1>8 DEF Finished
  <2>2. record' = record /\ saved' = saved
    BY <1>2 DEF world
  <2>3. \A p : Want(log[r].source, p)' = Want(log[r].source, p)
    BY <2>1, <2>2 DEF Want
  <2>4. ASSUME NEW p \in Paths PROVE HonestAt(r, p)'
    <3>1. HonestAt(r, p)
      BY <1>3, <2>1 DEF OutcomesAreRight, OutcomesAreHonest
    <3> QED
      BY <2>1, <2>2, <2>3, <3>1 DEF HonestAt, MadeAbove
  <2>5. Hampered(r)' = Hampered(r)
    BY <2>1, <2>2, <2>3 DEF Hampered, Obstructed, AskedBelowFile
  <2> QED
    BY <1>3, <2>1, <2>4, <2>5 DEF OutcomesAreRight, QuietApplySucceeds
<1>11. TreeInv'
  BY <1>2, <1>3, <1>6 DEF TreeInv, WellFormed, world
<1>12. PlanInv'
  BY <1>2, <1>6 DEF PlanInv, Decision, During
<1>13. OrderInv' /\ raced' = {}
  BY <1>2, <1>3, <1>4 DEF OrderInv, commit, During, Steps
<1>14. CalmInv'
  BY <1>2, <1>6, <1>13 DEF CalmInv, Decision, During, world
<1> QED
  BY <1>9, <1>10, <1>11, <1>12, <1>13, <1>14 DEF OutcomeInv

(* The order of a plan is the plan's. *)
LEMMA OrderIsPlans ==
    ASSUME plan' = plan
    PROVE  /\ Planned' = Planned
           /\ \A p : Goal(p)' = Goal(p) /\ Current(p)' = Current(p)
           /\ \A p : Rank(p)' = Rank(p) /\ InTheWay(p)' = InTheWay(p)
           /\ \A p, q : Precedes(p, q)' = Precedes(p, q)
<1>1. Planned' = Planned /\ \A p : Goal(p)' = Goal(p) /\ Current(p)' = Current(p)
  BY DEF Planned, Goal, Current
<1>2. \A p : Rank(p)' = Rank(p) /\ InTheWay(p)' = InTheWay(p)
  BY <1>1 DEF Rank, InTheWay
<1> QED
  BY <1>1, <1>2 DEF Precedes

LEMMA EditOut == ASSUME IInv, OutcomeInv, Edit PROVE OutcomeInv'
<1>1. PICK p \in Paths, n \in Nodes :
         /\ tree' = [tree EXCEPT ![p] = n] /\ WellFormed(tree')
         /\ raced' = IF at = Nobody THEN {} ELSE raced \cup {p}
  BY DEF Edit
<1>2. /\ UNCHANGED <<saved, record, outcome, active, pc, session, todo, at, changed>>
      /\ log' = IF active = Nobody THEN log ELSE [log EXCEPT ![active].edited = TRUE]
  BY DEF Edit
<1>3. HistoryInv /\ TreeInv /\ PlanInv /\ OrderInv /\ OutcomesAreRight
  BY DEF OutcomeInv
<1>4. tree' \in Worktrees
  BY <1>1, <1>3 DEF TreeInv, Worktrees
<1>5. plan' = plan /\ seen' = seen /\ front' = front
  BY <1>2 DEF session
<1>6. OrderInv'
  <2>1. at = Nobody => raced' = {}
    BY <1>1
  <2> QED
    BY <1>2, <1>3, <1>5, <2>1, OrderIsPlans DEF OrderInv, Turn
<1>7. CASE active = Nobody
  <2>1. HistoryInv' /\ OutcomesAreRight'
    BY <1>2, <1>3, <1>7, UnmovedOut
  <2>2. pc = "idle"
    BY <1>7 DEF IInv, Shape
  <2>3. TreeInv' /\ PlanInv'
    BY <1>1, <1>2, <1>3, <1>4, <1>7, <2>2 DEF TreeInv, PlanInv, Decision, During
  <2> QED
    BY <1>2, <1>6, <1>7, <2>1, <2>3 DEF OutcomeInv, CalmInv
<1>8. CASE active # Nobody
  <2>1. PICK it \in Restores : it = active
    BY <1>8 DEF IInv, Shape
  <2>2. log' = [log EXCEPT ![it].edited = TRUE]
    BY <1>2, <1>8, <2>1
  <2>3. Working
    BY <1>2, <2>1, <2>2 DEF Working
  <2>4. log'[it].edited
    BY <1>3, <2>2 DEF HistoryInv, Log
  <2>5. HistoryInv' /\ OutcomesAreRight'
    <3>1. record'[it] = record[it]
      BY <1>2
    <3> QED
      BY <1>3, <2>1, <2>3, <3>1, WorkingHistory, WorkingHonest
  <2>6. PlanInv'
    BY <1>2, <1>3, <1>8, <2>3, PlanKept DEF IInv, Shape
  <2>7. TreeInv'
    <3>1. WellFormed(log[it].base) /\ log'[it].base = log[it].base
      BY <1>3, <1>8, <2>1, <2>3, WorkingLog DEF TreeInv
    <3>2. ASSUME pc \in {"remove", "put"}, NEW a \in Above(at) PROVE a \in raced' \/ tree'[a] = "dir"
      <4>1. at \in todo /\ at \in Paths /\ at # Nobody
        BY <3>2, OthersAssumption DEF IInv, Shape, GuardHolds
      <4>2. a \in Paths
        BY <4>1, AboveChain
      <4> QED
        BY <1>1, <1>3, <3>2, <4>1, <4>2 DEF TreeInv, Worktrees
    <3> QED
      <4>1. WellFormed(log'[it].base) /\ active' = it
        BY <1>2, <2>1, <3>1
      <4>2. saved' = saved /\ pc' = pc /\ at' = at /\ WellFormed(tree')
        BY <1>1, <1>2
      <4> QED
        BY <1>3, <1>4, <3>2, <4>1, <4>2 DEF TreeInv, WellFormed
  <2> QED
    BY <1>2, <1>6, <2>1, <2>4, <2>5, <2>6, <2>7 DEF OutcomeInv, CalmInv
<1> QED
  BY <1>7, <1>8

(* The plan that fails of itself was asked for something below a file. *)
LEMMA FailsOverOperand ==
    ASSUME IInv, OutcomeInv, pc = "plan", Unanswerable, Leave("error") PROVE OutcomeInv'
<1>1. PICK it \in Restores : it = active
  BY DEF IInv, Shape
<1>2. Ending("error")
  BY <1>1, LeaveEnds DEF Outcomes
<1>3. ~log[it].edited => tree = log[it].base
  BY <1>1, OthersAssumption DEF OutcomeInv, CalmInv, Preparing
<1>4. ASSUME ~log[it].edited PROVE AskedBelowFile(it)
  <2>1. PICK p \in log[it].selection : Unmatched(p) /\ BelowFile(tree, p)
    BY <1>1 DEF Unanswerable
  <2>2. log[it].source = "checkpoint"
    BY <1>1 DEF Unanswerable, Source
  <2>3. ASSUME NEW q \in Selected({p}) PROVE saved.tree[q] = "absent"
    <3>1. q \in InScope /\ Desired(q) = saved.tree[q]
      BY <1>1, <2>2 DEF InScope, Source, Desired, Want, Selected
    <3> QED
      BY <2>1, <3>1 DEF Unmatched
  <2> QED
    BY <1>3, <1>4, <2>1, <2>2, <2>3 DEF AskedBelowFile
<1> QED
  BY <1>1, <1>2, <1>3, <1>4, EndingEarly DEF Hampered

LEMMA MakePlanOut == ASSUME IInv, OutcomeInv, MakePlan PROVE OutcomeInv'
<1>1. pc = "plan" /\ pc \in Preparing
  BY DEF MakePlan, Preparing
<1>2. CASE Leave("refused") \/ Leave("no-op")
  BY <1>1, <1>2, LeaveEarlyOut
<1>2a. CASE Unanswerable /\ Leave("error")
  BY <1>1, <1>2a, FailsOverOperand
<1>3. CASE /\ ~Blocked /\ Candidates # {}
           /\ plan' = [p \in Candidates |-> [current |-> seen[p], desired |-> Desired(p)]]
           /\ pc' = "stage"
           /\ UNCHANGED <<world, record, outcome, active, seen, front, commit, log>>
  <2>1. HistoryInv /\ TreeInv /\ PlanInv /\ OrderInv /\ CalmInv /\ OutcomesAreRight
    BY DEF OutcomeInv
  <2>2. HistoryInv' /\ OutcomesAreRight'
    BY <1>3, <2>1, UnmovedOut DEF world
  <2>3. active \in Restores /\ outcome[active] # "none"
    BY <1>1, <2>1 DEF IInv, Shape, HistoryInv
  <2>4. Candidates' = Candidates /\ \A p : Desired(p)' = Desired(p)
    BY <1>3 DEF Candidates, Desired, Want, Source, Decided, InScope, world
  <2>5. PlanInv'
    BY <1>1, <1>3, <2>1, <2>4 DEF PlanInv
  <2>6. TreeInv'
    BY <1>3, <2>1 DEF TreeInv, WellFormed, world
  <2>7. OrderInv'
    BY <1>1, <1>3, <2>1 DEF OrderInv, commit, During, Steps
  <2>8. ASSUME ~log[active].edited PROVE PlanIsTrue'
    <3>1. tree = log[active].base
      BY <1>1, <2>1, <2>3, <2>8, OthersAssumption DEF CalmInv
    <3>2. seen = Observe(tree, Hidden) /\ front = {p \in Hidden : tree[p] # "absent"}
      BY <1>1, <2>1, <3>1 DEF PlanInv
    <3>3. Candidates \subseteq Paths /\ Planned' = Candidates
      BY <1>3 DEF Candidates, Decided, Selected, Planned
    <3>0. log'[active'].base = tree
      BY <1>3, <3>1
    <3> SUFFICES ASSUME NEW p \in Candidates
                 PROVE  /\ Current(p)' = tree[p]
                        /\ Current(p)' = "dir" /\ Goal(p)' # "dir" =>
                             \A q \in Below(p) :
                                 IF q \in Candidates THEN Goal(q)' = "absent" ELSE tree[q] = "absent"
      BY <3>0, <3>3 DEF PlanIsTrue
    <3>4. \A q \in Candidates : Current(q)' = seen[q] /\ Goal(q)' = Desired(q)
      BY <1>3 DEF Current, Goal
    <3>5. ~Unproved(p) /\ ~Held(p) /\ \A q \in Candidates : ~Unproved(q)
      BY <1>3 DEF Blocked
    <3>6. seen[p] = tree[p]
      BY <3>2, <3>3, <3>5 DEF Unproved, Observe
    <3>7. ASSUME seen[p] = "dir", Desired(p) # "dir", NEW q \in Below(p)
          PROVE  IF q \in Candidates THEN Desired(q) = "absent" ELSE tree[q] = "absent"
      <4>1. ~Remains(q) /\ q \in Paths
        BY <3>5, <3>7 DEF Held, RemovesDirectory, Below
      <4> QED
        BY <3>2, <3>5, <4>1 DEF Remains, Observe
    <3> QED
      BY <3>4, <3>6, <3>7
  <2>9. CalmInv'
    BY <1>1, <1>3, <2>1, <2>3, <2>8 DEF CalmInv, Preparing, During, world, commit
  <2> QED
    BY <2>2, <2>5, <2>6, <2>7, <2>9 DEF OutcomeInv
<1> QED
  BY <1>2, <1>2a, <1>3 DEF MakePlan

LEMMA TrueKept ==
    ASSUME HistoryInv, Working, session' = session PROVE PlanIsTrue' <=> PlanIsTrue
<1>1. log'[active'].base = log[active].base
  BY WorkingLog DEF Working
<1>2. plan' = plan
  BY DEF session
<1> QED
  BY <1>1, <1>2, OrderIsPlans DEF PlanIsTrue

(* A step on the way to the commit that changes the record at most. *)
LEMMA OnTheWay ==
    ASSUME IInv, OutcomeInv, NEW it \in Restores, it = active,
           pc \in {"stage", "capture"}, pc' \in {"capture", "revalidate"},
           record'[it] = record[it] \/ RecordFits(it)',
           \A r \in Restores \ {it} : record'[r] = record[r],
           UNCHANGED <<world, outcome, active, session, commit, log>>
    PROVE  OutcomeInv'
<1>1. Working
  BY DEF Working, world
<1>2. HistoryInv /\ TreeInv /\ PlanInv /\ OrderInv /\ CalmInv /\ OutcomesAreRight
  BY DEF OutcomeInv
<1>3. HistoryInv' /\ OutcomesAreRight'
  BY <1>1, <1>2, WorkingHistory, WorkingHonest
<1>4. PlanInv' /\ (PlanIsTrue' <=> PlanIsTrue)
  BY <1>1, <1>2, PlanKept, TrueKept DEF Decision
<1>5. TreeInv'
  BY <1>2 DEF TreeInv, WellFormed, world
<1>6. OrderInv'
  BY <1>2 DEF OrderInv, commit, During, Steps
<1>7. CalmInv'
  BY <1>2, <1>4 DEF CalmInv, Preparing, Decision, During, world, commit
<1> QED
  BY <1>3, <1>4, <1>5, <1>6, <1>7 DEF OutcomeInv

LEMMA StageAllOut == ASSUME IInv, OutcomeInv, StageAll PROVE OutcomeInv'
<1>1. pc = "stage" /\ pc \in Preparing
  BY DEF StageAll, Preparing
<1>2. PICK it \in Restores : it = active
  BY <1>1 DEF IInv, Shape
<1>3. CASE LeaveFaulted("refused")
  BY <1>1, <1>2, <1>3, FaultedOut
<1>4. CASE /\ pc' = "capture"
           /\ UNCHANGED <<world, record, outcome, active, session, commit, log>>
  BY <1>1, <1>2, <1>4, OnTheWay
<1> QED
  BY <1>3, <1>4 DEF StageAll

LEMMA PublishRecoveryOut == ASSUME IInv, OutcomeInv, PublishRecovery PROVE OutcomeInv'
<1>1. pc = "capture" /\ pc \in Preparing /\ pc \in Decision
  BY DEF PublishRecovery, Preparing, Decision
<1>2. PICK it \in Restores : it = active
  BY <1>1 DEF IInv, Shape
<1>3. CASE Leave("refused")
  BY <1>1, <1>3, LeaveEarlyOut
<1>4. CASE /\ record' = [record EXCEPT ![active] = Captured] /\ pc' = "revalidate"
           /\ UNCHANGED <<world, outcome, active, session, commit, log>>
  <2>1. HistoryInv /\ TreeInv /\ PlanInv
    BY DEF OutcomeInv
  <2>2. record'[it] = Captured /\ \A r \in Restores \ {it} : record'[r] = record[r]
    BY <1>2, <1>4 DEF IInv, Shape
  <2>3. Captured = [p \in Planned |-> seen[p]] /\ Planned \subseteq Paths
    BY <1>1, <2>1, PlanFacts DEF Captured
  <2>4. seen \in Worktrees /\ seen = Observe(log[it].base, Hidden) /\ WellFormed(log[it].base)
    <3>1. log[it].base \in Worktrees /\ seen = Observe(log[it].base, Hidden)
      BY <1>1, <1>2, <2>1 DEF PlanInv, HistoryInv, Log
    <3> QED
      BY <1>2, <2>1, <3>1, OthersAssumption DEF TreeInv, Observe, Worktrees, Nodes
  <2>5. ASSUME NEW p \in Paths, NEW a \in Above(p), seen[p] # "absent" PROVE seen[a] = "dir"
    <3>1. a \in Paths /\ p \in Below(a)
      BY AboveChain, BelowAbove
    <3>2. p \notin Hidden /\ log[it].base[p] # "absent"
      BY <2>4, <2>5 DEF Observe
    <3>3. a \notin Hidden
      BY <3>1, <3>2, PathsAssumption
    <3> QED
      BY <2>4, <3>1, <3>2, <3>3 DEF Observe, WellFormed
  <2>6. RecordFits(it)'
    BY <2>2, <2>3, <2>4, <2>5 DEF RecordFits, Worktrees
  <2> QED
    BY <1>1, <1>2, <1>4, <2>2, <2>6, OnTheWay
<1> QED
  BY <1>3, <1>4 DEF PublishRecovery

LEMMA DropRecoveryEnds ==
    ASSUME NEW x \in {"conflict", "cancelled", "error"}, NEW it \in Restores, it = active,
           DropRecovery(x), log \in [Restores -> Log]
    PROVE  Ending(x) \/ LeaveFaulted("error")
  BY DEF DropRecovery, Ending, Outcomes

LEMMA RevalidateOut == ASSUME IInv, OutcomeInv, Revalidate PROVE OutcomeInv'
<1>1. pc = "revalidate" /\ pc \in Preparing /\ pc \in Decision
  BY DEF Revalidate, Preparing, Decision
<1>2. PICK it \in Restores : it = active
  BY <1>1 DEF IInv, Shape
<1>3. HistoryInv /\ TreeInv /\ PlanInv /\ OrderInv /\ CalmInv /\ OutcomesAreRight
  BY DEF OutcomeInv
<1>4. CASE DropRecovery("conflict") /\ \E p \in Planned : Observe(tree, Hidden)[p] # Current(p)
  <2>1. CASE LeaveFaulted("error")
    BY <1>1, <1>2, <2>1, FaultedOut
  <2>2. CASE Ending("conflict")
    <3>1. ASSUME ~log[it].edited PROVE FALSE
      <4>1. tree = log[it].base
        BY <1>1, <1>2, <1>3, <3>1, OthersAssumption DEF CalmInv
      <4> QED
        BY <1>1, <1>2, <1>3, <1>4, <4>1, PlanFacts DEF PlanInv
    <3> QED
      BY <1>2, <2>2, <3>1, EndingEarly
  <2> QED
    BY <1>2, <1>3, <1>4, <2>1, <2>2, DropRecoveryEnds DEF HistoryInv
<1>5. CASE /\ todo' = Planned /\ pc' = "commit"
           /\ UNCHANGED <<world, record, outcome, active, session, at, changed, incomplete, stop,
                          raced, log>>
  <2>1. Working
    BY <1>2, <1>5 DEF Working, world
  <2>2. HistoryInv' /\ OutcomesAreRight'
    BY <1>2, <1>3, <1>5, <2>1, WorkingHistory, WorkingHonest
  <2>3. PlanInv' /\ (PlanIsTrue' <=> PlanIsTrue) /\ Planned' = Planned
    BY <1>1, <1>3, <1>5, <2>1, PlanKept, TrueKept
  <2>4. TreeInv'
    BY <1>3, <1>5 DEF TreeInv, WellFormed, world
  <2>5. OrderInv'
    BY <1>1, <1>3, <1>5, <2>3 DEF OrderInv, During, Steps
  <2>6. CalmInv'
    <3> SUFFICES ASSUME ~log[it].edited
                 PROVE  raced' = {} /\ PlanIsTrue' /\ HalfWay'
      BY <1>2, <1>5 DEF CalmInv, Preparing, During
    <3>1. raced = {} /\ tree = log[it].base /\ PlanIsTrue
      BY <1>1, <1>2, <1>3, OthersAssumption DEF CalmInv
    <3>2. \A p \in Planned : tree[p] = Current(p)
      BY <1>2, <3>1 DEF PlanIsTrue
    <3>3. tree' = log'[active'].base /\ \A p \in Planned : tree'[p] = Current(p)'
      BY <1>2, <1>5, <3>1, <3>2 DEF world, session, Current
    <3> QED
      BY <1>5, <2>3, <3>1, <3>3 DEF HalfWay
  <2> QED
    BY <2>2, <2>3, <2>4, <2>5, <2>6 DEF OutcomeInv
<1> QED
  BY <1>4, <1>5 DEF Revalidate

LEMMA GiveUpOut == ASSUME IInv, OutcomeInv, GiveUp PROVE OutcomeInv'
<1>1. pc \in Preparing /\ HistoryInv
  BY DEF GiveUp, Preparing, OutcomeInv
<1>2. PICK it \in Restores : it = active
  BY <1>1 DEF IInv, Shape, Preparing
<1>3. CASE LeaveFaulted("error")
  BY <1>1, <1>2, <1>3, FaultedOut
<1>4. CASE /\ EndWith("error")
           /\ record' \in {record, [record EXCEPT ![active] = NoRecord]}
           /\ log' = [log EXCEPT ![active].final = tree, ![active].faulted = TRUE]
  <2>1. Ending("error")
    BY <1>2, <1>4 DEF Ending, Outcomes
  <2>2. log' = [log EXCEPT ![it].final = tree, ![it].faulted = TRUE]
    BY <1>2, <1>4
  <2>3. log'[it].faulted
    BY <1>1, <2>2 DEF HistoryInv, Log
  <2>4. ~log[it].edited => tree = log[it].base
    BY <1>1, <1>2, OthersAssumption DEF OutcomeInv, CalmInv
  <2> QED
    BY <1>2, <2>1, <2>3, <2>4, EndingEarly
<1> QED
  BY <1>3, <1>4 DEF GiveUp

-----------------------------------------------------------------------------
(* The steps of the commit. *)
LEMMA CommitStep ==
    ASSUME IInv, OutcomeInv, Working, NEW it \in Restores, it = active,
           UNCHANGED <<record, session>>,
           pc \in During, pc' \in During, tree' \in Worktrees, WellFormed(tree'),
           pc' \in {"remove", "put"} => \A a \in Above(at') : a \in raced' \/ tree'[a] = "dir",
           OrderInv', ~log[it].edited => raced' = {} /\ HalfWay'
    PROVE  OutcomeInv'
<1>1. HistoryInv /\ TreeInv /\ PlanInv /\ CalmInv /\ OutcomesAreRight
  BY DEF OutcomeInv
<1>2. HistoryInv' /\ OutcomesAreRight'
  BY <1>1, WorkingHistory, WorkingHonest
<1>3. pc \in Decision /\ pc' \notin Preparing /\ pc # "idle"
  BY DEF Decision, During, Preparing
<1>4. PlanInv' /\ (PlanIsTrue' <=> PlanIsTrue)
  BY <1>1, <1>3, PlanKept, TrueKept
<1>5. saved' = saved /\ active' = it /\ log'[it].base = log[it].base
      /\ (~log'[it].edited => ~log[it].edited)
  BY <1>1, WorkingLog DEF Working
<1>6. TreeInv'
  BY <1>1, <1>5, OthersAssumption DEF TreeInv, WellFormed
<1>7. CalmInv'
  BY <1>1, <1>3, <1>4, <1>5, OthersAssumption DEF CalmInv
<1> QED
  BY <1>2, <1>4, <1>6, <1>7 DEF OutcomeInv

LEMMA MadeKept ==
    ASSUME HistoryInv, Working, session' = session, NEW p, tree'[p] = tree[p]
    PROVE  Made(p)' <=> Made(p)
<1>1. log'[active'].base = log[active].base
  BY WorkingLog DEF Working
<1>2. plan' = plan
  BY DEF session
<1> QED
  BY <1>1, <1>2, OrderIsPlans DEF Made

LEMMA ObstructedKept ==
    ASSUME HistoryInv, Working, NEW it \in Restores, it = active
    PROVE  Obstructed(active)' <=> Obstructed(it)
<1>1. outcome[it] # "none" /\ active' = it
  BY DEF HistoryInv, Working
<1>2. log'[it].base = log[it].base /\ log'[it].selection = log[it].selection
      /\ log'[it].source = log[it].source
  BY WorkingLog
<1>3. \A p : Want(log[it].source, p)' = Want(log[it].source, p)
  BY <1>1, WorkingWant
<1> QED
  BY <1>1, <1>2, <1>3 DEF Obstructed

(* What is known of an undisturbed commit. *)
LEMMA CalmFacts ==
    ASSUME IInv, OutcomeInv, pc \in During, NEW it \in Restores, it = active, ~log[it].edited
    PROVE  HalfWay /\ PlanIsTrue /\ raced = {}
  BY OthersAssumption DEF OutcomeInv, CalmInv, Decision

(* A commit that stops changes no planned path any more. *)
LEMMA StopOut ==
    ASSUME IInv, OutcomeInv, NEW reason, StopWith(reason), NEW it \in Restores, it = active,
           pc \in {"commit", "remove", "put"}, tree' \in Worktrees, WellFormed(tree'),
           log' \in {log, [log EXCEPT ![active].faulted = TRUE]},
           ~log[it].edited =>
               /\ \A p \in Planned : tree'[p] = tree[p]
               /\ \A p \in Paths \ Planned : tree'[p] = tree[p] \/ Made(p)'
               /\ ~changed /\ reason # "io" => tree' = tree /\ pc \in {"commit", "remove"}
               /\ log'[it].faulted \/ Obstructed(it)
    PROVE  OutcomeInv'
<1>1. /\ stop' = reason /\ pc' = "finish"
      /\ UNCHANGED <<saved, edits, record, outcome, active, session, todo, at, changed, raced>>
  BY DEF StopWith
<1>2. Working
  BY <1>1 DEF Working
<1>3. pc \in During /\ pc' \in During
  BY <1>1 DEF During
<1>4. HistoryInv /\ OrderInv /\ PlanInv /\ TreeInv
  BY DEF OutcomeInv
<1>5. plan' = plan
  BY <1>1 DEF session
<1>6. OrderInv'
  BY <1>1, <1>3, <1>4, <1>5, OrderIsPlans DEF OrderInv, Steps
<1>7. ASSUME ~log[it].edited PROVE raced' = {} /\ HalfWay'
  <2>1. HalfWay /\ raced = {}
    BY <1>3, <1>7, CalmFacts
  <2>2. log'[active'].base = log[it].base
    BY <1>1, <1>2, <1>4, WorkingLog
  <2>3. ASSUME NEW p \in Planned \ todo PROVE tree'[p] = Goal(p)
    BY <1>7, <2>1, <2>3 DEF HalfWay
  <2>4. ASSUME NEW p \in todo
        PROVE  tree'[p] = Current(p) \/ (changed /\ tree'[p] = "absent")
    BY <1>7, <2>1, <2>4 DEF HalfWay, IInv, Shape
  <2>5. ASSUME NEW p \in Paths \ Planned PROVE tree'[p] = log[it].base[p] \/ Made(p)'
    <3>1. CASE tree'[p] = tree[p]
      BY <1>1, <1>2, <1>4, <2>1, <2>5, <3>1, MadeKept DEF HalfWay
    <3> QED
      BY <1>7, <2>5, <3>1
  <2>6. ASSUME ~changed, reason # "io" PROVE tree' = log[it].base
    BY <1>7, <2>1, <2>6 DEF HalfWay
  <2>7. log'[active'].faulted \/ Obstructed(active)'
    BY <1>1, <1>2, <1>4, <1>7, ObstructedKept
  <2> QED
    BY <1>1, <1>5, <2>1, <2>2, <2>3, <2>4, <2>5, <2>6, <2>7, OrderIsPlans DEF HalfWay
<1> QED
  BY <1>1, <1>2, <1>3, <1>6, <1>7, CommitStep

(* Making the parents of a path leaves a worktree that hangs together. *)
LEMMA ParentsFit ==
    ASSUME tree \in Worktrees, WellFormed(tree), NEW p \in Paths,
           NEW opened, opened \in {tree, WithParents(p)},
           opened = tree \/ \A a \in Above(p) : opened[a] = "dir"
    PROVE  opened \in Worktrees /\ WellFormed(opened)
<1>1. CASE opened = tree
  BY <1>1
<1>2. CASE opened = WithParents(p) /\ \A a \in Above(p) : opened[a] = "dir"
  <2>1. opened \in Worktrees
    BY <1>2 DEF WithParents, Worktrees, Nodes
  <2>2. ASSUME NEW q \in Paths, opened[q] # "absent", NEW b \in Above(q) PROVE opened[b] = "dir"
    <3>1. b \in Paths
      BY AboveChain
    <3>2. CASE q \in Above(p)
      BY <1>2, <3>2, AboveChain
    <3>3. CASE q \notin Above(p)
      <4>1. tree[b] = "dir"
        BY <1>2, <2>2, <3>3 DEF WithParents, WellFormed
      <4> QED
        BY <1>2, <3>1, <4>1 DEF WithParents
    <3> QED
      BY <3>2, <3>3
  <2> QED
    BY <2>1, <2>2 DEF WellFormed
<1> QED
  BY <1>1, <1>2

(* Undisturbed, nothing in the plan stands above the operation whose turn it *)
(* is unless it is a directory, and only an obstruction is a leaf there.     *)
LEMMA NothingAbove ==
    ASSUME IInv, OutcomeInv, NEW it \in Restores, it = active, ~log[it].edited,
           pc = "commit", NEW p \in todo, Turn(p), NEW a \in Above(p), tree[a] # "dir"
    PROVE  /\ a \notin Planned /\ Current(p) = "absent" /\ Goal(p) # "absent"
           /\ tree[a] \in Leaves => Obstructed(it)
<1>1. HistoryInv /\ TreeInv /\ PlanInv /\ pc \in During /\ pc \in Decision
  BY DEF OutcomeInv, During, Decision
<1>2. HalfWay /\ PlanIsTrue
  BY <1>1, CalmFacts
<1>3. p \in Planned /\ p \in Paths /\ a \in Paths /\ todo \subseteq Planned /\ Planned \subseteq Paths
  BY <1>1, PlanFacts, AboveChain DEF IInv, Shape
<1>4. tree[p] = "absent" /\ Current(p) = "absent"
  BY <1>1, <1>2, <1>3 DEF HalfWay, TreeInv, WellFormed
<1>5. Goal(p) # "absent"
  BY <1>1, <1>3, <1>4, PlanFacts
<1>6. ASSUME a \in Planned PROVE FALSE
  <2>1. Goal(a) = "dir"
    BY <1>1, <1>3, <1>5, <1>6, GoalFits
  <2>2. CASE a \notin todo
    BY <1>2, <1>6, <2>1, <2>2 DEF HalfWay
  <2>3. CASE a \in todo
    <3>1. Precedes(p, a) /\ a # p
      BY <1>3, <2>3, NotAboveItself DEF Turn
    <3>2. Rank(p) = 0
      BY <1>4, <1>5 DEF Rank
    <3>3. Current(a) # "dir"
      BY <1>2, <1>1, <2>3 DEF HalfWay
    <3>4. Rank(a) = 0
      BY <2>1, <3>3 DEF Rank
    <3> QED
      BY <3>1, <3>2, <3>4 DEF Precedes
  <2> QED
    BY <2>2, <2>3
<1>7. ASSUME tree[a] \in Leaves PROVE Obstructed(it)
  <2>1. log[it].base[a] \in Leaves
    <3>1. tree[a] = log[it].base[a] \/ Made(a)
      BY <1>2, <1>3, <1>6 DEF HalfWay
    <3>2. ~Made(a)
      BY DEF Made
    <3> QED
      BY <1>7, <3>1, <3>2
  <2>2. Want(Source, p) # "absent" /\ p \in Selected(log[it].selection) /\ Source = log[it].source
    BY <1>1, <1>3, <1>5, PlanFacts DEF Desired, Source
  <2>3. ASSUME a \in Selected(log[it].selection), Want(Source, a) = "dir" PROVE FALSE
    <3>1. a \in InScope
      BY <1>3, <2>3 DEF InScope, Want
    <3>2. a \in Decided
      BY <2>3, <3>1 DEF Decided
    <3>3. seen[a] = "dir"
      BY <1>1, <1>6, <2>3, <3>2, PlanFacts DEF Candidates, Desired
    <3> QED
      BY <1>1, <1>3, <2>1, <3>3, NodesAssumption, PlanFacts DEF Leaves
  <2> QED
    BY <1>3, <2>1, <2>2, <2>3 DEF Obstructed
<1> QED
  BY <1>4, <1>5, <1>6, <1>7

(* Undisturbed, the parents an operation makes are no part of the plan. *)
LEMMA ParentsAreMade ==
    ASSUME IInv, OutcomeInv, NEW it \in Restores, it = active, ~log[it].edited,
           pc = "commit", NEW p \in todo, Turn(p),
           Working, session' = session, tree' \in {tree, WithParents(p)}
    PROVE  /\ \A q \in Planned : tree'[q] = tree[q]
           /\ \A q \in Paths \ Planned : tree'[q] = tree[q] \/ Made(q)'
<1>1. HistoryInv /\ TreeInv /\ PlanInv /\ pc \in During /\ pc \in Decision
  BY DEF OutcomeInv, During, Decision
<1>2. p \in Planned /\ p \in Paths /\ Planned \subseteq Paths
  BY <1>1, PlanFacts DEF IInv, Shape
<1>3. ASSUME NEW q \in Paths, tree'[q] # tree[q]
      PROVE  q \in Above(p) /\ tree[q] = "absent" /\ tree'[q] = "dir"
  BY <1>3 DEF WithParents
<1>4. ASSUME NEW q \in Paths, tree'[q] # tree[q]
      PROVE  q \notin Planned /\ Goal(p) # "absent"
  BY <1>3, <1>4, NothingAbove
<1>5. ASSUME NEW q \in Paths \ Planned, tree'[q] # tree[q] PROVE Made(q)'
  <2>1. tree[q] = log[it].base[q]
    BY <1>1, <1>3, <1>5, CalmFacts DEF HalfWay, Made
  <2>2. log'[active'].base = log[it].base
    BY <1>1, WorkingLog DEF Working
  <2>3. p \in Below(q)
    BY <1>2, <1>3, <1>5, BelowAbove
  <2>4. plan' = plan
    BY DEF session
  <2> QED
    BY <1>2, <1>3, <1>4, <1>5, <2>1, <2>2, <2>3, <2>4, OrderIsPlans DEF Made
<1> QED
  BY <1>2, <1>4, <1>5

LEMMA GuardOut == ASSUME IInv, OutcomeInv, NEW p \in todo, Guard(p) PROVE OutcomeInv'
<1> DEFINE opened == IF Goal(p) # "absent" THEN WithParents(p) ELSE tree
<1>1. pc = "commit" /\ pc \in During /\ Turn(p)
  BY DEF Guard, During
<1>2. PICK it \in Restores : it = active
  BY <1>1 DEF IInv, Shape
<1>3. HistoryInv /\ TreeInv /\ PlanInv /\ OrderInv /\ tree \in Worktrees /\ WellFormed(tree)
  BY DEF OutcomeInv, TreeInv
<1>4. p \in Planned /\ p \in Paths
  BY <1>1, <1>3, PlanFacts DEF IInv, Shape, Decision
<1>5. opened \in {tree, WithParents(p)}
  OBVIOUS
<1>6. ASSUME ~log[it].edited PROVE tree[p] = Current(p)
  BY <1>1, <1>2, <1>6, CalmFacts DEF HalfWay
<1>7. ASSUME ~log[it].edited, NEW a \in Above(p), tree[a] # "dir"
      PROVE  Goal(p) # "absent" /\ Current(p) = "absent" /\ (tree[a] \in Leaves => Obstructed(it))
  BY <1>1, <1>2, <1>7, NothingAbove
<1>8. CASE /\ \E a \in Above(p) : tree[a] \in Leaves
           /\ StopWith("mismatch") /\ tree' = tree /\ log' = log
  <2>1. ~log[it].edited => Obstructed(it)
    BY <1>7, <1>8, NodesAssumption DEF Leaves
  <2> QED
    BY <1>1, <1>2, <1>3, <1>8, <2>1, StopOut
<1>9. CASE /\ Goal(p) = "absent" /\ ~Reached(p)
            /\ StopWith("io") /\ tree' = tree /\ log' = log
  <2>1. log[it].edited
    BY <1>7, <1>9, <1>3 DEF Reached, HistoryInv, Log
  <2> QED
    BY <1>1, <1>2, <1>3, <1>9, <2>1, StopOut
<1>10. CASE /\ \A a \in Above(p) : opened[a] = "dir"
            /\ ~AsPlanned(p) /\ StopWith("mismatch") /\ tree' = opened /\ log' = log
  <2>1. log[it].edited
    BY <1>6, <1>10, <1>3 DEF AsPlanned
  <2>2. opened \in Worktrees /\ WellFormed(opened)
    BY <1>3, <1>4, <1>5, <1>10, ParentsFit
  <2> QED
    BY <1>1, <1>2, <1>10, <2>1, <2>2, StopOut
<1>11. CASE /\ tree' = tree \/ (tree' = opened /\ \A a \in Above(p) : opened[a] = "dir")
            /\ StopWith("io") /\ log' = [log EXCEPT ![active].faulted = TRUE]
  <2>1. tree' \in Worktrees /\ WellFormed(tree')
    BY <1>3, <1>4, <1>5, <1>11, ParentsFit
  <2>2. log' = [log EXCEPT ![it].faulted = TRUE]
    BY <1>2, <1>11
  <2>3. log'[it].faulted
    BY <1>3, <2>2 DEF HistoryInv, Log
  <2>4. Working /\ session' = session
    BY <1>2, <1>11, <2>2 DEF Working, StopWith
  <2>5. tree' \in {tree, WithParents(p)}
    BY <1>5, <1>11
  <2>6. ~log[it].edited =>
          /\ \A q \in Planned : tree'[q] = tree[q]
          /\ \A q \in Paths \ Planned : tree'[q] = tree[q] \/ Made(q)'
    BY <1>1, <1>2, <2>4, <2>5, ParentsAreMade
  <2> QED
    BY <1>1, <1>2, <1>11, <2>1, <2>2, <2>3, <2>6, StopOut
<1>12. CASE /\ \A a \in Above(p) : opened[a] = "dir"
            /\ AsPlanned(p) /\ tree' = opened /\ at' = p /\ raced' = {}
            /\ pc' = IF Goal(p) = "absent" \/ InTheWay(p) THEN "remove" ELSE "put"
            /\ UNCHANGED <<saved, edits, record, outcome, active, session, todo, changed,
                           incomplete, stop, log>>
  <2>1. opened \in Worktrees /\ WellFormed(opened)
    BY <1>3, <1>4, <1>5, <1>12, ParentsFit
  <2>2. Working /\ UNCHANGED <<record, session>> /\ plan' = plan
    BY <1>2, <1>12 DEF Working, session
  <2>3. pc' \in {"remove", "put"} /\ pc' \in During
    BY <1>12 DEF During
  <2>4. OrderInv'
    BY <1>1, <1>3, <1>12, <2>2, <2>3, OrderIsPlans DEF OrderInv, Turn, Steps, During
  <2>5. ASSUME ~log[it].edited PROVE HalfWay'
    <3>1. HalfWay
      BY <1>1, <1>2, <2>5, CalmFacts
    <3>2. /\ \A q \in Planned : tree'[q] = tree[q]
          /\ \A q \in Paths \ Planned : tree'[q] = tree[q] \/ Made(q)'
      BY <1>1, <1>2, <1>5, <1>12, <2>2, <2>5, ParentsAreMade
    <3>3. \A q \in Paths \ Planned : tree'[q] = log'[active'].base[q] \/ Made(q)'
      BY <1>2, <1>3, <1>12, <2>2, <3>1, <3>2, MadeKept DEF HalfWay
    <3>4. \A q \in todo : tree'[q] = Current(q)
      BY <1>1, <3>1, <3>2 DEF HalfWay, IInv, Shape
    <3>5. ASSUME pc' = "remove" PROVE tree' = tree
      <4>1. CASE Goal(p) = "absent"
        BY <1>12, <4>1
      <4>2. CASE InTheWay(p)
        <5>1. Current(p) # "absent"
          BY <4>2, NodesAssumption DEF InTheWay, Leaves
        <5>2. \A a \in Above(p) : tree[a] = "dir"
          BY <1>3, <1>4, <1>6, <2>5, <5>1 DEF WellFormed
        <5>3. WithParents(p) = [q \in Paths |-> tree[q]]
          BY <5>2 DEF WithParents
        <5>4. tree = [q \in Paths |-> tree[q]]
          BY <1>3 DEF Worktrees
        <5> QED
          BY <1>12, <5>3, <5>4
      <4> QED
        BY <1>12, <3>5, <4>1, <4>2
    <3>6. ASSUME ~changed, pc' = "remove" PROVE tree' = log'[active'].base
      BY <1>1, <1>2, <1>12, <3>1, <3>5, <3>6 DEF HalfWay
    <3>7. pc' = "put" => ~InTheWay(p)
      BY <1>12
    <3> QED
      BY <1>12, <2>2, <2>3, <3>1, <3>2, <3>3, <3>4, <3>6, <3>7, OrderIsPlans DEF HalfWay
  <2>6. \A a \in Above(at') : a \in raced' \/ tree'[a] = "dir"
    BY <1>12
  <2> QED
    BY <1>1, <1>2, <1>12, <2>1, <2>2, <2>3, <2>4, <2>5, <2>6, CommitStep
<1> QED
  <2>1. \/ /\ \E a \in Above(p) : tree[a] \in Leaves
           /\ StopWith("mismatch") /\ tree' = tree /\ log' = log
        \/ /\ Goal(p) = "absent" /\ ~Reached(p)
           /\ StopWith("io") /\ tree' = tree /\ log' = log
        \/ /\ \A a \in Above(p) : opened[a] = "dir"
           /\ ~AsPlanned(p) /\ StopWith("mismatch") /\ tree' = opened /\ log' = log
        \/ /\ tree' = tree \/ (tree' = opened /\ \A a \in Above(p) : opened[a] = "dir")
           /\ StopWith("io") /\ log' = [log EXCEPT ![active].faulted = TRUE]
        \/ /\ \A a \in Above(p) : opened[a] = "dir"
           /\ AsPlanned(p) /\ tree' = opened /\ at' = p /\ raced' = {}
           /\ pc' = IF Goal(p) = "absent" \/ InTheWay(p) THEN "remove" ELSE "put"
           /\ UNCHANGED <<saved, edits, record, outcome, active, session, todo, changed,
                          incomplete, stop, log>>
    BY Zenon DEF Guard
  <2> HIDE DEF opened
  <2> QED
    BY <1>8, <1>9, <1>10, <1>11, <1>12, <2>1

(* Undisturbed, what stands to be removed can be removed. *)
LEMMA CalmRemovable ==
    ASSUME IInv, OutcomeInv, NEW it \in Restores, it = active, ~log[it].edited, pc = "remove"
    PROVE  Removable(at)
<1>1. HistoryInv /\ TreeInv /\ PlanInv /\ OrderInv /\ pc \in During /\ pc \in Decision
  BY DEF OutcomeInv, During, Decision
<1>2. HalfWay /\ PlanIsTrue /\ raced = {}
  BY <1>1, CalmFacts
<1>3. at \in todo /\ at \in Planned /\ at \in Paths /\ todo \subseteq Planned /\ Planned \subseteq Paths
  BY <1>1, PlanFacts DEF IInv, Shape, GuardHolds
<1>4. tree[at] = Current(at) /\ Turn(at) /\ (Goal(at) = "absent" \/ InTheWay(at))
  BY <1>1, <1>2, <1>3 DEF HalfWay, OrderInv
<1>5. Current(at) \in Nodes /\ Current(at) # "absent"
  <2>1. InTheWay(at) => Current(at) # "absent"
    BY NodesAssumption DEF InTheWay, Leaves
  <2> QED
    BY <1>1, <1>3, <1>4, <2>1, PlanFacts
<1>6. ASSUME Current(at) = "dir", NEW b \in Below(at) PROVE tree[b] = "absent"
  <2>1. Goal(at) # "dir"
    BY <1>4, <1>6, NodesAssumption DEF InTheWay, Leaves
  <2>2. \A q \in Below(at) : IF q \in Planned THEN Goal(q) = "absent" ELSE log[it].base[q] = "absent"
    BY <1>2, <1>3, <1>6, <2>1 DEF PlanIsTrue
  <2>3. b \in Paths /\ at \in Above(b)
    BY <1>3, BelowAbove
  <2>4. CASE b \in todo
    <3>1. Goal(b) = "absent"
      BY <1>3, <2>2, <2>4
    <3>2. Len(at) < Len(b) /\ Len(at) \in Nat /\ Len(b) \in Nat
      BY <2>3, AboveChain
    <3>3. Precedes(at, b)
      BY <1>4, <2>4, <3>2 DEF Turn
    <3>4. Rank(b) \in {1, 2} /\ Rank(at) \in {2, 3}
      BY <1>6, <3>1 DEF Rank
    <3> QED
      BY <3>2, <3>3, <3>4 DEF Precedes
  <2>5. CASE b \in Planned \ todo
    BY <1>2, <2>2, <2>5 DEF HalfWay
  <2>6. CASE b \notin Planned
    <3>1. log[it].base[b] = "absent"
      BY <2>2, <2>6
    <3>2. ~Made(b)
      <4>1. ASSUME NEW q \in Below(b), q \in Planned PROVE Goal(q) = "absent"
        <5>1. q \in Paths /\ b \in Above(q)
          BY <2>3, <4>1, BelowAbove
        <5>2. q \in Below(at)
          BY <1>3, <2>3, <5>1, AboveChain, BelowAbove
        <5> QED
          BY <2>2, <4>1, <5>2
      <4> QED
        BY <4>1 DEF Made
    <3> QED
      BY <1>2, <2>3, <2>6, <3>1, <3>2 DEF HalfWay
  <2> QED
    BY <2>4, <2>5, <2>6
<1> QED
  BY <1>2, <1>4, <1>5, <1>6 DEF Removable, Opened, IsEmpty, Nodes

(* A node that goes leaves a worktree that hangs together. *)
LEMMA RemovedFits ==
    ASSUME tree \in Worktrees, WellFormed(tree), NEW p \in Paths, Removable(p),
           tree' = [tree EXCEPT ![p] = "absent"]
    PROVE  tree' \in Worktrees /\ WellFormed(tree')
<1>1. tree' \in Worktrees
  BY DEF Worktrees, Nodes
<1>2. ASSUME NEW q \in Below(p) PROVE tree[q] = "absent"
  <2>1. q \in Paths /\ p \in Above(q)
    BY <1>2, BelowAbove
  <2> QED
    BY <1>2, <2>1, NodesAssumption DEF Removable, IsEmpty, WellFormed, Leaves
<1>3. ASSUME NEW q \in Paths, tree'[q] # "absent", NEW b \in Above(q) PROVE tree'[b] = "dir"
  <2>1. q # p /\ tree[q] # "absent" /\ b \in Paths
    BY <1>3, AboveChain DEF Worktrees
  <2>2. tree[b] = "dir"
    BY <1>3, <2>1 DEF WellFormed
  <2>3. b # p
    BY <1>2, <1>3, <2>1, BelowAbove
  <2> QED
    BY <2>1, <2>2, <2>3 DEF Worktrees
<1> QED
  BY <1>1, <1>3 DEF WellFormed

(* A step of a commit keeps the order as long as it takes from what is left  *)
(* only what has its turn.                                                   *)
LEMMA OrderKept ==
    ASSUME OrderInv, NEW p, Turn(p), plan' = plan, todo' = todo \ {p}, pc \in During,
           pc' = "commit", changed' = TRUE
    PROVE  OrderInv'
<1>1. \A q \in Planned \ todo', q2 \in todo' : Precedes(q, q2)
  BY DEF OrderInv, Turn
<1> QED
  BY <1>1, OrderIsPlans DEF OrderInv, Steps, During

LEMMA RemoveOut == ASSUME IInv, OutcomeInv, Remove PROVE OutcomeInv'
<1>1. pc = "remove" /\ pc \in During /\ pc \in Decision
  BY DEF Remove, During, Decision
<1>2. PICK it \in Restores : it = active
  BY <1>1 DEF IInv, Shape
<1>3. HistoryInv /\ TreeInv /\ PlanInv /\ OrderInv /\ tree \in Worktrees /\ WellFormed(tree)
  BY DEF OutcomeInv, TreeInv
<1>4. at \in todo /\ at \in Planned /\ at \in Paths /\ todo \subseteq Planned /\ Planned \subseteq Paths
  BY <1>1, <1>3, PlanFacts DEF IInv, Shape, GuardHolds
<1>5. ASSUME ~log[it].edited PROVE HalfWay /\ raced = {} /\ Removable(at)
  BY <1>1, <1>2, <1>5, CalmFacts, CalmRemovable
<1>6. CASE Removable(at) /\ tree' = [tree EXCEPT ![at] = "absent"] /\ Goal(at) = "absent" /\ Done(at)
  <2>1. /\ todo' = todo \ {at} /\ raced' = {} /\ pc' = "commit" /\ changed' = TRUE
        /\ UNCHANGED <<saved, edits, record, outcome, active, session, log>>
    BY <1>6 DEF Done
  <2>2. Working /\ UNCHANGED <<record, session>> /\ plan' = plan
    BY <1>2, <2>1 DEF Working, session
  <2>3. tree' \in Worktrees /\ WellFormed(tree')
    BY <1>3, <1>4, <1>6, RemovedFits
  <2>4. OrderInv'
    BY <1>1, <1>3, <2>1, <2>2, OrderKept DEF OrderInv
  <2>5. ASSUME ~log[it].edited PROVE HalfWay'
    <3>1. \A q \in Paths \ {at} : tree'[q] = tree[q]
      BY <1>3, <1>6 DEF Worktrees
    <3>2. tree'[at] = Goal(at)
      BY <1>3, <1>4, <1>6 DEF Worktrees
    <3>3. HalfWay
      BY <1>5, <2>5
    <3>4. \A q \in Planned \ todo' : tree'[q] = Goal(q)
      BY <1>4, <2>1, <3>1, <3>2, <3>3 DEF HalfWay
    <3>5. \A q \in todo' : tree'[q] = Current(q)
      BY <1>1, <1>4, <2>1, <3>1, <3>3 DEF HalfWay
    <3>6. \A q \in Paths \ Planned : tree'[q] = log'[active'].base[q] \/ Made(q)'
      BY <1>2, <1>3, <1>4, <2>1, <2>2, <3>1, <3>3, MadeKept DEF HalfWay
    <3> QED
      BY <2>1, <2>2, <3>4, <3>5, <3>6, OrderIsPlans DEF HalfWay
  <2>6. pc' \in During /\ pc' \notin {"remove", "put"}
    BY <2>1 DEF During
  <2> QED
    BY <1>1, <1>2, <2>1, <2>2, <2>3, <2>4, <2>5, <2>6, CommitStep
<1>7. CASE /\ Removable(at) /\ tree' = [tree EXCEPT ![at] = "absent"] /\ Goal(at) # "absent"
           /\ changed' = TRUE /\ pc' = "put"
           /\ UNCHANGED <<saved, edits, record, outcome, active, session, todo, at, stop, raced, log>>
  <2>1. Working /\ UNCHANGED <<record, session>> /\ plan' = plan
    BY <1>2, <1>7 DEF Working, session
  <2>2. tree' \in Worktrees /\ WellFormed(tree')
    BY <1>3, <1>4, <1>7, RemovedFits
  <2>3. OrderInv'
    BY <1>1, <1>3, <1>7, <2>1, OrderIsPlans DEF OrderInv, Steps, Turn, During
  <2>4. \A q \in Paths \ {at} : tree'[q] = tree[q]
    BY <1>3, <1>7 DEF Worktrees
  <2>5. tree'[at] = "absent"
    BY <1>3, <1>4, <1>7 DEF Worktrees
  <2>6. ASSUME ~log[it].edited PROVE raced' = {} /\ HalfWay'
    <3>1. HalfWay /\ raced = {}
      BY <1>5, <2>6
    <3>2. \A q \in Planned \ todo' : tree'[q] = Goal(q)
      BY <1>4, <1>7, <2>4, <3>1 DEF HalfWay
    <3>3. \A q \in todo' : tree'[q] = Current(q) \/ q = at
      BY <1>1, <1>4, <1>7, <2>4, <3>1 DEF HalfWay
    <3>4. \A q \in Paths \ Planned : tree'[q] = log'[active'].base[q] \/ Made(q)'
      BY <1>2, <1>3, <1>4, <1>7, <2>1, <2>4, <3>1, MadeKept DEF HalfWay
    <3>5. InTheWay(at)
      BY <1>1, <1>3, <1>7 DEF OrderInv
    <3> QED
      BY <1>7, <2>1, <2>5, <3>1, <3>2, <3>3, <3>4, <3>5, OrderIsPlans DEF HalfWay
  <2>7. ASSUME NEW a \in Above(at) PROVE a \in raced' \/ tree'[a] = "dir"
    BY <1>1, <1>3, <1>4, <1>7, <2>4, <2>7, NotAboveItself, AboveChain DEF TreeInv
  <2>8. pc' \in During /\ at' = at
    BY <1>7 DEF During
  <2> QED
    BY <1>1, <1>2, <2>1, <2>2, <2>3, <2>6, <2>7, <2>8, CommitStep
<1>8. CASE /\ ~Removable(at) /\ tree' = tree /\ log' = log
           /\ StopWith(IF Mismatched(at) THEN "mismatch" ELSE "io")
  <2>1. log[it].edited
    BY <1>3, <1>5, <1>8 DEF HistoryInv, Log
  <2> QED
    BY <1>1, <1>2, <1>3, <1>8, <2>1, StopOut
<1>9. CASE StopWith("io") /\ tree' = tree /\ log' = [log EXCEPT ![active].faulted = TRUE]
  <2>1. log' = [log EXCEPT ![it].faulted = TRUE]
    BY <1>2, <1>9
  <2>2. log'[it].faulted
    BY <1>3, <2>1 DEF HistoryInv, Log
  <2> QED
    BY <1>1, <1>2, <1>3, <1>9, <2>2, StopOut
<1> QED
  BY <1>6, <1>7, <1>8, <1>9 DEF Remove

(* Undisturbed, what stands to be put can be put. *)
LEMMA CalmPuttable ==
    ASSUME IInv, OutcomeInv, NEW it \in Restores, it = active, ~log[it].edited, pc = "put"
    PROVE  Puttable(at)
<1>1. HistoryInv /\ TreeInv /\ PlanInv /\ OrderInv /\ pc \in During /\ pc \in Decision
  BY DEF OutcomeInv, During, Decision
<1>2. HalfWay /\ raced = {}
  BY <1>1, CalmFacts
<1>3. at \in todo /\ at \in Planned
  BY <1>1 DEF IInv, Shape, GuardHolds
<1>4. Goal(at) # "absent" /\ Goal(at) \in Nodes /\ Current(at) \in Nodes
  BY <1>1, <1>3, PlanFacts DEF OrderInv
<1>5. InTheWay(at) => tree[at] = "absent"
  BY <1>1, <1>2 DEF HalfWay
<1>6. ~InTheWay(at) => tree[at] = Current(at)
  BY <1>1, <1>2, <1>3 DEF HalfWay
<1> QED
  BY <1>2, <1>4, <1>5, <1>6, NodesAssumption DEF Puttable, Opened, InTheWay, Nodes, Leaves

LEMMA PutOut == ASSUME IInv, OutcomeInv, Put PROVE OutcomeInv'
<1>1. pc = "put" /\ pc \in During /\ pc \in Decision
  BY DEF Put, During, Decision
<1>2. PICK it \in Restores : it = active
  BY <1>1 DEF IInv, Shape
<1>3. HistoryInv /\ TreeInv /\ PlanInv /\ OrderInv /\ tree \in Worktrees /\ WellFormed(tree)
  BY DEF OutcomeInv, TreeInv
<1>4. at \in todo /\ at \in Planned /\ at \in Paths /\ todo \subseteq Planned /\ Planned \subseteq Paths
  BY <1>1, <1>3, PlanFacts DEF IInv, Shape, GuardHolds
<1>5. ASSUME ~log[it].edited PROVE HalfWay /\ Puttable(at)
  BY <1>1, <1>2, <1>5, CalmFacts, CalmPuttable
<1>6. CASE /\ Puttable(at) /\ tree' = [tree EXCEPT ![at] = Goal(at)]
           /\ todo' = todo \ {at} /\ at' = Nobody /\ raced' = {} /\ pc' = "commit"
           /\ changed' = TRUE
           /\ UNCHANGED <<saved, edits, record, outcome, active, session, stop, log>>
  <2>1. Working /\ UNCHANGED <<record, session>> /\ plan' = plan
    BY <1>2, <1>6 DEF Working, session
  <2>2. Goal(at) \in Nodes /\ Goal(at) # "absent"
    BY <1>1, <1>3, <1>4, PlanFacts DEF OrderInv
  <2>3. tree' \in Worktrees /\ tree'[at] = Goal(at) /\ \A q \in Paths \ {at} : tree'[q] = tree[q]
    BY <1>3, <1>4, <1>6, <2>2 DEF Worktrees
  <2>4. WellFormed(tree')
    <3> SUFFICES ASSUME NEW q \in Paths, tree'[q] # "absent", NEW b \in Above(q)
                 PROVE  tree'[b] = "dir"
      BY DEF WellFormed
    <3>1. b \in Paths
      BY AboveChain
    <3>2. CASE q = at
      <4>1. tree[b] = "dir" /\ b # at
        BY <1>1, <1>3, <1>4, <1>6, <3>2, NotAboveItself DEF TreeInv, Puttable, Opened
      <4> QED
        BY <2>3, <3>1, <4>1
    <3>3. CASE q # at
      <4>1. tree[b] = "dir"
        BY <1>3, <2>3, <3>3 DEF WellFormed
      <4>2. b = at => Goal(at) = "dir"
        BY <1>6, <4>1 DEF Puttable
      <4> QED
        BY <2>3, <3>1, <4>1, <4>2
    <3> QED
      BY <3>2, <3>3
  <2>5. OrderInv'
    BY <1>1, <1>3, <1>6, <2>1, OrderKept DEF OrderInv
  <2>6. ASSUME ~log[it].edited PROVE HalfWay'
    <3>1. HalfWay
      BY <1>5, <2>6
    <3>2. \A q \in Planned \ todo' : tree'[q] = Goal(q)
      BY <1>4, <1>6, <2>3, <3>1 DEF HalfWay
    <3>3. \A q \in todo' : tree'[q] = Current(q)
      BY <1>1, <1>4, <1>6, <2>3, <3>1 DEF HalfWay
    <3>4. \A q \in Paths \ Planned : tree'[q] = log'[active'].base[q] \/ Made(q)'
      BY <1>2, <1>3, <1>4, <1>6, <2>1, <2>3, <3>1, MadeKept DEF HalfWay
    <3> QED
      BY <1>6, <2>1, <3>2, <3>3, <3>4, OrderIsPlans DEF HalfWay
  <2>7. pc' \in During /\ pc' \notin {"remove", "put"}
    BY <1>6 DEF During
  <2> QED
    BY <1>1, <1>2, <1>6, <2>1, <2>3, <2>4, <2>5, <2>6, <2>7, CommitStep
<1>7. CASE /\ ~Puttable(at) /\ tree' = tree /\ log' = log
           /\ StopWith(IF Opened(at) /\ Goal(at) = "dir" THEN "mismatch" ELSE "io")
  <2>1. log[it].edited
    BY <1>3, <1>5, <1>7 DEF HistoryInv, Log
  <2> QED
    BY <1>1, <1>2, <1>3, <1>7, <2>1, StopOut
<1>8. CASE StopWith("io") /\ tree' = tree /\ log' = [log EXCEPT ![active].faulted = TRUE]
  <2>1. log' = [log EXCEPT ![it].faulted = TRUE]
    BY <1>2, <1>8
  <2>2. log'[it].faulted
    BY <1>3, <2>1 DEF HistoryInv, Log
  <2> QED
    BY <1>1, <1>2, <1>3, <1>8, <2>2, StopOut
<1> QED
  BY <1>6, <1>7, <1>8 DEF Put

LEMMA CancelOut == ASSUME IInv, OutcomeInv, Cancel PROVE OutcomeInv'
<1>1. /\ pc = "commit" /\ StopWith("cancelled") /\ tree' = tree
      /\ log' = [log EXCEPT ![active].faulted = TRUE]
  BY DEF Cancel
<1>2. PICK it \in Restores : it = active
  BY <1>1 DEF IInv, Shape
<1>3. HistoryInv /\ tree \in Worktrees /\ WellFormed(tree)
  BY DEF OutcomeInv, TreeInv
<1>4. log' = [log EXCEPT ![it].faulted = TRUE]
  BY <1>1, <1>2
<1>5. log'[it].faulted
  BY <1>3, <1>4 DEF HistoryInv, Log
<1> QED
  BY <1>1, <1>2, <1>3, <1>5, StopOut

LEMMA EndPassesOut == ASSUME IInv, OutcomeInv, EndPasses PROVE OutcomeInv'
<1>1. /\ pc = "commit" /\ todo = {} /\ pc' = "finish"
      /\ UNCHANGED <<world, record, outcome, active, session, commit, log>>
  BY DEF EndPasses
<1>2. PICK it \in Restores : it = active
  BY <1>1 DEF IInv, Shape
<1>3. HistoryInv /\ OrderInv /\ tree \in Worktrees /\ WellFormed(tree)
  BY DEF OutcomeInv, TreeInv
<1>4. Working /\ UNCHANGED <<record, session>> /\ plan' = plan
  BY <1>1, <1>2 DEF Working, world, session
<1>5. pc \in During /\ pc' \in During
  BY <1>1 DEF During
<1>6. OrderInv'
  BY <1>1, <1>3, <1>4, <1>5, OrderIsPlans DEF OrderInv, Steps, commit
<1>7. ASSUME ~log[it].edited PROVE raced' = {} /\ HalfWay'
  <2>1. HalfWay /\ raced = {}
    BY <1>2, <1>5, <1>7, CalmFacts
  <2>2. \A q \in Paths \ Planned : tree'[q] = log'[active'].base[q] \/ Made(q)'
    BY <1>1, <1>3, <1>4, <2>1, MadeKept DEF HalfWay, world
  <2> QED
    BY <1>1, <1>4, <2>1, <2>2, OrderIsPlans DEF HalfWay, world, commit
<1> QED
  BY <1>1, <1>2, <1>3, <1>4, <1>5, <1>6, <1>7, CommitStep DEF world

(* An undisturbed commit that completed no operation made directories at most. *)
LEMMA UnchangedHonest ==
    ASSUME IInv, OutcomeInv, pc = "finish", ~changed,
           NEW x \in {"conflict", "cancelled", "error"}, Ending(x), x = "error" \/ stop # "io",
           NEW it \in Restores, it = active, ~log[it].edited, NEW p \in Paths
    PROVE  HonestAt(it, p)'
<1>1. HistoryInv /\ TreeInv /\ PlanInv /\ OrderInv /\ tree \in Worktrees
  BY DEF OutcomeInv, TreeInv
<1>2. pc \in During /\ pc \in Decision
  BY DEF During, Decision
<1>3. HalfWay /\ PlanIsTrue /\ todo = Planned
  BY <1>1, <1>2, CalmFacts DEF OrderInv
<1>4. CASE stop # "io"
  <2>1. tree = log[it].base
    BY <1>3, <1>4 DEF HalfWay
  <2> QED
    BY <1>1, <2>1, EndingSame
<1>5. CASE x = "error"
  <2>1. /\ outcome'[it] = x /\ log'[it].final = tree /\ log'[it].base = log[it].base
        /\ record'[it] \in {record[it], NoRecord}
    BY <1>1, EndingLog, EndingOthers
  <2>2. \A q : Want(log[it].source, q)' = Desired(q)
    BY <1>1, <1>2, EndingWant, PlanFacts DEF Desired, Source
  <2>3. DOMAIN record[it] = Planned
    BY DEF IInv, RecordCoversPlan, Captured
  <2>4. CASE p \in Planned
    <3>1. tree[p] = log[it].base[p]
      BY <1>3, <2>4 DEF HalfWay, PlanIsTrue
    <3> QED
      BY <1>5, <2>1, <3>1 DEF HonestAt
  <2>5. CASE p \notin Planned
    <3>1. tree[p] = log[it].base[p] \/ Made(p)
      BY <1>3, <2>5 DEF HalfWay
    <3>2. Made(p) => log[it].base[p] = "absent" /\ tree[p] = "dir"
      BY DEF Made
    <3>3. Made(p) /\ record'[it] = record[it] => MadeAbove(it, p)'
      BY <1>1, <1>2, <2>1, <2>2, <2>3, <2>5, PlanFacts DEF Made, MadeAbove
    <3> QED
      BY <1>5, <2>1, <3>1, <3>2, <3>3 DEF HonestAt
  <2> QED
    BY <2>4, <2>5
<1> QED
  BY <1>4, <1>5

LEMMA FinishCommitOut == ASSUME IInv, OutcomeInv, FinishCommit PROVE OutcomeInv'
<1>1. pc = "finish" /\ pc \in During /\ pc \in Decision
  BY DEF FinishCommit, During, Decision
<1>2. PICK it \in Restores : it = active
  BY <1>1 DEF IInv, Shape
<1>3. HistoryInv /\ TreeInv /\ PlanInv /\ OrderInv /\ tree \in Worktrees
  BY DEF OutcomeInv, TreeInv
<1>4. CASE changed /\ Leave(AppliedOrPartial)
  BY <1>1, <1>4, LeaveLateOut DEF AppliedOrPartial
<1>5. ASSUME NEW x \in {"conflict", "cancelled", "error"}, ~changed, DropRecovery(x),
             x = "error" \/ stop # "io"
      PROVE  OutcomeInv'
  <2>1. CASE LeaveFaulted("error")
    <3>1. Ending("error") /\ log'[it].faulted
      BY <1>2, <1>3, <2>1, FaultedEnds DEF Outcomes, HistoryInv
    <3>2. ASSUME ~log[it].edited, NEW p \in Paths PROVE HonestAt(it, p)'
      BY <1>1, <1>2, <1>5, <3>1, <3>2, UnchangedHonest
    <3> QED
      BY <1>2, <3>1, <3>2, EndingOut
  <2>2. CASE Ending(x)
    <3>1. ASSUME ~log[it].edited, NEW p \in Paths PROVE HonestAt(it, p)'
      BY <1>1, <1>2, <1>5, <2>2, <3>1, UnchangedHonest
    <3>2. ASSUME ~log[it].edited, ~log'[it].faulted, ~Hampered(it) PROVE FALSE
      <4>1. ~log[it].faulted
        BY <1>3, <2>2, <3>2, EndingLog
      <4>2. todo = {}
        BY <1>1, <1>2, <3>2, <4>1, CalmFacts DEF HalfWay, Hampered
      <4>3. todo = Planned
        BY <1>1, <1>3, <1>5 DEF OrderInv
      <4> QED
        BY <1>1, <1>3, <4>2, <4>3, PlanFacts
    <3> QED
      BY <1>2, <2>2, <3>1, <3>2, EndingOut
  <2> QED
    BY <1>2, <1>3, <1>5, <2>1, <2>2, DropRecoveryEnds DEF HistoryInv
<1> DEFINE result == CASE stop = "io" -> "error"
                       [] stop = "cancelled" -> "cancelled"
                       [] OTHER -> "conflict"
<1>6. result \in {"conflict", "cancelled", "error"} /\ (result = "error" \/ stop # "io")
  OBVIOUS
<1> HIDE DEF result
<1>7. CASE ~changed /\ DropRecovery(result)
  BY <1>5, <1>6, <1>7
<1> QED
  BY <1>4, <1>7 DEF FinishCommit, result

LEMMA OutcomeStep == IInv /\ IInv' /\ OutcomeInv /\ [Next]_vars => OutcomeInv'
  BY EditOut, BeginOut, MakePlanOut, StageAllOut, PublishRecoveryOut, RevalidateOut, GiveUpOut,
     GuardOut, RemoveOut, PutOut, CancelOut, EndPassesOut, FinishCommitOut, CrashOut, StutterOut
     DEF Next

LEMMA OutcomeInit == Init => OutcomeInv
<1> SUFFICES ASSUME Init PROVE OutcomeInv
  OBVIOUS
<1>1. [p \in Paths |-> "absent"] \in Worktrees
  BY DEF Worktrees, Nodes
<1>2. NoLog \in Log
  BY <1>1 DEF NoLog, Log
<1>3. /\ log = [r \in Restores |-> NoLog] /\ outcome = [r \in Restores |-> "none"]
      /\ record = [r \in Restores |-> NoRecord] /\ active = Nobody /\ pc = "idle"
      /\ at = Nobody /\ raced = {} /\ changed = FALSE
  BY DEF Init
<1>4. HistoryInv
  BY <1>2, <1>3, OthersAssumption DEF HistoryInv, RecordFits, NoRecord, Outcomes
<1>5. tree \in Worktrees /\ WellFormed(tree)
  BY DEF Init
<1>6. saved.tree \in Worktrees /\ WellFormed(saved.tree)
  <2>1. PICK t \in Worktrees, h \in Policies :
          WellFormed(t) /\ saved = [tree |-> Observe(t, h), hidden |-> h]
    BY DEF Init
  <2>2. saved.tree = [p \in Paths |-> IF p \in h THEN "absent" ELSE t[p]]
    BY <2>1 DEF Observe
  <2>3. saved.tree \in Worktrees
    BY <2>1, <2>2 DEF Worktrees, Nodes
  <2>4. ASSUME NEW p \in Paths, saved.tree[p] # "absent", NEW a \in Above(p)
        PROVE  saved.tree[a] = "dir"
    <3>1. a \in Paths /\ p \in Below(a)
      BY AboveChain, BelowAbove
    <3>2. p \notin h /\ t[p] # "absent"
      BY <2>2, <2>4
    <3>3. a \notin h
      BY <3>1, <3>2, PathsAssumption
    <3> QED
      BY <2>1, <2>2, <2>4, <3>1, <3>2, <3>3 DEF WellFormed
  <2> QED
    BY <2>3, <2>4 DEF WellFormed
<1>7. OutcomesAreRight
  BY <1>3 DEF OutcomesAreRight, OutcomesAreHonest, QuietApplySucceeds, Finished
<1>8. TreeInv /\ PlanInv /\ OrderInv /\ CalmInv
  BY <1>3, <1>5, <1>6 DEF TreeInv, PlanInv, OrderInv, CalmInv, Decision, During, Steps
<1> QED
  BY <1>4, <1>7, <1>8 DEF OutcomeInv

(* For any worktrees, records and restores: what a restore reports is what   *)
(* became of the worktree, and nothing but a fault, an edit, a death or an   *)
(* obstruction keeps one whose plan was allowed from being applied.          *)
THEOREM OutcomesRight == Spec => []OutcomesAreRight
<1>1. OutcomeInv => OutcomesAreRight
  BY DEF OutcomeInv
<1> QED
  BY <1>1, OutcomeInit, OutcomeStep, Invariance, PTL DEF Spec

-----------------------------------------------------------------------------
(* The plans and the records of restores, and the undo.                      *)

(* All but one restore stand still in a step. *)
OthersStand(it) ==
    /\ saved' = saved /\ active \in {it, Nobody} /\ ~Finished(it)
    /\ \A r \in Restores \ {it} :
         log'[r] = log[r] /\ record'[r] = record[r] /\ outcome'[r] = outcome[r]

(* What was asked of a restore and what it was asked from. *)
Asking(it) ==
    /\ log'[it].source = log[it].source /\ log'[it].selection = log[it].selection
    /\ log'[it].base = log[it].base

LEMMA Settled ==
    ASSUME HistoryInv, NEW it \in Restores, OthersStand(it),
           NEW r \in Restores, outcome[r] # "none", r = it => Asking(it)
    PROVE  /\ \A p : Want(log[r].source, p)' = Want(log[r].source, p)
           /\ Asking(r) /\ ScopeOf(r)' = ScopeOf(r) /\ SeenBy(r)' = SeenBy(r)
           /\ CandidatesOf(r)' = CandidatesOf(r)
<1>1. Asking(r)
  BY DEF Asking, OthersStand
<1>2. log[r].source = "checkpoint" \/ (log[r].source \in Restores /\ log[r].source # it)
  BY DEF HistoryInv, SourceHasEnded, OthersStand
<1>3. log[r].source = "checkpoint" \/ record'[log[r].source] = record[log[r].source]
  BY <1>2 DEF OthersStand
<1>4. \A p : Want(log[r].source, p)' = Want(log[r].source, p)
  BY <1>1, <1>3 DEF Want, Asking, OthersStand
<1>5. ScopeOf(r)' = ScopeOf(r)
  BY <1>1, <1>3 DEF ScopeOf, Asking
<1>6. SeenBy(r)' = SeenBy(r)
  BY <1>1 DEF SeenBy, Asking
<1> QED
  BY <1>1, <1>4, <1>5, <1>6 DEF CandidatesOf, Asking

LEMMA UndoesKept ==
    ASSUME HistoryInv, NEW it \in Restores, OthersStand(it),
           NEW r \in Restores, Finished(r), NEW x \in Restores, Finished(x)
    PROVE  /\ Undoes(r, x)' <=> Undoes(r, x)
           /\ OutOfReach(x)' <=> OutOfReach(x)
<1>1. r # it /\ x # it /\ outcome[x] # "none"
  BY DEF OthersStand, Finished
<1>2. log'[r] = log[r] /\ log'[x] = log[x] /\ record'[x] = record[x]
  BY <1>1 DEF OthersStand
<1>3. \A p : Want(log[x].source, p)' = Want(log[x].source, p)
  BY <1>1, Settled
<1> QED
  BY <1>2, <1>3 DEF Undoes, OutOfReach

LEMMA UndoKept ==
    ASSUME HistoryInv, UndoInv, NEW it \in Restores, OthersStand(it),
           WellFormed(log'[it].base), record'[it] # NoRecord => RecordIsWhole(it)',
           PlanWasRight(it)',
           log'[it].source \in Restores => record'[log'[it].source] # NoRecord,
           PlanIsWhole'
    PROVE  UndoInv'
<1> SUFFICES ASSUME NEW r \in Restores
             PROVE  /\ WellFormed(log'[r].base)
                    /\ record'[r] # NoRecord => RecordIsWhole(r)'
                    /\ PlanWasRight(r)'
                    /\ outcome'[r] # "none" /\ log'[r].source \in Restores =>
                         record'[log'[r].source] # NoRecord
  BY DEF UndoInv, WellFormed
<1>1. CASE r = it
  BY <1>1
<1>2. CASE r # it
  <2>1. log'[r] = log[r] /\ record'[r] = record[r] /\ outcome'[r] = outcome[r]
    BY <1>2 DEF OthersStand
  <2>2. outcome[r] = "none" \/ Finished(r)
    BY <1>2, OthersAssumption DEF OthersStand, HistoryInv, Finished
  <2>3. WellFormed(log'[r].base)
    BY <2>1 DEF UndoInv
  <2>4. CASE outcome[r] = "none"
    <3>1. record[r] = NoRecord
      BY <2>4 DEF HistoryInv
    <3> QED
      BY <2>1, <2>3, <2>4, <3>1 DEF PlanWasRight
  <2>5. CASE Finished(r)
    <3>1. outcome[r] # "none"
      BY <2>5 DEF Finished
    <3>2. CandidatesOf(r)' = CandidatesOf(r) /\ SeenBy(r)' = SeenBy(r)
      BY <1>2, <3>1, Settled
    <3>3. record'[r] # NoRecord => RecordIsWhole(r)'
      BY <2>1, <3>2 DEF UndoInv, RecordIsWhole
    <3>4. log[r].source \in Restores => Finished(log[r].source)
      BY <3>1, OthersAssumption DEF HistoryInv, SourceHasEnded
    <3>5. ASSUME NEW x \in Restores, Undoes(r, x)' PROVE Undoes(r, x) /\ (OutOfReach(x) => OutOfReach(x)')
      <4>1. log[r].source = x
        BY <2>1, <3>5 DEF Undoes
      <4> QED
        BY <2>5, <3>4, <3>5, <4>1, UndoesKept
    <3>6. PlanWasRight(r)'
      BY <2>1, <3>2, <3>5 DEF UndoInv, PlanWasRight
    <3>7. log'[r].source \in Restores => record'[log'[r].source] # NoRecord
      <4>1. log[r].source \in Restores => log[r].source # it /\ record[log[r].source] # NoRecord
        BY <3>1, <3>4 DEF OthersStand, UndoInv
      <4> QED
        BY <2>1, <4>1 DEF OthersStand
    <3> QED
      BY <2>3, <3>3, <3>6, <3>7
  <2> QED
    BY <2>2, <2>4, <2>5
<1> QED
  BY <1>1, <1>2

LEMMA WorkingStands ==
    ASSUME HistoryInv, Working, NEW it \in Restores, it = active
    PROVE  OthersStand(it) /\ Asking(it) /\ outcome[it] # "none"
<1>1. outcome[it] = "running"
  BY DEF HistoryInv
<1> QED
  BY <1>1, WorkingLog DEF Working, OthersStand, Asking, Finished

LEMMA EndingStands ==
    ASSUME IInv, HistoryInv, tree \in Worktrees, NEW x, Ending(x), NEW it \in Restores, it = active
    PROVE  OthersStand(it) /\ Asking(it) /\ outcome[it] # "none" /\ log'[it].edited = log[it].edited
<1>1. outcome[it] = "running"
  BY DEF HistoryInv
<1>2. saved' = saved
  BY DEF Ending, EndWith, world
<1> QED
  BY <1>1, <1>2, EndingLog, EndingOthers DEF OthersStand, Asking, Finished

(* A step of a restore under way keeps all this if its plan and record do. *)
LEMMA WorkingUndo ==
    ASSUME HistoryInv, UndoInv, Working, NEW it \in Restores, it = active,
           record'[it] = record[it] \/ RecordIsWhole(it)', PlanIsWhole'
    PROVE  UndoInv'
<1>1. OthersStand(it) /\ Asking(it) /\ outcome[it] # "none"
  BY WorkingStands
<1>2. WellFormed(log'[it].base)
  BY <1>1 DEF UndoInv, Asking
<1>3. CandidatesOf(it)' = CandidatesOf(it) /\ SeenBy(it)' = SeenBy(it)
  BY <1>1, Settled
<1>4. record'[it] # NoRecord => RecordIsWhole(it)'
  <2>1. CASE record'[it] = record[it]
    <3>1. log'[it].base = log[it].base /\ (~log'[it].edited => ~log[it].edited)
      BY WorkingLog
    <3> QED
      BY <1>3, <2>1, <3>1 DEF UndoInv, RecordIsWhole
  <2> QED
    BY <2>1
<1>5. PlanWasRight(it)'
  <2>1. outcome'[it] = "running"
    BY DEF HistoryInv, Working
  <2> QED
    BY <2>1 DEF PlanWasRight
<1>6. log'[it].source \in Restores => record'[log'[it].source] # NoRecord
  BY <1>1, SourceIsAnother DEF UndoInv, Asking, OthersStand
<1> QED
  BY <1>1, <1>2, <1>4, <1>5, <1>6, UndoKept

LEMMA EndingUndo ==
    ASSUME IInv, OutcomeInv, UndoInv, NEW x, Ending(x), NEW it \in Restores, it = active,
           PlanWasRight(it)'
    PROVE  UndoInv'
<1>0. HistoryInv /\ tree \in Worktrees
  BY DEF OutcomeInv, TreeInv
<1>1. OthersStand(it) /\ Asking(it) /\ outcome[it] # "none" /\ log'[it].edited = log[it].edited
  BY <1>0, EndingStands
<1>2. WellFormed(log'[it].base)
  BY <1>1 DEF UndoInv, Asking
<1>3. CandidatesOf(it)' = CandidatesOf(it) /\ SeenBy(it)' = SeenBy(it)
  BY <1>0, <1>1, Settled
<1>4. record'[it] # NoRecord => RecordIsWhole(it)'
  <2>1. record'[it] \in {record[it], NoRecord}
    BY <1>0, EndingOthers
  <2> QED
    BY <1>1, <1>3, <2>1 DEF UndoInv, RecordIsWhole, Asking
<1>5. log'[it].source \in Restores => record'[log'[it].source] # NoRecord
  BY <1>0, <1>1, SourceIsAnother DEF UndoInv, Asking, OthersStand
<1>6. PlanIsWhole'
  <2>1. pc' = "idle"
    BY DEF Ending, EndWith
  <2> QED
    BY <2>1 DEF PlanIsWhole, Decision, During
<1> QED
  BY <1>0, <1>1, <1>2, <1>4, <1>5, <1>6, UndoKept

LEMMA PlanIsTheirs ==
    ASSUME PlanInv, pc # "idle", NEW it \in Restores, it = active
    PROVE  Candidates = CandidatesOf(it) /\ seen = SeenBy(it)
  BY DEF PlanInv, Candidates, CandidatesOf, Decided, InScope, ScopeOf, Desired, Source, SeenBy

LEMMA WholeKept ==
    ASSUME HistoryInv, PlanIsWhole, Working, session' = session, pc' \in Decision => pc \in Decision
    PROVE  PlanIsWhole'
<1>1. plan' = plan /\ seen' = seen /\ active' = active
  BY DEF session, Working
<1>2. log'[active].base = log[active].base /\ (~log'[active].edited => ~log[active].edited)
  BY WorkingLog DEF Working
<1> QED
  BY <1>1, <1>2, OrderIsPlans DEF PlanIsWhole

(* A step that ends a restore otherwise than by calling it done or refused. *)
LEMMA EndingPlain ==
    ASSUME IInv, OutcomeInv, UndoInv, NEW x, Ending(x), NEW it \in Restores, it = active,
           x \notin {"no-op", "applied"}, x = "refused" => log[it].edited \/ log'[it].faulted
    PROVE  UndoInv'
<1>1. outcome'[it] = x /\ log'[it].edited = log[it].edited
  BY EndingOthers, EndingLog DEF OutcomeInv, TreeInv
<1>2. PlanWasRight(it)'
  BY <1>1 DEF PlanWasRight
<1> QED
  BY <1>2, EndingUndo

LEMMA FaultedUndo ==
    ASSUME IInv, OutcomeInv, UndoInv, NEW x \in {"refused", "error"}, LeaveFaulted(x),
           active \in Restores
    PROVE  UndoInv'
<1>1. PICK it \in Restores : it = active
  OBVIOUS
<1>2. Ending(x) /\ log'[it].faulted
  BY <1>1, FaultedEnds DEF Outcomes, OutcomeInv, HistoryInv
<1> QED
  BY <1>1, <1>2, EndingPlain

LEMMA DropRecoveryUndo ==
    ASSUME IInv, OutcomeInv, UndoInv, NEW x \in {"conflict", "cancelled", "error"},
           DropRecovery(x), active \in Restores
    PROVE  UndoInv'
<1>1. PICK it \in Restores : it = active
  OBVIOUS
<1>2. Ending(x) \/ LeaveFaulted("error")
  BY <1>1, DropRecoveryEnds DEF OutcomeInv, HistoryInv
<1> QED
  BY <1>1, <1>2, FaultedUndo, EndingPlain

(* Whatever did not move keeps all this. *)
LEMMA UnmovedUndo ==
    ASSUME UndoInv, UNCHANGED <<saved, record, outcome, active, log>>, PlanIsWhole'
    PROVE  UndoInv'
<1>1. \A s, p : Want(s, p)' = Want(s, p)
  BY DEF Want
<1>2. \A r : ScopeOf(r)' = ScopeOf(r) /\ SeenBy(r)' = SeenBy(r)
  BY DEF ScopeOf, SeenBy
<1>3. \A r : CandidatesOf(r)' = CandidatesOf(r)
  BY <1>1, <1>2 DEF CandidatesOf
<1>4. \A r : RecordIsWhole(r)' <=> RecordIsWhole(r)
  BY <1>2, <1>3 DEF RecordIsWhole
<1>5. \A r, x : (Undoes(r, x)' <=> Undoes(r, x)) /\ (OutOfReach(x)' <=> OutOfReach(x))
  BY <1>1 DEF Undoes, OutOfReach
<1>6. \A r : PlanWasRight(r)' <=> PlanWasRight(r)
  BY <1>3, <1>5 DEF PlanWasRight
<1> QED
  BY <1>4, <1>6 DEF UndoInv, WellFormed

LEMMA StutterUndo == ASSUME UndoInv, UNCHANGED vars PROVE UndoInv'
<1>1. UNCHANGED <<world, record, outcome, active, pc, session, commit, log>>
  BY DEF vars
<1>2. PlanIsWhole' <=> PlanIsWhole
  BY <1>1, OrderIsPlans DEF PlanIsWhole, session
<1> QED
  BY <1>1, <1>2, UnmovedUndo DEF UndoInv, world

LEMMA EditUndo == ASSUME IInv, OutcomeInv, UndoInv, Edit PROVE UndoInv'
<1>1. /\ UNCHANGED <<saved, record, outcome, active, pc, session>>
      /\ log' = IF active = Nobody THEN log ELSE [log EXCEPT ![active].edited = TRUE]
  BY DEF Edit
<1>2. CASE active = Nobody
  <2>1. pc' = "idle"
    BY <1>1, <1>2 DEF IInv, Shape
  <2>2. PlanIsWhole'
    BY <2>1 DEF PlanIsWhole, Decision, During
  <2> QED
    BY <1>1, <1>2, <2>2, UnmovedUndo
<1>3. CASE active # Nobody
  <2>1. PICK it \in Restores : it = active
    BY <1>3 DEF IInv, Shape
  <2>2. log' = [log EXCEPT ![it].edited = TRUE]
    BY <1>1, <1>3, <2>1
  <2>3. Working
    BY <1>1, <2>1, <2>2 DEF Working
  <2>4. record'[it] = record[it]
    BY <1>1
  <2>5. PlanIsWhole'
    BY <1>1, <2>3, WholeKept DEF OutcomeInv, UndoInv
  <2> QED
    BY <2>1, <2>3, <2>4, <2>5, WorkingUndo DEF OutcomeInv
<1> QED
  BY <1>2, <1>3

LEMMA BeginUndo ==
    ASSUME IInv, OutcomeInv, UndoInv, NEW it \in Restores, Begin(it) PROVE UndoInv'
<1>1. PICK s \in {"checkpoint"} \cup {x \in Restores : record[x] # NoRecord}, sel \in Selections :
         log' = [log EXCEPT ![it] = Asked(s, sel)]
  BY DEF Begin
<1>2. /\ active = Nobody /\ outcome[it] = "none" /\ pc' = "plan"
      /\ outcome' = [outcome EXCEPT ![it] = "running"]
      /\ UNCHANGED <<world, record>>
  BY DEF Begin
<1>3. HistoryInv /\ WellFormed(tree)
  BY DEF OutcomeInv, TreeInv
<1>4. log'[it] = Asked(s, sel) /\ outcome'[it] = "running" /\ record'[it] = NoRecord
  BY <1>1, <1>2, <1>3 DEF HistoryInv
<1>5. OthersStand(it)
  BY <1>1, <1>2, <1>3 DEF OthersStand, HistoryInv, Finished, world
<1>6. WellFormed(log'[it].base)
  BY <1>3, <1>4 DEF Asked
<1>7. PlanWasRight(it)'
  BY <1>4 DEF PlanWasRight
<1>8. log'[it].source \in Restores => record'[log'[it].source] # NoRecord
  BY <1>1, <1>2, <1>4, OthersAssumption DEF Asked
<1>9. PlanIsWhole'
  BY <1>2 DEF PlanIsWhole, Decision, During
<1> QED
  BY <1>3, <1>4, <1>5, <1>6, <1>7, <1>8, <1>9, UndoKept

LEMMA StageAllUndo == ASSUME IInv, OutcomeInv, UndoInv, StageAll PROVE UndoInv'
<1>1. pc = "stage" /\ pc \in Decision
  BY DEF StageAll, Decision
<1>2. PICK it \in Restores : it = active
  BY <1>1 DEF IInv, Shape
<1>3. CASE LeaveFaulted("refused")
  BY <1>2, <1>3, FaultedUndo
<1>4. CASE UNCHANGED <<world, record, outcome, active, session, log>>
  <2>1. Working
    BY <1>2, <1>4 DEF Working, world
  <2>2. PlanIsWhole'
    BY <1>1, <1>4, <2>1, WholeKept DEF OutcomeInv, UndoInv
  <2> QED
    BY <1>2, <1>4, <2>1, <2>2, WorkingUndo DEF OutcomeInv
<1> QED
  BY <1>3, <1>4 DEF StageAll

LEMMA PublishRecoveryUndo == ASSUME IInv, OutcomeInv, UndoInv, PublishRecovery PROVE UndoInv'
<1>1. pc = "capture" /\ pc \in Decision /\ pc \in Preparing
  BY DEF PublishRecovery, Decision, Preparing
<1>2. PICK it \in Restores : it = active
  BY <1>1 DEF IInv, Shape
<1>3. HistoryInv /\ TreeInv /\ PlanInv /\ CalmInv /\ PlanIsWhole
  BY DEF OutcomeInv, UndoInv
<1>4. ASSUME ~log[it].edited PROVE tree = log[it].base /\ PlanIsTrue
  BY <1>1, <1>2, <1>3, <1>4, OthersAssumption DEF CalmInv
<1>5. CASE /\ Leave("refused")
           /\ \E p \in Planned :
                \/ tree[p] # Current(p) /\ Current(p) \in Files \cup {"absent"}
                \/ Current(p) = "absent" /\ BehindLink(p)
  <2>1. Ending("refused")
    BY <1>2, <1>5, LeaveEnds DEF Outcomes
  <2>2. log[it].edited
    <3>1. ASSUME ~log[it].edited PROVE FALSE
      <4>1. \A p \in Planned : tree[p] = Current(p)
        BY <1>2, <1>4, <3>1 DEF PlanIsTrue
      <4>2. \A p \in Planned : ~BehindLink(p)
        BY <1>1, <1>2, <1>3, <1>4, <3>1 DEF PlanIsWhole, BehindLink
      <4> QED
        BY <1>5, <4>1, <4>2
    <3>2. log[it].edited \in BOOLEAN
      BY <1>3 DEF HistoryInv, Log
    <3> QED
      BY <3>1, <3>2
  <2> QED
    BY <1>2, <2>1, <2>2, EndingPlain
<1>6. CASE /\ record' = [record EXCEPT ![active] = Captured]
           /\ UNCHANGED <<world, outcome, active, session, log>>
  <2>1. record'[it] = Captured /\ \A r \in Restores \ {it} : record'[r] = record[r]
    BY <1>2, <1>6 DEF IInv, Shape
  <2>2. Working
    BY <1>2, <1>6, <2>1 DEF Working, world
  <2>3. PlanIsWhole'
    BY <1>1, <1>3, <1>6, <2>2, WholeKept
  <2>4. outcome[it] # "none"
    BY <1>2, <1>3 DEF HistoryInv
  <2>5. CandidatesOf(it)' = Planned /\ SeenBy(it)' = seen
    BY <1>1, <1>2, <1>3, <2>2, <2>4, PlanIsTheirs, PlanFacts, WorkingStands, Settled
  <2>6. Captured = [p \in Planned |-> seen[p]]
    BY <1>1, <1>3, PlanFacts DEF Captured
  <2>7. ASSUME NEW p \in Planned
        PROVE  /\ seen[p] = "dir" => \A q \in Below(p) : q \in Planned \/ seen[q] = "absent"
               /\ ~log[it].edited =>
                    seen[p] = log[it].base[p] /\ \A a \in Above(p) : log[it].base[a] \notin Links
    <3>1. Current(p) = seen[p]
      BY <1>1, <1>3, PlanFacts
    <3> QED
      BY <1>1, <1>2, <1>3, <1>4, <3>1 DEF PlanIsWhole, PlanIsTrue
  <2>8. RecordIsWhole(it)'
    BY <1>6, <2>1, <2>5, <2>6, <2>7 DEF RecordIsWhole
  <2> QED
    BY <1>2, <1>3, <2>2, <2>3, <2>8, WorkingUndo
<1> QED
  BY <1>5, <1>6 DEF PublishRecovery

(* A step that leaves plan and record alone. *)
LEMMA SessionUndo ==
    ASSUME IInv, OutcomeInv, UndoInv, Working, record' = record, session' = session,
           pc' \in Decision => pc \in Decision, active \in Restores
    PROVE  UndoInv'
<1>1. PICK it \in Restores : it = active
  OBVIOUS
<1>2. PlanIsWhole'
  BY WholeKept DEF OutcomeInv, UndoInv
<1> QED
  BY <1>1, <1>2, WorkingUndo DEF OutcomeInv

LEMMA StopUndo ==
    ASSUME IInv, OutcomeInv, UndoInv, NEW reason, StopWith(reason),
           pc \in {"commit", "remove", "put"},
           log' \in {log, [log EXCEPT ![active].faulted = TRUE]}
    PROVE  UndoInv'
<1>1. active \in Restores /\ pc \in Decision
  BY DEF IInv, Shape, Decision, During
<1>2. Working
  BY <1>1 DEF StopWith, Working
<1> QED
  BY <1>1, <1>2, SessionUndo DEF StopWith

LEMMA RevalidateUndo == ASSUME IInv, OutcomeInv, UndoInv, Revalidate PROVE UndoInv'
<1>1. pc = "revalidate" /\ pc \in Decision /\ active \in Restores
  BY DEF Revalidate, Decision, IInv, Shape
<1>2. CASE DropRecovery("conflict")
  BY <1>1, <1>2, DropRecoveryUndo
<1>3. CASE UNCHANGED <<world, record, outcome, active, session, log>>
  BY <1>1, <1>3, SessionUndo DEF Working, world
<1> QED
  BY <1>2, <1>3 DEF Revalidate

LEMMA GiveUpUndo == ASSUME IInv, OutcomeInv, UndoInv, GiveUp PROVE UndoInv'
<1>1. PICK it \in Restores : it = active
  BY DEF GiveUp, IInv, Shape
<1>2. CASE LeaveFaulted("error")
  BY <1>1, <1>2, FaultedUndo
<1>3. CASE /\ EndWith("error")
           /\ record' \in {record, [record EXCEPT ![active] = NoRecord]}
           /\ log' = [log EXCEPT ![active].final = tree, ![active].faulted = TRUE]
  <2>1. Ending("error")
    BY <1>1, <1>3 DEF Ending, Outcomes
  <2> QED
    BY <1>1, <2>1, EndingPlain
<1> QED
  BY <1>2, <1>3 DEF GiveUp

LEMMA GuardUndo == ASSUME IInv, OutcomeInv, UndoInv, NEW p \in todo, Guard(p) PROVE UndoInv'
<1>1. pc = "commit" /\ pc \in Decision /\ active \in Restores
  BY DEF Guard, Decision, During, IInv, Shape
<1>2. CASE UNCHANGED <<saved, record, outcome, active, session, log>>
  BY <1>1, <1>2, SessionUndo DEF Working
<1>3. CASE /\ \E reason : StopWith(reason)
           /\ log' \in {log, [log EXCEPT ![active].faulted = TRUE]}
  BY <1>1, <1>3, StopUndo
<1> QED
  BY <1>2, <1>3 DEF Guard

LEMMA RemoveUndo == ASSUME IInv, OutcomeInv, UndoInv, Remove PROVE UndoInv'
<1>1. pc = "remove" /\ pc \in Decision /\ active \in Restores
  BY DEF Remove, Decision, During, IInv, Shape
<1>2. CASE UNCHANGED <<saved, record, outcome, active, session, log>>
  BY <1>1, <1>2, SessionUndo DEF Working
<1>3. CASE /\ \E reason : StopWith(reason)
           /\ log' \in {log, [log EXCEPT ![active].faulted = TRUE]}
  BY <1>1, <1>3, StopUndo
<1> QED
  BY <1>2, <1>3 DEF Remove, Done

LEMMA PutUndo == ASSUME IInv, OutcomeInv, UndoInv, Put PROVE UndoInv'
<1>1. pc = "put" /\ pc \in Decision /\ active \in Restores
  BY DEF Put, Decision, During, IInv, Shape
<1>2. CASE UNCHANGED <<saved, record, outcome, active, session, log>>
  BY <1>1, <1>2, SessionUndo DEF Working
<1>3. CASE /\ \E reason : StopWith(reason)
           /\ log' \in {log, [log EXCEPT ![active].faulted = TRUE]}
  BY <1>1, <1>3, StopUndo
<1> QED
  BY <1>2, <1>3 DEF Put

LEMMA CancelUndo == ASSUME IInv, OutcomeInv, UndoInv, Cancel PROVE UndoInv'
  BY StopUndo DEF Cancel

LEMMA EndPassesUndo == ASSUME IInv, OutcomeInv, UndoInv, EndPasses PROVE UndoInv'
<1>1. pc = "commit" /\ pc \in Decision /\ active \in Restores
  BY DEF EndPasses, Decision, During, IInv, Shape
<1>2. UNCHANGED <<saved, record, outcome, active, session, log>>
  BY DEF EndPasses, world
<1> QED
  BY <1>1, <1>2, SessionUndo DEF Working

LEMMA FinishCommitUndo == ASSUME IInv, OutcomeInv, UndoInv, FinishCommit PROVE UndoInv'
<1>1. pc = "finish" /\ pc \in Decision
  BY DEF FinishCommit, Decision, During
<1>2. PICK it \in Restores : it = active
  BY <1>1 DEF IInv, Shape
<1>3. HistoryInv /\ TreeInv /\ PlanInv
  BY DEF OutcomeInv
<1>4. CASE Leave("applied")
  <2>1. Ending("applied")
    BY <1>2, <1>4, LeaveEnds DEF Outcomes
  <2>2. record'[it] = record[it]
    BY <1>4 DEF Leave
  <2>3. record[it] = Captured /\ Planned # {}
    BY <1>1, <1>2, <1>3, PlanFacts DEF IInv, RecordCoversPlan
  <2>4. record[it] # NoRecord
    BY <2>3 DEF Captured, NoRecord
  <2>5. outcome'[it] = "applied"
    BY <1>2, <1>3, <2>1, EndingOthers
  <2>6. PlanWasRight(it)'
    BY <2>2, <2>4, <2>5 DEF PlanWasRight
  <2> QED
    BY <1>2, <2>1, <2>6, EndingUndo
<1>5. CASE Leave("partial")
  <2>1. Ending("partial")
    BY <1>2, <1>5, LeaveEnds DEF Outcomes
  <2> QED
    BY <1>2, <2>1, EndingPlain
<1> DEFINE result == CASE stop = "io" -> "error"
                       [] stop = "cancelled" -> "cancelled"
                       [] OTHER -> "conflict"
<1>6. result \in {"conflict", "cancelled", "error"}
  OBVIOUS
<1> HIDE DEF result
<1>7. CASE DropRecovery(result)
  BY <1>2, <1>6, <1>7, DropRecoveryUndo
<1> QED
  BY <1>4, <1>5, <1>7 DEF FinishCommit, AppliedOrPartial, result

LEMMA CrashUndo == ASSUME IInv, OutcomeInv, UndoInv, Crash PROVE UndoInv'
<1>1. PICK it \in Restores : it = active
  BY DEF Crash, IInv, Shape
<1>2. Leave("dead")
  BY DEF Crash
<1>3. Ending("dead")
  BY <1>1, <1>2, LeaveEnds DEF Outcomes
<1> QED
  BY <1>1, <1>3, EndingPlain

-----------------------------------------------------------------------------
(* What an undo finds. *)
LEMMA HiddenBelow == ASSUME NEW p \in Paths, NEW a \in Above(p), a \in Hidden PROVE p \in Hidden
  BY PathsAssumption, BelowAbove

LEMMA SelectedBelow ==
    ASSUME NEW sel, NEW p \in Selected(sel), NEW q \in Below(p)
    PROVE  q \in Selected(sel)
<1>1. q \in Paths /\ p \in Above(q) /\ Above(p) \subseteq Above(q)
  BY AboveChain DEF Below, Selected
<1> QED
  BY <1>1 DEF Selected

(* Whatever way a restore left to itself has ended, it can only have left    *)
(* these nodes.                                                              *)
LEMMA RestoredFacts ==
    ASSUME HistoryInv, OutcomesAreRight, NEW x \in Restores, Finished(x), ~log[x].edited,
           record[x] # NoRecord, NEW p \in Paths
    PROVE  IF p \in DOMAIN record[x]
           THEN log[x].final[p] \in {log[x].base[p], Want(log[x].source, p), "absent"}
           ELSE log[x].final[p] = log[x].base[p] \/ MadeAbove(x, p)
<1>1. HonestAt(x, p)
  BY DEF OutcomesAreRight, OutcomesAreHonest
<1>2. outcome[x] \in {"refused", "no-op", "conflict", "cancelled", "error", "applied", "partial", "dead"}
  BY DEF HistoryInv, Outcomes, Finished
<1>3. p \in DOMAIN record[x] => ~MadeAbove(x, p)
  BY DEF MadeAbove
<1> QED
  BY <1>1, <1>2, <1>3 DEF HonestAt

(* What the undo of restore x, whose record is in reach, is about. *)
LEMMA UndoFacts ==
    ASSUME HistoryInv, UndoInv, NEW u \in Restores, outcome[u] # "none", NEW x \in Restores,
           Undoes(u, x), ~OutOfReach(x)
    PROVE  /\ Finished(x) /\ ~log[x].edited /\ record[x] # NoRecord /\ outcome[x] # "none"
           /\ DOMAIN record[x] = CandidatesOf(x) /\ DOMAIN record[x] \subseteq Paths
           /\ WellFormed(log[x].base)
           /\ Selected(log[u].selection) \cap DOMAIN record[x] = DOMAIN record[x]
           /\ \A p \in DOMAIN record[x] :
                /\ p \notin Hidden /\ record[x][p] = log[x].base[p]
                /\ Want(log[u].source, p) = log[x].base[p]
                /\ Want(log[x].source, p) # log[x].base[p]
                /\ \A a \in Above(p) : a \notin Hidden /\ log[x].base[a] \notin Links
           /\ log[u].source = x /\ x # "checkpoint" /\ ScopeOf(u) = DOMAIN record[x]
<1>1. log[u].source = x /\ x # "checkpoint" /\ ~log[x].edited
  BY OthersAssumption DEF Undoes
<1>2. Finished(x) /\ record[x] # NoRecord /\ outcome[x] # "none"
  BY <1>1 DEF HistoryInv, SourceHasEnded, UndoInv, Finished
<1>3. RecordIsWhole(x) /\ WellFormed(log[x].base)
  BY <1>2 DEF UndoInv
<1>4. DOMAIN record[x] = CandidatesOf(x)
  BY <1>3 DEF RecordIsWhole
<1>5. DOMAIN record[x] \subseteq Paths
  BY <1>4 DEF CandidatesOf, Selected
<1>6. ASSUME NEW p \in DOMAIN record[x]
      PROVE  /\ p \notin Hidden /\ record[x][p] = log[x].base[p]
             /\ Want(log[u].source, p) = log[x].base[p]
             /\ Want(log[x].source, p) # log[x].base[p]
             /\ \A a \in Above(p) : a \notin Hidden /\ log[x].base[a] \notin Links
  <2>1. p \notin Hidden
    BY DEF OutOfReach
  <2>2. record[x][p] = log[x].base[p] /\ \A a \in Above(p) : log[x].base[a] \notin Links
    BY <1>1, <1>3 DEF RecordIsWhole
  <2>3. Want(log[u].source, p) = log[x].base[p]
    BY <1>1, <2>2 DEF Want
  <2>4. Want(log[x].source, p) # log[x].base[p]
    BY <1>4, <1>5, <2>1 DEF CandidatesOf, SeenBy, Observe
  <2> QED
    BY <1>5, <2>1, <2>2, <2>3, <2>4, HiddenBelow
<1>7. Selected(log[u].selection) \cap DOMAIN record[x] = DOMAIN record[x]
  BY DEF Undoes
<1>8. ScopeOf(u) = DOMAIN record[x]
  BY <1>1 DEF ScopeOf
<1> QED
  BY <1>1, <1>2, <1>3, <1>4, <1>5, <1>6, <1>7, <1>8

(* All that a restore filled a new directory with is in its record. *)
LEMMA FilledIsRecorded ==
    ASSUME HistoryInv, TreeInv, UndoInv, NEW u \in Restores, outcome[u] # "none",
           NEW x \in Restores, Undoes(u, x), ~OutOfReach(x),
           NEW p \in DOMAIN record[x], Want(log[x].source, p) = "dir",
           NEW q \in Below(p), log[x].base[q] = "absent", MadeAbove(x, q)
    PROVE  q \in DOMAIN record[x]
<1> DEFINE s == log[x].source
<1>1. /\ p \in CandidatesOf(x) /\ DOMAIN record[x] = CandidatesOf(x) /\ outcome[x] # "none"
      /\ DOMAIN record[x] \subseteq Paths /\ p \in Paths
  BY UndoFacts
<1>2. PICK q2 \in Below(q) : q2 \in DOMAIN record[x] /\ Want(s, q2) # "absent"
  BY DEF MadeAbove
<1>3. /\ q \in Paths /\ p \in Above(q) /\ q2 \in Paths /\ q \in Above(q2)
      /\ q2 \in Below(p) /\ p \in Above(q2)
  BY <1>1, BelowAbove, AboveChain
<1>4. q2 \notin Hidden /\ q \notin Hidden
  BY <1>2, <1>3, UndoFacts
<1>5. s \in Restores \cup {"checkpoint"}
  BY <1>1, SourceIsAnother
<1>6. q \in ScopeOf(x) /\ Want(s, q) # "absent"
  <2>1. CASE s = "checkpoint"
    <3>1. Want(s, q) = "dir"
      BY <1>2, <1>3, <1>5, <2>1, WantFits
    <3> QED
      BY <1>3, <2>1, <3>1, NodesAssumption DEF ScopeOf
  <2>2. CASE s \in Restores /\ s # "checkpoint"
    <3>1. ScopeOf(x) = DOMAIN record[s]
      BY <2>2 DEF ScopeOf
    <3>2. {p, q2} \subseteq DOMAIN record[s] /\ record[s][p] = "dir" /\ record[s][q2] # "absent"
      BY <1>1, <1>2, <2>2, <3>1 DEF CandidatesOf, Want
    <3>3. RecordIsWhole(s) /\ WellFormed(log[s].base)
      BY <2>2, <3>2 DEF UndoInv, NoRecord
    <3>4. q \in DOMAIN record[s] \/ SeenBy(s)[q] = "absent"
      BY <3>2, <3>3 DEF RecordIsWhole
    <3>5. SeenBy(s)[q2] # "absent"
      BY <3>2, <3>3 DEF RecordIsWhole
    <3>6. log[s].base[q2] # "absent"
      BY <1>3, <1>4, <3>5 DEF SeenBy, Observe
    <3>7. SeenBy(s)[q] = "dir"
      BY <1>3, <1>4, <3>3, <3>6 DEF WellFormed, SeenBy, Observe
    <3>8. q \in DOMAIN record[s]
      BY <3>4, <3>7, NodesAssumption
    <3>9. Want(s, q) = "dir"
      BY <1>2, <1>3, <2>2, <3>2, <3>8, WantFits
    <3> QED
      BY <3>1, <3>8, <3>9
  <2> QED
    BY <1>5, <2>1, <2>2
<1>7. q \in Selected(log[x].selection)
  BY <1>1, SelectedBelow DEF CandidatesOf
<1>8. SeenBy(x)[q] = "absent"
  BY <1>3 DEF SeenBy, Observe
<1> QED
  BY <1>1, <1>6, <1>7, <1>8 DEF CandidatesOf

(* Nothing blocks the undo of a restore whose record is in reach. *)
LEMMA UndoNotBlocked ==
    ASSUME IInv, OutcomeInv, UndoInv, pc = "plan", NEW u \in Restores, u = active,
           NEW x \in Restores, Undoes(u, x), ~OutOfReach(x)
    PROVE  ~Blocked
<1> DEFINE D == DOMAIN record[x]
<1>1. HistoryInv /\ TreeInv /\ OutcomesAreRight /\ outcome[u] # "none"
  BY DEF OutcomeInv, HistoryInv
<1>2. /\ Source = x /\ x # "checkpoint" /\ InScope = D /\ Decided = D
      /\ Finished(x) /\ ~log[x].edited /\ record[x] # NoRecord /\ D \subseteq Paths
      /\ WellFormed(log[x].base)
  BY <1>1, UndoFacts DEF Source, InScope, Decided
<1>3. \A p \in D : /\ p \notin Hidden /\ Desired(p) = log[x].base[p]
                   /\ Want(log[x].source, p) # log[x].base[p]
                   /\ \A a \in Above(p) : a \notin Hidden /\ log[x].base[a] \notin Links
  BY <1>1, UndoFacts DEF Desired, Source
<1>4. tree = log[x].final
  <2>1. tree = log[u].base
    BY OthersAssumption DEF OutcomeInv, CalmInv, Undoes, Preparing
  <2> QED
    BY <2>1 DEF Undoes
<1>5. /\ seen = Observe(tree, Hidden) /\ front = {p \in Hidden : tree[p] # "absent"}
  BY <1>4 DEF OutcomeInv, PlanInv, Undoes
<1>6. \A p \in Paths : IF p \in D
                       THEN tree[p] \in {log[x].base[p], Want(log[x].source, p), "absent"}
                       ELSE tree[p] = log[x].base[p] \/ MadeAbove(x, p)
  BY <1>1, <1>2, <1>4, RestoredFacts
<1>7. \A p \in Paths : MadeAbove(x, p) => tree[p] = "dir" /\ log[x].base[p] = "absent"
  BY <1>4 DEF MadeAbove
<1>8. \A p \in D : seen[p] = tree[p]
  BY <1>2, <1>3, <1>5 DEF Observe
<1>9. Candidates = {p \in D : log[x].base[p] # tree[p]}
  BY <1>2, <1>3, <1>8 DEF Candidates
<1>10. ~Unexplained
  BY <1>2 DEF Unexplained, Unmatched, Undoes
<1>11. ASSUME NEW p \in D, BehindLink(p) PROVE FALSE
  <2>1. PICK a \in Above(p) : tree[a] \in Links
    BY <1>11 DEF BehindLink
  <2>2. a \in Paths /\ p \in Below(a)
    BY <1>2, AboveChain, BelowAbove
  <2>3. log[x].base[a] \notin Links
    BY <1>3
  <2>4. "absent" \notin Links /\ "dir" \notin Links
    BY NodesAssumption
  <2>5. a \in D /\ Want(log[x].source, a) \in Links
    BY <1>6, <1>7, <2>1, <2>2, <2>3, <2>4
  <2> QED
    BY <2>2, <2>5 DEF OutOfReach
<1>12. ASSUME NEW p \in D PROVE ~Unproved(p)
  <2>1. ~BehindLink(p)
    BY <1>11
  <2>2. Above(p) \cap front = {}
    BY <1>3, <1>5
  <2> QED
    BY <1>2, <1>8, <2>1, <2>2 DEF Unproved
<1>13. ASSUME NEW p \in Candidates, Held(p) PROVE FALSE
  <2>1. p \in D /\ p \in Paths /\ tree[p] = "dir" /\ log[x].base[p] # "dir"
    BY <1>2, <1>3, <1>8, <1>9, <1>13 DEF Held, RemovesDirectory
  <2>2. Want(log[x].source, p) = "dir"
    BY <1>6, <2>1
  <2>3. PICK q \in Below(p) : Remains(q)
    BY <1>13 DEF Held
  <2>4. q \in Paths /\ p \in Above(q)
    BY <2>1, BelowAbove
  <2>5. log[x].base[q] = "absent"
    BY <1>2, <2>1, <2>4 DEF WellFormed
  <2>6. CASE q \in D
    <3>1. q \notin front
      BY <1>3, <1>5, <2>6
    <3>2. q \notin Candidates => seen[q] = "absent"
      BY <1>8, <1>9, <2>5, <2>6
    <3>3. Desired(q) = "absent" /\ ~Unproved(q)
      BY <1>3, <1>12, <2>5, <2>6
    <3> QED
      BY <2>3, <3>1, <3>2, <3>3 DEF Remains
  <2>7. CASE q \notin D
    <3>1. q \notin Candidates
      BY <1>9, <2>7
    <3>2. tree[q] # "absent"
      BY <1>5, <2>3, <2>4, <3>1 DEF Remains, Observe
    <3>3. MadeAbove(x, q)
      BY <1>6, <2>4, <2>5, <2>7, <3>2
    <3> QED
      BY <1>1, <2>1, <2>2, <2>5, <2>7, <3>3, FilledIsRecorded
  <2> QED
    BY <2>6, <2>7
<1>14. \A p \in Candidates : ~Unproved(p) /\ ~Held(p)
  BY <1>9, <1>12, <1>13
<1> QED
  BY <1>10, <1>14 DEF Blocked

LEMMA MakePlanUndo == ASSUME IInv, OutcomeInv, UndoInv, MakePlan PROVE UndoInv'
<1>1. pc = "plan" /\ pc \in Preparing
  BY DEF MakePlan, Preparing
<1>2. PICK it \in Restores : it = active
  BY <1>1 DEF IInv, Shape
<1>3. HistoryInv /\ TreeInv /\ PlanInv /\ CalmInv /\ tree \in Worktrees
  BY DEF OutcomeInv, TreeInv
<1>4. CASE Blocked /\ Leave("refused")
  <2>1. Ending("refused") /\ record' = record
    BY <1>2, <1>4, LeaveEnds DEF Outcomes, Leave
  <2>2. OthersStand(it) /\ Asking(it) /\ outcome[it] # "none"
    BY <1>2, <1>3, <2>1, EndingStands
  <2>3. log'[it].edited = log[it].edited /\ (~log'[it].faulted => ~log[it].faulted) /\ outcome'[it] = "refused"
    BY <1>2, <1>3, <2>1, EndingLog, EndingOthers
  <2>4. ASSUME NEW x \in Restores, Undoes(it, x)', ~log'[it].edited, ~log'[it].faulted
        PROVE  OutOfReach(x)'
    <3>1. log[it].source = x /\ x # it /\ outcome[x] # "none"
      BY <1>2, <1>3, <2>2, <2>4, OthersAssumption
         DEF Undoes, Asking, OthersStand, HistoryInv, SourceHasEnded, Finished
    <3>2. log'[x] = log[x] /\ record'[x] = record[x]
      BY <2>2, <3>1 DEF OthersStand
    <3>3. Undoes(it, x)
      BY <2>2, <2>3, <2>4, <3>1, <3>2 DEF Undoes, Asking
    <3>4. OutOfReach(x)
      BY <1>1, <1>2, <1>4, <3>3, UndoNotBlocked
    <3>5. \A p : Want(log[x].source, p)' = Want(log[x].source, p)
      BY <1>3, <2>2, <3>1, Settled
    <3> QED
      BY <3>2, <3>4, <3>5 DEF OutOfReach
  <2>5. PlanWasRight(it)'
    BY <2>3, <2>4 DEF PlanWasRight
  <2> QED
    BY <1>2, <2>1, <2>5, EndingUndo
<1>5. CASE Candidates = {} /\ Leave("no-op")
  <2>1. Ending("no-op")
    BY <1>2, <1>5, LeaveEnds DEF Outcomes
  <2>2. OthersStand(it) /\ Asking(it) /\ outcome[it] # "none" /\ outcome'[it] = "no-op"
    BY <1>2, <1>3, <2>1, EndingStands, EndingOthers
  <2>3. CandidatesOf(it)' = {}
    BY <1>1, <1>2, <1>3, <1>5, <2>2, PlanIsTheirs, Settled
  <2>4. PlanWasRight(it)'
    BY <2>2, <2>3 DEF PlanWasRight
  <2> QED
    BY <1>2, <2>1, <2>4, EndingUndo
<1>5a. CASE Leave("error")
  <2>1. Ending("error")
    BY <1>2, <1>5a, LeaveEnds DEF Outcomes
  <2>2. outcome'[it] = "error"
    BY <1>2, <1>3, <2>1, EndingOthers
  <2>3. PlanWasRight(it)'
    BY <2>2 DEF PlanWasRight
  <2> QED
    BY <1>2, <2>1, <2>3, EndingUndo
<1>6. CASE /\ ~Blocked
           /\ plan' = [p \in Candidates |-> [current |-> seen[p], desired |-> Desired(p)]]
           /\ UNCHANGED <<world, record, outcome, active, seen, front, log>>
  <2>1. /\ Planned' = Candidates /\ Candidates \subseteq Paths /\ seen' = seen /\ log' = log
        /\ active' = active
    BY <1>6 DEF Planned, Candidates, Decided, Selected
  <2>2. ASSUME NEW p \in Candidates
        PROVE  /\ seen[p] = "dir" => \A q \in Below(p) : q \in Candidates \/ seen[q] = "absent"
               /\ ~log[it].edited => \A a \in Above(p) : log[it].base[a] \notin Links
    <3>1. ~Unproved(p) /\ ~Held(p) /\ p \in Paths /\ Desired(p) # seen[p]
      BY <1>6, <2>1 DEF Blocked, Candidates
    <3>2. ASSUME seen[p] = "dir", NEW q \in Below(p), q \notin Candidates PROVE seen[q] = "absent"
      BY <3>1, <3>2 DEF Held, RemovesDirectory, Remains
    <3>3. ASSUME ~log[it].edited, NEW a \in Above(p) PROVE log[it].base[a] \notin Links
      <4>1. tree = log[it].base
        BY <1>1, <1>2, <1>3, <3>3, OthersAssumption DEF CalmInv
      <4>2. CASE seen[p] = "absent"
        BY <3>1, <4>1, <4>2 DEF Unproved, BehindLink
      <4>3. CASE seen[p] # "absent"
        <5>1. tree[p] # "absent"
          BY <1>1, <1>2, <1>3, <3>1, <4>1, <4>3 DEF PlanInv, Observe
        <5>2. tree[a] = "dir"
          BY <1>3, <3>1, <5>1 DEF TreeInv, WellFormed
        <5> QED
          BY <4>1, <5>2, NodesAssumption
      <4> QED
        BY <4>2, <4>3
    <3> QED
      BY <3>2, <3>3
  <2>3. \A p \in Candidates : Current(p)' = seen[p]
    BY <1>6 DEF Current
  <2>4. PlanIsWhole'
    BY <1>2, <2>1, <2>2, <2>3 DEF PlanIsWhole
  <2> QED
    BY <1>6, <2>4, UnmovedUndo DEF world
<1> QED
  BY <1>4, <1>5, <1>5a, <1>6 DEF MakePlan

LEMMA UndoStep == IInv /\ OutcomeInv /\ UndoInv /\ [Next]_vars => UndoInv'
  BY EditUndo, BeginUndo, MakePlanUndo, StageAllUndo, PublishRecoveryUndo, RevalidateUndo,
     GiveUpUndo, GuardUndo, RemoveUndo, PutUndo, CancelUndo, EndPassesUndo, FinishCommitUndo,
     CrashUndo, StutterUndo
     DEF Next

LEMMA UndoInit == Init => UndoInv
<1> SUFFICES ASSUME Init PROVE UndoInv
  OBVIOUS
<1>1. /\ log = [r \in Restores |-> NoLog] /\ outcome = [r \in Restores |-> "none"]
      /\ record = [r \in Restores |-> NoRecord] /\ pc = "idle"
  BY DEF Init
<1>2. WellFormed([p \in Paths |-> "absent"])
  BY DEF WellFormed
<1>3. \A r \in Restores : WellFormed(log[r].base) /\ PlanWasRight(r)
  BY <1>1, <1>2 DEF NoLog, PlanWasRight
<1>4. PlanIsWhole
  BY <1>1 DEF PlanIsWhole, Decision, During
<1> QED
  BY <1>1, <1>3, <1>4 DEF UndoInv

(* The undo of a restore whose record is in reach brings back what was. *)
LEMMA UndoneIsBack ==
    ASSUME OutcomeInv, UndoInv, NEW u \in Restores, Finished(u), outcome[u] # "dead",
           NEW r \in Restores, Undoes(u, r), ~OutOfReach(r)
    PROVE  BroughtBack(u, r)
<1> DEFINE D == DOMAIN record[r]
<1>1. HistoryInv /\ OutcomesAreHonest /\ QuietApplySucceeds /\ outcome[u] # "none" /\ OutcomesAreRight
  BY DEF OutcomeInv, OutcomesAreRight, Finished
<1>2. /\ log[u].source = r /\ r # "checkpoint" /\ ScopeOf(u) = D /\ D \subseteq Paths
      /\ Finished(r) /\ ~log[r].edited /\ record[r] # NoRecord /\ WellFormed(log[r].base)
      /\ Selected(log[u].selection) \cap D = D
  BY <1>1, UndoFacts
<1>3. \A p \in D : p \notin Hidden /\ Want(r, p) = log[r].base[p]
  BY <1>1, <1>2, UndoFacts
<1>4. \A p \in Paths \ D : Want(r, p) = "absent"
  BY <1>2 DEF Want
<1>5. /\ log[u].base = log[r].final /\ ~log[u].edited /\ ~log[u].faulted
      /\ log[u].base \in Worktrees
  BY DEF Undoes, OutcomeInv, HistoryInv, Log
<1>6. \A p \in Paths \ D : log[u].base[p] = log[r].base[p] \/ MadeAbove(r, p)
  BY <1>1, <1>2, <1>5, RestoredFacts
<1>7. CandidatesOf(u) = {p \in D : log[r].base[p] # log[u].base[p]}
  BY <1>2, <1>3 DEF CandidatesOf, SeenBy, Observe
<1>8. ~Obstructed(u)
  <2> SUFFICES ASSUME NEW p \in Selected(log[u].selection), Want(r, p) # "absent", NEW a \in Above(p),
                      log[u].base[a] \in Leaves
               PROVE  a \in D /\ Want(r, a) = "dir"
    BY <1>2 DEF Obstructed
  <2>1. p \in D /\ p \in Paths /\ a \in Paths
    BY <1>4, AboveChain DEF Selected
  <2>2. log[r].base[a] = "dir"
    BY <1>2, <1>3, <2>1 DEF WellFormed
  <2>3. log[u].base[a] # "dir"
    BY NodesAssumption DEF Leaves
  <2>4. a \in D
    BY <1>5, <1>6, <2>1, <2>2, <2>3 DEF MadeAbove
  <2> QED
    BY <1>3, <2>2, <2>4
<1>9. outcome[u] \in {"refused", "no-op", "applied"}
  BY <1>1, <1>2, <1>5, <1>8 DEF QuietApplySucceeds, Hampered, AskedBelowFile
<1>10. outcome[u] # "refused"
  BY <1>5 DEF UndoInv, PlanWasRight
<1>11. \A p \in Paths : HonestAt(u, p)
  BY <1>1, <1>5 DEF OutcomesAreHonest
<1>12. ASSUME NEW p \in Paths, log[u].final[p] = log[u].base[p], p \notin CandidatesOf(u)
       PROVE  log[u].final[p] = log[r].base[p] \/ MadeAbove(r, p)
  BY <1>6, <1>7, <1>12
<1>13. CASE outcome[u] = "no-op"
  <2>1. CandidatesOf(u) = {}
    BY <1>13 DEF UndoInv, PlanWasRight
  <2>2. \A p \in Paths : log[u].final[p] = log[u].base[p]
    BY <1>11, <1>13 DEF HonestAt
  <2> QED
    BY <1>12, <1>13, <2>1, <2>2 DEF BroughtBack
<1>14. CASE outcome[u] = "applied"
  <2>1. RecordIsWhole(u) /\ DOMAIN record[u] = CandidatesOf(u)
    BY <1>14 DEF UndoInv, PlanWasRight, RecordIsWhole
  <2> SUFFICES ASSUME NEW p \in Paths
               PROVE  log[u].final[p] = log[r].base[p] \/ MadeAbove(r, p)
    BY <1>14 DEF BroughtBack
  <2>2. CASE p \in CandidatesOf(u)
    BY <1>2, <1>3, <1>7, <1>11, <1>14, <2>1, <2>2 DEF HonestAt
  <2>3. CASE p \notin CandidatesOf(u)
    <3>1. log[u].final[p] = log[u].base[p] \/ MadeAbove(u, p)
      BY <1>11, <1>14, <2>1, <2>3 DEF HonestAt
    <3>2. ASSUME MadeAbove(u, p) PROVE FALSE
      <4>1. PICK q \in Below(p) : q \in D /\ Want(r, q) # "absent"
        BY <1>2, <1>7, <2>1, <3>2 DEF MadeAbove
      <4>2. log[r].base[p] = "dir"
        BY <1>2, <1>3, <4>1, BelowAbove DEF WellFormed
      <4>3. log[u].base[p] = "absent"
        BY <3>2 DEF MadeAbove
      <4> QED
        BY <1>5, <1>6, <1>7, <2>3, <4>2, <4>3 DEF MadeAbove
    <3> QED
      BY <1>12, <2>3, <3>1, <3>2
  <2> QED
    BY <2>2, <2>3
<1> QED
  BY <1>9, <1>10, <1>13, <1>14

(* For any worktrees and records: the undo of whatever a restore did before  *)
(* it ended or died goes through and brings everything back, unless the      *)
(* restore had written out of its own reach.                                 *)
THEOREM UndoesBringBack == Spec => []UndoBringsBack
<1>1. OutcomeInv /\ UndoInv => UndoBringsBack
  BY UndoneIsBack DEF UndoBringsBack
<1> QED
  BY <1>1, OutcomeInit, OutcomeStep, UndoInit, UndoStep, Invariance, PTL DEF Spec
=============================================================================
