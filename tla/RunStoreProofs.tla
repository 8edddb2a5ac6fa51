--------------------------- MODULE RunStoreProofs ---------------------------
(* Proofs about RunStore for any sets of runs, keys and deleters: what holds *)
(* under any failure and crash, and what holds as long as nobody runs        *)
(* "run rm" and nothing fails.  And proofs about RunHistory and RunViews, for *)
(* any configurations, policies, requests and commands: no run is refused by *)
(* the store after it had its effects, what is replayed is still true, and   *)
(* the views of the history say what a run would do.                         *)
EXTENDS RunStore, RunViews, FiniteSetTheorems, TLAPS

-----------------------------------------------------------------------------
(* The types. *)

LEMMA TypeInit == Init => TypeOK
  BY RunStoreAssumption
  DEF Init, TypeOK, RunPC, Results, DeleterAt, EntryFiles, Deleters, Access!Init, Access!TypeOK

LEMMA RunType ==
  ASSUME TypeOK, NEW r \in Runs, RunStep(r), UNCHANGED quiet
  PROVE  TypeOK'
<1> USE RunStoreAssumption
    DEF TypeOK, RunPC, Results, Goto, Finish, Deleters, access, runner, deleter, Access!TypeOK
<1>1. CASE Enter(r)
  BY <1>1 DEF Enter, Access!Enter
<1>2. CASE ReadPointer(r)
  BY <1>2 DEF ReadPointer
<1>3. CASE ResolveEntry(r)
  BY <1>3 DEF ResolveEntry
<1>4. CASE VerifyPayloads(r)
  BY <1>4 DEF VerifyPayloads
<1>5. CASE Begin(r)
  BY <1>5 DEF Begin
<1>6. CASE PublishEntry(r)
  BY <1>6 DEF PublishEntry
<1>7. CASE PublishPointer(r)
  BY <1>7 DEF PublishPointer
<1>8. CASE PointerFails(r)
  <2>1. pointer' \in [Keys -> Runs \cup {Nobody}]
    BY <1>8 DEF PointerFails
  <2> QED
    BY <1>8, <2>1 DEF PointerFails
<1>9. CASE RollbackPointer(r)
  <2>1. pointer' \in [Keys -> Runs \cup {Nobody}]
    BY <1>9 DEF RollbackPointer
  <2> QED
    BY <1>9, <2>1 DEF RollbackPointer
<1>10. CASE RollbackEntry(r)
  BY <1>10 DEF RollbackEntry, RemoveOne
<1>11. CASE RollbackEnds(r)
  BY <1>11 DEF RollbackEnds
<1>12. CASE Discard(r)
  BY <1>12 DEF Discard
<1>13. CASE Leave(r)
  BY <1>13 DEF Leave, Access!Leave
<1>14. CASE Replay(r)
  BY <1>14 DEF Replay
<1>15. CASE Crash(r)
  BY <1>15 DEF Crash, Access!Leave
<1> HIDE DEF TypeOK
<1> QED
  BY <1>1, <1>2, <1>3, <1>4, <1>5, <1>6, <1>7, <1>8, <1>9, <1>10, <1>11, <1>12, <1>13,
     <1>14, <1>15 DEF RunStep

LEMMA RmType ==
  ASSUME TypeOK, NEW d \in Removers, RmTargets(d) \/ RmEnter(d) \/ RmLeave(d), UNCHANGED quiet
  PROVE  TypeOK'
<1> USE RunStoreAssumption
    DEF TypeOK, DeleterAt, Deleters, access, runner, Access!TypeOK
<1>1. CASE RmTargets(d)
  BY <1>1 DEF RmTargets, Listed
<1>2. CASE RmEnter(d)
  BY <1>2 DEF RmEnter, Access!Enter
<1>3. CASE RmLeave(d)
  BY <1>3 DEF RmLeave, Access!Leave
<1> QED
  BY <1>1, <1>2, <1>3

LEMMA GcType ==
  ASSUME TypeOK, GcBegin \/ GcDropTemp \/ GcEnd, UNCHANGED quiet
  PROVE  TypeOK'
<1> USE RunStoreAssumption
    DEF TypeOK, DeleterAt, Deleters, access, runner, deleter, Access!TypeOK
<1>1. CASE GcBegin
  BY <1>1 DEF GcBegin, Access!Begin, Listed
<1>2. CASE GcDropTemp
  BY <1>2 DEF GcDropTemp
<1>3. CASE GcEnd
  BY <1>3 DEF GcEnd, Access!End
<1> QED
  BY <1>1, <1>2, <1>3

LEMMA DeleterType ==
  ASSUME TypeOK, DeletionInv, NEW d \in Deleters, DeleteStep(d), UNCHANGED quiet
  PROVE  TypeOK'
<1> USE RunStoreAssumption
    DEF TypeOK, DeleterAt, Deleters, access, runner, Proceed, Failed, Access!TypeOK
<1>1. CASE NextTarget(d)
  BY <1>1 DEF NextTarget
<1>2. CASE GetEntry(d)
  BY <1>2 DEF GetEntry
<1>3. CASE ReadKeyPointer(d)
  <2>1. target[d] \in Runs
    BY <1>3 DEF ReadKeyPointer, DeletionInv, Deleting
  <2>2. PointerOf(d) \in Runs \cup {Nobody}
    BY <2>1 DEF PointerOf
  <2>3. CASE Proceed(d, "read", "tree")
    BY <1>3, <2>2, <2>3 DEF ReadKeyPointer
  <2>4. CASE Proceed(d, "read", "unpoint")
    BY <1>3, <2>2, <2>4 DEF ReadKeyPointer
  <2>5. CASE Proceed(d, "read", "check")
    BY <1>3, <2>2, <2>5 DEF ReadKeyPointer
  <2> QED
    BY <1>3, <2>3, <2>4, <2>5 DEF ReadKeyPointer
<1>4. CASE CheckRefresh(d)
  <2>1. \E to \in {"tree", "unpoint"} : Proceed(d, "check", to)
    BY <1>4 DEF CheckRefresh
  <2> QED
    BY <1>4, <2>1 DEF CheckRefresh
<1>5. CASE RemovePointer(d)
  BY <1>5 DEF RemovePointer
<1>6. CASE RemoveEntry(d)
  <2>1. target[d] \in Runs
    BY <1>6 DEF RemoveEntry, DeletionInv, Deleting
  <2>2. files' \in [Runs -> SUBSET EntryFiles]
    BY <1>6, <2>1 DEF RemoveEntry, RemoveOne
  <2> QED
    BY <1>6, <2>2 DEF RemoveEntry
<1>7. CASE EntryRemoved(d)
  BY <1>7 DEF EntryRemoved
<1>8. CASE DeleteFails(d)
  <2>1. pointer' \in [Keys -> Runs \cup {Nobody}]
    BY <1>8 DEF DeleteFails
  <2> QED
    BY <1>8, <2>1 DEF DeleteFails
<1>9. CASE DeleterCrash(d)
  BY <1>9 DEF DeleterCrash, Access!End, Access!Leave
<1> HIDE DEF TypeOK
<1> QED
  BY <1>1, <1>2, <1>3, <1>4, <1>5, <1>6, <1>7, <1>8, <1>9 DEF DeleteStep

LEMMA TypeStep == TypeOK /\ DeletionInv /\ [Next]_vars => TypeOK'
<1> SUFFICES ASSUME TypeOK, DeletionInv, [Next]_vars PROVE TypeOK'
  OBVIOUS
<1>1. CASE UNCHANGED vars
  BY <1>1 DEF vars, access, runner, deleter, TypeOK, Access!TypeOK
<1>2. CASE Next
  BY <1>2, RunType, RmType, GcType, DeleterType DEF Next, GcStep, RmStep, Deleters
<1> QED
  BY <1>1, <1>2

-----------------------------------------------------------------------------
(* Deleters delete what was discarded. *)

LEMMA DeletionStep == TypeOK /\ DeletionInv /\ [Next]_vars => DeletionInv'
<1> SUFFICES ASSUME TypeOK, DeletionInv, [Next]_vars PROVE DeletionInv'
  OBVIOUS
<1> USE RunStoreAssumption DEF TypeOK, DeletionInv, Deleting, Deleters
<1>1. CASE UNCHANGED vars
  BY <1>1 DEF vars, deleter
<1>2. ASSUME NEW r \in Runs, RunStep(r) PROVE DeletionInv'
  <2>1. UNCHANGED <<at, todo, target, discarded>>
    BY <1>2
    DEF RunStep, Enter, ReadPointer, ResolveEntry, VerifyPayloads, Begin, PublishEntry,
        PublishPointer, PointerFails, RollbackPointer, RollbackEntry, RollbackEnds, Discard,
        Leave, Replay, Crash, deleter
  <2> QED
    BY <2>1
<1>3. ASSUME NEW d \in Removers, RmTargets(d) \/ RmEnter(d) \/ RmLeave(d)
      PROVE  DeletionInv'
  BY <1>3 DEF RmTargets, RmEnter, RmLeave
<1>4. CASE GcBegin \/ GcDropTemp \/ GcEnd
  BY <1>4 DEF GcBegin, GcDropTemp, GcEnd, deleter
<1>5. ASSUME NEW d \in Deleters, DeleteStep(d) PROVE DeletionInv'
  <2> USE DEF Proceed, Failed
  <2>1. CASE NextTarget(d)
    BY <2>1 DEF NextTarget
  <2>2. CASE GetEntry(d)
    BY <2>2 DEF GetEntry
  <2>3. CASE ReadKeyPointer(d)
    BY <2>3 DEF ReadKeyPointer
  <2>4. CASE CheckRefresh(d)
    BY <2>4 DEF CheckRefresh
  <2>5. CASE RemovePointer(d) \/ RemoveEntry(d) \/ EntryRemoved(d)
    BY <2>5 DEF RemovePointer, RemoveEntry, EntryRemoved
  <2>6. CASE DeleteFails(d)
    BY <2>6 DEF DeleteFails
  <2>7. CASE DeleterCrash(d)
    BY <2>7 DEF DeleterCrash
  <2> HIDE DEF DeletionInv
  <2> QED
    BY <1>5, <2>1, <2>2, <2>3, <2>4, <2>5, <2>6, <2>7 DEF DeleteStep
<1> HIDE DEF DeletionInv
<1> QED
  BY <1>1, <1>2, <1>3, <1>4, <1>5 DEF Next, GcStep, RmStep, Deleters

LEMMA DeletionInit == Init => DeletionInv
  BY DEF Init, DeletionInv, Deleting, Deleters

(* Every reachable state is well typed: a pointer names a run, an entry      *)
(* holds entry files, whatever fails or dies.                                *)
THEOREM TypeCorrect == Spec => []TypeOK
<1>1. TypeOK /\ DeletionInv /\ [Next]_vars => TypeOK' /\ DeletionInv'
  BY TypeStep, DeletionStep
<1> QED
  BY <1>1, TypeInit, DeletionInit, PTL DEF Spec

-----------------------------------------------------------------------------
(* What holds whatever is removed, fails or dies. *)

LEMMA InvInit == Init => IInv
  BY TypeInit, DeletionInit, RunStoreAssumption
  DEF Init, IInv, CommitInv, PointerInv, SurvivorsAreWhole, PointersAreTyped

(* A step that neither shortens an entry, nor moves a run, nor makes a       *)
(* pointer keeps what is known of entries and pointers.                      *)
LEMMA Undisturbed ==
  ASSUME IInv, TypeOK', discarded \subseteq discarded',
         UNCHANGED <<pc, key, reusable, result>>,
         \A e \in Runs \ discarded' : files'[e] = files[e],
         \A k \in Keys : pointer'[k] \in {pointer[k], Nobody}
  PROVE  CommitInv' /\ PointerInv' /\ SurvivorsAreWhole' /\ PointersAreTyped'
<1> USE RunStoreAssumption DEF IInv, Whole
<1>1. CommitInv'
  BY DEF CommitInv, TypeOK
<1>2. PointerInv' /\ PointersAreTyped'
  BY DEF PointerInv, PointersAreTyped, TypeOK
<1>3. SurvivorsAreWhole'
  BY DEF SurvivorsAreWhole
<1> QED
  BY <1>1, <1>2, <1>3

LEMMA RunInv ==
  ASSUME IInv, NEW r \in Runs, RunStep(r), TypeOK'
  PROVE  CommitInv' /\ PointerInv' /\ SurvivorsAreWhole' /\ PointersAreTyped'
<1> USE RunStoreAssumption
    DEF IInv, TypeOK, CommitInv, PointerInv, SurvivorsAreWhole, PointersAreTyped, Early,
        Goto, Finish, runner
<1>1. CASE Enter(r)
  BY <1>1 DEF Enter, Whole
<1>2. CASE ReadPointer(r)
  BY <1>2 DEF ReadPointer, Whole
<1>3. CASE ResolveEntry(r)
  BY <1>3 DEF ResolveEntry, Whole
<1>4. CASE VerifyPayloads(r)
  BY <1>4 DEF VerifyPayloads, Whole
<1>5. CASE Begin(r)
  BY <1>5 DEF Begin, Whole
<1>6. CASE PublishEntry(r)
  <2>1. /\ \A q \in Runs \ {r} : /\ pc'[q] = pc[q] /\ reusable'[q] = reusable[q]
                                /\ result'[q] = result[q] /\ files'[q] = files[q]
        /\ files'[r] = EntryFiles
        /\ pc'[r] \in {"pointer", "end", "untree"}
        /\ pc'[r] = "pointer" => reusable'[r]
        /\ result'[r] = "stored" => pc'[r] = "end"
        /\ UNCHANGED <<key, pointer, discarded>>
    BY <1>6 DEF PublishEntry
  <2>2. pc[r] = "run"
    BY <1>6 DEF PublishEntry
  <2>3. \A q \in Runs : files[q] = EntryFiles => files'[q] = EntryFiles
    BY <2>1
  <2>4. CommitInv'
    BY <2>1, <2>3 DEF Whole
  <2>5. SurvivorsAreWhole'
    BY <2>1, <2>3 DEF Whole
  <2>6. \A k \in Keys : pointer[k] # Nobody => pointer[k] \in Runs \ {r}
    BY <2>2
  <2> QED
    BY <2>1, <2>4, <2>5, <2>6
<1>7. CASE PublishPointer(r)
  BY <1>7 DEF PublishPointer, Whole
<1>8. CASE PointerFails(r)
  <2>1. /\ pc[r] = "pointer"
        /\ pc' = [pc EXCEPT ![r] = "rollback"]
        /\ \A k \in Keys : pointer'[k] = pointer[k] \/ (k = key[r] /\ pointer'[k] = r)
        /\ UNCHANGED <<key, reusable, result, files, discarded>>
    BY <1>8 DEF PointerFails
  <2>2. CommitInv' /\ SurvivorsAreWhole'
    BY <2>1 DEF Whole
  <2> QED
    BY <2>1, <2>2
<1>9. CASE RollbackPointer(r)
  <2>1. /\ pc[r] = "rollback"
        /\ pc' = [pc EXCEPT ![r] = "untree"]
        /\ \A k \in Keys : pointer'[k] \in {pointer[k], Nobody}
        /\ UNCHANGED <<key, reusable, result, files, discarded>>
    BY <1>9 DEF RollbackPointer
  <2>2. CommitInv' /\ SurvivorsAreWhole'
    BY <2>1 DEF Whole
  <2> QED
    BY <2>1, <2>2
<1>10. CASE RollbackEntry(r)
  BY <1>10 DEF RollbackEntry, RemoveOne, Whole
<1>11. CASE RollbackEnds(r)
  BY <1>11 DEF RollbackEnds, Whole
<1>12. CASE Discard(r)
  BY <1>12 DEF Discard, Whole
<1>13. CASE Leave(r)
  BY <1>13 DEF Leave, Whole
<1>14. CASE Replay(r)
  BY <1>14 DEF Replay, Whole
<1>15. CASE Crash(r)
  BY <1>15 DEF Crash, Whole
<1> HIDE DEF IInv, TypeOK, CommitInv, PointerInv, SurvivorsAreWhole, PointersAreTyped
<1> QED
  BY <1>1, <1>2, <1>3, <1>4, <1>5, <1>6, <1>7, <1>8, <1>9, <1>10, <1>11, <1>12, <1>13,
     <1>14, <1>15 DEF RunStep

LEMMA DeleteInv ==
  ASSUME IInv, NEW d \in Deleters, DeleteStep(d), TypeOK'
  PROVE  CommitInv' /\ PointerInv' /\ SurvivorsAreWhole' /\ PointersAreTyped'
<1> USE DEF Proceed, Failed, runner
<1>1. CASE RemoveEntry(d)
  <2>1. target[d] \in discarded
    BY <1>1 DEF RemoveEntry, IInv, DeletionInv, Deleting
  <2>2. \A e \in Runs \ discarded' : files'[e] = files[e]
    BY <1>1, <2>1 DEF RemoveEntry, RemoveOne, IInv, TypeOK
  <2>3. UNCHANGED <<pc, key, reusable, result, pointer, discarded>>
    BY <1>1 DEF RemoveEntry
  <2> QED
    BY <2>2, <2>3, Undisturbed
<1>2. CASE RemovePointer(d) \/ DeleteFails(d)
  <2>1. \A k \in Keys : pointer'[k] \in {pointer[k], Nobody}
    BY <1>2 DEF RemovePointer, DeleteFails, IInv, TypeOK
  <2>2. UNCHANGED <<pc, key, reusable, result, files, discarded>>
    BY <1>2 DEF RemovePointer, DeleteFails
  <2> QED
    BY <2>1, <2>2, Undisturbed
<1>3. CASE UNCHANGED <<pc, key, reusable, result, files, pointer, discarded>>
  BY <1>3, Undisturbed
<1>4. NextTarget(d) \/ GetEntry(d) \/ ReadKeyPointer(d) \/ CheckRefresh(d)
        \/ EntryRemoved(d) \/ DeleterCrash(d)
      => UNCHANGED <<pc, key, reusable, result, files, pointer, discarded>>
  BY DEF NextTarget, GetEntry, ReadKeyPointer, CheckRefresh, EntryRemoved, DeleterCrash
<1> QED
  BY <1>1, <1>2, <1>3, <1>4 DEF DeleteStep

LEMMA InvStep == IInv /\ [Next]_vars => IInv'
<1> SUFFICES ASSUME IInv, [Next]_vars PROVE IInv'
  OBVIOUS
<1>1. TypeOK' /\ DeletionInv'
  BY TypeStep, DeletionStep DEF IInv
<1>2. CASE UNCHANGED vars
  <2>1. UNCHANGED <<pc, key, reusable, result, files, pointer, discarded>>
    BY <1>2 DEF vars, runner
  <2> QED
    BY <1>1, <2>1, Undisturbed DEF IInv
<1>3. ASSUME NEW d \in Removers, RmTargets(d) \/ RmEnter(d) \/ RmLeave(d) PROVE IInv'
  <2>1. UNCHANGED <<pc, key, reusable, result, files, pointer>> /\ discarded \subseteq discarded'
    BY <1>3 DEF RmTargets, RmEnter, RmLeave, runner
  <2> QED
    BY <1>1, <2>1, Undisturbed DEF IInv
<1>4. CASE GcBegin \/ GcDropTemp \/ GcEnd
  <2>1. UNCHANGED <<pc, key, reusable, result, files, pointer>> /\ discarded \subseteq discarded'
    BY <1>4 DEF GcBegin, GcDropTemp, GcEnd, runner
  <2> QED
    BY <1>1, <2>1, Undisturbed DEF IInv
<1>5. ASSUME NEW r \in Runs, RunStep(r) PROVE IInv'
  BY <1>1, <1>5, RunInv DEF IInv
<1>6. ASSUME NEW d \in Deleters, DeleteStep(d) PROVE IInv'
  BY <1>1, <1>6, DeleteInv DEF IInv
<1> QED
  BY <1>2, <1>3, <1>4, <1>5, <1>6 DEF Next, GcStep, RmStep, Deleters

(* The inductive invariant holds of every reachable state. *)
THEOREM Invariance == Spec => []IInv
  BY InvInit, InvStep, PTL DEF Spec

(* A stored run that nobody chose to delete keeps its whole entry, whatever  *)
(* other runs roll back, other deletions remove, fails or dies.              *)
THEOREM StoredRunsSurvive == Spec => []SurvivorsAreWhole
<1>1. IInv => SurvivorsAreWhole
  BY DEF IInv
<1> QED
  BY <1>1, Invariance, PTL

(* A pointer never names a run of another key or one that may not be         *)
(* replayed, not even one left dangling.                                     *)
THEOREM NoForeignHits == Spec => []PointersAreTyped
<1>1. IInv => PointersAreTyped
  BY DEF IInv
<1> QED
  BY <1>1, Invariance, PTL

-----------------------------------------------------------------------------
(* What holds as well as long as nobody runs "run rm" and nothing fails.     *)

LEMMA QuietInit == Init => QuietInv
  BY RunStoreAssumption
  DEF Init, QuietInv, ExclusionInv, UnpointInv, LookupInv, WholeIndex, ServedLookups, Live,
      Access!Init, Deleters

LEMMA RunExclusion ==
  ASSUME IInv, ExclusionInv, NEW r \in Runs, RunStep(r)
  PROVE  ExclusionInv'
<1> USE RunStoreAssumption
    DEF IInv, TypeOK, ExclusionInv, Live, Goto, Finish, access, deleter, Access!TypeOK
<1>1. CASE Enter(r)
  BY <1>1 DEF Enter, Access!Enter
<1>2. CASE ReadPointer(r)
  BY <1>2 DEF ReadPointer
<1>3. CASE ResolveEntry(r)
  BY <1>3 DEF ResolveEntry
<1>4. CASE VerifyPayloads(r)
  BY <1>4 DEF VerifyPayloads
<1>5. CASE Begin(r)
  BY <1>5 DEF Begin
<1>6. CASE PublishEntry(r)
  BY <1>6 DEF PublishEntry
<1>7. CASE PublishPointer(r)
  BY <1>7 DEF PublishPointer
<1>8. CASE PointerFails(r)
  BY <1>8 DEF PointerFails
<1>9. CASE RollbackPointer(r)
  BY <1>9 DEF RollbackPointer
<1>10. CASE RollbackEntry(r)
  BY <1>10 DEF RollbackEntry, runner
<1>11. CASE RollbackEnds(r)
  BY <1>11 DEF RollbackEnds
<1>12. CASE Discard(r)
  BY <1>12 DEF Discard
<1>13. CASE Leave(r)
  BY <1>13 DEF Leave, Access!Leave
<1>14. CASE Replay(r)
  BY <1>14 DEF Replay
<1>15. CASE Crash(r)
  BY <1>15 DEF Crash, Access!Leave
<1> HIDE DEF IInv, TypeOK, ExclusionInv
<1> QED
  BY <1>1, <1>2, <1>3, <1>4, <1>5, <1>6, <1>7, <1>8, <1>9, <1>10, <1>11, <1>12, <1>13,
     <1>14, <1>15 DEF RunStep

(* While a run is inside, gc is not.                                         *)
LEMMA RunAlone ==
  ASSUME ExclusionInv, NEW r \in Runs, Live(r)
  PROVE  at[Gc] = "idle" /\ owner = Nobody
  BY RunStoreAssumption DEF ExclusionInv

LEMMA RunUnpoint ==
  ASSUME IInv, QuietInv, NEW r \in Runs, RunStep(r)
  PROVE  UnpointInv'
<1>1. UNCHANGED <<key, at, todo, target>>
  BY DEF RunStep, Enter, ReadPointer, ResolveEntry, VerifyPayloads, Begin, PublishEntry,
         PublishPointer, PointerFails, RollbackPointer, RollbackEntry, RollbackEnds, Discard,
         Leave, Replay, Crash, deleter, runner, Finish
<1>2. CASE Live(r)
  BY <1>1, <1>2, RunAlone DEF QuietInv, UnpointInv
<1>3. CASE ~Live(r)
  <2>1. pointer' = pointer /\ seen'[Gc] = seen[Gc]
    BY <1>3
    DEF Live, RunStep, Goto, Finish, Enter, ReadPointer, ResolveEntry, VerifyPayloads, Begin,
        PublishEntry, PublishPointer, PointerFails, RollbackPointer, RollbackEntry,
        RollbackEnds, Discard, Leave, Replay, Crash
  <2> QED
    BY <1>1, <2>1 DEF QuietInv, UnpointInv, PointerOf
<1> QED
  BY <1>2, <1>3

(* A step of a run that leaves entries, pointers and the other runs alone.   *)
LEMMA RunFrame ==
  ASSUME IInv, QuietInv, NEW r \in Runs,
         UNCHANGED <<key, reusable, files, pointer>>,
         \A q \in Runs \ {r} : pc'[q] = pc[q] /\ seen'[q] = seen[q] /\ result'[q] = result[q],
         pc[r] \notin Early => pc'[r] \notin Early,
         pc'[r] \notin {"rollback", "untree", "pointer"},
         result'[r] # "corrupt",
         pc'[r] \in {"resolve", "verify"} =>
             pc[r] \in {"resolve", "verify"} /\ seen'[r] = seen[r]
  PROVE  LookupInv' /\ WholeIndex' /\ ServedLookups'
<1> USE DEF IInv, TypeOK, QuietInv
<1>1. WholeIndex'
  BY DEF WholeIndex, Whole, Replayable
<1>2. ServedLookups'
  BY DEF ServedLookups
<1>3. LookupInv'
  <2>1. \A q \in Runs : pc'[q] \notin {"rollback", "untree"} /\ (pc'[q] = "pointer" => Whole(q)')
    BY DEF LookupInv, Whole
  <2>2. ASSUME NEW q \in Runs, pc'[q] \in {"resolve", "verify"}
        PROVE  /\ seen'[q] # Nobody
               /\ Whole(seen[q])'
               /\ Replayable(seen[q], key[q])'
               /\ pc'[seen'[q]] \notin Early
    <3>1. pc[q] \in {"resolve", "verify"} /\ seen'[q] = seen[q]
      BY <2>2
    <3>2. /\ seen[q] \in Runs
          /\ Whole(seen[q])
          /\ Replayable(seen[q], key[q])
          /\ pc[seen[q]] \notin Early
      BY <3>1 DEF LookupInv
    <3>3. pc'[seen[q]] \notin Early
      BY <3>2
    <3> QED
      BY <3>1, <3>2, <3>3, RunStoreAssumption DEF Whole, Replayable
  <2> QED
    BY <2>1, <2>2 DEF LookupInv
<1> QED
  BY <1>1, <1>2, <1>3

LEMMA RunQuiet ==
  ASSUME quiet, IInv, QuietInv, NEW r \in Runs, RunStep(r)
  PROVE  LookupInv' /\ WholeIndex' /\ ServedLookups'
<1> USE RunStoreAssumption
    DEF IInv, TypeOK, QuietInv, Failing, Goto, Finish, Early, runner
<1>1. CASE Enter(r)
  BY <1>1, RunFrame DEF Enter, ServedLookups
<1>2. CASE ReadPointer(r)
  <2>1. CASE pointer[key[r]] = Nobody
    BY <1>2, <2>1, RunFrame DEF ReadPointer, ServedLookups
  <2>2. CASE pointer[key[r]] # Nobody
    <3>1. /\ seen' = [seen EXCEPT ![r] = pointer[key[r]]]
          /\ pc' = [pc EXCEPT ![r] = "resolve"]
          /\ pc[r] = "lookup"
          /\ UNCHANGED <<key, reusable, result, files, pointer>>
      BY <1>2, <2>2 DEF ReadPointer
    <3>2. pointer[key[r]] \in Runs /\ pc[pointer[key[r]]] \notin Early
      BY <2>2 DEF PointerInv
    <3>3. WholeIndex' /\ ServedLookups'
      BY <3>1 DEF WholeIndex, ServedLookups, Whole, Replayable
    <3>4. Whole(pointer[key[r]]) /\ Replayable(pointer[key[r]], key[r])
      BY <2>2 DEF WholeIndex
    <3>5. LookupInv'
      BY <3>1, <3>2, <3>4, <2>2 DEF LookupInv, Whole, Replayable
    <3> QED
      BY <3>3, <3>5
  <2> QED
    BY <2>1, <2>2
<1>3. CASE ResolveEntry(r)
  <2>1. pc[r] = "resolve"
    BY <1>3 DEF ResolveEntry
  <2>2. Replayable(seen[r], key[r])
    BY <2>1 DEF LookupInv
  <2> QED
    BY <1>3, <2>1, <2>2, RunFrame DEF ResolveEntry, ServedLookups
<1>4. CASE VerifyPayloads(r)
  <2>1. pc[r] = "verify"
    BY <1>4 DEF VerifyPayloads
  <2>2. Whole(seen[r])
    BY <2>1 DEF LookupInv
  <2> QED
    BY <1>4, <2>1, <2>2, RunFrame DEF VerifyPayloads, ServedLookups
<1>5. CASE Begin(r)
  BY <1>5, RunFrame DEF Begin, ServedLookups
<1>6. CASE PublishEntry(r)
  <2>1. /\ pc[r] = "run"
        /\ \A q \in Runs \ {r} : /\ pc'[q] = pc[q] /\ reusable'[q] = reusable[q]
                                /\ result'[q] = result[q] /\ files'[q] = files[q]
        /\ files'[r] = EntryFiles
        /\ pc'[r] \in {"pointer", "end"}
        /\ result'[r] \in {"stored", result[r]}
        /\ UNCHANGED <<key, pointer, seen>>
    BY <1>6 DEF PublishEntry
  <2>2. \A k \in Keys : pointer[k] # Nobody => pointer[k] \in Runs \ {r}
    BY <2>1 DEF PointerInv
  <2>3. WholeIndex'
    BY <2>1, <2>2 DEF WholeIndex, Whole, Replayable
  <2>4. ServedLookups'
    BY <2>1 DEF ServedLookups
  <2>5. \A q \in Runs \ {r} : pc[q] \in {"resolve", "verify"} => seen[q] \in Runs \ {r}
    BY <2>1 DEF LookupInv
  <2>6. \A q \in Runs : pc'[q] \notin {"rollback", "untree"} /\ (pc'[q] = "pointer" => Whole(q)')
    BY <2>1 DEF LookupInv, Whole
  <2>7. ASSUME NEW q \in Runs, pc'[q] \in {"resolve", "verify"}
        PROVE  /\ seen'[q] # Nobody
               /\ Whole(seen[q])'
               /\ Replayable(seen[q], key[q])'
               /\ pc'[seen'[q]] \notin Early
    <3>1. q # r /\ pc[q] \in {"resolve", "verify"}
      BY <2>1, <2>7
    <3>2. seen[q] \in Runs \ {r}
      BY <2>5, <3>1
    <3>3. Whole(seen[q]) /\ Replayable(seen[q], key[q]) /\ pc[seen[q]] \notin Early
      BY <3>1 DEF LookupInv
    <3> QED
      BY <2>1, <3>2, <3>3 DEF Whole, Replayable
  <2>8. LookupInv'
    BY <2>6, <2>7 DEF LookupInv
  <2> QED
    BY <2>3, <2>4, <2>8
<1>7. CASE PublishPointer(r)
  <2>1. /\ pc[r] = "pointer"
        /\ pc' = [pc EXCEPT ![r] = "end"]
        /\ result' = [result EXCEPT ![r] = "stored"]
        /\ pointer' = [pointer EXCEPT ![key[r]] = r]
        /\ UNCHANGED <<key, reusable, files, seen>>
    BY <1>7 DEF PublishPointer
  <2>2. Whole(r) /\ reusable[r]
    BY <2>1 DEF LookupInv, CommitInv
  <2>3. WholeIndex'
    BY <2>1, <2>2 DEF WholeIndex, Whole, Replayable, EntryFiles
  <2>4. ServedLookups'
    BY <2>1 DEF ServedLookups
  <2>5. LookupInv'
    BY <2>1 DEF LookupInv, Whole, Replayable
  <2> QED
    BY <2>3, <2>4, <2>5
<1>8. CASE PointerFails(r) \/ RollbackPointer(r) \/ RollbackEntry(r) \/ RollbackEnds(r)
  BY <1>8 DEF PointerFails, RollbackPointer, RollbackEntry, RollbackEnds, LookupInv
<1>9. CASE Discard(r)
  BY <1>9, RunFrame DEF Discard
<1>10. CASE Leave(r)
  BY <1>10, RunFrame DEF Leave, ServedLookups
<1>11. CASE Replay(r)
  BY <1>11, RunFrame DEF Replay
<1>12. CASE Crash(r)
  BY <1>12, RunFrame DEF Crash, ServedLookups
<1> HIDE DEF IInv, TypeOK, QuietInv
<1> QED
  BY <1>1, <1>2, <1>3, <1>4, <1>5, <1>6, <1>7, <1>8, <1>9, <1>10, <1>11, <1>12
  DEF RunStep

LEMMA RunQuietInv ==
  ASSUME quiet, IInv, QuietInv, NEW r \in Runs, RunStep(r)
  PROVE  QuietInv'
  BY RunExclusion, RunUnpoint, RunQuiet DEF QuietInv

(* A deletion that leaves entries and pointers alone keeps what is known of  *)
(* the index and of lookups.                                                 *)
LEMMA IndexFrame ==
  ASSUME IInv, QuietInv, UNCHANGED <<runner, files, pointer>>,
         \A r \in Runs : seen'[r] = seen[r]
  PROVE  LookupInv' /\ WholeIndex' /\ ServedLookups'
  BY DEF IInv, TypeOK, QuietInv, LookupInv, WholeIndex, ServedLookups, Whole, Replayable,
         Early, runner

LEMMA GcQuietInv ==
  ASSUME IInv, QuietInv, GcBegin \/ GcDropTemp \/ GcEnd
  PROVE  QuietInv'
<1>1. LookupInv' /\ WholeIndex' /\ ServedLookups'
  BY IndexFrame DEF GcBegin, GcDropTemp, GcEnd
<1>2. ExclusionInv'
  BY RunStoreAssumption
  DEF IInv, TypeOK, QuietInv, ExclusionInv, Live, GcBegin, GcDropTemp, GcEnd, Access!Begin,
      Access!End, Access!TypeOK, access, runner, deleter, Deleters
<1>3. UnpointInv'
  BY RunStoreAssumption
  DEF IInv, TypeOK, QuietInv, UnpointInv, PointerOf, GcBegin, GcDropTemp, GcEnd, runner,
      deleter, Deleters
<1> QED
  BY <1>1, <1>2, <1>3 DEF QuietInv

LEMMA DeleteQuietInv ==
  ASSUME quiet, IInv, QuietInv, DeleteStep(Gc)
  PROVE  QuietInv'
<1> USE RunStoreAssumption DEF Failing, IInv, TypeOK, QuietInv, Proceed, Failed
<1>0. Gc \in Deleters /\ Gc \notin Runs
  BY DEF Deleters
<1>1. CASE DeleterCrash(Gc)
  <2>1. ExclusionInv'
    BY <1>0, <1>1 DEF DeleterCrash, ExclusionInv, Live, Access!End, runner
  <2>2. UnpointInv'
    BY <1>0, <1>1 DEF DeleterCrash, UnpointInv
  <2>3. UNCHANGED <<runner, files, pointer, seen>>
    BY <1>1 DEF DeleterCrash
  <2> QED
    BY <2>1, <2>2, <2>3, IndexFrame
<1>2. CASE ~DeleterCrash(Gc)
  <2>1. at[Gc] # "idle" /\ UNCHANGED <<access, runner>>
    BY <1>2 DEF DeleteStep, NextTarget, GetEntry, ReadKeyPointer, CheckRefresh, RemovePointer,
                RemoveEntry, EntryRemoved, DeleteFails
  <2>2. at'[Gc] # "idle" => owner' = Gc
    BY <2>1 DEF ExclusionInv, access
  <2>3. ExclusionInv'
    BY <2>1, <2>2 DEF ExclusionInv, Live, access, runner
  <2>4. sharing = {}
    BY <2>1 DEF ExclusionInv
  <2>5. \A r \in Runs : ~Live(r)
    BY <2>4 DEF ExclusionInv
  <2>6. LookupInv'
    BY <2>1, <2>5 DEF Live, LookupInv, runner
  <2>7. ServedLookups'
    BY <2>1 DEF ServedLookups, runner
  <2>8. CASE RemoveEntry(Gc)
    <3>1. /\ at[Gc] = "tree"
          /\ \A e \in Runs \ {target[Gc]} : files'[e] = files[e]
          /\ at'[Gc] = "tree"
          /\ UNCHANGED <<runner, pointer, target>>
      BY <1>0, <2>8 DEF RemoveEntry, RemoveOne
    <3>2. PointerOf(Gc) # target[Gc]
      BY <3>1 DEF UnpointInv
    <3>3. \A k \in Keys : pointer[k] # Nobody => pointer[k] \in Runs \ {target[Gc]}
      BY <3>2 DEF PointerOf, WholeIndex, Replayable
    <3>4. WholeIndex'
      BY <3>1, <3>3 DEF WholeIndex, Whole, Replayable, runner
    <3>5. UnpointInv'
      BY <3>1, <3>2 DEF UnpointInv, PointerOf, runner
    <3> QED
      BY <2>3, <2>6, <2>7, <3>4, <3>5
  <2>9. CASE RemovePointer(Gc)
    <3>1. /\ at[Gc] = "unpoint" /\ at'[Gc] = "tree"
          /\ pointer' = [pointer EXCEPT ![key[target[Gc]]] = Nobody]
          /\ UNCHANGED <<runner, files, target>>
      BY <1>0, <2>9 DEF RemovePointer
    <3>2. target[Gc] \in Runs
      BY <1>0, <3>1 DEF DeletionInv, Deleting
    <3>3. WholeIndex'
      BY <3>1 DEF WholeIndex, Whole, Replayable, runner
    <3>4. UnpointInv'
      BY <3>1, <3>2 DEF UnpointInv, PointerOf, runner
    <3> QED
      BY <2>3, <2>6, <2>7, <3>3, <3>4
  <2>10. CASE NextTarget(Gc)
    <3>1. UnpointInv'
      BY <1>0, <2>10 DEF NextTarget, UnpointInv
    <3>2. WholeIndex'
      BY <2>10 DEF NextTarget, WholeIndex, Whole, Replayable, runner
    <3> QED
      BY <2>3, <2>6, <2>7, <3>1, <3>2
  <2>11. CASE ReadKeyPointer(Gc)
    <3>1. target[Gc] \in Runs
      BY <1>0, <2>11 DEF ReadKeyPointer, DeletionInv, Deleting
    <3>2. UNCHANGED <<runner, pointer, target, files>> /\ seen'[Gc] = PointerOf(Gc)
      BY <1>0, <2>11 DEF ReadKeyPointer
    <3>3. \/ PointerOf(Gc) = Nobody /\ at'[Gc] = "tree"
          \/ at'[Gc] = "unpoint"
          \/ PointerOf(Gc) \notin {Nobody, target[Gc]} /\ at'[Gc] = "check"
      BY <1>0, <2>11 DEF ReadKeyPointer
    <3>4. UnpointInv'
      BY <3>1, <3>2, <3>3 DEF UnpointInv, PointerOf, runner
    <3>5. WholeIndex'
      BY <3>2 DEF WholeIndex, Whole, Replayable, runner
    <3> QED
      BY <2>3, <2>6, <2>7, <3>4, <3>5
  <2>12. CASE CheckRefresh(Gc)
    <3>1. /\ at[Gc] = "check" /\ at'[Gc] \in {"tree", "unpoint"}
          /\ UNCHANGED <<runner, pointer, target, files, seen>>
      BY <1>0, <2>12 DEF CheckRefresh
    <3>2. UnpointInv'
      BY <3>1 DEF UnpointInv, PointerOf, runner
    <3>3. WholeIndex'
      BY <3>1 DEF WholeIndex, Whole, Replayable, runner
    <3> QED
      BY <2>3, <2>6, <2>7, <3>2, <3>3
  <2>13. CASE GetEntry(Gc) \/ EntryRemoved(Gc)
    <3>1. /\ at'[Gc] \in {"read", "next"}
          /\ UNCHANGED <<runner, pointer, files>>
      BY <1>0, <2>13 DEF GetEntry, EntryRemoved
    <3>2. UnpointInv' /\ WholeIndex'
      BY <3>1 DEF UnpointInv, WholeIndex, Whole, Replayable, runner
    <3> QED
      BY <2>3, <2>6, <2>7, <3>2
  <2> HIDE DEF IInv, TypeOK, QuietInv
  <2> QED
    BY <1>2, <2>8, <2>9, <2>10, <2>11, <2>12, <2>13 DEF DeleteStep, DeleteFails
<1> HIDE DEF IInv, TypeOK, QuietInv
<1> QED
  BY <1>1, <1>2

LEMMA QuietStep == IInv /\ (quiet => QuietInv) /\ [Next]_vars => (quiet => QuietInv)'
<1> SUFFICES ASSUME IInv, quiet => QuietInv, [Next]_vars, quiet' PROVE QuietInv'
  OBVIOUS
<1>0. quiet /\ QuietInv
  BY DEF Next, vars
<1>1. CASE UNCHANGED vars
  <2>1. LookupInv' /\ WholeIndex' /\ ServedLookups'
    BY <1>0, <1>1, IndexFrame DEF vars
  <2>2. ExclusionInv' /\ UnpointInv'
    BY <1>0, <1>1
    DEF vars, access, runner, deleter, QuietInv, ExclusionInv, UnpointInv, Live, PointerOf
  <2> QED
    BY <2>1, <2>2 DEF QuietInv
<1> QED
  BY <1>0, <1>1, RunQuietInv, GcQuietInv, DeleteQuietInv DEF Next, GcStep

(* Without run rm and without failures every pointer names a whole,          *)
(* replayable entry of its own key, whatever dies at any step.               *)
THEOREM IndexSound == Spec => []IndexIsSound
<1>1. (quiet => QuietInv) => IndexIsSound
  BY DEF QuietInv, IndexIsSound
<1> QED
  BY <1>1, QuietStep, QuietInit, Invariance, PTL DEF Spec

(* and no lookup takes what another process is doing for corruption.         *)
THEOREM LookupsSucceed == Spec => []LookupSucceeds
<1>1. (quiet => QuietInv) => LookupSucceeds
  BY DEF QuietInv, LookupSucceeds
<1> QED
  BY <1>1, QuietStep, QuietInit, Invariance, PTL DEF Spec

-----------------------------------------------------------------------------
(* Refreshes. *)

LEMMA RunRefresh ==
  ASSUME quiet, IInv, QuietInv, RefreshInv, NEW r \in Runs, RunStep(r)
  PROVE  RefreshInv'
<1>1. UNCHANGED <<key, at, target, discarded>>
  BY DEF RunStep, Enter, ReadPointer, ResolveEntry, VerifyPayloads, Begin, PublishEntry,
         PublishPointer, PointerFails, RollbackPointer, RollbackEntry, RollbackEnds, Discard,
         Leave, Replay, Crash, deleter, runner, Finish
<1>2. CASE PublishPointer(r)
  <2>1. at[Gc] = "idle"
    BY <1>2, RunAlone DEF PublishPointer, Finish, Goto, QuietInv, Live
  <2>2. /\ pointer' = [pointer EXCEPT ![key[r]] = r]
        /\ latest' = [latest EXCEPT ![key[r]] = r]
    BY <1>2 DEF PublishPointer
  <2>3. LatestIsFound'
    BY <1>1, <2>2 DEF LatestIsFound, RefreshInv, IInv, TypeOK
  <2> QED
    BY <1>1, <2>1, <2>3 DEF RefreshInv
<1>3. CASE ~PublishPointer(r)
  <2>1. pc[r] \notin {"rollback", "untree"}
    BY DEF QuietInv, LookupInv
  <2>2. UNCHANGED <<pointer, latest>>
    BY <1>3, <2>1
    DEF Failing, RunStep, Goto, Finish, Enter, ReadPointer, ResolveEntry, VerifyPayloads, Begin,
        PublishEntry, PointerFails, RollbackPointer, RollbackEntry, RollbackEnds, Discard,
        Leave, Replay, Crash
  <2> QED
    BY <1>1, <2>2 DEF RefreshInv, LatestIsFound, PointerOf
<1> QED
  BY <1>2, <1>3

LEMMA GcRefresh ==
  ASSUME IInv, RefreshInv, GcBegin \/ GcDropTemp \/ GcEnd
  PROVE  RefreshInv'
<1>1. /\ UNCHANGED <<pointer, latest>> /\ discarded \subseteq discarded'
      /\ at'[Gc] # "unpoint"
  BY DEF GcBegin, GcDropTemp, GcEnd, IInv, TypeOK, Deleters, deleter
<1> QED
  BY <1>1 DEF RefreshInv, LatestIsFound

LEMMA DeleteRefresh ==
  ASSUME quiet, IInv, QuietInv, RefreshInv, DeleteStep(Gc)
  PROVE  RefreshInv'
<1> USE DEF Proceed, Failed
<1>0. Gc \in Deleters /\ at \in [Deleters -> DeleterAt]
  BY DEF Deleters, IInv, TypeOK
<1>1. UNCHANGED <<latest, discarded, key>>
  BY DEF runner, DeleteStep, NextTarget, GetEntry, ReadKeyPointer, CheckRefresh, RemovePointer,
         RemoveEntry, EntryRemoved, DeleteFails, DeleterCrash
<1>2. CASE RemovePointer(Gc)
  <2>1. /\ at[Gc] = "unpoint" /\ at'[Gc] = "tree"
        /\ pointer' = [pointer EXCEPT ![key[target[Gc]]] = Nobody]
    BY <1>0, <1>2 DEF RemovePointer
  <2>2. target[Gc] \in discarded /\ pointer[key[target[Gc]]] = target[Gc]
    BY <1>0, <2>1 DEF RefreshInv, PointerOf, IInv, DeletionInv, Deleting
  <2>3. key[target[Gc]] \in Keys
    BY <2>2 DEF IInv, TypeOK
  <2>4. LatestIsFound'
    BY <1>1, <2>1, <2>2, <2>3 DEF LatestIsFound, RefreshInv, IInv, TypeOK
  <2> QED
    BY <2>1, <2>4 DEF RefreshInv
<1>3. CASE ~RemovePointer(Gc)
  <2>1. pointer' = pointer
    BY <1>3
    DEF Failing, DeleteStep, NextTarget, GetEntry, ReadKeyPointer, CheckRefresh,
        RemoveEntry, EntryRemoved, DeleteFails, DeleterCrash
  <2>2. ASSUME at'[Gc] = "unpoint" PROVE PointerOf(Gc)' = target'[Gc]
    <3>1. CASE ReadKeyPointer(Gc)
      BY <1>0, <1>1, <2>1, <2>2, <3>1 DEF ReadKeyPointer, PointerOf
    <3>2. CASE CheckRefresh(Gc)
      <4>1. at[Gc] = "check"
        BY <3>2 DEF CheckRefresh
      <4>2. PointerOf(Gc) = seen[Gc] /\ seen[Gc] # Nobody
        BY <4>1 DEF QuietInv, UnpointInv
      <4>3. key[target[Gc]] \in Keys
        BY <1>0, <4>1 DEF IInv, TypeOK, DeletionInv, Deleting
      <4>4. "meta" \in files[seen[Gc]] /\ key[seen[Gc]] = key[target[Gc]]
        BY <4>2, <4>3 DEF QuietInv, WholeIndex, Replayable, PointerOf
      <4>5. at'[Gc] = "tree"
        BY <1>0, <3>2, <4>4 DEF CheckRefresh
      <4> QED
        BY <2>2, <4>5
    <3>3. CASE DeleterCrash(Gc)
      BY <1>0, <2>2, <3>3 DEF DeleterCrash
    <3>4. CASE NextTarget(Gc) \/ GetEntry(Gc) \/ RemoveEntry(Gc) \/ EntryRemoved(Gc)
      BY <1>0, <2>2, <3>4 DEF NextTarget, GetEntry, RemoveEntry, EntryRemoved
    <3>5. CASE DeleteFails(Gc)
      BY <1>0, <2>2, <3>5 DEF DeleteFails
    <3> QED
      BY <1>3, <3>1, <3>2, <3>3, <3>4, <3>5 DEF DeleteStep
  <2> QED
    BY <1>1, <2>1, <2>2 DEF RefreshInv, LatestIsFound
<1> QED
  BY <1>2, <1>3

LEMMA RefreshStep ==
  IInv /\ (quiet => QuietInv) /\ (quiet => RefreshInv) /\ [Next]_vars => (quiet => RefreshInv)'
<1> SUFFICES ASSUME IInv, quiet => QuietInv, quiet => RefreshInv, [Next]_vars, quiet'
             PROVE  RefreshInv'
  OBVIOUS
<1>0. quiet /\ QuietInv /\ RefreshInv
  BY DEF Next, vars
<1>1. CASE UNCHANGED vars
  BY <1>0, <1>1 DEF vars, runner, deleter, RefreshInv, LatestIsFound, PointerOf
<1> QED
  BY <1>0, <1>1, RunRefresh, GcRefresh, DeleteRefresh DEF Next, GcStep

(* A refresh survives the deletion of the run it replaced: the result last   *)
(* published for a key is the one found, until somebody decides to delete it. *)
THEOREM RefreshesSurvive == Spec => []RefreshSurvives
<1>1. Init => (quiet => RefreshInv)
  BY DEF Init, RefreshInv, LatestIsFound, Deleters
<1>2. (quiet => RefreshInv) => RefreshSurvives
  BY DEF RefreshInv, RefreshSurvives
<1> QED
  BY <1>1, <1>2, RefreshStep, QuietStep, QuietInit, Invariance, PTL DEF Spec

-----------------------------------------------------------------------------
(* What may stand in the world and in a policy. *)

Report == Prints \cup {ProbeFailed}

IsWorld(w) ==
    /\ w = [tree |-> w.tree, effect |-> w.effect, env |-> w.env, executable |-> w.executable,
            granted |-> w.granted, reports |-> w.reports]
    /\ w.tree \in [Places -> Seen] /\ w.granted \in BOOLEAN /\ w.reports \in [Probes -> Report]

HistoryTyped == IsWorld(world) /\ IsConfig(config) /\ clock \in Int

(* A policy as selected, with what its probes reported; or none.              *)
IsSelected(v, facts) ==
    v = None \/ \E p \in Policies \ {None} : \E f \in [DOMAIN p.probes -> facts] : v = Selected(p, f)

Fact == ExternalFact \cup {Unassessed}

LEMMA FactsApart ==
    /\ ProbeFailed \in FactStatus /\ Report \subseteq ExternalFact
    /\ Unassessed \notin ExternalFact
    /\ \A f \in FactStatus : f \notin Prints
  BY HistoryAssumption DEF Report, ExternalFact, FactStatus, Unassessed, ProbeFailed

LEMMA SelectedIs ==
    ASSUME NEW v, NEW F, F \subseteq Fact, IsSelected(v, F), v # None
    PROVE  /\ v.facts \in [DOMAIN v.probes -> F] /\ v.facts # None
           /\ v = [label |-> v.label, dirs |-> v.dirs, probes |-> v.probes, facts |-> v.facts]
           /\ \A i \in DOMAIN v.probes : v.probes[i] \in Probes
           /\ None # <<v.dirs>> /\ None # <<v.dirs, v.probes, v.facts>>
           /\ \A f \in [DOMAIN v.probes -> Fact] :
                 /\ f # None /\ [v EXCEPT !.facts = f] # None /\ None # <<v.dirs, v.probes, f>>
                 /\ [v EXCEPT !.facts = f].dirs = v.dirs /\ [v EXCEPT !.facts = f].probes = v.probes
                 /\ [v EXCEPT !.facts = f].facts = f
                 /\ \A G : f \in [DOMAIN v.probes -> G] => IsSelected([v EXCEPT !.facts = f], G)
<1>0. PICK p \in Policies \ {None} : \E f \in [DOMAIN p.probes -> F] : v = Selected(p, f)
  BY DEF IsSelected
<1>1. PICK f \in [DOMAIN p.probes -> F] : v = Selected(p, f)
  BY <1>0
<1>2. /\ v = [label |-> p.label, dirs |-> p.dirs, probes |-> p.probes, facts |-> f]
      /\ v.label = p.label /\ v.dirs = p.dirs /\ v.probes = p.probes /\ v.facts = f
  BY <1>1 DEF Selected
<1>3. \A i \in DOMAIN p.probes : p.probes[i] \in Probes
  BY DEF Probes
<1>4. \A g \in [DOMAIN p.probes -> Fact] :
         None # g /\ None # Selected(p, g) /\ None # <<p.dirs>> /\ None # <<p.dirs, p.probes, g>>
  BY HistoryAssumption DEF Fact
<1>5. f \in [DOMAIN p.probes -> Fact]
  OBVIOUS
<1>6. ASSUME NEW g \in [DOMAIN p.probes -> Fact]
      PROVE  [v EXCEPT !.facts = g] = Selected(p, g)
  BY <1>2 DEF Selected
<1>7. ASSUME NEW g \in [DOMAIN p.probes -> Fact]
      PROVE  /\ Selected(p, g).dirs = p.dirs /\ Selected(p, g).probes = p.probes
             /\ Selected(p, g).facts = g
             /\ \A G : g \in [DOMAIN p.probes -> G] => IsSelected(Selected(p, g), G)
  BY DEF Selected, IsSelected
<1>8. ASSUME NEW g \in [DOMAIN p.probes -> Fact]
      PROVE  /\ g # None /\ [v EXCEPT !.facts = g] # None /\ None # <<v.dirs, v.probes, g>>
             /\ [v EXCEPT !.facts = g].dirs = v.dirs /\ [v EXCEPT !.facts = g].probes = v.probes
             /\ [v EXCEPT !.facts = g].facts = g
             /\ \A G : g \in [DOMAIN v.probes -> G] => IsSelected([v EXCEPT !.facts = g], G)
  BY <1>2, <1>4, <1>6, <1>7
<1> QED
  BY <1>2, <1>3, <1>4, <1>5, <1>8

LEMMA SelectedByPolicy ==
    ASSUME HistoryTyped, NEW req
    PROVE  IsSelected(selectValidation(req), {Unassessed})
<1>1. config.policy \in Policies
  BY DEF HistoryTyped, IsConfig
<1> DEFINE p == config.policy
           v == Selected(p, [i \in DOMAIN p.probes |-> Unassessed])
<1>2. ASSUME p # None PROVE IsSelected(v, {Unassessed})
  <2>1. [i \in DOMAIN p.probes |-> Unassessed] \in [DOMAIN p.probes -> {Unassessed}]
    OBVIOUS
  <2> QED
    BY <1>1, <1>2, <2>1 DEF IsSelected
<1>3. selectValidation(req) = None \/ (p # None /\ selectValidation(req) = v)
  BY DEF selectValidation
<1> QED
  BY <1>2, <1>3 DEF IsSelected

-----------------------------------------------------------------------------
(* What a run makes of its request. *)

LEMMA CacheabilityIs ==
    ASSUME HistoryTyped, NEW req, IsRequest(req), NEW skipped \in BOOLEAN
    PROVE  LET may == cacheability(req, skipped)
           IN  /\ may = [read |-> may.read, write |-> may.write, status |-> may.status,
                         reason |-> may.reason]
               /\ may.write \in BOOLEAN /\ may.read = (may.write /\ ~req.refresh)
               /\ may.write = (may.reason = NoReason)
               /\ may.write = (/\ config.capture /\ ~req.record /\ req.stdin = "null" /\ ~req.noCache
                               /\ (skipped => req.allowSkipped) /\ config.trust # "fast")
               /\ may.write => may.status = "miss"
               /\ ~may.write =>
                     /\ may.status = IF may.reason = "no-cache" THEN "disabled" ELSE "uncached"
                     /\ may.reason \in policyReason \ {"external-facts-unavailable"}
                     /\ may.reason = "capture-disabled" => ~config.capture
                     /\ may.reason = "stdin-not-keyed" => req.stdin # "null"
                     /\ may.reason = "skipped-inputs" => skipped /\ ~req.allowSkipped
                     /\ may.reason = "fast-trust-mode" => config.trust = "fast"
<1>1. /\ config.capture \in BOOLEAN /\ req.record \in BOOLEAN /\ req.noCache \in BOOLEAN
      /\ req.allowSkipped \in BOOLEAN /\ req.refresh \in BOOLEAN
  BY DEF HistoryTyped, IsConfig, IsRequest
<1> QED
  BY <1>1 DEF cacheability, NoReason, policyReason

LEMMA AcquiredIs ==
    ASSUME NEW w, IsWorld(w), NEW v, IsSelected(v, Fact), v # None
    PROVE  /\ acquire(w, v) \in [DOMAIN v.probes -> ExternalFact \ {"not-acquired"}]
           /\ FactsComplete(acquire(w, v)) =>
                 \A i \in DOMAIN v.probes : acquire(w, v)[i] = w.reports[v.probes[i]]
           /\ ~w.granted => acquire(w, v) = AllFacts(v, "denied")
           /\ w.granted => \A i \in DOMAIN v.probes :
                 acquire(w, v)[i] \in {"skipped", w.reports[v.probes[i]]}
<1>1. \A i \in DOMAIN v.probes : v.probes[i] \in Probes
  BY SelectedIs
<1>2. \A i \in DOMAIN v.probes : w.reports[v.probes[i]] \in Report
  BY <1>1 DEF IsWorld
<1>3. Report \subseteq ExternalFact \ {"not-acquired"} /\ {"denied", "skipped"} \subseteq ExternalFact \ {"not-acquired"}
  BY HistoryAssumption DEF Report, ExternalFact, FactStatus, ProbeFailed
<1>4. CASE ~w.granted
  <2>1. acquire(w, v) = [i \in DOMAIN v.probes |-> "denied"]
    BY <1>4 DEF acquire, AllFacts
  <2>2. FactsComplete(acquire(w, v)) => FALSE
    BY <2>1, FactsApart DEF FactsComplete, FactStatus
  <2> QED
    BY <1>3, <1>4, <2>1, <2>2 DEF AllFacts
<1>5. CASE w.granted
  <2> DEFINE stopped(i) == \E j \in 1..(i - 1) : w.reports[v.probes[j]] = ProbeFailed
  <2>1. acquire(w, v) = [i \in DOMAIN v.probes |->
                           IF stopped(i) THEN "skipped" ELSE w.reports[v.probes[i]]]
    BY <1>5 DEF acquire
  <2> HIDE DEF stopped
  <2>2. \A i \in DOMAIN v.probes : acquire(w, v)[i] \in {"skipped", w.reports[v.probes[i]]}
    BY <2>1
  <2>3. FactsComplete(acquire(w, v)) => \A i \in DOMAIN v.probes : acquire(w, v)[i] \in Prints
    BY <2>1 DEF FactsComplete
  <2>4. "skipped" \notin Prints
    BY FactsApart DEF FactStatus
  <2> QED
    BY <1>2, <1>3, <1>5, <2>1, <2>2, <2>3, <2>4
<1> QED
  BY <1>4, <1>5 DEF IsWorld

LEMMA FactsBeforeRun ==
    ASSUME HistoryTyped, NEW req, IsRequest(req), NEW acquiring \in BOOLEAN
    PROVE  LET s == selectValidation(req)
               v == withPreRunFacts(req, s, acquiring)
           IN  /\ IsSelected(v, Fact) /\ (acquiring => IsSelected(v, ExternalFact))
               /\ (v = None) = (s = None)
               /\ v # None => v.label = s.label /\ v.dirs = s.dirs /\ v.probes = s.probes
               /\ v # None /\ DOMAIN v.probes # {} =>
                     /\ ~cacheability(req, FALSE).write => v.facts = AllFacts(v, "not-acquired")
                     /\ cacheability(req, FALSE).write /\ acquiring => v.facts = acquire(world, v)
                     /\ cacheability(req, FALSE).write /\ ~acquiring =>
                           v.facts = AllFacts(v, IF world.granted THEN Unassessed ELSE "denied")
<1> DEFINE s == selectValidation(req)
           v == withPreRunFacts(req, s, acquiring)
           write == cacheability(req, FALSE).write
           Goal == /\ IsSelected(v, Fact) /\ (acquiring => IsSelected(v, ExternalFact))
                   /\ (v = None) = (s = None)
                   /\ v # None => v.label = s.label /\ v.dirs = s.dirs /\ v.probes = s.probes
                   /\ v # None /\ DOMAIN v.probes # {} =>
                         /\ ~write => v.facts = AllFacts(v, "not-acquired")
                         /\ write /\ acquiring => v.facts = acquire(world, v)
                         /\ write /\ ~acquiring =>
                               v.facts = AllFacts(v, IF world.granted THEN Unassessed ELSE "denied")
<1>1. /\ IsSelected(s, {Unassessed}) /\ IsSelected(s, Fact)
      /\ \A G : DOMAIN s.probes = {} /\ s # None => IsSelected(s, G)
  <2>1. IsSelected(s, {Unassessed})
    BY SelectedByPolicy
  <2>2. {Unassessed} \subseteq Fact
    BY DEF Fact
  <2>3. IsSelected(s, Fact)
    <3>1. ASSUME NEW p \in Policies \ {None}, NEW f \in [DOMAIN p.probes -> {Unassessed}]
          PROVE  f \in [DOMAIN p.probes -> Fact]
      BY <2>2
    <3> QED
      BY <2>1, <3>1 DEF IsSelected
  <2>4. ASSUME DOMAIN s.probes = {}, s # None, NEW G PROVE IsSelected(s, G)
    <3>1. PICK p \in Policies \ {None} : \E f \in [DOMAIN p.probes -> {Unassessed}] : s = Selected(p, f)
      BY <2>1, <2>4 DEF IsSelected
    <3>2. PICK f \in [DOMAIN p.probes -> {Unassessed}] : s = Selected(p, f)
      BY <3>1
    <3>3. DOMAIN p.probes = {}
      BY <2>4, <3>2 DEF Selected
    <3>4. f \in [DOMAIN p.probes -> G]
      BY <3>3
    <3> QED
      BY <3>2, <3>4 DEF IsSelected
  <2> QED
    BY <2>1, <2>3, <2>4
<1>2. write = (cacheability(req, FALSE).reason = NoReason)
  BY CacheabilityIs
<1>3. ASSUME ~probesDeclared(s) PROVE Goal
  <2>1. v = s
    BY <1>3 DEF withPreRunFacts
  <2>2. s = None \/ DOMAIN s.probes = {}
    BY <1>3 DEF probesDeclared
  <2>3. acquiring => IsSelected(v, ExternalFact)
    <3>1. s = None => IsSelected(s, ExternalFact)
      BY DEF IsSelected
    <3> QED
      BY <1>1, <2>1, <2>2, <3>1
  <2> HIDE DEF s, v, write
  <2> QED
    BY <1>1, <2>1, <2>2, <2>3
<1>4. ASSUME probesDeclared(s) PROVE Goal
  <2> DEFINE facts == IF ~write THEN AllFacts(s, "not-acquired")
                      ELSE IF acquiring THEN acquire(world, s)
                      ELSE AllFacts(s, IF world.granted THEN Unassessed ELSE "denied")
  <2>1. s # None /\ IsWorld(world)
    BY <1>4 DEF probesDeclared, HistoryTyped
  <2>2. /\ s = [label |-> s.label, dirs |-> s.dirs, probes |-> s.probes, facts |-> s.facts]
        /\ s.facts \in [DOMAIN s.probes -> {Unassessed}]
        /\ \A f \in [DOMAIN s.probes -> Fact] :
              /\ [s EXCEPT !.facts = f] # None
              /\ [s EXCEPT !.facts = f].dirs = s.dirs /\ [s EXCEPT !.facts = f].probes = s.probes
              /\ [s EXCEPT !.facts = f].facts = f
              /\ \A G : f \in [DOMAIN s.probes -> G] => IsSelected([s EXCEPT !.facts = f], G)
    <3>1. {Unassessed} \subseteq Fact
      BY DEF Fact
    <3> HIDE DEF s
    <3> QED
      BY <1>1, <2>1, <3>1, SelectedIs
  <2>3. {"not-acquired", "denied"} \subseteq ExternalFact /\ Unassessed \in Fact /\ ExternalFact \subseteq Fact
    BY DEF ExternalFact, FactStatus, Fact
  <2>4. acquire(world, s) \in [DOMAIN s.probes -> ExternalFact]
    <3>1. acquire(world, s) \in [DOMAIN s.probes -> ExternalFact \ {"not-acquired"}]
      BY <1>1, <2>1, AcquiredIs
    <3> QED
      BY <3>1
  <2>5. facts \in [DOMAIN s.probes -> Fact] /\ (acquiring => facts \in [DOMAIN s.probes -> ExternalFact])
    BY <2>3, <2>4 DEF AllFacts
  <2>6. v = [s EXCEPT !.facts = facts]
    <3>1. CASE ~write
      BY <1>2, <1>4, <3>1 DEF withPreRunFacts, WithFacts
    <3>2. CASE write /\ (acquiring \/ ~world.granted)
      BY <1>2, <1>4, <3>2 DEF withPreRunFacts, WithFacts
    <3>3. CASE write /\ ~acquiring /\ world.granted
      <4>1. v = s /\ facts = AllFacts(s, Unassessed)
        BY <1>2, <1>4, <3>3 DEF withPreRunFacts
      <4>2. s.facts = AllFacts(s, Unassessed)
        BY <2>2 DEF AllFacts
      <4> HIDE DEF s, v, facts
      <4> QED
        BY <2>2, <4>1, <4>2
    <3> QED
      BY <3>1, <3>2, <3>3
  <2> HIDE DEF s, v, facts, write
  <2>7. /\ v # None /\ v.dirs = s.dirs /\ v.probes = s.probes /\ v.facts = facts /\ v.label = s.label
        /\ \A G : facts \in [DOMAIN s.probes -> G] => IsSelected(v, G)
    BY <2>2, <2>5, <2>6
  <2>8. /\ \A status : AllFacts(v, status) = AllFacts(s, status)
        /\ acquire(world, v) = acquire(world, s)
    BY <2>7 DEF AllFacts, acquire
  <2> QED
    BY <2>1, <2>5, <2>7, <2>8 DEF facts
<1> HIDE DEF s, v, write, Goal
<1>5. Goal
  BY <1>3, <1>4
<1> QED
  BY <1>5 DEF Goal, s, v, write

RunConfig == <<config.capture, config.cacheFailed>>

LEMMA InputIs ==
    ASSUME NEW req, NEW v
    PROVE  LET in == buildKeyInput(req, v)
           IN  /\ in.tree = TreeHash(world, Observed(req)) /\ in.effect = world.effect
               /\ in.env = world.env /\ in.executable = world.executable
               /\ in.command = req.command /\ in.scope = Include(req) /\ in.validation = v
               /\ in.stdin = req.stdin /\ in.allowSkipped = req.allowSkipped
               /\ in.trust = config.trust /\ in.runConfig = RunConfig
  BY DEF buildKeyInput, RunConfig

(* The key context of a run, and of a view that asks no probe.               *)
LEMMA ContextIs ==
    ASSUME HistoryTyped, NEW req, IsRequest(req), NEW acquiring \in BOOLEAN
    PROVE  LET kc == buildKeyContext(req, acquiring)
               v == withPreRunFacts(req, selectValidation(req), acquiring)
               skipped == HasSkipped(world, Observed(req))
               may == cacheability(req, skipped)
           IN  /\ kc = [input |-> kc.input, skipped |-> kc.skipped, read |-> kc.read,
                        write |-> kc.write, status |-> kc.status, reason |-> kc.reason]
               /\ kc.input = buildKeyInput(req, v) /\ kc.skipped = skipped
               /\ kc.write \in BOOLEAN /\ kc.read = (kc.write /\ ~req.refresh)
               /\ kc.write = (kc.reason = NoReason)
               /\ kc.write = (may.write /\ (PolicyFactsComplete(v) \/ FactsUnassessed(v)))
               /\ kc.write => kc.status = "miss"
               /\ may.write /\ ~kc.write =>
                     kc.reason = "external-facts-unavailable" /\ kc.status = "uncached"
               /\ ~may.write => kc.reason = may.reason /\ kc.status = may.status
<1> DEFINE v == withPreRunFacts(req, selectValidation(req), acquiring)
           skipped == HasSkipped(world, Observed(req))
           may == cacheability(req, skipped)
           short == may.reason = NoReason /\ ~PolicyFactsComplete(v) /\ ~FactsUnassessed(v)
<1>1. skipped \in BOOLEAN
  BY DEF HasSkipped
<1>2. /\ may.write \in BOOLEAN /\ may.read = (may.write /\ ~req.refresh)
      /\ may.write = (may.reason = NoReason)
      /\ may.write => may.status = "miss"
  <2> HIDE DEF skipped
  <2> QED
    BY <1>1, CacheabilityIs
<1>3. req.refresh \in BOOLEAN
  BY DEF IsRequest
<1> DEFINE kc == [input |-> buildKeyInput(req, v), skipped |-> skipped,
                  read |-> may.read /\ ~short, write |-> may.write /\ ~short,
                  status |-> IF short THEN "uncached" ELSE may.status,
                  reason |-> IF short THEN "external-facts-unavailable" ELSE may.reason]
<1>4. buildKeyContext(req, acquiring) = kc
  BY DEF buildKeyContext
<1>5. PolicyFactsComplete(v) \in BOOLEAN /\ FactsUnassessed(v) \in BOOLEAN
  BY DEF PolicyFactsComplete, FactsComplete, FactsUnassessed, factsUnassessed
<1> HIDE DEF v, skipped, may
<1>6. /\ kc = [input |-> kc.input, skipped |-> kc.skipped, read |-> kc.read,
               write |-> kc.write, status |-> kc.status, reason |-> kc.reason]
      /\ kc.input = buildKeyInput(req, v) /\ kc.skipped = skipped
      /\ kc.write = (may.write /\ ~short) /\ kc.read = (may.read /\ ~short)
      /\ kc.status = (IF short THEN "uncached" ELSE may.status)
      /\ kc.reason = IF short THEN "external-facts-unavailable" ELSE may.reason
  OBVIOUS
<1> HIDE DEF kc
<1>7. /\ kc.write \in BOOLEAN /\ kc.read = (kc.write /\ ~req.refresh)
      /\ kc.write = (kc.reason = NoReason)
      /\ kc.write = (may.write /\ (PolicyFactsComplete(v) \/ FactsUnassessed(v)))
      /\ kc.write => kc.status = "miss"
      /\ may.write /\ ~kc.write =>
            kc.reason = "external-facts-unavailable" /\ kc.status = "uncached"
      /\ ~may.write => kc.reason = may.reason /\ kc.status = may.status
  BY <1>2, <1>3, <1>5, <1>6 DEF NoReason
<1> QED
  BY <1>4, <1>6, <1>7 DEF v, skipped, may

-----------------------------------------------------------------------------
(* What an entry tells of its run. *)

Tells(e) ==
    /\ e.input.tree = [p \in DOMAIN e.input.tree |-> e.made.tree[p]]
    /\ e.input.effect = e.made.effect /\ e.input.env = e.made.env
    /\ e.input.executable = e.made.executable
    /\ e.input.runConfig[1] /\ e.input.stdin = "null"
    /\ probesDeclared(e.input.validation) =>
          \A i \in DOMAIN e.input.validation.probes :
             e.input.validation.facts[i] = e.made.reports[e.input.validation.probes[i]]

EntryOk(e) ==
    /\ Validate(e) /\ IsSelected(e.input.validation, ExternalFact)
    /\ e.skipped = (\E p \in DOMAIN e.input.tree : e.input.tree[p] = Unreadable)
    /\ e.input.allowSkipped \in BOOLEAN
    /\ e.reuse.kind = "reusable" => Tells(e)

LEMMA ObservedIs ==
    ASSUME NEW req PROVE Observed(req) \subseteq Places
  BY DEF Observed, Covered

LEMMA TreeIs ==
    ASSUME NEW w, IsWorld(w), NEW places \in SUBSET Places
    PROVE  /\ TreeHash(w, places) \in [places -> Seen] /\ TreeHash(w, places) # None
           /\ HasSkipped(w, places) =
                 (\E p \in DOMAIN TreeHash(w, places) : TreeHash(w, places)[p] = Unreadable)
<1>1. TreeHash(w, places) \in [places -> Seen]
  BY DEF TreeHash, IsWorld
<1>2. TreeHash(w, places) # None
  BY <1>1, HistoryAssumption
<1>3. DOMAIN TreeHash(w, places) = places /\ \A p \in places : TreeHash(w, places)[p] = w.tree[p]
  BY DEF TreeHash
<1> QED
  BY <1>1, <1>2, <1>3 DEF HasSkipped

LEMMA AfterIs ==
    ASSUME NEW w, IsWorld(w), NEW end, IsEnding(end)
    PROVE  IsWorld(After(w, end))
<1> DEFINE tree == [p \in Places |-> IF p \in DOMAIN end.tree THEN end.tree[p] ELSE w.tree[p]]
           effect == IF end.effect = None THEN w.effect ELSE end.effect
           reports == [p \in DOMAIN w.reports |-> IF end.report = None THEN w.reports[p] ELSE end.report]
           after == [tree |-> tree, effect |-> effect, env |-> w.env, executable |-> w.executable,
                     granted |-> w.granted, reports |-> reports]
<1>1. /\ w = [tree |-> w.tree, effect |-> w.effect, env |-> w.env, executable |-> w.executable,
              granted |-> w.granted, reports |-> w.reports]
      /\ w.tree \in [Places -> Seen] /\ w.granted \in BOOLEAN /\ w.reports \in [Probes -> Report]
  BY DEF IsWorld
<1>2. tree \in [Places -> Seen]
  BY <1>1 DEF IsEnding
<1>3. reports \in [Probes -> Report]
  BY <1>1 DEF IsEnding, Report
<1>4. After(w, end) = [[[w EXCEPT !.tree = tree] EXCEPT !.effect = effect] EXCEPT !.reports = reports]
  BY DEF After
<1> HIDE DEF tree, effect, reports
<1>5. After(w, end) = after
  BY <1>1, <1>4
<1> QED
  BY <1>1, <1>2, <1>3, <1>5 DEF IsWorld

(* A run that executed makes an entry its own validation accepts, unless the *)
(* clock stepped back, and that tells the truth if it is reusable.           *)
LEMMA ExecutedIsOk ==
    ASSUME HistoryTyped, NEW req, IsRequest(req), NEW end, IsEnding(end), config.capture
    PROVE  LET e == Executed(req, buildKeyContext(req, TRUE), end)
           IN  /\ e.id = clock /\ e.started = clock /\ e.finished = clock + end.elapsed
               /\ e.started <= e.finished => EntryOk(e)
<1> DEFINE kc == buildKeyContext(req, TRUE)
           w == After(world, end)
           v == kc.input.validation
           failedUncached == end.failed /\ (~config.cacheFailed \/ req.noFailures)
           post == IF probesDeclared(v) /\ kc.write /\ ~failedUncached THEN acquire(w, v) ELSE None
           factsReason == IF post = None THEN NoReason ELSE postRunFactsReason(v, post)
           mutation == observeMutation(req, kc.input.tree, w, end)
           guard == observeEffectMutation(kc.input.effect, w)
           publish == /\ config.capture /\ kc.write /\ ~failedUncached
                      /\ mutation = "unchanged" /\ guard = "unchanged" /\ factsReason = NoReason
           after == IF end.scanFails THEN None ELSE TreeHash(w, Observed(req))
           reuse == reuseFromOutcome(kc, publish, failedUncached, mutation, guard, factsReason)
           e == [id |-> clock, input |-> kc.input, started |-> clock, finished |-> clock + end.elapsed,
                 failed |-> end.failed, skipped |-> kc.skipped, reuse |-> reuse,
                 mutation |-> mutation, guard |-> guard, postRunFacts |-> post,
                 before |-> kc.input.tree, after |-> after, made |-> world]
<1>1. e = Executed(req, kc, end)
  BY DEF Executed
<1>2. /\ e.id = clock /\ e.input = kc.input /\ e.started = clock /\ e.finished = clock + end.elapsed
      /\ e.failed = end.failed /\ e.skipped = kc.skipped /\ e.reuse = reuse /\ e.mutation = mutation
      /\ e.guard = guard /\ e.postRunFacts = post /\ e.before = kc.input.tree /\ e.after = after
      /\ e.made = world
  <2> HIDE DEF kc, w, v, failedUncached, post, factsReason, mutation, guard, publish, after, reuse
  <2> QED
    OBVIOUS
\* the world
<1>3. IsWorld(world) /\ IsWorld(w) /\ Observed(req) \subseteq Places
  BY AfterIs, ObservedIs DEF HistoryTyped
<1> DEFINE skipped == HasSkipped(world, Observed(req))
           may == cacheability(req, skipped)
<1>4. skipped \in BOOLEAN
  BY DEF HasSkipped
<1>5. cacheability(req, FALSE).write = (config.capture /\ ~req.record /\ req.stdin = "null" /\ ~req.noCache
                                        /\ config.trust # "fast")
  BY CacheabilityIs DEF HistoryTyped, IsConfig
<1>6. /\ may.write \in BOOLEAN
      /\ may.write = (/\ config.capture /\ ~req.record /\ req.stdin = "null" /\ ~req.noCache
                      /\ (skipped => req.allowSkipped) /\ config.trust # "fast")
      /\ ~may.write =>
            /\ may.reason \in policyReason \ {"external-facts-unavailable"}
            /\ may.reason = "capture-disabled" => ~config.capture
            /\ may.reason = "stdin-not-keyed" => req.stdin # "null"
            /\ may.reason = "skipped-inputs" => skipped /\ ~req.allowSkipped
            /\ may.reason = "fast-trust-mode" => config.trust = "fast"
  <2> HIDE DEF skipped
  <2> QED
    BY <1>4, CacheabilityIs
\* the key context
<1> DEFINE u == withPreRunFacts(req, selectValidation(req), TRUE)
<1>7. /\ kc.input = buildKeyInput(req, u) /\ kc.skipped = skipped
      /\ kc.write \in BOOLEAN
      /\ kc.write = (may.write /\ (PolicyFactsComplete(u) \/ FactsUnassessed(u)))
      /\ may.write /\ ~kc.write => kc.reason = "external-facts-unavailable"
      /\ ~may.write => kc.reason = may.reason
  BY ContextIs
<1>8. /\ v = u /\ kc.input.tree = TreeHash(world, Observed(req)) /\ kc.input.effect = world.effect
      /\ kc.input.trust = config.trust /\ kc.input.stdin = req.stdin
      /\ kc.input.allowSkipped = req.allowSkipped /\ kc.input.env = world.env
      /\ kc.input.executable = world.executable
      /\ kc.input.runConfig = RunConfig
  <2> HIDE DEF kc, u
  <2> DEFINE in == buildKeyInput(req, u)
  <2>1. /\ in.tree = TreeHash(world, Observed(req)) /\ in.effect = world.effect
        /\ in.env = world.env /\ in.executable = world.executable
        /\ in.validation = u
        /\ in.stdin = req.stdin /\ in.allowSkipped = req.allowSkipped
        /\ in.trust = config.trust /\ in.runConfig = RunConfig
    BY InputIs
  <2>2. kc.input = in
    BY <1>7
  <2> HIDE DEF in
  <2> QED
    BY <2>1, <2>2
<1>9. IsSelected(v, ExternalFact) /\ IsSelected(v, Fact) /\ ~FactsUnassessed(v)
  <2>1. IsSelected(u, ExternalFact) /\ IsSelected(u, Fact)
    BY FactsBeforeRun
  <2> HIDE DEF u
  <2>2. u # None => u.facts \in [DOMAIN u.probes -> ExternalFact]
    BY <2>1, SelectedIs DEF Fact
  <2>3. ~FactsUnassessed(u)
    BY <2>2, FactsApart DEF FactsUnassessed, factsUnassessed
  <2> HIDE DEF v
  <2> QED
    BY <1>8, <2>1, <2>3
<1>10. v # None => v.facts \in [DOMAIN v.probes -> ExternalFact]
  <2> HIDE DEF v
  <2> QED
    BY <1>9, SelectedIs DEF Fact
<1>11. probesDeclared(v) /\ cacheability(req, FALSE).write => v.facts = acquire(world, v)
  <2>1. u # None /\ DOMAIN u.probes # {} /\ cacheability(req, FALSE).write => u.facts = acquire(world, u)
    BY FactsBeforeRun
  <2> HIDE DEF u, v
  <2> QED
    BY <1>8, <2>1 DEF probesDeclared
<1>12. kc.write = (may.write /\ (~probesDeclared(v) \/ FactsComplete(v.facts)))
  <2> HIDE DEF u, v, kc, may
  <2> QED
    BY <1>7, <1>8, <1>9 DEF PolicyFactsComplete, probesDeclared, FactsComplete
<1>13. probesDeclared(v) => /\ acquire(w, v) \in [DOMAIN v.probes -> ExternalFact] /\ acquire(w, v) # None
                            /\ acquire(world, v) \in [DOMAIN v.probes -> ExternalFact \ {"not-acquired"}]
                            /\ FactsComplete(acquire(world, v)) =>
                                 \A i \in DOMAIN v.probes : acquire(world, v)[i] = world.reports[v.probes[i]]
  <2>1. ExternalFact \ {"not-acquired"} \subseteq Fact
    BY DEF Fact
  <2> HIDE DEF v, w
  <2>2. ASSUME v # None
        PROVE  /\ acquire(w, v) \in [DOMAIN v.probes -> ExternalFact \ {"not-acquired"}]
               /\ acquire(world, v) \in [DOMAIN v.probes -> ExternalFact \ {"not-acquired"}]
               /\ FactsComplete(acquire(world, v)) =>
                    \A i \in DOMAIN v.probes : acquire(world, v)[i] = world.reports[v.probes[i]]
    BY <1>3, <1>9, <2>2, AcquiredIs
  <2>3. ASSUME v # None PROVE \A f \in [DOMAIN v.probes -> Fact] : f # None
    BY <1>9, <2>3, SelectedIs
  <2> QED
    BY <2>1, <2>2, <2>3 DEF probesDeclared
\* the outcomes
<1>14. /\ mutation \in MutationOutcome /\ (mutation = "scan-failed") = end.scanFails
       /\ mutation = "unchanged" => TreeHash(w, Observed(req)) = kc.input.tree
       /\ mutation = "changed" => TreeHash(w, Observed(req)) # kc.input.tree
  <2> HIDE DEF kc, w
  <2> QED
    BY DEF observeMutation, MutationOutcome, IsEnding
<1>15. guard \in EffectOutcome /\ (guard = "unchanged" => world.effect # Unavailable)
  <2> HIDE DEF w, kc
  <2> QED
    BY <1>8 DEF observeEffectMutation, EffectOutcome
<1>16. (after = None) = end.scanFails /\ (~end.scanFails => after = TreeHash(w, Observed(req)))
  <2>1. TreeHash(w, Observed(req)) # None
    <3> HIDE DEF w
    <3> QED
      BY <1>3, TreeIs
  <2> HIDE DEF w
  <2> QED
    BY <2>1 DEF IsEnding
<1>17. /\ post # None => probesDeclared(v) /\ kc.write /\ post = acquire(w, v)
       /\ probesDeclared(v) /\ kc.write /\ ~failedUncached => post # None
       /\ factsReason \in {NoReason, "external-facts-unavailable-post-run", "external-facts-changed"}
       /\ post = None => factsReason = NoReason
       /\ post # None => /\ factsReason = NoReason => SameFacts(v.facts, post)
                         /\ factsReason = "external-facts-unavailable-post-run" => ~FactsComplete(post)
                         /\ factsReason = "external-facts-changed" =>
                               FactsComplete(post) /\ ~SameFacts(v.facts, post)
  <2>1. /\ post # None => probesDeclared(v) /\ kc.write /\ post = acquire(w, v)
        /\ probesDeclared(v) /\ kc.write /\ ~failedUncached => post # None
    <3> HIDE DEF v, w, kc, failedUncached
    <3> QED
      BY <1>13
  <2> HIDE DEF v, post, w, kc, failedUncached
  <2> QED
    BY <2>1 DEF postRunFactsReason, NoReason
<1>18. failedUncached => end.failed
  OBVIOUS
<1>19. publish = (/\ config.capture /\ kc.write /\ ~failedUncached /\ mutation = "unchanged"
                  /\ guard = "unchanged" /\ factsReason = NoReason)
  OBVIOUS
<1> HIDE DEF kc, w, v, failedUncached, post, factsReason, mutation, guard, publish, after, skipped, may, u
<1>20. \/ publish /\ reuse = Reusable
       \/ ~kc.write /\ reuse = RecordOnly(kc.reason)
       \/ kc.write /\ mutation = "scan-failed" /\ reuse = UnknownPostState
       \/ kc.write /\ mutation = "changed" /\ reuse = NonReusable("mutated-state")
       \/ kc.write /\ guard = "changed" /\ reuse = NonReusable("effect-state-differs")
       \/ kc.write /\ guard = "unavailable" /\ reuse = NonReusable("effect-state-unavailable")
       \/ kc.write /\ factsReason # NoReason /\ reuse = NonReusable(factsReason)
       \/ kc.write /\ failedUncached /\ reuse = NonReusable("failed-not-cached")
  BY <1>14, <1>15, <1>19 DEF reuseFromOutcome, MutationOutcome, EffectOutcome
<1> HIDE DEF reuse, e
<1>20a. reuse.kind = "reusable" => publish /\ kc.write
  BY <1>19, <1>20 DEF Reusable, NonReusable, RecordOnly, UnknownPostState
<1>20b. kc.write => config.trust # "fast" /\ (skipped => req.allowSkipped)
  BY <1>6, <1>12
<1>21. ~kc.write => /\ kc.reason \in policyReason /\ kc.reason # "capture-disabled"
                    /\ kc.reason = "skipped-inputs" => skipped /\ ~req.allowSkipped
                    /\ kc.reason = "stdin-not-keyed" => req.stdin # "null"
                    /\ kc.reason = "fast-trust-mode" => config.trust = "fast"
                    /\ kc.reason = "external-facts-unavailable" =>
                          may.write /\ probesDeclared(v) /\ ~FactsComplete(v.facts)
  BY <1>6, <1>7, <1>12 DEF policyReason
<1>22. validateReuse(e)
  <2>1. reuse \in ReuseStates
    BY <1>17, <1>20, <1>21 DEF ReuseStates, disqualifiedReason, NoReason
  <2>2. reuse.kind = "reusable" =>
          mutation = "unchanged" /\ guard = "unchanged" /\ world.effect # Unavailable /\ config.trust # "fast"
    BY <1>15, <1>19, <1>20a, <1>20b
  <2>3. reuse.kind = "unknown-post-state" => mutation = "scan-failed"
    BY <1>20 DEF Reusable, NonReusable, RecordOnly, UnknownPostState
  <2>4. reuse.kind = "non-reusable" =>
          /\ reuse.reason = "mutated-state" => mutation = "changed"
          /\ reuse.reason = "effect-state-differs" => guard = "changed"
          /\ reuse.reason = "effect-state-unavailable" => guard = "unavailable"
          /\ reuse.reason = "failed-not-cached" => end.failed
    BY <1>17, <1>18, <1>20 DEF Reusable, NonReusable, RecordOnly, UnknownPostState, NoReason
  <2> QED
    BY <1>2, <1>8, <1>14, <1>15, <2>1, <2>2, <2>3, <2>4 DEF validateReuse
<1>23. validateRecordOnlyReason(e)
  <2>1. reuse.kind = "record-only" => ~kc.write /\ reuse.reason = kc.reason
    BY <1>20 DEF Reusable, NonReusable, RecordOnly, UnknownPostState
  <2> QED
    BY <1>2, <1>7, <1>8, <1>21, <2>1 DEF validateRecordOnlyReason
<1>24. validateFacts(e)
  <2>1. ASSUME ~probesDeclared(v)
        PROVE  /\ post = None
               /\ reuse.reason \notin {"external-facts-unavailable", "external-facts-changed",
                                       "external-facts-unavailable-post-run"}
    <3>1. post = None /\ factsReason = NoReason
      BY <1>17, <2>1
    <3>2. ~kc.write => kc.reason \in policyReason \ {"external-facts-unavailable"}
      BY <1>21, <2>1
    <3> QED
      BY <1>20, <3>1, <3>2 DEF Reusable, NonReusable, RecordOnly, UnknownPostState, NoReason, policyReason
  <2>2. ASSUME probesDeclared(v)
        PROVE  /\ post # None => ValidateFacts(v.probes, post) /\ FactsComplete(v.facts)
               /\ reuse.kind = "reusable" => SameFacts(v.facts, post)
               /\ reuse.reason = "external-facts-unavailable" =>
                    /\ ~FactsComplete(v.facts)
                    /\ \A i \in DOMAIN v.facts : v.facts[i] # "not-acquired"
               /\ reuse.reason = "external-facts-changed" =>
                    FactsComplete(post) /\ ~SameFacts(v.facts, post)
               /\ reuse.reason = "external-facts-unavailable-post-run" =>
                    post # None /\ ~FactsComplete(post)
    <3>1. post # None => ValidateFacts(v.probes, post) /\ FactsComplete(v.facts)
      BY <1>12, <1>13, <1>17, <2>2 DEF ValidateFacts
    <3>2. reuse.kind = "reusable" => SameFacts(v.facts, post)
      BY <1>17, <1>19, <1>20, <2>2 DEF Reusable, NonReusable, RecordOnly, UnknownPostState
    <3>3. reuse.reason = "external-facts-unavailable" => ~kc.write /\ kc.reason = "external-facts-unavailable"
      BY <1>17, <1>20 DEF Reusable, NonReusable, RecordOnly, UnknownPostState, NoReason
    <3>4. ASSUME ~kc.write, kc.reason = "external-facts-unavailable"
          PROVE  ~FactsComplete(v.facts) /\ \A i \in DOMAIN v.facts : v.facts[i] # "not-acquired"
      <4>1. may.write /\ ~FactsComplete(v.facts)
        BY <1>21, <3>4
      <4>2. cacheability(req, FALSE).write
        BY <1>5, <1>6, <4>1
      <4> QED
        BY <1>11, <1>13, <2>2, <4>1, <4>2
    <3>5. reuse.reason = "external-facts-changed" => factsReason = "external-facts-changed"
      BY <1>17, <1>20, <1>21
      DEF Reusable, NonReusable, RecordOnly, UnknownPostState, NoReason, policyReason
    <3>6. reuse.reason = "external-facts-unavailable-post-run" =>
             factsReason = "external-facts-unavailable-post-run"
      BY <1>17, <1>20, <1>21
      DEF Reusable, NonReusable, RecordOnly, UnknownPostState, NoReason, policyReason
    <3> QED
      BY <1>17, <3>1, <3>2, <3>3, <3>4, <3>5, <3>6 DEF NoReason
  <2>3. e.input.validation = v
    BY <1>2 DEF v
  <2> QED
    BY <1>2, <2>1, <2>2, <2>3 DEF validateFacts
<1>25. validateObservations(e)
  BY <1>2, <1>14, <1>16 DEF validateObservations, MutationOutcome
<1>26. validateKeyInput(e.input)
  <2>1. e.input.validation = v
    BY <1>2 DEF v
  <2> QED
    BY <1>10, <2>1 DEF validateKeyInput, ValidateFacts
<1>27. reuse.kind = "reusable" => kc.write /\ (skipped => req.allowSkipped)
  BY <1>20a, <1>20b
<1>28. e.started <= e.finished => Validate(e)
  BY <1>2, <1>7, <1>8, <1>22, <1>23, <1>24, <1>25, <1>26, <1>27 DEF Validate
<1>29. reuse.kind = "reusable" => Tells(e)
  <2> SUFFICES ASSUME reuse.kind = "reusable" PROVE Tells(e)
    OBVIOUS
  <2>1. may.write /\ (~probesDeclared(v) \/ FactsComplete(v.facts))
    BY <1>12, <1>27
  <2>2. cacheability(req, FALSE).write /\ req.stdin = "null"
    BY <1>5, <1>6, <2>1
  <2>3. TreeHash(world, Observed(req)) = [p \in DOMAIN TreeHash(world, Observed(req)) |-> world.tree[p]]
    BY DEF TreeHash
  <2>4. probesDeclared(v) => \A i \in DOMAIN v.probes : v.facts[i] = world.reports[v.probes[i]]
    BY <1>11, <1>13, <2>1, <2>2
  <2>5. e.input.validation = v
    BY <1>2 DEF v
  <2> QED
    BY <1>2, <1>8, <2>2, <2>3, <2>4, <2>5 DEF Tells, RunConfig
<1>30. e.skipped = (\E p \in DOMAIN e.input.tree : e.input.tree[p] = Unreadable)
  <2>1. skipped = (\E p \in DOMAIN TreeHash(world, Observed(req)) :
                     TreeHash(world, Observed(req))[p] = Unreadable)
    BY <1>3, TreeIs DEF skipped
  <2> QED
    BY <1>2, <1>7, <1>8, <2>1
<1>31. IsSelected(e.input.validation, ExternalFact)
  BY <1>2, <1>9 DEF v
<1>32. e.input.allowSkipped \in BOOLEAN
  BY <1>2, <1>8 DEF IsRequest
<1>33. e.started <= e.finished => EntryOk(e)
  BY <1>2, <1>28, <1>29, <1>30, <1>31, <1>32 DEF EntryOk
<1> QED
  BY <1>1, <1>2, <1>33 DEF kc

-----------------------------------------------------------------------------
(* The invariant. *)

StoredOk(id, s) ==
    /\ s = [entry |-> s.entry, health |-> s.health]
    /\ id \in Int /\ s.entry.id = id /\ EntryOk(s.entry)

HistoryInv ==
    /\ HistoryTyped /\ last # "rejected" /\ IsFiniteSet(DOMAIN store)
    /\ \A id \in DOMAIN store : StoredOk(id, store[id])

LEMMA HistoryBegins == HistoryInit => HistoryInv
<1> SUFFICES ASSUME HistoryInit PROVE HistoryInv
  OBVIOUS
<1>1. PICK c \in Contents, f \in Prints :
         world = [tree |-> [p \in Places |-> c], effect |-> c, env |-> c, executable |-> c,
                  granted |-> TRUE, reports |-> [p \in Probes |-> f]]
  BY DEF HistoryInit
<1>2. IsWorld(world)
  <2> DEFINE tree == [p \in Places |-> c]
             reports == [p \in Probes |-> f]
  <2>1. tree \in [Places -> Seen] /\ reports \in [Probes -> Report]
    BY DEF Seen, Report
  <2> HIDE DEF tree, reports
  <2>2. world = [tree |-> tree, effect |-> c, env |-> c, executable |-> c,
                 granted |-> TRUE, reports |-> reports]
    BY <1>1 DEF tree, reports
  <2> QED
    BY <2>1, <2>2 DEF IsWorld
<1>3. IsConfig(config) /\ clock \in Int /\ last # "rejected"
  BY HistoryAssumption DEF HistoryInit
<1>4. DOMAIN store = {} /\ IsFiniteSet(DOMAIN store)
  BY FS_EmptySet DEF HistoryInit
<1> QED
  BY <1>2, <1>3, <1>4 DEF HistoryInv, HistoryTyped

LEMMA HistoryRunStep ==
    ASSUME HistoryInv, NEW req \in Requests, NEW end \in Endings, Execute(req, end), UNCHANGED config
    PROVE  HistoryInv'
<1> DEFINE e == Executed(req, buildKeyContext(req, TRUE), end)
<1>1. IsRequest(req) /\ IsEnding(end) /\ MaxClock \in Nat
  BY HistoryAssumption
<1>2. HistoryTyped'
  <2>1. IsWorld(After(world, end))
    BY <1>1, AfterIs DEF HistoryInv, HistoryTyped
  <2>2. world' = After(world, end) /\ clock' \in Int
    BY <1>1 DEF Execute
  <2> QED
    BY <2>1, <2>2 DEF HistoryInv, HistoryTyped, IsWorld, IsConfig
<1>3. CASE ~config.capture
  BY <1>2, <1>3 DEF HistoryInv, Execute
<1>4. CASE config.capture
  <2>1. e.id = clock /\ e.started = clock /\ (e.started <= e.finished => EntryOk(e))
    BY <1>1, <1>4, ExecutedIsOk DEF HistoryInv
  <2>2. Commit(e)
    BY <1>4 DEF Execute
  <2>3. CASE ~(e.started <= e.finished)
    <3>1. e.finished < e.started
      <4>1. e.finished = clock + end.elapsed
        BY <1>1, <1>4, ExecutedIsOk DEF HistoryInv
      <4>2. clock \in Int /\ end.elapsed \in Int
        BY <1>1 DEF HistoryInv, HistoryTyped, IsEnding
      <4> HIDE DEF e
      <4> QED
        BY <2>1, <2>3, <4>1, <4>2
    <3> HIDE DEF e
    <3> QED
      BY <1>2, <2>2, <2>3, <3>1 DEF HistoryInv, Commit, Validate
  <2>4. CASE e.started <= e.finished
    <3> HIDE DEF e
    <3> DEFINE s == [entry |-> e, health |-> "ok"]
    <3>1. store' = With(store, clock, s) /\ last' = "stored"
      BY <2>1, <2>2, <2>4 DEF Commit, EntryOk
    <3>2. DOMAIN store' = DOMAIN store \cup {clock} /\ store'[clock] = s
          /\ \A id \in DOMAIN store : id # clock => store'[id] = store[id]
      <4> HIDE DEF s
      <4> QED
        BY <3>1 DEF With
    <3>3. StoredOk(clock, s)
      BY <2>1, <2>4 DEF StoredOk, HistoryInv, HistoryTyped
    <3>4. IsFiniteSet(DOMAIN store')
      BY <3>2, FS_AddElement DEF HistoryInv
    <3> HIDE DEF s
    <3>5. \A id \in DOMAIN store' : StoredOk(id, store'[id])
      BY <3>2, <3>3 DEF HistoryInv
    <3> QED
      BY <1>2, <3>1, <3>4, <3>5 DEF HistoryInv, StoredOk
  <2> QED
    BY <2>3, <2>4
<1> QED
  BY <1>3, <1>4

LEMMA SmallerIsOk ==
    ASSUME HistoryInv, NEW gone, store' = Without(store, gone), UNCHANGED <<world, config, clock, last>>
    PROVE  HistoryInv'
<1>1. DOMAIN store' = DOMAIN store \ gone /\ \A id \in DOMAIN store' : store'[id] = store[id]
  BY DEF Without
<1>2. IsFiniteSet(DOMAIN store')
  BY <1>1, FS_Subset DEF HistoryInv
<1>3. HistoryTyped'
  BY DEF HistoryInv, HistoryTyped, IsWorld, IsConfig
<1>4. \A id \in DOMAIN store' : StoredOk(id, store'[id])
  BY <1>1 DEF HistoryInv
<1> QED
  BY <1>2, <1>3, <1>4 DEF HistoryInv, StoredOk

LEMMA DamageStep ==
    ASSUME HistoryInv, NEW id, NEW health, Damage(id, health)
    PROVE  HistoryInv'
<1>1. CASE health = "missing"
  BY <1>1, SmallerIsOk DEF Damage
<1>2. CASE health # "missing"
  <2>1. id \in DOMAIN store /\ store' = [store EXCEPT ![id].health = health]
    BY <1>2 DEF Damage
  <2>2. store[id] = [entry |-> store[id].entry, health |-> store[id].health]
    BY <2>1 DEF HistoryInv, StoredOk
  <2>3. store' = [store EXCEPT ![id] = [entry |-> store[id].entry, health |-> health]]
    <3>1. store' = [store EXCEPT ![id] = [store[id] EXCEPT !.health = health]]
      BY <2>1
    <3>2. [store[id] EXCEPT !.health = health] = [entry |-> store[id].entry, health |-> health]
      BY <2>2
    <3> QED
      BY <3>1, <3>2
  <2> DEFINE s == [entry |-> store[id].entry, health |-> health]
  <2>4. StoredOk(id, s)
    BY <2>1 DEF HistoryInv, StoredOk
  <2> HIDE DEF s
  <2>5. DOMAIN store' = DOMAIN store /\ \A i \in DOMAIN store : store'[i] = IF i = id THEN s ELSE store[i]
    BY <2>3 DEF s
  <2>6. \A i \in DOMAIN store' : StoredOk(i, store'[i])
    BY <2>4, <2>5 DEF HistoryInv
  <2>7. HistoryTyped' /\ last' # "rejected"
    BY DEF Damage, HistoryInv, HistoryTyped, IsWorld, IsConfig
  <2> QED
    BY <2>5, <2>6, <2>7 DEF HistoryInv, StoredOk
<1> QED
  BY <1>1, <1>2

LEMMA EditStep == ASSUME HistoryInv, Edit PROVE HistoryInv'
<1>1. /\ world = [tree |-> world.tree, effect |-> world.effect, env |-> world.env,
                  executable |-> world.executable, granted |-> world.granted, reports |-> world.reports]
      /\ world.tree \in [Places -> Seen] /\ world.granted \in BOOLEAN /\ world.reports \in [Probes -> Report]
  BY DEF HistoryInv, HistoryTyped, IsWorld
<1> DEFINE W(tree, effect, env, executable, granted, reports) ==
              [tree |-> tree, effect |-> effect, env |-> env, executable |-> executable,
               granted |-> granted, reports |-> reports]
<1>2. \E tree \in [Places -> Seen], granted \in BOOLEAN, reports \in [Probes -> Report] :
         \E effect, env, executable : world' = W(tree, effect, env, executable, granted, reports)
  <2>1. CASE \E p \in Places, c \in Contents \cup {Unreadable} : world' = [world EXCEPT !.tree[p] = c]
    <3>1. PICK p \in Places, c \in Seen : world' = [world EXCEPT !.tree[p] = c]
      BY <2>1 DEF Seen
    <3>2. world' = [world EXCEPT !.tree = [world.tree EXCEPT ![p] = c]]
      BY <3>1
    <3> DEFINE tree == [world.tree EXCEPT ![p] = c]
    <3>3. tree \in [Places -> Seen]
      BY <1>1
    <3> HIDE DEF tree
    <3>4. world' = W(tree, world.effect, world.env, world.executable, world.granted, world.reports)
      BY <1>1, <3>2 DEF tree
    <3> QED
      BY <1>1, <3>3, <3>4
  <2>2. CASE \E c \in Contents \cup {Unavailable} : world' = [world EXCEPT !.effect = c]
    <3>1. PICK c \in Contents \cup {Unavailable} : world' = [world EXCEPT !.effect = c]
      BY <2>2
    <3>2. world' = W(world.tree, c, world.env, world.executable, world.granted, world.reports)
      BY <1>1, <3>1
    <3> QED
      BY <1>1, <3>2
  <2>3. CASE \E p \in DOMAIN world.reports, f \in Prints \cup {ProbeFailed} :
               world' = [world EXCEPT !.reports[p] = f]
    <3>1. PICK p \in Probes, f \in Report : world' = [world EXCEPT !.reports[p] = f]
      BY <1>1, <2>3 DEF Report
    <3>2. world' = [world EXCEPT !.reports = [world.reports EXCEPT ![p] = f]]
      BY <3>1
    <3> DEFINE reports == [world.reports EXCEPT ![p] = f]
    <3>3. reports \in [Probes -> Report]
      BY <1>1
    <3> HIDE DEF reports
    <3>4. world' = W(world.tree, world.effect, world.env, world.executable, world.granted, reports)
      BY <1>1, <3>2 DEF reports
    <3> QED
      BY <1>1, <3>3, <3>4
  <2>4. CASE \E c \in Contents : world' = [world EXCEPT !.env = c]
    <3>1. PICK c \in Contents : world' = [world EXCEPT !.env = c]
      BY <2>4
    <3>2. world' = W(world.tree, world.effect, c, world.executable, world.granted, world.reports)
      BY <1>1, <3>1
    <3> QED
      BY <1>1, <3>2
  <2>5. CASE \E c \in Contents : world' = [world EXCEPT !.executable = c]
    <3>1. PICK c \in Contents : world' = [world EXCEPT !.executable = c]
      BY <2>5
    <3>2. world' = W(world.tree, world.effect, world.env, c, world.granted, world.reports)
      BY <1>1, <3>1
    <3> QED
      BY <1>1, <3>2
  <2>6. CASE world' = [world EXCEPT !.granted = ~@]
    <3> DEFINE granted == ~world.granted
    <3>1. granted \in BOOLEAN /\ world' = [world EXCEPT !.granted = granted]
      BY <2>6
    <3> HIDE DEF granted
    <3>2. world' = W(world.tree, world.effect, world.env, world.executable, granted, world.reports)
      BY <1>1, <3>1
    <3> QED
      BY <1>1, <3>1, <3>2
  <2> QED
    BY <2>1, <2>2, <2>3, <2>4, <2>5, <2>6 DEF Edit
<1>3. IsWorld(world')
  BY <1>2 DEF IsWorld
<1>4. HistoryTyped'
  BY <1>3 DEF Edit, HistoryInv, HistoryTyped, IsWorld, IsConfig
<1> QED
  BY <1>4 DEF Edit, HistoryInv, StoredOk

LEMMA ReconfigureStep == ASSUME HistoryInv, Reconfigure PROVE HistoryInv'
<1> DEFINE C(capture, trust, cacheFailed, ttl, policy, scope, version) ==
              [capture |-> capture, trust |-> trust, cacheFailed |-> cacheFailed, ttl |-> ttl,
               policy |-> policy, scope |-> scope, version |-> version]
<1>1. /\ config = C(config.capture, config.trust, config.cacheFailed, config.ttl,
                    config.policy, config.scope, config.version)
      /\ config.capture \in BOOLEAN /\ config.cacheFailed \in BOOLEAN /\ config.ttl \in Nat
      /\ config.trust \in {"fast", "normal"} /\ config.policy \in Policies /\ config.scope # None
  BY DEF HistoryInv, HistoryTyped, IsConfig
<1>2. \E capture \in BOOLEAN, cacheFailed \in BOOLEAN, ttl \in Nat, trust \in {"fast", "normal"},
         policy \in Policies : \E scope, version :
           scope # None /\ config' = C(capture, trust, cacheFailed, ttl, policy, scope, version)
  <2>1. CASE config' = [config EXCEPT !.capture = ~@]
    <3> DEFINE capture == ~config.capture
    <3>1. capture \in BOOLEAN /\ config' = [config EXCEPT !.capture = capture]
      BY <2>1
    <3> HIDE DEF capture
    <3>2. config' = C(capture, config.trust, config.cacheFailed, config.ttl, config.policy, config.scope,
                      config.version)
      BY <1>1, <3>1
    <3> QED
      BY <1>1, <3>1, <3>2
  <2>2. CASE config' = [config EXCEPT !.cacheFailed = ~@]
    <3> DEFINE cacheFailed == ~config.cacheFailed
    <3>1. cacheFailed \in BOOLEAN /\ config' = [config EXCEPT !.cacheFailed = cacheFailed]
      BY <2>2
    <3> HIDE DEF cacheFailed
    <3>2. config' = C(config.capture, config.trust, cacheFailed, config.ttl, config.policy, config.scope,
                      config.version)
      BY <1>1, <3>1
    <3> QED
      BY <1>1, <3>1, <3>2
  <2>3. CASE \E t \in {"fast", "normal"} : config' = [config EXCEPT !.trust = t]
    <3>1. PICK t \in {"fast", "normal"} : config' = [config EXCEPT !.trust = t]
      BY <2>3
    <3>2. config' = C(config.capture, t, config.cacheFailed, config.ttl, config.policy, config.scope,
                      config.version)
      BY <1>1, <3>1
    <3> QED
      BY <1>1, <3>2
  <2>4. CASE \E t \in {0, 1} : config' = [config EXCEPT !.ttl = t]
    <3>1. PICK t \in Nat : config' = [config EXCEPT !.ttl = t]
      BY <2>4
    <3>2. config' = C(config.capture, config.trust, config.cacheFailed, t, config.policy, config.scope,
                      config.version)
      BY <1>1, <3>1
    <3> QED
      BY <1>1, <3>2
  <2>5. CASE \E p \in Policies : config' = [config EXCEPT !.policy = p]
    <3>1. PICK p \in Policies : config' = [config EXCEPT !.policy = p]
      BY <2>5
    <3>2. config' = C(config.capture, config.trust, config.cacheFailed, config.ttl, p, config.scope,
                      config.version)
      BY <1>1, <3>1
    <3> QED
      BY <1>1, <3>2
  <2>6. CASE \E s \in {{Root}} \cup {{p} : p \in Places} : config' = [config EXCEPT !.scope = s]
    <3>1. PICK s \in {{Root}} \cup {{p} : p \in Places} : config' = [config EXCEPT !.scope = s]
      BY <2>6
    <3>2. s # None
      BY HistoryAssumption
    <3>3. config' = C(config.capture, config.trust, config.cacheFailed, config.ttl, config.policy, s,
                      config.version)
      BY <1>1, <3>1
    <3> QED
      BY <1>1, <3>2, <3>3
  <2>7. CASE config' = [config EXCEPT !.version = "next"]
    <3>1. config' = C(config.capture, config.trust, config.cacheFailed, config.ttl, config.policy,
                      config.scope, "next")
      BY <1>1, <2>7
    <3> QED
      BY <1>1, <3>1
  <2> QED
    BY <2>1, <2>2, <2>3, <2>4, <2>5, <2>6, <2>7 DEF Reconfigure
<1>3. IsConfig(config')
  <2>1. PICK capture \in BOOLEAN, cacheFailed \in BOOLEAN, ttl \in Nat, trust \in {"fast", "normal"},
         policy \in Policies : \E scope, version :
           scope # None /\ config' = C(capture, trust, cacheFailed, ttl, policy, scope, version)
    BY <1>2
  <2>2. PICK scope, version :
           scope # None /\ config' = C(capture, trust, cacheFailed, ttl, policy, scope, version)
    BY <2>1
  <2> QED
    BY <2>2 DEF IsConfig
<1>4. HistoryTyped'
  BY <1>3 DEF Reconfigure, HistoryInv, HistoryTyped, IsWorld, IsConfig
<1> QED
  BY <1>4 DEF Reconfigure, HistoryInv, StoredOk

LEMMA HistoryGoesOn == HistoryInv /\ [HistoryNext]_historyVars => HistoryInv'
<1> SUFFICES ASSUME HistoryInv, [HistoryNext]_historyVars PROVE HistoryInv'
  OBVIOUS
<1>1. CASE Run
  BY <1>1, HistoryRunStep DEF Run
<1>2. CASE Remove
  BY <1>2, SmallerIsOk DEF Remove, Rm
<1>3. CASE RemoveOlder
  BY <1>3, SmallerIsOk DEF RemoveOlder, RmOlder
<1>4. CASE Decay
  BY <1>4, DamageStep DEF Decay
<1>5. CASE Change
  BY <1>5, EditStep DEF Change
<1>6. CASE Configure
  BY <1>6, ReconfigureStep DEF Configure
<1>7. CASE Tick \/ ClockBack \/ UNCHANGED historyVars
  <2>1. UNCHANGED <<world, config, store, last>> /\ clock' \in Int
    BY <1>7 DEF Tick, ClockBack, historyVars, HistoryInv, HistoryTyped
  <2>2. HistoryTyped'
    BY <2>1 DEF HistoryInv, HistoryTyped, IsWorld, IsConfig
  <2> QED
    BY <2>1, <2>2 DEF HistoryInv, StoredOk
<1> QED
  BY <1>1, <1>2, <1>3, <1>4, <1>5, <1>6, <1>7 DEF HistoryNext

-----------------------------------------------------------------------------
(* What is replayed is still true. *)

(* Two inputs with one key agree in every field, and in a policy's directories, *)
(* probes and facts.                                                          *)
LEMMA SameKeyIs ==
    ASSUME NEW in, NEW out, canonical(in) = canonical(out)
    PROVE  /\ in.tree = out.tree /\ in.effect = out.effect /\ in.env = out.env
           /\ in.executable = out.executable /\ in.command = out.command
           /\ in.allowSkipped = out.allowSkipped
           /\ putValidation(in.validation) = putValidation(out.validation)
<1>1. \A f \in KeyField : canonical(in)[f] = canonical(out)[f]
  OBVIOUS
<1>2. \A f \in PlainField \cup {"effect"} : in[f] = out[f]
  BY <1>1 DEF canonical, KeyField, PlainField, FieldCode
<1>3. putValidation(in.validation) = putValidation(out.validation)
  BY <1>1 DEF canonical, KeyField
<1>4. in["tree"] = out["tree"] /\ in["effect"] = out["effect"] /\ in["env"] = out["env"]
  BY <1>2 DEF PlainField, FieldCode
<1>5. in["executable"] = out["executable"] /\ in["command"] = out["command"]
      /\ in["allowSkipped"] = out["allowSkipped"]
  BY <1>2 DEF PlainField, FieldCode
<1> QED
  BY <1>3, <1>4, <1>5

LEMMA SamePolicyIs ==
    ASSUME NEW v, NEW u, IsSelected(v, Fact), IsSelected(u, Fact), putValidation(v) = putValidation(u)
    PROVE  /\ (v = None) = (u = None)
           /\ v # None => v.dirs = u.dirs /\ (DOMAIN v.probes = {}) = (DOMAIN u.probes = {})
           /\ v # None /\ DOMAIN v.probes # {} => v.probes = u.probes /\ v.facts = u.facts
<1>1. /\ v # None => None # <<v.dirs>> /\ None # <<v.dirs, v.probes, v.facts>>
      /\ u # None => None # <<u.dirs>> /\ None # <<u.dirs, u.probes, u.facts>>
  BY SelectedIs
<1>2. ASSUME v # None, u # None, DOMAIN v.probes = {} PROVE DOMAIN u.probes = {} /\ v.dirs = u.dirs
  <2>1. DOMAIN u.probes # {} => <<v.dirs>> = <<u.dirs, u.probes, u.facts>>
    BY <1>2 DEF putValidation
  <2>2. DOMAIN u.probes = {}
    <3>1. Len(<<v.dirs>>) = 1 /\ Len(<<u.dirs, u.probes, u.facts>>) = 3
      OBVIOUS
    <3> QED
      BY <2>1, <3>1
  <2> QED
    BY <1>2, <2>2 DEF putValidation
<1>3. ASSUME v # None, u # None, DOMAIN v.probes # {}
      PROVE  DOMAIN u.probes # {} /\ v.dirs = u.dirs /\ v.probes = u.probes /\ v.facts = u.facts
  <2>1. DOMAIN u.probes = {} => <<u.dirs>> = <<v.dirs, v.probes, v.facts>>
    BY <1>3 DEF putValidation
  <2>2. DOMAIN u.probes # {}
    <3>1. Len(<<u.dirs>>) = 1 /\ Len(<<v.dirs, v.probes, v.facts>>) = 3
      OBVIOUS
    <3> QED
      BY <2>1, <3>1
  <2>3. <<v.dirs, v.probes, v.facts>> = <<u.dirs, u.probes, u.facts>>
    BY <1>3, <2>2 DEF putValidation
  <2> QED
    BY <2>2, <2>3
<1>4. (v = None) = (u = None)
  BY <1>1 DEF putValidation
<1> QED
  BY <1>2, <1>3, <1>4

LEMMA HitIs ==
    ASSUME HistoryInv, NEW wanted, Lookup(wanted) = "hit"
    PROVE  /\ wanted \in DOMAIN pointers /\ pointers[wanted] \in DOMAIN store
           /\ canonical(Entry(pointers[wanted]).input) = wanted
           /\ EntryOk(Entry(pointers[wanted])) /\ Entry(pointers[wanted]).reuse.kind = "reusable"
           /\ Get(pointers[wanted]) = "read"
<1> DEFINE id == pointers[wanted]
<1>1. wanted \in DOMAIN pointers
  BY DEF Lookup
<1>2. Get(id) \notin {"incompatible", "missing", "corrupt"} /\ Key(id) = wanted
      /\ Entry(id).reuse.kind = "reusable"
  <2> HIDE DEF id
  <2>1. Get(id) \in {"incompatible", "missing", "corrupt"} \/ Get(id) = "read"
    BY DEF Get
  <2>2. Lookup(wanted) = CASE Get(id) = "incompatible" -> "miss"
                        [] Get(id) \in {"missing", "corrupt"} -> "corrupt"
                        [] OTHER -> IF Key(id) = wanted /\ Entry(id).reuse.kind = "reusable"
                                    THEN "hit" ELSE "corrupt"
    BY <1>1 DEF Lookup, id
  <2>3. CASE Get(id) \in {"incompatible", "missing", "corrupt"}
    <3>1. Lookup(wanted) \in {"miss", "corrupt"}
      BY <2>2, <2>3
    <3> QED
      BY <3>1
  <2>4. CASE Get(id) = "read"
    <3>1. Lookup(wanted) = IF Key(id) = wanted /\ Entry(id).reuse.kind = "reusable" THEN "hit" ELSE "corrupt"
      BY <2>2, <2>4
    <3> QED
      BY <2>4, <3>1
  <2> QED
    BY <2>1, <2>3, <2>4
<1>3. Get(id) = "read" /\ id \in DOMAIN store
  BY <1>2 DEF Get
<1>4. EntryOk(Entry(id))
  BY <1>3 DEF HistoryInv, StoredOk, Entry
<1> QED
  BY <1>1, <1>2, <1>3, <1>4 DEF Key

(* What the probes reported is part of what a run that may read asked for.    *)
LEMMA AskedIs ==
    ASSUME HistoryTyped, NEW req, IsRequest(req), buildKeyContext(req, TRUE).write
    PROVE  LET v == buildKeyContext(req, TRUE).input.validation
               s == selectValidation(req)
           IN  /\ IsSelected(v, Fact) /\ (v = None) = (s = None)
               /\ v # None => v.dirs = s.dirs /\ v.probes = s.probes
               /\ v # None /\ DOMAIN v.probes # {} =>
                     /\ FactsComplete(v.facts)
                     /\ \A i \in DOMAIN v.probes : v.facts[i] = world.reports[v.probes[i]]
<1> DEFINE kc == buildKeyContext(req, TRUE)
           s == selectValidation(req)
           v == withPreRunFacts(req, s, TRUE)
           skipped == HasSkipped(world, Observed(req))
           may == cacheability(req, skipped)
<1>1. kc.input.validation = v /\ may.write /\ (PolicyFactsComplete(v) \/ FactsUnassessed(v))
  <2>1. kc.input = buildKeyInput(req, v) /\ kc.write \in BOOLEAN
        /\ kc.write = (may.write /\ (PolicyFactsComplete(v) \/ FactsUnassessed(v)))
    BY ContextIs
  <2>2. buildKeyInput(req, v).validation = v
    BY InputIs
  <2> HIDE DEF v, may
  <2> QED
    BY <2>1, <2>2
<1>2. cacheability(req, FALSE).write
  <2>1. skipped \in BOOLEAN
    BY DEF HasSkipped
  <2> HIDE DEF skipped
  <2>2. may.write => config.capture /\ ~req.record /\ req.stdin = "null" /\ ~req.noCache /\ config.trust # "fast"
    BY <2>1, CacheabilityIs
  <2> HIDE DEF may
  <2> QED
    BY <1>1, <2>2, CacheabilityIs
<1>3. /\ IsSelected(v, Fact) /\ IsSelected(v, ExternalFact) /\ (v = None) = (s = None)
      /\ v # None => v.dirs = s.dirs /\ v.probes = s.probes
      /\ v # None /\ DOMAIN v.probes # {} => v.facts = acquire(world, v)
  BY <1>2, FactsBeforeRun
<1> HIDE DEF kc, s, v, may, skipped
<1>4. ASSUME v # None, DOMAIN v.probes # {}
      PROVE  /\ FactsComplete(v.facts)
             /\ \A i \in DOMAIN v.probes : v.facts[i] = world.reports[v.probes[i]]
  <2>1. v.facts \in [DOMAIN v.probes -> ExternalFact]
    BY <1>3, <1>4, SelectedIs DEF Fact
  <2>2. FactsComplete(v.facts)
    BY <1>1, <1>4, <2>1, FactsApart DEF PolicyFactsComplete, FactsUnassessed, factsUnassessed
  <2> QED
    BY <1>3, <1>4, <2>2, AcquiredIs DEF HistoryTyped
<1> QED
  BY <1>1, <1>3, <1>4 DEF kc, s

LEMMA ReplaysTellTheTruth ==
    ASSUME HistoryInv, NEW req, IsRequest(req), RunFate(req) = "replay"
    PROVE  LET e == Entry(pointers[canonical(buildKeyContext(req, TRUE).input)])
               v == selectValidation(req)
           IN  /\ \A p \in Observed(req) : e.made.tree[p] = world.tree[p]
               /\ e.made.effect = world.effect /\ e.made.env = world.env
               /\ e.made.executable = world.executable
               /\ e.input.command = req.command /\ ~(req.noFailures /\ e.failed)
               /\ e.skipped => req.allowSkipped
               /\ probesDeclared(v) => \A i \in DOMAIN v.probes :
                     e.made.reports[v.probes[i]] = world.reports[v.probes[i]]
<1> DEFINE kc == buildKeyContext(req, TRUE)
           wanted == canonical(kc.input)
           e == Entry(pointers[wanted])
           s == selectValidation(req)
           v == kc.input.validation
<1>1. kc.read /\ Lookup(wanted) = "hit" /\ ~(req.noFailures /\ e.failed)
  <2>1. Fate(req, kc) = "replay"
    BY DEF RunFate
  <2>2. Lookup(wanted) \in {"hit", "miss", "corrupt"}
    BY DEF Lookup
  <2> HIDE DEF kc
  <2> QED
    BY <2>1, <2>2 DEF Fate
<1>2. HistoryTyped
  BY DEF HistoryInv
<1>3. kc.write
  <2>1. kc.write \in BOOLEAN /\ kc.read = (kc.write /\ ~req.refresh)
    BY <1>2, ContextIs
  <2> HIDE DEF kc
  <2> QED
    BY <1>1, <2>1
<1>4. /\ IsSelected(v, Fact) /\ (v = None) = (s = None)
      /\ v # None => v.dirs = s.dirs /\ v.probes = s.probes
      /\ v # None /\ DOMAIN v.probes # {} =>
            \A i \in DOMAIN v.probes : v.facts[i] = world.reports[v.probes[i]]
  BY <1>2, <1>3, AskedIs
<1>5. /\ kc.input.tree = TreeHash(world, Observed(req)) /\ kc.input.effect = world.effect
      /\ kc.input.env = world.env /\ kc.input.executable = world.executable
      /\ kc.input.command = req.command /\ kc.input.allowSkipped = req.allowSkipped
  <2> DEFINE u == withPreRunFacts(req, selectValidation(req), TRUE)
             in == buildKeyInput(req, u)
  <2>1. kc.input = in
    BY <1>2, ContextIs
  <2> HIDE DEF u, kc
  <2>2. /\ in.tree = TreeHash(world, Observed(req)) /\ in.effect = world.effect
        /\ in.env = world.env /\ in.executable = world.executable
        /\ in.command = req.command /\ in.allowSkipped = req.allowSkipped
    BY InputIs
  <2> HIDE DEF in
  <2> QED
    BY <2>1, <2>2
<1>6. canonical(e.input) = wanted /\ EntryOk(e) /\ e.reuse.kind = "reusable"
  BY <1>1, HitIs
<1> HIDE DEF e, kc, s
<1>7. /\ e.input.tree = kc.input.tree /\ e.input.effect = kc.input.effect /\ e.input.env = kc.input.env
      /\ e.input.executable = kc.input.executable /\ e.input.command = kc.input.command
      /\ e.input.allowSkipped = kc.input.allowSkipped
      /\ putValidation(e.input.validation) = putValidation(v)
  BY <1>6, SameKeyIs
<1>8. IsSelected(e.input.validation, Fact)
  <2>1. IsSelected(e.input.validation, ExternalFact)
    BY <1>6 DEF EntryOk
  <2>2. \A D : [D -> ExternalFact] \subseteq [D -> Fact]
    BY DEF Fact
  <2> QED
    BY <2>1, <2>2 DEF IsSelected
<1>9. /\ e.input.tree = [p \in DOMAIN e.input.tree |-> e.made.tree[p]]
      /\ e.input.effect = e.made.effect /\ e.input.env = e.made.env
      /\ e.input.executable = e.made.executable
      /\ probesDeclared(e.input.validation) =>
            \A i \in DOMAIN e.input.validation.probes :
               e.input.validation.facts[i] = e.made.reports[e.input.validation.probes[i]]
  BY <1>6 DEF EntryOk, Tells
<1>10. \A p \in Observed(req) : e.made.tree[p] = world.tree[p]
  <2> DEFINE t == TreeHash(world, Observed(req))
  <2>1. DOMAIN t = Observed(req) /\ \A p \in Observed(req) : t[p] = world.tree[p]
    BY DEF TreeHash
  <2> HIDE DEF t
  <2>2. e.input.tree = t
    BY <1>5, <1>7 DEF t
  <2> QED
    BY <1>9, <2>1, <2>2
<1>11. e.skipped => req.allowSkipped
  BY <1>5, <1>6, <1>7 DEF EntryOk, Validate
<1>12. ASSUME probesDeclared(s), NEW i \in DOMAIN s.probes
       PROVE  e.made.reports[s.probes[i]] = world.reports[s.probes[i]]
  <2>1. v # None /\ DOMAIN v.probes # {} /\ s.probes = v.probes
    BY <1>4, <1>12 DEF probesDeclared
  <2>2. /\ e.input.validation # None /\ DOMAIN e.input.validation.probes # {}
        /\ e.input.validation.probes = v.probes /\ e.input.validation.facts = v.facts
    BY <1>4, <1>7, <1>8, <2>1, SamePolicyIs
  <2> QED
    BY <1>4, <1>9, <1>12, <2>1, <2>2 DEF probesDeclared
<1>13. ~(req.noFailures /\ e.failed)
  BY <1>1
<1> QED
  BY <1>5, <1>7, <1>9, <1>10, <1>11, <1>12, <1>13 DEF e, s, kc

(* Every command that ran with its output captured leaves its entry, whatever *)
(* it did and whatever policy said, and what awa run replays from the history *)
(* is still true of the world it is replayed in: Run, Commit and Lookup.      *)
THEOREM HistoriesAreFaithful == HistorySpec => []HistoryIsFaithful
<1>1. HistoryInv => HistoryIsFaithful
  BY ReplaysTellTheTruth, HistoryAssumption
  DEF HistoryIsFaithful, EveryRunIsKept, ReplayIsFaithful, HistoryInv
<1> QED
  BY HistoryBegins, HistoryGoesOn, <1>1, PTL DEF HistorySpec

-----------------------------------------------------------------------------
(* What the views say is what a run does. *)

(* A stored reuse state without a reason is the reusable one.                 *)
LEMMA ReasonsAreReasons ==
    /\ \A state \in ReuseStates : state.kind # "reusable" =>
          state.reason \notin {"reusable", "unassessed", NoReason}
    /\ \A codes : ReasonOf(codes) \notin {"reusable", "unassessed", NoReason}
<1>1. ASSUME NEW state \in ReuseStates, state.kind # "reusable"
      PROVE  state.reason \notin {"reusable", "unassessed", NoReason}
  <2>1. CASE state \in {Reusable, UnknownPostState}
    BY <1>1, <2>1 DEF Reusable, UnknownPostState, NoReason
  <2>2. CASE \E r \in disqualifiedReason : state = NonReusable(r)
    BY <2>2 DEF NonReusable, disqualifiedReason, NoReason
  <2>3. CASE \E r \in policyReason : state = RecordOnly(r)
    BY <2>3 DEF RecordOnly, policyReason, NoReason
  <2> QED
    BY <2>1, <2>2, <2>3 DEF ReuseStates
<1>2. ASSUME NEW c \in DOMAIN OwnReason
      PROVE  OwnReason[c] \notin {"reusable", "unassessed", NoReason}
  BY DEF OwnReason, NoReason
<1> QED
  BY <1>1, <1>2 DEF ReasonOf, NoReason

LEMMA StoredRequest ==
    ASSUME HistoryInv, NEW id \in Readable
    PROVE  LET e == Entry(id)
               req == requestFromEntry(e)
           IN  /\ id \in DOMAIN store /\ Get(id) = "read" /\ e.id = id /\ id \in Int /\ EntryOk(e)
               /\ IsRequest(req)
               /\ req.command = e.input.command /\ req.scope = e.input.scope
               /\ req.stdin = e.input.stdin /\ req.allowSkipped = e.input.allowSkipped
               /\ ~req.record /\ ~req.noCache /\ ~req.refresh /\ ~req.noFailures
<1> DEFINE e == Entry(id)
<1>1. id \in DOMAIN store /\ Get(id) = "read" /\ e.id = id /\ id \in Int /\ EntryOk(e)
  BY DEF Readable, HistoryInv, StoredOk, Entry
<1>2. e.input.allowSkipped \in BOOLEAN
  BY <1>1 DEF EntryOk
<1> HIDE DEF e
<1>3. /\ Ordinary = [command |-> Ordinary.command, stdin |-> Ordinary.stdin, record |-> Ordinary.record,
                     noCache |-> Ordinary.noCache, refresh |-> Ordinary.refresh,
                     noFailures |-> Ordinary.noFailures, allowSkipped |-> Ordinary.allowSkipped,
                     scope |-> Ordinary.scope]
      /\ ~Ordinary.record /\ ~Ordinary.noCache /\ ~Ordinary.refresh /\ ~Ordinary.noFailures
      /\ {Ordinary.record, Ordinary.noCache, Ordinary.refresh, Ordinary.noFailures} \subseteq BOOLEAN
  BY HistoryAssumption DEF IsRequest
<1>4. requestFromEntry(e) =
        [[[[Ordinary EXCEPT !.command = e.input.command] EXCEPT !.scope = e.input.scope]
            EXCEPT !.stdin = e.input.stdin] EXCEPT !.allowSkipped = e.input.allowSkipped]
  BY DEF requestFromEntry
<1>5. requestFromEntry(e) =
        [command |-> e.input.command, stdin |-> e.input.stdin, record |-> Ordinary.record,
         noCache |-> Ordinary.noCache, refresh |-> Ordinary.refresh,
         noFailures |-> Ordinary.noFailures, allowSkipped |-> e.input.allowSkipped,
         scope |-> e.input.scope]
  BY <1>3, <1>4
<1> QED
  BY <1>1, <1>2, <1>3, <1>5 DEF IsRequest, e

(* A view that asks no probe sees what the run will see, or knows that it     *)
(* does not.                                                                 *)
LEMMA ContextsAgree ==
    ASSUME HistoryTyped, NEW req, IsRequest(req)
    PROVE  LET view == buildKeyContext(req, FALSE)
               kc == buildKeyContext(req, TRUE)
           IN  \/ view = kc
               \/ /\ FactsUnassessed(view.input.validation)
                  /\ view.reason # NoReason => kc.reason = view.reason /\ ~kc.write
<1> DEFINE s == selectValidation(req)
           write == cacheability(req, FALSE).write
           view == buildKeyContext(req, FALSE)
           kc == buildKeyContext(req, TRUE)
           u == withPreRunFacts(req, s, FALSE)
           v == withPreRunFacts(req, s, TRUE)
           skipped == HasSkipped(world, Observed(req))
           may == cacheability(req, skipped)
<1>1. write = (cacheability(req, FALSE).reason = NoReason)
  BY CacheabilityIs
<1>2. ASSUME ~probesDeclared(s) \/ ~write \/ ~world.granted PROVE view = kc
  <2>1. u = v
    <3>1. CASE ~probesDeclared(s)
      BY <3>1 DEF withPreRunFacts
    <3>2. CASE probesDeclared(s) /\ ~write
      BY <1>1, <3>2 DEF withPreRunFacts
    <3>3. CASE probesDeclared(s) /\ write /\ ~world.granted
      <4>1. acquire(world, s) = AllFacts(s, "denied")
        BY <3>3 DEF acquire
      <4> QED
        BY <1>1, <3>3, <4>1 DEF withPreRunFacts
    <3> QED
      BY <1>2, <3>1, <3>2, <3>3
  <2> HIDE DEF s
  <2> QED
    BY <2>1 DEF buildKeyContext, s
<1>3. ASSUME probesDeclared(s), write, world.granted
      PROVE  FactsUnassessed(view.input.validation) /\ (view.reason # NoReason => kc.reason = view.reason /\ ~kc.write)
  <2>1. u # None /\ DOMAIN u.probes # {} /\ u.facts = AllFacts(u, Unassessed)
    <3>1. (u = None) = (s = None) /\ (u # None => u.probes = s.probes)
      BY FactsBeforeRun
    <3>2. u # None /\ DOMAIN u.probes # {} /\ write => u.facts = AllFacts(u, IF world.granted THEN Unassessed ELSE "denied")
      BY FactsBeforeRun
    <3>3. s # None /\ DOMAIN s.probes # {}
      BY <1>3 DEF probesDeclared
    <3> HIDE DEF s, u, write
    <3> QED
      BY <1>3, <3>1, <3>2, <3>3
  <2>2. FactsUnassessed(u)
    <3> HIDE DEF u
    <3> QED
      BY <2>1 DEF FactsUnassessed, factsUnassessed, AllFacts
  <2>3. /\ view.input = buildKeyInput(req, u)
        /\ view.write = (view.reason = NoReason) /\ view.write \in BOOLEAN
        /\ view.write = (may.write /\ (PolicyFactsComplete(u) \/ FactsUnassessed(u)))
        /\ ~may.write => view.reason = may.reason
    BY ContextIs
  <2>4. /\ kc.write = (may.write /\ (PolicyFactsComplete(v) \/ FactsUnassessed(v)))
        /\ kc.write \in BOOLEAN
        /\ ~may.write => kc.reason = may.reason
    BY ContextIs
  <2>5. buildKeyInput(req, u).validation = u
    <3> HIDE DEF u
    <3> QED
      BY InputIs
  <2>6. may.write \in BOOLEAN
    <3>1. skipped \in BOOLEAN
      BY DEF HasSkipped
    <3> HIDE DEF skipped
    <3> QED
      BY <3>1, CacheabilityIs
  <2> HIDE DEF u, v, view, kc, may
  <2> QED
    BY <2>2, <2>3, <2>4, <2>5, <2>6
<1> HIDE DEF s, write, view, kc
<1>4. probesDeclared(s) \in BOOLEAN /\ write \in BOOLEAN /\ world.granted \in BOOLEAN
  <2>1. write \in BOOLEAN
    BY CacheabilityIs DEF write
  <2> QED
    BY <2>1 DEF probesDeclared, HistoryTyped, IsWorld
<1> QED
  BY <1>2, <1>3, <1>4 DEF view, kc

LEMMA StatusIs ==
    ASSUME HistoryTyped, NEW req, IsRequest(req)
    PROVE  LET kc == buildKeyContext(req, TRUE)
           IN  /\ kc.write \in BOOLEAN /\ kc.read = (kc.write /\ ~req.refresh)
               /\ kc.write = (kc.reason = NoReason)
               /\ ~kc.write => kc.status = IF kc.reason = "no-cache" THEN "disabled" ELSE "uncached"
<1> DEFINE kc == buildKeyContext(req, TRUE)
           skipped == HasSkipped(world, Observed(req))
           may == cacheability(req, skipped)
<1>1. /\ kc.write \in BOOLEAN /\ kc.read = (kc.write /\ ~req.refresh)
      /\ kc.write = (kc.reason = NoReason)
      /\ may.write /\ ~kc.write =>
            kc.reason = "external-facts-unavailable" /\ kc.status = "uncached"
      /\ ~may.write => kc.reason = may.reason /\ kc.status = may.status
  BY ContextIs
<1>2. skipped \in BOOLEAN
  BY DEF HasSkipped
<1>3. ~may.write => may.status = IF may.reason = "no-cache" THEN "disabled" ELSE "uncached"
  <2> HIDE DEF skipped
  <2> QED
    BY <1>2, CacheabilityIs
<1> HIDE DEF kc, may
<1>4. ~kc.write => kc.status = IF kc.reason = "no-cache" THEN "disabled" ELSE "uncached"
  BY <1>1, <1>3
<1> QED
  BY <1>1, <1>4 DEF kc

LEMMA VerdictForetells ==
    ASSUME HistoryInv, NEW req, IsRequest(req), ~Conflict(req)
    PROVE  LET v == currentVerdict(req, buildKeyContext(req, FALSE))
           IN  Foretold(req, v) /\ v = [outcome |-> v.outcome, reason |-> v.reason]
<1> DEFINE view == buildKeyContext(req, FALSE)
           kc == buildKeyContext(req, TRUE)
           v == currentVerdict(req, view)
           fate == RunFate(req)
           wanted == canonical(kc.input)
           found == Lookup(wanted)
           Said(outcome, reason) == v = [outcome |-> outcome, reason |-> reason]
<1>1. HistoryTyped
  BY DEF HistoryInv
<1>2. /\ kc.write \in BOOLEAN /\ kc.read = (kc.write /\ ~req.refresh)
      /\ kc.write = (kc.reason = NoReason)
      /\ ~kc.write => kc.status = IF kc.reason = "no-cache" THEN "disabled" ELSE "uncached"
  BY <1>1, StatusIs
<1>3. req.refresh \in BOOLEAN /\ req.noFailures \in BOOLEAN
  BY DEF IsRequest
<1>4. \/ view = kc
      \/ /\ FactsUnassessed(view.input.validation)
         /\ view.reason # NoReason => kc.reason = view.reason /\ ~kc.write
  BY <1>1, ContextsAgree
<1>5. fate = Fate(req, kc)
  BY DEF RunFate
<1>6. found \in {"hit", "miss", "corrupt"}
  BY DEF Lookup
<1> DEFINE entry == Entry(pointers[wanted])
           spurned == req.noFailures /\ entry.failed
           whole == payloadHealth(pointers[wanted])
<1>7. /\ ~kc.read => fate = "execute"
      /\ kc.read /\ found = "corrupt" => fate = "error"
      /\ kc.read /\ found = "miss" => fate = "execute"
      /\ kc.read /\ found = "hit" /\ (spurned \/ Expired(entry)) => fate = "execute"
      /\ kc.read /\ found = "hit" /\ ~spurned /\ ~Expired(entry) =>
            fate = IF whole THEN "replay" ELSE "error"
  <2>1. Fate(req, kc) = IF ~kc.read THEN "execute"
                        ELSE IF found = "corrupt" THEN "error"
                        ELSE IF found = "miss" THEN "execute"
                        ELSE IF spurned THEN "execute"
                        ELSE IF Expired(entry) THEN "execute"
                        ELSE IF whole THEN "replay" ELSE "error"
    BY DEF Fate
  <2> HIDE DEF fate, kc, found, spurned, entry, whole
  <2> QED
    BY <1>5, <1>6, <2>1
<1>8. view.reason # NoReason => Said(IF view.reason = "no-cache" THEN "disabled" ELSE "uncached", view.reason)
  <2> HIDE DEF view
  <2> QED
    BY DEF currentVerdict
<1>9. view.reason = NoReason /\ req.refresh => Said("miss", "refresh-requested")
  <2> HIDE DEF view
  <2> QED
    BY DEF currentVerdict
<1>10. view.reason = NoReason /\ ~req.refresh /\ FactsUnassessed(view.input.validation) =>
          Said("incomplete", "external-facts-unacquired")
  <2> HIDE DEF view
  <2> QED
    BY DEF currentVerdict
<1>11. ASSUME view = kc, kc.reason = NoReason, ~req.refresh, ~FactsUnassessed(kc.input.validation)
       PROVE  /\ found = "corrupt" => Said("corrupt", "stored-run-corrupt")
              /\ found = "miss" => Said("miss", NoReason)
              /\ found = "hit" /\ ~whole => Said("corrupt", "exact-entry-unhealthy")
              /\ found = "hit" /\ whole /\ spurned => Said("miss", "cached-failure-ignored")
              /\ found = "hit" /\ whole /\ ~spurned /\ Expired(entry) => Said("miss", "ttl-expired")
              /\ found = "hit" /\ whole /\ ~spurned /\ ~Expired(entry) => Said("hit", "exact-key")
  <2>1. v = currentVerdict(req, kc)
    BY <1>11
  <2> HIDE DEF v, kc
  <2> QED
    BY <1>11, <2>1 DEF currentVerdict
<1>12. RunIgnores(req, fate) = (fate = "execute" /\ found = "hit" /\ ~whole)
  BY DEF RunIgnores
<1>13. Foretold(req, v) = (
          /\ v.outcome = "hit" => fate = "replay"
          /\ v.outcome = "corrupt" => fate = "error" \/ RunIgnores(req, fate)
          /\ v.outcome \in {"uncached", "disabled"} =>
                fate = "execute" /\ kc.status = v.outcome /\ kc.reason = v.reason
          /\ v.outcome = "miss" => fate = "execute"
          /\ v.outcome # "incomplete" =>
                /\ fate = "replay" => v.outcome = "hit"
                /\ fate = "error" => v.outcome = "corrupt")
  <2> HIDE DEF v
  <2> QED
    BY DEF Foretold
<1> HIDE DEF view, kc, v, fate, wanted, found, entry, spurned, whole
<1> DEFINE Goal == Foretold(req, v) /\ v = [outcome |-> v.outcome, reason |-> v.reason]
<1>14. ASSUME view.reason # NoReason PROVE Goal
  <2>1. ~kc.write /\ kc.reason = view.reason
    BY <1>2, <1>4, <1>14
  <2>2. fate = "execute" /\ kc.status = IF view.reason = "no-cache" THEN "disabled" ELSE "uncached"
    BY <1>2, <1>7, <2>1
  <2> QED
    BY <1>8, <1>13, <1>14, <2>1, <2>2
<1>15. ASSUME view.reason = NoReason, req.refresh PROVE Goal
  <2>1. ~kc.read
    BY <1>2, <1>15
  <2> QED
    BY <1>7, <1>9, <1>13, <1>15, <2>1
<1>16. ASSUME view.reason = NoReason, ~req.refresh, FactsUnassessed(view.input.validation) PROVE Goal
  BY <1>10, <1>13, <1>16
<1>17. ASSUME view.reason = NoReason, ~req.refresh, ~FactsUnassessed(view.input.validation) PROVE Goal
  <2>1. view = kc /\ kc.reason = NoReason /\ ~FactsUnassessed(kc.input.validation)
    BY <1>4, <1>17
  <2>2. kc.read
    BY <1>2, <1>17, <2>1
  <2>4. CASE found \in {"corrupt", "miss"}
    BY <1>7, <1>11, <1>13, <1>17, <2>1, <2>2, <2>4
  <2>5. CASE found = "hit" /\ ~whole
    <3>1. Said("corrupt", "exact-entry-unhealthy")
      BY <1>11, <1>17, <2>1, <2>5
    <3>2. fate = "execute" \/ fate = "error"
      <4>1. CASE spurned \/ Expired(entry)
        BY <1>7, <2>2, <2>5, <4>1
      <4>2. CASE ~spurned /\ ~Expired(entry)
        BY <1>7, <2>2, <2>5, <4>2
      <4> QED
        BY <4>1, <4>2
    <3>3. fate = "error" \/ RunIgnores(req, fate)
      BY <1>12, <2>5, <3>2
    <3>4. v = [outcome |-> v.outcome, reason |-> v.reason] /\ v.outcome = "corrupt"
      BY <3>1
    <3> HIDE DEF Said
    <3>5. Foretold(req, v)
      BY <1>13, <3>2, <3>3, <3>4
    <3> QED
      BY <3>4, <3>5
  <2>6. CASE found = "hit" /\ whole
    BY <1>7, <1>11, <1>13, <1>17, <2>1, <2>2, <2>6
  <2> QED
    BY <1>6, <2>4, <2>5, <2>6
<1>18. Goal
  BY <1>14, <1>15, <1>16, <1>17
<1> QED
  BY <1>18 DEF v, view

(* Another reason for a miss foretells the same. *)
LEMMA MissesAreMisses ==
    ASSUME NEW req, NEW v, v = [outcome |-> v.outcome, reason |-> v.reason], v.outcome = "miss",
           Foretold(req, v), NEW r
    PROVE  Foretold(req, [v EXCEPT !.reason = r])
<1>1. [v EXCEPT !.reason = r].outcome = "miss"
  OBVIOUS
<1> DEFINE w == [v EXCEPT !.reason = r]
<1> HIDE DEF w
<1>2. w.outcome = "miss" => Foretold(req, w)
  BY DEF Foretold
<1> QED
  BY <1>1, <1>2 DEF w

LEMMA ExplanationsForetell == HistoryInv => ExplainForetells
<1> SUFFICES ASSUME HistoryInv PROVE ExplainForetells
  OBVIOUS
<1>1. ASSUME NEW req \in Requests, ~Conflict(req) PROVE Foretold(req, explainCommand(req))
  <2> DEFINE kc == buildKeyContext(req, FALSE)
             v == currentVerdict(req, kc)
             cands == Candidates(kc.input)
             says == explainCommand(req)
  <2>1. Foretold(req, v) /\ v = [outcome |-> v.outcome, reason |-> v.reason]
    BY <1>1, VerdictForetells, HistoryAssumption
  <2>2. says = v \/ (v.outcome = "miss" /\ \E r : says = [v EXCEPT !.reason = r])
    <3> HIDE DEF v, kc
    <3>1. says = IF v.outcome # "miss" \/ v.reason # NoReason THEN v
                 ELSE IF cands = {} THEN [v EXCEPT !.reason = "no-entry-for-key"]
                 ELSE IF Nearest(cands).codes = {} THEN [v EXCEPT !.reason = "no-entry-for-key"]
                 ELSE [v EXCEPT !.reason = Nearest(cands).reason]
      BY DEF explainCommand, v, kc
    <3> HIDE DEF says, cands
    <3> QED
      BY <3>1
  <2> HIDE DEF v, says
  <2>3. Foretold(req, says)
    BY <2>1, <2>2, MissesAreMisses
  <2> QED
    BY <2>3 DEF says
<1>2. ASSUME NEW id \in Readable, ~Conflict(requestFromEntry(Entry(id)))
      PROVE  Foretold(requestFromEntry(Entry(id)), explainStored(id))
  <2> DEFINE req == requestFromEntry(Entry(id))
             kc == buildKeyContext(req, FALSE)
             v == currentVerdict(req, kc)
             c == newCandidate(Entry(id), kc.input)
             cand == IF FactsUnassessed(kc.input.validation) THEN setReasonOnly(c) ELSE c
             says == explainStored(id)
  <2>1. IsRequest(req)
    BY StoredRequest
  <2>2. Foretold(req, v) /\ v = [outcome |-> v.outcome, reason |-> v.reason]
    <3> HIDE DEF req
    <3> QED
      BY <1>2, <2>1, VerdictForetells DEF req
  <2>3. says = v \/ (v.outcome = "miss" /\ \E r : says = [v EXCEPT !.reason = r])
    <3>1. says = IF v.outcome = "miss" /\ v.reason = NoReason
                 THEN [v EXCEPT !.reason = IF cand.codes = {} THEN "no-entry-for-key" ELSE cand.reason]
                 ELSE v
      BY DEF explainStored
    <3> HIDE DEF v, cand, says
    <3> QED
      BY <3>1
  <2> HIDE DEF v, says, req
  <2>4. Foretold(req, says)
    BY <2>2, <2>3, MissesAreMisses
  <2> QED
    BY <2>4 DEF says, req
<1> QED
  BY <1>1, <1>2 DEF ExplainForetells

(* The comparison finds no difference where the fields and the policy agree.  *)
LEMMA NoDifferenceIs ==
    ASSUME NEW old, NEW new
    PROVE  (CompareKeyInputs(old, new) = {}) =
              (/\ \A f \in PlainField : old[f] = new[f]
               /\ old.effect = new.effect
               /\ sameValidationSemantics(old.validation, new.validation)
               /\ addFacts(old.validation, new.validation) = {})
<1> DEFINE plain == {FieldCode[f] : f \in {g \in PlainField : old[g] # new[g]}}
           same == sameValidationSemantics(old.validation, new.validation)
           facts == addFacts(old.validation, new.validation)
           policy == IF same THEN facts ELSE {"scope-changed"}
<1>1. CompareKeyInputs(old, new) = plain \cup EffectCodes(old, new) \cup policy
  BY DEF CompareKeyInputs
<1>2. (plain = {}) = (\A f \in PlainField : old[f] = new[f])
  <2>1. ASSUME plain = {}, NEW f \in PlainField, old[f] # new[f] PROVE FALSE
    <3>1. FieldCode[f] \in plain
      BY <2>1
    <3> QED
      BY <2>1, <3>1
  <2>2. ASSUME \A f \in PlainField : old[f] = new[f] PROVE plain = {}
    BY <2>2
  <2> QED
    BY <2>1, <2>2
<1>3. (EffectCodes(old, new) = {}) = (old.effect = new.effect)
  BY DEF EffectCodes
<1>4. same \in BOOLEAN
  BY DEF sameValidationSemantics
<1> HIDE DEF plain, facts, same
<1>5. (policy = {}) = (same /\ facts = {})
  BY <1>4
<1>6. (plain \cup EffectCodes(old, new) \cup policy = {}) =
         (plain = {} /\ EffectCodes(old, new) = {} /\ policy = {})
  OBVIOUS
<1> HIDE DEF policy
<1>7. (CompareKeyInputs(old, new) = {}) =
         ((\A f \in PlainField : old[f] = new[f]) /\ old.effect = new.effect /\ same /\ facts = {})
  BY <1>1, <1>2, <1>3, <1>5, <1>6
<1> QED
  BY <1>7 DEF same, facts

LEMMA ProbesAre ==
    ASSUME NEW v, NEW F, IsSelected(v, F), v # None
    PROVE  v.probes = [i \in DOMAIN v.probes |-> v.probes[i]]
<1>1. PICK p \in Policies \ {None} : \E f \in [DOMAIN p.probes -> F] : v = Selected(p, f)
  BY DEF IsSelected
<1>2. v.probes = p.probes
  BY <1>1 DEF Selected
<1> QED
  BY <1>2, HistoryAssumption

(* An equal policy is equal where the comparison looks, and the other way.    *)
LEMMA EqualPoliciesAre ==
    ASSUME NEW v, NEW u, IsSelected(v, Fact), IsSelected(u, Fact)
    PROVE  /\ /\ sameValidationSemantics(v, u) /\ addFacts(v, u) = {}
              /\ ~FactsUnassessed(v) /\ ~FactsUnassessed(u)
              => putValidation(v) = putValidation(u)
           /\ putValidation(v) = putValidation(u) =>
                 /\ sameValidationSemantics(v, u)
                 /\ u # None /\ DOMAIN u.probes # {} => v.facts = u.facts
<1>1. ASSUME sameValidationSemantics(v, u), addFacts(v, u) = {}, ~FactsUnassessed(v), ~FactsUnassessed(u)
      PROVE  putValidation(v) = putValidation(u)
  <2>1. CASE v = None \/ u = None
    BY <1>1, <2>1 DEF sameValidationSemantics, putValidation
  <2>2. CASE v # None /\ u # None
    <3>1. v.dirs = u.dirs /\ v.probes = u.probes
      BY <1>1, <2>2 DEF sameValidationSemantics
    <3>2. DOMAIN u.probes = {} \/ v.facts = u.facts
      BY <1>1, <2>2 DEF addFacts
    <3> QED
      BY <2>2, <3>1, <3>2 DEF putValidation
  <2> QED
    BY <2>1, <2>2
<1>2. ASSUME putValidation(v) = putValidation(u)
      PROVE  /\ sameValidationSemantics(v, u)
             /\ u # None /\ DOMAIN u.probes # {} => v.facts = u.facts
  <2>1. /\ (v = None) = (u = None)
        /\ v # None => v.dirs = u.dirs /\ (DOMAIN v.probes = {}) = (DOMAIN u.probes = {})
        /\ v # None /\ DOMAIN v.probes # {} => v.probes = u.probes /\ v.facts = u.facts
    BY <1>2, SamePolicyIs
  <2>2. ASSUME v # None, DOMAIN v.probes = {} PROVE v.probes = u.probes
    <3>1. /\ v.probes = [i \in DOMAIN v.probes |-> v.probes[i]]
          /\ u.probes = [i \in DOMAIN u.probes |-> u.probes[i]]
      BY <2>1, <2>2, ProbesAre
    <3>2. DOMAIN u.probes = {}
      BY <2>1, <2>2
    <3> QED
      BY <2>2, <3>1, <3>2
  <2> QED
    BY <2>1, <2>2 DEF sameValidationSemantics
<1> QED
  BY <1>1, <1>2

(* What a listing compares a stored run with. *)
Current(req) == buildKeyInput(req, withPreRunFacts(req, selectValidation(req), FALSE))

LEMMA ListedIs ==
    ASSUME HistoryInv, NEW id \in Readable
    PROVE  LET e == Entry(id)
               req == requestFromEntry(e)
               codes == CompareKeyInputs(e.input, Current(req))
           IN  /\ e.reuse.kind # "reusable" => reusability(id) = e.reuse.reason
               /\ reusability(id) = "reusable" =>
                     /\ e.reuse.kind = "reusable" /\ ~Conflict(req) /\ codes = {}
                     /\ ~Expired(e) /\ payloadHealth(id) /\ ~FactsUnassessed(Current(req).validation)
               /\ e.reuse.kind = "reusable" /\ ~Conflict(req) =>
                     reusability(id) =
                       IF codes # {} THEN ReasonOf(codes)
                       ELSE IF Expired(e) THEN "expired"
                       ELSE IF ~payloadHealth(id) THEN "payload-missing"
                       ELSE IF FactsUnassessed(Current(req).validation) THEN "unassessed" ELSE "reusable"
<1> DEFINE e == Entry(id)
           req == requestFromEntry(e)
           current == Current(req)
           codes == CompareKeyInputs(e.input, current)
<1>1. e.reuse \in ReuseStates
  BY StoredRequest DEF EntryOk, Validate, validateReuse
<1>2. e.reuse.kind # "reusable" => e.reuse.reason # "reusable"
  <2> HIDE DEF e
  <2> QED
    BY <1>1, ReasonsAreReasons
<1>3. ReasonOf(codes) # "reusable"
  <2> HIDE DEF codes
  <2> QED
    BY ReasonsAreReasons
<1>4. reusability(id) =
         IF e.reuse.kind # "reusable" THEN e.reuse.reason
         ELSE IF Conflict(req) THEN "config-mismatch"
         ELSE IF codes # {} THEN ReasonOf(codes)
         ELSE IF Expired(e) THEN "expired"
         ELSE IF ~payloadHealth(id) THEN "payload-missing"
         ELSE IF FactsUnassessed(current.validation) THEN "unassessed" ELSE "reusable"
  BY DEF reusability, Current
<1> HIDE DEF codes, current, req, e
<1>5. /\ e.reuse.kind # "reusable" => reusability(id) = e.reuse.reason
      /\ reusability(id) = "reusable" =>
            /\ e.reuse.kind = "reusable" /\ ~Conflict(req) /\ codes = {}
            /\ ~Expired(e) /\ payloadHealth(id) /\ ~FactsUnassessed(current.validation)
      /\ e.reuse.kind = "reusable" /\ ~Conflict(req) =>
            reusability(id) =
              IF codes # {} THEN ReasonOf(codes)
              ELSE IF Expired(e) THEN "expired"
              ELSE IF ~payloadHealth(id) THEN "payload-missing"
              ELSE IF FactsUnassessed(current.validation) THEN "unassessed" ELSE "reusable"
  BY <1>2, <1>3, <1>4
<1> QED
  BY <1>5 DEF codes, current, req, e

LEMMA ReusableReplays ==
    ASSUME HistoryInv, NEW id \in Readable, reusability(id) = "reusable",
           canonical(Entry(id).input) \in DOMAIN pointers, pointers[canonical(Entry(id).input)] = id
    PROVE  RunFate(requestFromEntry(Entry(id))) = "replay"
<1> DEFINE e == Entry(id)
           req == requestFromEntry(e)
           current == Current(req)
           view == buildKeyContext(req, FALSE)
           kc == buildKeyContext(req, TRUE)
           u == withPreRunFacts(req, selectValidation(req), FALSE)
           skipped == HasSkipped(world, Observed(req))
           may == cacheability(req, skipped)
<1>1. HistoryTyped
  BY DEF HistoryInv
<1>2. /\ id \in DOMAIN store /\ Get(id) = "read" /\ EntryOk(e) /\ IsRequest(req)
      /\ req.stdin = e.input.stdin /\ req.allowSkipped = e.input.allowSkipped
      /\ ~req.record /\ ~req.noCache /\ ~req.refresh /\ ~req.noFailures
  BY StoredRequest
<1>3. /\ e.reuse.kind = "reusable" /\ ~Conflict(req) /\ CompareKeyInputs(e.input, current) = {}
      /\ ~Expired(e) /\ payloadHealth(id) /\ ~FactsUnassessed(current.validation)
  BY ListedIs
<1> HIDE DEF e, req
<1>4. view.input = current /\ current.validation = u /\ IsSelected(u, Fact)
  <2>1. view.input = buildKeyInput(req, u) /\ buildKeyInput(req, u).validation = u /\ IsSelected(u, Fact)
    <3>1. view.input = buildKeyInput(req, u)
      BY <1>1, <1>2, ContextIs
    <3>2. IsSelected(u, Fact)
      BY <1>1, <1>2, FactsBeforeRun
    <3> HIDE DEF u, view
    <3>3. buildKeyInput(req, u).validation = u
      BY InputIs
    <3> QED
      BY <3>1, <3>2, <3>3
  <2> QED
    BY <2>1 DEF Current
<1>5. view = kc
  <2>1. view = kc \/ FactsUnassessed(view.input.validation)
    BY <1>1, <1>2, ContextsAgree
  <2> HIDE DEF view, kc, current
  <2> QED
    BY <1>3, <1>4, <2>1
<1>6. /\ current.tree = TreeHash(world, Observed(req)) /\ current.trust = config.trust
      /\ current.runConfig = RunConfig
  <2> HIDE DEF u
  <2>1. LET in == buildKeyInput(req, u)
        IN in.tree = TreeHash(world, Observed(req)) /\ in.trust = config.trust /\ in.runConfig = RunConfig
    BY InputIs
  <2> QED
    BY <2>1 DEF Current, u
<1>7. /\ kc.write = (may.write /\ (PolicyFactsComplete(u) \/ FactsUnassessed(u)))
      /\ kc.read = (kc.write /\ ~req.refresh)
  BY <1>1, <1>2, <1>5, ContextIs
<1>8. skipped \in BOOLEAN /\ Observed(req) \subseteq Places
      /\ may.write = (/\ config.capture /\ ~req.record /\ req.stdin = "null" /\ ~req.noCache
                      /\ (skipped => req.allowSkipped) /\ config.trust # "fast")
  <2>1. skipped \in BOOLEAN /\ Observed(req) \subseteq Places
    BY ObservedIs DEF HasSkipped
  <2> HIDE DEF skipped
  <2> QED
    BY <1>1, <1>2, <2>1, CacheabilityIs
<1> HIDE DEF current, view, kc, u, may
<1>9. IsSelected(e.input.validation, Fact) /\ ~FactsUnassessed(e.input.validation)
  <2>1. IsSelected(e.input.validation, ExternalFact)
    BY <1>2 DEF EntryOk
  <2>2. \A D : [D -> ExternalFact] \subseteq [D -> Fact]
    BY DEF Fact
  <2>3. IsSelected(e.input.validation, Fact)
    BY <2>1, <2>2 DEF IsSelected
  <2>4. ExternalFact \subseteq Fact
    BY DEF Fact
  <2>5. e.input.validation # None =>
           e.input.validation.facts \in [DOMAIN e.input.validation.probes -> ExternalFact]
    BY <2>1, <2>4, SelectedIs
  <2>6. ~FactsUnassessed(e.input.validation)
    BY <2>5, FactsApart DEF FactsUnassessed, factsUnassessed
  <2> QED
    BY <2>3, <2>6
<1>10. /\ \A f \in PlainField : e.input[f] = current[f]
       /\ e.input.effect = current.effect
       /\ sameValidationSemantics(e.input.validation, u) /\ addFacts(e.input.validation, u) = {}
  BY <1>3, <1>4, NoDifferenceIs
<1>11. e.input.tree = current.tree /\ e.input.trust = current.trust /\ e.input.runConfig = current.runConfig
  <2>1. {"tree", "trust", "runConfig"} \subseteq PlainField
    BY DEF PlainField, FieldCode
  <2>2. \A f \in {"tree", "trust", "runConfig"} : e.input[f] = current[f]
    BY <1>10, <2>1
  <2>3. e.input["tree"] = current["tree"] /\ e.input["trust"] = current["trust"]
        /\ e.input["runConfig"] = current["runConfig"]
    BY <2>2
  <2> QED
    BY <2>3
<1>12. putValidation(e.input.validation) = putValidation(u)
  BY <1>3, <1>4, <1>9, <1>10, EqualPoliciesAre
<1>13. canonical(e.input) = canonical(current)
  <2>1. \A f \in KeyField : f # "validation" => e.input[f] = current[f]
    BY <1>10 DEF KeyField
  <2> QED
    BY <1>4, <1>12, <2>1 DEF canonical
<1>14. Lookup(canonical(current)) = "hit" /\ pointers[canonical(current)] = id
  <2>1. canonical(current) \in DOMAIN pointers /\ pointers[canonical(current)] = id
    BY <1>13 DEF e
  <2>2. Key(id) = canonical(current)
    BY <1>13 DEF Key, e
  <2>3. Entry(id).reuse.kind = "reusable"
    BY <1>3 DEF e
  <2>4. Lookup(canonical(current)) =
           CASE Get(id) = "incompatible" -> "miss"
             [] Get(id) \in {"missing", "corrupt"} -> "corrupt"
             [] OTHER -> IF Key(id) = canonical(current) /\ Entry(id).reuse.kind = "reusable"
                         THEN "hit" ELSE "corrupt"
    BY <2>1 DEF Lookup
  <2> QED
    BY <1>2, <2>1, <2>2, <2>3, <2>4
<1>15. may.write
  <2>1. /\ e.input.trust # "fast" /\ (e.skipped => e.input.allowSkipped) /\ Tells(e)
        /\ e.skipped = (\E p \in DOMAIN e.input.tree : e.input.tree[p] = Unreadable)
    BY <1>2, <1>3 DEF EntryOk, Validate, validateReuse
  <2>2. e.input.stdin = "null" /\ e.input.runConfig[1]
    BY <2>1 DEF Tells
  <2>3. skipped = e.skipped
    <3>1. skipped = (\E p \in DOMAIN TreeHash(world, Observed(req)) :
                        TreeHash(world, Observed(req))[p] = Unreadable)
      BY <1>1, <1>8, TreeIs DEF HistoryTyped
    <3> HIDE DEF skipped
    <3> QED
      BY <1>6, <1>11, <2>1, <3>1
  <2>4. config.capture
    <3>1. RunConfig[1]
      BY <1>6, <1>11, <2>2
    <3> QED
      BY <3>1 DEF RunConfig
  <2> HIDE DEF skipped
  <2> QED
    BY <1>2, <1>6, <1>8, <1>11, <2>1, <2>2, <2>3, <2>4
<1>16. PolicyFactsComplete(u)
  <2> DEFINE v == e.input.validation
  <2> SUFFICES ASSUME u # None, DOMAIN u.probes # {} PROVE FactsComplete(u.facts)
    BY DEF PolicyFactsComplete
  <2>1. v # None /\ v.probes = u.probes /\ v.facts = u.facts
    BY <1>10, <1>12, <1>4, <1>9, EqualPoliciesAre DEF sameValidationSemantics
  <2>2. probesDeclared(v)
    BY <2>1 DEF probesDeclared
  <2>3. validateFacts(e)
    BY <1>2 DEF EntryOk, Validate
  <2>4. SameFacts(v.facts, e.postRunFacts)
    BY <1>3, <2>2, <2>3 DEF validateFacts
  <2> QED
    BY <2>1, <2>4 DEF SameFacts
<1>17. kc.read
  BY <1>2, <1>7, <1>15, <1>16
<1>18. Fate(req, kc) = "replay"
  <2>1. kc.input = current
    BY <1>4, <1>5
  <2> QED
    BY <1>2, <1>3, <1>14, <1>17, <2>1 DEF Fate, e
<1> QED
  BY <1>3, <1>18 DEF RunFate, kc, req, e

LEMMA ReplayedIsListed ==
    ASSUME HistoryInv, NEW id \in Readable,
           RunFate(requestFromEntry(Entry(id))) = "replay",
           canonical(buildKeyContext(requestFromEntry(Entry(id)), TRUE).input) = canonical(Entry(id).input),
           pointers[canonical(Entry(id).input)] = id
    PROVE  reusability(id) \in {"reusable", "unassessed"}
<1> DEFINE e == Entry(id)
           req == requestFromEntry(e)
           current == Current(req)
           kc == buildKeyContext(req, TRUE)
           s == selectValidation(req)
           u == withPreRunFacts(req, s, FALSE)
           v == withPreRunFacts(req, s, TRUE)
<1>1. HistoryTyped
  BY DEF HistoryInv
<1>2. IsRequest(req) /\ EntryOk(e)
  BY StoredRequest
<1>3. e.reuse.kind = "reusable" /\ ~Conflict(req) =>
         reusability(id) =
           IF CompareKeyInputs(e.input, current) # {} THEN ReasonOf(CompareKeyInputs(e.input, current))
           ELSE IF Expired(e) THEN "expired"
           ELSE IF ~payloadHealth(id) THEN "payload-missing"
           ELSE IF FactsUnassessed(current.validation) THEN "unassessed" ELSE "reusable"
  BY ListedIs
<1>4. canonical(kc.input) = canonical(e.input) /\ pointers[canonical(kc.input)] = id
  OBVIOUS
<1>5. RunFate(req) = "replay"
  OBVIOUS
<1> HIDE DEF e, req
<1>6. ~Conflict(req) /\ Fate(req, kc) = "replay"
  BY <1>5 DEF RunFate
<1>7. /\ IsSelected(u, Fact) /\ (u = None) = (s = None)
      /\ u # None => u.dirs = s.dirs /\ u.probes = s.probes
  BY <1>1, <1>2, FactsBeforeRun
<1>8. /\ IsSelected(v, Fact) /\ (v = None) = (s = None)
      /\ v # None => v.dirs = s.dirs /\ v.probes = s.probes
  BY <1>1, <1>2, FactsBeforeRun
<1>9. kc.input = buildKeyInput(req, v) /\ buildKeyContext(req, FALSE).input = current
  <2>1. kc.input = buildKeyInput(req, v)
    BY <1>1, <1>2, ContextIs
  <2>2. buildKeyContext(req, FALSE).input = buildKeyInput(req, u)
    BY <1>1, <1>2, ContextIs
  <2> QED
    BY <2>1, <2>2 DEF Current
<1>10. kc = buildKeyContext(req, FALSE) \/ FactsUnassessed(current.validation)
  BY <1>1, <1>2, <1>9, ContextsAgree
<1>11. /\ Lookup(canonical(kc.input)) = "hit" /\ ~Expired(e) /\ payloadHealth(id)
  <2>1. Lookup(canonical(kc.input)) \in {"hit", "miss", "corrupt"}
    BY DEF Lookup
  <2> HIDE DEF kc
  <2> QED
    BY <1>4, <1>6, <2>1 DEF Fate, e
<1> HIDE DEF kc, s
<1>12. e.reuse.kind = "reusable"
  BY <1>4, <1>11, HitIs DEF e
<1>13. /\ buildKeyInput(req, u).validation = u /\ buildKeyInput(req, v).validation = v
       /\ \A f \in PlainField \cup {"effect"} : buildKeyInput(req, u)[f] = buildKeyInput(req, v)[f]
  <2> HIDE DEF u, v
  <2>1. buildKeyInput(req, u).validation = u /\ buildKeyInput(req, v).validation = v
    BY InputIs
  <2>2. buildKeyInput(req, v) = [buildKeyInput(req, u) EXCEPT !.validation = v]
    <3> DEFINE tty == FALSE
               tree == TreeHash(world, Observed(req))
               In(x) == [schema |-> 1, version |-> config.version, invocation |-> "argv",
                         command |-> req.command, executable |-> world.executable, cwd |-> ".",
                         tree |-> tree, effect |-> world.effect,
                         scope |-> Include(req), validation |-> x, trust |-> config.trust,
                         runConfig |-> RunConfig, env |-> world.env,
                         platform |-> "host", stdin |-> req.stdin, tty |-> tty,
                         allowSkipped |-> req.allowSkipped]
    <3>1. \A x : buildKeyInput(req, x) = In(x)
      BY DEF buildKeyInput, RunConfig
    <3> HIDE DEF tty, tree
    <3>2. In(v) = [In(u) EXCEPT !.validation = v]
      OBVIOUS
    <3> HIDE DEF In
    <3> QED
      BY <3>1, <3>2
  <2>3. PlainField \cup {"effect"} \subseteq DOMAIN buildKeyInput(req, u) \ {"validation"}
    BY DEF buildKeyInput, PlainField, FieldCode
  <2> DEFINE in == buildKeyInput(req, u)
             out == buildKeyInput(req, v)
  <2> HIDE DEF in, out
  <2>4. \A f \in DOMAIN in \ {"validation"} : out[f] = in[f]
    BY <2>2 DEF in, out
  <2>5. \A f \in PlainField \cup {"effect"} : in[f] = out[f]
    BY <2>3, <2>4 DEF in
  <2> QED
    BY <2>1, <2>5 DEF in, out
<1>14. current = buildKeyInput(req, u)
  BY DEF Current, s
<1> HIDE DEF u, v, current
<1>15. current.validation = u
  BY <1>13, <1>14
<1>16. /\ \A f \in PlainField \cup {"effect"} : e.input[f] = current[f]
       /\ putValidation(e.input.validation) = putValidation(v)
  <2>1. \A f \in KeyField : canonical(kc.input)[f] = canonical(e.input)[f]
    BY <1>4
  <2>2. \A f \in PlainField \cup {"effect"} : kc.input[f] = e.input[f]
    BY <2>1 DEF canonical, KeyField, PlainField, FieldCode
  <2>3. putValidation(kc.input.validation) = putValidation(e.input.validation)
    BY <2>1 DEF canonical, KeyField
  <2> QED
    BY <1>9, <1>13, <1>14, <2>2, <2>3
<1>17. IsSelected(e.input.validation, Fact)
  <2>1. IsSelected(e.input.validation, ExternalFact)
    BY <1>2 DEF EntryOk
  <2>2. \A D : [D -> ExternalFact] \subseteq [D -> Fact]
    BY DEF Fact
  <2> QED
    BY <2>1, <2>2 DEF IsSelected
<1>18. /\ sameValidationSemantics(e.input.validation, v)
       /\ v # None /\ DOMAIN v.probes # {} => e.input.validation.facts = v.facts
  BY <1>8, <1>16, <1>17, EqualPoliciesAre
<1>19. sameValidationSemantics(e.input.validation, u)
  BY <1>7, <1>8, <1>18 DEF sameValidationSemantics
<1>20. addFacts(e.input.validation, u) = {}
  <2>1. CASE FactsUnassessed(u)
    BY <2>1 DEF addFacts
  <2>2. CASE ~FactsUnassessed(u)
    <3>1. kc = buildKeyContext(req, FALSE)
      BY <1>10, <1>15, <2>2
    <3>2. u = v
      BY <1>9, <1>13, <1>15, <3>1
    <3> QED
      BY <1>18, <3>2 DEF addFacts
  <2> QED
    BY <2>1, <2>2
<1>21. CompareKeyInputs(e.input, current) = {}
  <2>1. e.input["effect"] = current["effect"] /\ \A f \in PlainField : e.input[f] = current[f]
    BY <1>16
  <2>2. e.input.effect = current.effect
    BY <2>1
  <2> QED
    BY <1>15, <1>19, <1>20, <2>1, <2>2, NoDifferenceIs
<1> QED
  BY <1>3, <1>6, <1>11, <1>12, <1>21

LEMMA ListingMatches == HistoryInv => ListMatchesReplay
  BY ReusableReplays, ReplayedIsListed DEF ListMatchesReplay

-----------------------------------------------------------------------------
(* The nearest stored run. *)

LEMMA LeastIs ==
    ASSUME NEW S \in SUBSET Nat, S # {}
    PROVE  \E n \in S : \A m \in S : n <= m
<1>1. \E n \in S : \A m \in S : <<m, n>> \notin OpToRel(<, Nat)
  BY NatLessThanWellFounded, WFMin
<1>2. PICK n \in S : \A m \in S : ~(m < n)
  BY <1>1 DEF OpToRel
<1> QED
  BY <1>2

LEMMA LatestIs ==
    ASSUME NEW S \in SUBSET Int, IsFiniteSet(S), S # {}
    PROVE  \E x \in S : \A y \in S : y <= x
<1> DEFINE Above(x) == {y \in S : y > x}
           N == {Cardinality(Above(x)) : x \in S}
<1>1. \A x \in S : IsFiniteSet(Above(x)) /\ Cardinality(Above(x)) \in Nat
  BY FS_Subset, FS_CardinalityType
<1>2. PICK n \in N : \A m \in N : n <= m
  <2>1. N \in SUBSET Nat /\ N # {}
    BY <1>1
  <2> HIDE DEF N
  <2> QED
    BY <2>1, LeastIs
<1>3. PICK x \in S : n = Cardinality(Above(x))
  BY <1>2
<1>4. ASSUME NEW y \in S, y > x PROVE FALSE
  <2>1. Above(y) \subseteq Above(x) /\ Above(y) # Above(x)
    <3>1. y \in Above(x) /\ y \notin Above(y)
      BY <1>4
    <3>2. \A z \in Above(y) : z \in Above(x)
      BY <1>4
    <3> QED
      BY <3>1, <3>2
  <2>2. Cardinality(Above(y)) < Cardinality(Above(x))
    BY <1>1, <2>1, FS_Subset
  <2>3. Cardinality(Above(y)) \in N
    OBVIOUS
  <2>4. Cardinality(Above(x)) \in Nat /\ Cardinality(Above(y)) \in Nat
    BY <1>1
  <2>5. Cardinality(Above(x)) <= Cardinality(Above(y))
    BY <1>2, <1>3, <2>3
  <2> HIDE DEF Above
  <2> QED
    BY <2>2, <2>4, <2>5
<1> QED
  BY <1>4

Bit(c, i) == IF RankCategories[i] \in c.codes THEN 1 ELSE 0
Weight(c) == 128 * rankBucket(c) + 64 * Bit(c, 1) + 32 * Bit(c, 2) + 16 * Bit(c, 3) + 8 * Bit(c, 4)
             + 4 * Bit(c, 5) + 2 * Bit(c, 6) + Bit(c, 7)

(* The ranking is by a number, and then by the id. *)
LEMMA NearerIs ==
    ASSUME NEW a, NEW b
    PROVE  /\ Weight(a) \in Nat /\ Weight(b) \in Nat
           /\ Weight(a) < Weight(b) => Nearer(a, b)
           /\ Weight(a) = Weight(b) => (Nearer(a, b) <=> a.entry.id > b.entry.id)
<1> DEFINE apart == {i \in DOMAIN RankCategories :
                        (RankCategories[i] \in a.codes) # (RankCategories[i] \in b.codes)}
           first == CHOOSE i \in apart : \A j \in apart : i <= j
<1>1. rankBucket(a) \in {0, 1} /\ rankBucket(b) \in {0, 1}
  BY DEF rankBucket
<1>2. \A i \in 1..7 : Bit(a, i) \in {0, 1} /\ Bit(b, i) \in {0, 1}
  BY DEF Bit
<1>3. DOMAIN RankCategories = 1..7
  BY DEF RankCategories
<1>4. \A i \in 1..7 : i \in apart <=> Bit(a, i) # Bit(b, i)
  BY <1>3 DEF Bit
<1>5. apart \subseteq 1..7
  BY <1>3
<1>6. apart # {} => first \in apart /\ \A j \in apart : first <= j
  <2>1. apart \in SUBSET Nat
    BY <1>5
  <2> HIDE DEF apart
  <2> QED
    BY <2>1, LeastIs
<1>7. Nearer(a, b) = IF rankBucket(a) # rankBucket(b) THEN rankBucket(a) < rankBucket(b)
                     ELSE IF apart # {} THEN RankCategories[first] \notin a.codes
                     ELSE a.entry.id > b.entry.id
  BY DEF Nearer
<1>8. apart # {} => (RankCategories[first] \notin a.codes <=> Bit(a, first) = 0)
  BY DEF Bit
<1> HIDE DEF apart, first
<1>9. Weight(a) \in Nat /\ Weight(b) \in Nat
  <2>1. /\ Bit(a, 1) \in {0, 1} /\ Bit(a, 2) \in {0, 1} /\ Bit(a, 3) \in {0, 1} /\ Bit(a, 4) \in {0, 1}
        /\ Bit(a, 5) \in {0, 1} /\ Bit(a, 6) \in {0, 1} /\ Bit(a, 7) \in {0, 1}
    BY <1>2
  <2>2. /\ Bit(b, 1) \in {0, 1} /\ Bit(b, 2) \in {0, 1} /\ Bit(b, 3) \in {0, 1} /\ Bit(b, 4) \in {0, 1}
        /\ Bit(b, 5) \in {0, 1} /\ Bit(b, 6) \in {0, 1} /\ Bit(b, 7) \in {0, 1}
    BY <1>2
  <2> QED
    BY <1>1, <2>1, <2>2 DEF Weight
<1>10. ASSUME apart # {}, rankBucket(a) = rankBucket(b)
       PROVE  /\ Bit(a, first) = 0 => Weight(a) < Weight(b)
              /\ Bit(a, first) = 1 => Weight(b) < Weight(a)
  <2>1. first \in 1..7 /\ \A j \in 1..7 : j < first => Bit(a, j) = Bit(b, j)
    <3>1. first \in 1..7 /\ \A j \in apart : first <= j
      BY <1>5, <1>6, <1>10
    <3>2. ASSUME NEW j \in 1..7, j < first PROVE j \notin apart
      BY <3>1, <3>2
    <3> QED
      BY <1>4, <3>1, <3>2
  <2>2. Bit(a, first) # Bit(b, first)
    BY <1>4, <1>5, <1>6, <1>10
  <2>3. /\ Bit(a, 1) \in {0, 1} /\ Bit(a, 2) \in {0, 1} /\ Bit(a, 3) \in {0, 1} /\ Bit(a, 4) \in {0, 1}
        /\ Bit(a, 5) \in {0, 1} /\ Bit(a, 6) \in {0, 1} /\ Bit(a, 7) \in {0, 1}
        /\ Bit(b, 1) \in {0, 1} /\ Bit(b, 2) \in {0, 1} /\ Bit(b, 3) \in {0, 1} /\ Bit(b, 4) \in {0, 1}
        /\ Bit(b, 5) \in {0, 1} /\ Bit(b, 6) \in {0, 1} /\ Bit(b, 7) \in {0, 1}
    BY <1>2
  <2>4. CASE first = 1
    BY <1>1, <1>10, <2>1, <2>2, <2>3, <2>4 DEF Weight
  <2>5. CASE first = 2
    <3>1. Bit(a, 1) = Bit(b, 1)
      BY <2>1, <2>5
    <3> QED
      BY <1>1, <1>10, <2>2, <2>3, <2>5, <3>1 DEF Weight
  <2>6. CASE first = 3
    <3>1. Bit(a, 1) = Bit(b, 1) /\ Bit(a, 2) = Bit(b, 2)
      BY <2>1, <2>6
    <3> QED
      BY <1>1, <1>10, <2>2, <2>3, <2>6, <3>1 DEF Weight
  <2>7. CASE first = 4
    <3>1. Bit(a, 1) = Bit(b, 1) /\ Bit(a, 2) = Bit(b, 2) /\ Bit(a, 3) = Bit(b, 3)
      BY <2>1, <2>7
    <3> QED
      BY <1>1, <1>10, <2>2, <2>3, <2>7, <3>1 DEF Weight
  <2>8. CASE first = 5
    <3>1. Bit(a, 1) = Bit(b, 1) /\ Bit(a, 2) = Bit(b, 2) /\ Bit(a, 3) = Bit(b, 3) /\ Bit(a, 4) = Bit(b, 4)
      BY <2>1, <2>8
    <3> QED
      BY <1>1, <1>10, <2>2, <2>3, <2>8, <3>1 DEF Weight
  <2>9. CASE first = 6
    <3>1. /\ Bit(a, 1) = Bit(b, 1) /\ Bit(a, 2) = Bit(b, 2) /\ Bit(a, 3) = Bit(b, 3)
          /\ Bit(a, 4) = Bit(b, 4) /\ Bit(a, 5) = Bit(b, 5)
      BY <2>1, <2>9
    <3> QED
      BY <1>1, <1>10, <2>2, <2>3, <2>9, <3>1 DEF Weight
  <2>10. CASE first = 7
    <3>1. /\ Bit(a, 1) = Bit(b, 1) /\ Bit(a, 2) = Bit(b, 2) /\ Bit(a, 3) = Bit(b, 3)
          /\ Bit(a, 4) = Bit(b, 4) /\ Bit(a, 5) = Bit(b, 5) /\ Bit(a, 6) = Bit(b, 6)
      BY <2>1, <2>10
    <3> QED
      BY <1>1, <1>10, <2>2, <2>3, <2>10, <3>1 DEF Weight
  <2> QED
    BY <2>1, <2>4, <2>5, <2>6, <2>7, <2>8, <2>9, <2>10
<1>11. rankBucket(a) # rankBucket(b) => (Weight(a) < Weight(b) <=> rankBucket(a) < rankBucket(b))
                                        /\ Weight(a) # Weight(b)
  <2>1. /\ Bit(a, 1) \in {0, 1} /\ Bit(a, 2) \in {0, 1} /\ Bit(a, 3) \in {0, 1} /\ Bit(a, 4) \in {0, 1}
        /\ Bit(a, 5) \in {0, 1} /\ Bit(a, 6) \in {0, 1} /\ Bit(a, 7) \in {0, 1}
        /\ Bit(b, 1) \in {0, 1} /\ Bit(b, 2) \in {0, 1} /\ Bit(b, 3) \in {0, 1} /\ Bit(b, 4) \in {0, 1}
        /\ Bit(b, 5) \in {0, 1} /\ Bit(b, 6) \in {0, 1} /\ Bit(b, 7) \in {0, 1}
    BY <1>2
  <2> QED
    BY <1>1, <2>1 DEF Weight
<1>12. apart = {} /\ rankBucket(a) = rankBucket(b) => Weight(a) = Weight(b)
  <2> SUFFICES ASSUME apart = {}, rankBucket(a) = rankBucket(b) PROVE Weight(a) = Weight(b)
    OBVIOUS
  <2>1. \A i \in 1..7 : Bit(a, i) = Bit(b, i)
    BY <1>4
  <2>2. /\ Bit(a, 1) = Bit(b, 1) /\ Bit(a, 2) = Bit(b, 2) /\ Bit(a, 3) = Bit(b, 3)
        /\ Bit(a, 4) = Bit(b, 4) /\ Bit(a, 5) = Bit(b, 5) /\ Bit(a, 6) = Bit(b, 6) /\ Bit(a, 7) = Bit(b, 7)
    BY <2>1
  <2> QED
    BY <2>2 DEF Weight
<1>13. apart # {} => Bit(a, first) \in {0, 1}
  BY <1>2, <1>5, <1>6
<1>14. /\ Weight(a) < Weight(b) => Nearer(a, b)
       /\ Weight(a) = Weight(b) => (Nearer(a, b) <=> a.entry.id > b.entry.id)
  <2>1. CASE rankBucket(a) # rankBucket(b)
    BY <1>7, <1>11, <2>1
  <2>2. CASE rankBucket(a) = rankBucket(b) /\ apart # {}
    <3>1. /\ Bit(a, first) = 0 => Weight(a) < Weight(b)
          /\ Bit(a, first) = 1 => Weight(b) < Weight(a)
      BY <1>10, <2>2
    <3>2. Nearer(a, b) <=> Bit(a, first) = 0
      BY <1>7, <1>8, <2>2
    <3> QED
      BY <1>9, <1>13, <2>2, <3>1, <3>2
  <2>3. CASE rankBucket(a) = rankBucket(b) /\ apart = {}
    <3>1. Nearer(a, b) <=> a.entry.id > b.entry.id
      BY <2>3 DEF Nearer, apart
    <3>2. Weight(a) = Weight(b) /\ ~(Weight(a) < Weight(b))
      BY <1>9, <1>12, <2>3
    <3> QED
      BY <3>1, <3>2
  <2> QED
    BY <2>1, <2>2, <2>3
<1> QED
  BY <1>9, <1>14

LEMMA CandidateIs ==
    ASSUME HistoryInv, NEW current, NEW c \in Candidates(current)
    PROVE  /\ c.entry.id \in Readable /\ c = newCandidate(Entry(c.entry.id), current)
           /\ c.entry = Entry(c.entry.id) /\ c.entry.id \in Int
<1>1. PICK id \in Readable : c = newCandidate(Entry(id), current)
  BY DEF Candidates
<1>2. c.entry = Entry(id)
  BY <1>1 DEF newCandidate
<1>3. Entry(id).id = id /\ id \in Int
  BY StoredRequest
<1> QED
  BY <1>1, <1>2, <1>3

LEMMA NearestIs ==
    ASSUME HistoryInv, NEW current, Candidates(current) # {}
    PROVE  Nearest(Candidates(current)) \in Candidates(current)
<1> DEFINE cands == Candidates(current)
           W == {Weight(c) : c \in cands}
<1>1. W \in SUBSET Nat /\ W # {}
  BY NearerIs
<1>2. PICK n \in W : \A m \in W : n <= m
  <2> HIDE DEF W
  <2> QED
    BY <1>1, LeastIs
<1> DEFINE best == {c \in cands : Weight(c) = n}
           ids == {c.entry.id : c \in best}
<1>3. ids \in SUBSET Int /\ ids # {} /\ IsFiniteSet(ids)
  <2>1. \A c \in cands : c.entry.id \in Readable /\ c.entry.id \in Int
    BY CandidateIs
  <2>2. ids \subseteq DOMAIN store
    BY <2>1 DEF Readable
  <2>3. IsFiniteSet(ids)
    BY <2>2, FS_Subset DEF HistoryInv
  <2>4. best # {}
    BY <1>2
  <2> HIDE DEF cands
  <2> QED
    BY <2>1, <2>3, <2>4
<1>4. PICK id \in ids : \A x \in ids : x <= id
  <2> HIDE DEF ids
  <2> QED
    BY <1>3, LatestIs
<1>5. PICK c \in best : c.entry.id = id
  BY <1>4
<1>6. ASSUME NEW d \in cands \ {c} PROVE Nearer(c, d)
  <2>1. Weight(d) \in Nat /\ n <= Weight(d) /\ Weight(c) = n
    <3>1. Weight(d) \in W
      OBVIOUS
    <3> QED
      BY <1>2, <1>5, <3>1, NearerIs
  <2>2. CASE n < Weight(d)
    BY <2>1, <2>2, NearerIs
  <2>3. CASE n = Weight(d)
    <3>1. d.entry.id <= id /\ d.entry.id \in Int /\ id \in Int
      BY <1>3, <1>4, <2>3
    <3>2. d.entry.id # c.entry.id
      BY <1>5, <1>6, CandidateIs
    <3>3. c.entry.id > d.entry.id
      BY <1>5, <3>1, <3>2
    <3> QED
      BY <2>1, <2>3, <3>3, NearerIs
  <2> QED
    BY <1>1, <1>2, <2>1, <2>2, <2>3
<1>7. \E x \in cands : \A d \in cands \ {x} : Nearer(x, d)
  BY <1>5, <1>6
<1> HIDE DEF cands
<1>8. Nearest(cands) \in cands
  BY <1>7 DEF Nearest
<1> QED
  BY <1>8 DEF cands

LEMMA FooterIs ==
    ASSUME HistoryInv, NEW req \in Requests, RunFate(req) = "execute",
           Candidates(buildKeyContext(req, TRUE).input) # {},
           ~probesDeclared(buildKeyContext(req, TRUE).input.validation),
           [req EXCEPT !.scope = Include(req)] =
              requestFromEntry(Nearest(Candidates(buildKeyContext(req, TRUE).input)).entry)
    PROVE  LET near == Nearest(Candidates(buildKeyContext(req, TRUE).input))
           IN  \/ inlineReason(near) = reusability(near.entry.id)
               \/ inlineReason(near) = NoReason /\ reusability(near.entry.id) = "reusable"
<1> DEFINE kc == buildKeyContext(req, TRUE)
           near == Nearest(Candidates(kc.input))
           e == near.entry
           id == e.id
           same == requestFromEntry(e)
           s == selectValidation(req)
<1>1. HistoryTyped /\ IsRequest(req)
  BY HistoryAssumption DEF HistoryInv
<1>2. id \in Readable /\ near = newCandidate(Entry(id), kc.input) /\ e = Entry(id)
  <2>1. near \in Candidates(kc.input)
    BY NearestIs
  <2> HIDE DEF near, kc
  <2> QED
    BY <2>1, CandidateIs
<1>3. ~Conflict(req)
  BY DEF RunFate
<1>4. /\ same.command = req.command /\ same.stdin = req.stdin /\ same.allowSkipped = req.allowSkipped
      /\ same.scope = Include(req)
  <2>1. same = [req EXCEPT !.scope = Include(req)]
    OBVIOUS
  <2> HIDE DEF same
  <2>2. req = [command |-> req.command, stdin |-> req.stdin, record |-> req.record,
               noCache |-> req.noCache, refresh |-> req.refresh, noFailures |-> req.noFailures,
               allowSkipped |-> req.allowSkipped, scope |-> req.scope]
    BY <1>1 DEF IsRequest
  <2> QED
    BY <2>1, <2>2
<1>5. Include(same) = Include(req) /\ selectValidation(same) = s
  <2>1. config.scope # None
    BY <1>1 DEF HistoryTyped, IsConfig
  <2> HIDE DEF same
  <2> QED
    BY <1>4, <2>1 DEF Include, selectValidation
<1>6. /\ Conflict(same) = Conflict(req) /\ Observed(same) = Observed(req)
      /\ \A v : buildKeyInput(same, v) = buildKeyInput(req, v)
  <2> HIDE DEF same, s
  <2>1. Observed(same) = Observed(req)
    BY <1>5 DEF Observed, s
  <2>2. Conflict(same) = Conflict(req)
    BY <1>5 DEF Conflict, s
  <2>3. \A v : buildKeyInput(same, v) = buildKeyInput(req, v)
    BY <1>4, <1>5, <2>1 DEF buildKeyInput
  <2> QED
    BY <2>1, <2>2, <2>3
<1>7. kc.input = buildKeyInput(req, s) /\ ~probesDeclared(s) /\ Current(same) = kc.input
  <2> DEFINE u == withPreRunFacts(req, s, TRUE)
  <2>1. kc.input = buildKeyInput(req, u)
    BY <1>1, ContextIs
  <2>2. buildKeyInput(req, u).validation = u
    <3> HIDE DEF u
    <3> QED
      BY InputIs
  <2>3. (u = None) = (s = None) /\ (u # None => u.probes = s.probes)
    BY <1>1, FactsBeforeRun
  <2>4. ~probesDeclared(kc.input.validation)
    OBVIOUS
  <2>5. ~probesDeclared(s)
    <3> HIDE DEF u, kc, s
    <3> QED
      BY <2>1, <2>2, <2>3, <2>4 DEF probesDeclared
  <2>6. u = s /\ withPreRunFacts(same, s, FALSE) = s
    BY <2>5 DEF withPreRunFacts
  <2> HIDE DEF u, kc, s, same
  <2> QED
    BY <1>5, <1>6, <2>1, <2>5, <2>6 DEF Current
<1>8. ~FactsUnassessed(kc.input.validation)
  <2>1. IsSelected(s, {Unassessed})
    BY <1>1, SelectedByPolicy
  <2>2. buildKeyInput(req, s).validation = s
    <3> HIDE DEF s
    <3> QED
      BY InputIs
  <2> HIDE DEF s, kc
  <2>3. s # None => s.facts \in [DOMAIN s.probes -> {Unassessed}]
    <3>1. {Unassessed} \subseteq Fact
      BY DEF Fact
    <3> QED
      BY <2>1, <3>1, SelectedIs
  <2> QED
    BY <1>7, <2>2, <2>3 DEF FactsUnassessed, factsUnassessed, probesDeclared
<1> DEFINE codes == CompareKeyInputs(e.input, kc.input)
           hidden == "external-facts-unavailable" \in codes
<1>9. /\ near.reason = ReasonOf(codes) /\ near.uncomputed = hidden
      /\ near.codes = IF hidden THEN {} ELSE codes
  <2>1. near = newCandidate(e, kc.input)
    BY <1>2
  <2>2. newCandidate(e, kc.input) = [entry |-> e, reason |-> ReasonOf(codes), uncomputed |-> hidden,
                                     codes |-> IF hidden THEN {} ELSE codes]
    BY DEF newCandidate
  <2> DEFINE c == newCandidate(e, kc.input)
  <2>3. c.reason = ReasonOf(codes) /\ c.uncomputed = hidden /\ c.codes = IF hidden THEN {} ELSE codes
    <3>1. hidden \in BOOLEAN
      OBVIOUS
    <3> HIDE DEF e, codes, hidden
    <3> DEFINE r == ReasonOf(codes)
               cs == IF hidden THEN {} ELSE codes
    <3> HIDE DEF r, cs
    <3>2. c = [entry |-> e, reason |-> r, uncomputed |-> hidden, codes |-> cs]
      BY <2>2 DEF r, cs
    <3> HIDE DEF c
    <3>3. c.reason = r /\ c.uncomputed = hidden /\ c.codes = cs
      BY <3>1, <3>2
    <3> QED
      BY <3>3 DEF r, cs
  <2> HIDE DEF near, e, codes, hidden, c
  <2> QED
    BY <2>1, <2>3 DEF c, e
<1>10. /\ e.reuse.kind # "reusable" => reusability(id) = e.reuse.reason
       /\ e.reuse.kind = "reusable" /\ ~Conflict(same) =>
             reusability(id) =
               IF CompareKeyInputs(e.input, Current(same)) # {} THEN ReasonOf(CompareKeyInputs(e.input, Current(same)))
               ELSE IF Expired(e) THEN "expired"
               ELSE IF ~payloadHealth(id) THEN "payload-missing"
               ELSE IF FactsUnassessed(Current(same).validation) THEN "unassessed" ELSE "reusable"
  <2>1. LET x == Entry(id)
            r == requestFromEntry(x)
            cs == CompareKeyInputs(x.input, Current(r))
        IN  /\ x.reuse.kind # "reusable" => reusability(id) = x.reuse.reason
            /\ x.reuse.kind = "reusable" /\ ~Conflict(r) =>
                  reusability(id) =
                    IF cs # {} THEN ReasonOf(cs)
                    ELSE IF Expired(x) THEN "expired"
                    ELSE IF ~payloadHealth(id) THEN "payload-missing"
                    ELSE IF FactsUnassessed(Current(r).validation) THEN "unassessed" ELSE "reusable"
    <3> HIDE DEF id
    <3> QED
      BY <1>2, ListedIs
  <2>2. e = Entry(id)
    BY <1>2
  <2> HIDE DEF id, e
  <2> QED
    BY <2>1, <2>2
<1>11. inlineReason(near) =
          IF e.reuse.kind # "reusable" THEN e.reuse.reason
          ELSE IF near.uncomputed THEN near.reason
          ELSE IF near.codes # {} THEN ReasonOf(near.codes)
          ELSE IF Expired(e) THEN "expired"
          ELSE IF ~payloadHealth(id) THEN "payload-missing" ELSE NoReason
  BY DEF inlineReason
<1> HIDE DEF near, e, id, codes, kc, same
<1>12. e.reuse.kind = "reusable" =>
          reusability(id) = IF codes # {} THEN ReasonOf(codes)
                            ELSE IF Expired(e) THEN "expired"
                            ELSE IF ~payloadHealth(id) THEN "payload-missing" ELSE "reusable"
  BY <1>3, <1>6, <1>7, <1>8, <1>10 DEF codes
<1>13. hidden => codes # {}
  OBVIOUS
<1> HIDE DEF hidden
<1>14. \/ inlineReason(near) = reusability(id)
       \/ inlineReason(near) = NoReason /\ reusability(id) = "reusable"
  <2>1. CASE e.reuse.kind # "reusable"
    BY <1>10, <1>11, <2>1
  <2>2. CASE e.reuse.kind = "reusable" /\ hidden
    BY <1>9, <1>11, <1>12, <1>13, <2>2
  <2>3. CASE e.reuse.kind = "reusable" /\ ~hidden
    BY <1>9, <1>11, <1>12, <2>3
  <2> QED
    BY <2>1, <2>2, <2>3
<1> QED
  BY <1>14 DEF near, id, e, kc

LEMMA FootersAgree == HistoryInv => FooterAgrees
<1> SUFFICES ASSUME HistoryInv, NEW req \in Requests, RunFate(req) = "execute"
             PROVE  LET kc == buildKeyContext(req, TRUE)
                        cands == Candidates(kc.input)
                        near == Nearest(cands)
                        same == requestFromEntry(near.entry)
                    IN  \/ cands = {}
                        \/ probesDeclared(kc.input.validation)
                        \/ [req EXCEPT !.scope = Include(req)] # same
                        \/ inlineReason(near) = reusability(near.entry.id)
                        \/ inlineReason(near) = NoReason /\ reusability(near.entry.id) = "reusable"
  BY DEF FooterAgrees
<1> QED
  BY FooterIs

(* Every reuse state that can be stored is in one group of the audit.         *)
LEMMA AuditedOnce ==
    ASSUME NEW x \in ReuseStates
    PROVE  \E g : {h \in DOMAIN auditClasses : x \in auditClasses[h]} = {g}
<1> DEFINE In(h) == x \in auditClasses[h]
<1>1. DOMAIN auditClasses = {"reusable_when_stored", "deliberate_recording", "policy_blocker",
                             "changed_state", "observation_unavailable", "failure_cache_policy"}
  BY DEF auditClasses
<1>2. /\ In("reusable_when_stored") <=> x = Reusable
      /\ In("deliberate_recording") <=> x \in {RecordOnly("record-only"), RecordOnly("no-cache")}
      /\ In("policy_blocker") <=> \E r \in {"stdin-not-keyed", "skipped-inputs", "fast-trust-mode",
            "non-cacheable-policy", "capture-disabled", "external-facts-unavailable"} : x = RecordOnly(r)
      /\ In("changed_state") <=> \E r \in {"mutated-state", "effect-state-differs",
            "external-facts-changed"} : x = NonReusable(r)
      /\ In("observation_unavailable") <=> x = UnknownPostState \/ \E r \in
            {"effect-state-unavailable", "external-facts-unavailable-post-run"} : x = NonReusable(r)
      /\ In("failure_cache_policy") <=> x = NonReusable("failed-not-cached")
  BY DEF auditClasses
<1> HIDE DEF In
<1>3. CASE x = Reusable
  <2>1. {h \in DOMAIN auditClasses : In(h)} = {"reusable_when_stored"}
    BY <1>1, <1>2, <1>3 DEF Reusable, NonReusable, RecordOnly, UnknownPostState
  <2> QED
    BY <2>1 DEF In
<1>4. CASE x = UnknownPostState
  <2>1. {h \in DOMAIN auditClasses : In(h)} = {"observation_unavailable"}
    BY <1>1, <1>2, <1>4 DEF Reusable, NonReusable, RecordOnly, UnknownPostState
  <2> QED
    BY <2>1 DEF In
<1>5. ASSUME NEW r \in disqualifiedReason, x = NonReusable(r)
      PROVE  \E g : {h \in DOMAIN auditClasses : In(h)} = {g}
  <2>1. CASE r \in {"mutated-state", "effect-state-differs", "external-facts-changed"}
    <3>1. {h \in DOMAIN auditClasses : In(h)} = {"changed_state"}
      BY <1>1, <1>2, <1>5, <2>1 DEF Reusable, NonReusable, RecordOnly, UnknownPostState
    <3> QED
      BY <3>1
  <2>2. CASE r \in {"effect-state-unavailable", "external-facts-unavailable-post-run"}
    <3>1. {h \in DOMAIN auditClasses : In(h)} = {"observation_unavailable"}
      BY <1>1, <1>2, <1>5, <2>2 DEF Reusable, NonReusable, RecordOnly, UnknownPostState
    <3> QED
      BY <3>1
  <2>3. CASE r = "failed-not-cached"
    <3>1. {h \in DOMAIN auditClasses : In(h)} = {"failure_cache_policy"}
      BY <1>1, <1>2, <1>5, <2>3 DEF Reusable, NonReusable, RecordOnly, UnknownPostState
    <3> QED
      BY <3>1
  <2> QED
    BY <1>5, <2>1, <2>2, <2>3 DEF disqualifiedReason
<1>6. ASSUME NEW r \in policyReason, x = RecordOnly(r)
      PROVE  \E g : {h \in DOMAIN auditClasses : In(h)} = {g}
  <2>1. CASE r \in {"record-only", "no-cache"}
    <3>1. {h \in DOMAIN auditClasses : In(h)} = {"deliberate_recording"}
      BY <1>1, <1>2, <1>6, <2>1 DEF Reusable, NonReusable, RecordOnly, UnknownPostState
    <3> QED
      BY <3>1
  <2>2. CASE r \notin {"record-only", "no-cache"}
    <3>1. {h \in DOMAIN auditClasses : In(h)} = {"policy_blocker"}
      BY <1>1, <1>2, <1>6, <2>2 DEF Reusable, NonReusable, RecordOnly, UnknownPostState, policyReason
    <3> QED
      BY <3>1
  <2> QED
    BY <2>1, <2>2
<1> QED
  BY <1>3, <1>4, <1>5, <1>6 DEF ReuseStates, In

LEMMA ListingsAre == HistoryInv => ListingsAgree
<1> SUFFICES ASSUME HistoryInv, NEW limit \in 1..2
             PROVE  /\ \A command \in {None} \cup {req.command : req \in Requests} :
                          Ls(limit, command) \subseteq Log(limit, command)
                    /\ \A budget \in 1..limit : \A id \in DOMAIN auditRecorded(limit, budget) :
                          Cardinality(auditRecorded(limit, budget)[id]) = 1
  BY DEF ListingsAgree
<1>1. ASSUME NEW command, NEW id \in Ls(limit, command) PROVE id \in Log(limit, command)
  <2> DEFINE shown == {x \in DOMAIN store : Shown(x, command)}
             all == {x \in DOMAIN store : x > id}
             some == {x \in shown : x > id}
  <2>1. id \in shown /\ Cardinality(all) < limit
    BY <1>1 DEF Ls, Newest
  <2>2. IsFiniteSet(all) /\ some \subseteq all
    <3>1. all \subseteq DOMAIN store
      OBVIOUS
    <3> HIDE DEF all
    <3>2. IsFiniteSet(all)
      BY <3>1, FS_Subset DEF HistoryInv
    <3> QED
      BY <3>2 DEF all
  <2> HIDE DEF all, some
  <2>3. Cardinality(some) \in Nat /\ Cardinality(all) \in Nat /\ Cardinality(some) <= Cardinality(all)
    BY <2>2, FS_Subset, FS_CardinalityType
  <2>4. Cardinality(some) < limit
    BY <2>1, <2>3
  <2> QED
    BY <2>1, <2>4 DEF Log, Newest, some
<1>2. ASSUME NEW budget \in 1..limit, NEW id \in DOMAIN auditRecorded(limit, budget)
      PROVE  Cardinality(auditRecorded(limit, budget)[id]) = 1
  <2> DEFINE groups == auditRecorded(limit, budget)[id]
  <2>1. id \in Newest(DOMAIN store, limit)
    BY <1>2 DEF auditRecorded
  <2>2. id \in DOMAIN store
    BY <2>1 DEF Newest
  <2>3. groups = IF id \notin Newest(Newest(DOMAIN store, limit), budget) THEN {"unread-budget"}
                 ELSE IF Get(id) # "read" THEN {Get(id)}
                 ELSE {g \in DOMAIN auditClasses : Entry(id).reuse \in auditClasses[g]}
    BY <2>1 DEF auditRecorded
  <2>4. Get(id) = "read" => Entry(id).reuse \in ReuseStates
    BY <2>2 DEF HistoryInv, StoredOk, Entry, EntryOk, Validate, validateReuse
  <2>5. Get(id) = "read" =>
           \E g : {h \in DOMAIN auditClasses : Entry(id).reuse \in auditClasses[h]} = {g}
    BY <2>4, AuditedOnce
  <2>6. \E g : groups = {g}
    <3> HIDE DEF groups
    <3> QED
      BY <2>3, <2>5
  <2> HIDE DEF groups
  <2>7. Cardinality(groups) = 1
    BY <2>6, FS_Singleton
  <2> QED
    BY <2>7 DEF groups
<1> QED
  BY <1>1, <1>2

(* What explain says of a command or of a stored run, what ls lists and what  *)
(* the line after a run gives for a reason is what awa run would do in the    *)
(* same state, and audit counts every run once: currentVerdict, reusability,  *)
(* inlineReason and auditRecorded beside Fate.                               *)
THEOREM ViewsAreRight == HistorySpec => []ViewsForetell
<1>1. HistoryInv => ViewsForetell
  BY ExplanationsForetell, ListingMatches, FootersAgree, ListingsAre DEF ViewsForetell, ListIsTrue
<1> QED
  BY HistoryBegins, HistoryGoesOn, <1>1, PTL DEF HistorySpec
=============================================================================
