---------------------------- MODULE StoreGCProofs ----------------------------
(* Proofs about StoreGC for any sets of records and blobs, any keep-last and *)
(* any pattern of failures and crashes; and, in the second part, about       *)
(* CapacityAudit, what doctor says of the space the store and the watched    *)
(* roots take, for any worktree, any budgets and any disappearances.         *)
EXTENDS StoreGC, CapacityAudit, FiniteSetTheorems, SequenceTheorems, WellFoundedInduction, TLAPS

USE DEF Records

-----------------------------------------------------------------------------
(* The types. *)

LEMMA TypeInit == Init => TypeOK
<1> SUFFICES ASSUME Init PROVE TypeOK
  OBVIOUS
<1>1. doomed \in [records : SUBSET Records, blobs : SUBSET Blobs, temps : SUBSET Records]
  BY DEF Init, NoCandidates
<1>2. Access!TypeOK
  BY DEF Init, Access!Init, Access!TypeOK
<1> QED
  BY <1>1, <1>2 DEF Init, TypeOK, WriterPC, Kinds

(* The place of the next checkpoint in the order of creation is a number. *)
LEMMA NextBirth == Cardinality({d \in Checkpoints : born[d] # 0}) \in Nat
<1>1. IsFiniteSet({d \in Checkpoints : born[d] # 0})
  BY StoreAssumption, FS_Subset
<1> QED
  BY <1>1, FS_CardinalityType

LEMMA WriterType ==
  ASSUME TypeOK, NEW x \in Records, WriterStep(x)
  PROVE  TypeOK'
<1> USE StoreAssumption
    DEF TypeOK, WriterPC, Goto, access, writer, store, keeper, Access!TypeOK, Access!vars
<1>1. CASE Enter(x)
  BY <1>1 DEF Enter, Access!Enter
<1>2. CASE OpenRecord(x)
  <2>1. born' \in [Checkpoints -> Nat]
    BY <1>2, NextBirth DEF OpenRecord
  <2>2. /\ refs' \in [Records -> SUBSET Blobs]
        /\ pending' \in [Records -> SUBSET Blobs]
        /\ files' \in [Records -> SUBSET (CheckpointFiles \cup RestoreFiles)]
        /\ \A c \in Checkpoints : files'[c] \subseteq CheckpointFiles
        /\ \A r \in Restores : files'[r] \subseteq RestoreFiles
    BY <1>2 DEF OpenRecord, CheckpointFiles
  <2> QED
    BY <1>2, <2>1, <2>2 DEF OpenRecord
<1>3. CASE BeginCapture(x)
  BY <1>3 DEF BeginCapture
<1>4. CASE ReuseBlob(x)
  BY <1>4 DEF ReuseBlob
<1>5. CASE CreateBlobTemp(x)
  BY <1>5 DEF CreateBlobTemp
<1>6. CASE LinkBlob(x)
  BY <1>6 DEF LinkBlob
<1>7. CASE DropBlobTemp(x)
  BY <1>7 DEF DropBlobTemp
<1>8. CASE PublishManifest(x)
  BY <1>8 DEF PublishManifest, CheckpointFiles
<1>9. CASE PublishFrontier(x) \/ PublishHeader(x)
  BY <1>9 DEF PublishFrontier, PublishHeader, CheckpointFiles
<1>10. CASE StageRecord(x)
  BY <1>10 DEF StageRecord
<1>11. CASE PublishRecord(x)
  BY <1>11 DEF PublishRecord
<1>12. CASE EndApply(x) \/ DropFails(x)
  BY <1>12 DEF EndApply, DropFails
<1>13. CASE DropRecord(x)
  BY <1>13 DEF DropRecord, RemoveOne
<1>14. CASE Abort(x)
  BY <1>14 DEF Abort
<1>15. CASE Leave(x)
  BY <1>15 DEF Leave, Access!Leave
<1>16. CASE Crash(x)
  <2>1. files' \in [Records -> SUBSET (CheckpointFiles \cup RestoreFiles)]
        /\ \A c \in Checkpoints : files'[c] \subseteq CheckpointFiles
        /\ \A r \in Restores : files'[r] \subseteq RestoreFiles
    <3>1. CASE UNCHANGED files
      BY <3>1
    <3>2. CASE x \in Checkpoints /\ files' = [files EXCEPT ![x] = @ \cup {"tmp"}]
      BY <3>2 DEF CheckpointFiles
    <3> QED
      BY <1>16, <3>1, <3>2 DEF Crash
  <2>2. /\ pc' \in [Records -> WriterPC]
        /\ pending' \in [Records -> SUBSET Blobs]
        /\ Access!TypeOK'
    BY <1>16 DEF Crash, Access!Leave
  <2> QED
    BY <1>16, <2>1, <2>2 DEF Crash
<1> QED
  BY <1>1, <1>2, <1>3, <1>4, <1>5, <1>6, <1>7, <1>8, <1>9, <1>10, <1>11, <1>12, <1>13,
     <1>14, <1>15, <1>16 DEF WriterStep

LEMMA GcLeaveType ==
  ASSUME TypeOK, GcLeave
  PROVE  TypeOK'
<1>1. NoCandidates \in [records : SUBSET Records, blobs : SUBSET Blobs, temps : SUBSET Records]
  BY DEF NoCandidates
<1> QED
  BY <1>1 DEF TypeOK, GcLeave, writer, store, Access!TypeOK, Access!End

LEMMA GcPlanType ==
  ASSUME TypeOK, GcPlan
  PROVE  TypeOK'
<1> PICK keep \in Keeps, cut \in 0 .. Cardinality(Checkpoints),
         old \in SUBSET Recoveries, filter \in {Kinds} \cup {{k} : k \in Kinds} :
       LET dead == (IF "checkpoint" \in filter THEN Expired(keep, cut) ELSE {})
                     \cup (IF "restore" \in filter THEN old ELSE {})
           retained == (Committed \cup Recoveries) \ dead
       IN \/ Blocked(retained) /\ GcLeave
          \/ /\ ~Blocked(retained)
             /\ phase' = "checkpoint"
             /\ doomed' = [records |-> dead,
                           blobs |-> IF "blob" \in filter
                                     THEN blobs \ Marked(retained) ELSE {},
                           temps |-> IF "temp" \in filter
                                     THEN {x \in Temps : pc[x] = "dead"} ELSE {}]
             /\ whole' = (filter = Kinds)
             /\ condemned' = condemned \cup dead
             /\ UNCHANGED <<access, writer, store, suspects, removing>>
  BY DEF GcPlan
<1> DEFINE dead == (IF "checkpoint" \in filter THEN Expired(keep, cut) ELSE {})
                     \cup (IF "restore" \in filter THEN old ELSE {})
           retained == (Committed \cup Recoveries) \ dead
<1>1. CASE GcLeave
  BY <1>1, GcLeaveType
<1>2. CASE ~GcLeave
  <2>1. dead \subseteq Records
    BY DEF Expired, Committed, Recoveries
  <2>2. blobs \ Marked(retained) \subseteq Blobs /\ {x \in Temps : pc[x] = "dead"} \subseteq Records
    BY DEF TypeOK, Temps
  <2>3. /\ phase' = "checkpoint"
        /\ doomed' = [records |-> dead,
                      blobs |-> IF "blob" \in filter THEN blobs \ Marked(retained) ELSE {},
                      temps |-> IF "temp" \in filter
                                THEN {x \in Temps : pc[x] = "dead"} ELSE {}]
        /\ whole' = (filter = Kinds)
        /\ condemned' = condemned \cup dead
        /\ UNCHANGED <<access, writer, store, suspects, removing>>
    BY <1>2
  <2> HIDE DEF dead, retained
  <2>4. doomed' \in [records : SUBSET Records, blobs : SUBSET Blobs, temps : SUBSET Records]
    BY <2>1, <2>2, <2>3
  <2>5. whole' \in BOOLEAN /\ condemned' \subseteq Records
    BY <2>1, <2>3 DEF TypeOK
  <2> QED
    BY <2>3, <2>4, <2>5 DEF TypeOK, access, writer, store, Access!TypeOK, Kinds
<1> QED
  BY <1>1, <1>2

LEMMA KeeperType ==
  ASSUME TypeOK, GcStep \/ DoctorStep
  PROVE  TypeOK'
<1> USE StoreAssumption
    DEF TypeOK, access, writer, store, keeper, Access!TypeOK, Access!vars
<1>1. CASE GcBegin
  BY <1>1 DEF GcBegin, Access!Begin
<1>2. CASE GcDeleteRecord
  BY <1>2 DEF GcDeleteRecord, RemoveOne, Candidates
<1>3. CASE GcDeleteBlob
  BY <1>3 DEF GcDeleteBlob
<1>4. CASE GcDeleteTemp
  BY <1>4 DEF GcDeleteTemp
<1>5. CASE GcDeleteFails
  <2>1. doomed' \in [records : SUBSET Records, blobs : SUBSET Blobs, temps : SUBSET Records]
    <3>1. CASE \E x \in Candidates : doomed' = [doomed EXCEPT !.records = @ \ {x}]
      BY <3>1
    <3>2. CASE \E b \in doomed.blobs : doomed' = [doomed EXCEPT !.blobs = @ \ {b}]
      BY <3>2
    <3>3. CASE \E x \in doomed.temps : doomed' = [doomed EXCEPT !.temps = @ \ {x}]
      BY <3>3
    <3> QED
      BY <1>5, <3>1, <3>2, <3>3 DEF GcDeleteFails
  <2> QED
    BY <1>5, <2>1 DEF GcDeleteFails
<1>6. CASE GcNextPhase
  BY <1>6 DEF GcNextPhase, Kinds
<1>7. CASE DoctorBegin
  BY <1>7 DEF DoctorBegin, Access!Begin
<1>8. CASE DoctorLeave
  BY <1>8 DEF DoctorLeave, Access!End
<1>9. ASSUME NEW c \in Checkpoints, Suspect(c) \/ Withdraw(c) \/ RepairFails(c)
      PROVE  TypeOK'
  BY <1>9 DEF Suspect, Withdraw, RepairFails
<1>10. ASSUME NEW c \in Checkpoints, RemoveHeaderless(c)
       PROVE  TypeOK'
  BY <1>10 DEF RemoveHeaderless, RemoveOne
<1> HIDE DEF TypeOK
<1> QED
  BY <1>1, <1>2, <1>3, <1>4, <1>5, <1>6, <1>7, <1>8, <1>9, <1>10, GcLeaveType, GcPlanType
  DEF GcStep, DoctorStep, GcEnd, GcCrash, DoctorEnd, DoctorCrash

LEMMA TypeStep == TypeOK /\ [Next]_vars => TypeOK'
<1> SUFFICES ASSUME TypeOK, [Next]_vars PROVE TypeOK'
  OBVIOUS
<1>1. CASE UNCHANGED vars
  BY <1>1 DEF vars, access, writer, store, keeper, TypeOK, Access!TypeOK
<1>2. CASE Next
  BY <1>2, WriterType, KeeperType DEF Next
<1> QED
  BY <1>1, <1>2

(* Every reachable state is well typed, whatever fails or dies. *)
THEOREM TypeCorrect == Spec => []TypeOK
  BY TypeInit, TypeStep, PTL DEF Spec

-----------------------------------------------------------------------------
(* The inductive invariant. *)

LEMMA InvInit == Init => Inv
  BY StoreAssumption
  DEF Init, Inv, AccessInv, PublicationInv, CaptureInv, SweepInv, RetainedIsReadable,
      Committed, Recoveries, Live, Captured, Access!Init, NoCandidates

(* While a writer is inside, nobody else changes the store, and gc has       *)
(* nothing to delete.                                                        *)
LEMMA WriterAlone ==
  ASSUME IInv, NEW x \in Records, Live(x) \/ owner = Nobody
  PROVE  owner = Nobody /\ phase = "idle" /\ doomed = NoCandidates
  BY StoreAssumption DEF IInv, Inv, AccessInv, SweepInv

LEMMA WriterAccess ==
  ASSUME IInv, NEW x \in Records, WriterStep(x)
  PROVE  AccessInv'
<1> USE StoreAssumption
    DEF IInv, TypeOK, Inv, AccessInv, Live, Goto, access, writer, store, keeper,
        Access!TypeOK, Access!Enter, Access!Leave
<1>1. CASE Enter(x)
  BY <1>1 DEF Enter
<1>2. CASE OpenRecord(x)
  BY <1>2 DEF OpenRecord
<1>3. CASE BeginCapture(x)
  BY <1>3 DEF BeginCapture
<1>4. CASE ReuseBlob(x)
  BY <1>4 DEF ReuseBlob
<1>5. CASE CreateBlobTemp(x)
  BY <1>5 DEF CreateBlobTemp
<1>6. CASE LinkBlob(x)
  BY <1>6 DEF LinkBlob
<1>7. CASE DropBlobTemp(x)
  BY <1>7 DEF DropBlobTemp
<1>8. CASE PublishManifest(x)
  BY <1>8 DEF PublishManifest
<1>9. CASE PublishFrontier(x)
  BY <1>9 DEF PublishFrontier
<1>10. CASE PublishHeader(x)
  BY <1>10 DEF PublishHeader
<1>11. CASE StageRecord(x)
  BY <1>11 DEF StageRecord
<1>12. CASE PublishRecord(x)
  BY <1>12 DEF PublishRecord
<1>13. CASE EndApply(x)
  BY <1>13 DEF EndApply
<1>14. CASE DropRecord(x)
  BY <1>14 DEF DropRecord
<1>15. CASE DropFails(x)
  BY <1>15 DEF DropFails
<1>16. CASE Abort(x)
  BY <1>16 DEF Abort
<1>17. CASE Leave(x)
  BY <1>17 DEF Leave
<1>18. CASE Crash(x)
  BY <1>18 DEF Crash
<1> HIDE DEF IInv, Inv, TypeOK, AccessInv
<1> QED
  BY <1>1, <1>2, <1>3, <1>4, <1>5, <1>6, <1>7, <1>8, <1>9, <1>10, <1>11, <1>12, <1>13, <1>14, <1>15, <1>16, <1>17, <1>18 DEF WriterStep

LEMMA WriterPublication ==
  ASSUME IInv, NEW x \in Records, WriterStep(x)
  PROVE  PublicationInv'
<1> USE StoreAssumption
    DEF IInv, TypeOK, Inv, PublicationInv, Goto, store, writer
<1>1. CASE Enter(x)
  BY <1>1 DEF Enter
<1>2. CASE OpenRecord(x)
  BY <1>2 DEF OpenRecord
<1>3. CASE BeginCapture(x)
  BY <1>3 DEF BeginCapture
<1>4. CASE ReuseBlob(x)
  BY <1>4 DEF ReuseBlob
<1>5. CASE CreateBlobTemp(x)
  BY <1>5 DEF CreateBlobTemp
<1>6. CASE LinkBlob(x)
  BY <1>6 DEF LinkBlob
<1>7. CASE DropBlobTemp(x)
  BY <1>7 DEF DropBlobTemp
<1>8. CASE PublishManifest(x)
  BY <1>8 DEF PublishManifest
<1>9. CASE PublishFrontier(x)
  BY <1>9 DEF PublishFrontier
<1>10. CASE PublishHeader(x)
  BY <1>10 DEF PublishHeader
<1>11. CASE StageRecord(x)
  BY <1>11 DEF StageRecord
<1>12. CASE PublishRecord(x)
  BY <1>12 DEF PublishRecord
<1>13. CASE EndApply(x)
  BY <1>13 DEF EndApply
<1>14. CASE DropRecord(x)
  BY <1>14 DEF DropRecord, RemoveOne
<1>15. CASE DropFails(x)
  BY <1>15 DEF DropFails
<1>16. CASE Abort(x)
  BY <1>16 DEF Abort
<1>17. CASE Leave(x)
  BY <1>17 DEF Leave
<1>18. CASE Crash(x)
  BY <1>18 DEF Crash
<1> HIDE DEF IInv, TypeOK, Inv, PublicationInv, Goto, store, writer
<1> QED
  BY <1>1, <1>2, <1>3, <1>4, <1>5, <1>6, <1>7, <1>8, <1>9, <1>10, <1>11, <1>12, <1>13, <1>14, <1>15, <1>16, <1>17, <1>18 DEF WriterStep

LEMMA WriterCapture ==
  ASSUME IInv, NEW x \in Records, WriterStep(x)
  PROVE  CaptureInv'
<1> USE StoreAssumption
    DEF IInv, TypeOK, Inv, CaptureInv, Captured, Goto, store, writer
<1>1. CASE Enter(x)
  BY <1>1 DEF Enter
<1>2. CASE OpenRecord(x)
  BY <1>2 DEF OpenRecord
<1>3. CASE BeginCapture(x)
  BY <1>3 DEF BeginCapture
<1>4. CASE ReuseBlob(x)
  BY <1>4 DEF ReuseBlob
<1>5. CASE CreateBlobTemp(x)
  BY <1>5 DEF CreateBlobTemp
<1>6. CASE LinkBlob(x)
  BY <1>6 DEF LinkBlob
<1>7. CASE DropBlobTemp(x)
  BY <1>7 DEF DropBlobTemp
<1>8. CASE PublishManifest(x)
  BY <1>8 DEF PublishManifest
<1>9. CASE PublishFrontier(x)
  BY <1>9 DEF PublishFrontier
<1>10. CASE PublishHeader(x)
  BY <1>10 DEF PublishHeader
<1>11. CASE StageRecord(x)
  BY <1>11 DEF StageRecord
<1>12. CASE PublishRecord(x)
  BY <1>12 DEF PublishRecord
<1>13. CASE EndApply(x)
  BY <1>13 DEF EndApply
<1>14. CASE DropRecord(x)
  BY <1>14 DEF DropRecord
<1>15. CASE DropFails(x)
  BY <1>15 DEF DropFails
<1>16. CASE Abort(x)
  BY <1>16 DEF Abort
<1>17. CASE Leave(x)
  BY <1>17 DEF Leave
<1>18. CASE Crash(x)
  BY <1>18 DEF Crash
<1> HIDE DEF IInv, TypeOK, Inv, CaptureInv, Captured, Goto, store, writer
<1> QED
  BY <1>1, <1>2, <1>3, <1>4, <1>5, <1>6, <1>7, <1>8, <1>9, <1>10, <1>11, <1>12, <1>13, <1>14, <1>15, <1>16, <1>17, <1>18 DEF WriterStep

LEMMA WriterRetained ==
  ASSUME IInv, NEW x \in Records, WriterStep(x)
  PROVE  RetainedIsReadable'
<1> USE StoreAssumption
    DEF IInv, TypeOK, Inv, PublicationInv, CaptureInv, SweepInv, RetainedIsReadable, Readable,
        Committed, Recoveries, Captured, Goto, store, writer, CheckpointFiles, RestoreFiles
<1>1. CASE Enter(x)
  BY <1>1 DEF Enter
<1>2. CASE OpenRecord(x)
  BY <1>2 DEF OpenRecord
<1>3. CASE BeginCapture(x)
  BY <1>3 DEF BeginCapture
<1>4. CASE ReuseBlob(x)
  BY <1>4 DEF ReuseBlob
<1>5. CASE CreateBlobTemp(x)
  BY <1>5 DEF CreateBlobTemp
<1>6. CASE LinkBlob(x)
  BY <1>6 DEF LinkBlob
<1>7. CASE DropBlobTemp(x)
  BY <1>7 DEF DropBlobTemp
<1>8. CASE PublishManifest(x)
  BY <1>8 DEF PublishManifest
<1>9. CASE PublishFrontier(x)
  BY <1>9 DEF PublishFrontier
<1>10. CASE PublishHeader(x)
  <2>1. files'[x] = {"dir", "manifest", "frontier", "header"} /\ refs[x] \subseteq blobs
    BY <1>10 DEF PublishHeader
  <2>2. Readable(x)'
    BY <1>10, <2>1 DEF PublishHeader
  <2>3. \A y \in Records : y # x => files'[y] = files[y]
    BY <1>10 DEF PublishHeader
  <2> QED
    BY <1>10, <2>2, <2>3 DEF PublishHeader
<1>11. CASE StageRecord(x)
  BY <1>11 DEF StageRecord
<1>12. CASE PublishRecord(x)
  BY <1>12 DEF PublishRecord
<1>13. CASE EndApply(x)
  BY <1>13 DEF EndApply
<1>14. CASE DropRecord(x)
  BY <1>14 DEF DropRecord, RemoveOne
<1>15. CASE DropFails(x)
  BY <1>15 DEF DropFails
<1>16. CASE Abort(x)
  BY <1>16 DEF Abort
<1>17. CASE Leave(x)
  BY <1>17 DEF Leave
<1>18. CASE Crash(x)
  BY <1>18 DEF Crash
<1> HIDE DEF IInv, TypeOK, Inv, PublicationInv, CaptureInv, SweepInv, RetainedIsReadable, Readable,
        Committed, Recoveries, Captured, Goto, store, writer, CheckpointFiles, RestoreFiles
<1> QED
  BY <1>1, <1>2, <1>3, <1>4, <1>5, <1>6, <1>7, <1>8, <1>9, <1>10, <1>11, <1>12, <1>13, <1>14, <1>15, <1>16, <1>17, <1>18 DEF WriterStep

LEMMA WriterSweep ==
  ASSUME IInv, NEW x \in Records, WriterStep(x)
  PROVE  SweepInv'
<1>1. Live(x) \/ owner = Nobody
  BY DEF WriterStep, Live, Goto, Enter, Access!Enter, OpenRecord, BeginCapture, ReuseBlob,
         CreateBlobTemp, LinkBlob, DropBlobTemp, PublishManifest, PublishFrontier,
         PublishHeader, StageRecord, PublishRecord, EndApply, DropRecord, DropFails, Abort,
         Leave, Crash
<1>2. phase = "idle" /\ doomed = NoCandidates
  BY <1>1, WriterAlone
<1>3. UNCHANGED <<phase, doomed>>
  BY DEF WriterStep, keeper, Enter, OpenRecord, BeginCapture, ReuseBlob, CreateBlobTemp,
         LinkBlob, DropBlobTemp, PublishManifest, PublishFrontier, PublishHeader,
         StageRecord, PublishRecord, EndApply, DropRecord, DropFails, Abort, Leave, Crash
<1>4. /\ \A y \in condemned' : pc'[y] \in {"drop", "done", "gone", "dead"}
      /\ \A y \in Records : pc'[y] = "drop" => y \in condemned'
  <2> USE DEF IInv, Inv, TypeOK, SweepInv, Goto, keeper, writer
  <2>1. CASE Enter(x)
    BY <2>1 DEF Enter
  <2>2. CASE OpenRecord(x)
    BY <2>2 DEF OpenRecord
  <2>3. CASE BeginCapture(x)
    BY <2>3 DEF BeginCapture
  <2>4. CASE ReuseBlob(x)
    BY <2>4 DEF ReuseBlob
  <2>5. CASE CreateBlobTemp(x)
    BY <2>5 DEF CreateBlobTemp
  <2>6. CASE LinkBlob(x)
    BY <2>6 DEF LinkBlob
  <2>7. CASE DropBlobTemp(x)
    BY <2>7 DEF DropBlobTemp
  <2>8. CASE PublishManifest(x)
    BY <2>8 DEF PublishManifest
  <2>9. CASE PublishFrontier(x)
    BY <2>9 DEF PublishFrontier
  <2>10. CASE PublishHeader(x)
    BY <2>10 DEF PublishHeader
  <2>11. CASE StageRecord(x)
    BY <2>11 DEF StageRecord
  <2>12. CASE PublishRecord(x)
    BY <2>12 DEF PublishRecord
  <2>13. CASE EndApply(x)
    BY <2>13 DEF EndApply
  <2>14. CASE DropRecord(x)
    BY <2>14 DEF DropRecord
  <2>15. CASE DropFails(x)
    BY <2>15 DEF DropFails
  <2>16. CASE Abort(x)
    BY <2>16 DEF Abort
  <2>17. CASE Leave(x)
    BY <2>17 DEF Leave
  <2>18. CASE Crash(x)
    BY <2>18 DEF Crash
  <2> HIDE DEF IInv, Inv, TypeOK, SweepInv, Goto, keeper, writer
  <2> QED
    BY <2>1, <2>2, <2>3, <2>4, <2>5, <2>6, <2>7, <2>8, <2>9, <2>10, <2>11, <2>12, <2>13, <2>14, <2>15, <2>16, <2>17, <2>18 DEF WriterStep
<1> QED
  BY <1>2, <1>3, <1>4 DEF SweepInv, NoCandidates

-----------------------------------------------------------------------------
(* gc and doctor.  Once one of them has the store no writer is inside, so    *)
(* every record belongs to a process that is gone or dead, or has none yet.  *)

LEMMA KeeperAlone ==
  ASSUME IInv, owner # Nobody
  PROVE  \A x \in Records : pc[x] \in {"new", "gone", "dead"}
  BY DEF IInv, Inv, AccessInv, Live

(* A pass that only takes from the store, nothing of a record that is kept,  *)
(* keeps what the records and their writers rely on.                         *)
LEMMA TakingIsSafe ==
  ASSUME IInv, owner # Nobody,
         UNCHANGED <<pc, refs, pending, condemned>>,
         files' \in [Records -> SUBSET (CheckpointFiles \cup RestoreFiles)],
         \A x \in Records : files'[x] \subseteq files[x],
         \A x \in (Committed \cup Recoveries) \ condemned :
             files'[x] = files[x] /\ refs[x] \cap blobs \subseteq blobs'
  PROVE  /\ PublicationInv'
         /\ CaptureInv'
         /\ RetainedIsReadable'
         /\ (Committed \cup Recoveries)' \ condemned' \subseteq (Committed \cup Recoveries) \ condemned
<1>1. \A x \in Records : pc[x] \in {"new", "gone", "dead"}
  BY KeeperAlone
<1>2. PublicationInv' /\ CaptureInv'
  BY <1>1 DEF IInv, Inv, PublicationInv, CaptureInv, Captured
<1>3. (Committed \cup Recoveries)' \subseteq Committed \cup Recoveries
  BY DEF Committed, Recoveries
<1>4. RetainedIsReadable'
  BY <1>3 DEF IInv, Inv, RetainedIsReadable, Readable
<1> QED
  BY <1>2, <1>3, <1>4

LEMMA GcLeaveInv ==
  ASSUME IInv, GcLeave
  PROVE  Inv'
<1> USE StoreAssumption DEF GcLeave, Access!End, writer, store
<1>1. UNCHANGED <<pc, refs, pending, condemned, files, blobs, hand, sharing>>
  OBVIOUS
<1>2. AccessInv'
  BY <1>1 DEF IInv, Inv, AccessInv, Live
<1>3. PublicationInv' /\ CaptureInv'
  BY <1>1 DEF IInv, Inv, PublicationInv, CaptureInv, Captured
<1>4. RetainedIsReadable'
  BY <1>1 DEF IInv, Inv, RetainedIsReadable, Readable, Committed, Recoveries
<1>5. SweepInv'
  BY <1>1 DEF IInv, Inv, SweepInv, NoCandidates
<1> QED
  BY <1>2, <1>3, <1>4, <1>5 DEF Inv

(* The mark: what gc plans to delete belongs to no live writer, and no       *)
(* record it keeps refers to it.                                             *)
LEMMA GcPlanInv ==
  ASSUME IInv, GcPlan
  PROVE  Inv'
<1> PICK keep \in Keeps, cut \in 0 .. Cardinality(Checkpoints),
         old \in SUBSET Recoveries, filter \in {Kinds} \cup {{k} : k \in Kinds} :
       LET dead == (IF "checkpoint" \in filter THEN Expired(keep, cut) ELSE {})
                     \cup (IF "restore" \in filter THEN old ELSE {})
           retained == (Committed \cup Recoveries) \ dead
       IN \/ Blocked(retained) /\ GcLeave
          \/ /\ ~Blocked(retained)
             /\ phase' = "checkpoint"
             /\ doomed' = [records |-> dead,
                           blobs |-> IF "blob" \in filter
                                     THEN blobs \ Marked(retained) ELSE {},
                           temps |-> IF "temp" \in filter
                                     THEN {x \in Temps : pc[x] = "dead"} ELSE {}]
             /\ whole' = (filter = Kinds)
             /\ condemned' = condemned \cup dead
             /\ UNCHANGED <<access, writer, store, suspects, removing>>
  BY DEF GcPlan
<1> DEFINE dead == (IF "checkpoint" \in filter THEN Expired(keep, cut) ELSE {})
                     \cup (IF "restore" \in filter THEN old ELSE {})
           retained == (Committed \cup Recoveries) \ dead
<1>1. CASE GcLeave
  BY <1>1, GcLeaveInv
<1>2. CASE ~GcLeave
  <2>1. /\ phase' = "checkpoint"
        /\ doomed'.records = dead
        /\ doomed'.blobs \subseteq blobs \ Marked(retained)
        /\ condemned' = condemned \cup dead
        /\ UNCHANGED <<access, writer, store, suspects, removing>>
    BY <1>2
  <2>2. dead \subseteq Committed \cup Recoveries
    BY DEF Expired
  <2> HIDE DEF dead
  <2>3. owner = Gc /\ phase = "plan"
    BY DEF GcPlan, IInv, Inv, AccessInv
  <2>4. \A x \in dead : x \in Records /\ pc[x] \in {"gone", "dead"}
    <3>1. \A x \in Committed \cup Recoveries : x \in Records /\ files[x] # {}
      BY DEF Committed, Recoveries
    <3> QED
      BY <2>2, <2>3, <3>1, KeeperAlone, StoreAssumption DEF IInv, Inv, PublicationInv
  <2>5. UNCHANGED <<sharing, owner, pc, refs, pending, files, blobs, hand>>
    BY <2>1 DEF access, writer, store
  <2>6. AccessInv'
    BY <2>1, <2>3, <2>5 DEF IInv, Inv, AccessInv, Live
  <2>7. PublicationInv' /\ CaptureInv'
    BY <2>5 DEF IInv, Inv, PublicationInv, CaptureInv, Captured
  <2>8. (Committed \cup Recoveries)' = Committed \cup Recoveries
    BY <2>5 DEF Committed, Recoveries
  <2>9. RetainedIsReadable'
    BY <2>1, <2>5, <2>8 DEF IInv, Inv, RetainedIsReadable, Readable
  <2>10. SweepInv'
    <3>1. \A x \in retained : refs[x] \cap doomed'.blobs = {}
      BY <2>1 DEF Marked
    <3>2. \A x \in (Committed \cup Recoveries)' \ condemned' : x \in retained
      BY <2>1, <2>8
    <3>3. /\ \A x \in condemned' : pc'[x] \in {"drop", "done", "gone", "dead"}
          /\ \A x \in Records : pc'[x] = "drop" => x \in condemned'
      BY <2>1, <2>4, <2>5 DEF IInv, Inv, SweepInv
    <3> QED
      BY <2>1, <2>5, <3>1, <3>2, <3>3 DEF SweepInv
  <2> QED
    BY <2>6, <2>7, <2>9, <2>10 DEF Inv
<1> QED
  BY <1>1, <1>2

(* A step of gc's or doctor's that leaves the store as it is and takes no    *)
(* more candidates.                                                          *)
LEMMA KeepingIsSafe ==
  ASSUME IInv, AccessInv',
         UNCHANGED <<pc, refs, pending, files, blobs, hand, condemned>>,
         doomed'.records \subseteq doomed.records,
         doomed'.blobs \subseteq doomed.blobs,
         phase' \in {"idle", "plan"} => doomed' = NoCandidates
  PROVE  Inv'
<1>1. PublicationInv' /\ CaptureInv'
  BY DEF IInv, Inv, PublicationInv, CaptureInv, Captured
<1>2. (Committed \cup Recoveries)' = Committed \cup Recoveries
  BY DEF Committed, Recoveries
<1>3. RetainedIsReadable'
  BY <1>2 DEF IInv, Inv, RetainedIsReadable, Readable
<1>4. SweepInv'
  BY <1>2 DEF IInv, Inv, SweepInv
<1> QED
  BY <1>1, <1>3, <1>4 DEF Inv

LEMMA GcDeleteInv ==
  ASSUME IInv, GcDeleteRecord \/ GcDeleteBlob \/ GcDeleteTemp
  PROVE  Inv'
<1>1. owner = Gc /\ owner # Nobody /\ phase \notin {"idle", "plan"}
  BY StoreAssumption
  DEF IInv, Inv, AccessInv, GcDeleteRecord, GcDeleteBlob, GcDeleteTemp, Candidates, SweepInv,
      NoCandidates
<1>2. UNCHANGED <<sharing, owner, pc, refs, pending, condemned, phase>>
  BY DEF GcDeleteRecord, GcDeleteBlob, GcDeleteTemp, access, writer
<1>3. AccessInv'
  BY <1>2 DEF IInv, Inv, AccessInv, Live
<1>4. /\ files' \in [Records -> SUBSET (CheckpointFiles \cup RestoreFiles)]
      /\ \A x \in Records : files'[x] \subseteq files[x]
      /\ \A x \in (Committed \cup Recoveries) \ condemned :
             files'[x] = files[x] /\ refs[x] \cap blobs \subseteq blobs'
      /\ doomed'.records \subseteq doomed.records
      /\ doomed'.blobs \subseteq doomed.blobs
  <2> USE DEF IInv, TypeOK
  <2>1. CASE GcDeleteRecord
    <3> PICK x \in doomed.records :
          /\ \E f \in files[x] : files' = [files EXCEPT ![x] = @ \ {f}]
          /\ doomed' \in {doomed, [doomed EXCEPT !.records = @ \ {x}]}
          /\ blobs' = blobs
      BY <2>1 DEF GcDeleteRecord, Candidates, RemoveOne
    <3>1. x \in condemned /\ x \in Records
      BY DEF Inv, SweepInv
    <3>2. /\ files' \in [Records -> SUBSET (CheckpointFiles \cup RestoreFiles)]
          /\ \A y \in Records : files'[y] \subseteq files[y]
          /\ \A y \in Records : y # x => files'[y] = files[y]
      BY <3>1
    <3>3. doomed'.records \subseteq doomed.records /\ doomed'.blobs \subseteq doomed.blobs
      OBVIOUS
    <3> QED
      BY <3>1, <3>2, <3>3 DEF Committed, Recoveries
  <2>2. CASE GcDeleteBlob
    <3> PICK b \in doomed.blobs :
          /\ blobs' = blobs \ {b}
          /\ doomed' = [doomed EXCEPT !.blobs = @ \ {b}]
          /\ files' = files
      BY <2>2 DEF GcDeleteBlob
    <3>1. \A x \in (Committed \cup Recoveries) \ condemned : b \notin refs[x]
      BY DEF Inv, SweepInv
    <3> QED
      BY <3>1
  <2>3. CASE GcDeleteTemp
    BY <2>3 DEF GcDeleteTemp
  <2> QED
    BY <2>1, <2>2, <2>3
<1>5. /\ PublicationInv' /\ CaptureInv' /\ RetainedIsReadable'
      /\ (Committed \cup Recoveries)' \ condemned' \subseteq (Committed \cup Recoveries) \ condemned
  BY <1>1, <1>2, <1>4, TakingIsSafe
<1>6. SweepInv'
  BY <1>1, <1>2, <1>4, <1>5 DEF IInv, Inv, SweepInv
<1> QED
  BY <1>3, <1>5, <1>6 DEF Inv

LEMMA RemoveHeaderlessInv ==
  ASSUME IInv, NEW c \in Checkpoints, RemoveHeaderless(c)
  PROVE  Inv'
<1>1. owner = Doctor /\ owner # Nobody
  BY StoreAssumption DEF RemoveHeaderless
<1>2. UNCHANGED <<sharing, owner, pc, refs, pending, condemned, phase, blobs, doomed>>
  BY DEF RemoveHeaderless, access, writer
<1>3. AccessInv'
  BY <1>2 DEF IInv, Inv, AccessInv, Live
<1>4. c \notin Committed \cup Recoveries
  BY StoreAssumption DEF RemoveHeaderless, Headerless, Committed, Recoveries
<1>5. /\ files' \in [Records -> SUBSET (CheckpointFiles \cup RestoreFiles)]
      /\ \A x \in Records : files'[x] \subseteq files[x]
      /\ \A x \in Records : x # c => files'[x] = files[x]
  BY DEF IInv, TypeOK, RemoveHeaderless, RemoveOne
<1>6. \A x \in (Committed \cup Recoveries) \ condemned :
             files'[x] = files[x] /\ refs[x] \cap blobs \subseteq blobs'
  BY <1>2, <1>4, <1>5 DEF Committed, Recoveries
<1>7. /\ PublicationInv' /\ CaptureInv' /\ RetainedIsReadable'
      /\ (Committed \cup Recoveries)' \ condemned' \subseteq (Committed \cup Recoveries) \ condemned
  BY <1>1, <1>2, <1>5, <1>6, TakingIsSafe
<1>8. SweepInv'
  BY <1>2, <1>7 DEF IInv, Inv, SweepInv
<1> QED
  BY <1>3, <1>7, <1>8 DEF Inv

LEMMA GcInv ==
  ASSUME IInv, GcStep
  PROVE  Inv'
<1>1. CASE GcBegin
  <2>1. UNCHANGED <<pc, refs, pending, files, blobs, hand, condemned, doomed, sharing>>
    BY <1>1 DEF GcBegin, Access!Begin, writer, store
  <2>2. AccessInv'
    BY <1>1, <2>1, StoreAssumption DEF GcBegin, Access!Begin, IInv, Inv, AccessInv, Live
  <2>3. doomed = NoCandidates
    BY <1>1 DEF GcBegin, IInv, Inv, SweepInv
  <2> QED
    BY <2>1, <2>2, <2>3, KeepingIsSafe
<1>2. CASE GcDeleteFails
  <2>1. UNCHANGED <<pc, refs, pending, files, blobs, hand, condemned, sharing, owner, phase>>
    BY <1>2 DEF GcDeleteFails, access, writer, store
  <2>2. AccessInv'
    BY <2>1 DEF IInv, Inv, AccessInv, Live
  <2>3. phase \notin {"idle", "plan"}
    BY <1>2 DEF GcDeleteFails, Candidates
  <2>4. doomed'.records \subseteq doomed.records /\ doomed'.blobs \subseteq doomed.blobs
    <3> USE DEF IInv, TypeOK
    <3>1. CASE \E x \in Candidates : doomed' = [doomed EXCEPT !.records = @ \ {x}]
      BY <3>1
    <3>2. CASE \E b \in doomed.blobs : doomed' = [doomed EXCEPT !.blobs = @ \ {b}]
      BY <3>2
    <3>3. CASE \E x \in doomed.temps : doomed' = [doomed EXCEPT !.temps = @ \ {x}]
      BY <3>3
    <3> QED
      BY <1>2, <3>1, <3>2, <3>3 DEF GcDeleteFails
  <2> QED
    BY <2>1, <2>2, <2>3, <2>4, KeepingIsSafe
<1>3. CASE GcNextPhase
  <2>1. UNCHANGED <<pc, refs, pending, files, blobs, hand, condemned, sharing, owner, doomed>>
    BY <1>3 DEF GcNextPhase, access, writer, store
  <2>2. phase' \notin {"idle", "plan"} /\ phase \notin {"idle", "plan"}
    BY <1>3 DEF GcNextPhase
  <2>3. AccessInv'
    BY <2>1, <2>2 DEF IInv, Inv, AccessInv, Live
  <2> QED
    BY <2>1, <2>2, <2>3, KeepingIsSafe
<1> QED
  BY <1>1, <1>2, <1>3, GcLeaveInv, GcPlanInv, GcDeleteInv DEF GcStep, GcEnd, GcCrash

LEMMA DoctorInv ==
  ASSUME IInv, DoctorStep
  PROVE  Inv'
<1>1. ASSUME NEW c \in Checkpoints, Suspect(c) \/ Withdraw(c) \/ RepairFails(c)
      PROVE  Inv'
  <2>1. UNCHANGED <<pc, refs, pending, files, blobs, hand, condemned, sharing, owner, doomed, phase>>
    BY <1>1 DEF Suspect, Withdraw, RepairFails, access, writer, store
  <2>2. AccessInv' /\ (phase' \in {"idle", "plan"} => doomed' = NoCandidates)
    BY <2>1 DEF IInv, Inv, AccessInv, Live, SweepInv
  <2> QED
    BY <2>1, <2>2, KeepingIsSafe
<1>2. ASSUME DoctorBegin \/ DoctorLeave
      PROVE  Inv'
  <2>1. UNCHANGED <<pc, refs, pending, files, blobs, hand, condemned, sharing, doomed, phase>>
    BY <1>2 DEF DoctorBegin, DoctorLeave, Access!Begin, Access!End, writer, store, keeper
  <2>2. owner # Gc /\ owner' # Gc
    BY <1>2, StoreAssumption DEF DoctorBegin, DoctorLeave, Access!Begin, Access!End
  <2>3. phase = "idle" /\ doomed = NoCandidates
    BY <2>2 DEF IInv, Inv, AccessInv, SweepInv
  <2>4. AccessInv'
    BY <1>2, <2>1, <2>2, <2>3
    DEF IInv, Inv, AccessInv, Live, DoctorBegin, DoctorLeave, Access!Begin, Access!End
  <2> QED
    BY <2>1, <2>3, <2>4, KeepingIsSafe
<1> QED
  BY <1>1, <1>2, RemoveHeaderlessInv DEF DoctorStep, DoctorEnd, DoctorCrash

LEMMA InvStep == IInv /\ [Next]_vars => IInv'
<1> SUFFICES ASSUME IInv, [Next]_vars PROVE IInv'
  OBVIOUS
<1>1. TypeOK'
  BY TypeStep DEF IInv
<1>2. Inv'
  <2>1. CASE UNCHANGED vars
    <3>1. UNCHANGED <<pc, refs, pending, files, blobs, hand, condemned, sharing, owner, doomed, phase>>
      BY <2>1 DEF vars, access, writer, store, keeper
    <3>2. AccessInv' /\ (phase' \in {"idle", "plan"} => doomed' = NoCandidates)
      BY <3>1 DEF IInv, Inv, AccessInv, Live, SweepInv
    <3> QED
      BY <3>1, <3>2, KeepingIsSafe
  <2>2. ASSUME NEW x \in Records, WriterStep(x) PROVE Inv'
    BY <2>2, WriterAccess, WriterPublication, WriterCapture, WriterRetained, WriterSweep DEF Inv
  <2> QED
    BY <2>1, <2>2, GcInv, DoctorInv DEF Next
<1> QED
  BY <1>1, <1>2 DEF IInv

(* The inductive invariant holds of every reachable state. *)
THEOREM Invariance == Spec => []IInv
<1>1. Init => IInv
  BY TypeInit, InvInit DEF IInv
<1> QED
  BY <1>1, InvStep, PTL DEF Spec

(* Data is never lost: no interleaving of writers, gc and doctor, no failure *)
(* and no crash takes a file or a blob from a record gc has not condemned.   *)
THEOREM DataIsNeverLost == Spec => []RetainedIsReadable
<1>1. IInv => RetainedIsReadable
  BY DEF IInv, Inv
<1> QED
  BY <1>1, Invariance, PTL

(* While restore --apply changes the worktree, its recovery record is        *)
(* complete, readable and in nobody's list of deletions.                     *)
THEOREM UndoIsAlwaysPossible == Spec => []UndoBeforeMutation
<1>1. IInv => UndoBeforeMutation
  <2> SUFFICES ASSUME IInv, NEW r \in Restores, pc[r] = "apply"
               PROVE  r \in Recoveries \ condemned /\ Readable(r)
    BY DEF UndoBeforeMutation
  <2>1. files[r] = RestoreFiles /\ refs[r] \subseteq blobs /\ r \notin condemned
    BY DEF IInv, Inv, PublicationInv, CaptureInv, Captured, SweepInv
  <2> QED
    BY <2>1, StoreAssumption DEF Recoveries, RestoreFiles, Readable
<1> QED
  BY <1>1, Invariance, PTL

-----------------------------------------------------------------------------
(* Publications under way. *)

(* What a step leaves to the writer of x. *)
Untouched(x) ==
    /\ pc[x] # "drop" => files[x] \subseteq files'[x]
    /\ (refs[x] \ pending[x]) \cap blobs \subseteq blobs'
    /\ hand'[x] = hand[x]

(* A writer changes its own record, blobs are only added, and the steps that *)
(* leave it where it is take nothing from itself.                            *)
LEMMA WriterTakesNothing ==
  ASSUME IInv, NEW x \in Records, Live(x), pc'[x] = pc[x], NEW y \in Records, WriterStep(y)
  PROVE  Untouched(x)
<1> USE DEF IInv, TypeOK, WriterPC, Goto, store, Untouched
<1>1. CASE Enter(y) \/ EndApply(y) \/ DropFails(y) \/ Leave(y) \/ ReuseBlob(y) \/ BeginCapture(y)
  BY <1>1 DEF Enter, EndApply, DropFails, Leave, ReuseBlob, BeginCapture
<1>2. CASE OpenRecord(y)
  BY <1>2 DEF OpenRecord
<1>3. CASE CreateBlobTemp(y)
  BY <1>3 DEF CreateBlobTemp
<1>4. CASE LinkBlob(y)
  BY <1>4 DEF LinkBlob
<1>5. CASE DropBlobTemp(y)
  BY <1>5 DEF DropBlobTemp
<1>6. CASE PublishManifest(y)
  BY <1>6 DEF PublishManifest
<1>7. CASE PublishFrontier(y) \/ PublishHeader(y)
  BY <1>7 DEF PublishFrontier, PublishHeader
<1>8. CASE StageRecord(y)
  BY <1>8 DEF StageRecord
<1>9. CASE PublishRecord(y)
  BY <1>9 DEF PublishRecord
<1>10. CASE DropRecord(y)
  BY <1>10 DEF DropRecord, RemoveOne
<1>11. CASE Abort(y)
  BY <1>11 DEF Abort
<1>12. CASE Crash(y)
  BY <1>12 DEF Crash, Live
<1> HIDE DEF IInv, TypeOK, WriterPC, Goto, store, Untouched
<1> QED
  BY <1>1, <1>2, <1>3, <1>4, <1>5, <1>6, <1>7, <1>8, <1>9, <1>10, <1>11, <1>12
  DEF WriterStep

(* With a writer inside, gc and doctor have nothing they may delete. *)
LEMMA KeeperTakesNothing ==
  ASSUME IInv, NEW x \in Records, Live(x), GcStep \/ DoctorStep
  PROVE  UNCHANGED <<files, blobs, hand>>
<1>1. owner = Nobody /\ phase = "idle" /\ doomed = NoCandidates
  BY WriterAlone
<1>2. Candidates = {} /\ Nobody # Doctor
  BY <1>1, StoreAssumption DEF Candidates, NoCandidates
<1>3. CASE GcStep
  BY <1>1, <1>2, <1>3
  DEF GcStep, GcBegin, GcPlan, GcDeleteRecord, GcDeleteBlob, GcDeleteTemp, GcDeleteFails,
      GcNextPhase, GcEnd, GcCrash, store
<1>4. CASE DoctorStep
  BY <1>1, <1>2, <1>4
  DEF DoctorStep, Suspect, Withdraw, RemoveHeaderless, RepairFails, DoctorBegin, DoctorEnd,
      DoctorCrash, DoctorLeave, store
<1> QED
  BY <1>3, <1>4

LEMMA StepTakesNothing ==
  ASSUME IInv, [Next]_vars, NEW x \in Records, Live(x), pc'[x] = pc[x]
  PROVE  Untouched(x)
<1>1. CASE UNCHANGED vars
  BY <1>1 DEF vars, store, writer, Untouched
<1>2. CASE \E y \in Records : WriterStep(y)
  BY <1>2, WriterTakesNothing
<1>3. CASE GcStep \/ DoctorStep
  BY <1>3, KeeperTakesNothing DEF Untouched
<1> QED
  BY <1>1, <1>2, <1>3 DEF Next

(* What a live writer has put down stays where it is whatever gc, doctor and *)
(* the other writers do: its half-published record, the blobs it has stored  *)
(* or found, its temps.                                                      *)
THEOREM PublicationsAreLeftAlone == Spec => InFlightIsSafe
<1> DEFINE Kept == \A x \in Records : pc[x] \notin {"new", "gone", "dead"} /\ pc'[x] = pc[x] =>
                     /\ pc[x] # "drop" => files[x] \subseteq files'[x]
                     /\ (refs[x] \ pending[x]) \cap blobs \subseteq blobs'
                     /\ hand'[x] = hand[x]
<1>1. IInv /\ [Next]_vars => [Kept]_vars
  BY StepTakesNothing DEF Live, Untouched
<1>2. [][Kept]_vars => InFlightIsSafe
  BY PTL DEF InFlightIsSafe
<1> HIDE DEF Kept
<1> QED
  BY <1>1, <1>2, Invariance, PTL DEF Spec

-----------------------------------------------------------------------------
(* The sweep. *)

(* A writer's step is taken while gc is idle, and leaves it so. *)
LEMMA WriterWhileIdle ==
  ASSUME IInv, NEW x \in Records, WriterStep(x)
  PROVE  phase = "idle" /\ UNCHANGED phase
<1>1. Live(x) \/ owner = Nobody
  BY DEF WriterStep, Live, Goto, Enter, Access!Enter, OpenRecord, BeginCapture, ReuseBlob,
         CreateBlobTemp, LinkBlob, DropBlobTemp, PublishManifest, PublishFrontier,
         PublishHeader, StageRecord, PublishRecord, EndApply, DropRecord, DropFails, Abort,
         Leave, Crash
<1>2. UNCHANGED phase
  BY DEF WriterStep, keeper, Enter, OpenRecord, BeginCapture, ReuseBlob, CreateBlobTemp,
         LinkBlob, DropBlobTemp, PublishManifest, PublishFrontier, PublishHeader,
         StageRecord, PublishRecord, EndApply, DropRecord, DropFails, Abort, Leave, Crash
<1> QED
  BY <1>1, <1>2, WriterAlone

(* What a plan that is not refused sets out to delete. *)
Planned(keep, cut, old, filter) ==
    LET dead == (IF "checkpoint" \in filter THEN Expired(keep, cut) ELSE {})
                  \cup (IF "restore" \in filter THEN old ELSE {})
        retained == (Committed \cup Recoveries) \ dead
    IN /\ phase' = "checkpoint"
       /\ doomed'.records = dead
       /\ filter = Kinds => doomed'.blobs = blobs \ Marked(retained)
       /\ whole' = (filter = Kinds)
       /\ condemned' = condemned \cup dead
       /\ UNCHANGED <<access, writer, store>>

LEMMA PlanMade ==
  ASSUME IInv, GcPlan, ~GcLeave
  PROVE  \E keep \in Keeps, cut \in 0 .. Cardinality(Checkpoints),
            old \in SUBSET Recoveries, filter \in {Kinds} \cup {{k} : k \in Kinds} :
           Planned(keep, cut, old, filter)
<1> PICK keep \in Keeps, cut \in 0 .. Cardinality(Checkpoints),
         old \in SUBSET Recoveries, filter \in {Kinds} \cup {{k} : k \in Kinds} :
       LET dead == (IF "checkpoint" \in filter THEN Expired(keep, cut) ELSE {})
                     \cup (IF "restore" \in filter THEN old ELSE {})
           retained == (Committed \cup Recoveries) \ dead
       IN \/ Blocked(retained) /\ GcLeave
          \/ /\ ~Blocked(retained)
             /\ phase' = "checkpoint"
             /\ doomed' = [records |-> dead,
                           blobs |-> IF "blob" \in filter
                                     THEN blobs \ Marked(retained) ELSE {},
                           temps |-> IF "temp" \in filter
                                     THEN {x \in Temps : pc[x] = "dead"} ELSE {}]
             /\ whole' = (filter = Kinds)
             /\ condemned' = condemned \cup dead
             /\ UNCHANGED <<access, writer, store, suspects, removing>>
  BY DEF GcPlan
<1> DEFINE dead == (IF "checkpoint" \in filter THEN Expired(keep, cut) ELSE {})
                     \cup (IF "restore" \in filter THEN old ELSE {})
           retained == (Committed \cup Recoveries) \ dead
<1>1. /\ phase' = "checkpoint"
      /\ doomed'.records = dead
      /\ whole' = (filter = Kinds)
      /\ condemned' = condemned \cup dead
      /\ UNCHANGED <<access, writer, store>>
  OBVIOUS
<1>2. filter = Kinds => doomed'.blobs = blobs \ Marked(retained)
  BY DEF Kinds
<1>3. Planned(keep, cut, old, filter)
  BY <1>1, <1>2 DEF Planned
<1> QED
  BY <1>3

LEMMA PlanProgress ==
  ASSUME IInv, GcPlan
  PROVE  SweepProgress'
<1>1. CASE GcLeave
  BY <1>1 DEF GcLeave, SweepProgress, Kinds
<1>2. CASE ~GcLeave
  <2> PICK keep \in Keeps, cut \in 0 .. Cardinality(Checkpoints),
           old \in SUBSET Recoveries, filter \in {Kinds} \cup {{k} : k \in Kinds} :
         Planned(keep, cut, old, filter)
    BY <1>2, PlanMade
  <2> USE DEF Planned
  <2>1. UNCHANGED <<files, blobs, refs>>
    BY DEF writer, store
  <2>2. (Committed \cup Recoveries)' = Committed \cup Recoveries
    BY <2>1 DEF Committed, Recoveries
  <2>3. whole' => doomed'.blobs = blobs \ Marked((Committed \cup Recoveries) \ doomed'.records)
    OBVIOUS
  <2>4. Marked((Committed \cup Recoveries) \ doomed.records)'
          = Marked((Committed \cup Recoveries) \ doomed'.records)
    BY <2>1, <2>2 DEF Marked
  <2>5. phase' = "checkpoint"
    OBVIOUS
  <2> QED
    BY <2>1, <2>3, <2>4, <2>5 DEF SweepProgress
<1> QED
  BY <1>1, <1>2

(* While gc deletes a record, the records it leaves alone stay what they are. *)
LEMMA RecordDeleted ==
  ASSUME IInv, GcDeleteRecord
  PROVE  /\ UNCHANGED <<phase, whole, blobs, refs>>
         /\ doomed'.records \subseteq doomed.records
         /\ doomed'.blobs = doomed.blobs
         /\ (Committed \cup Recoveries)' \ doomed'.records
              = (Committed \cup Recoveries) \ doomed.records
<1> PICK x \in doomed.records :
      /\ \E f \in files[x] : files' = [files EXCEPT ![x] = @ \ {f}]
      /\ doomed' = IF files'[x] = {} THEN [doomed EXCEPT !.records = @ \ {x}] ELSE doomed
  BY DEF GcDeleteRecord, Candidates, RemoveOne
<1> USE DEF IInv, TypeOK
<1>1. UNCHANGED <<phase, whole, blobs, refs>>
  BY DEF GcDeleteRecord, writer
<1>2. x \in Records /\ \A y \in Records : y # x => files'[y] = files[y]
  OBVIOUS
<1>3. doomed'.blobs = doomed.blobs
      /\ doomed'.records = IF files'[x] = {} THEN doomed.records \ {x} ELSE doomed.records
  OBVIOUS
<1>4. files'[x] = {} => x \notin (Committed \cup Recoveries)'
  BY DEF Committed, Recoveries
<1>5. \A y \in Records : y # x => (y \in (Committed \cup Recoveries)' <=> y \in Committed \cup Recoveries)
  BY <1>2 DEF Committed, Recoveries
<1>6. Committed \cup Recoveries \subseteq Records /\ (Committed \cup Recoveries)' \subseteq Records
  BY DEF Committed, Recoveries
<1> QED
  BY <1>1, <1>2, <1>3, <1>4, <1>5, <1>6

LEMMA GcProgress ==
  ASSUME IInv, SweepProgress, GcStep
  PROVE  SweepProgress'
<1>1. CASE GcBegin
  BY <1>1 DEF GcBegin, SweepProgress, Kinds
<1>2. CASE GcPlan
  BY <1>2, PlanProgress
<1>3. CASE GcDeleteRecord
  BY <1>3, RecordDeleted DEF SweepProgress, Marked
<1>4. CASE GcDeleteBlob
  <2> PICK b \in doomed.blobs :
        /\ blobs' = blobs \ {b}
        /\ doomed' = [doomed EXCEPT !.blobs = @ \ {b}]
    BY <1>4 DEF GcDeleteBlob
  <2>1. UNCHANGED <<phase, whole, files, refs>> /\ phase = "blob"
    BY <1>4 DEF GcDeleteBlob, writer
  <2>2. doomed'.records = doomed.records /\ doomed'.blobs = doomed.blobs \ {b}
    BY DEF IInv, TypeOK
  <2>3. Marked((Committed \cup Recoveries) \ doomed.records)'
          = Marked((Committed \cup Recoveries) \ doomed.records)
    BY <2>1, <2>2 DEF Marked, Committed, Recoveries
  <2> QED
    BY <2>1, <2>2, <2>3 DEF SweepProgress
<1>5. CASE GcDeleteTemp
  <2>1. UNCHANGED <<phase, whole, files, refs, blobs>>
    BY <1>5 DEF GcDeleteTemp, writer
  <2>2. doomed'.records = doomed.records /\ doomed'.blobs = doomed.blobs
    BY <1>5 DEF IInv, TypeOK, GcDeleteTemp
  <2> QED
    BY <2>1, <2>2 DEF SweepProgress, Marked, Committed, Recoveries
<1>6. CASE GcDeleteFails
  <2>1. whole' = FALSE /\ UNCHANGED phase
    BY <1>6 DEF GcDeleteFails
  <2>2. doomed'.records \subseteq doomed.records /\ doomed'.blobs \subseteq doomed.blobs
    <3> USE DEF IInv, TypeOK
    <3>1. CASE \E x \in Candidates : doomed' = [doomed EXCEPT !.records = @ \ {x}]
      BY <3>1
    <3>2. CASE \E b \in doomed.blobs : doomed' = [doomed EXCEPT !.blobs = @ \ {b}]
      BY <3>2
    <3>3. CASE \E x \in doomed.temps : doomed' = [doomed EXCEPT !.temps = @ \ {x}]
      BY <3>3
    <3> QED
      BY <1>6, <3>1, <3>2, <3>3 DEF GcDeleteFails
  <2> QED
    BY <2>1, <2>2 DEF SweepProgress
<1>7. CASE GcNextPhase
  <2>1. UNCHANGED <<doomed, whole, files, refs, blobs>>
    BY <1>7 DEF GcNextPhase, writer, store
  <2>2. doomed.records \subseteq Checkpoints \cup Restores
    BY DEF IInv, TypeOK
  <2>3. UNCHANGED <<Committed, Recoveries>> /\ Marked((Committed \cup Recoveries) \ doomed.records)'
          = Marked((Committed \cup Recoveries) \ doomed.records)
    BY <2>1 DEF Marked, Committed, Recoveries
  <2> QED
    BY <1>7, <2>1, <2>2, <2>3 DEF GcNextPhase, SweepProgress, Candidates, Kinds
<1>8. CASE GcLeave
  BY <1>8 DEF GcLeave, SweepProgress, Kinds
<1> QED
  BY <1>1, <1>2, <1>3, <1>4, <1>5, <1>6, <1>7, <1>8 DEF GcStep, GcEnd, GcCrash

LEMMA SweepStep == IInv /\ SweepProgress /\ [Next]_vars => SweepProgress'
<1> SUFFICES ASSUME IInv, SweepProgress, [Next]_vars PROVE SweepProgress'
  OBVIOUS
<1>1. ASSUME UNCHANGED <<phase, whole, doomed, files, refs, blobs>> PROVE SweepProgress'
  BY <1>1 DEF SweepProgress, Marked, Committed, Recoveries
<1>2. ASSUME phase = "idle", UNCHANGED phase PROVE SweepProgress'
  BY <1>2 DEF SweepProgress, Kinds
<1>3. CASE UNCHANGED vars
  BY <1>1, <1>3 DEF vars, writer, store, keeper
<1>4. ASSUME NEW x \in Records, WriterStep(x) PROVE SweepProgress'
  BY <1>2, <1>4, WriterWhileIdle
<1>5. CASE DoctorBegin \/ DoctorLeave
  BY <1>1, <1>5 DEF DoctorBegin, DoctorLeave, writer, store, keeper
<1>6. ASSUME NEW c \in Checkpoints, Suspect(c) \/ Withdraw(c) \/ RepairFails(c)
      PROVE  SweepProgress'
  BY <1>1, <1>6 DEF Suspect, Withdraw, RepairFails, writer, store
<1>7. ASSUME NEW c \in Checkpoints, RemoveHeaderless(c) PROVE SweepProgress'
  <2>1. phase = "idle" /\ UNCHANGED phase
    BY <1>7, StoreAssumption
    DEF RemoveHeaderless, IInv, Inv, AccessInv
  <2> QED
    BY <1>2, <2>1
<1> QED
  BY <1>3, <1>4, <1>5, <1>6, <1>7, GcProgress
  DEF Next, DoctorStep, DoctorEnd, DoctorCrash

(* A gc that covered every kind and met no failure has left no blob behind   *)
(* that nothing refers to.                                                   *)
THEOREM NothingIsLeftBehind == Spec => []SweepIsComplete
<1>1. Init => SweepProgress
  BY DEF Init, SweepProgress, Kinds
<1>2. SweepProgress /\ IInv => SweepIsComplete
  <2> SUFFICES ASSUME SweepProgress, IInv, phase = "temp", whole
               PROVE  blobs \subseteq Marked(Committed \cup Recoveries)
    BY DEF SweepIsComplete
  <2>1. doomed.records = {} /\ doomed.blobs = {}
    BY DEF SweepProgress
  <2>2. blobs \subseteq doomed.blobs \cup Marked((Committed \cup Recoveries) \ doomed.records)
    BY DEF SweepProgress, Kinds
  <2> QED
    BY <2>1, <2>2
<1>3. Spec => []SweepProgress
  BY <1>1, SweepStep, Invariance, PTL DEF Spec
<1> QED
  BY <1>2, <1>3, Invariance, PTL

-----------------------------------------------------------------------------
(* Retention. *)

(* Of at least K things with an age, at least K have fewer than K that are   *)
(* newer: what keep-last spares is never fewer than it says.                 *)
LEMMA Newest ==
  ASSUME NEW D, NEW age \in [D -> Nat], NEW R \in SUBSET D, IsFiniteSet(R),
         NEW K \in Nat, K <= Cardinality(R)
  PROVE  K <= Cardinality({x \in R : Cardinality({y \in R : age[y] > age[x]}) < K})
<1> DEFINE Newer(x) == {y \in R : age[y] > age[x]}
           T == {x \in R : Cardinality(Newer(x)) < K}
           N == {Cardinality(Newer(x)) : x \in R \ T}
<1>1. \A x \in R : IsFiniteSet(Newer(x)) /\ Cardinality(Newer(x)) \in Nat
  BY FS_Subset, FS_CardinalityType
<1>2. IsFiniteSet(T) /\ Cardinality(T) \in Nat
  BY FS_Subset, FS_CardinalityType
<1>3. SUFFICES ASSUME Cardinality(T) < K PROVE FALSE
  BY <1>2
<1>4. T # R
  <2>1. Cardinality(R) \in Nat
    BY FS_CardinalityType
  <2> HIDE DEF T
  <2> QED
    BY <1>2, <1>3, <2>1
<1>5. N \subseteq Nat /\ N # {}
  BY <1>1, <1>4
<1>6. PICK n \in N : \A m \in N : ~ (m < n)
  <2>1. \E n \in N : \A m \in N : <<m, n>> \notin OpToRel(<, Nat)
    BY <1>5, NatLessThanWellFounded, WFMin
  <2> QED
    BY <1>5, <2>1 DEF OpToRel
<1>7. PICK x \in R \ T : n = Cardinality(Newer(x))
  BY <1>6
<1>8. ASSUME NEW y \in Newer(x), y \notin T PROVE FALSE
  <2>1. Newer(y) \subseteq Newer(x) /\ Newer(y) # Newer(x)
    BY <1>8
  <2>2. Cardinality(Newer(y)) < Cardinality(Newer(x))
    BY <1>1, <1>7, <1>8, <2>1, FS_Subset
  <2>3. Cardinality(Newer(y)) \in N
    BY <1>8
  <2> QED
    BY <1>6, <1>7, <2>2, <2>3
<1>9. Newer(x) \subseteq T
  BY <1>8
<1>10. Cardinality(Newer(x)) <= Cardinality(T)
  BY <1>2, <1>9, FS_Subset
<1>11. Cardinality(Newer(x)) < K
  <2>1. Cardinality(Newer(x)) \in Nat
    BY <1>1
  <2> HIDE DEF T, Newer
  <2> QED
    BY <1>2, <1>3, <1>10, <2>1
<1> QED
  BY <1>7, <1>11

(* The checkpoints no gc has chosen to delete, and how many those must be. *)
Kept == Committed \ condemned

Sparing ==
    condemned \cap Checkpoints # {} =>
        Kept # {} /\ \E keep \in Keeps : keep <= Cardinality(Kept)

LEMMA FewCheckpoints ==
  \A S \in SUBSET Checkpoints : IsFiniteSet(S) /\ Cardinality(S) \in Nat
  BY StoreAssumption, FS_Subset, FS_CardinalityType

(* A writer condemns no checkpoint, and commits one only by its header. *)
LEMMA WriterMarks ==
  ASSUME IInv, NEW x \in Records, WriterStep(x)
  PROVE  /\ condemned' \cap Checkpoints = condemned \cap Checkpoints
         /\ ~PublishHeader(x) => Committed' = Committed
<1> USE StoreAssumption
    DEF IInv, TypeOK, Inv, PublicationInv, Committed, Goto, store, writer
<1>1. CASE Enter(x)
  BY <1>1 DEF Enter
<1>2. CASE OpenRecord(x)
  BY <1>2 DEF OpenRecord
<1>3. CASE BeginCapture(x)
  BY <1>3 DEF BeginCapture
<1>4. CASE ReuseBlob(x)
  BY <1>4 DEF ReuseBlob
<1>5. CASE CreateBlobTemp(x)
  BY <1>5 DEF CreateBlobTemp
<1>6. CASE LinkBlob(x)
  BY <1>6 DEF LinkBlob
<1>7. CASE DropBlobTemp(x)
  BY <1>7 DEF DropBlobTemp
<1>8. CASE PublishManifest(x)
  BY <1>8 DEF PublishManifest
<1>9. CASE PublishFrontier(x)
  BY <1>9 DEF PublishFrontier
<1>10. CASE PublishHeader(x)
  BY <1>10 DEF PublishHeader
<1>11. CASE StageRecord(x)
  BY <1>11 DEF StageRecord
<1>12. CASE PublishRecord(x)
  BY <1>12 DEF PublishRecord
<1>13. CASE EndApply(x)
  BY <1>13 DEF EndApply
<1>14. CASE DropRecord(x)
  BY <1>14 DEF DropRecord, RemoveOne
<1>15. CASE DropFails(x)
  BY <1>15 DEF DropFails
<1>16. CASE Abort(x)
  BY <1>16 DEF Abort
<1>17. CASE Leave(x)
  BY <1>17 DEF Leave
<1>18. CASE Crash(x)
  BY <1>18 DEF Crash
<1> HIDE DEF IInv, TypeOK, Inv, PublicationInv, Committed, Goto, store, writer
<1> QED
  BY <1>1, <1>2, <1>3, <1>4, <1>5, <1>6, <1>7, <1>8, <1>9, <1>10, <1>11, <1>12, <1>13, <1>14, <1>15, <1>16, <1>17, <1>18 DEF WriterStep

(* The header commits a checkpoint that was in neither set. *)
LEMMA HeaderMarks ==
  ASSUME IInv, NEW x \in Records, PublishHeader(x)
  PROVE  /\ x \in Checkpoints
         /\ x \notin Committed \cup condemned
         /\ Committed' = Committed \cup {x}
         /\ UNCHANGED condemned
<1>1. x \in Checkpoints /\ pc[x] = "header" /\ UNCHANGED condemned
  BY DEF PublishHeader, Goto
<1>2. files[x] = {"dir", "manifest", "frontier"} /\ x \notin condemned
  BY <1>1 DEF IInv, Inv, PublicationInv, SweepInv
<1>3. files' = [files EXCEPT ![x] = @ \cup {"header"}]
  BY DEF PublishHeader
<1> QED
  BY <1>1, <1>2, <1>3 DEF Committed, IInv, TypeOK

(* What a keeper does, its plan apart, commits and condemns nothing, and     *)
(* takes no header of a checkpoint that is not condemned.                    *)
LEMMA KeeperMarks ==
  ASSUME IInv, GcStep \/ DoctorStep, ~(GcPlan /\ ~GcLeave)
  PROVE  /\ UNCHANGED <<condemned, born, pc>>
         /\ Committed' \subseteq Committed
         /\ Committed \ condemned \subseteq Committed'
<1>1. ASSUME UNCHANGED files PROVE UNCHANGED Committed
  BY <1>1 DEF Committed
<1>2. CASE GcBegin \/ GcLeave \/ GcDeleteBlob \/ GcDeleteTemp \/ GcDeleteFails \/ GcNextPhase
  BY <1>1, <1>2 DEF GcBegin, GcLeave, GcDeleteBlob, GcDeleteTemp, GcDeleteFails,
                    GcNextPhase, writer, store
<1>3. CASE GcDeleteRecord
  <2> PICK x \in doomed.records : \E f \in files[x] : files' = [files EXCEPT ![x] = @ \ {f}]
    BY <1>3 DEF GcDeleteRecord, Candidates, RemoveOne
  <2>1. UNCHANGED <<condemned, born, pc>>
    BY <1>3 DEF GcDeleteRecord, writer
  <2>2. x \in condemned
    BY DEF IInv, Inv, SweepInv
  <2> QED
    BY <2>1, <2>2 DEF Committed, IInv, TypeOK
<1>4. CASE DoctorBegin \/ DoctorLeave
  BY <1>1, <1>4 DEF DoctorBegin, DoctorLeave, writer, store
<1>5. ASSUME NEW c \in Checkpoints, Suspect(c) \/ Withdraw(c) \/ RepairFails(c)
      PROVE  UNCHANGED <<condemned, born, pc, files>>
  BY <1>5 DEF Suspect, Withdraw, RepairFails, writer, store
<1>6. ASSUME NEW c \in Checkpoints, RemoveHeaderless(c)
      PROVE  UNCHANGED <<condemned, born, pc, Committed>>
  <2>1. UNCHANGED <<condemned, born, pc>>
    BY <1>6 DEF RemoveHeaderless, writer
  <2>2. "header" \notin files[c] /\ \E f \in files[c] : files' = [files EXCEPT ![c] = @ \ {f}]
    BY <1>6 DEF RemoveHeaderless, Headerless, RemoveOne
  <2> QED
    BY <2>1, <2>2 DEF Committed, IInv, TypeOK
<1> QED
  BY <1>1, <1>2, <1>3, <1>4, <1>5, <1>6
  DEF GcStep, GcEnd, GcCrash, DoctorStep, DoctorEnd, DoctorCrash

(* What a plan that is made does to the checkpoints. *)
LEMMA PlanMarks ==
  ASSUME IInv, GcPlan, ~GcLeave
  PROVE  /\ UNCHANGED <<born, pc, Committed>>
         /\ \A x \in Records : pc[x] \in {"new", "gone", "dead"}
         /\ \/ condemned' \cap Checkpoints = condemned \cap Checkpoints
            \/ \E keep \in Keeps, cut \in 0 .. Cardinality(Checkpoints) :
                 condemned' \cap Checkpoints = (condemned \cap Checkpoints) \cup Expired(keep, cut)
<1> PICK keep \in Keeps, cut \in 0 .. Cardinality(Checkpoints),
         old \in SUBSET Recoveries, filter \in {Kinds} \cup {{k} : k \in Kinds} :
       Planned(keep, cut, old, filter)
  BY PlanMade
<1> USE DEF Planned
<1>1. UNCHANGED <<born, pc, Committed>>
  BY DEF writer, store, Committed
<1>2. \A x \in Records : pc[x] \in {"new", "gone", "dead"}
  <2>1. owner # Nobody
    BY StoreAssumption DEF GcPlan, IInv, Inv, AccessInv
  <2> QED
    BY <2>1, KeeperAlone
<1>3. Expired(keep, cut) \subseteq Checkpoints /\ old \cap Checkpoints = {}
  BY StoreAssumption DEF Expired, Committed, Recoveries
<1>4. CASE "checkpoint" \in filter
  <2>1. condemned' \cap Checkpoints = (condemned \cap Checkpoints) \cup Expired(keep, cut)
    BY <1>3, <1>4
  <2> QED
    BY <1>1, <1>2, <2>1
<1>5. CASE "checkpoint" \notin filter
  <2>1. condemned' \cap Checkpoints = condemned \cap Checkpoints
    BY <1>3, <1>5
  <2> QED
    BY <1>1, <1>2, <2>1
<1> QED
  BY <1>4, <1>5

(* The ages of the checkpoints on their way to a header, or past it. *)
Placed(d) == d \in Committed \/ pc[d] \in {"stream", "link", "unlink", "frontier", "header"}

LEMMA WriterAges ==
  ASSUME IInv, NEW x \in Records, WriterStep(x), ~OpenRecord(x)
  PROVE  /\ UNCHANGED born
         /\ \A c \in Checkpoints : pc'[c] \in {"new", "start"} => pc[c] \in {"new", "start"}
         /\ \A d \in Checkpoints :
              pc'[d] \in {"stream", "link", "unlink", "frontier", "header"}
                => pc[d] \in {"stream", "link", "unlink", "frontier", "header"}
<1> USE StoreAssumption DEF IInv, TypeOK, Goto, writer
<1>1. CASE Enter(x)
  BY <1>1 DEF Enter
<1>3. CASE BeginCapture(x)
  BY <1>3 DEF BeginCapture
<1>4. CASE ReuseBlob(x)
  BY <1>4 DEF ReuseBlob
<1>5. CASE CreateBlobTemp(x)
  BY <1>5 DEF CreateBlobTemp
<1>6. CASE LinkBlob(x)
  BY <1>6 DEF LinkBlob
<1>7. CASE DropBlobTemp(x)
  BY <1>7 DEF DropBlobTemp
<1>8. CASE PublishManifest(x)
  BY <1>8 DEF PublishManifest
<1>9. CASE PublishFrontier(x)
  BY <1>9 DEF PublishFrontier
<1>10. CASE PublishHeader(x)
  BY <1>10 DEF PublishHeader
<1>11. CASE StageRecord(x)
  BY <1>11 DEF StageRecord
<1>12. CASE PublishRecord(x)
  BY <1>12 DEF PublishRecord
<1>13. CASE EndApply(x)
  BY <1>13 DEF EndApply
<1>14. CASE DropRecord(x)
  BY <1>14 DEF DropRecord
<1>15. CASE DropFails(x)
  BY <1>15 DEF DropFails
<1>16. CASE Abort(x)
  BY <1>16 DEF Abort
<1>17. CASE Leave(x)
  BY <1>17 DEF Leave
<1>18. CASE Crash(x)
  BY <1>18 DEF Crash
<1> HIDE DEF IInv, TypeOK, Goto, writer
<1> QED
  BY <1>1, <1>3, <1>4, <1>5, <1>6, <1>7, <1>8, <1>9, <1>10, <1>11, <1>12, <1>13, <1>14, <1>15, <1>16, <1>17, <1>18 DEF WriterStep

(* A checkpoint takes its place after all that have one. *)
LEMMA OpenAges ==
  ASSUME IInv, AgeInv, NEW x \in Records, OpenRecord(x)
  PROVE  AgeInv'
<1> DEFINE Named == {d \in Checkpoints : born[d] # 0}
<1>1. /\ x \in Checkpoints /\ pc[x] = "start"
      /\ pc' = [pc EXCEPT ![x] = "stream"]
      /\ born' = [born EXCEPT ![x] = 1 + Cardinality(Named)]
      /\ UNCHANGED condemned
  BY DEF OpenRecord, Goto
<1>2. IsFiniteSet(Named) /\ Cardinality(Named) \in Nat
  BY FewCheckpoints
<1>3. born[x] = 0 /\ x \notin condemned /\ x \notin Named
  BY <1>1 DEF AgeInv, IInv, Inv, SweepInv
<1>4. {d \in Checkpoints : born'[d] # 0} = Named \cup {x}
  <2>1. 1 + Cardinality(Named) # 0
    BY <1>2
  <2> HIDE DEF Named
  <2>2. \A d \in Checkpoints : born'[d] = IF d = x THEN 1 + Cardinality(Named) ELSE born[d]
    BY <1>1 DEF IInv, TypeOK
  <2>3. Named \subseteq Checkpoints /\ \A d \in Checkpoints : d \in Named <=> born[d] # 0
    BY DEF Named
  <2> QED
    BY <1>1, <2>1, <2>2, <2>3
<1>5. Cardinality({d \in Checkpoints : born'[d] # 0}) = Cardinality(Named) + 1
  BY <1>2, <1>3, <1>4, FS_AddElement
<1>6. \A d \in Checkpoints : born[d] <= Cardinality(Named) /\ born[d] \in Nat
  BY DEF AgeInv, IInv, TypeOK
<1> HIDE DEF Named
<1>7. \A d \in Checkpoints : born'[d] = IF d = x THEN 1 + Cardinality(Named) ELSE born[d]
  BY <1>1 DEF IInv, TypeOK
<1>8. \A d \in Checkpoints : born'[d] <= Cardinality(Named) + 1
  BY <1>2, <1>6, <1>7
<1>9. \A c \in Checkpoints : pc'[c] \in {"new", "start"} => born'[c] = 0
  BY <1>1, <1>7 DEF AgeInv, IInv, TypeOK
<1>10. Committed' = Committed
  BY WriterMarks DEF WriterStep, PublishHeader, OpenRecord, Goto
<1>11. ASSUME NEW c \in condemned \cap Checkpoints, NEW d \in Checkpoints \ condemned,
              Placed(d)'
       PROVE  born'[c] < born'[d]
  <2>1. born'[c] = born[c] /\ born[c] <= Cardinality(Named) /\ born[c] \in Nat
    BY <1>3, <1>6, <1>7
  <2>2. CASE d = x
    BY <1>2, <1>7, <2>1, <2>2
  <2>3. CASE d # x
    <3>1. Placed(d)
      BY <1>1, <1>10, <1>11, <2>3 DEF Placed, IInv, TypeOK
    <3>2. born[c] < born[d]
      BY <3>1 DEF AgeInv, Placed
    <3> QED
      BY <1>7, <2>1, <2>3, <3>2
  <2> QED
    BY <2>2, <2>3
<1> QED
  BY <1>1, <1>5, <1>8, <1>9, <1>11 DEF AgeInv, Placed

(* Whatever the plan condemns is older than what it spares. *)
LEMMA PlanAges ==
  ASSUME IInv, AgeInv, GcPlan, ~GcLeave
  PROVE  AgeInv'
<1>1. /\ UNCHANGED <<born, pc, Committed>>
      /\ \A x \in Records : pc[x] \in {"new", "gone", "dead"}
  BY PlanMarks
<1>2. ASSUME NEW c \in condemned' \cap Checkpoints, NEW d \in Checkpoints \ condemned', Placed(d)
      PROVE  born[c] < born[d]
  <2>1. d \in Committed
    BY <1>1, <1>2 DEF Placed
  <2>2. CASE c \in condemned /\ d \notin condemned
    BY <1>2, <2>2 DEF AgeInv, Placed
  <2>3. CASE ~ (c \in condemned /\ d \notin condemned)
    <3>1. condemned \subseteq condemned'
      BY PlanMade DEF Planned
    <3>2. PICK keep \in Keeps, cut \in 0 .. Cardinality(Checkpoints) :
            condemned' \cap Checkpoints = (condemned \cap Checkpoints) \cup Expired(keep, cut)
      BY <2>3, <3>1, PlanMarks
    <3>3. c \in Expired(keep, cut) /\ d \notin Expired(keep, cut)
      BY <2>3, <3>1, <3>2
    <3> DEFINE NewerThan(e) == {y \in Committed : born[y] > born[e]}
    <3>4. /\ Cardinality(NewerThan(c)) \in Nat
          /\ Cardinality(NewerThan(d)) \in Nat
          /\ IsFiniteSet(NewerThan(d))
      BY FewCheckpoints DEF Committed
    <3>5. born \in [Checkpoints -> Nat] /\ Committed \subseteq Checkpoints
      BY DEF IInv, TypeOK, Committed
    <3>6. ASSUME ~ (born[c] < born[d]) PROVE FALSE
      <4>1. NewerThan(c) \subseteq NewerThan(d)
        BY <3>5, <3>6
      <4>2. Cardinality(NewerThan(c)) <= Cardinality(NewerThan(d))
        BY <3>4, <4>1, FS_Subset
      <4>3. Rank(c) \in Nat /\ Rank(d) \in Nat /\ Rank(c) <= Rank(d)
        BY <3>4, <4>2 DEF Rank
      <4>4. keep \in Nat /\ cut \in Nat
        BY StoreAssumption, FewCheckpoints
      <4>5. Rank(c) > 0 /\ Rank(c) >= keep /\ Rank(c) >= cut
        BY <3>3 DEF Expired
      <4>6. Rank(d) > 0 /\ Rank(d) >= keep /\ Rank(d) >= cut
        BY <4>3, <4>4, <4>5
      <4> QED
        BY <2>1, <3>3, <4>6 DEF Expired
    <3> QED
      BY <3>6
  <2> QED
    BY <2>2, <2>3
<1> QED
  BY <1>1, <1>2 DEF AgeInv, Placed

LEMMA AgeStep == IInv /\ AgeInv /\ [Next]_vars => AgeInv'
<1> SUFFICES ASSUME IInv, AgeInv, [Next]_vars PROVE AgeInv'
  OBVIOUS
<1>1. CASE UNCHANGED vars
  BY <1>1 DEF vars, writer, store, AgeInv, Committed
<1>2. ASSUME NEW x \in Records, WriterStep(x), ~OpenRecord(x)
      PROVE  AgeInv'
  <2>1. UNCHANGED born
    BY <1>2, WriterAges
  <2>2. ASSUME NEW d \in Checkpoints \ condemned', Placed(d)'
        PROVE  Placed(d)
    <3>1. CASE PublishHeader(x)
      <4>1. Committed' = Committed \cup {x} /\ pc[x] = "header"
        BY <3>1, HeaderMarks DEF PublishHeader, Goto
      <4> QED
        BY <1>2, <2>2, <4>1, WriterAges DEF Placed
    <3>2. CASE ~PublishHeader(x)
      BY <1>2, <2>2, <3>2, WriterAges, WriterMarks DEF Placed
    <3> QED
      BY <3>1, <3>2
  <2>3. condemned' \cap Checkpoints = condemned \cap Checkpoints
    BY <1>2, WriterMarks
  <2>4. \A c \in Checkpoints : pc'[c] \in {"new", "start"} => born[c] = 0
    BY <1>2, WriterAges DEF AgeInv
  <2>5. \A c \in condemned' \cap Checkpoints, d \in Checkpoints \ condemned' :
          Placed(d)' => born[c] < born[d]
    BY <2>2, <2>3 DEF AgeInv, Placed
  <2> QED
    BY <2>1, <2>4, <2>5 DEF AgeInv, Placed
<1>3. ASSUME NEW x \in Records, OpenRecord(x) PROVE AgeInv'
  BY <1>3, OpenAges
<1>4. CASE GcPlan /\ ~GcLeave
  BY <1>4, PlanAges
<1>5. CASE (GcStep \/ DoctorStep) /\ ~(GcPlan /\ ~GcLeave)
  BY <1>5, KeeperMarks DEF AgeInv
<1> QED
  BY <1>1, <1>2, <1>3, <1>4, <1>5 DEF Next

(* A header adds to what is kept. *)
LEMMA SparingHeader ==
  ASSUME IInv, Sparing, NEW x \in Records, PublishHeader(x)
  PROVE  Sparing'
<1>1. Kept' = Kept \cup {x} /\ UNCHANGED condemned
  BY HeaderMarks DEF Kept
<1>2. IsFiniteSet(Kept') /\ Cardinality(Kept) \in Nat /\ Cardinality(Kept') \in Nat
  BY FewCheckpoints DEF Kept, Committed
<1>3. Cardinality(Kept) <= Cardinality(Kept')
  BY <1>1, <1>2, FS_Subset
<1>4. ASSUME NEW keep \in Keeps, keep <= Cardinality(Kept)
      PROVE  keep <= Cardinality(Kept')
  BY <1>2, <1>3, <1>4, StoreAssumption
<1> QED
  BY <1>1, <1>4 DEF Sparing

(* A plan that condemns something kept so far has seen as many newer ones as *)
(* its keep-last says, and one; and of these it spares the newest.           *)
LEMMA SparingPlan ==
  ASSUME IInv, AgeInv, Sparing, GcPlan, ~GcLeave
  PROVE  Sparing'
<1>1. Committed' = Committed /\ Committed \subseteq Checkpoints /\ UNCHANGED born
  BY PlanMarks DEF Committed
<1>2. CASE condemned' \cap Checkpoints = condemned \cap Checkpoints
  <2>1. Kept' = Kept
    BY <1>1, <1>2 DEF Kept
  <2> QED
    BY <1>2, <2>1 DEF Sparing
<1>3. ASSUME NEW least \in Keeps, NEW cut \in 0 .. Cardinality(Checkpoints),
             condemned' \cap Checkpoints = (condemned \cap Checkpoints) \cup Expired(least, cut),
             NEW c \in Expired(least, cut) \ condemned
      PROVE  Sparing'
  <2> DEFINE Among(x) == {y \in Kept : born[y] > born[x]}
             K == IF least > 1 THEN least ELSE 1
             Spared == {x \in Kept : Cardinality(Among(x)) < K}
  <2>1. Kept' = Kept \ Expired(least, cut)
    BY <1>1, <1>3 DEF Kept
  <2>2. born \in [Checkpoints -> Nat] /\ Kept \in SUBSET Checkpoints /\ IsFiniteSet(Kept)
        /\ Cardinality(Kept) \in Nat
    BY <1>1, FewCheckpoints DEF IInv, TypeOK, Kept
  <2>3. K \in Nat /\ least \in Nat /\ least <= K /\ 1 <= K
    BY StoreAssumption
  <2>4. ASSUME NEW x \in Kept PROVE Rank(x) = Cardinality(Among(x)) /\ Rank(x) \in Nat
    <3>1. \A y \in Committed : born[y] > born[x] => y \notin condemned
      BY <1>1, <2>2 DEF AgeInv, Kept
    <3>2. Among(x) = {y \in Committed : born[y] > born[x]}
      BY <3>1 DEF Kept
    <3> QED
      BY <1>1, <3>2, FewCheckpoints DEF Rank
  <2>5. K <= Cardinality(Kept)
    <3>1. c \in Kept /\ Rank(c) \in Nat /\ Rank(c) > 0 /\ Rank(c) >= least
      BY <1>3, <2>4 DEF Expired, Kept
    <3>3. K <= Rank(c)
      BY <2>3, <3>1
    <3>2. Cardinality(Among(c)) <= Cardinality(Kept)
      BY <2>2, FS_Subset
    <3> QED
      BY <2>2, <2>3, <2>4, <3>1, <3>2, <3>3
  <2>6. K <= Cardinality(Spared)
    <3> HIDE DEF K
    <3> QED
      BY <2>2, <2>3, <2>5, Newest
  <2>7. ASSUME NEW x \in Spared PROVE x \notin Expired(least, cut)
    <3>1. Rank(x) < K /\ Rank(x) \in Nat
      BY <2>4
    <3> QED
      BY <2>3, <3>1 DEF Expired
  <2>8. Spared \subseteq Kept' /\ IsFiniteSet(Kept')
    BY <2>1, <2>2, <2>7, FewCheckpoints
  <2>9. Cardinality(Spared) <= Cardinality(Kept') /\ Cardinality(Spared) \in Nat
        /\ Cardinality(Kept') \in Nat
    BY <2>8, FS_Subset, FS_CardinalityType
  <2> HIDE DEF Spared, K
  <2>10. least <= Cardinality(Kept') /\ 1 <= Cardinality(Kept')
    BY <2>3, <2>6, <2>9
  <2>11. Kept' # {}
    BY <2>10, FS_EmptySet
  <2> QED
    BY <1>3, <2>10, <2>11 DEF Sparing
<1>4. ASSUME NEW least \in Keeps, NEW cut \in 0 .. Cardinality(Checkpoints),
             condemned' \cap Checkpoints = (condemned \cap Checkpoints) \cup Expired(least, cut),
             Expired(least, cut) \subseteq condemned
      PROVE  condemned' \cap Checkpoints = condemned \cap Checkpoints
  BY <1>1, <1>4 DEF Expired
<1> QED
  BY <1>2, <1>3, <1>4, PlanMarks

LEMMA SparingStep == IInv /\ AgeInv /\ Sparing /\ [Next]_vars => Sparing'
<1> SUFFICES ASSUME IInv, AgeInv, Sparing, [Next]_vars PROVE Sparing'
  OBVIOUS
<1>1. ASSUME condemned' \cap Checkpoints = condemned \cap Checkpoints, Kept' = Kept
      PROVE  Sparing'
  BY <1>1 DEF Sparing
<1>2. Committed \subseteq Checkpoints /\ Committed' \subseteq Checkpoints
  BY DEF Committed
<1>3. CASE UNCHANGED vars
  BY <1>1, <1>3 DEF vars, store, Kept, Committed
<1>4. ASSUME NEW x \in Records, WriterStep(x), ~PublishHeader(x)
      PROVE  Sparing'
  BY <1>1, <1>2, <1>4, WriterMarks DEF Kept
<1>5. ASSUME NEW x \in Records, PublishHeader(x) PROVE Sparing'
  BY <1>5, SparingHeader
<1>6. CASE GcPlan /\ ~GcLeave
  BY <1>6, SparingPlan
<1>7. CASE (GcStep \/ DoctorStep) /\ ~(GcPlan /\ ~GcLeave)
  BY <1>1, <1>2, <1>7, KeeperMarks DEF Kept
<1> QED
  BY <1>3, <1>4, <1>5, <1>6, <1>7 DEF Next

(* However many times gc runs, with whatever keep-last, is interrupted or    *)
(* fails: nothing it deletes was taken after a checkpoint it spares, and it  *)
(* spares one at the least, and as many as the smallest keep-last it got.    *)
THEOREM NewestSurvive == Spec => []RetentionFloor
<1>1. Init => AgeInv
  <2> SUFFICES ASSUME Init PROVE AgeInv
    OBVIOUS
  <2>1. Cardinality({d \in Checkpoints : born[d] # 0}) \in Nat
    BY FewCheckpoints
  <2>2. \A c \in Checkpoints : born[c] = 0
    BY DEF Init
  <2> QED
    BY <2>1, <2>2 DEF Init, AgeInv
<1>2. Init => Sparing
  BY DEF Init, Sparing
<1>3. AgeInv /\ Sparing => RetentionFloor
  <2> SUFFICES ASSUME AgeInv, Sparing PROVE RetentionFloor
    OBVIOUS
  <2>1. \A c \in condemned \cap Checkpoints, d \in Kept : born[c] < born[d]
    BY DEF AgeInv, Kept, Committed
  <2> QED
    BY <2>1 DEF Sparing, RetentionFloor, Kept
<1> QED
  BY <1>1, <1>2, <1>3, AgeStep, SparingStep, Invariance, PTL DEF Spec

-----------------------------------------------------------------------------
(* Part two: the capacity audit. *)

LEMMA Smallest == ASSUME NEW T \in SUBSET Nat, T # {} PROVE \E m \in T : \A k \in T : m <= k
<1> DEFINE R == OpToRel(<, Nat)
<1>1. R = {ss \in Nat \X Nat : ss[1] < ss[2]}
  BY DEF OpToRel
<1>2. IsWellFoundedOn(R, Nat)
  BY NatLessThanWellFounded
<1> HIDE DEF R
<1>3. PICK m \in T : \A y \in T : ~(<<y, m>> \in R)
  BY <1>2, WFMin, Zenon
<1>4. \A x, y \in Nat : y < x => <<y, x>> \in R
  BY <1>1
<1>5. ASSUME NEW k \in T PROVE m <= k
  <2>1. m \in Nat /\ k \in Nat /\ ~(k < m)
    BY <1>3, <1>4
  <2> QED
    BY <2>1
<1> QED
  BY <1>3, <1>5

(* A set of sets that holds a subset of S whenever it holds the subset less  *)
(* any one of its elements holds every subset of S.                          *)
LEMMA EverySubset ==
    ASSUME NEW S, IsFiniteSet(S), NEW T,
           \A s \in SUBSET S : (\A x \in s : s \ {x} \in T) => s \in T
    PROVE  SUBSET S \subseteq T
<1> SUFFICES ASSUME NEW s0 \in SUBSET S, s0 \notin T PROVE FALSE
  OBVIOUS
<1> DEFINE U == {Cardinality(s) : s \in (SUBSET S) \ T}
<1>1. \A s \in SUBSET S : IsFiniteSet(s) /\ Cardinality(s) \in Nat
  BY FS_Subset, FS_CardinalityType
<1>2. U \in SUBSET Nat /\ U # {}
  BY <1>1
<1>3. PICK m \in U : \A k \in U : m <= k
  <2> HIDE DEF U
  <2> QED
    BY <1>2, Smallest
<1>4. PICK s \in (SUBSET S) \ T : m = Cardinality(s)
  OBVIOUS
<1>5. PICK x \in s : s \ {x} \notin T
  BY <1>4
<1>6. s \ {x} \in (SUBSET S) \ T /\ Cardinality(s \ {x}) = Cardinality(s) - 1
  BY <1>1, <1>4, <1>5, FS_RemoveElement
<1>7. Cardinality(s \ {x}) \in U
  BY <1>6
<1>8. m <= Cardinality(s \ {x}) /\ m \in Nat
  BY <1>2, <1>3, <1>7
<1> QED
  BY <1>4, <1>6, <1>8

-----------------------------------------------------------------------------
(* Sums.                                                                     *)
AnyOf(s) == CHOOSE x \in s : TRUE
SumOf(f, g, s) == IF s = {} THEN 0 ELSE f[AnyOf(s)] + g[s \ {AnyOf(s)}]
Sums(f, S) == CHOOSE g : g = [s \in SUBSET S |-> SumOf(f, g, s)]

LEMMA SumIs == ASSUME NEW f, NEW S PROVE SumFunctionOnSet(f, S) = Sums(f, S)[S]
  BY Zenon DEF SumFunctionOnSet, FoldFunctionOnSet, MapThenFoldSet, Sums, SumOf, AnyOf

LEMMA AnyIs == ASSUME NEW s, s # {} PROVE AnyOf(s) \in s
  BY DEF AnyOf

(* The sums over at most n elements can be formed. *)
SumsTo(f, S, n, g) ==
    /\ g \in [SUBSET S -> Nat]
    /\ \A s \in SUBSET S : Cardinality(s) <= n => g[s] = SumOf(f, g, s)

LEMMA SumsOneMore ==
    ASSUME NEW S, IsFiniteSet(S), NEW f, \A x \in S : f[x] \in Nat, NEW n \in Nat,
           \E g : SumsTo(f, S, n, g)
    PROVE  \E g : SumsTo(f, S, n + 1, g)
<1>1. PICK g : SumsTo(f, S, n, g)
  OBVIOUS
<1> DEFINE h == [s \in SUBSET S |-> SumOf(f, g, s)]
<1>2. \A s \in SUBSET S : IsFiniteSet(s) /\ Cardinality(s) \in Nat
  BY FS_Subset, FS_CardinalityType
<1>3. ASSUME NEW s \in SUBSET S PROVE SumOf(f, g, s) \in Nat
  <2>1. CASE s = {}
    BY <2>1 DEF SumOf
  <2>2. CASE s # {}
    <3>1. AnyOf(s) \in S /\ s \ {AnyOf(s)} \in SUBSET S
      BY <2>2, AnyIs
    <3>2. f[AnyOf(s)] \in Nat /\ g[s \ {AnyOf(s)}] \in Nat
      BY <1>1, <3>1 DEF SumsTo
    <3> QED
      BY <2>2, <3>2 DEF SumOf
  <2> QED
    BY <2>1, <2>2
<1>4. h \in [SUBSET S -> Nat]
  BY <1>3
<1>5. ASSUME NEW s \in SUBSET S, Cardinality(s) <= n + 1 PROVE h[s] = SumOf(f, h, s)
  <2>1. CASE s = {}
    BY <2>1 DEF SumOf
  <2>2. CASE s # {}
    <3> DEFINE r == s \ {AnyOf(s)}
    <3>1. r \in SUBSET S /\ Cardinality(r) <= n
      BY <1>2, <1>5, <2>2, AnyIs, FS_RemoveElement
    <3>2. h[r] = g[r]
      <4>1. g[r] = SumOf(f, g, r)
        BY <1>1, <3>1 DEF SumsTo
      <4> QED
        BY <3>1, <4>1
    <3>3. h[s] = SumOf(f, g, s)
      OBVIOUS
    <3> HIDE DEF h
    <3> QED
      BY <2>2, <3>2, <3>3 DEF SumOf
  <2> QED
    BY <2>1, <2>2
<1> HIDE DEF h
<1>6. SumsTo(f, S, n + 1, h)
  BY <1>4, <1>5 DEF SumsTo
<1> QED
  BY <1>6

LEMMA SumsAre ==
    ASSUME NEW S, IsFiniteSet(S), NEW f, \A x \in S : f[x] \in Nat
    PROVE  /\ Sums(f, S) \in [SUBSET S -> Nat]
           /\ \A s \in SUBSET S : Sums(f, S)[s] = SumOf(f, Sums(f, S), s)
<1> DEFINE T == {n \in Nat : \E g : SumsTo(f, S, n, g)}
<1>1. \E g : SumsTo(f, S, 0, g)
  <2> DEFINE g == [s \in SUBSET S |-> 0]
  <2>1. ASSUME NEW s \in SUBSET S, Cardinality(s) <= 0 PROVE s = {}
    BY <2>1, FS_Subset, FS_EmptySet, FS_CardinalityType
  <2>2. SumsTo(f, S, 0, g)
    BY <2>1 DEF SumsTo, SumOf
  <2> QED
    BY <2>2
<1>2. \A n \in Nat : \E g : SumsTo(f, S, n, g)
  <2> DEFINE U == {n \in Nat : ~\E g : SumsTo(f, S, n, g)}
  <2> SUFFICES ASSUME U # {} PROVE FALSE
    OBVIOUS
  <2>1. U \in SUBSET Nat
    OBVIOUS
  <2>2. PICK m \in U : \A k \in U : m <= k
    <3> HIDE DEF U
    <3> QED
      BY <2>1, Smallest
  <2>3. m \in Nat /\ m # 0 /\ m - 1 \in Nat /\ ~(m <= m - 1) /\ (m - 1) + 1 = m
    BY <1>1, <2>2
  <2>4. \E g : SumsTo(f, S, m - 1, g)
    BY <2>2, <2>3
  <2>5. \E g : SumsTo(f, S, (m - 1) + 1, g)
    BY <2>3, <2>4, SumsOneMore
  <2> QED
    BY <2>2, <2>3, <2>5
<1>3. Cardinality(S) \in Nat /\ \A s \in SUBSET S : Cardinality(s) <= Cardinality(S)
  BY FS_Subset, FS_CardinalityType
<1>4. PICK g : SumsTo(f, S, Cardinality(S), g)
  BY <1>2, <1>3
<1>5. g \in [SUBSET S -> Nat] /\ \A s \in SUBSET S : g[s] = SumOf(f, g, s)
  BY <1>3, <1>4 DEF SumsTo
<1>6. g = [s \in SUBSET S |-> SumOf(f, g, s)]
  BY <1>5
<1>7. Sums(f, S) = [s \in SUBSET S |-> SumOf(f, Sums(f, S), s)]
  BY <1>6, Zenon DEF Sums
<1>8. ASSUME NEW h, h = [s \in SUBSET S |-> SumOf(f, h, s)] PROVE h = g
  <2> DEFINE E == {s \in SUBSET S : h[s] = g[s]}
  <2>1. ASSUME NEW s \in SUBSET S, \A x \in s : s \ {x} \in E PROVE s \in E
    <3>1. h[s] = SumOf(f, h, s) /\ g[s] = SumOf(f, g, s)
      BY <1>8, <1>5, Zenon
    <3>2. CASE s = {}
      BY <3>1, <3>2 DEF SumOf
    <3>3. CASE s # {}
      <4>1. s \ {AnyOf(s)} \in E
        BY <2>1, <3>3, AnyIs
      <4> QED
        BY <3>1, <3>3, <4>1 DEF SumOf
    <3> QED
      BY <3>2, <3>3
  <2>2. SUBSET S \subseteq E
    <3> HIDE DEF E
    <3> QED
      BY <2>1, EverySubset
  <2>3. \A s \in SUBSET S : h[s] = g[s]
    BY <2>2
  <2>4. h = [s \in SUBSET S |-> h[s]] /\ g = [s \in SUBSET S |-> g[s]]
    BY <1>8, <1>5, Zenon
  <2> QED
    BY <2>3, <2>4, Zenon
<1>9. Sums(f, S) = g
  BY <1>7, <1>8
<1> QED
  BY <1>5, <1>9

(* The order in which the elements are added does not matter. *)
LEMMA SumsInAnyOrder ==
    ASSUME NEW S, IsFiniteSet(S), NEW f, \A x \in S : f[x] \in Nat
    PROVE  \A s \in SUBSET S : \A x \in s : Sums(f, S)[s] = f[x] + Sums(f, S)[s \ {x}]
<1> DEFINE g == Sums(f, S)
           E == {s \in SUBSET S : \A x \in s : g[s] = f[x] + g[s \ {x}]}
<1>1. g \in [SUBSET S -> Nat] /\ \A s \in SUBSET S : g[s] = SumOf(f, g, s)
  BY SumsAre
<1> HIDE DEF g
<1>2. ASSUME NEW s \in SUBSET S, \A x \in s : s \ {x} \in E, NEW x \in s
      PROVE  g[s] = f[x] + g[s \ {x}]
  <2> DEFINE c == AnyOf(s)
  <2>1. c \in s /\ g[s] = f[c] + g[s \ {c}]
    BY <1>1, AnyIs DEF SumOf
  <2> HIDE DEF c
  <2>2. CASE x = c
    BY <2>1, <2>2
  <2>3. CASE x # c
    <3>1. x \in s \ {c} /\ c \in s \ {x} /\ (s \ {c}) \ {x} = (s \ {x}) \ {c}
      BY <2>1, <2>3
    <3> DEFINE r == (s \ {c}) \ {x}
    <3>2. g[s \ {c}] = f[x] + g[r]
      BY <1>2, <2>1, <3>1
    <3>3. g[s \ {x}] = f[c] + g[r]
      <4>1. g[s \ {x}] = f[c] + g[(s \ {x}) \ {c}]
        BY <1>2, <3>1
      <4> QED
        BY <3>1, <4>1, Zenon
    <3>4. f[x] \in Nat /\ f[c] \in Nat /\ g[r] \in Nat
      BY <1>1, <2>1
    <3> HIDE DEF r
    <3> QED
      BY <2>1, <3>2, <3>3, <3>4
  <2> QED
    BY <2>2, <2>3
<1>3. \A s \in SUBSET S : (\A x \in s : s \ {x} \in E) => s \in E
  BY <1>2
<1>4. SUBSET S \subseteq E
  <2> HIDE DEF E
  <2> QED
    BY <1>3, EverySubset
<1> QED
  BY <1>4 DEF g

(* A sum depends on the figures it adds, and on nothing else. *)
LEMMA SumsAgree ==
    ASSUME NEW S, IsFiniteSet(S), NEW f, \A x \in S : f[x] \in Nat,
           NEW R \in SUBSET S, NEW h, \A x \in R : h[x] = f[x]
    PROVE  SumFunctionOnSet(h, R) = Sums(f, S)[R]
<1> DEFINE g == Sums(f, S)
           k == Sums(h, R)
           E == {s \in SUBSET R : k[s] = g[s]}
<1>1. \A s \in SUBSET S : g[s] = SumOf(f, g, s)
  BY SumsAre
<1>2. \A s \in SUBSET R : k[s] = SumOf(h, k, s)
  <2>1. IsFiniteSet(R) /\ \A x \in R : h[x] \in Nat
    BY FS_Subset
  <2> QED
    BY <2>1, SumsAre
<1> HIDE DEF g, k
<1>3. ASSUME NEW s \in SUBSET R, \A x \in s : s \ {x} \in E PROVE s \in E
  <2>1. k[s] = SumOf(h, k, s) /\ g[s] = SumOf(f, g, s)
    BY <1>1, <1>2
  <2>2. CASE s = {}
    BY <2>1, <2>2 DEF SumOf
  <2>3. CASE s # {}
    <3>1. AnyOf(s) \in s /\ s \ {AnyOf(s)} \in E
      BY <1>3, <2>3, AnyIs
    <3>2. h[AnyOf(s)] = f[AnyOf(s)] /\ k[s \ {AnyOf(s)}] = g[s \ {AnyOf(s)}]
      BY <3>1
    <3> QED
      BY <2>1, <2>3, <3>2 DEF SumOf
  <2> QED
    BY <2>2, <2>3
<1>4. SUBSET R \subseteq E
  <2>1. IsFiniteSet(R)
    BY FS_Subset
  <2> HIDE DEF E
  <2> QED
    BY <1>3, <2>1, EverySubset
<1>5. k[R] = g[R]
  BY <1>4
<1> QED
  BY <1>5, SumIs DEF g, k

Summable(f, S) == IsFiniteSet(S) /\ \A x \in S : f[x] \in Nat

LEMMA SumSame ==
    ASSUME NEW S, NEW f, Summable(f, S), NEW h, \A x \in S : h[x] = f[x]
    PROVE  SumFunctionOnSet(h, S) = SumFunctionOnSet(f, S)
<1>1. SumFunctionOnSet(h, S) = Sums(f, S)[S]
  BY SumsAgree DEF Summable
<1> QED
  BY <1>1, SumIs

LEMMA SumType ==
    ASSUME NEW S, NEW f, Summable(f, S)
    PROVE  SumFunctionOnSet(f, S) \in Nat /\ (S = {} => SumFunctionOnSet(f, S) = 0)
<1>1. /\ Sums(f, S) \in [SUBSET S -> Nat]
      /\ \A s \in SUBSET S : Sums(f, S)[s] = SumOf(f, Sums(f, S), s)
  BY SumsAre DEF Summable
<1>2. S \in SUBSET S
  OBVIOUS
<1>3. Sums(f, S)[S] \in Nat /\ (S = {} => Sums(f, S)[S] = 0)
  BY <1>1, <1>2 DEF SumOf
<1> QED
  BY <1>3, SumIs

LEMMA SumTakes ==
    ASSUME NEW S, NEW f, Summable(f, S), NEW x \in S
    PROVE  SumFunctionOnSet(f, S) = f[x] + SumFunctionOnSet(f, S \ {x})
<1>1. SumFunctionOnSet(f, S \ {x}) = Sums(f, S)[S \ {x}]
  BY SumsAgree DEF Summable
<1>2. Sums(f, S)[S] = f[x] + Sums(f, S)[S \ {x}]
  BY SumsInAnyOrder DEF Summable
<1> QED
  BY <1>1, <1>2, SumIs

LEMMA SumAdds ==
    ASSUME NEW S, NEW f, NEW x, x \notin S, Summable(f, S \cup {x})
    PROVE  /\ Summable(f, S)
           /\ SumFunctionOnSet(f, S \cup {x}) = f[x] + SumFunctionOnSet(f, S)
<1>1. (S \cup {x}) \ {x} = S
  OBVIOUS
<1>2. SumFunctionOnSet(f, S \cup {x}) = f[x] + SumFunctionOnSet(f, (S \cup {x}) \ {x})
  BY SumTakes
<1>3. IsFiniteSet(S)
  BY FS_Subset DEF Summable
<1> QED
  BY <1>1, <1>2, <1>3 DEF Summable

LEMMA SumOfPart ==
    ASSUME NEW S, NEW f, Summable(f, S), NEW R \in SUBSET S
    PROVE  SumFunctionOnSet(f, R) <= SumFunctionOnSet(f, S)
<1> DEFINE E == {s \in SUBSET S : R \subseteq s => SumFunctionOnSet(f, R) <= SumFunctionOnSet(f, s)}
<1>1. \A s \in SUBSET S : Summable(f, s)
  BY FS_Subset DEF Summable
<1>2. \A s \in SUBSET S : SumFunctionOnSet(f, s) \in Nat
  BY <1>1, SumType
<1>3. ASSUME NEW s \in SUBSET S, \A x \in s : s \ {x} \in E PROVE s \in E
  <2> SUFFICES ASSUME R \subseteq s, R # s PROVE SumFunctionOnSet(f, R) <= SumFunctionOnSet(f, s)
    BY <1>2
  <2>1. PICK x \in s : x \notin R
    OBVIOUS
  <2>2. R \subseteq s \ {x} /\ s \ {x} \in E
    BY <1>3, <2>1
  <2>3. SumFunctionOnSet(f, R) <= SumFunctionOnSet(f, s \ {x})
    BY <2>2
  <2>4. SumFunctionOnSet(f, s) = f[x] + SumFunctionOnSet(f, s \ {x})
    BY <1>1, <2>1, SumTakes
  <2>5. f[x] \in Nat /\ SumFunctionOnSet(f, s \ {x}) \in Nat /\ SumFunctionOnSet(f, R) \in Nat
    BY <1>2, <2>1 DEF Summable
  <2> QED
    BY <2>3, <2>4, <2>5
<1>4. SUBSET S \subseteq E
  <2>1. IsFiniteSet(S)
    BY DEF Summable
  <2> HIDE DEF E
  <2> QED
    BY <1>3, <2>1, EverySubset
<1> QED
  BY <1>4

-----------------------------------------------------------------------------
(* The invariant: the types; what the marker scan, the sizing and the search *)
(* still have ahead of them; what has been found; and the rows listed.       *)
Paths == DOMAIN tree
Texts == SUBSET {"budget", "unreadable", "depth", "aggregate", "unavailable"}
Figures == [bytes : Nat, gaps : Texts, measured : BOOLEAN]
Rows == [path : Paths, is : Figures]
Searches == [doing : {"search"}, stack : Seq(Paths \cup {Root}), left : SUBSET Paths, committed : Nat]
SizingsFor(for, searches) ==
    [doing : {"sizing"}, for : {for}, root : Paths, open : Seq(SUBSET Paths), max : Nat,
     entries : Nat, bytes : Nat, gaps : Texts, search : searches]
WalkIs(w) ==
    \/ w \in [doing : {"markers"}, stack : Seq(Paths \cup {Root}), left : SUBSET Paths, discovered : Nat]
    \/ w \in [doing : {"store", "watched", "done"}]
    \/ w \in Searches
    \/ w \in SizingsFor("store", {{}}) \/ w \in SizingsFor("watched", Searches)
    \/ w \in [doing : {"measure"}, at : Paths, search : Searches]

AuditTypes ==
    /\ tree \in Trees /\ limits \in Limits /\ vanished \subseteq Paths
    /\ WalkIs(walk)
    /\ told \in [marker : Paths \cup {Root}, scanIncomplete : BOOLEAN, store : Figures, searchGaps : Texts,
                 examined : Nat, spare : Nat, found : SUBSET Rows, detail : Seq(Rows),
                 observed : Nat, reaching : Nat]
    /\ IsFiniteSet(told.found)

(* A place still ahead of a walk: below a directory it has yet to list, or   *)
(* at or below an entry it has yet to take.                                  *)
Ahead(m, stack, left) ==
    \/ \E i \in DOMAIN stack : IsPrefix(stack[i], m) /\ stack[i] # m
    \/ \E q \in left : IsPrefix(q, m)

(* Above p no protected name; and no watched root either. *)
Open(p) == \A q \in Enclosing(p) : Name(q) \notin ProtectedNames
Clear(p) == Open(p) /\ \A q \in Enclosing(p) : ~Selects(q)

(* A scan without a gap has every marker that is there ahead of it. *)
ScanInv ==
    IF walk.doing = "markers"
    THEN /\ \A i \in DOMAIN walk.stack : walk.stack[i] # Root =>
                IsDir(walk.stack[i]) /\ Open(walk.stack[i]) /\ Name(walk.stack[i]) \notin ProtectedNames
         /\ \A p \in walk.left : Open(p)
         /\ told.marker = Root
         /\ ~told.scanIncomplete => \A m \in Markers : There(m) => Ahead(m, walk.stack, walk.left)
    ELSE /\ told.marker # Root => told.marker \in Markers
         /\ told.marker = Root /\ ~told.scanIncomplete => ~\E p \in Markers : There(p)

(* Once the store is measured its figure is true. *)
StoreAhead == walk.doing \in {"markers", "store"} \/ (walk.doing = "sizing" /\ walk.for = "store")
StoreInv ==
    IF StoreAhead THEN walk.doing = "sizing" => walk.root = OwnMarker
    ELSE /\ Figure(told.store, Files(OwnMarker, TRUE))
         /\ ~told.store.measured => ~There(OwnMarker) \/ tree[OwnMarker].kind # "dir"

(* Sizing has counted some files within the root, each once and none of them *)
(* still to come; without a gap every file that is there is one or the other. *)
Pending(f, open) == \E i \in DOMAIN open : \E q \in open[i] : IsPrefix(q, f)
Between(root, q) == (Enclosing(q) \cup {q}) \ (Enclosing(root) \cup {root})
Levels(for, root, open) ==
    /\ \A i \in DOMAIN open : \A q \in open[i] :
        /\ Len(q) = Len(root) + i /\ IsPrefix(root, q)
        /\ for = "store" \/ \A r \in Between(root, q) \ {q} : Name(r) \notin ProtectedNames
    /\ \A i, j \in DOMAIN open : i < j => \A q \in open[i], r \in open[j] : ~IsPrefix(q, r)
Counted(within, open, bytes, gaps, C) ==
    /\ C \subseteq within /\ bytes = Total(C)
    /\ \A f \in C : ~Pending(f, open)
    /\ gaps = {} => \A f \in within : There(f) => f \in C \/ Pending(f, open)
Within == Files(walk.root, walk.for = "store")
SizeInv ==
    walk.doing = "sizing" =>
        /\ Levels(walk.for, walk.root, walk.open)
        /\ \E C \in SUBSET Within : Counted(Within, walk.open, walk.bytes, walk.gaps, C)
        /\ walk.for = "watched" => walk.entries <= walk.max /\ walk.max <= told.spare

(* The search: what it has yet to list, what it has yet to take, the root    *)
(* being measured and those found lie apart, and without a gap every          *)
(* outermost root that is there is among them.                               *)
Searching == walk.doing \in {"search", "measure"} \/ (walk.doing = "sizing" /\ walk.for = "watched")
TheSearch == IF walk.doing = "search" THEN walk ELSE walk.search
Busy == IF walk.doing = "measure" THEN {walk.at} ELSE IF walk.doing = "sizing" THEN {walk.root} ELSE {}
FoundPaths == {r.path : r \in told.found}

Apart(stack, left) ==
    /\ \A i, j \in DOMAIN stack : i # j => ~IsPrefix(stack[i], stack[j])
    /\ \A i \in DOMAIN stack : \A q \in left : ~IsPrefix(stack[i], q) /\ ~IsPrefix(q, stack[i])
    /\ \A q, r \in left : q # r => ~IsPrefix(q, r)
Behind(x, stack, left) ==
    /\ \A i \in DOMAIN stack : ~IsPrefix(stack[i], x)
    /\ \A q \in left : ~IsPrefix(q, x)

Passed(d) == IsDir(d) /\ Clear(d) /\ Name(d) \notin ProtectedNames /\ ~Selects(d)
SearchOk(stack, left, busy, seen, gaps) ==
    /\ \A i \in DOMAIN stack : stack[i] # Root => Passed(stack[i])
    /\ \A p \in left : Clear(p)
    /\ Apart(stack, left)
    /\ \A p \in busy \cup seen : Behind(p, stack, left)
    /\ busy \subseteq Outermost \ seen
    /\ gaps = {} => \A o \in Outermost : There(o) => o \in busy \cup seen \/ Ahead(o, stack, left)
SearchInv ==
    /\ Searching => SearchOk(TheSearch.stack, TheSearch.left, Busy, FoundPaths, told.searchGaps)
    /\ StoreAhead \/ walk.doing = "watched" => told.found = {}
    /\ walk.doing = "done" /\ told.searchGaps = {} => \A o \in Outermost : There(o) => o \in FoundPaths

(* What has been found is right, and the sums are sums of it. *)
FoundInv ==
    /\ FoundPaths \subseteq Outermost
    /\ \A r1, r2 \in told.found : r1.path = r2.path => r1 = r2
    /\ \A r \in told.found : Figure(r.is, Files(r.path, FALSE))
    /\ told.observed = SumFunctionOnSet([r \in told.found |-> r.is.bytes], told.found)
    /\ told.reaching = Cardinality({r \in told.found : Reaches(r.is)})

(* The rows are ranked, and nothing left out ranks before one of them. *)
DetailInv ==
    /\ \A i, j \in DOMAIN told.detail : i < j => ranksBefore(told.detail[i], told.detail[j])
    /\ ToSet(told.detail) \subseteq told.found
    /\ Len(told.detail) = Least(limits.detail, Cardinality(told.found))
    /\ Cardinality(told.found) <= limits.detail => told.found \subseteq ToSet(told.detail)
    /\ \A r \in told.found \ ToSet(told.detail) :
          \A i \in DOMAIN told.detail : ranksBefore(told.detail[i], r)

AuditInv == AuditTypes /\ ScanInv /\ StoreInv /\ SizeInv /\ SearchInv /\ FoundInv /\ DetailInv

-----------------------------------------------------------------------------
(* Paths. *)
Path == Seq(STRING)

LEMMA PartIs ==
    ASSUME NEW p \in Path, NEW i \in 0..Len(p)
    PROVE  /\ SubSeq(p, 1, i) \in Path /\ Len(SubSeq(p, 1, i)) = i
           /\ \A k \in 1..i : SubSeq(p, 1, i)[k] = p[k]
<1>1. \A k \in 1..i : p[k] \in STRING
  BY DEF Path
<1> QED
  BY <1>1, SubSeqProperties DEF Path

LEMMA SamePath ==
    ASSUME NEW p \in Path, NEW s \in Path, Len(p) = Len(s), \A k \in 1..Len(p) : p[k] = s[k]
    PROVE  p = s
  BY SeqEqual DEF Path

LEMMA PrefixMeans ==
    ASSUME NEW p \in Path, NEW s \in Path
    PROVE  IsPrefix(p, s) <=> Len(p) <= Len(s) /\ \A k \in 1..Len(p) : p[k] = s[k]
<1>1. CASE Len(p) <= Len(s)
  <2>1. Len(p) \in 0..Len(p) /\ Len(p) \in 0..Len(s)
    BY <1>1 DEF Path
  <2>2. /\ SubSeq(p, 1, Len(p)) \in Path /\ Len(SubSeq(p, 1, Len(p))) = Len(p)
        /\ \A k \in 1..Len(p) : SubSeq(p, 1, Len(p))[k] = p[k]
    BY <2>1, PartIs
  <2>3. /\ SubSeq(s, 1, Len(p)) \in Path /\ Len(SubSeq(s, 1, Len(p))) = Len(p)
        /\ \A k \in 1..Len(p) : SubSeq(s, 1, Len(p))[k] = s[k]
    BY <2>1, PartIs
  <2>4. ASSUME \A k \in 1..Len(p) : p[k] = s[k] PROVE SubSeq(p, 1, Len(p)) = SubSeq(s, 1, Len(p))
    BY <2>2, <2>3, <2>4, SamePath
  <2>5. ASSUME SubSeq(p, 1, Len(p)) = SubSeq(s, 1, Len(p)) PROVE \A k \in 1..Len(p) : p[k] = s[k]
    BY <2>2, <2>3, <2>5
  <2> QED
    BY <1>1, <2>4, <2>5 DEF IsPrefix
<1>2. CASE ~(Len(p) <= Len(s))
  BY <1>2 DEF IsPrefix
<1> QED
  BY <1>1, <1>2

LEMMA LengthIs == \A p \in Path : Len(p) \in Nat /\ (Len(p) = 0 <=> p = Root)
  BY EmptySeq DEF Path, Root

LEMMA RootLeads == Root \in Path /\ Len(Root) = 0 /\ \A p \in Path : IsPrefix(Root, p) /\ IsPrefix(p, p)
<1>1. Root \in Path /\ Len(Root) = 0
  BY DEF Root, Path
<1> HIDE DEF Root
<1> QED
  BY <1>1, PrefixMeans, LengthIs

LEMMA PrefixOrder ==
    ASSUME NEW p \in Path, NEW s \in Path, IsPrefix(p, s)
    PROVE  /\ Len(p) <= Len(s) /\ (p # s => Len(p) < Len(s))
           /\ p = SubSeq(s, 1, Len(p))
<1>1. Len(p) <= Len(s) /\ \A k \in 1..Len(p) : p[k] = s[k]
  BY PrefixMeans
<1>2. Len(p) \in Nat /\ Len(s) \in Nat /\ Len(p) \in 0..Len(s)
  BY <1>1, LengthIs
<1>3. Len(p) = Len(s) => p = s
  BY <1>1, SamePath
<1>4. p = SubSeq(s, 1, Len(p))
  <2>1. /\ SubSeq(s, 1, Len(p)) \in Path /\ Len(SubSeq(s, 1, Len(p))) = Len(p)
        /\ \A k \in 1..Len(p) : SubSeq(s, 1, Len(p))[k] = s[k]
    BY <1>2, PartIs
  <2> QED
    BY <1>1, <2>1, SamePath
<1> QED
  BY <1>1, <1>2, <1>3, <1>4

LEMMA PrefixChain ==
    ASSUME NEW p \in Path, NEW s \in Path, NEW t \in Path, IsPrefix(s, t)
    PROVE  /\ IsPrefix(p, s) => IsPrefix(p, t)
           /\ IsPrefix(p, t) /\ Len(p) <= Len(s) => IsPrefix(p, s)
<1>1. Len(p) \in Nat /\ Len(s) \in Nat /\ Len(t) \in Nat
  BY LengthIs
<1>2. Len(s) <= Len(t) /\ \A k \in 1..Len(s) : s[k] = t[k]
  BY PrefixMeans
<1>3. (IsPrefix(p, s) <=> Len(p) <= Len(s) /\ \A k \in 1..Len(p) : p[k] = s[k])
      /\ (IsPrefix(p, t) <=> Len(p) <= Len(t) /\ \A k \in 1..Len(p) : p[k] = t[k])
  BY PrefixMeans
<1> QED
  BY <1>1, <1>2, <1>3

LEMMA PartLeads ==
    ASSUME NEW p \in Path, NEW i \in 0..Len(p)
    PROVE  SubSeq(p, 1, i) \in Path /\ Len(SubSeq(p, 1, i)) = i /\ IsPrefix(SubSeq(p, 1, i), p)
<1> DEFINE s == SubSeq(p, 1, i)
<1>1. s \in Path /\ Len(s) = i /\ \A k \in 1..i : s[k] = p[k]
  BY PartIs
<1> HIDE DEF s
<1>2. IsPrefix(s, p)
  BY <1>1, PrefixMeans, LengthIs
<1> QED
  BY <1>1, <1>2 DEF s

LEMMA EnclosingAre ==
    ASSUME NEW p \in Path, NEW q
    PROVE  q \in Enclosing(p) <=> q \in Path /\ q # Root /\ q # p /\ IsPrefix(q, p)
<1>1. ASSUME q \in Enclosing(p) PROVE q \in Path /\ q # Root /\ q # p /\ IsPrefix(q, p)
  <2>1. PICK n \in 1..(Len(p) - 1) : q = SubSeq(p, 1, n)
    BY <1>1 DEF Enclosing
  <2>2. n \in 0..Len(p) /\ n # Len(p) /\ n # 0
    BY <2>1, LengthIs
  <2>3. q \in Path /\ Len(q) = n /\ IsPrefix(q, p)
    BY <2>1, <2>2, PartLeads
  <2> QED
    BY <2>2, <2>3, LengthIs
<1>2. ASSUME q \in Path, q # Root, q # p, IsPrefix(q, p) PROVE q \in Enclosing(p)
  <2>1. Len(q) \in Nat /\ Len(p) \in Nat /\ Len(q) # 0 /\ Len(q) < Len(p) /\ q = SubSeq(p, 1, Len(q))
    BY <1>2, LengthIs, PrefixOrder
  <2>2. Len(q) \in 1..(Len(p) - 1)
    BY <2>1
  <2> QED
    BY <2>1, <2>2 DEF Enclosing
<1> QED
  BY <1>1, <1>2

-----------------------------------------------------------------------------
(* The worktree. *)
LEMMA WorktreeIs ==
    ASSUME AuditTypes
    PROVE  /\ IsFiniteSet(Paths) /\ vanished \subseteq Paths /\ Paths \subseteq Path /\ Root \notin Paths
           /\ \A p \in Paths : tree[p].size \in Nat /\ PathRank[p] \in Nat
           /\ \A p \in Paths : Len(p) > 1 => Front(p) \in Paths /\ IsDir(Front(p))
           /\ \A p, q \in Paths : PathRank[p] = PathRank[q] => p = q
           /\ limits.storeEntries \in Nat /\ limits.rootEntries \in Nat /\ limits.aggregate \in Nat
           /\ limits.detail \in Nat /\ limits.threshold \in Nat
<1>1. tree \in Trees /\ limits \in Limits /\ vanished \subseteq Paths
  BY DEF AuditTypes
<1>2. /\ IsFiniteSet(Paths)
      /\ \A p \in Paths :
            /\ p \in Path /\ p # Root
            /\ tree[p].size \in Nat /\ PathRank[p] \in Nat
            /\ Len(p) > 1 => Front(p) \in Paths /\ tree[Front(p)].kind \in {"dir", "closed"}
            /\ \A q \in Paths : PathRank[p] = PathRank[q] => p = q
  BY <1>1, AuditAssumption DEF Paths, Path, Root
<1>3. /\ limits.storeEntries \in Nat /\ limits.rootEntries \in Nat /\ limits.aggregate \in Nat
      /\ limits.detail \in Nat /\ limits.threshold \in Nat
  BY <1>1, AuditAssumption
<1> QED
  BY <1>1, <1>2, <1>3 DEF IsDir

(* A path to a place leads through directories. *)
LEMMA ThroughDirs ==
    ASSUME AuditTypes, NEW p \in Paths, NEW i \in 1..Len(p)
    PROVE  SubSeq(p, 1, i) \in Paths /\ (i < Len(p) => IsDir(SubSeq(p, 1, i)))
<1> DEFINE Good(d) == /\ SubSeq(p, 1, Len(p) - d) \in Paths
                      /\ d > 0 => IsDir(SubSeq(p, 1, Len(p) - d))
           Fails == {d \in Nat : d < Len(p) /\ ~Good(d)}
<1>0. p \in Path /\ Len(p) \in Nat
  BY WorktreeIs, LengthIs
<1>1. Fails = {}
  <2> SUFFICES ASSUME Fails # {} PROVE FALSE
    OBVIOUS
  <2>1. PICK d \in Fails : \A k \in Fails : d <= k
    <3>1. Fails \in SUBSET Nat
      OBVIOUS
    <3> HIDE DEF Fails
    <3> QED
      BY <3>1, Smallest
  <2>2. d # 0
    <3>1. Len(p) \in 0..Len(p)
      BY <1>0
    <3>2. SubSeq(p, 1, Len(p)) = p
      BY <1>0, <3>1, PartIs, SamePath
    <3>3. Good(0)
      <4>1. Len(p) - 0 = Len(p)
        BY <1>0
      <4>2. SubSeq(p, 1, Len(p) - 0) \in Paths
        BY <3>2, <4>1, Zenon
      <4> QED
        BY <4>2
    <3> QED
      BY <2>1, <3>3
  <2>3. d \in Nat /\ d < Len(p) /\ d - 1 \in Nat /\ ~(d <= d - 1)
    BY <2>1, <2>2
  <2>4. SubSeq(p, 1, Len(p) - (d - 1)) \in Paths
    <3> DEFINE e == d - 1
    <3>1. e \in Nat /\ e < Len(p) /\ ~(d <= e)
      BY <2>3
    <3> HIDE DEF e
    <3>2. Good(e)
      <4> HIDE DEF Good
      <4> QED
        BY <2>1, <3>1
    <3> QED
      BY <3>2 DEF e
  <2> DEFINE s == SubSeq(p, 1, Len(p) - (d - 1))
             r == SubSeq(p, 1, Len(p) - d)
  <2>5. Len(p) - (d - 1) \in 0..Len(p) /\ Len(p) - d \in 0..Len(p) /\ Len(p) - d >= 1
    BY <2>3, <1>0
  <2>6. s \in Path /\ Len(s) = Len(p) - (d - 1) /\ \A k \in 1..Len(s) : s[k] = p[k]
    BY <2>5, <1>0, PartIs
  <2>7. r \in Path /\ Len(r) = Len(p) - d /\ \A k \in 1..Len(r) : r[k] = p[k]
    BY <2>5, <1>0, PartIs
  <2> HIDE DEF s, r
  <2>8. Front(s) = r
    <3>1. Len(s) - 1 \in 0..Len(s) /\ Len(s) - 1 = Len(r)
      BY <2>5, <2>6, <2>7, <1>0
    <3> DEFINE f == Front(s)
    <3>2. f \in Path /\ Len(f) = Len(s) - 1 /\ \A k \in 1..(Len(s) - 1) : f[k] = s[k]
      BY <2>6, <3>1, PartIs DEF Front
    <3> HIDE DEF f
    <3>3. Len(f) = Len(r) /\ \A k \in 1..Len(f) : f[k] = r[k]
      <4>1. Len(s) \in Nat /\ Len(r) \in Nat
        BY <2>6, <2>7, LengthIs
      <4>2. Len(f) = Len(r) /\ 1..Len(f) \subseteq 1..Len(s) /\ 1..Len(f) \subseteq 1..(Len(s) - 1)
        BY <3>1, <3>2, <4>1
      <4> QED
        BY <2>6, <2>7, <3>2, <4>2
    <3>4. f = r
      BY <2>7, <3>2, <3>3, SamePath
    <3> QED
      BY <3>4 DEF f
  <2>9. Len(s) > 1 /\ s \in Paths
    BY <2>4, <2>5, <2>6, <1>0 DEF s
  <2>10. r \in Paths /\ IsDir(r)
    BY <2>8, <2>9, WorktreeIs
  <2> QED
    BY <2>1, <2>10 DEF r
<1> DEFINE e == Len(p) - i
<1>2. e \in Nat /\ e < Len(p) /\ Len(p) - e = i /\ (i < Len(p) => e > 0)
  BY <1>0
<1> HIDE DEF e
<1>3. Good(e)
  <2> HIDE DEF Good
  <2> QED
    BY <1>1, <1>2
<1> QED
  BY <1>2, <1>3

LEMMA PrefixIsDir ==
    ASSUME AuditTypes, NEW p \in Paths, NEW q \in Path, IsPrefix(q, p), q # Root
    PROVE  q \in Paths /\ (q # p => IsDir(q))
<1>1. p \in Path
  BY WorktreeIs
<1>2. Len(q) \in 1..Len(p) /\ q = SubSeq(p, 1, Len(q)) /\ (q # p => Len(q) < Len(p))
  BY <1>1, PrefixOrder, LengthIs
<1> QED
  BY <1>2, ThroughDirs

(* The entry of s on the way to p. *)
LEMMA NextOnTheWay ==
    ASSUME AuditTypes, NEW p \in Paths, NEW s \in Path, IsPrefix(s, p), s # p
    PROVE  \E c \in Paths : Len(c) = Len(s) + 1 /\ IsPrefix(s, c) /\ IsPrefix(c, p)
<1>1. p \in Path
  BY WorktreeIs
<1>2. Len(s) + 1 \in 1..Len(p) /\ Len(s) + 1 \in 0..Len(p) /\ Len(s) \in Nat
  BY <1>1, PrefixOrder, LengthIs
<1> DEFINE c == SubSeq(p, 1, Len(s) + 1)
<1>3. c \in Paths
  BY <1>2, ThroughDirs
<1>4. c \in Path /\ Len(c) = Len(s) + 1 /\ IsPrefix(c, p)
  BY <1>1, <1>2, PartLeads
<1> HIDE DEF c
<1>5. IsPrefix(s, c)
  BY <1>1, <1>2, <1>4, PrefixChain
<1> QED
  BY <1>3, <1>4, <1>5

LEMMA ThereAbove ==
    ASSUME AuditTypes, NEW p \in Paths, There(p), NEW s \in Paths \cup {Root}, IsPrefix(s, p)
    PROVE  There(s)
<1>1. CASE s = Root
  BY <1>1 DEF There
<1>2. CASE s # Root
  <2>1. s \in Path /\ p \in Path /\ p # Root /\ \A v \in vanished : v \in Path
    BY <1>2, WorktreeIs
  <2>2. ~\E v \in vanished : IsPrefix(v, s)
    BY <2>1, PrefixChain DEF There
  <2> QED
    BY <1>2, <2>2 DEF There, Paths
<1> QED
  BY <1>1, <1>2

LEMMA EntriesAre ==
    ASSUME AuditTypes, NEW s \in Paths \cup {Root}
    PROVE  /\ Entries(s) \subseteq Paths
           /\ \A c \in Entries(s) : Len(c) = Len(s) + 1 /\ IsPrefix(s, c) /\ There(c)
           /\ \A p \in Paths : There(p) /\ Opens(s) /\ IsPrefix(s, p) /\ s # p =>
                \E c \in Entries(s) : IsPrefix(c, p)
<1>1. Entries(s) \subseteq Paths /\ \A c \in Entries(s) : Len(c) = Len(s) + 1 /\ IsPrefix(s, c) /\ There(c)
  BY DEF Entries, Paths
<1>2. ASSUME NEW p \in Paths, There(p), Opens(s), IsPrefix(s, p), s # p PROVE \E c \in Entries(s) : IsPrefix(c, p)
  <2>1. s \in Path
    BY WorktreeIs, RootLeads
  <2>2. PICK c \in Paths : Len(c) = Len(s) + 1 /\ IsPrefix(s, c) /\ IsPrefix(c, p)
    BY <1>2, <2>1, NextOnTheWay
  <2>3. There(c)
    BY <1>2, <2>2, ThereAbove
  <2> QED
    BY <1>2, <2>2, <2>3 DEF Entries, Paths
<1> QED
  BY <1>1, <1>2

(* What leads to an entry of s is that entry, or leads to s. *)
LEMMA LeadsToEntry ==
    ASSUME NEW s \in Path, NEW c \in Path, Len(c) = Len(s) + 1, IsPrefix(s, c), NEW q \in Path, IsPrefix(q, c), q # c
    PROVE  IsPrefix(q, s)
<1>1. Len(q) < Len(c) /\ Len(q) \in Nat /\ Len(s) \in Nat
  BY PrefixOrder, LengthIs
<1> QED
  BY <1>1, PrefixChain

-----------------------------------------------------------------------------
(* A frontier: a stack of directories still to be listed, and the entries    *)
(* left of the one that is being listed.                                     *)
LEMMA TopOf ==
    ASSUME NEW S, NEW stack \in Seq(S), stack # <<>>
    PROVE  /\ Len(stack) \in Nat /\ Len(stack) >= 1 /\ DOMAIN stack = 1..Len(stack)
           /\ Last(stack) \in S /\ Last(stack) = stack[Len(stack)]
           /\ Front(stack) \in Seq(S) /\ Len(Front(stack)) = Len(stack) - 1
           /\ DOMAIN Front(stack) = 1..(Len(stack) - 1)
           /\ \A i \in 1..(Len(stack) - 1) : Front(stack)[i] = stack[i]
<1>1. Len(stack) \in Nat /\ Len(stack) >= 1 /\ DOMAIN stack = 1..Len(stack) /\ \A i \in 1..Len(stack) : stack[i] \in S
  BY EmptySeq, LenProperties, ElementOfSeq
<1>2. Last(stack) \in S /\ Last(stack) = stack[Len(stack)]
  BY <1>1 DEF Last
<1> DEFINE n == Len(stack) - 1
           f == SubSeq(stack, 1, n)
<1>3. n \in 0..Len(stack) /\ \A i \in 1..n : stack[i] \in S
  BY <1>1
<1>4. f \in Seq(S) /\ Len(f) = n /\ \A i \in 1..n : f[i] = stack[i]
  <2> HIDE DEF n
  <2> QED
    BY <1>3, SubSeqProperties
<1>5. DOMAIN f = 1..n
  <2> HIDE DEF f, n
  <2> QED
    BY <1>4, LenProperties
<1>6. f = Front(stack)
  BY DEF Front
<1> QED
  BY <1>1, <1>2, <1>4, <1>5, <1>6

LEMMA PushedOn ==
    ASSUME NEW S, NEW stack \in Seq(S), NEW p \in S
    PROVE  /\ Append(stack, p) \in Seq(S) /\ Len(stack) \in Nat
           /\ DOMAIN stack = 1..Len(stack) /\ DOMAIN Append(stack, p) = 1..(Len(stack) + 1)
           /\ \A i \in 1..Len(stack) : Append(stack, p)[i] = stack[i]
           /\ Append(stack, p)[Len(stack) + 1] = p
<1>1. /\ Append(stack, p) \in Seq(S) /\ Len(Append(stack, p)) = Len(stack) + 1
      /\ \A i \in 1..Len(stack) : Append(stack, p)[i] = stack[i]
      /\ Append(stack, p)[Len(stack) + 1] = p
  BY AppendProperties
<1>2. Len(stack) \in Nat /\ DOMAIN stack = 1..Len(stack)
  BY LenProperties
<1> DEFINE a == Append(stack, p)
<1>3. DOMAIN a = 1..Len(a)
  <2>1. a \in Seq(S)
    BY <1>1
  <2> HIDE DEF a
  <2> QED
    BY <2>1, LenProperties
<1> QED
  BY <1>1, <1>2, <1>3

Stack == Seq(Paths \cup {Root})

LEMMA PlacesArePaths ==
    ASSUME AuditTypes
    PROVE  (Paths \cup {Root}) \subseteq Path /\ Root \notin Paths
           /\ \A stack \in Stack : \A i \in DOMAIN stack : stack[i] \in Paths \cup {Root}
<1>1. \A stack \in Stack : \A i \in DOMAIN stack : stack[i] \in Paths \cup {Root}
  BY LenProperties, ElementOfSeq DEF Stack
<1> QED
  BY <1>1, WorktreeIs, RootLeads

(* A directory is listed. *)
LEMMA ListedAhead ==
    ASSUME AuditTypes, NEW stack \in Stack, stack # <<>>, NEW m \in Paths, There(m),
           Ahead(m, stack, {}), Opens(Last(stack))
    PROVE  Ahead(m, Front(stack), Entries(Last(stack)))
<1>1. /\ Len(stack) \in Nat /\ Len(stack) >= 1 /\ DOMAIN stack = 1..Len(stack)
      /\ Last(stack) \in Paths \cup {Root} /\ Last(stack) = stack[Len(stack)]
      /\ DOMAIN Front(stack) = 1..(Len(stack) - 1)
      /\ \A i \in 1..(Len(stack) - 1) : Front(stack)[i] = stack[i]
  BY TopOf DEF Stack
<1>2. PICK i \in DOMAIN stack : IsPrefix(stack[i], m) /\ stack[i] # m
  BY DEF Ahead
<1>3. CASE i = Len(stack)
  <2>1. \E c \in Entries(Last(stack)) : IsPrefix(c, m)
    BY <1>1, <1>2, <1>3, EntriesAre
  <2> QED
    BY <2>1 DEF Ahead
<1>4. CASE i # Len(stack)
  <2>1. i \in DOMAIN Front(stack) /\ Front(stack)[i] = stack[i]
    BY <1>1, <1>4
  <2> QED
    BY <1>2, <2>1 DEF Ahead
<1> QED
  BY <1>3, <1>4

(* An entry is passed, or pushed to be listed later. *)
LEMMA PassedAhead ==
    ASSUME NEW stack, NEW left, NEW m, Ahead(m, stack, left), NEW p, ~IsPrefix(p, m)
    PROVE  Ahead(m, stack, left \ {p})
  BY DEF Ahead

LEMMA PushedAhead ==
    ASSUME NEW stack \in Stack, NEW left, NEW m, Ahead(m, stack, left), NEW p \in Paths, p # m
    PROVE  Ahead(m, Append(stack, p), left \ {p})
<1>1. /\ Len(stack) \in Nat /\ DOMAIN stack = 1..Len(stack) /\ DOMAIN Append(stack, p) = 1..(Len(stack) + 1)
      /\ \A i \in 1..Len(stack) : Append(stack, p)[i] = stack[i]
      /\ Append(stack, p)[Len(stack) + 1] = p
  BY PushedOn DEF Stack
<1>2. CASE \E i \in DOMAIN stack : IsPrefix(stack[i], m) /\ stack[i] # m
  <2>1. PICK i \in DOMAIN stack : IsPrefix(stack[i], m) /\ stack[i] # m
    BY <1>2
  <2>2. i \in DOMAIN Append(stack, p) /\ Append(stack, p)[i] = stack[i]
    BY <1>1, <2>1
  <2> QED
    BY <2>1, <2>2 DEF Ahead
<1>3. CASE \E q \in left \ {p} : IsPrefix(q, m)
  BY <1>3 DEF Ahead
<1>4. CASE IsPrefix(p, m)
  <2>1. Len(stack) + 1 \in DOMAIN Append(stack, p)
    BY <1>1
  <2> QED
    BY <1>1, <1>4, <2>1 DEF Ahead
<1> QED
  BY <1>2, <1>3, <1>4 DEF Ahead

LEMMA ListedApart ==
    ASSUME AuditTypes, NEW stack \in Stack, stack # <<>>, Apart(stack, {})
    PROVE  Apart(Front(stack), Entries(Last(stack)))
<1> DEFINE d == Last(stack)  f == Front(stack)
<1>1. /\ Len(stack) \in Nat /\ Len(stack) >= 1 /\ DOMAIN stack = 1..Len(stack)
      /\ d \in Paths \cup {Root} /\ d = stack[Len(stack)]
      /\ f \in Stack /\ DOMAIN f = 1..(Len(stack) - 1)
      /\ \A i \in 1..(Len(stack) - 1) : f[i] = stack[i]
  BY TopOf DEF Stack
<1> HIDE DEF d, f
<1>2. /\ Entries(d) \subseteq Paths
      /\ \A c \in Entries(d) : Len(c) = Len(d) + 1 /\ IsPrefix(d, c)
  BY <1>1, EntriesAre
<1>3. d \in Path /\ \A i \in DOMAIN f : f[i] \in Path /\ ~IsPrefix(f[i], d) /\ ~IsPrefix(d, f[i])
  BY <1>1, PlacesArePaths DEF Apart
<1>4. \A c \in Entries(d) : c \in Path
  BY <1>2, WorktreeIs
<1>5. \A i, j \in DOMAIN f : i # j => ~IsPrefix(f[i], f[j])
  BY <1>1 DEF Apart
<1>6. ASSUME NEW i \in DOMAIN f, NEW c \in Entries(d) PROVE ~IsPrefix(f[i], c) /\ ~IsPrefix(c, f[i])
  <2>1. IsPrefix(c, f[i]) => IsPrefix(d, f[i])
    BY <1>2, <1>3, <1>4, PrefixChain
  <2>2. IsPrefix(f[i], c) => f[i] = c \/ IsPrefix(f[i], d)
    BY <1>2, <1>3, <1>4, LeadsToEntry
  <2> QED
    BY <1>2, <1>3, <2>1, <2>2
<1>7. ASSUME NEW q \in Entries(d), NEW r \in Entries(d), q # r PROVE ~IsPrefix(q, r)
  <2>1. Len(q) = Len(r) /\ Len(q) \in Nat
    BY <1>2, <1>4, LengthIs
  <2> QED
    BY <1>4, <1>7, <2>1, PrefixOrder
<1> QED
  BY <1>5, <1>6, <1>7 DEF Apart, d, f

LEMMA PushedApart ==
    ASSUME AuditTypes, NEW stack \in Stack, NEW left, Apart(stack, left), NEW p \in Paths, p \in left
    PROVE  Apart(Append(stack, p), left \ {p}) /\ Apart(stack, left \ {p}) /\ Behind(p, stack, left \ {p})
<1> DEFINE a == Append(stack, p)
<1>1. /\ Len(stack) \in Nat /\ DOMAIN stack = 1..Len(stack) /\ DOMAIN a = 1..(Len(stack) + 1)
      /\ \A i \in 1..Len(stack) : a[i] = stack[i]
      /\ a[Len(stack) + 1] = p
  BY PushedOn DEF Stack
<1> HIDE DEF a
<1>2. Apart(stack, left \ {p}) /\ Behind(p, stack, left \ {p})
  BY DEF Apart, Behind
<1>3. ASSUME NEW i \in DOMAIN a PROVE (i \in DOMAIN stack /\ a[i] = stack[i]) \/ (i = Len(stack) + 1 /\ a[i] = p)
  BY <1>1
<1>4. \A i, j \in DOMAIN a : i # j => ~IsPrefix(a[i], a[j])
  BY <1>3 DEF Apart
<1>5. \A i \in DOMAIN a : \A q \in left \ {p} : ~IsPrefix(a[i], q) /\ ~IsPrefix(q, a[i])
  BY <1>3 DEF Apart
<1>6. Apart(a, left \ {p})
  BY <1>2, <1>4, <1>5 DEF Apart
<1> QED
  BY <1>2, <1>6 DEF a

LEMMA ListedBehind ==
    ASSUME AuditTypes, NEW stack \in Stack, stack # <<>>, NEW x \in Paths, Behind(x, stack, {})
    PROVE  Behind(x, Front(stack), Entries(Last(stack)))
<1> DEFINE d == Last(stack)  f == Front(stack)
<1>1. /\ Len(stack) \in Nat /\ Len(stack) >= 1 /\ DOMAIN stack = 1..Len(stack)
      /\ d \in Paths \cup {Root} /\ d = stack[Len(stack)]
      /\ DOMAIN f = 1..(Len(stack) - 1)
      /\ \A i \in 1..(Len(stack) - 1) : f[i] = stack[i]
  BY TopOf DEF Stack
<1> HIDE DEF d, f
<1>2. \A i \in DOMAIN f : ~IsPrefix(f[i], x)
  BY <1>1 DEF Behind
<1>3. ASSUME NEW c \in Entries(d) PROVE ~IsPrefix(c, x)
  <2>1. c \in Paths /\ IsPrefix(d, c)
    BY <1>1, EntriesAre
  <2>2. d \in Path /\ c \in Path /\ x \in Path
    BY <1>1, <2>1, PlacesArePaths
  <2>3. ~IsPrefix(d, x)
    BY <1>1 DEF Behind
  <2> QED
    BY <2>1, <2>2, <2>3, PrefixChain
<1> QED
  BY <1>2, <1>3 DEF Behind, d, f

LEMMA PushedBehind ==
    ASSUME NEW stack \in Stack, NEW left, NEW x, Behind(x, stack, left), NEW p \in Paths, p \in left
    PROVE  Behind(x, Append(stack, p), left \ {p}) /\ Behind(x, stack, left \ {p})
<1>1. /\ Len(stack) \in Nat /\ DOMAIN stack = 1..Len(stack) /\ DOMAIN Append(stack, p) = 1..(Len(stack) + 1)
      /\ \A i \in 1..Len(stack) : Append(stack, p)[i] = stack[i]
      /\ Append(stack, p)[Len(stack) + 1] = p
  BY PushedOn DEF Stack
<1>2. \A i \in DOMAIN Append(stack, p) : ~IsPrefix(Append(stack, p)[i], x)
  <2> DEFINE a == Append(stack, p)
  <2>1. \A i \in DOMAIN a : (i \in DOMAIN stack /\ a[i] = stack[i]) \/ a[i] = p
    BY <1>1
  <2> HIDE DEF a
  <2>2. \A i \in DOMAIN a : ~IsPrefix(a[i], x)
    BY <2>1 DEF Behind
  <2> QED
    BY <2>2 DEF a
<1> QED
  BY <1>2 DEF Behind

-----------------------------------------------------------------------------
(* What a step leaves as it was. *)
Later == tree' = tree /\ limits' = limits /\ vanished \subseteq vanished'

LEMMA WorldLater ==
    ASSUME Later
    PROVE  /\ Paths' = Paths /\ Markers' = Markers /\ Outermost' = Outermost
           /\ \A p : There(p)' => There(p)
           /\ \A p : IsDir(p)' <=> IsDir(p)
           /\ \A p, all : Files(p, all)' = Files(p, all)
           /\ \A S : Total(S)' = Total(S)
           /\ \A m : Reaches(m)' <=> Reaches(m)
<1> USE DEF Later
<1>1. Paths' = Paths
  BY DEF Paths
<1>2. \A p : IsDir(p)' <=> IsDir(p)
  BY DEF IsDir
<1>3. \A p : There(p)' => There(p)
  BY DEF There
<1>4. Markers' = Markers
  BY <1>2 DEF Markers, IsDir
<1>5. Outermost' = Outermost
  BY <1>2 DEF Outermost, IsDir
<1>6. \A p, all : Files(p, all)' = Files(p, all)
  BY DEF Files
<1>7. \A S : Total(S)' = Total(S)
  BY DEF Total
<1>8. \A m : Reaches(m)' <=> Reaches(m)
  BY DEF Reaches
<1> QED
  BY <1>1, <1>2, <1>3, <1>4, <1>5, <1>6, <1>7, <1>8

Sizes == [q \in DOMAIN tree |-> tree[q].size]
LEMMA SizesAre ==
    ASSUME AuditTypes, NEW S \in SUBSET Paths
    PROVE  Summable(Sizes, S) /\ Total(S) \in Nat /\ Total(S) = SumFunctionOnSet(Sizes, S)
<1>1. Summable(Sizes, S)
  <2>1. IsFiniteSet(S)
    BY WorktreeIs, FS_Subset
  <2>2. \A x \in S : Sizes[x] \in Nat
    BY WorktreeIs DEF Sizes, Paths
  <2> QED
    BY <2>1, <2>2 DEF Summable
<1>2. Total(S) = SumFunctionOnSet(Sizes, S)
  BY DEF Total, Sizes
<1> QED
  BY <1>1, <1>2, SumType

LEMMA TotalOfPart ==
    ASSUME AuditTypes, NEW S \in SUBSET Paths, NEW R \in SUBSET S
    PROVE  Total(R) <= Total(S)
<1>1. Summable(Sizes, S) /\ Total(S) = SumFunctionOnSet(Sizes, S) /\ Total(R) = SumFunctionOnSet(Sizes, R)
  BY SizesAre
<1> QED
  BY <1>1, SumOfPart

LEMMA TotalAdds ==
    ASSUME AuditTypes, NEW S \in SUBSET Paths, NEW p \in Paths, p \notin S
    PROVE  Total(S \cup {p}) = Total(S) + tree[p].size
<1>1. Summable(Sizes, S \cup {p}) /\ Total(S \cup {p}) = SumFunctionOnSet(Sizes, S \cup {p})
      /\ Total(S) = SumFunctionOnSet(Sizes, S) /\ Total(S) \in Nat
  BY SizesAre
<1>2. SumFunctionOnSet(Sizes, S \cup {p}) = Sizes[p] + SumFunctionOnSet(Sizes, S)
  BY <1>1, SumAdds
<1>3. Sizes[p] = tree[p].size /\ tree[p].size \in Nat
  BY WorktreeIs DEF Sizes, Paths
<1> QED
  BY <1>1, <1>2, <1>3

(* A figure stays true of what is still there. *)
LEMMA FigureLater ==
    ASSUME AuditTypes, Later, NEW m, m.bytes \in Nat, NEW S \in SUBSET Paths, Figure(m, S)
    PROVE  Figure(m, S)'
<1> DEFINE now == {q \in S : There(q)}
<1>0. PICK then : then = {q \in S : There(q)'}
  OBVIOUS
<1>1. then \in SUBSET now /\ now \in SUBSET Paths
  BY <1>0, WorldLater
<1>2. Total(then) <= Total(now) /\ Total(then) \in Nat /\ Total(now) \in Nat
  BY <1>1, TotalOfPart, SizesAre
<1>3. Total(S)' = Total(S) /\ Total(then)' = Total(then)
  BY WorldLater
<1>4. /\ m.bytes <= Total(S)
      /\ m.measured /\ m.gaps = {} => m.bytes >= Total(now)
      /\ ~m.measured => m.bytes = 0 /\ m.gaps # {}
  BY DEF Figure
<1>5. /\ m.bytes <= Total(S)'
      /\ m.measured /\ m.gaps = {} => m.bytes >= Total(then)'
  BY <1>2, <1>3, <1>4
<1>6. Figure(m, S)' <=> /\ m.bytes <= Total(S)'
                        /\ m.measured /\ m.gaps = {} => m.bytes >= Total(then)'
                        /\ ~m.measured => m.bytes = 0 /\ m.gaps # {}
  BY <1>0 DEF Figure
<1> QED
  BY <1>4, <1>5, <1>6

FilesOf == \A p, all : Files(p, all) \subseteq Paths
LEMMA FilesArePaths == FilesOf
  BY DEF FilesOf, Files, Paths

LEMMA ScanRests ==
    ASSUME ScanInv, Later, walk.doing # "markers", walk'.doing # "markers",
           told'.marker = told.marker, told'.scanIncomplete = told.scanIncomplete
    PROVE  ScanInv'
  BY WorldLater DEF ScanInv

LEMMA StoreRests ==
    ASSUME AuditTypes, StoreInv, Later, ~StoreAhead, ~StoreAhead', told'.store = told.store
    PROVE  StoreInv'
<1>1. told.store.bytes \in Nat
  BY DEF AuditTypes, Figures
<1>2. Figure(told.store, Files(OwnMarker, TRUE))'
  <2>1. Files(OwnMarker, TRUE) \in SUBSET Paths /\ Figure(told.store, Files(OwnMarker, TRUE))
    BY FilesArePaths DEF FilesOf, StoreInv
  <2> DEFINE S == Files(OwnMarker, TRUE)
             m == told.store
  <2>2. \A n : \A T \in SUBSET Paths : n.bytes \in Nat /\ Figure(n, T) => Figure(n, T)'
    BY FigureLater
  <2>3. told'.store = m /\ Files(OwnMarker, TRUE)' = S
    BY WorldLater
  <2> QED
    BY <1>1, <2>1, <2>2, <2>3
<1>3. ~told'.store.measured => ~There(OwnMarker)' \/ tree'[OwnMarker].kind # "dir"
  BY WorldLater DEF StoreInv, Later
<1> QED
  BY <1>2, <1>3 DEF StoreInv

LEMMA FoundRests ==
    ASSUME AuditTypes, FoundInv, Later,
           told'.found = told.found, told'.observed = told.observed, told'.reaching = told.reaching
    PROVE  FoundInv'
<1>1. FoundPaths' = FoundPaths /\ Outermost' = Outermost
  BY WorldLater DEF FoundPaths
<1>2. ASSUME NEW r \in told.found PROVE Figure(r.is, Files(r.path, FALSE))'
  <2>1. r.is.bytes \in Nat /\ Files(r.path, FALSE) \in SUBSET Paths
    BY FilesArePaths DEF FilesOf, AuditTypes, Rows, Figures
  <2>2. Figure(r.is, Files(r.path, FALSE))
    BY DEF FoundInv
  <2> DEFINE S == Files(r.path, FALSE)
  <2>3. \A n : \A T \in SUBSET Paths : n.bytes \in Nat /\ Figure(n, T) => Figure(n, T)'
    BY FigureLater
  <2>4. Files(r.path, FALSE)' = S
    BY WorldLater
  <2> QED
    BY <2>1, <2>2, <2>3, <2>4
<1>3. {r \in told.found : Reaches(r.is)} = {r \in told'.found : Reaches(r.is)'}
  BY WorldLater
<1>4. [r \in told.found |-> r.is.bytes] = [r \in told'.found |-> r.is.bytes]
  OBVIOUS
<1> QED
  BY <1>1, <1>2, <1>3, <1>4 DEF FoundInv

LEMMA DetailRests ==
    ASSUME DetailInv, Later, told'.found = told.found, told'.detail = told.detail
    PROVE  DetailInv'
  BY DEF DetailInv, Later

-----------------------------------------------------------------------------
(* The types. *)
Scans == [doing : {"markers"}, stack : Stack, left : SUBSET Paths, discovered : Nat]
Measurings == [doing : {"measure"}, at : Paths, search : Searches]
Told ==
    [marker : Paths \cup {Root}, scanIncomplete : BOOLEAN, store : Figures, searchGaps : Texts,
     examined : Nat, spare : Nat, found : SUBSET Rows, detail : Seq(Rows), observed : Nat, reaching : Nat]

LEMMA WalkKinds ==
    ASSUME AuditTypes
    PROVE  /\ walk.doing = "markers" => walk \in Scans
           /\ walk.doing = "search" => walk \in Searches
           /\ walk.doing = "sizing" => \/ walk.for = "store" /\ walk \in SizingsFor("store", {{}})
                                       \/ walk.for = "watched" /\ walk \in SizingsFor("watched", Searches)
           /\ walk.doing = "measure" => walk \in Measurings
           /\ told \in Told
  BY DEF AuditTypes, WalkIs, Scans, Stack, Searches, SizingsFor, Measurings, Told

LEMMA KindOfWalk ==
    ASSUME NEW w,
           \/ w \in Scans \/ w \in Searches \/ w \in SizingsFor("store", {{}}) \/ w \in SizingsFor("watched", Searches)
           \/ w \in Measurings \/ w \in [doing : {"store", "watched", "done"}]
    PROVE  WalkIs(w)
  BY DEF WalkIs, Scans, Stack, Searches, Measurings

LEMMA TypesStep ==
    ASSUME AuditTypes, Later, vanished' \subseteq Paths, told' \in Told, IsFiniteSet(told'.found), WalkIs(walk')
    PROVE  AuditTypes'
<1>1. Paths' = Paths
  BY WorldLater
<1>2. /\ tree' \in Trees /\ limits' \in Limits /\ vanished' \subseteq Paths'
  BY <1>1 DEF AuditTypes, Later
<1>3. WalkIs(walk)'
  BY <1>1 DEF WalkIs, Searches, SizingsFor
<1>4. (/\ told \in [marker : Paths \cup {Root}, scanIncomplete : BOOLEAN, store : Figures, searchGaps : Texts,
                 examined : Nat, spare : Nat, found : SUBSET Rows, detail : Seq(Rows),
                 observed : Nat, reaching : Nat])'
  BY <1>1 DEF Told, Rows
<1> QED
  BY <1>2, <1>3, <1>4 DEF AuditTypes

World == UNCHANGED <<tree, limits, vanished>>
LEMMA WorldKept == ASSUME AuditTypes, World PROVE Later /\ vanished' \subseteq Paths
  BY DEF World, Later, AuditTypes

(* Nothing changes but the walk. *)
LEMMA OnlyWalks ==
    ASSUME AuditTypes, World, told' = told, WalkIs(walk')
    PROVE  AuditTypes'
<1>1. told' \in Told /\ IsFiniteSet(told'.found)
  BY WalkKinds DEF AuditTypes
<1> QED
  BY <1>1, WorldKept, TypesStep

LEMMA GapsAreTexts ==
    {"budget"} \in Texts /\ {"unreadable"} \in Texts /\ {"depth"} \in Texts /\ {"aggregate"} \in Texts
    /\ {"unavailable"} \in Texts /\ {} \in Texts /\ \A g, h \in Texts : g \cup h \in Texts
  BY DEF Texts

LEMMA EndScanTypes ==
    ASSUME AuditTypes, World, NEW f \in Paths \cup {Root}, NEW g \in BOOLEAN, EndScan(f, g)
    PROVE  AuditTypes'
<1>1. told' \in Told /\ told'.found = told.found
  BY WalkKinds DEF EndScan, Told
<1>2. WalkIs(walk')
  BY KindOfWalk DEF EndScan, Idle
<1> QED
  BY <1>1, <1>2, WorldKept, TypesStep DEF AuditTypes

LEMMA OpensIs == \A p : Opens(p) \in BOOLEAN
  BY DEF Opens

LEMMA ScanDirTypes == ASSUME AuditTypes, ScanDir PROVE AuditTypes'
<1>1. World /\ walk.doing = "markers" /\ walk \in Scans /\ told \in Told
  BY WalkKinds DEF ScanDir, World
<1>2. CASE walk.stack = <<>>
  BY <1>1, <1>2, EndScanTypes DEF ScanDir, AuditTypes
<1>3. CASE walk.stack # <<>>
  <2> DEFINE d == Last(walk.stack)
  <2>1. Front(walk.stack) \in Stack /\ d \in Paths \cup {Root}
    BY <1>1, <1>3, TopOf DEF Scans, Stack
  <2>2. walk' = [walk EXCEPT !.stack = Front(@), !.left = Entries(d)]
        /\ told' = [told EXCEPT !.scanIncomplete = @ \/ ~Opens(d)]
    BY <1>3 DEF ScanDir
  <2>3. Entries(d) \subseteq Paths
    BY <2>1, EntriesAre
  <2> HIDE DEF d
  <2>4. walk' \in Scans
    BY <1>1, <2>1, <2>2, <2>3 DEF Scans
  <2>5. told' \in Told /\ told'.found = told.found
    BY <1>1, <2>2 DEF Told
  <2> QED
    BY <1>1, <2>4, <2>5, KindOfWalk, WorldKept, TypesStep DEF AuditTypes
<1> QED
  BY <1>2, <1>3

LEMMA FindMarkerTypes == ASSUME AuditTypes, findNestedMarker PROVE AuditTypes'
<1>1. World /\ walk.doing = "markers" /\ walk \in Scans
  BY WalkKinds DEF findNestedMarker, World
<1>2. PICK p \in walk.left :
        LET rest == [walk EXCEPT !.left = @ \ {p}] IN
        \/ walk' = rest /\ told' = told
        \/ EndScan(p, FALSE)
        \/ EndScan(Root, TRUE)
        \/ walk' = [rest EXCEPT !.discovered = @ + 1, !.stack = Append(@, p)] /\ told' = told
  BY DEF findNestedMarker
<1>3. p \in Paths
  BY <1>1 DEF Scans
<1>4. Append(walk.stack, p) \in Stack
  BY <1>1, <1>3, PushedOn DEF Scans, Stack
<1>5. CASE EndScan(p, FALSE) \/ EndScan(Root, TRUE)
  BY <1>1, <1>3, <1>5, EndScanTypes
<1>6. CASE ~(EndScan(p, FALSE) \/ EndScan(Root, TRUE))
  <2>1. \/ walk' = [walk EXCEPT !.left = @ \ {p}]
        \/ walk' = [[walk EXCEPT !.left = @ \ {p}] EXCEPT !.discovered = @ + 1, !.stack = Append(@, p)]
    BY <1>2, <1>6
  <2>2. told' = told
    BY <1>2, <1>6
  <2>3. [walk EXCEPT !.left = @ \ {p}] \in Scans
    BY <1>1 DEF Scans
  <2>4. [[walk EXCEPT !.left = @ \ {p}] EXCEPT !.discovered = @ + 1, !.stack = Append(@, p)] \in Scans
    <3>1. walk.discovered + 1 \in Nat
      BY <1>1 DEF Scans
    <3> QED
      BY <1>1, <1>4, <3>1 DEF Scans
  <2>5. walk' \in Scans
    BY <2>1, <2>3, <2>4
  <2> QED
    BY <1>1, <2>2, <2>5, KindOfWalk, OnlyWalks
<1> QED
  BY <1>5, <1>6

LEMMA SizingIs ==
    ASSUME AuditTypes, NEW for \in {"store", "watched"}, NEW p \in Paths, NEW max \in Nat, NEW entries \in Nat, NEW search
    PROVE  /\ for = "store" /\ search = {} => Sizing(for, p, max, entries, search) \in SizingsFor("store", {{}})
           /\ for = "watched" /\ search \in Searches =>
                Sizing(for, p, max, entries, search) \in SizingsFor("watched", Searches)
<1>1. Entries(p) \in SUBSET Paths
  BY EntriesAre
<1>2. <<Entries(p)>> \in Seq(SUBSET Paths) /\ {} \in Texts
  BY <1>1, GapsAreTexts
<1> QED
  BY <1>2 DEF Sizing, SizingsFor

LEMMA SizeStoreTypes == ASSUME AuditTypes, sizeStore PROVE AuditTypes'
<1>1. World /\ told \in Told
  BY WalkKinds DEF sizeStore, World
<1>2. CASE Opens(OwnMarker)
  <2>1. OwnMarker \in Paths
    BY <1>2 DEF Opens, There, Paths, Root, OwnMarker
  <2>2. walk' = Sizing("store", OwnMarker, limits.storeEntries, 1, {}) /\ told' = told
    BY <1>2 DEF sizeStore
  <2>3. limits.storeEntries \in Nat /\ 1 \in Nat
    BY WorktreeIs
  <2>4. walk' \in SizingsFor("store", {{}})
    BY <2>1, <2>2, <2>3, SizingIs
  <2> QED
    BY <1>1, <2>2, <2>4, KindOfWalk, OnlyWalks
<1>3. CASE ~Opens(OwnMarker)
  <2>1. Unmeasured("unavailable") \in Figures
    BY GapsAreTexts DEF Unmeasured, Figures
  <2>2. told' \in Told /\ told'.found = told.found /\ walk' = Idle("watched")
    BY <1>1, <1>3, <2>1 DEF sizeStore, Told
  <2>3. WalkIs(walk')
    BY <2>2, KindOfWalk DEF Idle
  <2> QED
    BY <1>1, <2>2, <2>3, WorldKept, TypesStep DEF AuditTypes
<1> QED
  BY <1>2, <1>3

LEMMA MeasureStoreTypes == ASSUME AuditTypes, measureStore PROVE AuditTypes'
<1>1. World /\ told \in Told /\ walk \in SizingsFor("store", {{}})
  BY WalkKinds DEF measureStore, Sized, World
<1>2. Measured(walk.bytes, walk.gaps) \in Figures
  BY <1>1 DEF SizingsFor, Measured, Figures
<1>3. told' \in Told /\ told'.found = told.found /\ walk' = Idle("watched")
  BY <1>1, <1>2 DEF measureStore, Told
<1>4. WalkIs(walk')
  BY <1>3, KindOfWalk DEF Idle
<1> QED
  BY <1>1, <1>3, <1>4, WorldKept, TypesStep DEF AuditTypes

(* What a step of sizing does to the walk. *)
SizeStep(w, p, rest) ==
    \/ Skips(p) /\ w = [walk EXCEPT !.open = rest]
    \/ /\ walk.entries >= walk.max
       /\ w = [walk EXCEPT !.open = <<>>, !.gaps = @ \cup {"budget"}]
    \/ /\ walk.entries < walk.max /\ ~Skips(p)
       /\ \/ /\ ~There(p) \/ (tree[p].kind # "file" /\ ~IsDir(p))
             /\ w = [walk EXCEPT !.open = rest, !.entries = @ + 1]
          \/ /\ tree[p].kind = "file"
             /\ w = [walk EXCEPT !.open = rest, !.entries = @ + 1, !.bytes = @ + tree[p].size]
          \/ \E g \in {"unreadable", "depth"} :
                w = [walk EXCEPT !.open = rest, !.entries = @ + 1, !.gaps = @ \cup {g}]
          \/ /\ tree[p].kind # "file" /\ Opens(p)
             /\ w = [walk EXCEPT !.open = Append(rest, Entries(p)), !.entries = @ + 1]
Less(p) == [walk.open EXCEPT ![Len(walk.open)] = @ \ {p}]

LEMMA OpenIs ==
    ASSUME AuditTypes, walk.doing = "sizing", walk.open # <<>>
    PROVE  /\ walk.open \in Seq(SUBSET Paths) /\ Len(walk.open) \in Nat /\ Len(walk.open) >= 1
           /\ DOMAIN walk.open = 1..Len(walk.open) /\ Last(walk.open) = walk.open[Len(walk.open)]
           /\ \A i \in DOMAIN walk.open : walk.open[i] \in SUBSET Paths
           /\ \A p \in Paths : /\ Less(p) \in Seq(SUBSET Paths) /\ DOMAIN Less(p) = DOMAIN walk.open
                               /\ Len(Less(p)) = Len(walk.open)
                               /\ Less(p)[Len(walk.open)] = Last(walk.open) \ {p}
                               /\ \A i \in DOMAIN walk.open : i # Len(walk.open) => Less(p)[i] = walk.open[i]
<1>1. walk.open \in Seq(SUBSET Paths)
  BY WalkKinds DEF SizingsFor
<1>2. /\ Len(walk.open) \in Nat /\ Len(walk.open) >= 1 /\ DOMAIN walk.open = 1..Len(walk.open)
      /\ Last(walk.open) = walk.open[Len(walk.open)]
  BY <1>1, TopOf
<1>3. \A i \in DOMAIN walk.open : walk.open[i] \in SUBSET Paths
  BY <1>1, <1>2, ElementOfSeq
<1>4. ASSUME NEW p \in Paths
      PROVE  /\ Less(p) \in Seq(SUBSET Paths) /\ DOMAIN Less(p) = DOMAIN walk.open
             /\ Len(Less(p)) = Len(walk.open)
             /\ Less(p)[Len(walk.open)] = Last(walk.open) \ {p}
             /\ \A i \in DOMAIN walk.open : i # Len(walk.open) => Less(p)[i] = walk.open[i]
  <2> DEFINE n == Len(walk.open)
             o == walk.open
             l == Less(p)
  <2>1. l \in [1..n -> SUBSET Paths] /\ DOMAIN l = 1..n /\ l[n] = o[n] \ {p}
        /\ \A i \in 1..n : i # n => l[i] = o[i]
    BY <1>1, <1>2, <1>3 DEF Less
  <2> HIDE DEF l
  <2>2. n \in Nat
    BY <1>2
  <2> HIDE DEF n
  <2>3. l \in Seq(SUBSET Paths) /\ Len(l) = n
    BY <2>1, <2>2, SeqDef, LenProperties
  <2> QED
    BY <1>2, <2>1, <2>3 DEF l, n
<1> QED
  BY <1>1, <1>2, <1>3, <1>4

LEMMA SizeStepIs ==
    ASSUME AuditTypes, walk.doing = "sizing", walk.open # <<>>, NEW p \in Last(walk.open)
    PROVE  SizeStep(SizeEntry(p), p, Less(p))
<1>1. [walk EXCEPT !.open[Len(walk.open)] = @ \ {p}] = [walk EXCEPT !.open = Less(p)]
  BY DEF Less
<1> DEFINE rest == [walk EXCEPT !.open = Less(p)]
           met == [rest EXCEPT !.entries = @ + 1]
<1>2. walk.entries \in Nat /\ walk.max \in Nat
  BY WalkKinds DEF SizingsFor
<1>3. /\ met = [walk EXCEPT !.open = Less(p), !.entries = @ + 1]
      /\ [met EXCEPT !.bytes = @ + tree[p].size]
            = [walk EXCEPT !.open = Less(p), !.entries = @ + 1, !.bytes = @ + tree[p].size]
      /\ \A g : [met EXCEPT !.gaps = @ \cup {g}]
            = [walk EXCEPT !.open = Less(p), !.entries = @ + 1, !.gaps = @ \cup {g}]
      /\ [met EXCEPT !.open = Append(@, Entries(p))]
            = [walk EXCEPT !.open = Append(Less(p), Entries(p)), !.entries = @ + 1]
  <2>1. walk \in SizingsFor("store", {{}}) \/ walk \in SizingsFor("watched", Searches)
    BY WalkKinds
  <2> QED
    BY <2>1 DEF SizingsFor
<1>4. \/ Skips(p) /\ SizeEntry(p) = rest
      \/ walk.entries >= walk.max /\ SizeEntry(p) = [walk EXCEPT !.open = <<>>, !.gaps = @ \cup {"budget"}]
      \/ /\ ~(walk.entries >= walk.max) /\ ~Skips(p)
         /\ \/ (~There(p) \/ (tree[p].kind # "file" /\ ~IsDir(p))) /\ SizeEntry(p) = met
            \/ tree[p].kind = "file" /\ SizeEntry(p) = [met EXCEPT !.bytes = @ + tree[p].size]
            \/ \E g \in {"unreadable", "depth"} : SizeEntry(p) = [met EXCEPT !.gaps = @ \cup {g}]
            \/ tree[p].kind # "file" /\ Opens(p) /\ SizeEntry(p) = [met EXCEPT !.open = Append(@, Entries(p))]
  <2> DEFINE old == [walk EXCEPT !.open[Len(walk.open)] = @ \ {p}]
  <2>1. old = rest
    BY <1>1
  <2> HIDE DEF rest
  <2>2. SizeEntry(p) =
            IF Skips(p) THEN old
            ELSE IF walk.entries >= walk.max THEN [walk EXCEPT !.open = <<>>, !.gaps = @ \cup {"budget"}]
            ELSE IF ~There(p) THEN [old EXCEPT !.entries = @ + 1]
            ELSE IF tree[p].kind = "file" THEN [[old EXCEPT !.entries = @ + 1] EXCEPT !.bytes = @ + tree[p].size]
            ELSE IF tree[p].kind = "opaque" THEN [[old EXCEPT !.entries = @ + 1] EXCEPT !.gaps = @ \cup {"unreadable"}]
            ELSE IF ~IsDir(p) THEN [old EXCEPT !.entries = @ + 1]
            ELSE IF Len(walk.open) >= limits.depth
                 THEN [[old EXCEPT !.entries = @ + 1] EXCEPT !.gaps = @ \cup {"depth"}]
            ELSE IF ~Opens(p) THEN [[old EXCEPT !.entries = @ + 1] EXCEPT !.gaps = @ \cup {"unreadable"}]
            ELSE [[old EXCEPT !.entries = @ + 1] EXCEPT !.open = Append(@, Entries(p))]
    BY Zenon DEF SizeEntry
  <2> HIDE DEF old
  <2> QED
    BY <2>1, <2>2
<1> HIDE DEF met
<1>5. walk.entries < walk.max <=> ~(walk.entries >= walk.max)
  BY <1>2
<1> QED
  BY <1>3, <1>4, <1>5 DEF SizeStep

LEMMA SizeWalkTypes == ASSUME AuditTypes, sizeWalk PROVE AuditTypes'
<1>1. World /\ told' = told /\ walk.doing = "sizing" /\ walk.open # <<>>
  BY DEF sizeWalk, World
<1>2. walk \in SizingsFor("store", {{}}) \/ walk \in SizingsFor("watched", Searches)
  BY <1>1, WalkKinds
<1>3. CASE Last(walk.open) = {}
  <2>1. Front(walk.open) \in Seq(SUBSET Paths)
    BY <1>1, OpenIs, TopOf
  <2>2. walk' \in SizingsFor("store", {{}}) \/ walk' \in SizingsFor("watched", Searches)
    BY <1>2, <1>3, <2>1 DEF sizeWalk, SizingsFor
  <2> QED
    BY <1>1, <2>2, KindOfWalk, OnlyWalks
<1>4. CASE Last(walk.open) # {}
  <2>1. PICK p \in Last(walk.open) : walk' = SizeEntry(p)
    BY <1>4 DEF sizeWalk
  <2>2. p \in Paths /\ SizeStep(walk', p, Less(p))
    BY <1>1, <2>1, OpenIs, SizeStepIs
  <2>3. Less(p) \in Seq(SUBSET Paths) /\ Append(Less(p), Entries(p)) \in Seq(SUBSET Paths)
    <3>1. Less(p) \in Seq(SUBSET Paths) /\ Entries(p) \in SUBSET Paths
      BY <1>1, <2>2, OpenIs, EntriesAre
    <3> QED
      BY <3>1, AppendProperties
  <2>4. tree[p].size \in Nat
    BY <2>2, WorktreeIs
  <2>5. \A g \in Texts : g \cup {"budget"} \in Texts /\ g \cup {"unreadable"} \in Texts /\ g \cup {"depth"} \in Texts
    BY GapsAreTexts
  <2>6. walk' \in SizingsFor("store", {{}}) \/ walk' \in SizingsFor("watched", Searches)
    <3>1. ASSUME NEW for, NEW ss, walk \in SizingsFor(for, ss) PROVE walk' \in SizingsFor(for, ss)
      <4>1. <<>> \in Seq(SUBSET Paths) /\ walk.entries + 1 \in Nat /\ walk.bytes + tree[p].size \in Nat
        BY <2>4, <3>1 DEF SizingsFor
      <4>2. ASSUME walk' = [walk EXCEPT !.open = <<>>, !.gaps = @ \cup {"budget"}]
            PROVE  walk' \in SizingsFor(for, ss)
        BY <2>5, <3>1, <4>1, <4>2 DEF SizingsFor
      <4>3. ASSUME walk' = [walk EXCEPT !.open = Less(p), !.entries = @ + 1, !.bytes = @ + tree[p].size]
            PROVE  walk' \in SizingsFor(for, ss)
        BY <2>3, <4>1, <3>1, <4>3 DEF SizingsFor
      <4>4. ASSUME NEW g \in {"unreadable", "depth"},
                   walk' = [walk EXCEPT !.open = Less(p), !.entries = @ + 1, !.gaps = @ \cup {g}]
            PROVE  walk' \in SizingsFor(for, ss)
        BY <2>3, <2>5, <4>1, <3>1, <4>4 DEF SizingsFor
      <4>5. ASSUME walk' = [walk EXCEPT !.open = Append(Less(p), Entries(p)), !.entries = @ + 1]
            PROVE  walk' \in SizingsFor(for, ss)
        BY <2>3, <4>1, <3>1, <4>5 DEF SizingsFor
      <4>6. ASSUME \/ walk' = [walk EXCEPT !.open = Less(p)]
                   \/ walk' = [walk EXCEPT !.open = Less(p), !.entries = @ + 1]
            PROVE  walk' \in SizingsFor(for, ss)
        BY <2>3, <4>1, <3>1, <4>6 DEF SizingsFor
      <4> QED
        BY <2>2, <4>2, <4>3, <4>4, <4>5, <4>6 DEF SizeStep
    <3> QED
      BY <1>2, <3>1
  <2> QED
    BY <1>1, <2>6, KindOfWalk, OnlyWalks
<1> QED
  BY <1>3, <1>4

LEMMA SearchIs ==
    ASSUME NEW stack, stack \in Stack, NEW left \in SUBSET Paths, NEW n \in Nat
    PROVE  Search(stack, left, n) \in Searches /\ Search(stack, left, n).stack = stack /\ Search(stack, left, n).left = left
  BY DEF Search, Searches, Stack

LEMMA AuditWatchedTypes == ASSUME AuditTypes, auditWatched PROVE AuditTypes'
<1>1. World /\ told' = told /\ walk' = Search(<<Root>>, {}, 1)
  BY DEF auditWatched, World
<1>2. <<Root>> \in Stack
  BY DEF Stack
<1>3. walk' \in Searches
  BY <1>1, <1>2, SearchIs
<1> QED
  BY <1>1, <1>3, KindOfWalk, OnlyWalks

LEMMA EndSearchTypes ==
    ASSUME AuditTypes, World, NEW gaps \in Texts, walk' = Idle("done"), NEW t \in Told, t.found = told.found,
           told' = [t EXCEPT !.searchGaps = @ \cup gaps]
    PROVE  AuditTypes'
<1>1. t.searchGaps \cup gaps \in Texts
  BY GapsAreTexts DEF Told
<1>2. told' \in Told /\ told'.found = told.found
  BY <1>1 DEF Told
<1>3. WalkIs(walk')
  BY KindOfWalk DEF Idle
<1> QED
  BY <1>2, <1>3, WorldKept, TypesStep DEF AuditTypes

LEMMA SearchDirTypes == ASSUME AuditTypes, SearchDir PROVE AuditTypes'
<1>1. World /\ walk.doing = "search" /\ walk \in Searches /\ told \in Told
  BY WalkKinds DEF SearchDir, World
<1>2. CASE walk.stack = <<>>
  BY <1>1, <1>2, EndSearchTypes, GapsAreTexts DEF SearchDir, EndSearch
<1>3. CASE walk.stack # <<>>
  <2> DEFINE d == Last(walk.stack)
  <2>1. Front(walk.stack) \in Stack /\ d \in Paths \cup {Root} /\ walk.committed \in Nat
    BY <1>1, <1>3, TopOf DEF Searches, Stack
  <2>2. walk' = Search(Front(walk.stack), Entries(d), walk.committed)
        /\ told' = IF Opens(d) THEN told ELSE [told EXCEPT !.searchGaps = @ \cup {"unreadable"}]
    BY <1>3 DEF SearchDir
  <2>3. Entries(d) \subseteq Paths
    BY <2>1, EntriesAre
  <2> HIDE DEF d
  <2>4. walk' \in Searches
    BY <2>1, <2>2, <2>3, SearchIs
  <2>5. told.searchGaps \cup {"unreadable"} \in Texts
    BY <1>1, GapsAreTexts DEF Told
  <2>6. told' \in Told /\ told'.found = told.found
    BY <1>1, <2>2, <2>5 DEF Told
  <2> QED
    BY <1>1, <2>4, <2>6, KindOfWalk, WorldKept, TypesStep DEF AuditTypes
<1> QED
  BY <1>2, <1>3

(* What a step of the search does. *)
Met == [told EXCEPT !.examined = @ + 1]
Rest(p) == [walk EXCEPT !.left = @ \ {p}]
SearchStep(p) ==
    \/ told.examined >= limits.searchEntries /\ EndSearch({"budget"})
    \/ /\ ~(told.examined >= limits.searchEntries)
       /\ \/ /\ Name(p) \in ProtectedNames \/ ~IsDir(p)
             /\ walk' = Rest(p) /\ told' = Met
          \/ /\ ~(Name(p) \in ProtectedNames) /\ IsDir(p) /\ Selects(p)
             /\ walk' = [doing |-> "measure", at |-> p, search |-> Rest(p)] /\ told' = Met
          \/ /\ walk' = Idle("done") /\ told' = [Met EXCEPT !.searchGaps = @ \cup {"budget"}]
          \/ /\ ~(Name(p) \in ProtectedNames) /\ IsDir(p) /\ ~Selects(p)
             /\ walk' = [Rest(p) EXCEPT !.committed = @ + 1, !.stack = Append(@, p)] /\ told' = Met

LEMMA SearchStepIs == ASSUME SearchEntry PROVE \E p \in walk.left : SearchStep(p)
  BY DEF SearchEntry, SearchStep, Met, Rest

LEMMA RestIs ==
    ASSUME AuditTypes, walk \in Searches, NEW p \in walk.left
    PROVE  /\ Rest(p) \in Searches /\ Rest(p).stack = walk.stack /\ Rest(p).left = walk.left \ {p}
           /\ [Rest(p) EXCEPT !.committed = @ + 1, !.stack = Append(@, p)] \in Searches
           /\ [Rest(p) EXCEPT !.committed = @ + 1, !.stack = Append(@, p)].stack = Append(walk.stack, p)
           /\ [Rest(p) EXCEPT !.committed = @ + 1, !.stack = Append(@, p)].left = walk.left \ {p}
           /\ Met \in Told /\ Met.found = told.found /\ Met = [told EXCEPT !.examined = told.examined + 1]
<1>1. p \in Paths /\ walk.committed + 1 \in Nat /\ walk.stack \in Stack
  BY DEF Searches, Stack
<1>2. Append(walk.stack, p) \in Stack
  BY <1>1, PushedOn DEF Stack
<1>3. Rest(p) \in Searches /\ Rest(p).stack = walk.stack /\ Rest(p).left = walk.left \ {p} /\ Rest(p).committed = walk.committed
  BY DEF Rest, Searches
<1>4. told \in Told /\ told.examined + 1 \in Nat
  BY WalkKinds DEF Told
<1>5. Met \in Told /\ Met.found = told.found /\ Met = [told EXCEPT !.examined = told.examined + 1]
  BY <1>4 DEF Met, Told
<1> DEFINE r == Rest(p)
<1> HIDE DEF r
<1>6. /\ [r EXCEPT !.committed = @ + 1, !.stack = Append(@, p)] \in Searches
      /\ [r EXCEPT !.committed = @ + 1, !.stack = Append(@, p)].stack = Append(walk.stack, p)
      /\ [r EXCEPT !.committed = @ + 1, !.stack = Append(@, p)].left = walk.left \ {p}
  BY <1>1, <1>2, <1>3 DEF r, Searches, Stack
<1> QED
  BY <1>3, <1>5, <1>6 DEF r

LEMMA SearchEntryTypes == ASSUME AuditTypes, SearchEntry PROVE AuditTypes'
<1>1. World /\ walk.doing = "search" /\ walk \in Searches /\ told \in Told
  BY WalkKinds DEF SearchEntry, World
<1>2. PICK p \in walk.left : SearchStep(p)
  BY SearchStepIs
<1>3. p \in Paths
  BY <1>1 DEF Searches
<1>4. CASE EndSearch({"budget"})
  BY <1>1, <1>4, EndSearchTypes, GapsAreTexts DEF EndSearch
<1>5. CASE walk' = Idle("done") /\ told' = [Met EXCEPT !.searchGaps = @ \cup {"budget"}]
  <2>1. Met \in Told /\ Met.found = told.found
    BY <1>1, RestIs
  <2> QED
    BY <1>1, <1>5, <2>1, EndSearchTypes, GapsAreTexts
<1>6. CASE told' = Met /\ \/ walk' = Rest(p)
                          \/ walk' = [doing |-> "measure", at |-> p, search |-> Rest(p)]
                          \/ walk' = [Rest(p) EXCEPT !.committed = @ + 1, !.stack = Append(@, p)]
  <2>1. Rest(p) \in Searches /\ [Rest(p) EXCEPT !.committed = @ + 1, !.stack = Append(@, p)] \in Searches
        /\ told' \in Told /\ told'.found = told.found
    BY <1>1, <1>6, RestIs
  <2>2. [doing |-> "measure", at |-> p, search |-> Rest(p)] \in Measurings
    BY <1>3, <2>1 DEF Measurings
  <2>3. WalkIs(walk')
    BY <1>6, <2>1, <2>2, KindOfWalk
  <2> QED
    BY <1>1, <2>1, <2>3, WorldKept, TypesStep DEF AuditTypes
<1> QED
  BY <1>2, <1>4, <1>5, <1>6, Zenon DEF SearchStep

(* A watched root is tallied. *)
Row(p, m) == [path |-> p, is |-> m]
LEMMA TallyIs ==
    ASSUME AuditTypes, NEW p \in Paths, NEW m \in Figures
    PROVE  /\ Row(p, m) \in Rows /\ Row(p, m).path = p /\ Row(p, m).is = m
           /\ Add(Row(p, m)) \in Seq(Rows)
           /\ Tally(p, m) \in Told
           /\ Tally(p, m) = [told EXCEPT !.found = told.found \cup {Row(p, m)}, !.detail = Add(Row(p, m)),
                                         !.observed = told.observed + m.bytes,
                                         !.reaching = told.reaching + (IF Reaches(m) THEN 1 ELSE 0)]
           /\ IsFiniteSet(Tally(p, m).found) /\ Tally(p, m).spare = told.spare
<1> DEFINE r == Row(p, m)
<1>1. r \in Rows /\ r.path = p /\ r.is = m
  BY DEF Row, Rows
<1>2. told \in Told /\ IsFiniteSet(told.found) /\ told.detail \in Seq(Rows) /\ m.bytes \in Nat /\ limits.detail \in Nat
  BY WalkKinds, WorktreeIs DEF AuditTypes, Told, Figures
<1> HIDE DEF r
<1>3. Add(r) \in Seq(Rows)
  <2> DEFINE d == told.detail
             T == {i \in DOMAIN d : ~ranksBefore(r, d[i])}
  <2>1. d \in Seq(Rows) /\ Len(d) \in Nat /\ DOMAIN d = 1..Len(d)
    BY <1>2, LenProperties
  <2> HIDE DEF d
  <2>2. Cardinality(T) \in Nat /\ Cardinality(T) <= Len(d)
    <3>1. IsFiniteSet(1..Len(d)) /\ Cardinality(1..Len(d)) = Len(d)
      BY <2>1, FS_Interval
    <3>2. T \in SUBSET (1..Len(d))
      BY <2>1
    <3> HIDE DEF T
    <3>3. IsFiniteSet(T) /\ Cardinality(T) <= Len(d)
      BY <3>1, <3>2, FS_Subset
    <3> QED
      BY <3>3, FS_CardinalityType
  <2> DEFINE b == Cardinality(T)
             grown == SubSeq(d, 1, b) \o <<r>> \o SubSeq(d, b + 1, Len(d))
             n == IF Len(grown) < limits.detail THEN Len(grown) ELSE limits.detail
  <2> HIDE DEF b, T
  <2>3. \A i \in 1..Len(d) : d[i] \in Rows
    BY <2>1, ElementOfSeq
  <2>4. SubSeq(d, 1, b) \in Seq(Rows) /\ SubSeq(d, b + 1, Len(d)) \in Seq(Rows)
    <3>1. b \in Nat /\ b <= Len(d)
      BY <2>2 DEF b
    <3>2. \A i \in 1..b : d[i] \in Rows
      BY <2>1, <2>3, <3>1
    <3>3. \A i \in (b + 1)..Len(d) : d[i] \in Rows
      BY <2>1, <2>3, <3>1
    <3> QED
      BY <2>1, <3>1, <3>2, <3>3, SubSeqProperties
  <2>5. grown \in Seq(Rows)
    BY <1>1, <2>4, ConcatProperties
  <2> HIDE DEF grown
  <2>6. SubSeq(grown, 1, n) \in Seq(Rows)
    <3>1. Len(grown) \in Nat /\ \A i \in 1..Len(grown) : grown[i] \in Rows
      BY <2>5, LenProperties, ElementOfSeq
    <3>2. n \in Nat /\ n <= Len(grown)
      BY <1>2, <3>1
    <3> HIDE DEF n
    <3>3. \A i \in 1..n : grown[i] \in Rows
      BY <3>1, <3>2
    <3> QED
      BY <3>3, <3>2, SubSeqProperties
  <2>7. Add(r) = SubSeq(grown, 1, n)
    BY DEF Add, grown, b, T, d
  <2> QED
    BY <2>6, <2>7
<1>4. Tally(p, m) = [told EXCEPT !.found = told.found \cup {r}, !.detail = Add(r),
                                 !.observed = told.observed + m.bytes,
                                 !.reaching = told.reaching + (IF Reaches(m) THEN 1 ELSE 0)]
  BY <1>2 DEF Tally, r, Row
<1>5. told.observed + m.bytes \in Nat /\ told.reaching + (IF Reaches(m) THEN 1 ELSE 0) \in Nat
  BY <1>2 DEF Told
<1>6. Tally(p, m) \in Told /\ Tally(p, m).found = told.found \cup {r} /\ Tally(p, m).spare = told.spare
  <2> DEFINE n == told.reaching + (IF Reaches(m) THEN 1 ELSE 0)
             o == told.observed + m.bytes
             f == told.found \cup {r}
             a == Add(r)
  <2>1. n \in Nat /\ o \in Nat /\ f \in SUBSET Rows /\ a \in Seq(Rows)
    BY <1>1, <1>2, <1>3, <1>5 DEF Told
  <2>2. Tally(p, m) = [told EXCEPT !.found = f, !.detail = a, !.observed = o, !.reaching = n]
    BY <1>4
  <2> HIDE DEF n, o, f, a
  <2>3. Tally(p, m) \in Told /\ Tally(p, m).found = f /\ Tally(p, m).spare = told.spare
    BY <1>2, <2>1, <2>2 DEF Told
  <2> QED
    BY <2>3 DEF f
<1>7. IsFiniteSet(told.found \cup {r})
  BY <1>2, FS_AddElement
<1> QED
  BY <1>1, <1>3, <1>4, <1>6, <1>7 DEF r

LEMMA SizeWatchedTypes == ASSUME AuditTypes, sizeWatchedRoot PROVE AuditTypes'
<1>1. World /\ walk.doing = "measure" /\ walk \in Measurings /\ told \in Told
  BY WalkKinds DEF sizeWatchedRoot, World
<1>2. walk.at \in Paths /\ walk.search \in Searches /\ told.spare \in Nat /\ limits.rootEntries \in Nat
  BY <1>1, WorktreeIs DEF Measurings, Told
<1>3. CASE told.spare <= 0 \/ ~Opens(walk.at)
  <2> DEFINE m == Unmeasured(IF told.spare <= 0 THEN "aggregate" ELSE "unavailable")
  <2>1. told' = Tally(walk.at, m) /\ walk' = walk.search
    BY <1>3 DEF sizeWatchedRoot
  <2>2. m \in Figures
    BY GapsAreTexts DEF Unmeasured, Figures
  <2> HIDE DEF m
  <2>3. told' \in Told /\ IsFiniteSet(told'.found)
    BY <1>2, <2>1, <2>2, TallyIs
  <2>4. WalkIs(walk')
    BY <1>2, <2>1, KindOfWalk
  <2> QED
    BY <1>1, <2>3, <2>4, WorldKept, TypesStep
<1>4. CASE ~(told.spare <= 0 \/ ~Opens(walk.at))
  <2>1. walk' = Sizing("watched", walk.at, Least(limits.rootEntries, told.spare), 0, walk.search) /\ told' = told
    BY <1>4 DEF sizeWatchedRoot
  <2>2. Least(limits.rootEntries, told.spare) \in Nat
    BY <1>2 DEF Least
  <2>3. walk' \in SizingsFor("watched", Searches)
    BY <1>2, <2>1, <2>2, SizingIs
  <2> QED
    BY <1>1, <2>1, <2>3, KindOfWalk, OnlyWalks
<1> QED
  BY <1>3, <1>4

FinalGaps == {IF g = "budget" /\ walk.max < limits.rootEntries THEN "aggregate" ELSE g : g \in walk.gaps}
LEMMA MeasureIs ==
    ASSUME AuditTypes, SizeInv, measure
    PROVE  LET m == Measured(walk.bytes, FinalGaps) IN
           /\ World /\ walk \in SizingsFor("watched", Searches) /\ walk.root \in Paths /\ walk.search \in Searches
           /\ m \in Figures /\ (m.gaps = {} <=> walk.gaps = {})
           /\ walk' = walk.search
           /\ told' = [Tally(walk.root, m) EXCEPT !.spare = told.spare - walk.entries]
           /\ told' \in Told /\ told'.found = Tally(walk.root, m).found
<1> DEFINE m == Measured(walk.bytes, FinalGaps)
<1>1. World /\ walk \in SizingsFor("watched", Searches) /\ walk.doing = "sizing" /\ walk.for = "watched"
  BY WalkKinds DEF measure, Sized, World
<1>2. walk.root \in Paths /\ walk.search \in Searches /\ walk.bytes \in Nat /\ walk.gaps \in Texts
      /\ walk.entries \in Nat /\ walk.max \in Nat
  BY <1>1 DEF SizingsFor
<1>3. FinalGaps \in Texts /\ (FinalGaps = {} <=> walk.gaps = {})
  BY <1>2 DEF FinalGaps, Texts
<1>4. m \in Figures /\ m.gaps = FinalGaps
  BY <1>2, <1>3 DEF Measured, Figures
<1>5. walk' = walk.search /\ told' = [Tally(walk.root, m) EXCEPT !.spare = @ - walk.entries]
  BY DEF measure, FinalGaps
<1> HIDE DEF m
<1>6. told \in Told /\ Tally(walk.root, m) \in Told /\ Tally(walk.root, m).spare = told.spare
  BY <1>2, <1>4, TallyIs, WalkKinds
<1>7. told.spare - walk.entries \in Nat
  <2>1. walk.entries <= walk.max /\ walk.max <= told.spare
    BY <1>1 DEF SizeInv
  <2>2. told.spare \in Nat
    BY <1>6 DEF Told
  <2> QED
    BY <1>2, <2>1, <2>2
<1>8. told' = [Tally(walk.root, m) EXCEPT !.spare = told.spare - walk.entries]
  BY <1>5, <1>6
<1>9. told' \in Told /\ told'.found = Tally(walk.root, m).found
  BY <1>6, <1>7, <1>8 DEF Told
<1> QED
  BY <1>1, <1>2, <1>3, <1>4, <1>5, <1>8, <1>9 DEF m

LEMMA MeasureTypes == ASSUME AuditTypes, SizeInv, measure PROVE AuditTypes'
<1> DEFINE m == Measured(walk.bytes, FinalGaps)
<1>1. /\ World /\ walk.root \in Paths /\ walk.search \in Searches /\ m \in Figures
      /\ walk' = walk.search /\ told' \in Told /\ told'.found = Tally(walk.root, m).found
  BY MeasureIs
<1> HIDE DEF m
<1>2. IsFiniteSet(told'.found)
  BY <1>1, TallyIs
<1>3. WalkIs(walk')
  BY <1>1, KindOfWalk
<1> QED
  BY <1>1, <1>2, <1>3, WorldKept, TypesStep

LEMMA Vanished ==
    ASSUME AuditTypes, NEW p \in DOMAIN tree, Vanish(p)
    PROVE  Later /\ walk' = walk /\ told' = told /\ vanished' \subseteq Paths /\ walk.doing # "done"
  BY DEF Vanish, Later, AuditTypes, Paths

LEMMA VanishTypes == ASSUME AuditTypes, NEW p \in DOMAIN tree, Vanish(p) PROVE AuditTypes'
<1>1. told' \in Told /\ IsFiniteSet(told'.found) /\ WalkIs(walk')
  BY Vanished, WalkKinds DEF AuditTypes
<1> QED
  BY <1>1, Vanished, TypesStep

-----------------------------------------------------------------------------
(* The marker scan. *)
Scanned(stack, left) ==
    /\ \A i \in DOMAIN stack : stack[i] # Root => IsDir(stack[i]) /\ Open(stack[i]) /\ Name(stack[i]) \notin ProtectedNames
    /\ \A p \in left : Open(p)
Covered(stack, left) == \A m \in Markers : There(m) => Ahead(m, stack, left)

LEMMA MarkersAre ==
    /\ Markers \subseteq Paths
    /\ \A m \in Markers : IsDir(m) /\ Name(m) = ".awa" /\ m # OwnMarker /\ Open(m)
  BY DEF Markers, Open, Paths

LEMMA StillScanning ==
    ASSUME AuditTypes, Later, walk'.doing = "markers", told'.marker = Root,
           Scanned(walk'.stack, walk'.left), ~told'.scanIncomplete => Covered(walk'.stack, walk'.left)
    PROVE  ScanInv'
<1>1. Markers' = Markers /\ (\A p : There(p)' => There(p)) /\ \A p : IsDir(p)' <=> IsDir(p)
  BY WorldLater
<1>2. \A i \in DOMAIN walk'.stack : walk'.stack[i] # Root =>
            tree'[walk'.stack[i]].kind \in {"dir", "closed"}
            /\ Open(walk'.stack[i]) /\ Name(walk'.stack[i]) \notin ProtectedNames
  BY DEF Scanned, IsDir, Later
<1> QED
  BY <1>1, <1>2 DEF ScanInv, Scanned, Covered, IsDir

LEMMA ScanIs ==
    ASSUME ScanInv, walk.doing = "markers"
    PROVE  /\ Scanned(walk.stack, walk.left) /\ told.marker = Root
           /\ ~told.scanIncomplete => Covered(walk.stack, walk.left)
  BY DEF ScanInv, Scanned, Covered

(* The names above an entry are those above its directory, and its own. *)
LEMMA EnclosingEntry ==
    ASSUME AuditTypes, NEW d \in Paths \cup {Root}, NEW c \in Entries(d), NEW q \in Enclosing(c)
    PROVE  d # Root /\ (q = d \/ q \in Enclosing(d))
<1>1. d \in Path /\ c \in Path /\ Len(c) = Len(d) + 1 /\ IsPrefix(d, c)
  BY EntriesAre, PlacesArePaths
<1>2. q \in Path /\ q # Root /\ q # c /\ IsPrefix(q, c)
  BY <1>1, EnclosingAre
<1>3. IsPrefix(q, d)
  BY <1>1, <1>2, LeadsToEntry
<1>4. d # Root
  <2>1. Len(q) <= Len(d) /\ Len(q) # 0 /\ Len(q) \in Nat
    BY <1>1, <1>2, <1>3, PrefixOrder, LengthIs
  <2> QED
    BY <2>1, RootLeads
<1> QED
  BY <1>1, <1>2, <1>3, <1>4, EnclosingAre

LEMMA ScanDirScans == ASSUME AuditTypes, ScanInv, ScanDir PROVE ScanInv'
<1>1. World /\ Later /\ walk.doing = "markers" /\ walk \in Scans /\ told \in Told /\ walk.left = {}
  BY WalkKinds, WorldKept DEF ScanDir, World
<1>2. /\ Scanned(walk.stack, walk.left) /\ told.marker = Root
      /\ ~told.scanIncomplete => Covered(walk.stack, walk.left)
  BY <1>1, ScanIs
<1>3. CASE walk.stack = <<>>
  <2>1. EndScan(Root, told.scanIncomplete)
    BY <1>3 DEF ScanDir
  <2>2. told'.marker = Root /\ told'.scanIncomplete = told.scanIncomplete /\ walk'.doing = "store"
    BY <1>1, <2>1 DEF EndScan, Idle, Told
  <2>3. ~told.scanIncomplete => ~\E m \in Markers : There(m)
    <3>1. \A m : ~Ahead(m, <<>>, {})
      BY DEF Ahead
    <3> QED
      BY <1>1, <1>2, <1>3, <3>1 DEF Covered
  <2> QED
    BY <1>1, <2>2, <2>3, WorldLater DEF ScanInv
<1>4. CASE walk.stack # <<>>
  <2> DEFINE d == Last(walk.stack)
  <2>1. walk' = [walk EXCEPT !.stack = Front(@), !.left = Entries(d)]
        /\ told' = [told EXCEPT !.scanIncomplete = @ \/ ~Opens(d)]
    BY <1>4 DEF ScanDir
  <2>2. walk'.doing = "markers" /\ walk'.stack = Front(walk.stack) /\ walk'.left = Entries(d)
        /\ told'.marker = Root /\ (told'.scanIncomplete <=> told.scanIncomplete \/ ~Opens(d))
    BY <1>1, <1>2, <2>1 DEF Scans, Told
  <2>3. /\ Len(walk.stack) \in Nat /\ Len(walk.stack) >= 1 /\ DOMAIN walk.stack = 1..Len(walk.stack)
        /\ d \in Paths \cup {Root} /\ d = walk.stack[Len(walk.stack)]
        /\ DOMAIN Front(walk.stack) = 1..(Len(walk.stack) - 1)
        /\ \A i \in 1..(Len(walk.stack) - 1) : Front(walk.stack)[i] = walk.stack[i]
    BY <1>1, <1>4, TopOf DEF Scans, Stack
  <2>4. ASSUME NEW c \in Entries(d) PROVE Open(c)
    <3>1. ASSUME NEW q \in Enclosing(c) PROVE Name(q) \notin ProtectedNames
      <4>1. d # Root /\ (q = d \/ q \in Enclosing(d))
        BY <2>3, EnclosingEntry
      <4>2. Open(d) /\ Name(d) \notin ProtectedNames
        BY <1>2, <2>3, <4>1 DEF Scanned
      <4> QED
        BY <4>1, <4>2 DEF Open
    <3> QED
      BY <3>1 DEF Open
  <2>5. Scanned(walk'.stack, walk'.left)
    <3>1. \A i \in DOMAIN Front(walk.stack) : i \in DOMAIN walk.stack /\ Front(walk.stack)[i] = walk.stack[i]
      BY <2>3
    <3> HIDE DEF d
    <3> QED
      BY <1>2, <2>2, <2>4, <3>1 DEF Scanned
  <2>6. ASSUME ~told'.scanIncomplete PROVE Covered(walk'.stack, walk'.left)
    <3>1. Opens(d) /\ Covered(walk.stack, {})
      BY <1>1, <1>2, <2>2, <2>6
    <3>2. ASSUME NEW m \in Markers, There(m) PROVE Ahead(m, Front(walk.stack), Entries(d))
      <4>1. Ahead(m, walk.stack, {}) /\ m \in Paths /\ walk.stack \in Stack
        BY <1>1, <3>1, <3>2, MarkersAre DEF Covered, Scans
      <4> QED
        BY <1>4, <3>1, <3>2, <4>1, ListedAhead
    <3> QED
      BY <2>2, <3>2 DEF Covered
  <2> QED
    BY <1>1, <2>2, <2>5, <2>6, StillScanning
<1> QED
  BY <1>3, <1>4

(* Nothing below p is missed when p is passed. *)
LEMMA NothingMissed ==
    ASSUME AuditTypes, NEW p \in Paths, NEW m \in Paths, p # m, IsPrefix(p, m)
    PROVE  IsDir(p) /\ p \in Enclosing(m)
<1>1. p \in Path /\ m \in Path /\ p # Root
  BY WorktreeIs
<1> QED
  BY <1>1, PrefixIsDir, EnclosingAre

LEMMA FindMarkerScans == ASSUME AuditTypes, ScanInv, findNestedMarker PROVE ScanInv'
<1>1. World /\ Later /\ walk.doing = "markers" /\ walk \in Scans /\ told \in Told
  BY WalkKinds, WorldKept DEF findNestedMarker, World
<1>2. /\ Scanned(walk.stack, walk.left) /\ told.marker = Root
      /\ ~told.scanIncomplete => Covered(walk.stack, walk.left)
  BY <1>1, ScanIs
<1>3. PICK p \in walk.left :
        LET rest == [walk EXCEPT !.left = @ \ {p}] IN
        \/ (~IsDir(p) \/ p = OwnMarker \/ Name(p) = ".git") /\ walk' = rest /\ told' = told
        \/ IsDir(p) /\ p # OwnMarker /\ Name(p) = ".awa" /\ EndScan(p, FALSE)
        \/ EndScan(Root, TRUE)
        \/ /\ IsDir(p) /\ p # OwnMarker /\ Name(p) # ".git" /\ Name(p) # ".awa"
           /\ walk' = [rest EXCEPT !.discovered = @ + 1, !.stack = Append(@, p)] /\ told' = told
  BY DEF findNestedMarker
<1>4. p \in Paths /\ Open(p) /\ p \in Path /\ p # Root
  BY <1>1, <1>2, WorktreeIs DEF Scans, Scanned
<1>5. ASSUME NEW m \in Markers, IsPrefix(p, m) PROVE IsDir(p) /\ Name(p) # ".git" /\ p # OwnMarker
  <2>1. m \in Paths /\ IsDir(m) /\ Name(m) = ".awa" /\ m # OwnMarker /\ Open(m)
    BY MarkersAre
  <2>2. CASE p = m
    BY <2>1, <2>2
  <2>3. CASE p # m
    <3>1. IsDir(p) /\ p \in Enclosing(m)
      BY <1>4, <1>5, <2>1, <2>3, NothingMissed
    <3>2. Name(p) \notin ProtectedNames
      BY <2>1, <3>1 DEF Open
    <3>3. Name(OwnMarker) = ".awa"
      BY DEF Name, OwnMarker, Last
    <3> QED
      BY <3>1, <3>2, <3>3 DEF ProtectedNames
  <2> QED
    BY <2>2, <2>3
<1>6. CASE (~IsDir(p) \/ p = OwnMarker \/ Name(p) = ".git") /\ walk' = [walk EXCEPT !.left = @ \ {p}] /\ told' = told
  <2>1. walk'.doing = "markers" /\ walk'.stack = walk.stack /\ walk'.left = walk.left \ {p}
    BY <1>1, <1>6 DEF Scans
  <2>2. ~told.scanIncomplete => Covered(walk.stack, walk.left \ {p})
    BY <1>2, <1>5, <1>6, PassedAhead DEF Covered
  <2>3. Scanned(walk.stack, walk.left \ {p})
    BY <1>2 DEF Scanned
  <2> QED
    BY <1>1, <1>2, <1>6, <2>1, <2>2, <2>3, StillScanning
<1>7. CASE IsDir(p) /\ p # OwnMarker /\ Name(p) = ".awa" /\ EndScan(p, FALSE)
  <2>1. told'.marker = p /\ walk'.doing = "store"
    BY <1>1, <1>7 DEF EndScan, Idle, Told
  <2>2. p \in Markers
    BY <1>4, <1>7 DEF Markers, Open, Paths
  <2> QED
    BY <1>1, <1>4, <2>1, <2>2, WorldLater DEF ScanInv
<1>8. CASE EndScan(Root, TRUE)
  <2>1. told'.marker = Root /\ told'.scanIncomplete /\ walk'.doing = "store"
    BY <1>1, <1>8 DEF EndScan, Idle, Told
  <2> QED
    BY <2>1 DEF ScanInv
<1>9. CASE /\ IsDir(p) /\ p # OwnMarker /\ Name(p) # ".git" /\ Name(p) # ".awa" /\ told' = told
           /\ walk' = [[walk EXCEPT !.left = @ \ {p}] EXCEPT !.discovered = @ + 1, !.stack = Append(@, p)]
  <2>1. walk'.doing = "markers" /\ walk'.stack = Append(walk.stack, p) /\ walk'.left = walk.left \ {p}
    BY <1>1, <1>9 DEF Scans
  <2>2. ~told.scanIncomplete => Covered(Append(walk.stack, p), walk.left \ {p})
    <3>1. walk.stack \in Stack /\ \A m \in Markers : p # m
      BY <1>1, <1>9, MarkersAre DEF Scans
    <3> QED
      BY <1>2, <1>4, <3>1, PushedAhead DEF Covered
  <2>3. Scanned(Append(walk.stack, p), walk.left \ {p})
    <3> DEFINE a == Append(walk.stack, p)
    <3>1. \A i \in DOMAIN a : (i \in DOMAIN walk.stack /\ a[i] = walk.stack[i]) \/ a[i] = p
      BY <1>1, <1>4, PushedOn DEF Scans, Stack
    <3> HIDE DEF a
    <3>2. Name(p) \notin ProtectedNames
      BY <1>9 DEF ProtectedNames
    <3>3. Scanned(a, walk.left \ {p})
      BY <1>2, <1>4, <1>9, <3>1, <3>2 DEF Scanned
    <3> QED
      BY <3>3 DEF a
  <2> QED
    BY <1>1, <1>2, <1>9, <2>1, <2>2, <2>3, StillScanning
<1> QED
  BY <1>3, <1>6, <1>7, <1>8, <1>9, Zenon

LEMMA ScanStill == ASSUME AuditTypes, ScanInv, Later, walk' = walk, told' = told PROVE ScanInv'
<1>1. CASE walk.doing = "markers"
  BY <1>1, ScanIs, StillScanning
<1>2. CASE walk.doing # "markers"
  BY <1>2, ScanRests
<1> QED
  BY <1>1, <1>2

-----------------------------------------------------------------------------
(* What a step after the scan leaves of what was established before it. *)
LEMMA AfterTheScan ==
    ASSUME AuditTypes, SizeInv, sizeStore \/ sizeWalk \/ measureStore
    PROVE  /\ Later /\ walk.doing # "markers" /\ walk'.doing # "markers"
           /\ told'.marker = told.marker /\ told'.scanIncomplete = told.scanIncomplete
<1>1. told \in Told
  BY WalkKinds
<1>2. CASE sizeStore
  BY <1>1, <1>2 DEF sizeStore, Later, Told, Sizing, Idle
<1>3. CASE measureStore
  BY <1>1, <1>3 DEF measureStore, Sized, Later, Told, Idle
<1>4. CASE sizeWalk
  <2>1. World /\ told' = told /\ walk.doing = "sizing" /\ walk.open # <<>>
    BY <1>4 DEF sizeWalk, World
  <2>2. walk'.doing = walk.doing
    <3>1. walk \in SizingsFor("store", {{}}) \/ walk \in SizingsFor("watched", Searches)
      BY <2>1, WalkKinds
    <3>2. CASE Last(walk.open) = {}
      BY <1>4, <3>1, <3>2 DEF sizeWalk, SizingsFor
    <3>3. CASE Last(walk.open) # {}
      <4>1. PICK p \in Last(walk.open) : walk' = SizeEntry(p)
        BY <1>4, <3>3 DEF sizeWalk
      <4>2. SizeStep(walk', p, Less(p))
        BY <2>1, <4>1, SizeStepIs
      <4> QED
        BY <3>1, <4>2 DEF SizeStep, SizingsFor
    <3> QED
      BY <3>2, <3>3
  <2> QED
    BY <2>1, <2>2, WorldKept
<1> QED
  BY <1>2, <1>3, <1>4

Watches == auditWatched \/ SearchDir \/ SearchEntry \/ sizeWatchedRoot \/ measure
LEMMA AfterTheStore ==
    ASSUME AuditTypes, SizeInv, Watches
    PROVE  /\ World /\ Later /\ walk.doing # "markers" /\ walk'.doing # "markers" /\ ~StoreAhead /\ ~StoreAhead'
           /\ told'.marker = told.marker /\ told'.scanIncomplete = told.scanIncomplete /\ told'.store = told.store
<1>1. told \in Told
  BY WalkKinds
<1>2. CASE auditWatched
  BY <1>2 DEF auditWatched, World, Later, StoreAhead, Search
<1>3. CASE SearchDir
  <2>1. World /\ Later /\ walk.doing = "search"
    BY <1>3 DEF SearchDir, World, Later
  <2>2. walk'.doing \in {"search", "done"}
    BY <1>3 DEF SearchDir, Search, EndSearch, Idle
  <2>3. told'.marker = told.marker /\ told'.scanIncomplete = told.scanIncomplete /\ told'.store = told.store
    BY <1>1, <1>3 DEF SearchDir, EndSearch, Told
  <2> QED
    BY <2>1, <2>2, <2>3 DEF StoreAhead
<1>4. CASE SearchEntry
  <2>1. World /\ Later /\ walk.doing = "search" /\ walk \in Searches
    BY <1>4, WalkKinds DEF SearchEntry, World, Later
  <2>2. PICK p \in walk.left : SearchStep(p)
    BY <1>4, SearchStepIs
  <2>3. Met \in Told /\ Met = [told EXCEPT !.examined = told.examined + 1]
    BY <2>1, RestIs
  <2>4. Met.marker = told.marker /\ Met.scanIncomplete = told.scanIncomplete /\ Met.store = told.store
    BY <1>1, <2>3 DEF Told
  <2>5. Rest(p).doing = "search" /\ [Rest(p) EXCEPT !.committed = @ + 1, !.stack = Append(@, p)].doing = "search"
    BY <2>1, RestIs DEF Searches
  <2>6. walk'.doing \in {"search", "done", "measure"}
    <3>1. \/ walk' = Idle("done") \/ walk' = Rest(p) \/ walk' = [doing |-> "measure", at |-> p, search |-> Rest(p)]
          \/ walk' = [Rest(p) EXCEPT !.committed = @ + 1, !.stack = Append(@, p)]
      BY <2>2, Zenon DEF SearchStep, EndSearch
    <3>2. Idle("done").doing = "done" /\ [doing |-> "measure", at |-> p, search |-> Rest(p)].doing = "measure"
      BY DEF Idle
    <3>3. walk'.doing = "done" \/ walk'.doing = "search" \/ walk'.doing = "measure"
      BY <2>5, <3>1, <3>2, Zenon
    <3> QED
      BY <3>3
  <2>7. \/ told' = Met \/ told' = [Met EXCEPT !.searchGaps = @ \cup {"budget"}]
        \/ told' = [told EXCEPT !.searchGaps = @ \cup {"budget"}]
    BY <2>2, Zenon DEF SearchStep, EndSearch
  <2>8. told'.marker = told.marker /\ told'.scanIncomplete = told.scanIncomplete /\ told'.store = told.store
    BY <1>1, <2>3, <2>4, <2>7 DEF Told
  <2> QED
    BY <2>1, <2>6, <2>8 DEF StoreAhead
<1>5. CASE sizeWatchedRoot
  <2>1. World /\ Later /\ walk.doing = "measure" /\ walk \in Measurings
    BY <1>5, WalkKinds DEF sizeWatchedRoot, World, Later
  <2>2. walk.search.doing = "search" /\ walk.at \in Paths
    BY <2>1 DEF Measurings, Searches
  <2>3. \/ \E g \in {"aggregate", "unavailable"} : told' = Tally(walk.at, Unmeasured(g)) /\ walk' = walk.search
        \/ told' = told /\ walk'.doing = "sizing" /\ walk'.for = "watched"
    BY <1>5 DEF sizeWatchedRoot, Sizing
  <2>4. told'.marker = told.marker /\ told'.scanIncomplete = told.scanIncomplete /\ told'.store = told.store
    BY <1>1, <2>3 DEF Tally, Told
  <2> QED
    BY <2>1, <2>2, <2>3, <2>4 DEF StoreAhead
<1>6. CASE measure
  <2>1. World /\ walk.search \in Searches /\ walk' = walk.search /\ walk.doing = "sizing" /\ walk.for = "watched"
    BY <1>6, MeasureIs DEF measure, Sized
  <2>2. walk'.doing = "search" /\ Later
    BY <2>1, WorldKept DEF Searches
  <2>3. told'.marker = told.marker /\ told'.scanIncomplete = told.scanIncomplete /\ told'.store = told.store
    BY <1>1, <1>6 DEF measure, Tally, Told
  <2> QED
    BY <2>1, <2>2, <2>3 DEF StoreAhead
<1> QED
  BY <1>2, <1>3, <1>4, <1>5, <1>6 DEF Watches

LEMMA ScanInvStep ==
    ASSUME AuditTypes, ScanInv, SizeInv, sizeStore \/ sizeWalk \/ measureStore \/ Watches
    PROVE  ScanInv'
<1>1. /\ Later /\ walk.doing # "markers" /\ walk'.doing # "markers"
      /\ told'.marker = told.marker /\ told'.scanIncomplete = told.scanIncomplete
  BY AfterTheScan, AfterTheStore
<1> QED
  BY <1>1, ScanRests

-----------------------------------------------------------------------------
(* Sizing. *)
LEMMA SizedThings ==
    ASSUME AuditTypes, walk.doing = "sizing", walk.open # <<>>, NEW p \in Last(walk.open)
    PROVE  /\ p \in Paths /\ p \in Path /\ tree[p].size \in Nat
           /\ walk.root \in Paths /\ walk.root \in Path /\ Len(walk.root) \in Nat /\ Len(p) \in Nat
           /\ walk.for \in {"store", "watched"} /\ Within \subseteq Paths
           /\ walk.entries \in Nat /\ walk.max \in Nat /\ walk.bytes \in Nat
           /\ \A i \in DOMAIN walk.open : \A q \in walk.open[i] : q \in Path /\ q \in Paths /\ Len(q) \in Nat
<1>1. walk.root \in Paths /\ walk.for \in {"store", "watched"} /\ walk.entries \in Nat /\ walk.max \in Nat /\ walk.bytes \in Nat
  BY WalkKinds DEF SizingsFor
<1>2. \A i \in DOMAIN walk.open : walk.open[i] \subseteq Paths
  BY OpenIs
<1>3. p \in Paths
  BY OpenIs
<1>4. Within \subseteq Paths
  BY FilesArePaths DEF FilesOf, Within
<1>5. \A q \in Paths : q \in Path /\ Len(q) \in Nat /\ tree[q].size \in Nat
  BY WorktreeIs, LengthIs
<1> QED
  BY <1>1, <1>2, <1>3, <1>4, <1>5

(* An entry is taken off the listing that is open. *)
LEMMA LessLevels ==
    ASSUME AuditTypes, walk.doing = "sizing", walk.open # <<>>, NEW p \in Last(walk.open),
           Levels(walk.for, walk.root, walk.open)
    PROVE  /\ Levels(walk.for, walk.root, Less(p))
           /\ ~Pending(p, Less(p))
           /\ \A f : Pending(f, Less(p)) => Pending(f, walk.open)
           /\ \A f : Pending(f, walk.open) => IsPrefix(p, f) \/ Pending(f, Less(p))
<1> DEFINE n == Len(walk.open)  o == walk.open
<1>1. n \in DOMAIN o /\ DOMAIN o = 1..n /\ n \in Nat /\ Last(o) = o[n]
      /\ DOMAIN Less(p) = DOMAIN o /\ Less(p)[n] = o[n] \ {p}
      /\ \A i \in DOMAIN o : i # n => Less(p)[i] = o[i]
  BY OpenIs, SizedThings
<1>2. p \in o[n] /\ p \in Path /\ Len(p) \in Nat /\ Len(walk.root) \in Nat
      /\ \A i \in DOMAIN o : \A q \in o[i] : q \in Path /\ Len(q) \in Nat
  BY <1>1, SizedThings
<1>3. /\ \A i \in DOMAIN o : \A q \in o[i] : Len(q) = Len(walk.root) + i
      /\ \A i, j \in DOMAIN o : i < j => \A q \in o[i], r \in o[j] : ~IsPrefix(q, r)
  BY DEF Levels
<1> DEFINE l == Less(p)
<1> HIDE DEF n, o, l
<1>4. DOMAIN l = DOMAIN o /\ \A i \in DOMAIN o : l[i] \subseteq o[i]
  BY <1>1 DEF l
<1>5. Levels(walk.for, walk.root, l)
  BY <1>4 DEF Levels, o
<1>6. \A f : Pending(f, l) => Pending(f, o)
  BY <1>4 DEF Pending
<1>7. ~Pending(p, l)
  <2> SUFFICES ASSUME NEW i \in DOMAIN o, NEW q \in l[i], IsPrefix(q, p) PROVE FALSE
    BY <1>4 DEF Pending
  <2>1. CASE i = n
    <3>1. q \in o[n] /\ q # p
      BY <1>1, <2>1 DEF l
    <3>2. Len(q) = Len(p) /\ q \in Path
      BY <1>1, <1>2, <1>3, <3>1
    <3> QED
      BY <1>2, <3>1, <3>2, PrefixOrder
  <2>2. CASE i # n
    <3>1. i < n /\ q \in o[i]
      BY <1>1, <1>4, <2>2
    <3> QED
      BY <1>1, <1>2, <1>3, <3>1
  <2> QED
    BY <2>1, <2>2
<1>8. ASSUME NEW f, Pending(f, o), ~IsPrefix(p, f) PROVE Pending(f, l)
  <2>1. PICK i \in DOMAIN o : \E q \in o[i] : IsPrefix(q, f)
    BY <1>8 DEF Pending
  <2>2. PICK q \in o[i] : IsPrefix(q, f)
    BY <2>1
  <2>3. q \in l[i]
    BY <1>1, <1>8, <2>2 DEF l
  <2> QED
    BY <1>4, <2>2, <2>3 DEF Pending
<1> QED
  BY <1>5, <1>6, <1>7, <1>8 DEF o, l

(* Its directory is opened. *)
LEMMA PushedLevels ==
    ASSUME AuditTypes, walk.doing = "sizing", walk.open # <<>>, NEW p \in Last(walk.open),
           Levels(walk.for, walk.root, walk.open), ~Skips(p)
    PROVE  /\ Levels(walk.for, walk.root, Append(Less(p), Entries(p)))
           /\ \A f \in Path : Pending(f, Append(Less(p), Entries(p))) => Pending(f, walk.open)
           /\ \A f : Pending(f, Less(p)) => Pending(f, Append(Less(p), Entries(p)))
           /\ \A f : (\E c \in Entries(p) : IsPrefix(c, f)) => Pending(f, Append(Less(p), Entries(p)))
<1> DEFINE n == Len(walk.open)  o == walk.open  root == walk.root
           l == Less(p)  e == Entries(p)  a == Append(Less(p), Entries(p))
<1>1. n \in DOMAIN o /\ DOMAIN o = 1..n /\ n \in Nat /\ Last(o) = o[n]
      /\ l \in Seq(SUBSET Paths) /\ Len(l) = n /\ DOMAIN l = 1..n
      /\ l[n] = o[n] \ {p} /\ \A i \in 1..n : i # n => l[i] = o[i]
  BY OpenIs, SizedThings
<1>2. p \in Paths /\ p \in Path /\ p \in o[n] /\ Len(p) \in Nat /\ root \in Path /\ Len(root) \in Nat
      /\ walk.for \in {"store", "watched"}
      /\ \A i \in 1..n : \A q \in o[i] : q \in Path /\ Len(q) \in Nat
  BY <1>1, SizedThings
<1>3. Levels(walk.for, root, l) /\ ~Pending(p, l) /\ \A f : Pending(f, l) => Pending(f, o)
  BY LessLevels
<1>4. e \in SUBSET Paths /\ \A c \in e : Len(c) = Len(p) + 1 /\ IsPrefix(p, c) /\ c \in Path /\ c \in Paths
  BY <1>2, EntriesAre, WorktreeIs
<1>5. /\ DOMAIN a = 1..(n + 1) /\ \A i \in 1..n : a[i] = l[i]
      /\ a[n + 1] = e
  BY <1>1, <1>4, PushedOn
<1>6. Len(p) = Len(root) + n /\ IsPrefix(root, p)
      /\ (walk.for = "store" \/ \A r \in Between(root, p) : Name(r) \notin ProtectedNames)
  <2>1. Len(p) = Len(root) + n /\ IsPrefix(root, p)
        /\ (walk.for = "store" \/ \A r \in Between(root, p) \ {p} : Name(r) \notin ProtectedNames)
    BY <1>1, <1>2 DEF Levels
  <2>2. walk.for = "store" \/ Name(p) \notin ProtectedNames
    BY <1>2 DEF Skips
  <2> QED
    BY <2>1, <2>2
<1>7. \A f : Pending(f, l) => Pending(f, a)
  <2>1. \A i \in DOMAIN l : i \in DOMAIN a /\ a[i] = l[i]
    BY <1>1, <1>5
  <2> HIDE DEF a, l
  <2> QED
    BY <2>1 DEF Pending
<1> HIDE DEF a, l, e, n, o, root
<1>8. ASSUME NEW c \in e
      PROVE  /\ Len(c) = Len(root) + (n + 1) /\ IsPrefix(root, c)
             /\ walk.for = "store" \/ \A r \in Between(root, c) \ {c} : Name(r) \notin ProtectedNames
  <2>1. Len(c) = Len(root) + (n + 1)
    BY <1>1, <1>2, <1>4, <1>6
  <2>2. IsPrefix(root, c)
    BY <1>2, <1>4, <1>6, PrefixChain
  <2>3. ASSUME NEW r \in Between(root, c) \ {c} PROVE r \in Between(root, p)
    <3>1. r \in Enclosing(c) /\ r \notin Enclosing(root) \cup {root}
      BY <2>3 DEF Between
    <3>2. c \in Entries(p)
      BY DEF e
    <3>3. r = p \/ r \in Enclosing(p)
      BY <1>2, <3>1, <3>2, EnclosingEntry
    <3> QED
      BY <3>1, <3>3 DEF Between
  <2> QED
    BY <1>6, <2>1, <2>2, <2>3
<1>9. \A i \in 1..(n + 1) : i \in 1..n \/ i = n + 1
  BY <1>1
<1>10. ASSUME NEW i \in 1..(n + 1), NEW j \in 1..(n + 1), i < j, NEW q \in a[i], NEW r \in a[j] PROVE ~IsPrefix(q, r)
  <2>1. i \in 1..n /\ a[i] = l[i]
    BY <1>1, <1>5, <1>10
  <2>2. CASE j \in 1..n
    BY <1>1, <1>3, <1>5, <1>10, <2>1, <2>2 DEF Levels
  <2>3. CASE j = n + 1
    <3>1. r \in e /\ q \in l[i] /\ q \in Path /\ r \in Path
      <4>1. l[i] \subseteq o[i]
        BY <1>1, <2>1
      <4> QED
        BY <1>2, <1>4, <1>5, <1>10, <2>1, <2>3, <4>1
    <3>2. Len(q) = Len(root) + i
      BY <1>1, <1>3, <2>1, <3>1 DEF Levels
    <3>3. Len(r) = Len(root) + (n + 1)
      BY <1>8, <3>1
    <3>4. q # r
      BY <1>1, <1>2, <2>1, <3>2, <3>3
    <3>5. ~IsPrefix(q, p)
      BY <1>1, <1>3, <2>1, <3>1 DEF Pending
    <3> QED
      BY <1>2, <1>4, <3>1, <3>4, <3>5, LeadsToEntry
  <2> QED
    BY <1>9, <2>2, <2>3
<1>11. ASSUME NEW i \in 1..(n + 1), NEW q \in a[i]
       PROVE  /\ Len(q) = Len(root) + i /\ IsPrefix(root, q)
              /\ walk.for = "store" \/ \A r \in Between(root, q) \ {q} : Name(r) \notin ProtectedNames
  <2>1. CASE i \in 1..n
    BY <1>1, <1>3, <1>5, <1>11, <2>1 DEF Levels
  <2>2. CASE i = n + 1
    BY <1>5, <1>8, <1>11, <2>2
  <2> QED
    BY <1>9, <2>1, <2>2
<1>12. Levels(walk.for, root, a)
  BY <1>5, <1>10, <1>11 DEF Levels
<1>13. ASSUME NEW f \in Path, Pending(f, a) PROVE Pending(f, o)
  <2>1. PICK i \in 1..(n + 1) : \E q \in a[i] : IsPrefix(q, f)
    BY <1>5, <1>13 DEF Pending
  <2>2. CASE i \in 1..n
    BY <1>1, <1>3, <1>5, <2>1, <2>2 DEF Pending
  <2>3. CASE i = n + 1
    <3>1. IsPrefix(p, f)
      BY <1>2, <1>4, <1>5, <1>13, <2>1, <2>3, PrefixChain
    <3> QED
      BY <1>1, <1>2, <3>1 DEF Pending
  <2> QED
    BY <1>9, <2>2, <2>3
<1>14. ASSUME NEW f, NEW c \in e, IsPrefix(c, f) PROVE Pending(f, a)
  <2>1. n + 1 \in DOMAIN a
    BY <1>1, <1>5
  <2> QED
    BY <1>5, <1>14, <2>1 DEF Pending
<1> QED
  BY <1>7, <1>12, <1>13, <1>14 DEF a, l, e, o, root

LEMMA TopLevel ==
    ASSUME AuditTypes, walk.doing = "sizing", walk.open # <<>>, NEW p \in Last(walk.open),
           Levels(walk.for, walk.root, walk.open)
    PROVE  /\ Len(walk.root) < Len(p) /\ IsPrefix(walk.root, p) /\ p # walk.root
           /\ walk.for = "store" \/ \A r \in Between(walk.root, p) \ {p} : Name(r) \notin ProtectedNames
<1> DEFINE n == Len(walk.open)  a == Len(p)  b == Len(walk.root)
<1>1. n \in Nat /\ n >= 1 /\ DOMAIN walk.open = 1..n /\ Last(walk.open) = walk.open[n]
  BY OpenIs
<1>2. a \in Nat /\ b \in Nat
  BY SizedThings
<1> HIDE DEF n
<1>3. n \in DOMAIN walk.open /\ p \in walk.open[n]
  BY <1>1
<1>4. /\ a = b + n /\ IsPrefix(walk.root, p)
      /\ walk.for = "store" \/ \A r \in Between(walk.root, p) \ {p} : Name(r) \notin ProtectedNames
  BY <1>3, Zenon DEF Levels
<1>5. p # walk.root
  <2>1. p = walk.root => a = b
    OBVIOUS
  <2> HIDE DEF a, b
  <2> QED
    BY <1>1, <1>2, <1>4, <2>1
<1>6. b < a
  <2> HIDE DEF a, b
  <2> QED
    BY <1>1, <1>2, <1>4
<1> QED
  BY <1>4, <1>5, <1>6

(* What is below an entry that is not a directory there, or is skipped, is   *)
(* not among the files.                                                      *)
LEMMA WithinBelow ==
    ASSUME AuditTypes, walk.doing = "sizing", walk.open # <<>>, NEW p \in Last(walk.open),
           Levels(walk.for, walk.root, walk.open), NEW f \in Within, There(f), IsPrefix(p, f)
    PROVE  /\ ~Skips(p) /\ There(p)
           /\ f = p \/ IsDir(p)
           /\ tree[f].kind = "file"
<1>1. p \in Paths /\ p \in Path /\ f \in Paths /\ f \in Path /\ p # Root /\ Len(p) \in Nat /\ Len(walk.root) \in Nat
      /\ walk.root \in Path
  BY SizedThings, WorktreeIs
<1>2. There(p)
  BY <1>1, ThereAbove
<1>3. f = p \/ IsDir(p)
  BY <1>1, PrefixIsDir
<1>4. tree[f].kind = "file" /\ (walk.for = "store" \/ \A r \in Between(walk.root, f) : Name(r) \notin ProtectedNames)
  BY DEF Within, Files, Between
<1>5. p \in Between(walk.root, f)
  <2>1. Len(p) > Len(walk.root)
    BY <1>1, TopLevel
  <2>2. p \notin Enclosing(walk.root) \cup {walk.root}
    BY <1>1, <2>1, EnclosingAre, PrefixOrder
  <2>3. p \in Enclosing(f) \cup {f}
    BY <1>1, EnclosingAre
  <2> QED
    BY <2>2, <2>3 DEF Between
<1>6. ~Skips(p)
  BY <1>4, <1>5 DEF Skips
<1> QED
  BY <1>2, <1>3, <1>4, <1>6

LEMMA FieldsOf ==
    ASSUME AuditTypes, walk.doing = "sizing", NEW p \in Paths, NEW w, SizeStep(w, p, Less(p))
    PROVE  /\ w.doing = "sizing" /\ w.for = walk.for /\ w.root = walk.root /\ w.max = walk.max /\ w.search = walk.search
           /\ \/ Skips(p) /\ w.open = Less(p) /\ w.bytes = walk.bytes /\ w.gaps = walk.gaps /\ w.entries = walk.entries
              \/ /\ w.open = <<>> /\ w.bytes = walk.bytes /\ w.gaps # {} /\ w.entries = walk.entries
              \/ /\ walk.entries < walk.max /\ ~Skips(p) /\ w.entries = walk.entries + 1
                 /\ \/ /\ ~There(p) \/ (tree[p].kind # "file" /\ ~IsDir(p))
                       /\ w.open = Less(p) /\ w.bytes = walk.bytes /\ w.gaps = walk.gaps
                    \/ /\ tree[p].kind = "file"
                       /\ w.open = Less(p) /\ w.bytes = walk.bytes + tree[p].size /\ w.gaps = walk.gaps
                    \/ w.open = Less(p) /\ w.bytes = walk.bytes /\ w.gaps # {}
                    \/ /\ tree[p].kind # "file" /\ Opens(p)
                       /\ w.open = Append(Less(p), Entries(p)) /\ w.bytes = walk.bytes /\ w.gaps = walk.gaps
<1>1. ASSUME NEW for, NEW ss, walk \in SizingsFor(for, ss)
      PROVE  DOMAIN walk = {"doing", "for", "root", "open", "max", "entries", "bytes", "gaps", "search"}
             /\ walk = [x \in DOMAIN walk |-> walk[x]]
  BY <1>1 DEF SizingsFor
<1>2. DOMAIN walk = {"doing", "for", "root", "open", "max", "entries", "bytes", "gaps", "search"}
  BY <1>1, WalkKinds
<1>3. CASE Skips(p) /\ w = [walk EXCEPT !.open = Less(p)]
  BY <1>2, <1>3
<1>4. CASE w = [walk EXCEPT !.open = <<>>, !.gaps = @ \cup {"budget"}]
  BY <1>2, <1>4
<1>5. CASE walk.entries < walk.max /\ ~Skips(p)
  <2>1. CASE /\ ~There(p) \/ (tree[p].kind # "file" /\ ~IsDir(p))
             /\ w = [walk EXCEPT !.open = Less(p), !.entries = @ + 1]
    BY <1>2, <1>5, <2>1
  <2>2. CASE /\ tree[p].kind = "file"
             /\ w = [walk EXCEPT !.open = Less(p), !.entries = @ + 1, !.bytes = @ + tree[p].size]
    BY <1>2, <1>5, <2>2
  <2>3. CASE \E g \in {"unreadable", "depth"} :
                w = [walk EXCEPT !.open = Less(p), !.entries = @ + 1, !.gaps = @ \cup {g}]
    BY <1>2, <1>5, <2>3
  <2>4. CASE /\ tree[p].kind # "file" /\ Opens(p)
             /\ w = [walk EXCEPT !.open = Append(Less(p), Entries(p)), !.entries = @ + 1]
    BY <1>2, <1>5, <2>4
  <2>5. \/ Skips(p) /\ w = [walk EXCEPT !.open = Less(p)]
        \/ w = [walk EXCEPT !.open = <<>>, !.gaps = @ \cup {"budget"}]
        \/ /\ ~There(p) \/ (tree[p].kind # "file" /\ ~IsDir(p))
           /\ w = [walk EXCEPT !.open = Less(p), !.entries = @ + 1]
        \/ /\ tree[p].kind = "file"
           /\ w = [walk EXCEPT !.open = Less(p), !.entries = @ + 1, !.bytes = @ + tree[p].size]
        \/ \E g \in {"unreadable", "depth"} :
                w = [walk EXCEPT !.open = Less(p), !.entries = @ + 1, !.gaps = @ \cup {g}]
        \/ /\ tree[p].kind # "file" /\ Opens(p)
           /\ w = [walk EXCEPT !.open = Append(Less(p), Entries(p)), !.entries = @ + 1]
    BY Zenon DEF SizeStep
  <2> QED
    BY <1>3, <1>4, <2>1, <2>2, <2>3, <2>4, <2>5
<1>6. \/ Skips(p) /\ w = [walk EXCEPT !.open = Less(p)]
      \/ w = [walk EXCEPT !.open = <<>>, !.gaps = @ \cup {"budget"}]
      \/ walk.entries < walk.max /\ ~Skips(p)
  BY Zenon DEF SizeStep
<1> QED
  BY <1>3, <1>4, <1>5, <1>6

LEMMA SizeCounts ==
    ASSUME AuditTypes, walk.doing = "sizing", walk.open # <<>>, NEW p \in Last(walk.open),
           Levels(walk.for, walk.root, walk.open),
           NEW C \in SUBSET Within, Counted(Within, walk.open, walk.bytes, walk.gaps, C),
           NEW w, SizeStep(w, p, Less(p))
    PROVE  /\ Levels(walk.for, walk.root, w.open)
           /\ \E D \in SUBSET Within : Counted(Within, w.open, w.bytes, w.gaps, D)
<1>1. p \in Paths /\ p \in Path /\ Within \subseteq Paths /\ Within \subseteq Path
      /\ walk.bytes \in Nat /\ tree[p].size \in Nat
  BY SizedThings, WorktreeIs
<1>2. /\ Levels(walk.for, walk.root, Less(p)) /\ ~Pending(p, Less(p))
      /\ \A f : Pending(f, Less(p)) => Pending(f, walk.open)
      /\ \A f : Pending(f, walk.open) => IsPrefix(p, f) \/ Pending(f, Less(p))
  BY LessLevels
<1>3. /\ walk.bytes = Total(C) /\ \A f \in C : ~Pending(f, walk.open)
      /\ walk.gaps = {} => \A f \in Within : There(f) => f \in C \/ Pending(f, walk.open)
  BY DEF Counted
<1>4. \A f \in Within : There(f) /\ IsPrefix(p, f) =>
            ~Skips(p) /\ There(p) /\ (f = p \/ IsDir(p)) /\ tree[f].kind = "file"
  BY WithinBelow
<1>5. \A f \in C : ~Pending(f, Less(p))
  BY <1>2, <1>3
<1>6. CASE w.open = Less(p) /\ w.bytes = walk.bytes /\ (w.gaps = walk.gaps \/ w.gaps # {})
           /\ (w.gaps = {} => Skips(p) \/ ~There(p) \/ (tree[p].kind # "file" /\ ~IsDir(p)))
  <2>1. ASSUME w.gaps = {}, NEW f \in Within, There(f) PROVE f \in C \/ Pending(f, Less(p))
    <3>1. ~IsPrefix(p, f)
      BY <1>4, <1>6, <2>1
    <3> QED
      BY <1>2, <1>3, <1>6, <2>1, <3>1
  <2>2. Counted(Within, w.open, w.bytes, w.gaps, C)
    BY <1>3, <1>5, <1>6, <2>1 DEF Counted
  <2> QED
    BY <1>2, <1>6, <2>2
<1>7. CASE w.open = <<>> /\ w.bytes = walk.bytes /\ w.gaps # {}
  <2>1. Counted(Within, w.open, w.bytes, w.gaps, C)
    BY <1>3, <1>7 DEF Counted, Pending
  <2>2. Levels(walk.for, walk.root, <<>>)
    BY DEF Levels
  <2> QED
    BY <1>7, <2>1, <2>2
<1>8. CASE tree[p].kind = "file" /\ w.open = Less(p) /\ w.bytes = walk.bytes + tree[p].size
           /\ w.gaps = walk.gaps /\ ~Skips(p)
  <2>1. p \in Within
    <3>1. p # walk.root /\ IsPrefix(walk.root, p)
          /\ (walk.for = "store" \/ \A r \in Between(walk.root, p) \ {p} : Name(r) \notin ProtectedNames)
      BY TopLevel
    <3>2. walk.for = "store" \/ \A r \in Between(walk.root, p) : Name(r) \notin ProtectedNames
      BY <1>8, <3>1, SizedThings DEF Skips
    <3> QED
      BY <1>1, <1>8, <3>1, <3>2 DEF Within, Files, Between, Paths
  <2>2. p \notin C
    <3>1. Pending(p, walk.open)
      BY <1>1, OpenIs, RootLeads DEF Pending
    <3> QED
      BY <1>3, <3>1
  <2>3. C \cup {p} \in SUBSET Within /\ Total(C \cup {p}) = w.bytes
    BY <1>1, <1>3, <1>8, <2>1, <2>2, TotalAdds
  <2>4. ASSUME w.gaps = {}, NEW f \in Within, There(f) PROVE f \in C \cup {p} \/ Pending(f, Less(p))
    <3>1. CASE IsPrefix(p, f)
      BY <1>4, <1>8, <2>4, <3>1 DEF IsDir
    <3>2. CASE ~IsPrefix(p, f)
      BY <1>2, <1>3, <1>8, <2>4, <3>2
    <3> QED
      BY <3>1, <3>2
  <2>5. Counted(Within, w.open, w.bytes, w.gaps, C \cup {p})
    BY <1>2, <1>5, <1>8, <2>3, <2>4 DEF Counted
  <2> QED
    BY <1>2, <1>8, <2>3, <2>5
<1>9. CASE tree[p].kind # "file" /\ Opens(p) /\ ~Skips(p) /\ w.open = Append(Less(p), Entries(p))
           /\ w.bytes = walk.bytes /\ w.gaps = walk.gaps
  <2>1. /\ Levels(walk.for, walk.root, w.open)
        /\ \A f \in Path : Pending(f, w.open) => Pending(f, walk.open)
        /\ \A f : Pending(f, Less(p)) => Pending(f, w.open)
        /\ \A f : (\E c \in Entries(p) : IsPrefix(c, f)) => Pending(f, w.open)
    BY <1>9, PushedLevels
  <2>2. ASSUME w.gaps = {}, NEW f \in Within, There(f) PROVE f \in C \/ Pending(f, w.open)
    <3>1. CASE IsPrefix(p, f)
      <4>1. f # p
        BY <1>4, <1>9, <2>2, <3>1
      <4>2. \E c \in Entries(p) : IsPrefix(c, f)
        BY <1>1, <1>9, <2>2, <3>1, <4>1, EntriesAre
      <4> QED
        BY <2>1, <4>2
    <3>2. CASE ~IsPrefix(p, f)
      BY <1>2, <1>3, <1>9, <2>1, <2>2, <3>2
    <3> QED
      BY <3>1, <3>2
  <2>3. \A f \in C : ~Pending(f, w.open)
    BY <1>1, <1>3, <2>1
  <2>4. Counted(Within, w.open, w.bytes, w.gaps, C)
    BY <1>3, <1>9, <2>2, <2>3 DEF Counted
  <2> QED
    BY <2>1, <2>4
<1> QED
  BY <1>1, <1>6, <1>7, <1>8, <1>9, FieldsOf

LEMMA StillSizing ==
    ASSUME AuditTypes, Later, walk'.doing = "sizing",
           Levels(walk'.for, walk'.root, walk'.open),
           NEW W, W = Files(walk'.root, walk'.for = "store"),
           NEW C \in SUBSET W, Counted(W, walk'.open, walk'.bytes, walk'.gaps, C),
           walk'.for = "watched" => walk'.entries <= walk'.max /\ walk'.max <= told'.spare
    PROVE  SizeInv'
<1>1. Within' = W
  BY DEF Within, Files, Later
<1>2. Levels(walk.for, walk.root, walk.open)'
  BY DEF Levels, Between, Enclosing, Name
<1>3. Total(C)' = Total(C) /\ \A p : There(p)' => There(p)
  BY WorldLater
<1>4. /\ walk'.bytes = Total(C) /\ \A f \in C : ~Pending(f, walk'.open)
      /\ walk'.gaps = {} => \A f \in W : There(f) => f \in C \/ Pending(f, walk'.open)
  BY DEF Counted
<1>5. /\ C \subseteq W /\ walk'.bytes = Total(C)'
      /\ \A f \in C : ~Pending(f, walk'.open)
      /\ walk'.gaps = {} => \A f \in W : There(f)' => f \in C \/ Pending(f, walk'.open)
  BY <1>3, <1>4
<1>6. Counted(W, walk.open, walk.bytes, walk.gaps, C)'
  BY <1>5, Zenon DEF Counted, Pending
<1>7. \E D \in SUBSET Within' : Counted(Within, walk.open, walk.bytes, walk.gaps, D)'
  <2>1. Counted(Within, walk.open, walk.bytes, walk.gaps, C)'
    BY <1>1, <1>5, Zenon DEF Counted, Pending
  <2> QED
    BY <1>1, <2>1, Zenon
<1> QED
  BY <1>2, <1>7 DEF SizeInv

(* Nothing is counted before the first entry. *)
LEMMA SizingStarts ==
    ASSUME AuditTypes, NEW for \in {"store", "watched"}, NEW p \in Paths, Opens(p), NEW max, NEW entries, NEW search,
           walk' = Sizing(for, p, max, entries, search), Later,
           for = "watched" => entries <= max /\ max <= told'.spare
    PROVE  SizeInv'
<1>1. walk'.doing = "sizing" /\ walk'.for = for /\ walk'.root = p /\ walk'.open = <<Entries(p)>>
      /\ walk'.bytes = 0 /\ walk'.gaps = {} /\ walk'.max = max /\ walk'.entries = entries
  BY DEF Sizing
<1> DEFINE W == Files(p, for = "store")  o == <<Entries(p)>>
<1>2. p \in Path /\ Len(p) \in Nat /\ \A c \in Entries(p) : Len(c) = Len(p) + 1 /\ IsPrefix(p, c) /\ c \in Path
  BY EntriesAre, WorktreeIs, LengthIs
<1>3. DOMAIN o = {1} /\ o[1] = Entries(p)
  OBVIOUS
<1> HIDE DEF o
<1>4. Levels(for, p, o)
  <2>1. ASSUME NEW c \in Entries(p), NEW r \in Between(p, c) \ {c} PROVE FALSE
    <3>1. r \in Enclosing(c) /\ r \notin Enclosing(p) \cup {p}
      BY <2>1 DEF Between
    <3> QED
      BY <3>1, EnclosingEntry
  <2>2. \A i, j \in DOMAIN o : ~(i < j)
    BY <1>3
  <2> QED
    BY <1>2, <1>3, <2>1, <2>2 DEF Levels
<1>5. Counted(W, o, 0, {}, {})
  <2>1. Total({}) = 0
    BY SizesAre, SumType
  <2>2. ASSUME NEW f \in W, There(f) PROVE Pending(f, o)
    <3>1. f \in Paths /\ p # f /\ IsPrefix(p, f)
      BY DEF Files, Paths
    <3>2. \E c \in Entries(p) : IsPrefix(c, f)
      BY <2>2, <3>1, EntriesAre
    <3> QED
      BY <1>3, <3>2 DEF Pending
  <2> QED
    BY <2>1, <2>2 DEF Counted
<1>6. {} \in SUBSET W /\ W = Files(walk'.root, walk'.for = "store")
  BY <1>1
<1> HIDE DEF W
<1> QED
  BY <1>1, <1>4, <1>5, <1>6, StillSizing DEF o

LEMMA SizeWalkSizes == ASSUME AuditTypes, SizeInv, sizeWalk PROVE SizeInv'
<1>1. World /\ Later /\ told' = told /\ walk.doing = "sizing" /\ walk.open # <<>>
  BY WorldKept DEF sizeWalk, World
<1>2. /\ Levels(walk.for, walk.root, walk.open)
      /\ walk.for = "watched" => walk.entries <= walk.max /\ walk.max <= told.spare
  BY <1>1 DEF SizeInv
<1>3. PICK C \in SUBSET Within : Counted(Within, walk.open, walk.bytes, walk.gaps, C)
  BY <1>1 DEF SizeInv
<1>4. CASE Last(walk.open) = {}
  <2>1. walk' = [walk EXCEPT !.open = Front(@)]
    BY <1>4 DEF sizeWalk
  <2>2. walk'.doing = "sizing" /\ walk'.for = walk.for /\ walk'.root = walk.root /\ walk'.open = Front(walk.open)
        /\ walk'.bytes = walk.bytes /\ walk'.gaps = walk.gaps /\ walk'.max = walk.max /\ walk'.entries = walk.entries
    BY <1>1, <2>1, WalkKinds DEF SizingsFor
  <2> DEFINE n == Len(walk.open)  o == walk.open  f == Front(walk.open)
  <2>3. n \in Nat /\ n >= 1 /\ DOMAIN o = 1..n /\ o[n] = {} /\ DOMAIN f = 1..(n - 1)
        /\ \A i \in 1..(n - 1) : f[i] = o[i]
    <3>1. o \in Seq(SUBSET Paths)
      BY <1>1, OpenIs
    <3> QED
      BY <1>1, <1>4, <3>1, TopOf
  <2> HIDE DEF n, o, f
  <2>4. \A i \in DOMAIN f : i \in DOMAIN o /\ f[i] = o[i]
    BY <2>3
  <2>5. \A i \in DOMAIN o : i \in DOMAIN f \/ i = n
    BY <2>3
  <2>6. Levels(walk.for, walk.root, f)
    BY <1>2, <2>4 DEF Levels, o
  <2>7. \A x : Pending(x, f) <=> Pending(x, o)
    BY <2>3, <2>4, <2>5 DEF Pending
  <2>8. Counted(Within, f, walk.bytes, walk.gaps, C)
    BY <1>3, <2>7 DEF Counted, o
  <2>9. Within = Files(walk'.root, walk'.for = "store")
    BY <2>2 DEF Within
  <2> QED
    BY <1>1, <1>2, <1>3, <2>2, <2>6, <2>8, <2>9, StillSizing DEF f
<1>5. CASE Last(walk.open) # {}
  <2>1. PICK p \in Last(walk.open) : walk' = SizeEntry(p)
    BY <1>5 DEF sizeWalk
  <2>2. SizeStep(walk', p, Less(p)) /\ p \in Paths
    BY <1>1, <2>1, SizeStepIs, OpenIs
  <2>3. /\ Levels(walk.for, walk.root, walk'.open)
        /\ \E D \in SUBSET Within : Counted(Within, walk'.open, walk'.bytes, walk'.gaps, D)
    BY <1>1, <1>2, <1>3, <2>2, SizeCounts
  <2>4. walk'.doing = "sizing" /\ walk'.for = walk.for /\ walk'.root = walk.root /\ walk'.max = walk.max
        /\ (walk'.entries = walk.entries \/ (walk.entries < walk.max /\ walk'.entries = walk.entries + 1))
    BY <1>1, <2>2, FieldsOf
  <2>5. walk'.for = "watched" => walk'.entries <= walk'.max /\ walk'.max <= told'.spare
    <3>1. walk.entries \in Nat /\ walk.max \in Nat
      BY <1>1, <2>1, SizedThings
    <3> QED
      BY <1>1, <1>2, <2>4, <3>1
  <2>6. Within = Files(walk'.root, walk'.for = "store")
    BY <2>4 DEF Within
  <2>7. PICK D \in SUBSET Within : Counted(Within, walk'.open, walk'.bytes, walk'.gaps, D)
    BY <2>3
  <2> QED
    BY <1>1, <2>3, <2>4, <2>5, <2>6, <2>7, StillSizing
<1> QED
  BY <1>4, <1>5

LEMMA SizeStoreSizes == ASSUME AuditTypes, sizeStore PROVE SizeInv'
<1>1. CASE Opens(OwnMarker)
  <2>1. OwnMarker \in Paths
    BY <1>1 DEF Opens, There, Paths, Root, OwnMarker
  <2>2. walk' = Sizing("store", OwnMarker, limits.storeEntries, 1, {}) /\ World
    BY <1>1 DEF sizeStore, World
  <2>3. Later
    BY <2>2, WorldKept
  <2> QED
    BY <1>1, <2>1, <2>2, <2>3, SizingStarts
<1>2. CASE ~Opens(OwnMarker)
  <2>1. walk'.doing = "watched"
    BY <1>2 DEF sizeStore, Idle
  <2> QED
    BY <2>1 DEF SizeInv
<1> QED
  BY <1>1, <1>2

LEMMA SizeWatchedSizes == ASSUME AuditTypes, sizeWatchedRoot PROVE SizeInv'
<1>1. World /\ Later /\ walk.doing = "measure" /\ walk \in Measurings /\ told \in Told
  BY WalkKinds, WorldKept DEF sizeWatchedRoot, World
<1>2. walk.at \in Paths /\ walk.search.doing = "search" /\ told.spare \in Nat /\ limits.rootEntries \in Nat
  BY <1>1, WorktreeIs DEF Measurings, Told, Searches
<1>3. CASE told.spare <= 0 \/ ~Opens(walk.at)
  <2>1. walk' = walk.search
    BY <1>3 DEF sizeWatchedRoot
  <2> QED
    BY <1>2, <2>1 DEF SizeInv
<1>4. CASE ~(told.spare <= 0 \/ ~Opens(walk.at))
  <2> DEFINE m == Least(limits.rootEntries, told.spare)
  <2>1. walk' = Sizing("watched", walk.at, m, 0, walk.search) /\ told' = told /\ Opens(walk.at)
    BY <1>4 DEF sizeWatchedRoot
  <2>2. 0 <= m /\ m <= told'.spare
    BY <1>2, <2>1 DEF Least
  <2> HIDE DEF m
  <2> QED
    BY <1>1, <1>2, <2>1, <2>2, SizingStarts
<1> QED
  BY <1>3, <1>4

LEMMA SizeStill == ASSUME AuditTypes, SizeInv, Later, walk' = walk, told' = told PROVE SizeInv'
<1>1. CASE walk.doing = "sizing"
  <2>1. PICK C \in SUBSET Within : Counted(Within, walk.open, walk.bytes, walk.gaps, C)
    BY <1>1 DEF SizeInv
  <2>2. /\ Levels(walk.for, walk.root, walk.open)
        /\ walk.for = "watched" => walk.entries <= walk.max /\ walk.max <= told.spare
    BY <1>1 DEF SizeInv
  <2>3. Within = Files(walk'.root, walk'.for = "store")
    BY DEF Within
  <2> QED
    BY <1>1, <2>1, <2>2, <2>3, StillSizing
<1>2. CASE walk.doing # "sizing"
  BY <1>2 DEF SizeInv
<1> QED
  BY <1>1, <1>2

LEMMA ScanGoesOn ==
    ASSUME AuditTypes, ScanDir \/ findNestedMarker
    PROVE  walk'.doing \in {"markers", "store"}
<1>1. walk \in Scans /\ walk.doing = "markers"
  BY WalkKinds DEF ScanDir, findNestedMarker
<1>2. \A f, g : EndScan(f, g) => walk'.doing = "store"
  BY DEF EndScan, Idle
<1>3. CASE ScanDir
  <2>1. \/ EndScan(Root, told.scanIncomplete)
        \/ walk' = [walk EXCEPT !.stack = Front(@), !.left = Entries(Last(walk.stack))]
    BY <1>3 DEF ScanDir
  <2> QED
    BY <1>1, <1>2, <2>1 DEF Scans
<1>4. CASE findNestedMarker
  <2>1. PICK p \in walk.left :
          \/ walk' = [walk EXCEPT !.left = @ \ {p}]
          \/ EndScan(p, FALSE)
          \/ EndScan(Root, TRUE)
          \/ walk' = [[walk EXCEPT !.left = @ \ {p}] EXCEPT !.discovered = @ + 1, !.stack = Append(@, p)]
    BY <1>4 DEF findNestedMarker
  <2> QED
    BY <1>1, <1>2, <2>1 DEF Scans
<1> QED
  BY <1>3, <1>4

LEMMA NothingSized ==
    ASSUME AuditTypes, ScanDir \/ findNestedMarker \/ measureStore \/ auditWatched \/ SearchDir \/ SearchEntry
    PROVE  walk'.doing # "sizing"
<1>1. CASE ScanDir \/ findNestedMarker
  BY <1>1, ScanGoesOn
<1>2. CASE measureStore \/ auditWatched \/ SearchDir
  BY <1>2 DEF measureStore, auditWatched, SearchDir, EndSearch, Search, Idle
<1>3. CASE SearchEntry
  <2>1. walk \in Searches
    BY <1>3, WalkKinds DEF SearchEntry
  <2>2. PICK p \in walk.left : SearchStep(p)
    BY <1>3, SearchStepIs
  <2>3. Rest(p).doing = "search" /\ [Rest(p) EXCEPT !.committed = @ + 1, !.stack = Append(@, p)].doing = "search"
    BY <2>1, RestIs DEF Searches
  <2>4. \/ walk' = Idle("done") \/ walk' = Rest(p) \/ walk' = [doing |-> "measure", at |-> p, search |-> Rest(p)]
        \/ walk' = [Rest(p) EXCEPT !.committed = @ + 1, !.stack = Append(@, p)]
    BY <2>2, Zenon DEF SearchStep, EndSearch
  <2>5. Idle("done").doing = "done" /\ [doing |-> "measure", at |-> p, search |-> Rest(p)].doing = "measure"
    BY DEF Idle
  <2>6. walk'.doing = "done" \/ walk'.doing = "search" \/ walk'.doing = "measure"
    BY <2>3, <2>4, <2>5, Zenon
  <2> QED
    BY <2>6
<1> QED
  BY <1>1, <1>2, <1>3

LEMMA SizeInvStep ==
    ASSUME AuditTypes, SizeInv, AuditNext
    PROVE  SizeInv'
<1>1. CASE ScanDir \/ findNestedMarker \/ measureStore \/ auditWatched \/ SearchDir \/ SearchEntry
  BY <1>1, NothingSized DEF SizeInv
<1>2. CASE measure
  <2>1. walk' = walk.search /\ walk.search \in Searches
    BY <1>2, MeasureIs
  <2>2. walk'.doing = "search"
    BY <2>1 DEF Searches
  <2> QED
    BY <2>2 DEF SizeInv
<1>3. CASE \E p \in DOMAIN tree : Vanish(p)
  BY <1>3, Vanished, SizeStill
<1> QED
  BY <1>1, <1>2, <1>3, SizeStoreSizes, SizeWalkSizes, SizeWatchedSizes DEF AuditNext

(* What has been sized to the end is a true figure. *)
LEMMA SizedFigure ==
    ASSUME AuditTypes, SizeInv, walk.doing = "sizing", walk.open = <<>>, NEW gaps, gaps = {} => walk.gaps = {}
    PROVE  Figure(Measured(walk.bytes, gaps), Within)
<1>1. PICK C \in SUBSET Within : Counted(Within, walk.open, walk.bytes, walk.gaps, C)
  BY DEF SizeInv
<1>2. Within \subseteq Paths
  BY FilesArePaths DEF FilesOf, Within
<1> DEFINE now == {q \in Within : There(q)}
<1>3. walk.bytes = Total(C) /\ Total(C) <= Total(Within)
  BY <1>1, <1>2, TotalOfPart DEF Counted
<1>4. ASSUME gaps = {} PROVE Total(now) <= Total(C)
  <2>1. now \in SUBSET C
    BY <1>1, <1>4 DEF Counted, Pending
  <2> QED
    BY <1>2, <2>1, TotalOfPart
<1>5. Total(now) \in Nat /\ Total(C) \in Nat
  BY <1>2, SizesAre
<1> HIDE DEF now
<1>6. gaps = {} => walk.bytes >= Total(now)
  BY <1>3, <1>4, <1>5
<1> QED
  BY <1>3, <1>6 DEF Figure, Measured, now

LEMMA UnmeasuredFigure ==
    ASSUME AuditTypes, NEW reason, NEW S \in SUBSET Paths
    PROVE  Figure(Unmeasured(reason), S)
  BY SizesAre DEF Figure, Unmeasured

(* With the world as it was, a figure is what it was. *)
LEMMA FigureKept ==
    ASSUME World, NEW m, NEW p, NEW all, Figure(m, Files(p, all))
    PROVE  Figure(m, Files(p, all))'
  BY DEF World, Figure, Files, Total, There

LEMMA StoreInvStep == ASSUME AuditTypes, SizeInv, StoreInv, AuditNext PROVE StoreInv'
<1>0. told \in Told
  BY WalkKinds
<1>1. CASE ScanDir \/ findNestedMarker
  BY <1>1, ScanGoesOn DEF StoreInv, StoreAhead
<1>2. CASE sizeStore
  <2>1. CASE Opens(OwnMarker)
    <3>1. walk'.doing = "sizing" /\ walk'.for = "store" /\ walk'.root = OwnMarker
      BY <1>2, <2>1 DEF sizeStore, Sizing
    <3> QED
      BY <3>1 DEF StoreInv, StoreAhead
  <2>2. CASE ~Opens(OwnMarker)
    <3>1. World /\ walk'.doing = "watched" /\ told'.store = Unmeasured("unavailable")
      BY <1>0, <1>2, <2>2 DEF sizeStore, World, Idle, Told
    <3>2. Figure(Unmeasured("unavailable"), Files(OwnMarker, TRUE))
      BY FilesArePaths, UnmeasuredFigure DEF FilesOf
    <3>3. ~There(OwnMarker)' \/ tree'[OwnMarker].kind # "dir"
      BY <2>2, <3>1 DEF Opens, World, There, OwnMarker, Root
    <3>4. Figure(Unmeasured("unavailable"), Files(OwnMarker, TRUE))'
      BY <3>1, <3>2, FigureKept
    <3> QED
      BY <3>1, <3>3, <3>4 DEF StoreInv, StoreAhead
  <2> QED
    BY <2>1, <2>2
<1>3. CASE sizeWalk
  <2>1. World /\ Later /\ told' = told /\ walk.doing = "sizing" /\ walk.open # <<>>
    BY <1>3, WorldKept DEF sizeWalk, World
  <2>2. walk'.doing = "sizing" /\ walk'.for = walk.for /\ walk'.root = walk.root
    <3>1. CASE Last(walk.open) = {}
      BY <1>3, <2>1, <3>1, WalkKinds DEF sizeWalk, SizingsFor
    <3>2. CASE Last(walk.open) # {}
      <4>1. PICK p \in Last(walk.open) : walk' = SizeEntry(p)
        BY <1>3, <3>2 DEF sizeWalk
      <4>2. SizeStep(walk', p, Less(p)) /\ p \in Paths
        BY <2>1, <4>1, SizeStepIs, OpenIs
      <4> QED
        BY <2>1, <4>2, FieldsOf
    <3> QED
      BY <3>1, <3>2
  <2>3. CASE walk.for = "store"
    BY <2>1, <2>2, <2>3 DEF StoreInv, StoreAhead
  <2>4. CASE walk.for # "store"
    BY <2>1, <2>2, <2>4, StoreRests DEF StoreAhead
  <2> QED
    BY <2>3, <2>4
<1>4. CASE measureStore
  <2>1. World /\ walk.doing = "sizing" /\ walk.open = <<>> /\ walk.for = "store" /\ walk'.doing = "watched"
        /\ told'.store = Measured(walk.bytes, walk.gaps)
    BY <1>0, <1>4 DEF measureStore, Sized, World, Idle, Told
  <2>2. walk.root = OwnMarker
    BY <2>1 DEF StoreInv, StoreAhead
  <2>3. Within = Files(OwnMarker, TRUE)
    BY <2>1, <2>2 DEF Within, Files
  <2>4. Figure(Measured(walk.bytes, walk.gaps), Files(OwnMarker, TRUE))
    BY <2>1, <2>3, SizedFigure
  <2> DEFINE m == Measured(walk.bytes, walk.gaps)
  <2>5. m.measured
    BY DEF Measured
  <2>6. PICK n : n = m
    OBVIOUS
  <2>7. Figure(n, Files(OwnMarker, TRUE))'
    <3>1. Figure(n, Files(OwnMarker, TRUE))
      BY <2>4, <2>6
    <3> QED
      BY <2>1, <3>1, FigureKept
  <2> HIDE DEF m
  <2>8. told'.store = n /\ n.measured
    BY <2>1, <2>5, <2>6 DEF m
  <2> QED
    BY <2>1, <2>7, <2>8 DEF StoreInv, StoreAhead
<1>5. CASE Watches
  BY <1>5, AfterTheStore, StoreRests
<1>6. CASE \E p \in DOMAIN tree : Vanish(p)
  <2>1. Later /\ walk' = walk /\ told' = told
    BY <1>6, Vanished
  <2>2. CASE StoreAhead
    BY <2>1, <2>2 DEF StoreInv, StoreAhead
  <2>3. CASE ~StoreAhead
    BY <2>1, <2>3, StoreRests DEF StoreAhead
  <2> QED
    BY <2>2, <2>3
<1> QED
  BY <1>1, <1>2, <1>3, <1>4, <1>5, <1>6 DEF AuditNext, Watches

-----------------------------------------------------------------------------
(* The search. *)
LEMMA OutermostAre ==
    /\ Outermost \subseteq Paths
    /\ \A o \in Outermost : IsDir(o) /\ Selects(o) /\ Clear(o) /\ Name(o) \notin ProtectedNames
    /\ \A o \in Paths : IsDir(o) /\ Selects(o) /\ Clear(o) /\ Name(o) \notin ProtectedNames => o \in Outermost
  BY DEF Outermost, Clear, Open, Paths

LEMMA FoundPlaces == ASSUME AuditTypes PROVE FoundPaths \subseteq Paths
  BY DEF AuditTypes, FoundPaths, Rows

LEMMA StillSearching ==
    ASSUME AuditTypes, Later, Searching', NEW stack, NEW left, NEW b, NEW f,
           TheSearch'.stack = stack, TheSearch'.left = left, Busy' = b, FoundPaths' = f,
           SearchOk(stack, left, b, f, told'.searchGaps)
    PROVE  SearchInv'
<1>1. Outermost' = Outermost /\ (\A p : There(p)' => There(p)) /\ \A p : IsDir(p)' <=> IsDir(p)
  BY WorldLater
<1>2. /\ \A i \in DOMAIN stack : stack[i] # Root => Passed(stack[i])
      /\ \A p \in left : Clear(p)
      /\ Apart(stack, left)
      /\ \A p \in b \cup f : Behind(p, stack, left)
      /\ b \subseteq Outermost \ f
      /\ told'.searchGaps = {} => \A o \in Outermost : There(o) => o \in b \cup f \/ Ahead(o, stack, left)
  BY Zenon DEF SearchOk
<1>3. \A i \in DOMAIN stack : stack[i] # Root =>
        /\ tree'[stack[i]].kind \in {"dir", "closed"} /\ Clear(stack[i])
        /\ Name(stack[i]) \notin ProtectedNames /\ ~Selects(stack[i])
  BY <1>2 DEF Passed, IsDir, Later
<1>4. /\ b \subseteq Outermost' \ f
      /\ told'.searchGaps = {} => \A o \in Outermost' : There(o)' => o \in b \cup f \/ Ahead(o, stack, left)
  BY <1>1, <1>2
<1>6. SearchOk(TheSearch.stack, TheSearch.left, Busy, FoundPaths, told.searchGaps)'
  BY <1>2, <1>3, <1>4 DEF SearchOk, Passed, IsDir
<1>7. ~StoreAhead' /\ walk'.doing # "watched" /\ walk'.doing # "done"
  BY DEF Searching, StoreAhead
<1> QED
  BY <1>6, <1>7 DEF SearchInv

LEMMA BeforeTheSearch ==
    ASSUME SearchInv, told'.found = told.found, StoreAhead \/ walk.doing = "watched",
           StoreAhead' \/ walk'.doing = "watched"
    PROVE  SearchInv'
  BY DEF SearchInv, Searching, StoreAhead

LEMMA SearchStarts == ASSUME AuditTypes, SearchInv, auditWatched PROVE SearchInv'
<1>1. World /\ Later /\ walk.doing = "watched" /\ told' = told /\ walk' = Search(<<Root>>, {}, 1)
  BY WorldKept DEF auditWatched, World
<1>2. FoundPaths' = {}
  BY <1>1 DEF SearchInv, FoundPaths
<1> DEFINE s == <<Root>>
<1>3. DOMAIN s = {1} /\ s[1] = Root
  OBVIOUS
<1> HIDE DEF s
<1>4. walk'.doing = "search" /\ walk'.stack = s /\ walk'.left = {}
  BY <1>1 DEF Search, s
<1>5. Searching' /\ TheSearch' = walk' /\ Busy' = {}
  BY <1>4 DEF Searching, TheSearch, Busy
<1>6. ASSUME NEW o \in Outermost PROVE Ahead(o, s, {})
  <2>1. o \in Path /\ o # Root /\ IsPrefix(Root, o)
    BY OutermostAre, WorktreeIs, RootLeads
  <2> QED
    BY <1>3, <2>1 DEF Ahead
<1>7. SearchOk(s, {}, {}, {}, told'.searchGaps)
  BY <1>3, <1>6 DEF SearchOk, Apart
<1> QED
  BY <1>1, <1>2, <1>4, <1>5, <1>7, StillSearching

LEMMA SearchIsOk ==
    ASSUME AuditTypes, SearchInv, walk.doing = "search"
    PROVE  SearchOk(walk.stack, walk.left, {}, FoundPaths, told.searchGaps)
  BY DEF SearchInv, Searching, TheSearch, Busy

LEMMA SearchDirSearches == ASSUME AuditTypes, SearchInv, SearchDir PROVE SearchInv'
<1>1. World /\ Later /\ walk.doing = "search" /\ walk \in Searches /\ told \in Told /\ walk.left = {}
  BY WalkKinds, WorldKept DEF SearchDir, World
<1>2. SearchOk(walk.stack, {}, {}, FoundPaths, told.searchGaps)
  BY <1>1, SearchIsOk
<1>3. CASE walk.stack = <<>>
  <2>1. walk'.doing = "done" /\ told'.searchGaps = told.searchGaps /\ told'.found = told.found
    BY <1>1, <1>3 DEF SearchDir, EndSearch, Idle, Told
  <2>2. \A o : ~Ahead(o, <<>>, {})
    BY DEF Ahead
  <2>3. told.searchGaps = {} => \A o \in Outermost : There(o) => o \in FoundPaths
    BY <1>2, <1>3, <2>2 DEF SearchOk
  <2>4. Outermost' = Outermost /\ (\A p : There(p)' => There(p)) /\ FoundPaths' = FoundPaths
    BY <1>1, <2>1, WorldLater DEF FoundPaths
  <2> QED
    BY <2>1, <2>3, <2>4 DEF SearchInv, Searching, StoreAhead
<1>4. CASE walk.stack # <<>>
  <2> DEFINE d == Last(walk.stack)  f == Front(walk.stack)  e == Entries(Last(walk.stack))
  <2>1. walk' = Search(f, e, walk.committed)
        /\ told' = IF Opens(d) THEN told ELSE [told EXCEPT !.searchGaps = @ \cup {"unreadable"}]
    BY <1>4 DEF SearchDir
  <2>2. walk'.doing = "search" /\ walk'.stack = f /\ walk'.left = e
        /\ told'.found = told.found /\ (told'.searchGaps = {} => told.searchGaps = {} /\ Opens(d))
    BY <1>1, <2>1 DEF Search, Told
  <2>3. Searching' /\ TheSearch' = walk' /\ Busy' = {} /\ FoundPaths' = FoundPaths
    BY <2>2 DEF Searching, TheSearch, Busy, FoundPaths
  <2>4. /\ Len(walk.stack) \in Nat /\ Len(walk.stack) >= 1 /\ DOMAIN walk.stack = 1..Len(walk.stack)
        /\ d \in Paths \cup {Root} /\ d = walk.stack[Len(walk.stack)]
        /\ DOMAIN f = 1..(Len(walk.stack) - 1)
        /\ \A i \in 1..(Len(walk.stack) - 1) : f[i] = walk.stack[i]
    BY <1>1, <1>4, TopOf DEF Searches
  <2>5. walk.stack \in Stack
    BY <1>1 DEF Searches, Stack
  <2>6. /\ \A i \in DOMAIN walk.stack : walk.stack[i] # Root => Passed(walk.stack[i])
        /\ Apart(walk.stack, {})
        /\ \A p \in FoundPaths : Behind(p, walk.stack, {})
        /\ told.searchGaps = {} => \A o \in Outermost : There(o) => o \in FoundPaths \/ Ahead(o, walk.stack, {})
    BY <1>2 DEF SearchOk
  <2>7. ASSUME NEW i \in DOMAIN f, f[i] # Root PROVE Passed(f[i])
    <3>1. i \in DOMAIN walk.stack /\ f[i] = walk.stack[i]
      BY <2>4
    <3> QED
      BY <2>6, <2>7, <3>1
  <2>8. ASSUME NEW c \in e PROVE Clear(c)
    <3>1. ASSUME NEW q \in Enclosing(c) PROVE Name(q) \notin ProtectedNames /\ ~Selects(q)
      <4>1. d # Root /\ (q = d \/ q \in Enclosing(d))
        BY <2>4, EnclosingEntry
      <4>2. Passed(d)
        BY <2>4, <2>6, <4>1
      <4> QED
        BY <4>1, <4>2 DEF Passed, Clear, Open
    <3> QED
      BY <3>1 DEF Clear, Open
  <2>9. Apart(f, e)
    BY <1>4, <2>5, <2>6, ListedApart
  <2>10. ASSUME NEW p \in FoundPaths PROVE Behind(p, f, e)
    BY <1>4, <2>5, <2>6, FoundPlaces, ListedBehind
  <2>11. ASSUME told'.searchGaps = {}, NEW o \in Outermost, There(o) PROVE o \in FoundPaths \/ Ahead(o, f, e)
    <3>1. o \in Paths /\ (o \in FoundPaths \/ Ahead(o, walk.stack, {})) /\ Opens(d)
      BY <2>2, <2>6, <2>11, OutermostAre
    <3> QED
      BY <1>4, <2>5, <2>11, <3>1, ListedAhead
  <2> HIDE DEF d, f, e
  <2>12. SearchOk(f, e, {}, FoundPaths, told'.searchGaps)
    BY <2>7, <2>8, <2>9, <2>10, <2>11 DEF SearchOk
  <2> QED
    BY <1>1, <2>2, <2>3, <2>12, StillSearching
<1> QED
  BY <1>3, <1>4

LEMMA SearchEntrySearches == ASSUME AuditTypes, SearchInv, SearchEntry PROVE SearchInv'
<1>1. World /\ Later /\ walk.doing = "search" /\ walk \in Searches /\ told \in Told
  BY WalkKinds, WorldKept DEF SearchEntry, World
<1>2. SearchOk(walk.stack, walk.left, {}, FoundPaths, told.searchGaps)
  BY <1>1, SearchIsOk
<1> DEFINE s == walk.stack  l == walk.left
<1>3. /\ \A i \in DOMAIN s : s[i] # Root => Passed(s[i])
      /\ \A p \in l : Clear(p)
      /\ Apart(s, l)
      /\ \A p \in FoundPaths : Behind(p, s, l)
      /\ told.searchGaps = {} => \A o \in Outermost : There(o) => o \in FoundPaths \/ Ahead(o, s, l)
  BY <1>2 DEF SearchOk
<1>4. PICK p \in l : SearchStep(p)
  BY SearchStepIs
<1>5. p \in Paths /\ p \in Path /\ s \in Stack /\ IsPrefix(p, p)
  BY <1>1, WorktreeIs, RootLeads DEF Searches, Stack
<1>6. /\ Rest(p) \in Searches /\ Rest(p).stack = s /\ Rest(p).left = l \ {p}
      /\ Met \in Told /\ Met.found = told.found /\ Met = [told EXCEPT !.examined = told.examined + 1]
  BY <1>1, RestIs
<1>7. Met.searchGaps = told.searchGaps
  BY <1>1, <1>6 DEF Told
<1>8. CASE walk' = Idle("done") /\ \/ told' = [told EXCEPT !.searchGaps = @ \cup {"budget"}]
                                   \/ told' = [Met EXCEPT !.searchGaps = @ \cup {"budget"}]
  <2>1. ASSUME NEW t \in Told, told' = [t EXCEPT !.searchGaps = @ \cup {"budget"}] PROVE told'.searchGaps # {}
    BY <2>1 DEF Told
  <2>2. walk'.doing = "done"
    BY <1>8 DEF Idle
  <2>3. told'.searchGaps # {}
    BY <1>1, <1>6, <1>8, <2>1
  <2> QED
    BY <2>2, <2>3 DEF SearchInv, Searching, StoreAhead
<1>9. ASSUME NEW o \in Outermost, IsPrefix(p, o)
      PROVE  Name(p) \notin ProtectedNames /\ IsDir(p) /\ (o = p \/ ~Selects(p))
  <2>1. o \in Paths /\ IsDir(o) /\ Clear(o) /\ Name(o) \notin ProtectedNames
    BY OutermostAre
  <2>2. CASE o = p
    BY <2>1, <2>2
  <2>3. CASE o # p
    <3>1. IsDir(p) /\ p \in Enclosing(o)
      BY <1>5, <1>9, <2>1, <2>3, NothingMissed
    <3> QED
      BY <2>1, <3>1 DEF Clear, Open
  <2> QED
    BY <2>2, <2>3
<1>10. Apart(s, l \ {p}) /\ Behind(p, s, l \ {p}) /\ \A x \in FoundPaths : Behind(x, s, l \ {p})
  BY <1>3, <1>5, PushedApart, PushedBehind
<1>11. told' = Met => told'.searchGaps = told.searchGaps /\ FoundPaths' = FoundPaths
  BY <1>6, <1>7 DEF FoundPaths
<1> HIDE DEF s, l
<1>12. CASE Name(p) \in ProtectedNames \/ ~IsDir(p)
  <2>1. ASSUME walk' = Rest(p), told' = Met PROVE SearchInv'
    <3>1. walk'.doing = "search" /\ walk'.stack = s /\ walk'.left = l \ {p}
      BY <1>6, <2>1 DEF Searches
    <3>2. Searching' /\ TheSearch' = walk' /\ Busy' = {}
      BY <3>1 DEF Searching, TheSearch, Busy
    <3>3. ASSUME told.searchGaps = {}, NEW o \in Outermost, There(o) PROVE o \in FoundPaths \/ Ahead(o, s, l \ {p})
      <4>1. ~IsPrefix(p, o)
        BY <1>9, <1>12, <3>3
      <4> QED
        BY <1>3, <3>3, <4>1, PassedAhead
    <3>4. SearchOk(s, l \ {p}, {}, FoundPaths, told'.searchGaps)
      BY <1>3, <1>10, <1>11, <2>1, <3>3 DEF SearchOk
    <3> QED
      BY <1>1, <1>11, <2>1, <3>1, <3>2, <3>4, StillSearching
  <2> QED
    BY <1>4, <1>8, <1>12, <2>1, Zenon DEF SearchStep, EndSearch
<1>13. CASE ~(Name(p) \in ProtectedNames) /\ IsDir(p) /\ Selects(p)
  <2>1. ASSUME walk' = [doing |-> "measure", at |-> p, search |-> Rest(p)], told' = Met PROVE SearchInv'
    <3>1. walk'.doing = "measure" /\ walk'.at = p /\ walk'.search = Rest(p)
      BY <2>1
    <3>2. Searching' /\ TheSearch'.stack = s /\ TheSearch'.left = l \ {p} /\ Busy' = {p}
      BY <1>6, <3>1 DEF Searching, TheSearch, Busy
    <3>3. p \in Outermost /\ p \notin FoundPaths
      <4>1. \A x \in FoundPaths : ~IsPrefix(p, x)
        BY <1>3, <1>4 DEF Behind
      <4> QED
        BY <1>3, <1>4, <1>5, <1>13, <4>1, OutermostAre
    <3>4. ASSUME told.searchGaps = {}, NEW o \in Outermost, There(o)
          PROVE  o \in {p} \cup FoundPaths \/ Ahead(o, s, l \ {p})
      <4>1. CASE IsPrefix(p, o)
        BY <1>9, <1>13, <4>1
      <4>2. CASE ~IsPrefix(p, o)
        BY <1>3, <3>4, <4>2, PassedAhead
      <4> QED
        BY <4>1, <4>2
    <3>5. SearchOk(s, l \ {p}, {p}, FoundPaths, told'.searchGaps)
      BY <1>3, <1>10, <1>11, <2>1, <3>3, <3>4 DEF SearchOk
    <3> QED
      BY <1>1, <1>11, <2>1, <3>2, <3>5, StillSearching
  <2> QED
    BY <1>4, <1>8, <1>13, <2>1, Zenon DEF SearchStep, EndSearch
<1>14. CASE ~(Name(p) \in ProtectedNames) /\ IsDir(p) /\ ~Selects(p)
  <2> DEFINE a == Append(s, p)
  <2>1. ASSUME walk' = [Rest(p) EXCEPT !.committed = @ + 1, !.stack = Append(@, p)], told' = Met PROVE SearchInv'
    <3>1. /\ [Rest(p) EXCEPT !.committed = @ + 1, !.stack = Append(@, p)] \in Searches
          /\ [Rest(p) EXCEPT !.committed = @ + 1, !.stack = Append(@, p)].stack = a
          /\ [Rest(p) EXCEPT !.committed = @ + 1, !.stack = Append(@, p)].left = l \ {p}
      BY <1>1, <1>4, RestIs DEF s, l
    <3>2. walk' \in Searches /\ walk'.stack = a /\ walk'.left = l \ {p}
      BY <2>1, <3>1, Zenon
    <3>3. walk'.doing = "search"
      BY <3>2 DEF Searches
    <3>4. Searching' /\ TheSearch' = walk' /\ Busy' = {}
      BY <3>3 DEF Searching, TheSearch, Busy
    <3>5. Passed(p)
      BY <1>3, <1>4, <1>14 DEF Passed
    <3>6. \A i \in DOMAIN a : (i \in DOMAIN s /\ a[i] = s[i]) \/ a[i] = p
      BY <1>5, PushedOn DEF Stack
    <3>7. Apart(a, l \ {p}) /\ \A x \in FoundPaths : Behind(x, a, l \ {p})
      BY <1>3, <1>4, <1>5, PushedApart, PushedBehind
    <3>8. ASSUME told.searchGaps = {}, NEW o \in Outermost, There(o) PROVE o \in FoundPaths \/ Ahead(o, a, l \ {p})
      <4>1. p # o
        BY <1>14, OutermostAre
      <4> QED
        BY <1>3, <1>5, <3>8, <4>1, PushedAhead
    <3> HIDE DEF a
    <3>9. SearchOk(a, l \ {p}, {}, FoundPaths, told'.searchGaps)
      BY <1>3, <1>11, <2>1, <3>5, <3>6, <3>7, <3>8 DEF SearchOk
    <3> QED
      BY <1>1, <1>11, <2>1, <3>2, <3>4, <3>9, StillSearching
  <2> QED
    BY <1>4, <1>8, <1>14, <2>1, Zenon DEF SearchStep, EndSearch
<1> QED
  BY <1>12, <1>13, <1>14

(* A root that was being measured is found. *)
LEMMA SearchGoesOn ==
    ASSUME AuditTypes, SearchInv, World, Searching, walk.doing \in {"measure", "sizing"},
           NEW p, Busy = {p}, walk' = walk.search, walk.search \in Searches,
           FoundPaths' = FoundPaths \cup {p}, told'.searchGaps = told.searchGaps
    PROVE  SearchInv'
<1> DEFINE s == walk.search.stack  l == walk.search.left
<1>1. TheSearch = walk.search /\ Later
  BY WorldKept DEF TheSearch
<1>2. SearchOk(s, l, {p}, FoundPaths, told.searchGaps)
  BY <1>1 DEF SearchInv
<1>3. SearchOk(s, l, {}, FoundPaths \cup {p}, told'.searchGaps)
  <2> HIDE DEF s, l
  <2> QED
    BY <1>2 DEF SearchOk
<1>4. walk'.doing = "search"
  BY DEF Searches
<1>5. Searching' /\ TheSearch' = walk' /\ Busy' = {}
  BY <1>4 DEF Searching, TheSearch, Busy
<1> QED
  BY <1>1, <1>3, <1>5, StillSearching

LEMMA BusyIs ==
    ASSUME AuditTypes
    PROVE  /\ walk.doing = "measure" => Searching /\ Busy = {walk.at} /\ walk.at \in Paths /\ walk.search \in Searches
           /\ walk.doing = "sizing" /\ walk.for = "watched" =>
                Searching /\ Busy = {walk.root} /\ walk.root \in Paths /\ walk.search \in Searches
  BY WalkKinds DEF Searching, Busy, Measurings, SizingsFor

LEMMA TallyFinds ==
    ASSUME AuditTypes, NEW p \in Paths, NEW m \in Figures, NEW t, t.found = Tally(p, m).found
    PROVE  t.found = told.found \cup {Row(p, m)} /\ {r.path : r \in t.found} = FoundPaths \cup {p}
<1>1. Tally(p, m).found = told.found \cup {Row(p, m)} /\ Row(p, m).path = p
  <2>1. told \in Told
    BY WalkKinds
  <2> QED
    BY <2>1 DEF Told, Tally, Row
<1> QED
  BY <1>1 DEF FoundPaths

LEMMA SizeWatchedSearches == ASSUME AuditTypes, SearchInv, sizeWatchedRoot PROVE SearchInv'
<1>1. World /\ Later /\ walk.doing = "measure" /\ walk \in Measurings /\ told \in Told
  BY WalkKinds, WorldKept DEF sizeWatchedRoot, World
<1>2. Searching /\ Busy = {walk.at} /\ walk.at \in Paths /\ walk.search \in Searches
  BY <1>1, BusyIs
<1>3. CASE told.spare <= 0 \/ ~Opens(walk.at)
  <2> DEFINE m == Unmeasured(IF told.spare <= 0 THEN "aggregate" ELSE "unavailable")
  <2>1. told' = Tally(walk.at, m) /\ walk' = walk.search
    BY <1>3 DEF sizeWatchedRoot
  <2>2. m \in Figures
    BY GapsAreTexts DEF Unmeasured, Figures
  <2> HIDE DEF m
  <2>3. FoundPaths' = FoundPaths \cup {walk.at}
    BY <1>2, <2>1, <2>2, TallyFinds DEF FoundPaths
  <2>4. told'.searchGaps = told.searchGaps
    BY <1>1, <2>1 DEF Tally, Told
  <2> QED
    BY <1>1, <1>2, <2>1, <2>3, <2>4, SearchGoesOn
<1>4. CASE ~(told.spare <= 0 \/ ~Opens(walk.at))
  <2>1. walk' = Sizing("watched", walk.at, Least(limits.rootEntries, told.spare), 0, walk.search) /\ told' = told
    BY <1>4 DEF sizeWatchedRoot
  <2>2. walk'.doing = "sizing" /\ walk'.for = "watched" /\ walk'.root = walk.at /\ walk'.search = walk.search
    BY <2>1 DEF Sizing
  <2>3. Searching' /\ TheSearch' = walk.search /\ Busy' = {walk.at} /\ TheSearch = walk.search
        /\ FoundPaths' = FoundPaths /\ told'.searchGaps = told.searchGaps
    BY <1>1, <2>1, <2>2 DEF Searching, TheSearch, Busy, FoundPaths
  <2>4. SearchOk(walk.search.stack, walk.search.left, {walk.at}, FoundPaths, told.searchGaps)
    BY <1>2, <2>3 DEF SearchInv
  <2> QED
    BY <1>1, <2>3, <2>4, StillSearching
<1> QED
  BY <1>3, <1>4

LEMMA MeasureSearches == ASSUME AuditTypes, SizeInv, SearchInv, measure PROVE SearchInv'
<1> DEFINE m == Measured(walk.bytes, FinalGaps)
<1>1. /\ World /\ walk.root \in Paths /\ walk.search \in Searches /\ m \in Figures
      /\ walk' = walk.search /\ told' = [Tally(walk.root, m) EXCEPT !.spare = told.spare - walk.entries]
      /\ told'.found = Tally(walk.root, m).found
  BY MeasureIs
<1>2. walk.doing = "sizing" /\ walk.for = "watched" /\ told \in Told
  BY WalkKinds DEF measure, Sized
<1> HIDE DEF m
<1>3. FoundPaths' = FoundPaths \cup {walk.root}
  BY <1>1, TallyFinds DEF FoundPaths
<1>4. told'.searchGaps = told.searchGaps
  BY <1>1, <1>2 DEF Tally, Told
<1> QED
  BY <1>1, <1>2, <1>3, <1>4, BusyIs, SearchGoesOn

LEMMA SizeWalkKeeps ==
    ASSUME AuditTypes, sizeWalk
    PROVE  /\ World /\ Later /\ told' = told /\ walk.doing = "sizing" /\ walk'.doing = "sizing"
           /\ walk'.for = walk.for /\ walk'.root = walk.root /\ walk'.search = walk.search
<1>1. World /\ Later /\ told' = told /\ walk.doing = "sizing" /\ walk.open # <<>>
  BY WorldKept DEF sizeWalk, World
<1>2. CASE Last(walk.open) = {}
  BY <1>1, <1>2, WalkKinds DEF sizeWalk, SizingsFor
<1>3. CASE Last(walk.open) # {}
  <2>1. PICK p \in Last(walk.open) : walk' = SizeEntry(p)
    BY <1>3 DEF sizeWalk
  <2>2. SizeStep(walk', p, Less(p)) /\ p \in Paths
    BY <1>1, <2>1, SizeStepIs, OpenIs
  <2> QED
    BY <1>1, <2>2, FieldsOf
<1> QED
  BY <1>1, <1>2, <1>3

LEMMA SearchInvStep == ASSUME AuditTypes, SizeInv, SearchInv, AuditNext PROVE SearchInv'
<1>0. told \in Told
  BY WalkKinds
<1>1. CASE ScanDir \/ findNestedMarker
  <2>1. walk.doing = "markers" /\ walk'.doing \in {"markers", "store"}
    BY <1>1, ScanGoesOn DEF ScanDir, findNestedMarker
  <2>2. told'.found = told.found
    BY <1>0, <1>1 DEF ScanDir, findNestedMarker, EndScan, Told
  <2> QED
    BY <2>1, <2>2, BeforeTheSearch DEF StoreAhead
<1>2. CASE sizeStore
  <2>1. StoreAhead /\ (StoreAhead' \/ walk'.doing = "watched") /\ told'.found = told.found
    BY <1>0, <1>2 DEF sizeStore, StoreAhead, Sizing, Idle, Told
  <2> QED
    BY <2>1, BeforeTheSearch
<1>3. CASE measureStore
  <2>1. StoreAhead /\ walk'.doing = "watched" /\ told'.found = told.found
    BY <1>0, <1>3 DEF measureStore, Sized, StoreAhead, Idle, Told
  <2> QED
    BY <2>1, BeforeTheSearch
<1>4. CASE sizeWalk
  <2>1. /\ World /\ Later /\ told' = told /\ walk.doing = "sizing" /\ walk'.doing = "sizing"
        /\ walk'.for = walk.for /\ walk'.root = walk.root /\ walk'.search = walk.search
    BY <1>4, SizeWalkKeeps
  <2>2. CASE walk.for = "store"
    <3>1. StoreAhead /\ StoreAhead'
      BY <2>1, <2>2 DEF StoreAhead
    <3> QED
      BY <2>1, <3>1, BeforeTheSearch
  <2>3. CASE walk.for # "store"
    <3>1. walk.for = "watched"
      BY <2>1, <2>3, WalkKinds
    <3>2. Searching /\ Searching' /\ TheSearch' = TheSearch /\ Busy' = Busy /\ FoundPaths' = FoundPaths
          /\ told'.searchGaps = told.searchGaps
      BY <2>1, <3>1 DEF Searching, TheSearch, Busy, FoundPaths
    <3>3. SearchOk(TheSearch.stack, TheSearch.left, Busy, FoundPaths, told.searchGaps)
      BY <3>2 DEF SearchInv
    <3> QED
      BY <2>1, <3>2, <3>3, StillSearching
  <2> QED
    BY <2>2, <2>3
<1>5. CASE \E p \in DOMAIN tree : Vanish(p)
  <2>1. Later /\ walk' = walk /\ told' = told /\ walk.doing # "done"
    BY <1>5, Vanished
  <2>2. CASE Searching
    <3>1. Searching' /\ TheSearch' = TheSearch /\ Busy' = Busy /\ FoundPaths' = FoundPaths
          /\ told'.searchGaps = told.searchGaps
      BY <2>1, <2>2 DEF Searching, TheSearch, Busy, FoundPaths
    <3>2. SearchOk(TheSearch.stack, TheSearch.left, Busy, FoundPaths, told.searchGaps)
      BY <2>2 DEF SearchInv
    <3> QED
      BY <2>1, <3>1, <3>2, StillSearching
  <2>3. CASE ~Searching
    BY <2>1, <2>3 DEF SearchInv, Searching, StoreAhead
  <2> QED
    BY <2>2, <2>3
<1> QED
  BY <1>1, <1>2, <1>3, <1>4, <1>5, SearchStarts, SearchDirSearches, SearchEntrySearches,
     SizeWatchedSearches, MeasureSearches DEF AuditNext

-----------------------------------------------------------------------------
(* The tally. *)
LEMMA FoundTallied ==
    ASSUME AuditTypes, FoundInv, World, NEW p \in Outermost \ FoundPaths, NEW m \in Figures,
           Figure(m, Files(p, FALSE)),
           told'.found = Tally(p, m).found, told'.observed = Tally(p, m).observed,
           told'.reaching = Tally(p, m).reaching
    PROVE  FoundInv'
<1> DEFINE r == Row(p, m)
           f == told.found
           after == told.found \cup {r}
<1>1. p \in Paths /\ Later /\ told \in Told /\ IsFiniteSet(f)
  BY OutermostAre, WorldKept, WalkKinds DEF AuditTypes
<1>2. r \in Rows /\ r.path = p /\ r.is = m
  BY <1>1, TallyIs
<1>3. told'.found = after /\ told'.observed = told.observed + m.bytes
      /\ told'.reaching = told.reaching + (IF Reaches(m) THEN 1 ELSE 0)
  BY <1>1 DEF Tally, Told, Row
<1>4. r \notin f /\ \A x \in f : x.path # p
  BY <1>2 DEF FoundPaths
<1>5. m.bytes \in Nat /\ \A x \in f : x.is.bytes \in Nat
  BY <1>1 DEF Told, Rows, Figures
<1>6. FoundPaths' = FoundPaths \cup {p} /\ Outermost' = Outermost /\ \A q : Reaches(q)' <=> Reaches(q)
  BY <1>1, <1>2, <1>3, WorldLater DEF FoundPaths
<1> HIDE DEF r
<1>7. ASSUME NEW x \in after PROVE Figure(x.is, Files(x.path, FALSE))'
  <2>1. Figure(x.is, Files(x.path, FALSE))
    BY <1>2 DEF FoundInv
  <2> QED
    BY <2>1, FigureKept
<1>8. \A x, y \in after : x.path = y.path => x = y
  BY <1>2, <1>4 DEF FoundInv
<1>9. told'.observed = SumFunctionOnSet([x \in after |-> x.is.bytes], after)
  <2> DEFINE g == [x \in after |-> x.is.bytes]
             h == [x \in f |-> x.is.bytes]
  <2>1. Summable(g, f \cup {r}) /\ Summable(h, f)
    <3>1. IsFiniteSet(f \cup {r})
      BY <1>1, FS_AddElement
    <3>2. \A x \in f \cup {r} : g[x] \in Nat
      BY <1>2, <1>5
    <3>3. \A x \in f : h[x] \in Nat
      BY <1>5
    <3> QED
      BY <1>1, <3>1, <3>2, <3>3 DEF Summable
  <2>2. SumFunctionOnSet(g, f \cup {r}) = g[r] + SumFunctionOnSet(g, f)
    BY <1>4, <2>1, SumAdds
  <2>3. SumFunctionOnSet(g, f) = SumFunctionOnSet(h, f)
    <3>1. \A x \in f : g[x] = h[x]
      OBVIOUS
    <3> HIDE DEF g, h
    <3> QED
      BY <2>1, <3>1, SumSame
  <2>4. g[r] = m.bytes /\ told.observed = SumFunctionOnSet(h, f) /\ SumFunctionOnSet(h, f) \in Nat
    BY <1>2, <2>1, SumType DEF FoundInv
  <2> HIDE DEF g, h
  <2>5. told'.observed = SumFunctionOnSet(g, f \cup {r})
    BY <1>3, <1>5, <2>2, <2>3, <2>4
  <2> QED
    BY <2>5 DEF g
<1>10. told'.reaching = Cardinality({x \in after : Reaches(x.is)})
  <2> DEFINE R == {x \in f : Reaches(x.is)}
  <2>1. IsFiniteSet(R) /\ Cardinality(R) \in Nat /\ told.reaching = Cardinality(R) /\ r \notin R
    BY <1>1, <1>4, FS_Subset, FS_CardinalityType DEF FoundInv
  <2>2. CASE Reaches(m)
    <3>1. {x \in after : Reaches(x.is)} = R \cup {r}
      BY <1>2, <2>2
    <3>2. Cardinality(R \cup {r}) = Cardinality(R) + 1
      BY <2>1, FS_AddElement
    <3> HIDE DEF R
    <3> QED
      BY <1>3, <2>1, <2>2, <3>1, <3>2
  <2>3. CASE ~Reaches(m)
    <3>1. {x \in after : Reaches(x.is)} = R
      BY <1>2, <2>3
    <3>2. told'.reaching = told.reaching
      BY <1>1, <1>3, <2>3 DEF Told
    <3> HIDE DEF R
    <3> QED
      BY <2>1, <3>1, <3>2
  <2> QED
    BY <2>2, <2>3
<1>11. {x \in told'.found : Reaches(x.is)'} = {x \in after : Reaches(x.is)}
  BY <1>3, <1>6
<1> HIDE DEF after
<1>12. \A x \in told'.found : Figure(x.is, Files(x.path, FALSE))'
  BY <1>3, <1>7
<1>13. FoundPaths' \subseteq Outermost'
  BY <1>6 DEF FoundInv
<1> QED
  BY <1>3, <1>8, <1>9, <1>10, <1>11, <1>12, <1>13 DEF FoundInv

(* The order of the rows. *)
LEMMA Ranks ==
    ASSUME AuditTypes
    PROVE  /\ \A x, y \in Rows : ranksBefore(x, y) => ~ranksBefore(y, x)
           /\ \A x, y \in Rows : x.path # y.path => ranksBefore(x, y) \/ ranksBefore(y, x)
           /\ \A x, y, z \in Rows : ranksBefore(x, y) /\ ranksBefore(y, z) => ranksBefore(x, z)
<1>1. ASSUME NEW x \in Rows, NEW y \in Rows
      PROVE  /\ PathRank[x.path] \in Nat /\ x.is.bytes \in Nat /\ x.is.measured \in BOOLEAN
             /\ PathRank[y.path] \in Nat /\ y.is.bytes \in Nat /\ y.is.measured \in BOOLEAN
             /\ x.path # y.path => PathRank[x.path] # PathRank[y.path]
  BY WorktreeIs DEF Rows, Figures
<1>2. ASSUME NEW x \in Rows, NEW y \in Rows
      PROVE  ranksBefore(x, y) <=>
                \/ x.is.measured /\ ~y.is.measured
                \/ /\ x.is.measured <=> y.is.measured
                   /\ \/ x.is.bytes > y.is.bytes
                      \/ x.is.bytes = y.is.bytes /\ PathRank[x.path] < PathRank[y.path]
  <2>1. (x.is.measured = y.is.measured) <=> (x.is.measured <=> y.is.measured)
    BY <1>1
  <2> QED
    BY <2>1 DEF ranksBefore
<1>3. \A x, y \in Rows : ranksBefore(x, y) => ~ranksBefore(y, x)
  BY <1>1, <1>2
<1>4. \A x, y \in Rows : x.path # y.path => ranksBefore(x, y) \/ ranksBefore(y, x)
  BY <1>1, <1>2
<1>5. \A x, y, z \in Rows : ranksBefore(x, y) /\ ranksBefore(y, z) => ranksBefore(x, z)
  BY <1>1, <1>2
<1> QED
  BY <1>3, <1>4, <1>5

(* A set of first indexes is an interval. *)
LEMMA FirstOnes ==
    ASSUME NEW n \in Nat, NEW B \in SUBSET (1..n), \A j \in B : \A i \in 1..n : i < j => i \in B
    PROVE  Cardinality(B) \in Nat /\ Cardinality(B) <= n /\ B = 1..Cardinality(B)
<1>1. \E k \in 0..n : B = 1..k
  <2>1. CASE B = 1..n
    BY <2>1
  <2>2. CASE B # 1..n
    <3> DEFINE U == (1..n) \ B
    <3>1. U \in SUBSET Nat /\ U # {}
      <4>1. 1..n \subseteq Nat
        OBVIOUS
      <4>2. \E i \in 1..n : i \notin B
        BY <2>2
      <4> QED
        BY <4>1, <4>2
    <3>2. PICK u \in U : \A k \in U : u <= k
      <4> HIDE DEF U
      <4> QED
        BY <3>1, Smallest
    <3>3. u \in 1..n /\ u \notin B /\ u - 1 \in 0..n
      BY <3>2
    <3>4. \A i \in 1..(u - 1) : i \in B
      BY <3>2, <3>3
    <3>5. \A j \in B : j \in 1..(u - 1)
      BY <3>3
    <3> QED
      BY <3>3, <3>4, <3>5
  <2> QED
    BY <2>1, <2>2
<1>2. PICK k \in 0..n : B = 1..k
  BY <1>1
<1>3. Cardinality(1..k) = k
  BY <1>2, FS_Interval
<1> QED
  BY <1>2, <1>3

(* The rows with one more in its place. *)
Place(r) == Cardinality({i \in DOMAIN told.detail : ~ranksBefore(r, told.detail[i])})
Grown(r) == SubSeq(told.detail, 1, Place(r)) \o <<r>> \o SubSeq(told.detail, Place(r) + 1, Len(told.detail))

LEMMA GrownIs ==
    ASSUME AuditTypes, DetailInv, NEW r \in Rows, r.path \notin FoundPaths
    PROVE  /\ Len(told.detail) \in Nat /\ DOMAIN told.detail = 1..Len(told.detail)
           /\ \A i \in 1..Len(told.detail) : told.detail[i] \in Rows /\ told.detail[i] \in told.found
           /\ Place(r) \in 0..Len(told.detail)
           /\ \A i \in 1..Place(r) : ranksBefore(told.detail[i], r)
           /\ \A i \in (Place(r) + 1)..Len(told.detail) : ranksBefore(r, told.detail[i])
           /\ Grown(r) \in Seq(Rows) /\ Len(Grown(r)) = Len(told.detail) + 1
           /\ \A i \in 1..Place(r) : Grown(r)[i] = told.detail[i]
           /\ Grown(r)[Place(r) + 1] = r
           /\ \A i \in (Place(r) + 2)..(Len(told.detail) + 1) : Grown(r)[i] = told.detail[i - 1]
<1> DEFINE d == told.detail  n == Len(told.detail)
           B == {i \in DOMAIN d : ~ranksBefore(r, d[i])}
           b == Place(r)
<1>1. d \in Seq(Rows)
  BY WalkKinds DEF Told
<1>2. n \in Nat /\ DOMAIN d = 1..n /\ \A i \in 1..n : d[i] \in Rows
  BY <1>1, LenProperties, ElementOfSeq
<1>3. \A i, j \in 1..n : i < j => ranksBefore(d[i], d[j])
  BY <1>2 DEF DetailInv
<1>4. \A i \in 1..n : d[i] \in told.found /\ d[i].path # r.path
  BY <1>2 DEF DetailInv, ToSet, FoundPaths
<1>5. b = Cardinality(B)
  BY DEF Place
<1> HIDE DEF d, n, b
<1>6. B \in SUBSET (1..n) /\ \A j \in B : \A i \in 1..n : i < j => i \in B
  <2>1. ASSUME NEW j \in B, NEW i \in 1..n, i < j PROVE i \in B
    <3>1. j \in 1..n /\ ~ranksBefore(r, d[j])
      BY <1>2
    <3>2. ranksBefore(d[j], r)
      BY <1>2, <1>4, <3>1, Ranks
    <3>3. ranksBefore(d[i], r)
      BY <1>2, <1>3, <2>1, <3>1, <3>2, Ranks
    <3> QED
      BY <1>2, <3>3, Ranks
  <2> QED
    BY <1>2, <2>1
<1>7. b \in Nat /\ b <= n /\ B = 1..b
  <2> HIDE DEF B
  <2> QED
    BY <1>2, <1>5, <1>6, FirstOnes
<1>8. \A i \in 1..b : ranksBefore(d[i], r)
  <2>1. ASSUME NEW i \in 1..b PROVE ranksBefore(d[i], r)
    <3>1. i \in B /\ i \in 1..n
      BY <1>2, <1>7
    <3> QED
      BY <1>2, <1>4, <3>1, Ranks
  <2> QED
    BY <2>1
<1>9. \A i \in (b + 1)..n : ranksBefore(r, d[i])
  <2>1. ASSUME NEW i \in (b + 1)..n PROVE ranksBefore(r, d[i])
    <3>1. i \in 1..n /\ i \notin 1..b
      BY <1>2, <1>7
    <3>2. i \notin B
      BY <1>7, <3>1
    <3> QED
      BY <1>2, <3>1, <3>2
  <2> QED
    BY <2>1
<1> HIDE DEF B
<1> DEFINE s == SubSeq(d, 1, b)  t == SubSeq(d, b + 1, n)  u == s \o <<r>>  g == u \o t
<1>10. s \in Seq(Rows) /\ Len(s) = b /\ \A i \in 1..b : s[i] = d[i]
  <2>1. \A i \in 1..b : d[i] \in Rows
    BY <1>2, <1>7
  <2> QED
    BY <1>7, <2>1, SubSeqProperties
<1>11. t \in Seq(Rows) /\ Len(t) = n - b /\ \A i \in 1..(n - b) : t[i] = d[b + i]
  <2>1. \A i \in (b + 1)..n : d[i] \in Rows
    BY <1>2, <1>7
  <2>2. /\ t \in Seq(Rows) /\ Len(t) = IF b + 1 <= n THEN n - (b + 1) + 1 ELSE 0
        /\ \A i \in 1..(n - (b + 1) + 1) : t[i] = d[(b + 1) + i - 1]
    BY <1>2, <1>7, <2>1, SubSeqProperties
  <2> HIDE DEF t
  <2>3. \A i \in Nat : (b + 1) + i - 1 = b + i
    BY <1>7
  <2>4. n - (b + 1) + 1 = n - b /\ 1..(n - b) \subseteq Nat
    BY <1>2, <1>7
  <2>5. ASSUME NEW i \in 1..(n - b) PROVE t[i] = d[b + i]
    <3>1. i \in Nat /\ i \in 1..(n - (b + 1) + 1)
      BY <2>4
    <3>2. t[i] = d[(b + 1) + i - 1]
      BY <2>2, <3>1
    <3> QED
      BY <2>3, <3>1, <3>2
  <2> QED
    BY <1>2, <1>7, <2>2, <2>5
<1> HIDE DEF s, t
<1>12. <<r>> \in Seq(Rows) /\ Len(<<r>>) = 1 /\ <<r>>[1] = r
  OBVIOUS
<1>13. u \in Seq(Rows) /\ Len(u) = b + 1 /\ (\A i \in 1..b : u[i] = d[i]) /\ u[b + 1] = r
  <2> DEFINE o == <<r>>
  <2>1. o \in Seq(Rows) /\ Len(o) = 1 /\ o[1] = r
    BY <1>12
  <2> HIDE DEF o
  <2>2. /\ s \o o \in Seq(Rows) /\ Len(s \o o) = b + 1
        /\ \A i \in 1..(b + 1) : (s \o o)[i] = IF i <= b THEN s[i] ELSE o[i - b]
    BY <1>10, <2>1, ConcatProperties
  <2>3. \A i \in 1..b : (s \o o)[i] = d[i]
    BY <1>7, <1>10, <2>2
  <2>4. (s \o o)[b + 1] = r
    BY <1>7, <2>1, <2>2
  <2> QED
    BY <2>2, <2>3, <2>4 DEF o
<1> HIDE DEF u
<1>14. g \in Seq(Rows) /\ Len(g) = n + 1 /\ (\A i \in 1..b : g[i] = d[i]) /\ g[b + 1] = r
       /\ \A i \in (b + 2)..(n + 1) : g[i] = d[i - 1]
  <2>0. /\ g \in Seq(Rows) /\ Len(g) = Len(u) + Len(t)
        /\ \A i \in 1..(Len(u) + Len(t)) : g[i] = IF i <= Len(u) THEN u[i] ELSE t[i - Len(u)]
    BY <1>11, <1>13, ConcatProperties
  <2> HIDE DEF g
  <2>1. /\ g \in Seq(Rows) /\ Len(g) = (b + 1) + (n - b)
        /\ \A i \in 1..((b + 1) + (n - b)) : g[i] = IF i <= b + 1 THEN u[i] ELSE t[i - (b + 1)]
    <3>1. Len(u) = b + 1 /\ Len(t) = n - b
      BY <1>11, <1>13
    <3> QED
      BY <2>0, <3>1
  <2>2. (b + 1) + (n - b) = n + 1
    BY <1>2, <1>7
  <2>3. (\A i \in 1..b : g[i] = d[i]) /\ g[b + 1] = r
    BY <1>2, <1>7, <1>13, <2>1, <2>2
  <2>4. ASSUME NEW i \in (b + 2)..(n + 1) PROVE g[i] = d[i - 1]
    <3>1. i \in 1..(n + 1) /\ ~(i <= b + 1) /\ i - (b + 1) \in 1..(n - b) /\ b + (i - (b + 1)) = i - 1
      BY <1>2, <1>7
    <3>2. g[i] = t[i - (b + 1)]
      BY <2>1, <2>2, <3>1
    <3> QED
      BY <1>11, <3>1, <3>2
  <2> QED
    BY <2>1, <2>2, <2>3, <2>4
<1>15. Grown(r) = g
  BY DEF Grown, g, u, s, t, d, n, b
<1> HIDE DEF g
<1> QED
  BY <1>2, <1>4, <1>7, <1>8, <1>9, <1>14, <1>15 DEF d, n, b

LEMMA DetailTallied ==
    ASSUME AuditTypes, DetailInv, World, NEW p \in Paths, p \notin FoundPaths, NEW m \in Figures,
           told'.found = Tally(p, m).found, told'.detail = Tally(p, m).detail
    PROVE  DetailInv'
<1> DEFINE r == Row(p, m)  d == told.detail  n == Len(told.detail)  g == Grown(Row(p, m))
           limit == limits.detail  k == Least(limits.detail, Len(told.detail) + 1)
           after == told.found \cup {Row(p, m)}
<1>1. r \in Rows /\ r.path = p /\ told \in Told /\ IsFiniteSet(told.found) /\ limit \in Nat
  BY TallyIs, WalkKinds, WorktreeIs DEF AuditTypes
<1>2. /\ n \in Nat /\ DOMAIN d = 1..n /\ \A i \in 1..n : d[i] \in Rows /\ d[i] \in told.found
      /\ Place(r) \in 0..n
      /\ \A i \in 1..Place(r) : ranksBefore(d[i], r)
      /\ \A i \in (Place(r) + 1)..n : ranksBefore(r, d[i])
      /\ g \in Seq(Rows) /\ Len(g) = n + 1
      /\ \A i \in 1..Place(r) : g[i] = d[i]
      /\ g[Place(r) + 1] = r
      /\ \A i \in (Place(r) + 2)..(n + 1) : g[i] = d[i - 1]
  BY <1>1, GrownIs
<1>3. told'.found = after /\ told'.detail = SubSeq(g, 1, k)
  <2>1. told'.found = after /\ told'.detail = Add(r)
    BY <1>1 DEF Tally, Told, Row
  <2>2. Add(r) = SubSeq(g, 1, IF Len(g) < limits.detail THEN Len(g) ELSE limits.detail)
    BY DEF Add, Grown, Place
  <2>3. (IF Len(g) < limits.detail THEN Len(g) ELSE limits.detail) = k
    <3>1. Len(g) = n + 1
      BY <1>2
    <3> HIDE DEF g
    <3>2. (IF n + 1 < limit THEN n + 1 ELSE limit) = k
      BY <1>1, <1>2 DEF Least
    <3> QED
      BY <3>1, <3>2
  <2> QED
    BY <2>1, <2>2, <2>3
<1>4. /\ \A i, j \in 1..n : i < j => ranksBefore(d[i], d[j])
      /\ n = Least(limit, Cardinality(told.found))
      /\ Cardinality(told.found) <= limit => \A x \in told.found : \E i \in 1..n : x = d[i]
      /\ \A x \in told.found : (\E i \in 1..n : x = d[i]) \/ \A i \in 1..n : ranksBefore(d[i], x)
  <2>1. ToSet(d) = {d[i] : i \in 1..n}
    BY <1>2 DEF ToSet
  <2> QED
    BY <1>2, <2>1 DEF DetailInv
<1>5. r \notin told.found /\ told.found \subseteq Rows
  BY <1>1 DEF FoundPaths, Told
<1>6. Cardinality(told.found) \in Nat /\ Cardinality(after) = Cardinality(told.found) + 1
  BY <1>1, <1>5, FS_AddElement, FS_CardinalityType
<1> DEFINE b == Place(r)  e == SubSeq(g, 1, k)  N == Cardinality(told.found)
<1>7. k \in 0..(n + 1) /\ k <= limit /\ (k = n + 1 \/ k = limit)
  BY <1>1, <1>2 DEF Least
<1>8. e \in Seq(Rows) /\ DOMAIN e = 1..k /\ Len(e) = k /\ \A i \in 1..k : e[i] = g[i]
  <2>1. \A i \in 1..(n + 1) : g[i] \in Rows
    BY <1>2, ElementOfSeq
  <2> HIDE DEF g, k, n
  <2>2. k \in Int /\ \A i \in 1..k : g[i] \in Rows
    BY <1>2, <1>7, <2>1
  <2>3. /\ e \in Seq(Rows) /\ Len(e) = IF 1 <= k THEN k - 1 + 1 ELSE 0
        /\ \A i \in 1..(k - 1 + 1) : e[i] = g[1 + i - 1]
    BY <2>2, SubSeqProperties
  <2> HIDE DEF e
  <2>4. Len(e) = k /\ \A i \in 1..k : e[i] = g[i]
    BY <1>2, <1>7, <2>3
  <2> QED
    BY <2>3, <2>4, LenProperties
<1> HIDE DEF r, d, n, g, limit, k, after, b, e, N
<1>9. ASSUME NEW i \in 1..(n + 1) PROVE (i \in 1..b /\ g[i] = d[i]) \/ (i = b + 1 /\ g[i] = r)
                                        \/ (i \in (b + 2)..(n + 1) /\ g[i] = d[i - 1])
  BY <1>2 DEF b
<1>10. ASSUME NEW i \in 1..(n + 1), NEW j \in 1..(n + 1), i < j PROVE ranksBefore(g[i], g[j])
  <2>1. CASE i \in 1..b /\ g[i] = d[i]
    <3>1. CASE j \in 1..b /\ g[j] = d[j]
      BY <1>2, <1>4, <1>10, <2>1, <3>1 DEF b
    <3>2. CASE j = b + 1 /\ g[j] = r
      BY <1>2, <2>1, <3>2 DEF b
    <3>3. CASE j \in (b + 2)..(n + 1) /\ g[j] = d[j - 1]
      <4>1. i \in 1..n /\ j - 1 \in 1..n /\ i < j - 1
        BY <1>2, <2>1, <3>3 DEF b
      <4> QED
        BY <1>4, <2>1, <3>3, <4>1
    <3> QED
      BY <1>9, <3>1, <3>2, <3>3
  <2>2. CASE i = b + 1 /\ g[i] = r
    <3>1. j \in (b + 2)..(n + 1) /\ g[j] = d[j - 1] /\ j - 1 \in (b + 1)..n
      BY <1>2, <1>10, <2>2 DEF b
    <3> QED
      BY <1>2, <2>2, <3>1 DEF b
  <2>3. CASE i \in (b + 2)..(n + 1) /\ g[i] = d[i - 1]
    <3>1. j \in (b + 2)..(n + 1) /\ g[j] = d[j - 1] /\ i - 1 \in 1..n /\ j - 1 \in 1..n /\ i - 1 < j - 1
      BY <1>2, <1>10, <2>3 DEF b
    <3> QED
      BY <1>4, <2>3, <3>1
  <2> QED
    BY <1>9, <2>1, <2>2, <2>3

<1>11. ASSUME NEW i \in 1..n PROVE \E j \in 1..(n + 1) : g[j] = d[i]
  <2>1. CASE i <= b
    <3>1. i \in 1..(n + 1) /\ i \in 1..b
      BY <1>2, <2>1 DEF b
    <3> QED
      BY <1>2, <3>1 DEF b
  <2>2. CASE ~(i <= b)
    <3>1. i + 1 \in 1..(n + 1) /\ i + 1 \in (b + 2)..(n + 1) /\ (i + 1) - 1 = i
      BY <1>2, <2>2 DEF b
    <3>2. g[i + 1] = d[(i + 1) - 1]
      BY <1>2, <3>1 DEF b
    <3> QED
      BY <3>1, <3>2
  <2> QED
    BY <2>1, <2>2
<1>12. b + 1 \in 1..(n + 1) /\ g[b + 1] = r
  BY <1>2 DEF b
<1>13. ASSUME NEW i \in 1..(n + 1) PROVE g[i] \in after
  <2>1. i \in (b + 2)..(n + 1) => i - 1 \in 1..n
    BY <1>2 DEF b
  <2>2. i \in 1..b => i \in 1..n
    BY <1>2 DEF b
  <2>3. r \in after /\ \A j \in 1..n : d[j] \in after
    BY <1>2 DEF after, r
  <2> QED
    BY <1>9, <2>1, <2>2, <2>3
<1>14. \A i \in 1..k : i \in 1..(n + 1) /\ e[i] = g[i]
  BY <1>2, <1>7, <1>8
<1>15. \A i, j \in 1..k : i < j => ranksBefore(e[i], e[j])
  BY <1>10, <1>14
<1>16. ToSet(e) = {e[i] : i \in 1..k}
  BY <1>8 DEF ToSet
<1>17. ToSet(e) \subseteq after
  BY <1>13, <1>14, <1>16
<1>18. Len(e) = Least(limit, N + 1)
  BY <1>1, <1>2, <1>4, <1>6, <1>8 DEF Least, k, n, N, limit
<1>19. ASSUME NEW x \in after PROVE (\E i \in 1..(n + 1) : x = g[i]) \/ (N > limit /\ \A i \in 1..n : ranksBefore(d[i], x))
  <2>1. CASE x = r
    BY <1>12, <2>1
  <2>2. CASE x # r
    <3>1. x \in told.found
      BY <1>19, <2>2 DEF after, r
    <3>2. CASE \E i \in 1..n : x = d[i]
      BY <1>11, <3>2
    <3>3. CASE ~\E i \in 1..n : x = d[i]
      <4>1. ~(N <= limit)
        BY <1>4, <3>1, <3>3 DEF N
      <4> QED
        BY <1>1, <1>4, <1>6, <3>1, <3>3, <4>1 DEF N
    <3> QED
      BY <3>2, <3>3
  <2> QED
    BY <2>1, <2>2
<1>20. ASSUME N + 1 <= limit, NEW x \in after PROVE x \in ToSet(e)
  <2>1. k = n + 1 /\ ~(N > limit)
    BY <1>1, <1>2, <1>4, <1>6, <1>20 DEF Least, k, n, N, limit
  <2> QED
    BY <1>14, <1>16, <1>19, <1>20, <2>1
<1>21. ASSUME NEW x \in after \ ToSet(e), NEW i \in 1..k PROVE ranksBefore(e[i], x)
  <2>1. CASE \E j \in 1..(n + 1) : x = g[j]
    <3>1. PICK j \in 1..(n + 1) : x = g[j]
      BY <2>1
    <3>2. ~(j <= k)
      <4>1. j <= k => j \in 1..k
        BY <1>7, <1>2
      <4> QED
        BY <1>14, <1>16, <1>21, <3>1, <4>1
    <3>3. i < j /\ i \in 1..(n + 1)
      BY <1>2, <1>7, <3>2
    <3> QED
      BY <1>10, <1>14, <3>1, <3>3
  <2>2. CASE ~\E j \in 1..(n + 1) : x = g[j]
    <3>1. N > limit /\ \A j \in 1..n : ranksBefore(d[j], x)
      BY <1>19, <2>2
    <3>2. n = limit /\ k = limit
      BY <1>1, <1>2, <1>4, <1>6, <3>1 DEF Least, k, n, N, limit
    <3>3. CASE i \in 1..b /\ g[i] = d[i]
      BY <1>2, <1>14, <3>1, <3>3 DEF b
    <3>4. CASE i \in (b + 2)..(n + 1) /\ g[i] = d[i - 1]
      <4>1. i - 1 \in 1..n
        BY <1>2, <3>4 DEF b
      <4> QED
        BY <1>14, <3>1, <3>4, <4>1
    <3>5. CASE i = b + 1 /\ g[i] = r
      <4>1. i \in 1..n /\ i \in (b + 1)..n
        BY <1>2, <3>2, <3>5 DEF b
      <4>2. ranksBefore(r, d[i]) /\ ranksBefore(d[i], x)
        BY <1>2, <3>1, <4>1 DEF b
      <4>3. x \in Rows /\ d[i] \in Rows
        BY <1>1, <1>2, <1>5, <1>21, <4>1 DEF after, r
      <4>4. ranksBefore(r, x)
        BY <1>1, <4>2, <4>3, Ranks
      <4> QED
        BY <1>14, <3>5, <4>4
    <3> QED
      BY <1>9, <1>14, <3>3, <3>4, <3>5
  <2> QED
    BY <2>1, <2>2
<1>22. told'.found = after /\ told'.detail = e /\ limits'.detail = limit
  BY <1>3 DEF World, e, limit, k, g, after
<1>23. /\ \A i, j \in DOMAIN told'.detail : i < j => ranksBefore(told'.detail[i], told'.detail[j])
       /\ ToSet(told'.detail) \subseteq told'.found
       /\ Len(told'.detail) = Least(limits'.detail, Cardinality(told'.found))
       /\ Cardinality(told'.found) <= limits'.detail => told'.found \subseteq ToSet(told'.detail)
       /\ \A x \in told'.found \ ToSet(told'.detail) :
             \A i \in DOMAIN told'.detail : ranksBefore(told'.detail[i], x)
  <2>1. Cardinality(after) = N + 1
    BY <1>6 DEF N
  <2> QED
    BY <1>8, <1>15, <1>17, <1>18, <1>20, <1>21, <1>22, <2>1
<1> QED
  BY <1>23 DEF DetailInv

LEMMA BusyIsNew ==
    ASSUME AuditTypes, SearchInv
    PROVE  /\ walk.doing = "measure" => walk.at \in Outermost \ FoundPaths
           /\ walk.doing = "sizing" /\ walk.for = "watched" => walk.root \in Outermost \ FoundPaths
<1>1. ASSUME NEW p, Searching, Busy = {p} PROVE p \in Outermost \ FoundPaths
  <2>1. SearchOk(TheSearch.stack, TheSearch.left, Busy, FoundPaths, told.searchGaps)
    BY <1>1 DEF SearchInv
  <2>2. Busy \subseteq Outermost \ FoundPaths
    BY <2>1, Zenon DEF SearchOk
  <2> QED
    BY <1>1, <2>2
<1> QED
  BY <1>1, BusyIs

LEMMA FoundStep ==
    ASSUME AuditTypes, SizeInv, SearchInv, FoundInv, DetailInv, AuditNext
    PROVE  FoundInv' /\ DetailInv'
<1>0. told \in Told
  BY WalkKinds
<1> DEFINE Same == told'.found = told.found /\ told'.observed = told.observed
                   /\ told'.reaching = told.reaching /\ told'.detail = told.detail
<1>1. ASSUME Later, Same PROVE FoundInv' /\ DetailInv'
  BY <1>1, FoundRests, DetailRests
<1>2. CASE ScanDir \/ findNestedMarker \/ sizeStore \/ measureStore
  <2>1. Later
    BY <1>2 DEF ScanDir, findNestedMarker, sizeStore, measureStore, Later
  <2>2. Same
    BY <1>0, <1>2 DEF ScanDir, findNestedMarker, EndScan, sizeStore, measureStore, Told
  <2> QED
    BY <1>1, <2>1, <2>2
<1>3. CASE sizeWalk
  <2>1. Later /\ Same
    BY <1>3, SizeWalkKeeps
  <2> QED
    BY <1>1, <2>1
<1>4. CASE auditWatched \/ SearchDir
  <2>1. Later
    BY <1>4 DEF auditWatched, SearchDir, Later
  <2>2. Same
    BY <1>0, <1>4 DEF auditWatched, SearchDir, EndSearch, Told
  <2> QED
    BY <1>1, <2>1, <2>2
<1>5. CASE SearchEntry
  <2>1. World /\ Later /\ walk.doing = "search" /\ walk \in Searches
    BY <1>5, WalkKinds, WorldKept DEF SearchEntry, World
  <2>2. PICK p \in walk.left : SearchStep(p)
    BY <1>5, SearchStepIs
  <2>3. Met \in Told /\ Met = [told EXCEPT !.examined = told.examined + 1]
    BY <2>1, RestIs
  <2>4. \/ told' = Met \/ told' = [Met EXCEPT !.searchGaps = @ \cup {"budget"}]
        \/ told' = [told EXCEPT !.searchGaps = @ \cup {"budget"}]
    BY <2>2, Zenon DEF SearchStep, EndSearch
  <2>5. Met.found = told.found /\ Met.observed = told.observed /\ Met.reaching = told.reaching
        /\ Met.detail = told.detail
    BY <1>0, <2>3 DEF Told
  <2>6. Same
    BY <1>0, <2>3, <2>4, <2>5 DEF Told
  <2> QED
    BY <1>1, <2>1, <2>6
<1>6. CASE sizeWatchedRoot
  <2>1. World /\ Later /\ walk.doing = "measure" /\ walk.at \in Outermost \ FoundPaths /\ walk.at \in Paths
    BY <1>6, WorldKept, BusyIsNew, BusyIs DEF sizeWatchedRoot, World
  <2>2. CASE told.spare <= 0 \/ ~Opens(walk.at)
    <3> DEFINE m == Unmeasured(IF told.spare <= 0 THEN "aggregate" ELSE "unavailable")
    <3>1. told' = Tally(walk.at, m)
      BY <1>6, <2>2 DEF sizeWatchedRoot
    <3>2. m \in Figures
      BY GapsAreTexts DEF Unmeasured, Figures
    <3>3. Figure(m, Files(walk.at, FALSE))
      BY FilesArePaths, UnmeasuredFigure DEF FilesOf
    <3> HIDE DEF m
    <3> QED
      BY <2>1, <3>1, <3>2, <3>3, FoundTallied, DetailTallied
  <2>3. CASE ~(told.spare <= 0 \/ ~Opens(walk.at))
    <3>1. told' = told
      BY <1>6, <2>3 DEF sizeWatchedRoot
    <3> QED
      BY <1>1, <2>1, <3>1
  <2> QED
    BY <2>2, <2>3
<1>7. CASE measure
  <2> DEFINE m == Measured(walk.bytes, FinalGaps)
  <2>1. /\ World /\ walk.root \in Paths /\ m \in Figures /\ (m.gaps = {} <=> walk.gaps = {})
        /\ told' = [Tally(walk.root, m) EXCEPT !.spare = told.spare - walk.entries]
    BY <1>7, MeasureIs
  <2>2. walk.doing = "sizing" /\ walk.open = <<>> /\ walk.for = "watched"
    BY <1>7 DEF measure, Sized
  <2>3. walk.root \in Outermost \ FoundPaths
    BY <2>2, BusyIsNew
  <2>4. Figure(m, Files(walk.root, FALSE))
    <3>1. FinalGaps = {} => walk.gaps = {}
      BY <2>1 DEF Measured
    <3>2. Figure(m, Within)
      BY <2>2, <3>1, SizedFigure
    <3>3. Within = Files(walk.root, FALSE)
      BY <2>2 DEF Within, Files
    <3> QED
      BY <3>2, <3>3
  <2> HIDE DEF m
  <2>5. told'.found = Tally(walk.root, m).found /\ told'.observed = Tally(walk.root, m).observed
        /\ told'.reaching = Tally(walk.root, m).reaching /\ told'.detail = Tally(walk.root, m).detail
    <3> DEFINE t == Tally(walk.root, m)
    <3>1. t \in Told
      BY <2>1, TallyIs
    <3>2. told' = [t EXCEPT !.spare = told.spare - walk.entries]
      BY <2>1
    <3> HIDE DEF t
    <3>3. told'.found = t.found /\ told'.observed = t.observed /\ told'.reaching = t.reaching /\ told'.detail = t.detail
      BY <3>1, <3>2 DEF Told
    <3> QED
      BY <3>3 DEF t
  <2> QED
    BY <2>1, <2>3, <2>4, <2>5, FoundTallied, DetailTallied
<1>8. CASE \E p \in DOMAIN tree : Vanish(p)
  BY <1>1, <1>8, Vanished
<1> QED
  BY <1>2, <1>3, <1>4, <1>5, <1>6, <1>7, <1>8 DEF AuditNext

-----------------------------------------------------------------------------
(* Every step keeps the invariant. *)
LEMMA AuditTypesStep == ASSUME AuditTypes, SizeInv, AuditNext PROVE AuditTypes'
  BY ScanDirTypes, FindMarkerTypes, SizeStoreTypes, SizeWalkTypes, MeasureStoreTypes, AuditWatchedTypes,
     SearchDirTypes, SearchEntryTypes, SizeWatchedTypes, MeasureTypes, VanishTypes DEF AuditNext

LEMMA ScanStep == ASSUME AuditTypes, SizeInv, ScanInv, AuditNext PROVE ScanInv'
<1>1. CASE \E p \in DOMAIN tree : Vanish(p)
  BY <1>1, Vanished, ScanStill
<1> QED
  BY <1>1, ScanDirScans, FindMarkerScans, ScanInvStep DEF AuditNext, Watches

LEMMA AuditStarts == AuditInit => AuditInv
<1> SUFFICES ASSUME AuditInit PROVE AuditInv
  OBVIOUS
<1>1. /\ tree \in Trees /\ limits \in Limits /\ vanished = {}
      /\ walk = [doing |-> "markers", stack |-> <<Root>>, left |-> {}, discovered |-> 1]
      /\ told = [marker |-> Root, scanIncomplete |-> FALSE, store |-> Unmeasured("unavailable"),
                 searchGaps |-> {}, examined |-> 0, spare |-> limits.aggregate, found |-> {}, detail |-> <<>>,
                 observed |-> 0, reaching |-> 0]
  BY DEF AuditInit
<1>2. AuditTypes
  <2>1. limits.aggregate \in Nat
    BY <1>1, AuditAssumption
  <2>2. <<Root>> \in Stack
    BY DEF Stack
  <2>3. walk \in Scans
    BY <1>1, <2>2 DEF Scans
  <2>4. Unmeasured("unavailable") \in Figures
    BY GapsAreTexts DEF Unmeasured, Figures
  <2>5. told \in Told
    <3>1. <<>> \in Seq(Rows)
      OBVIOUS
    <3> QED
      BY <1>1, <2>1, <2>4, <3>1, GapsAreTexts DEF Told
  <2>6. IsFiniteSet(told.found)
    BY <1>1, FS_EmptySet
  <2> QED
    BY <1>1, <2>3, <2>5, <2>6, KindOfWalk DEF AuditTypes, Told
<1> DEFINE s == <<Root>>
<1>3. DOMAIN s = {1} /\ s[1] = Root
  OBVIOUS
<1> HIDE DEF s
<1>4. ScanInv
  <2>1. ASSUME NEW o \in Markers PROVE Ahead(o, s, {})
    <3>1. o \in Path /\ o # Root /\ IsPrefix(Root, o)
      BY <1>2, MarkersAre, WorktreeIs, RootLeads
    <3> QED
      BY <1>3, <3>1 DEF Ahead
  <2>2. walk.doing = "markers" /\ walk.stack = s /\ walk.left = {} /\ told.marker = Root
    BY <1>1 DEF s
  <2> QED
    BY <1>3, <2>1, <2>2 DEF ScanInv
<1>5. StoreInv /\ SizeInv /\ SearchInv
  BY <1>1 DEF StoreInv, StoreAhead, SizeInv, SearchInv, Searching
<1>6. told.found = {} /\ told.detail = <<>> /\ told.observed = 0 /\ told.reaching = 0
  BY <1>1
<1>7. FoundInv
  <2> DEFINE h == [r \in told.found |-> r.is.bytes]
  <2>1. Summable(h, told.found)
    BY <1>6, FS_EmptySet DEF Summable
  <2>2. SumFunctionOnSet(h, told.found) = 0
    <3> HIDE DEF h
    <3> QED
      BY <1>6, <2>1, SumType
  <2>3. Cardinality({r \in told.found : Reaches(r.is)}) = 0
    <3>1. {r \in told.found : Reaches(r.is)} = {}
      BY <1>6
    <3> QED
      BY <3>1, FS_EmptySet
  <2> QED
    BY <1>6, <2>2, <2>3 DEF FoundInv, FoundPaths
<1>8. DetailInv
  <2>1. Cardinality(told.found) = 0 /\ limits.detail \in Nat /\ DOMAIN told.detail = {} /\ Len(told.detail) = 0
    BY <1>2, <1>6, FS_EmptySet, WorktreeIs
  <2> QED
    BY <1>6, <2>1 DEF DetailInv, ToSet, Least
<1> QED
  BY <1>2, <1>4, <1>5, <1>7, <1>8 DEF AuditInv

LEMMA AuditKeeps == AuditInv /\ [AuditNext]_auditVars => AuditInv'
<1> SUFFICES ASSUME AuditInv, [AuditNext]_auditVars PROVE AuditInv'
  OBVIOUS
<1>1. AuditTypes /\ ScanInv /\ StoreInv /\ SizeInv /\ SearchInv /\ FoundInv /\ DetailInv
  BY DEF AuditInv
<1>2. CASE AuditNext
  BY <1>1, <1>2, AuditTypesStep, ScanStep, StoreInvStep, SizeInvStep, SearchInvStep, FoundStep DEF AuditInv
<1>3. CASE UNCHANGED auditVars
  <2>1. Later /\ vanished' = vanished /\ walk' = walk /\ told' = told
    BY <1>3 DEF auditVars, Later
  <2>2. AuditTypes'
    <3>1. told' \in Told /\ IsFiniteSet(told'.found) /\ WalkIs(walk') /\ vanished' \subseteq Paths
      BY <1>1, <2>1, WalkKinds DEF AuditTypes
    <3> QED
      BY <1>1, <2>1, <3>1, TypesStep
  <2>3. ScanInv' /\ SizeInv'
    BY <1>1, <2>1, ScanStill, SizeStill
  <2>4. StoreInv'
    <3>1. CASE StoreAhead
      BY <1>1, <2>1, <3>1 DEF StoreInv, StoreAhead
    <3>2. CASE ~StoreAhead
      BY <1>1, <2>1, <3>2, StoreRests DEF StoreAhead
    <3> QED
      BY <3>1, <3>2
  <2>5. SearchInv'
    <3>1. CASE Searching
      <4>1. Searching' /\ TheSearch' = TheSearch /\ Busy' = Busy /\ FoundPaths' = FoundPaths
            /\ told'.searchGaps = told.searchGaps
        BY <2>1, <3>1 DEF Searching, TheSearch, Busy, FoundPaths
      <4>2. SearchOk(TheSearch.stack, TheSearch.left, Busy, FoundPaths, told.searchGaps)
        BY <1>1, <3>1 DEF SearchInv
      <4> QED
        BY <1>1, <2>1, <4>1, <4>2, StillSearching
    <3>2. CASE ~Searching
      <4>1. Outermost' = Outermost /\ (\A p : There(p)' => There(p)) /\ FoundPaths' = FoundPaths
        BY <2>1, WorldLater DEF FoundPaths
      <4> QED
        BY <1>1, <2>1, <3>2, <4>1 DEF SearchInv, Searching, StoreAhead
    <3> QED
      BY <3>1, <3>2
  <2>6. FoundInv' /\ DetailInv'
    BY <1>1, <2>1, FoundRests, DetailRests
  <2> QED
    BY <2>2, <2>3, <2>4, <2>5, <2>6 DEF AuditInv
<1> QED
  BY <1>2, <1>3

LEMMA AuditShows == AuditInv => AuditIsHonest
<1> SUFFICES ASSUME AuditInv, walk.doing = "done" PROVE AuditIsHonest
  BY DEF AuditIsHonest
<1>1. AuditTypes /\ ScanInv /\ StoreInv /\ SearchInv /\ FoundInv /\ DetailInv
  BY DEF AuditInv
<1>2. /\ told.marker # Root => told.marker \in Markers
      /\ told.marker = Root /\ ~told.scanIncomplete => ~\E p \in Markers : There(p)
  BY <1>1 DEF ScanInv
<1>3. /\ Figure(told.store, Files(OwnMarker, TRUE))
      /\ ~told.store.measured => ~There(OwnMarker) \/ tree[OwnMarker].kind # "dir"
  BY <1>1 DEF StoreInv, StoreAhead
<1>4. told.searchGaps = {} => {p \in Outermost : There(p)} \subseteq {r.path : r \in told.found}
  BY <1>1 DEF SearchInv, FoundPaths
<1>5. /\ {r.path : r \in told.found} \subseteq Outermost
      /\ \A r1, r2 \in told.found : r1.path = r2.path => r1 = r2
      /\ \A r \in told.found : Figure(r.is, Files(r.path, FALSE))
      /\ told.observed = SumFunctionOnSet([r \in told.found |-> r.is.bytes], told.found)
      /\ told.reaching = Cardinality({r \in told.found : Reaches(r.is)})
  BY <1>1 DEF FoundInv, FoundPaths
<1>6. /\ Len(told.detail) = Least(limits.detail, Cardinality(told.found))
      /\ \A r \in told.found \ ToSet(told.detail) :
            \A i \in DOMAIN told.detail : ranksBefore(told.detail[i], r)
  BY <1>1 DEF DetailInv
<1>7. told.spare >= 0
  BY <1>1, WalkKinds DEF Told
<1> QED
  BY <1>2, <1>3, <1>4, <1>5, <1>6, <1>7, Zenon DEF AuditIsHonest

(* What doctor says of a worktree it walks in part is honest, for every      *)
(* worktree, every budget and every order of listing, whatever disappears    *)
(* meanwhile: a clean scan has met every marker, a figure without a gap      *)
(* counts every file that is still there and none twice, a search without a  *)
(* gap has found every outermost watched root, and the rows listed are the   *)
(* largest (findNestedMarker, measureStore, search, measure, Add).           *)
THEOREM AuditsAreHonest == AuditSpec => []AuditIsHonest
<1>1. AuditInit => AuditInv
  BY AuditStarts
<1>2. AuditInv /\ [AuditNext]_auditVars => AuditInv'
  BY AuditKeeps
<1>3. AuditInv => AuditIsHonest
  BY AuditShows
<1> QED
  BY <1>1, <1>2, <1>3, PTL DEF AuditSpec
=============================================================================
