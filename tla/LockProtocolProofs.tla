------------------------- MODULE LockProtocolProofs -------------------------
(* Proofs about both builds of the lock directory, for any sets of processes: *)
(* with flock (LockProtocol) and with a lock file (LockFallback).            *)
EXTENDS LockProtocol, LockFallback, TLAPS

USE DEF Keepers, Procs

-----------------------------------------------------------------------------
(* The types. *)

LEMMA TypeInit == Init => TypeOK
<1> SUFFICES ASSUME Init PROVE TypeOK
  OBVIOUS
<1>1. pc \in [Procs -> {"idle"}]
  BY DEF Init
<1>2. "idle" \in WriterPC /\ "idle" \in CollectorPC /\ "idle" \in RepairerPC
  BY DEF WriterPC, CollectorPC, RepairerPC
<1>3. pc \in [Procs -> WriterPC \cup CollectorPC \cup RepairerPC]
  BY <1>1, <1>2
<1>4. /\ \A w \in Writers : pc[w] \in WriterPC
      /\ \A c \in Collectors : pc[c] \in CollectorPC
      /\ \A r \in Repairers : pc[r] \in RepairerPC
  BY <1>1, <1>2
<1>5. /\ tmp \in [Writers -> {"absent", "empty", "full"}]
      /\ todo \in [Keepers -> SUBSET Names]
      /\ verdict \in [Keepers -> {"none", "active", "unknown"}]
      /\ stale \in [Repairers -> SUBSET Names]
  BY DEF Init
<1>6. /\ token \subseteq Writers /\ sh \subseteq Writers /\ aged \subseteq Remote
      /\ lockFile \in BOOLEAN
      /\ ex \in Keepers \cup {Nobody} /\ restoreEx \in Restorers \cup {Nobody}
  BY DEF Init
<1> QED
  BY <1>3, <1>4, <1>5, <1>6 DEF TypeOK

LEMMA LeaveType ==
  ASSUME TypeOK, NEW k \in Keepers, Leave(k)
  PROVE  /\ ex' \in Keepers \cup {Nobody}
         /\ todo' \in [Keepers -> SUBSET Names]
         /\ verdict' \in [Keepers -> {"none", "active", "unknown"}]
         /\ stale' \in [Repairers -> SUBSET Names]
         /\ tmp' = tmp /\ token' = token /\ lockFile' = lockFile /\ sh' = sh
         /\ restoreEx' = restoreEx /\ aged' = aged
  BY DEF TypeOK, Leave, files

LEMMA WriterType ==
  ASSUME TypeOK, NEW w \in Writers,
         StartWriter(w) \/ WriterStep(w) \/ CrashWriter(w) \/ Age(w)
  PROVE  TypeOK'
<1> USE ProcAssumption DEF TypeOK, WriterPC, CollectorPC, RepairerPC, Goto, files, locks, scan
<1>1. CASE StartWriter(w)
  BY <1>1 DEF StartWriter
<1>2. CASE LockRestore(w)
  BY <1>2 DEF LockRestore
<1>3. CASE RetryRestore(w) \/ TimeoutRestore(w) \/ RetryPresence(w)
  BY <1>3 DEF RetryRestore, TimeoutRestore, RetryPresence
<1>4. CASE CreateTemp(w) \/ WriteTemp(w) \/ LinkToken(w) \/ DropTemp(w)
  BY <1>4 DEF CreateTemp, WriteTemp, LinkToken, DropTemp
<1>5. CASE PublishFails(w)
  BY <1>5 DEF PublishFails, GiveUp
<1>6. CASE Probe(w) \/ Unprobe(w)
  BY <1>6 DEF Probe, Unprobe
<1>7. CASE ProbeFails(w) \/ StandDown(w) \/ TimeoutPresence(w) \/ ReleaseWriter(w)
  BY <1>7 DEF ProbeFails, StandDown, TimeoutPresence, ReleaseWriter, GiveUp
<1>8. CASE CrashWriter(w)
  BY <1>8 DEF CrashWriter
<1>9. CASE Age(w)
  BY <1>9 DEF Age
<1> QED
  BY <1>1, <1>2, <1>3, <1>4, <1>5, <1>6, <1>7, <1>8, <1>9 DEF WriterStep

LEMMA KeeperType ==
  ASSUME TypeOK, NEW k \in Keepers,
         \/ KeeperStep(k)
         \/ k \in Collectors /\ (StartCollector(k) \/ CollectorStep(k))
         \/ k \in Repairers /\ (StartRepairer(k) \/ RepairerStep(k))
         \/ CrashKeeper(k)
  PROVE  TypeOK'
<1> USE ProcAssumption DEF TypeOK, WriterPC, CollectorPC, RepairerPC, Goto, files, locks, scan
<1>1. CASE LockCollector(k)
  BY <1>1 DEF LockCollector
<1>2. CASE RetryCollector(k)
  BY <1>2 DEF RetryCollector
<1>3. ASSUME NEW at, ReadIn(k, at)
      PROVE  TypeOK'
  BY <1>3 DEF ReadIn
<1>4. CASE ListFrom(k, "list", "read")
  BY <1>4 DEF ListFrom, Present, Names
<1>5. CASE k \in Collectors /\ ListFrom(k, "relist", "reread")
  BY <1>5 DEF ListFrom, Present, Names
<1>6. CASE k \in Repairers /\ ListFrom(k, "diaglist", "diagread")
  BY <1>6 DEF ListFrom, Present, Names
<1>7. CASE k \in Collectors /\ StartCollector(k)
  BY <1>7 DEF StartCollector
<1>8. ASSUME Leave(k), NEW to \in {"idle", "dead"}, pc' = [pc EXCEPT ![k] = to]
      PROVE  TypeOK'
  <2>1. pc' \in [Procs -> WriterPC \cup CollectorPC \cup RepairerPC]
    BY <1>8
  <2>2. /\ \A w \in Writers : pc'[w] \in WriterPC
        /\ \A c \in Collectors : pc'[c] \in CollectorPC
        /\ \A r \in Repairers : pc'[r] \in RepairerPC
    BY <1>8
  <2> QED
    BY <1>8, <2>1, <2>2, LeaveType
<1>9. CASE k \in Collectors /\ (InspectLocks(k) \/ Plan(k) \/ WriterLockAppeared(k))
  BY <1>8, <1>9 DEF InspectLocks, Plan, WriterLockAppeared
<1>10. CASE TimeoutCollector(k) \/ TimeoutDrain(k) \/ CrashKeeper(k)
            \/ ReleaseCollector(k) \/ ReleaseRepairer(k)
  BY <1>8, <1>10 DEF TimeoutCollector, TimeoutDrain, CrashKeeper, ReleaseCollector, ReleaseRepairer
<1>11. CASE k \in Repairers /\ (StartRepairer(k) \/ Diagnosed(k) \/ RetryDrain(k))
  <2>1. CASE StartRepairer(k)
    BY <1>11, <2>1 DEF StartRepairer
  <2>2. CASE Diagnosed(k)
    BY <1>11, <2>2 DEF Diagnosed
  <2>3. CASE RetryDrain(k)
    BY <1>11, <2>3 DEF RetryDrain
  <2> QED
    BY <1>11, <2>1, <2>2, <2>3
<1>12. CASE k \in Repairers /\ Diagnose(k)
  BY <1>12 DEF Diagnose
<1>13. CASE k \in Repairers /\ DrainWriters(k)
  BY <1>8, <1>13 DEF DrainWriters
<1>14. CASE k \in Repairers /\ RemoveStale(k)
  BY <1>14 DEF RemoveStale
<1> HIDE DEF TypeOK, WriterPC, CollectorPC, RepairerPC, Goto, files, locks, scan
<1>15. CASE KeeperStep(k)
  <2>1. CASE LockCollector(k)
    BY <1>1, <2>1
  <2>2. CASE RetryCollector(k)
    BY <1>2, <2>2
  <2>3. CASE TimeoutCollector(k)
    BY <1>10, <2>3
  <2>4. CASE ListFrom(k, "list", "read")
    BY <1>4, <2>4
  <2>5. CASE ReadIn(k, "read")
    BY <1>3, <2>5
  <2> QED
    BY <1>15, <2>1, <2>2, <2>3, <2>4, <2>5 DEF KeeperStep
<1>16. CASE k \in Collectors /\ CollectorStep(k)
  BY <1>3, <1>5, <1>9, <1>10, <1>15, <1>16 DEF CollectorStep
<1>17. CASE k \in Repairers /\ RepairerStep(k)
  BY <1>6, <1>10, <1>11, <1>12, <1>13, <1>14, <1>15, <1>17 DEF RepairerStep
<1> QED
  BY <1>7, <1>10, <1>11, <1>15, <1>16, <1>17

LEMMA TypeStep == TypeOK /\ [Next]_vars => TypeOK'
<1> SUFFICES ASSUME TypeOK, [Next]_vars PROVE TypeOK'
  OBVIOUS
<1>1. CASE UNCHANGED vars
  BY <1>1 DEF vars, files, locks, scan, TypeOK
<1>2. CASE Next
  BY <1>2, WriterType, KeeperType DEF Next
<1> QED
  BY <1>1, <1>2

(* Every reachable state is well typed, for any sets of processes. *)
THEOREM TypeCorrect == Spec => []TypeOK
  BY TypeInit, TypeStep, PTL DEF Spec

-----------------------------------------------------------------------------
(* The inductive invariant. *)

LEMMA InvInit == Init => Inv
  BY ProcAssumption DEF Init, Inv, FlockInv, FileInv, RestoreInv, ScanInv, StaleInv,
     Holding, Published, Exclusive

LEMMA WriterInv ==
  ASSUME TypeOK, TypeOK', Inv, NEW w \in Writers,
         StartWriter(w) \/ WriterStep(w) \/ CrashWriter(w) \/ Age(w)
  PROVE  Inv'
<1> USE ProcAssumption DEF TypeOK, WriterPC, CollectorPC, RepairerPC, Inv, FlockInv, FileInv,
        RestoreInv, ScanInv, StaleInv, Holding, Published, Exclusive, Goto, GiveUp,
        files, locks, scan
<1>1. CASE StartWriter(w)
  BY <1>1 DEF StartWriter
<1>2. CASE LockRestore(w)
  BY <1>2 DEF LockRestore
<1>3. CASE RetryRestore(w)
  BY <1>3 DEF RetryRestore
<1>4. CASE TimeoutRestore(w)
  BY <1>4 DEF TimeoutRestore
<1>5. CASE CreateTemp(w)
  BY <1>5 DEF CreateTemp
<1>6. CASE WriteTemp(w)
  BY <1>6 DEF WriteTemp
<1>7. CASE LinkToken(w)
  BY <1>7 DEF LinkToken
<1>8. CASE DropTemp(w)
  BY <1>8 DEF DropTemp
<1>9. CASE PublishFails(w)
  BY <1>9 DEF PublishFails
<1>10. CASE Probe(w)
  BY <1>10 DEF Probe
<1>11. CASE Unprobe(w)
  BY <1>11 DEF Unprobe
<1>12. CASE ProbeFails(w)
  BY <1>12 DEF ProbeFails
<1>13. CASE StandDown(w)
  BY <1>13 DEF StandDown
<1>14. CASE RetryPresence(w)
  BY <1>14 DEF RetryPresence
<1>15. CASE TimeoutPresence(w)
  BY <1>15 DEF TimeoutPresence
<1>16. CASE ReleaseWriter(w)
  BY <1>16 DEF ReleaseWriter
<1>17. CASE CrashWriter(w)
  BY <1>17 DEF CrashWriter
<1>18. CASE Age(w)
  BY <1>18 DEF Age
<1> QED
  BY <1>1, <1>2, <1>3, <1>4, <1>5, <1>6, <1>7, <1>8, <1>9, <1>10, <1>11, <1>12, <1>13, <1>14, <1>15, <1>16, <1>17, <1>18 DEF WriterStep

(* A scan that reads the token of a writer at work counts it. *)
LEMMA WorkIsCounted ==
  ASSUME TypeOK, Inv, NEW w \in Writers, pc[w] = "work"
  PROVE  Classify(<<"token", w>>) \in {"active", "unknown"}
<1>1. <<"token", w>> \in Present
  BY DEF Inv, FileInv, Published, Present, Names
<1> QED
  BY <1>1 DEF Classify, Inv, FileInv

(* What a scan calls stale is a file of a dead writer. *)
LEMMA StaleIsDead ==
  ASSUME TypeOK, Inv, NEW n \in Names, Classify(n) = "stale"
  PROVE  n[2] \in Writers /\ pc[n[2]] = "dead"
  BY DEF Names, Classify, Inv, FileInv

LEMMA LeaveInv ==
  ASSUME TypeOK, TypeOK', Inv, NEW k \in Keepers, NEW to \in {"idle", "dead"},
         pc' = [pc EXCEPT ![k] = to], Leave(k)
  PROVE  Inv'
<1> USE ProcAssumption DEF TypeOK, Leave, files
<1>1. FlockInv'
  BY DEF Inv, FlockInv, Holding
<1>2. FileInv' /\ RestoreInv'
  BY DEF Inv, FileInv, RestoreInv, Published
<1>3. ScanInv'
  BY DEF IInv, Inv, ScanInv, Exclusive
<1>4. StaleInv'
  BY DEF Inv, StaleInv, WriterPC, Names
<1> QED
  BY <1>1, <1>2, <1>3, <1>4 DEF Inv

LEMMA KeeperInv ==
  ASSUME TypeOK, TypeOK', Inv, NEW k \in Keepers,
         \/ k \in Collectors /\ (StartCollector(k) \/ CollectorStep(k))
         \/ k \in Repairers /\ (StartRepairer(k) \/ RepairerStep(k))
         \/ CrashKeeper(k)
  PROVE  Inv'
<1> USE ProcAssumption DEF Goto
<1>1. CASE LockCollector(k)
  BY <1>1 DEF LockCollector, TypeOK, Inv, FlockInv, FileInv, RestoreInv, ScanInv, StaleInv,
        Holding, Published, Exclusive, files, scan
<1>2. CASE RetryCollector(k)
  BY <1>2 DEF RetryCollector, TypeOK, Inv, FlockInv, FileInv, RestoreInv, ScanInv, StaleInv,
        Holding, Published, Exclusive, files, locks, scan
<1>3. ASSUME NEW at \in {"read", "reread"}, ReadIn(k, at)
      PROVE  Inv'
  <2>1. PICK n \in todo[k] :
          /\ todo' = [todo EXCEPT ![k] = @ \ {n}]
          /\ verdict' = [verdict EXCEPT ![k] =
                IF Classify(n) = "unknown" \/ @ = "unknown" THEN "unknown"
                ELSE IF Classify(n) = "active" THEN "active" ELSE @]
    BY <1>3 DEF ReadIn
  <2>2. /\ pc' = pc
        /\ UNCHANGED <<files, locks, stale, aged>>
    BY <1>3 DEF ReadIn, TypeOK
  <2>3. FlockInv' /\ FileInv' /\ RestoreInv'
    BY <2>2 DEF Inv, FlockInv, FileInv, RestoreInv, files, locks
  <2>4. ScanInv'
    <3> SUFFICES ASSUME NEW w \in Writers, NEW l \in Keepers, pc[w] = "work", pc[l] = "read"
                 PROVE  <<"token", w>> \in todo'[l] \/ verdict'[l] # "none"
      BY <2>2 DEF ScanInv, Inv, Exclusive
    <3>1. CASE n = <<"token", w>>
      BY <3>1, <2>1, WorkIsCounted DEF Inv, ScanInv, TypeOK
    <3>2. CASE n # <<"token", w>>
      BY <3>2, <2>1 DEF Inv, ScanInv, TypeOK
    <3> QED
      BY <3>1, <3>2
  <2>5. StaleInv'
    BY <1>3, <2>1, <2>2 DEF Inv, StaleInv, TypeOK, ReadIn
  <2> QED
    BY <2>3, <2>4, <2>5 DEF Inv
<1>4. ASSUME NEW from, NEW to \in {"read", "reread", "diagread"}, ListFrom(k, from, to),
             <<from, to>> \in {<<"list", "read">>, <<"relist", "reread">>,
                               <<"diaglist", "diagread">>}
      PROVE  Inv'
  <2>1. FlockInv' /\ FileInv' /\ RestoreInv' /\ StaleInv'
    BY <1>4 DEF ListFrom, TypeOK, Inv, FlockInv, FileInv, RestoreInv, StaleInv,
         Holding, Published, files, locks
  <2>2. \A w \in Writers : pc[w] = "work" => <<"token", w>> \in Present
    BY DEF Inv, FileInv, Published, Present, Names
  <2>3. ScanInv'
    BY <1>4, <2>2 DEF ListFrom, TypeOK, Inv, ScanInv, Exclusive
  <2> QED
    BY <2>1, <2>3 DEF Inv
<1>5. CASE k \in Collectors /\ StartCollector(k)
  BY <1>5 DEF StartCollector, TypeOK, Inv, FlockInv, FileInv, RestoreInv, ScanInv, StaleInv,
        Holding, Published, Exclusive, files, scan
<1>6. CASE k \in Collectors /\ (InspectLocks(k) \/ Plan(k) \/ WriterLockAppeared(k))
  <2>1. CASE /\ Goto(k, "read", "plan") /\ todo[k] = {} /\ verdict[k] = "none"
             /\ UNCHANGED <<files, locks, scan, aged>>
    <3>1. \A w \in Writers : pc[w] # "work"
      BY <1>6, <2>1 DEF Inv, ScanInv
    <3> QED
      BY <1>6, <2>1, <3>1 DEF TypeOK, Inv, FlockInv, FileInv, RestoreInv,
            ScanInv, StaleInv, Holding, Published, Exclusive, files, locks, scan
  <2>2. CASE Goto(k, "plan", "relist") /\ UNCHANGED <<files, locks, scan, aged>>
    BY <1>6, <2>2 DEF TypeOK, Inv, FlockInv, FileInv, RestoreInv,
          ScanInv, StaleInv, Holding, Published, Exclusive, files, locks, scan
  <2>3. CASE Goto(k, "reread", "sweep") /\ UNCHANGED <<files, locks, scan, aged>>
    BY <1>6, <2>3 DEF TypeOK, Inv, FlockInv, FileInv, RestoreInv,
          ScanInv, StaleInv, Holding, Published, Exclusive, files, locks, scan
  <2>4. CASE Leave(k) /\ pc' = [pc EXCEPT ![k] = "idle"]
    BY <2>4, LeaveInv
  <2> QED
    BY <1>6, <2>1, <2>2, <2>3, <2>4 DEF InspectLocks, Plan, WriterLockAppeared, Scanned
<1>7. CASE TimeoutCollector(k) \/ TimeoutDrain(k) \/ CrashKeeper(k)
           \/ ReleaseCollector(k) \/ ReleaseRepairer(k)
  BY <1>7, LeaveInv DEF TimeoutCollector, TimeoutDrain, CrashKeeper, ReleaseCollector, ReleaseRepairer
<1>8. CASE k \in Repairers /\ (StartRepairer(k) \/ RetryDrain(k))
  <2>1. CASE StartRepairer(k)
    BY <1>8, <2>1 DEF StartRepairer, TypeOK, Inv, FlockInv, FileInv, RestoreInv, ScanInv,
          StaleInv, Holding, Published, Exclusive, files, locks, scan
  <2>2. CASE RetryDrain(k)
    BY <1>8, <2>2 DEF RetryDrain, TypeOK, Inv, FlockInv, FileInv, RestoreInv, ScanInv,
          StaleInv, Holding, Published, Exclusive, files, locks, scan
  <2> QED
    BY <1>8, <2>1, <2>2
<1>9. CASE k \in Repairers /\ Diagnosed(k)
  BY <1>9 DEF Diagnosed, TypeOK, Inv, FlockInv, FileInv, RestoreInv, ScanInv,
        StaleInv, Holding, Published, Exclusive, files, scan
<1>10. CASE k \in Repairers /\ Diagnose(k)
  <2>1. pc' = pc /\ UNCHANGED <<files, locks, verdict, aged>>
    BY <1>10 DEF Diagnose, TypeOK
  <2>2. FlockInv' /\ FileInv' /\ RestoreInv'
    BY <2>1 DEF Inv, FlockInv, FileInv, RestoreInv, files, locks
  <2>3. ScanInv'
    BY <1>10, <2>1 DEF Diagnose, TypeOK, Inv, ScanInv, Exclusive
  <2>4. StaleInv'
    BY <1>10, <2>1, StaleIsDead DEF Diagnose, TypeOK, Inv, StaleInv
  <2> QED
    BY <2>2, <2>3, <2>4 DEF Inv
<1>11. CASE k \in Repairers /\ DrainWriters(k)
  <2>1. CASE /\ pc[k] = "read" /\ todo[k] = {} /\ verdict[k] = "none"
             /\ pc' = [pc EXCEPT ![k] = "repair"]
             /\ todo' = [todo EXCEPT ![k] = stale[k]]
             /\ UNCHANGED <<files, locks, verdict, stale, aged>>
    BY <1>11, <2>1 DEF TypeOK, Inv, FlockInv, FileInv, RestoreInv, ScanInv, StaleInv,
         Holding, Published, Exclusive, files, locks
  <2>2. CASE Goto(k, "read", "drain") /\ UNCHANGED <<files, locks, scan, aged>>
    BY <1>11, <2>2 DEF TypeOK, Inv, FlockInv, FileInv, RestoreInv, ScanInv, StaleInv,
         Holding, Published, Exclusive, files, locks, scan
  <2>3. CASE Leave(k) /\ pc' = [pc EXCEPT ![k] = "idle"]
    BY <2>3, LeaveInv
  <2> QED
    BY <1>11, <2>1, <2>2, <2>3 DEF DrainWriters, Scanned
<1>12. CASE k \in Repairers /\ RemoveStale(k)
  <2>1. PICK n \in todo[k] :
          /\ todo' = [todo EXCEPT ![k] = @ \ {n}]
          /\ \/ UNCHANGED files
             \/ /\ token' = token \ {w \in Writers : n = <<"token", w>>}
                /\ tmp' = [w \in Writers |->
                             IF n = <<"tmp", w>> THEN "absent" ELSE tmp[w]]
    BY <1>12 DEF RemoveStale
  <2>2. pc' = pc /\ pc[k] = "repair" /\ UNCHANGED <<locks, verdict, stale, aged>>
    BY <1>12 DEF RemoveStale, TypeOK
  <2>3. n \in Names /\ pc[n[2]] = "dead"
    BY <1>12, <2>1, <2>2 DEF Inv, StaleInv, TypeOK
  <2>4. \A w \in Writers : pc[w] # "dead" =>
           (w \in token' <=> w \in token) /\ tmp'[w] = tmp[w]
    BY <2>1, <2>3 DEF TypeOK, files
  <2>5. FlockInv' /\ FileInv' /\ RestoreInv'
    BY <2>2, <2>4 DEF Inv, FlockInv, FileInv, RestoreInv, locks
  <2>6. ScanInv'
    BY <2>1, <2>2 DEF Inv, ScanInv, Exclusive, TypeOK
  <2>7. StaleInv'
    BY <1>12, <2>1, <2>2 DEF Inv, StaleInv, TypeOK
  <2> QED
    BY <2>5, <2>6, <2>7 DEF Inv
<1>13. CASE KeeperStep(k)
  BY <1>1, <1>2, <1>3, <1>4, <1>7, <1>13 DEF KeeperStep
<1>14. CASE k \in Collectors /\ CollectorStep(k)
  BY <1>3, <1>4, <1>6, <1>7, <1>13, <1>14 DEF CollectorStep
<1>15. CASE k \in Repairers /\ RepairerStep(k)
  BY <1>4, <1>7, <1>8, <1>9, <1>10, <1>11, <1>12, <1>13, <1>15 DEF RepairerStep
<1> QED
  BY <1>5, <1>7, <1>8, <1>14, <1>15

LEMMA InvStep == TypeOK /\ Inv /\ [Next]_vars => Inv'
<1> SUFFICES ASSUME TypeOK, Inv, [Next]_vars PROVE Inv'
  OBVIOUS
<1>1. TypeOK'
  BY TypeStep
<1>2. CASE UNCHANGED vars
  BY <1>2 DEF vars, files, locks, scan, Inv, FlockInv, FileInv, RestoreInv, ScanInv, StaleInv,
     Exclusive
<1>3. CASE Next
  BY <1>1, <1>3, WriterInv, KeeperInv DEF Next
<1> QED
  BY <1>2, <1>3

(* The inductive invariant holds in every reachable state. *)
THEOREM Invariance == Spec => []IInv
<1>1. Init => TypeOK /\ Inv
  BY TypeInit, InvInit
<1>2. TypeOK /\ Inv /\ [Next]_vars => TypeOK' /\ Inv'
  BY TypeStep, InvStep
<1> QED
  BY <1>1, <1>2, PTL DEF Spec, IInv

-----------------------------------------------------------------------------
(* What follows from it. *)

(* gc's plan and sweep and doctor's repair never overlap a writer or each    *)
(* other: the guarantee lease.go states for publish-then-check.              *)
THEOREM KeeperAlone == Spec => []KeeperIsAlone
<1>1. IInv => KeeperIsAlone
  BY DEF IInv, Inv, ScanInv, FlockInv, KeeperIsAlone, Exclusive, Holding
<1> QED
  BY <1>1, Invariance, PTL

(* A writer at work is visible to every scan; one restore at a time. *)
THEOREM WorkProtected == Spec => []WorkIsProtected
<1>1. IInv => WorkIsProtected
  BY ProcAssumption DEF IInv, Inv, FileInv, RestoreInv, WorkIsProtected, Published
<1> QED
  BY <1>1, Invariance, PTL

(* Every failed or finished acquisition gives back all it took. *)
THEOREM NothingLeaks == Spec => []IdleHoldsNothing
<1>1. IInv => IdleHoldsNothing
  BY DEF IInv, TypeOK, Inv, FlockInv, FileInv, RestoreInv, IdleHoldsNothing, Published, Holding
<1> QED
  BY <1>1, Invariance, PTL

(* Between doctor's unlocked diagnosis and its removals no file of a live    *)
(* writer is at risk: only its owner ever changes it.                        *)
THEOREM LiveFilesSafe == Spec => LiveFilesAreTheirOwners
<1> DEFINE Safe == \A w \in Writers : pc[w] # "dead" /\ pc'[w] = pc[w] =>
                     /\ tmp'[w] = tmp[w]
                     /\ w \in token' <=> w \in token
<1>1. ASSUME IInv, [Next]_vars PROVE Safe
  <2> USE <1>1 DEF IInv
  <2>1. CASE UNCHANGED vars
    BY <2>1 DEF vars, files
  <2>2. ASSUME NEW v \in Writers, StartWriter(v) \/ WriterStep(v) \/ CrashWriter(v) \/ Age(v)
        PROVE  Safe
    <3>1. \A w \in Writers \ {v} : tmp'[w] = tmp[w] /\ (w \in token' <=> w \in token)
      BY <2>2 DEF StartWriter, WriterStep, CrashWriter, Age, LockRestore, RetryRestore,
         TimeoutRestore, CreateTemp, WriteTemp, LinkToken, DropTemp, PublishFails, Probe,
         Unprobe, ProbeFails, StandDown, RetryPresence, TimeoutPresence, ReleaseWriter,
         TypeOK, files
    <3>2. pc'[v] # pc[v] \/ UNCHANGED files
      BY <2>2, ProcAssumption DEF StartWriter, WriterStep, CrashWriter, Age, LockRestore,
         RetryRestore, TimeoutRestore, CreateTemp, WriteTemp, LinkToken, DropTemp,
         PublishFails, Probe, Unprobe, ProbeFails, StandDown, RetryPresence,
         TimeoutPresence, ReleaseWriter, TypeOK, Goto
    <3> QED
      BY <3>1, <3>2 DEF files
  <2>3. ASSUME NEW r \in Repairers, RemoveStale(r)
        PROVE  Safe
    <3>1. PICK n \in todo[r] :
            \/ UNCHANGED files
            \/ /\ token' = token \ {w \in Writers : n = <<"token", w>>}
               /\ tmp' = [w \in Writers |->
                            IF n = <<"tmp", w>> THEN "absent" ELSE tmp[w]]
      BY <2>3 DEF RemoveStale
    <3>2. n \in Names /\ pc[n[2]] = "dead"
      BY <2>3, <3>1 DEF RemoveStale, Goto, Inv, StaleInv, TypeOK
    <3> QED
      BY <3>1, <3>2 DEF TypeOK, files
  <2>4. ASSUME NEW k \in Keepers,
               \/ StartCollector(k) \/ CollectorStep(k) \/ StartRepairer(k)
               \/ (RepairerStep(k) /\ ~RemoveStale(k)) \/ CrashKeeper(k)
        PROVE  UNCHANGED files
    BY <2>4 DEF StartCollector, CollectorStep, StartRepairer, RepairerStep, CrashKeeper,
       KeeperStep, LockCollector, RetryCollector, TimeoutCollector, ListFrom, ReadIn,
       InspectLocks, Plan, WriterLockAppeared, ReleaseCollector, Diagnose, Diagnosed,
       DrainWriters, RetryDrain, TimeoutDrain, ReleaseRepairer, Leave, files
  <2> QED
    BY <1>1, <2>1, <2>2, <2>3, <2>4 DEF Next, files
<1> QED
  BY <1>1, Invariance, PTL DEF Spec, LiveFilesAreTheirOwners

-----------------------------------------------------------------------------
(* The refinement: LockProtocol implements StoreAccess. *)

Inside == {w \in Writers : pc[w] = "work"}
Owner == IF ex \in Keepers /\ Exclusive(ex) THEN ex ELSE Nobody

LEMMA OwnerIs ==
  ASSUME IInv
  PROVE  /\ \A k \in Keepers : Owner = k <=> Exclusive(k)
         /\ Owner = Nobody <=> \A k \in Keepers : ~Exclusive(k)
         /\ Owner # Nobody => Inside = {}
<1>1. \A k \in Keepers : Exclusive(k) => ex = k
  BY DEF IInv, Inv, FlockInv, Exclusive, Holding
<1>2. Nobody \notin Keepers
  BY ProcAssumption
<1>3. (\E k \in Keepers : Exclusive(k)) => Inside = {}
  BY DEF IInv, Inv, ScanInv, Inside
<1> QED
  BY <1>1, <1>2, <1>3 DEF Owner

(* A step of a writer leaves the keepers where they are and enters, leaves,  *)
(* or does neither.                                                          *)
LEMMA WriterRefines ==
  ASSUME IInv, IInv', NEW w \in Writers,
         StartWriter(w) \/ WriterStep(w) \/ CrashWriter(w) \/ Age(w)
  PROVE  \/ Access!Enter(w) \/ Access!Leave(w)
         \/ UNCHANGED <<Inside, Owner>>
<1> USE DEF IInv
<1>1. /\ \A p \in Procs \ {w} : pc'[p] = pc[p]
      /\ ex' = ex
  BY DEF StartWriter, WriterStep, CrashWriter, Age, LockRestore, RetryRestore,
     TimeoutRestore, CreateTemp, WriteTemp, LinkToken, DropTemp, PublishFails, Probe,
     Unprobe, ProbeFails, StandDown, RetryPresence, TimeoutPresence, ReleaseWriter,
     TypeOK, Goto, locks
<1>2. Owner' = Owner
  BY <1>1, ProcAssumption DEF Owner, Exclusive
<1>3. CASE pc[w] # "work" /\ pc'[w] = "work"
  <2>1. Inside' = Inside \cup {w} /\ w \notin Inside
    BY <1>1, <1>3 DEF Inside
  <2>2. Owner = Nobody
    <3>1. Owner' = Nobody
      BY <2>1, OwnerIs DEF Inside, Inv, ScanInv, Owner
    <3> QED
      BY <3>1, <1>2
  <2>3. w \in Restorers => Inside \cap Restorers = {}
    BY <1>1, <1>3, ProcAssumption DEF Inv, RestoreInv, Inside
  <2> QED
    BY <1>2, <2>1, <2>2, <2>3 DEF Access!Enter, Inside, Owner
<1>4. CASE pc[w] = "work" /\ pc'[w] # "work"
  <2>1. Inside' = Inside \ {w} /\ w \in Inside
    BY <1>1, <1>4 DEF Inside
  <2> QED
    BY <1>2, <2>1 DEF Access!Leave, Inside, Owner
<1>5. CASE pc[w] = "work" <=> pc'[w] = "work"
  BY <1>1, <1>2, <1>5 DEF Inside
<1> QED
  BY <1>3, <1>4, <1>5

(* A step of a keeper leaves the writers where they are and begins, ends, or *)
(* does neither.                                                             *)
LEMMA KeeperRefines ==
  ASSUME IInv, IInv', NEW k \in Keepers,
         \/ k \in Collectors /\ (StartCollector(k) \/ CollectorStep(k))
         \/ k \in Repairers /\ (StartRepairer(k) \/ RepairerStep(k))
         \/ CrashKeeper(k)
  PROVE  \/ Access!Begin(k) \/ Access!End(k)
         \/ UNCHANGED <<Inside, Owner>>
<1> USE DEF IInv
<1>1. \A p \in Procs \ {k} : pc'[p] = pc[p]
  BY DEF StartCollector, CollectorStep, StartRepairer, RepairerStep, CrashKeeper,
     KeeperStep, LockCollector, RetryCollector, TimeoutCollector, ListFrom, ReadIn,
     InspectLocks, Plan, WriterLockAppeared, ReleaseCollector, Diagnose, Diagnosed,
     DrainWriters, RetryDrain, TimeoutDrain, RemoveStale, ReleaseRepairer, Goto, TypeOK
<1>2. Inside' = Inside
  BY <1>1, ProcAssumption DEF Inside
<1>3. \A l \in Keepers \ {k} : Exclusive(l)' <=> Exclusive(l)
  BY <1>1 DEF Exclusive
<1>4. CASE ~Exclusive(k) /\ Exclusive(k)'
  <2>1. Owner' = k
    BY <1>4, OwnerIs DEF Owner, Exclusive, Inv, FlockInv, Holding
  <2>2. \A l \in Keepers \ {k} : ~Exclusive(l)
    BY <1>3, <1>4, <2>1 DEF Inv, FlockInv, Exclusive, Holding
  <2>3. Owner = Nobody
    BY <1>4, <2>2, OwnerIs
  <2>4. Inside = {}
    BY <1>2, <1>4 DEF Inv, ScanInv, Inside
  <2> QED
    BY <1>2, <2>1, <2>3, <2>4 DEF Access!Begin, Inside, Owner
<1>5. CASE Exclusive(k) /\ ~Exclusive(k)'
  <2>1. Owner = k
    BY <1>5, OwnerIs
  <2>2. \A l \in Keepers \ {k} : ~Exclusive(l)
    BY <2>1, OwnerIs
  <2>3. Owner' = Nobody
    BY <1>3, <1>5, <2>2 DEF Owner
  <2> QED
    BY <1>2, <2>1, <2>3 DEF Access!End, Inside, Owner
<1>6. CASE Exclusive(k) <=> Exclusive(k)'
  <2>1. \A l \in Keepers : Exclusive(l)' <=> Exclusive(l)
    BY <1>3, <1>6
  <2>2. \A l \in Keepers : Exclusive(l) => ex = l /\ ex' = l
    BY <2>1 DEF Inv, FlockInv, Exclusive, Holding
  <2>3. Owner' = Owner
    BY <2>1, <2>2 DEF Owner
  <2> QED
    BY <1>2, <2>3
<1> QED
  BY <1>4, <1>5, <1>6

(* Every behaviour of the lock protocol is a behaviour of the abstract store *)
(* access, which the other modules of this project build on.                 *)
THEOREM Refinement == Spec => ImplementsStoreAccess
<1>1. Init => Access!Init
  BY ProcAssumption DEF Init, Access!Init, Exclusive
<1>2. IInv /\ IInv' /\ [Next]_vars => [Access!Next]_(Access!vars)
  <2> SUFFICES ASSUME IInv, IInv', [Next]_vars
               PROVE  Access!Next \/ UNCHANGED <<Inside, Owner>>
    BY DEF Access!vars, Inside, Owner
  <2>1. CASE UNCHANGED vars
    BY <2>1 DEF vars, locks, Inside, Owner, Exclusive
  <2>2. CASE Next
    BY <2>2, WriterRefines, KeeperRefines DEF Next, Access!Next
  <2> QED
    BY <2>1, <2>2
<1> QED
  BY <1>1, <1>2, Invariance, PTL DEF Spec, ImplementsStoreAccess, Access!Spec

-----------------------------------------------------------------------------
(* The build without flock: as long as no reclaim renames away a holder's    *)
(* lock, a keeper is alone.                                                  *)

USE FallbackAssumption DEF PlainKeepers, PlainProcs, Records

(* The initial states satisfy the inductive invariant. *)
LEMMA PlainInitInv == PlainInit => PlainInv
  BY DEF PlainInit, PlainInv, PlainTypeOK, TokenInv, HolderInv, PlainScanInv, PlainNames, PlainWriterPC,
         KeeperPC, Holds, PlainExclusive

-----------------------------------------------------------------------------
(* Types. *)

LEMMA WriterTypeOK ==
  ASSUME PlainTypeOK, NEW w \in PlainWriters,
         \/ Start(w)
         \/ PublishToken(w)
         \/ PlainProbe(w)
         \/ PlainStandDown(w)
         \/ Retry(w)
         \/ PlainTimeout(w)
         \/ Fails(w)
         \/ PlainReleaseWriter(w)
         \/ Crash(w)
  PROVE  PlainTypeOK'
<1> USE DEF Move, plainFiles, plainScan, PlainTypeOK, PlainWriterPC, KeeperPC, PlainNames
<1>1. CASE Start(w)
  BY <1>1 DEF Start
<1>2. CASE PublishToken(w)
  BY <1>2 DEF PublishToken
<1>3. CASE PlainProbe(w)
  BY <1>3 DEF PlainProbe
<1>4. CASE PlainStandDown(w)
  BY <1>4 DEF PlainStandDown
<1>5. CASE Retry(w)
  BY <1>5 DEF Retry
<1>6. CASE PlainTimeout(w)
  BY <1>6 DEF PlainTimeout
<1>7. CASE Fails(w)
  BY <1>7 DEF Fails
<1>8. CASE PlainReleaseWriter(w)
  BY <1>8 DEF PlainReleaseWriter
<1>9. CASE Crash(w)
  BY <1>9 DEF Crash
<1> QED
  BY <1>1, <1>2, <1>3, <1>4, <1>5, <1>6, <1>7, <1>8, <1>9

LEMMA KeeperTypeOK ==
  ASSUME PlainTypeOK, NEW k \in PlainKeepers,
         \/ Start(k)
         \/ PublishLock(k)
         \/ Inspect(k)
         \/ Rename(k)
         \/ Reread(k)
         \/ Restore(k)
         \/ Discard(k)
         \/ Retry(k)
         \/ PlainTimeout(k)
         \/ Fails(k)
         \/ PlainListFrom(k, "list", "read")
         \/ PlainReadIn(k, "read")
         \/ PlainScanned(k)
         \/ ReleaseKeeper(k)
         \/ Crash(k)
  PROVE  PlainTypeOK'
<1> USE DEF Move, plainFiles, plainScan, PlainTypeOK, PlainWriterPC, KeeperPC, PlainNames
<1>1. CASE Start(k)
  BY <1>1 DEF Start
<1>2. CASE PublishLock(k)
  BY <1>2 DEF PublishLock
<1>3. CASE Inspect(k)
  BY <1>3 DEF Inspect
<1>4. CASE Rename(k)
  BY <1>4 DEF Rename
<1>5. CASE Reread(k)
  BY <1>5 DEF Reread
<1>6. CASE Restore(k)
  BY <1>6 DEF Restore
<1>7. CASE Discard(k)
  <2>1. stage' = [stage EXCEPT ![k] = "publish"]
    BY <1>7 DEF Discard
  <2> QED
    BY <1>7, <2>1 DEF Discard
<1>8. CASE Retry(k)
  BY <1>8 DEF Retry
<1>9. CASE PlainTimeout(k)
  BY <1>9 DEF PlainTimeout
<1>10. CASE Fails(k)
  BY <1>10 DEF Fails
<1>11. CASE PlainListFrom(k, "list", "read")
  BY <1>11 DEF PlainListFrom, PlainPresent
<1>12. CASE PlainReadIn(k, "read")
  BY <1>12 DEF PlainReadIn, Readings
<1>13. CASE PlainScanned(k)
  BY <1>13 DEF PlainScanned, PlainLeave
<1>14. CASE ReleaseKeeper(k)
  BY <1>14 DEF ReleaseKeeper, PlainLeave
<1>15. CASE Crash(k)
  BY <1>15 DEF Crash
<1> QED
  BY <1>1, <1>2, <1>3, <1>4, <1>5, <1>6, <1>7, <1>8, <1>9, <1>10, <1>11, <1>12, <1>13, <1>14, <1>15

LEMMA CollectorTypeOK ==
  ASSUME PlainTypeOK, NEW k \in PlainCollectors,
         \/ PlainPlan(k)
         \/ PlainListFrom(k, "relist", "recheck")
         \/ PlainReadIn(k, "recheck")
         \/ PlainWriterLockAppeared(k)
  PROVE  PlainTypeOK'
<1> USE DEF Move, plainFiles, plainScan, PlainTypeOK, PlainWriterPC, KeeperPC, PlainNames
<1>1. CASE PlainPlan(k)
  BY <1>1 DEF PlainPlan, PlainLeave
<1>2. CASE PlainListFrom(k, "relist", "recheck")
  BY <1>2 DEF PlainListFrom, PlainPresent
<1>3. CASE PlainReadIn(k, "recheck")
  BY <1>3 DEF PlainReadIn, Readings
<1>4. CASE PlainWriterLockAppeared(k)
  BY <1>4 DEF PlainWriterLockAppeared, PlainLeave
<1> QED
  BY <1>1, <1>2, <1>3, <1>4

LEMMA RepairerTypeOK ==
  ASSUME PlainTypeOK, NEW k \in PlainRepairers,
         \/ PlainRetryDrain(k)
         \/ PlainTimeoutDrain(k)
  PROVE  PlainTypeOK'
<1> USE DEF Move, plainFiles, plainScan, PlainTypeOK, PlainWriterPC, KeeperPC, PlainNames
<1>1. CASE PlainRetryDrain(k)
  BY <1>1 DEF PlainRetryDrain
<1>2. CASE PlainTimeoutDrain(k)
  BY <1>2 DEF PlainTimeoutDrain, PlainLeave
<1> QED
  BY <1>1, <1>2

LEMMA StepTypeOK ==
  ASSUME PlainTypeOK, [PlainNext]_plainVars
  PROVE  PlainTypeOK'
<1>1. CASE UNCHANGED plainVars
  BY <1>1 DEF plainVars, Move, plainFiles, plainScan, PlainTypeOK, PlainWriterPC, KeeperPC, PlainNames
<1>2. ASSUME NEW w \in PlainWriters, Start(w) \/ PlainWriterStep(w) \/ Crash(w)
      PROVE  PlainTypeOK'
  BY <1>2, WriterTypeOK DEF PlainWriterStep
<1>3. ASSUME NEW c \in PlainCollectors, Start(c) \/ PlainCollectorStep(c) \/ Crash(c)
      PROVE  PlainTypeOK'
  BY <1>3, KeeperTypeOK, CollectorTypeOK DEF PlainCollectorStep, PlainKeeperStep
<1>4. ASSUME NEW r \in PlainRepairers, Start(r) \/ PlainRepairerStep(r) \/ Crash(r)
      PROVE  PlainTypeOK'
  BY <1>4, KeeperTypeOK, RepairerTypeOK DEF PlainRepairerStep, PlainKeeperStep
<1> QED
  BY <1>1, <1>2, <1>3, <1>4 DEF PlainNext

-----------------------------------------------------------------------------
(* The tokens of live writers. *)

LEMMA WriterTokenInv ==
  ASSUME PlainTypeOK, TokenInv, NEW w \in PlainWriters,
         \/ Start(w)
         \/ PublishToken(w)
         \/ PlainProbe(w)
         \/ PlainStandDown(w)
         \/ Retry(w)
         \/ PlainTimeout(w)
         \/ Fails(w)
         \/ PlainReleaseWriter(w)
         \/ Crash(w)
  PROVE  TokenInv'
<1> USE DEF Move, plainFiles, plainScan, PlainTypeOK, PlainWriterPC, KeeperPC, TokenInv
<1>1. CASE Start(w)
  BY <1>1 DEF Start
<1>2. CASE PublishToken(w)
  BY <1>2 DEF PublishToken
<1>3. CASE PlainProbe(w)
  BY <1>3 DEF PlainProbe
<1>4. CASE PlainStandDown(w)
  BY <1>4 DEF PlainStandDown
<1>5. CASE Retry(w)
  BY <1>5 DEF Retry
<1>6. CASE PlainTimeout(w)
  BY <1>6 DEF PlainTimeout
<1>7. CASE Fails(w)
  BY <1>7 DEF Fails
<1>8. CASE PlainReleaseWriter(w)
  BY <1>8 DEF PlainReleaseWriter
<1>9. CASE Crash(w)
  BY <1>9 DEF Crash
<1> QED
  BY <1>1, <1>2, <1>3, <1>4, <1>5, <1>6, <1>7, <1>8, <1>9

LEMMA KeeperTokenInv ==
  ASSUME PlainTypeOK, TokenInv, NEW k \in PlainKeepers,
         \/ Start(k)
         \/ PublishLock(k)
         \/ Inspect(k)
         \/ Rename(k)
         \/ Reread(k)
         \/ Restore(k)
         \/ Discard(k)
         \/ Retry(k)
         \/ PlainTimeout(k)
         \/ Fails(k)
         \/ PlainListFrom(k, "list", "read")
         \/ PlainReadIn(k, "read")
         \/ PlainScanned(k)
         \/ ReleaseKeeper(k)
         \/ Crash(k)
  PROVE  TokenInv'
<1> USE DEF Move, plainFiles, plainScan, PlainTypeOK, PlainWriterPC, KeeperPC, TokenInv
<1>1. CASE Start(k)
  BY <1>1 DEF Start
<1>2. CASE PublishLock(k)
  BY <1>2 DEF PublishLock
<1>3. CASE Inspect(k)
  BY <1>3 DEF Inspect
<1>4. CASE Rename(k)
  BY <1>4 DEF Rename
<1>5. CASE Reread(k)
  BY <1>5 DEF Reread
<1>6. CASE Restore(k)
  BY <1>6 DEF Restore
<1>7. CASE Discard(k)
  <2>1. stage' = [stage EXCEPT ![k] = "publish"]
    BY <1>7 DEF Discard
  <2> QED
    BY <1>7, <2>1 DEF Discard
<1>8. CASE Retry(k)
  BY <1>8 DEF Retry
<1>9. CASE PlainTimeout(k)
  BY <1>9 DEF PlainTimeout
<1>10. CASE Fails(k)
  BY <1>10 DEF Fails
<1>11. CASE PlainListFrom(k, "list", "read")
  BY <1>11 DEF PlainListFrom, PlainPresent
<1>12. CASE PlainReadIn(k, "read")
  BY <1>12 DEF PlainReadIn, Readings
<1>13. CASE PlainScanned(k)
  BY <1>13 DEF PlainScanned, PlainLeave
<1>14. CASE ReleaseKeeper(k)
  BY <1>14 DEF ReleaseKeeper, PlainLeave
<1>15. CASE Crash(k)
  BY <1>15 DEF Crash
<1> QED
  BY <1>1, <1>2, <1>3, <1>4, <1>5, <1>6, <1>7, <1>8, <1>9, <1>10, <1>11, <1>12, <1>13, <1>14, <1>15

LEMMA CollectorTokenInv ==
  ASSUME PlainTypeOK, TokenInv, NEW k \in PlainCollectors,
         \/ PlainPlan(k)
         \/ PlainListFrom(k, "relist", "recheck")
         \/ PlainReadIn(k, "recheck")
         \/ PlainWriterLockAppeared(k)
  PROVE  TokenInv'
<1> USE DEF Move, plainFiles, plainScan, PlainTypeOK, PlainWriterPC, KeeperPC, TokenInv
<1>1. CASE PlainPlan(k)
  BY <1>1 DEF PlainPlan, PlainLeave
<1>2. CASE PlainListFrom(k, "relist", "recheck")
  BY <1>2 DEF PlainListFrom, PlainPresent
<1>3. CASE PlainReadIn(k, "recheck")
  BY <1>3 DEF PlainReadIn, Readings
<1>4. CASE PlainWriterLockAppeared(k)
  BY <1>4 DEF PlainWriterLockAppeared, PlainLeave
<1> QED
  BY <1>1, <1>2, <1>3, <1>4

LEMMA RepairerTokenInv ==
  ASSUME PlainTypeOK, TokenInv, NEW k \in PlainRepairers,
         \/ PlainRetryDrain(k)
         \/ PlainTimeoutDrain(k)
  PROVE  TokenInv'
<1> USE DEF Move, plainFiles, plainScan, PlainTypeOK, PlainWriterPC, KeeperPC, TokenInv
<1>1. CASE PlainRetryDrain(k)
  BY <1>1 DEF PlainRetryDrain
<1>2. CASE PlainTimeoutDrain(k)
  BY <1>2 DEF PlainTimeoutDrain, PlainLeave
<1> QED
  BY <1>1, <1>2

LEMMA StepTokenInv ==
  ASSUME PlainTypeOK, TokenInv, [PlainNext]_plainVars
  PROVE  TokenInv'
<1>1. CASE UNCHANGED plainVars
  BY <1>1 DEF plainVars, Move, plainFiles, plainScan, PlainTypeOK, PlainWriterPC, KeeperPC, TokenInv
<1>2. ASSUME NEW w \in PlainWriters, Start(w) \/ PlainWriterStep(w) \/ Crash(w)
      PROVE  TokenInv'
  BY <1>2, WriterTokenInv DEF PlainWriterStep
<1>3. ASSUME NEW c \in PlainCollectors, Start(c) \/ PlainCollectorStep(c) \/ Crash(c)
      PROVE  TokenInv'
  BY <1>3, KeeperTokenInv, CollectorTokenInv DEF PlainCollectorStep, PlainKeeperStep
<1>4. ASSUME NEW r \in PlainRepairers, Start(r) \/ PlainRepairerStep(r) \/ Crash(r)
      PROVE  TokenInv'
  BY <1>4, KeeperTokenInv, RepairerTokenInv DEF PlainRepairerStep, PlainKeeperStep
<1> QED
  BY <1>1, <1>2, <1>3, <1>4 DEF PlainNext

-----------------------------------------------------------------------------
(* Who holds gc.lock. *)

LEMMA WriterHolderInv ==
  ASSUME PlainTypeOK, HolderInv, NEW w \in PlainWriters,
         \/ Start(w)
         \/ PublishToken(w)
         \/ PlainProbe(w)
         \/ PlainStandDown(w)
         \/ Retry(w)
         \/ PlainTimeout(w)
         \/ Fails(w)
         \/ PlainReleaseWriter(w)
         \/ Crash(w)
  PROVE  HolderInv'
<1> USE DEF Move, plainFiles, plainScan, PlainTypeOK, PlainWriterPC, KeeperPC, HolderInv, Holds, PlainExclusive
<1>1. CASE Start(w)
  BY <1>1 DEF Start
<1>2. CASE PublishToken(w)
  BY <1>2 DEF PublishToken
<1>3. CASE PlainProbe(w)
  BY <1>3 DEF PlainProbe
<1>4. CASE PlainStandDown(w)
  BY <1>4 DEF PlainStandDown
<1>5. CASE Retry(w)
  BY <1>5 DEF Retry
<1>6. CASE PlainTimeout(w)
  BY <1>6 DEF PlainTimeout
<1>7. CASE Fails(w)
  BY <1>7 DEF Fails
<1>8. CASE PlainReleaseWriter(w)
  BY <1>8 DEF PlainReleaseWriter
<1>9. CASE Crash(w)
  BY <1>9 DEF Crash
<1> QED
  BY <1>1, <1>2, <1>3, <1>4, <1>5, <1>6, <1>7, <1>8, <1>9

LEMMA KeeperHolderInv ==
  ASSUME PlainTypeOK, HolderInv, NEW k \in PlainKeepers,
         \/ Start(k)
         \/ PublishLock(k)
         \/ Inspect(k)
         \/ Rename(k)
         \/ Reread(k)
         \/ Restore(k)
         \/ Discard(k)
         \/ Retry(k)
         \/ PlainTimeout(k)
         \/ Fails(k)
         \/ PlainListFrom(k, "list", "read")
         \/ PlainReadIn(k, "read")
         \/ PlainScanned(k)
         \/ ReleaseKeeper(k)
         \/ Crash(k)
  PROVE  HolderInv'
<1> USE DEF Move, plainFiles, plainScan, PlainTypeOK, PlainWriterPC, KeeperPC, HolderInv, Holds, PlainExclusive
<1>1. CASE Start(k)
  BY <1>1 DEF Start
<1>2. CASE PublishLock(k)
  BY <1>2 DEF PublishLock
<1>3. CASE Inspect(k)
  BY <1>3 DEF Inspect
<1>4. CASE Rename(k)
  BY <1>4 DEF Rename
<1>5. CASE Reread(k)
  BY <1>5 DEF Reread
<1>6. CASE Restore(k)
  BY <1>6 DEF Restore
<1>7. CASE Discard(k)
  <2>1. stage' = [stage EXCEPT ![k] = "publish"]
    BY <1>7 DEF Discard
  <2> QED
    BY <1>7, <2>1 DEF Discard
<1>8. CASE Retry(k)
  BY <1>8 DEF Retry
<1>9. CASE PlainTimeout(k)
  BY <1>9 DEF PlainTimeout
<1>10. CASE Fails(k)
  BY <1>10 DEF Fails
<1>11. CASE PlainListFrom(k, "list", "read")
  BY <1>11 DEF PlainListFrom, PlainPresent
<1>12. CASE PlainReadIn(k, "read")
  BY <1>12 DEF PlainReadIn, Readings
<1>13. CASE PlainScanned(k)
  BY <1>13 DEF PlainScanned, PlainLeave
<1>14. CASE ReleaseKeeper(k)
  BY <1>14 DEF ReleaseKeeper, PlainLeave
<1>15. CASE Crash(k)
  BY <1>15 DEF Crash
<1> QED
  BY <1>1, <1>2, <1>3, <1>4, <1>5, <1>6, <1>7, <1>8, <1>9, <1>10, <1>11, <1>12, <1>13, <1>14, <1>15

LEMMA CollectorHolderInv ==
  ASSUME PlainTypeOK, HolderInv, NEW k \in PlainCollectors,
         \/ PlainPlan(k)
         \/ PlainListFrom(k, "relist", "recheck")
         \/ PlainReadIn(k, "recheck")
         \/ PlainWriterLockAppeared(k)
  PROVE  HolderInv'
<1> USE DEF Move, plainFiles, plainScan, PlainTypeOK, PlainWriterPC, KeeperPC, HolderInv, Holds, PlainExclusive
<1>1. CASE PlainPlan(k)
  BY <1>1 DEF PlainPlan, PlainLeave
<1>2. CASE PlainListFrom(k, "relist", "recheck")
  BY <1>2 DEF PlainListFrom, PlainPresent
<1>3. CASE PlainReadIn(k, "recheck")
  BY <1>3 DEF PlainReadIn, Readings
<1>4. CASE PlainWriterLockAppeared(k)
  BY <1>4 DEF PlainWriterLockAppeared, PlainLeave
<1> QED
  BY <1>1, <1>2, <1>3, <1>4

LEMMA RepairerHolderInv ==
  ASSUME PlainTypeOK, HolderInv, NEW k \in PlainRepairers,
         \/ PlainRetryDrain(k)
         \/ PlainTimeoutDrain(k)
  PROVE  HolderInv'
<1> USE DEF Move, plainFiles, plainScan, PlainTypeOK, PlainWriterPC, KeeperPC, HolderInv, Holds, PlainExclusive
<1>1. CASE PlainRetryDrain(k)
  BY <1>1 DEF PlainRetryDrain
<1>2. CASE PlainTimeoutDrain(k)
  BY <1>2 DEF PlainTimeoutDrain, PlainLeave
<1> QED
  BY <1>1, <1>2

LEMMA StepHolderInv ==
  ASSUME PlainTypeOK, HolderInv, [PlainNext]_plainVars
  PROVE  HolderInv'
<1>1. CASE UNCHANGED plainVars
  BY <1>1 DEF plainVars, Move, plainFiles, plainScan, PlainTypeOK, PlainWriterPC, KeeperPC, HolderInv, Holds, PlainExclusive
<1>2. ASSUME NEW w \in PlainWriters, Start(w) \/ PlainWriterStep(w) \/ Crash(w)
      PROVE  HolderInv'
  BY <1>2, WriterHolderInv DEF PlainWriterStep
<1>3. ASSUME NEW c \in PlainCollectors, Start(c) \/ PlainCollectorStep(c) \/ Crash(c)
      PROVE  HolderInv'
  BY <1>3, KeeperHolderInv, CollectorHolderInv DEF PlainCollectorStep, PlainKeeperStep
<1>4. ASSUME NEW r \in PlainRepairers, Start(r) \/ PlainRepairerStep(r) \/ Crash(r)
      PROVE  HolderInv'
  BY <1>4, KeeperHolderInv, RepairerHolderInv DEF PlainRepairerStep, PlainKeeperStep
<1> QED
  BY <1>1, <1>2, <1>3, <1>4 DEF PlainNext

-----------------------------------------------------------------------------
(* What a scan under the lease knows. *)

LEMMA WriterScanInv ==
  ASSUME PlainTypeOK, TokenInv, HolderInv, PlainScanInv, NEW w \in PlainWriters,
         \/ Start(w)
         \/ PublishToken(w)
         \/ PlainProbe(w)
         \/ PlainStandDown(w)
         \/ Retry(w)
         \/ PlainTimeout(w)
         \/ Fails(w)
         \/ PlainReleaseWriter(w)
         \/ Crash(w)
  PROVE  PlainScanInv'
<1> USE DEF Move, plainFiles, plainScan, PlainTypeOK, PlainWriterPC, KeeperPC, TokenInv, HolderInv, PlainScanInv, Holds, PlainExclusive, PlainNames
<1>1. CASE Start(w)
  BY <1>1 DEF Start
<1>2. CASE PublishToken(w)
  BY <1>2 DEF PublishToken
<1>3. CASE PlainProbe(w)
  BY <1>3 DEF PlainProbe
<1>4. CASE PlainStandDown(w)
  BY <1>4 DEF PlainStandDown
<1>5. CASE Retry(w)
  BY <1>5 DEF Retry
<1>6. CASE PlainTimeout(w)
  BY <1>6 DEF PlainTimeout
<1>7. CASE Fails(w)
  BY <1>7 DEF Fails
<1>8. CASE PlainReleaseWriter(w)
  BY <1>8 DEF PlainReleaseWriter
<1>9. CASE Crash(w)
  BY <1>9 DEF Crash
<1> QED
  BY <1>1, <1>2, <1>3, <1>4, <1>5, <1>6, <1>7, <1>8, <1>9

LEMMA KeeperScanInv ==
  ASSUME PlainTypeOK, TokenInv, HolderInv, PlainScanInv, NEW k \in PlainKeepers,
         \/ Start(k)
         \/ PublishLock(k)
         \/ Inspect(k)
         \/ Rename(k)
         \/ Reread(k)
         \/ Restore(k)
         \/ Discard(k)
         \/ Retry(k)
         \/ PlainTimeout(k)
         \/ Fails(k)
         \/ PlainListFrom(k, "list", "read")
         \/ PlainReadIn(k, "read")
         \/ PlainScanned(k)
         \/ ReleaseKeeper(k)
         \/ Crash(k)
  PROVE  PlainScanInv'
<1> USE DEF Move, plainFiles, plainScan, PlainTypeOK, PlainWriterPC, KeeperPC, TokenInv, HolderInv, PlainScanInv, Holds, PlainExclusive, PlainNames
<1>1. CASE Start(k)
  BY <1>1 DEF Start
<1>2. CASE PublishLock(k)
  BY <1>2 DEF PublishLock
<1>3. CASE Inspect(k)
  BY <1>3 DEF Inspect
<1>4. CASE Rename(k)
  BY <1>4 DEF Rename
<1>5. CASE Reread(k)
  BY <1>5 DEF Reread
<1>6. CASE Restore(k)
  BY <1>6 DEF Restore
<1>7. CASE Discard(k)
  <2>1. stage' = [stage EXCEPT ![k] = "publish"]
    BY <1>7 DEF Discard
  <2> QED
    BY <1>7, <2>1 DEF Discard
<1>8. CASE Retry(k)
  BY <1>8 DEF Retry
<1>9. CASE PlainTimeout(k)
  BY <1>9 DEF PlainTimeout
<1>10. CASE Fails(k)
  BY <1>10 DEF Fails
<1>11. CASE PlainListFrom(k, "list", "read")
  BY <1>11 DEF PlainListFrom, PlainPresent
<1>12. CASE PlainReadIn(k, "read")
  <2>1. PICK n \in unread[k] : \E r \in Readings(n) :
            /\ unread' = [unread EXCEPT ![k] = unread[k] \ {n}]
            /\ judged' = [judged EXCEPT ![k] =
                   IF r = "unknown" \/ judged[k] = "unknown" THEN "unknown"
                   ELSE IF r = "active" THEN "active" ELSE judged[k]]
    BY <1>12 DEF PlainReadIn
  <2>2. stage' = stage /\ UNCHANGED <<plainFiles, snatched>>
    BY <1>12 DEF PlainReadIn
  <2>3. ASSUME NEW w \in PlainWriters, stage[w] = "work", n = <<"token", w>>
        PROVE  Readings(n) = {"active"}
    BY <2>3 DEF Readings, PlainPresent
  <2>4. ASSUME NEW w \in PlainWriters, stage[w] = "work", n = <<"token", w>>
        PROVE  judged'[k] # "none"
    BY <2>1, <2>3, <2>4
  <2>5. ASSUME NEW l \in PlainKeepers, l # k
        PROVE  unread'[l] = unread[l] /\ judged'[l] = judged[l]
    BY <2>1, <2>5
  <2>6. unread'[k] = unread[k] \ {n} /\ (judged[k] # "none" => judged'[k] # "none")
    BY <2>1
  <2> QED
    BY <2>2, <2>4, <2>5, <2>6
<1>13. CASE PlainScanned(k)
  BY <1>13 DEF PlainScanned, PlainLeave
<1>14. CASE ReleaseKeeper(k)
  BY <1>14 DEF ReleaseKeeper, PlainLeave
<1>15. CASE Crash(k)
  BY <1>15 DEF Crash
<1> QED
  BY <1>1, <1>2, <1>3, <1>4, <1>5, <1>6, <1>7, <1>8, <1>9, <1>10, <1>11, <1>12, <1>13, <1>14, <1>15

LEMMA CollectorScanInv ==
  ASSUME PlainTypeOK, TokenInv, HolderInv, PlainScanInv, NEW k \in PlainCollectors,
         \/ PlainPlan(k)
         \/ PlainListFrom(k, "relist", "recheck")
         \/ PlainReadIn(k, "recheck")
         \/ PlainWriterLockAppeared(k)
  PROVE  PlainScanInv'
<1> USE DEF Move, plainFiles, plainScan, PlainTypeOK, PlainWriterPC, KeeperPC, TokenInv, HolderInv, PlainScanInv, Holds, PlainExclusive, PlainNames
<1>1. CASE PlainPlan(k)
  BY <1>1 DEF PlainPlan, PlainLeave
<1>2. CASE PlainListFrom(k, "relist", "recheck")
  BY <1>2 DEF PlainListFrom, PlainPresent
<1>3. CASE PlainReadIn(k, "recheck")
  BY <1>3 DEF PlainReadIn, Readings
<1>4. CASE PlainWriterLockAppeared(k)
  BY <1>4 DEF PlainWriterLockAppeared, PlainLeave
<1> QED
  BY <1>1, <1>2, <1>3, <1>4

LEMMA RepairerScanInv ==
  ASSUME PlainTypeOK, TokenInv, HolderInv, PlainScanInv, NEW k \in PlainRepairers,
         \/ PlainRetryDrain(k)
         \/ PlainTimeoutDrain(k)
  PROVE  PlainScanInv'
<1> USE DEF Move, plainFiles, plainScan, PlainTypeOK, PlainWriterPC, KeeperPC, TokenInv, HolderInv, PlainScanInv, Holds, PlainExclusive, PlainNames
<1>1. CASE PlainRetryDrain(k)
  BY <1>1 DEF PlainRetryDrain
<1>2. CASE PlainTimeoutDrain(k)
  BY <1>2 DEF PlainTimeoutDrain, PlainLeave
<1> QED
  BY <1>1, <1>2

LEMMA StepScanInv ==
  ASSUME PlainTypeOK, TokenInv, HolderInv, PlainScanInv, [PlainNext]_plainVars
  PROVE  PlainScanInv'
<1>1. CASE UNCHANGED plainVars
  BY <1>1 DEF plainVars, Move, plainFiles, plainScan, PlainTypeOK, PlainWriterPC, KeeperPC, TokenInv, HolderInv, PlainScanInv, Holds, PlainExclusive, PlainNames
<1>2. ASSUME NEW w \in PlainWriters, Start(w) \/ PlainWriterStep(w) \/ Crash(w)
      PROVE  PlainScanInv'
  BY <1>2, WriterScanInv DEF PlainWriterStep
<1>3. ASSUME NEW c \in PlainCollectors, Start(c) \/ PlainCollectorStep(c) \/ Crash(c)
      PROVE  PlainScanInv'
  BY <1>3, KeeperScanInv, CollectorScanInv DEF PlainCollectorStep, PlainKeeperStep
<1>4. ASSUME NEW r \in PlainRepairers, Start(r) \/ PlainRepairerStep(r) \/ Crash(r)
      PROVE  PlainScanInv'
  BY <1>4, KeeperScanInv, RepairerScanInv DEF PlainRepairerStep, PlainKeeperStep
<1> QED
  BY <1>1, <1>2, <1>3, <1>4 DEF PlainNext

-----------------------------------------------------------------------------
(* The theorems. *)

(* Every reachable state satisfies the inductive invariant. *)
THEOREM PlainInvariance == PlainSpec => []PlainInv
<1>1. PlainInv /\ [PlainNext]_plainVars => PlainInv'
  BY StepTypeOK, StepTokenInv, StepHolderInv, StepScanInv DEF PlainInv
<1> QED
  BY PlainInitInv, <1>1, PTL DEF PlainSpec

(* gc and doctor --repair are alone until a holder's lock is renamed away. *)
THEOREM PlainKeeperAlone == PlainSpec => []AloneUnlessSnatched
<1>1. PlainInv => AloneUnlessSnatched
  BY DEF PlainInv, HolderInv, PlainScanInv, AloneUnlessSnatched, Holds
<1> QED
  BY <1>1, PlainInvariance, PTL

-----------------------------------------------------------------------------
(* Claims: a keeper has one only between its rename and its discard or       *)
(* restoration, or has died there.                                           *)

ClaimInv ==
    \A l \in PlainKeepers :
        claim[l] # None => stage[l] \in {"reread", "restore", "discard", "blind", "ended"}

LEMMA WriterClaims ==
  ASSUME PlainTypeOK, ClaimInv, NEW w \in PlainWriters,
         Start(w) \/ PlainWriterStep(w) \/ Crash(w)
  PROVE  /\ UNCHANGED <<lock, claim, leaked>>
         /\ \A l \in PlainKeepers : stage'[l] = stage[l]
<1> USE FallbackAssumption DEF PlainKeepers, PlainProcs, Move, plainFiles, PlainTypeOK
<1>1. CASE Start(w) \/ Retry(w) \/ PlainTimeout(w)
  BY <1>1 DEF Start, Retry, PlainTimeout
<1>2. CASE PublishToken(w) \/ PlainProbe(w)
  BY <1>2 DEF PublishToken, PlainProbe
<1>3. CASE PlainStandDown(w) \/ PlainReleaseWriter(w)
  BY <1>3 DEF PlainStandDown, PlainReleaseWriter
<1>4. CASE Fails(w)
  BY <1>4 DEF Fails
<1>5. CASE Crash(w)
  BY <1>5 DEF Crash
<1> QED
  BY <1>1, <1>2, <1>3, <1>4, <1>5 DEF PlainWriterStep

(* The steps of a keeper that touch neither gc.lock nor a claim. *)
Bystanding(k) ==
    /\ UNCHANGED <<lock, claim, leaked>>
    /\ stage'[k] \notin {"idle", "discard"}
    /\ stage[k] \in {"reread", "restore", "discard", "blind", "ended"} =>
           stage'[k] \in {"reread", "restore", "blind", "ended"}
    /\ \A l \in PlainKeepers \ {k} : stage'[l] = stage[l]

(* The release: gc.lock goes, and with it the lease of the one who held it. *)
Releasing(k) ==
    /\ Holds(k)
    /\ lock' = None
    /\ stage' = [stage EXCEPT ![k] = "ended"]
    /\ UNCHANGED <<claim, leaked>>

Step(k) ==
    \/ Bystanding(k) \/ Releasing(k)
    \/ PublishLock(k) \/ Rename(k) \/ Reread(k) \/ Restore(k) \/ Discard(k)

LEMMA KeeperSteps ==
  ASSUME PlainTypeOK, NEW k \in PlainKeepers,
         Start(k) \/ PlainKeeperStep(k) \/ Crash(k)
  PROVE  Step(k)
<1> USE DEF Move, plainFiles, PlainTypeOK, PlainProcs, Bystanding, Releasing
<1>1. CASE Start(k) \/ Inspect(k) \/ Retry(k) \/ PlainTimeout(k)
  BY <1>1 DEF Start, Inspect, Retry, PlainTimeout, Step
<1>2. CASE Fails(k)
  BY <1>2 DEF Fails, Step
<1>3. CASE PlainListFrom(k, "list", "read") \/ PlainReadIn(k, "read")
  BY <1>3 DEF PlainListFrom, PlainReadIn, Step
<1>4. CASE PlainScanned(k)
  BY <1>4 DEF PlainScanned, PlainLeave, Holds, Step
<1>5. CASE ReleaseKeeper(k)
  BY <1>5 DEF ReleaseKeeper, PlainLeave, Holds, PlainExclusive, Step
<1>6. CASE Crash(k)
  BY <1>6 DEF Crash, Step
<1> HIDE DEF Move, plainFiles, PlainTypeOK, PlainProcs, Bystanding, Releasing
<1> QED
  BY <1>1, <1>2, <1>3, <1>4, <1>5, <1>6 DEF PlainKeeperStep, Step

LEMMA CollectorSteps ==
  ASSUME PlainTypeOK, NEW c \in PlainCollectors,
         \/ PlainPlan(c) \/ PlainListFrom(c, "relist", "recheck")
         \/ PlainReadIn(c, "recheck") \/ PlainWriterLockAppeared(c)
  PROVE  Step(c)
<1> USE DEF Move, plainFiles, PlainTypeOK, PlainKeepers, PlainProcs, Bystanding, Releasing, Step
<1>1. CASE PlainPlan(c)
  BY <1>1 DEF PlainPlan, PlainLeave, Holds, PlainExclusive
<1>2. CASE PlainListFrom(c, "relist", "recheck") \/ PlainReadIn(c, "recheck")
  BY <1>2 DEF PlainListFrom, PlainReadIn
<1>3. CASE PlainWriterLockAppeared(c)
  BY <1>3 DEF PlainWriterLockAppeared, PlainLeave, Holds, PlainExclusive
<1> QED
  BY <1>1, <1>2, <1>3

LEMMA RepairerSteps ==
  ASSUME PlainTypeOK, NEW r \in PlainRepairers, PlainRetryDrain(r) \/ PlainTimeoutDrain(r)
  PROVE  Step(r)
<1> USE DEF Move, plainFiles, PlainTypeOK, PlainKeepers, PlainProcs, Bystanding, Releasing, Step
<1>1. CASE PlainRetryDrain(r)
  BY <1>1 DEF PlainRetryDrain
<1>2. CASE PlainTimeoutDrain(r)
  BY <1>2 DEF PlainTimeoutDrain, PlainLeave, Holds
<1> QED
  BY <1>1, <1>2

LEMMA NextSteps ==
  ASSUME PlainTypeOK, ClaimInv, [PlainNext]_plainVars
  PROVE  \/ /\ UNCHANGED <<lock, claim, leaked>>
            /\ \A l \in PlainKeepers : stage'[l] = stage[l]
         \/ \E k \in PlainKeepers : Step(k)
<1>1. CASE UNCHANGED plainVars
  BY <1>1 DEF plainVars
<1>2. ASSUME NEW w \in PlainWriters, Start(w) \/ PlainWriterStep(w) \/ Crash(w)
      PROVE  /\ UNCHANGED <<lock, claim, leaked>>
             /\ \A l \in PlainKeepers : stage'[l] = stage[l]
  BY <1>2, WriterClaims
<1>3. ASSUME NEW c \in PlainCollectors, Start(c) \/ PlainCollectorStep(c) \/ Crash(c)
      PROVE  c \in PlainKeepers /\ Step(c)
  BY <1>3, KeeperSteps, CollectorSteps DEF PlainCollectorStep, PlainKeepers
<1>4. ASSUME NEW r \in PlainRepairers, Start(r) \/ PlainRepairerStep(r) \/ Crash(r)
      PROVE  r \in PlainKeepers /\ Step(r)
  BY <1>4, KeeperSteps, RepairerSteps DEF PlainRepairerStep, PlainKeepers
<1> QED
  BY <1>1, <1>2, <1>3, <1>4 DEF PlainNext

LEMMA StepClaims ==
  ASSUME PlainTypeOK, ClaimInv, [PlainNext]_plainVars
  PROVE  ClaimInv'
<1>1. ASSUME NEW k \in PlainKeepers, Step(k) PROVE ClaimInv'
  <2> USE DEF PlainTypeOK, ClaimInv, Move, PlainKeepers, PlainProcs
  <2>1. CASE Bystanding(k)
    BY <2>1 DEF Bystanding
  <2>2. CASE Releasing(k)
    BY <2>2 DEF Releasing
  <2>3. CASE PublishLock(k)
    BY <2>3 DEF PublishLock
  <2>4. CASE Rename(k)
    BY <2>4 DEF Rename
  <2>5. CASE Reread(k)
    BY <2>5 DEF Reread, plainFiles
  <2>6. CASE Restore(k)
    BY <2>6 DEF Restore
  <2>7. CASE Discard(k)
    BY <2>7 DEF Discard
  <2> QED
    BY <1>1, <2>1, <2>2, <2>3, <2>4, <2>5, <2>6, <2>7 DEF Step
<1> QED
  BY <1>1, NextSteps DEF ClaimInv

(* What a step leaves of the record of the holder k. *)
Spared(k) ==
    \/ Recorded(k)'
    \/ \E l \in PlainKeepers \ {k} : Holds(l) /\ stage'[l] = "ended"
    \/ \E l \in PlainKeepers : stage[l] = "blind" /\ claim[l] = k

LEMMA StepSpares ==
  ASSUME PlainTypeOK, ClaimInv, NEW l \in PlainKeepers, Step(l),
         NEW k \in PlainKeepers, Recorded(k), Holds(k)'
  PROVE  Spared(k)
<1>0. k # None
  BY FallbackAssumption DEF PlainKeepers
<1> USE <1>0 DEF PlainTypeOK, ClaimInv, Move, PlainProcs, Recorded, Spared
<1>1. CASE Bystanding(l)
  BY <1>1 DEF Bystanding
<1>2. CASE Releasing(l)
  <2>1. stage'[l] = "ended" /\ UNCHANGED <<claim, leaked>>
    BY <1>2 DEF Releasing
  <2>2. l # k
    BY <2>1 DEF Holds, PlainExclusive
  <2> QED
    BY <1>2, <2>1, <2>2 DEF Releasing
<1>3. CASE PublishLock(l)
  BY <1>3 DEF PublishLock
<1>4. CASE Rename(l)
  <2>1. claim[l] = None
    BY <1>4 DEF Rename
  <2>2. CASE lock = k
    BY <1>4, <2>2 DEF Rename
  <2>3. CASE lock # k
    BY <1>4, <2>1, <2>3 DEF Rename
  <2> QED
    BY <2>2, <2>3
<1>5. CASE Reread(l)
  BY <1>5 DEF Reread, plainFiles
<1>6. CASE Restore(l)
  BY <1>6 DEF Restore
<1>7. CASE Discard(l)
  BY <1>7 DEF Discard
<1> QED
  BY <1>1, <1>2, <1>3, <1>4, <1>5, <1>6, <1>7 DEF Step

(* The reclaim of a stale gc.lock never destroys the record of a keeper that *)
(* holds its lease, wherever its steps fall between those of other racers.   *)
THEOREM ReclaimSpares == PlainSpec => ReclaimDestroysNothing
<1> DEFINE Kept == \A k \in PlainKeepers : Holds(k) /\ Recorded(k) /\ Holds(k)' =>
                     \/ Recorded(k)'
                     \/ \E l \in PlainKeepers \ {k} : Holds(l) /\ stage'[l] = "ended"
                     \/ \E l \in PlainKeepers : stage[l] = "blind" /\ claim[l] = k
<1>1. PlainInit => ClaimInv
  BY DEF PlainInit, ClaimInv
<1>2. PlainInv /\ ClaimInv /\ [PlainNext]_plainVars => ClaimInv'
  BY StepClaims DEF PlainInv
<1>3. PlainInv /\ ClaimInv /\ [PlainNext]_plainVars => [Kept]_plainVars
  <2> SUFFICES ASSUME PlainInv, ClaimInv, [PlainNext]_plainVars,
                      NEW k \in PlainKeepers, Holds(k), Recorded(k), Holds(k)'
               PROVE  Spared(k)
    BY DEF Spared
  <2>1. CASE \E l \in PlainKeepers : Step(l)
    BY <2>1, StepSpares DEF PlainInv
  <2>2. CASE /\ UNCHANGED <<lock, claim, leaked>>
             /\ \A l \in PlainKeepers : stage'[l] = stage[l]
    BY <2>2 DEF Spared, Recorded
  <2> QED
    BY <2>1, <2>2, NextSteps DEF PlainInv
<1>4. [][Kept]_plainVars => ReclaimDestroysNothing
  BY PTL DEF ReclaimDestroysNothing
<1> HIDE DEF Kept
<1> QED
  BY <1>1, <1>2, <1>3, <1>4, PlainInvariance, PTL DEF PlainSpec
=============================================================================
