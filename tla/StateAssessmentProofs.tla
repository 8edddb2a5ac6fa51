----------------------- MODULE StateAssessmentProofs -----------------------
(* What an assessment answers, for any files, records, questions and number  *)
(* of events: an observation of now is a moment, what is published can be    *)
(* read, a verdict is true and proved, and each operand is the record its    *)
(* reference names.                                                          *)
EXTENDS StateAssessment, FiniteSetTheorems, WellFoundedInduction, TLAPS

-----------------------------------------------------------------------------
(* The window of newest checkpoints.                                         *)

TopOf(n, S) == {d \in S : Cardinality(Newer(d, S)) < n}

LEMMA CheckpointsAreFew ==
  \A S \in SUBSET Checkpoints : IsFiniteSet(S) /\ Cardinality(S) \in Nat
  BY OrderAssumption, FS_Subset, FS_CardinalityType

LEMMA NewerAreFew ==
  ASSUME NEW S \in SUBSET Checkpoints, NEW d
  PROVE  Newer(d, S) \in SUBSET S /\ IsFiniteSet(Newer(d, S)) /\ Cardinality(Newer(d, S)) \in Nat
<1>1. Newer(d, S) \in SUBSET S
  BY DEF Newer
<1> QED
  BY <1>1, CheckpointsAreFew

LEMMA FewerAreNewer ==
  ASSUME NEW T \in SUBSET Checkpoints, NEW S \in SUBSET T
  PROVE  Cardinality(S) <= Cardinality(T)
  BY CheckpointsAreFew, FS_Subset

(* If one checkpoint has n that are newer, the window of n is full. *)
LEMMA WindowIsFull ==
  ASSUME NEW n \in Nat, NEW S \in SUBSET Checkpoints, NEW e \in S,
         Cardinality(Newer(e, S)) >= n
  PROVE  Cardinality(TopOf(n, S)) >= n
<1> DEFINE N(d) == Cardinality(Newer(d, S))
           Out == {d \in S : N(d) >= n}
           Ns == {N(d) : d \in Out}
<1>1. \A d \in S : N(d) \in Nat
  BY NewerAreFew
<1>2. Ns \subseteq Nat /\ Ns # {}
  BY <1>1
<1>3. PICK k \in Ns : \A m \in Ns : ~ (m < k)
  <2>1. \E k \in Ns : \A m \in Ns : <<m, k>> \notin OpToRel(<, Nat)
    BY <1>2, NatLessThanWellFounded, WFMin
  <2> QED
    BY <1>2, <2>1 DEF OpToRel
<1>4. PICK d \in Out : k = N(d)
  OBVIOUS
<1>5. ASSUME NEW t \in Newer(d, S) PROVE t \in TopOf(n, S)
  <2>1. t \in S /\ Rank[t] > Rank[d]
    BY <1>5 DEF Newer
  <2>2. Newer(t, S) \subseteq Newer(d, S) /\ t \notin Newer(t, S)
    BY <2>1, OrderAssumption DEF Newer
  <2>3. N(t) < N(d)
    BY <1>5, <2>2, NewerAreFew, FS_Subset
  <2>4. t \notin Out
    BY <1>3, <1>4, <2>3
  <2> QED
    BY <1>1, <2>1, <2>4 DEF TopOf
<1>6. TopOf(n, S) \in SUBSET Checkpoints /\ Newer(d, S) \in SUBSET TopOf(n, S)
  BY <1>5 DEF TopOf
<1>7. N(d) <= Cardinality(TopOf(n, S)) /\ Cardinality(TopOf(n, S)) \in Nat
  BY <1>6, FewerAreNewer, CheckpointsAreFew
<1>8. N(d) \in Nat /\ N(d) >= n
  BY <1>1
<1> HIDE DEF N
<1> QED
  BY <1>7, <1>8

(* A window kept up to date is the window of all that was seen. *)
LEMMA WindowIsKept ==
  ASSUME NEW n \in Nat, NEW S \in SUBSET Checkpoints, NEW c \in Checkpoints
  PROVE  TopOf(n, TopOf(n, S) \cup {c}) = TopOf(n, S \cup {c})
<1> DEFINE T == TopOf(n, S) \cup {c}
           U == S \cup {c}
<1>1. T \in SUBSET U /\ U \in SUBSET Checkpoints /\ T \in SUBSET Checkpoints
  BY DEF TopOf
<1>2. ASSUME NEW d \in TopOf(n, U) PROVE d \in TopOf(n, T)
  <2>1. d \in U /\ Cardinality(Newer(d, U)) < n
    BY DEF TopOf
  <2>2. Newer(d, S) \in SUBSET Newer(d, U) /\ Newer(d, T) \in SUBSET Newer(d, U)
        /\ Newer(d, U) \in SUBSET Checkpoints
    BY <1>1 DEF Newer
  <2>3. /\ Cardinality(Newer(d, S)) <= Cardinality(Newer(d, U))
        /\ Cardinality(Newer(d, T)) <= Cardinality(Newer(d, U))
    BY <2>2, FewerAreNewer
  <2>4. /\ Cardinality(Newer(d, S)) \in Nat /\ Cardinality(Newer(d, T)) \in Nat
        /\ Cardinality(Newer(d, U)) \in Nat
    BY <1>1, NewerAreFew
  <2>5. Cardinality(Newer(d, S)) < n /\ Cardinality(Newer(d, T)) < n
    BY <2>1, <2>3, <2>4
  <2>6. d \in T
    BY <2>1, <2>5 DEF TopOf
  <2> QED
    BY <2>5, <2>6 DEF TopOf
<1>3. ASSUME NEW d \in TopOf(n, T) PROVE d \in TopOf(n, U)
  <2>1. d \in T /\ Cardinality(Newer(d, T)) < n
    BY DEF TopOf
  <2>2. Newer(d, U) = Newer(d, T)
    <3> SUFFICES \A e \in U : Rank[e] > Rank[d] => e \in T
      <4> HIDE DEF T, U
      <4> QED
        BY <1>1 DEF Newer
    <3> SUFFICES ASSUME NEW e \in S, e \notin TopOf(n, S), Rank[e] > Rank[d] PROVE FALSE
      OBVIOUS
    <3>0. ~ (Cardinality(Newer(e, S)) < n)
      BY DEF TopOf
    <3>1. Cardinality(Newer(e, S)) \in Nat /\ Cardinality(Newer(e, S)) >= n
      BY <3>0, NewerAreFew
    <3>2. Cardinality(TopOf(n, S)) >= n
      BY <3>1, WindowIsFull
    <3>3. ASSUME NEW t \in TopOf(n, S) PROVE t \in Newer(d, T)
      <4>1. t \in S /\ Cardinality(Newer(t, S)) < n
        BY DEF TopOf
      <4>2. Rank[t] > Rank[e]
        <5> SUFFICES ASSUME Rank[t] <= Rank[e] PROVE FALSE
          BY <4>1, OrderAssumption
        <5>1. Newer(e, S) \in SUBSET Newer(t, S) /\ Newer(t, S) \in SUBSET Checkpoints
          BY <4>1, OrderAssumption DEF Newer
        <5>2. Cardinality(Newer(e, S)) <= Cardinality(Newer(t, S)) /\ Cardinality(Newer(t, S)) \in Nat
          BY <5>1, FewerAreNewer, CheckpointsAreFew
        <5> QED
          BY <3>1, <4>1, <5>2
      <4>3. d \in Checkpoints
        BY <1>1, <2>1
      <4>4. Rank[t] > Rank[d]
        BY <4>1, <4>2, <4>3, OrderAssumption
      <4> QED
        BY <4>4 DEF Newer
    <3>4. TopOf(n, S) \in SUBSET Newer(d, T) /\ Newer(d, T) \in SUBSET Checkpoints
      BY <1>1, <3>3 DEF Newer
    <3>5. Cardinality(TopOf(n, S)) <= Cardinality(Newer(d, T))
          /\ Cardinality(Newer(d, T)) \in Nat /\ Cardinality(TopOf(n, S)) \in Nat
      BY <3>4, FewerAreNewer, CheckpointsAreFew
    <3> QED
      BY <2>1, <3>2, <3>5
  <2> QED
    BY <1>1, <2>1, <2>2 DEF TopOf
<1> QED
  BY <1>2, <1>3

(* Within the window, what is newer is what is newer of all. *)
LEMMA WindowOrder ==
  ASSUME NEW n \in Nat, NEW S \in SUBSET Checkpoints, NEW r \in TopOf(n, S)
  PROVE  Newer(r, TopOf(n, S)) = Newer(r, S)
<1> SUFFICES ASSUME NEW t \in S, Rank[t] > Rank[r] PROVE t \in TopOf(n, S)
  BY DEF Newer, TopOf
<1>1. r \in S /\ Cardinality(Newer(r, S)) < n
  BY DEF TopOf
<1>2. Newer(t, S) \in SUBSET Newer(r, S) /\ Newer(r, S) \in SUBSET Checkpoints
  BY <1>1, OrderAssumption DEF Newer
<1>3. /\ Cardinality(Newer(t, S)) <= Cardinality(Newer(r, S))
      /\ Cardinality(Newer(t, S)) \in Nat /\ Cardinality(Newer(r, S)) \in Nat
  BY <1>1, <1>2, FewerAreNewer, NewerAreFew
<1> QED
  BY <1>1, <1>3 DEF TopOf

-----------------------------------------------------------------------------
(* The two scans.                                                            *)

(* The files whose entry in the scan under way is still to come. *)
Pending == listed \cup {c.file : c \in current}

Was(f, n) == n \in past[f] \cup {worktree[f]}

(* An entry is what the content makes it, or a skip of a content that had    *)
(* ceased to be when it was to be opened.                                    *)
Honest(entry, gone) ==
    entry = EntryOf(entry.node) \/ (entry = SkipEntry(entry.node) /\ entry.node \in gone)

Fresh == ~returned => \A f \in Files : worktree[f] \notin past[f]

IdleInv ==
    /\ step = "idle" => past = [f \in Files |-> {}] /\ ~returned
    /\ step # "walk" => listed = {} /\ current = {}
    /\ step = "agreed" => pass = 2 /\ seen = first
    /\ \A f \in Files : early[f] \subseteq past[f]

CurrentInv == \A c \in current :
    /\ current = {c}
    /\ Was(c.file, c.node)
    /\ pass = 2 /\ ~returned => c.node \notin early[c.file]

FirstScanInv == step = "walk" /\ pass = 1 =>
    \A f \in Files \ Pending : Was(f, seen[f].node) /\ Honest(seen[f], past[f])

BetweenInv == pass = 2 => \A f \in Files :
    /\ first[f].node \in early[f] \cup {between[f]}
    /\ Honest(first[f], early[f])

SecondScanInv == step \in {"walk", "agreed"} /\ pass = 2 /\ ~returned =>
    \A f \in Files \ Pending : seen[f].node \notin early[f]

NowInv == NowTypeOK /\ Fresh /\ IdleInv /\ CurrentInv /\ FirstScanInv /\ BetweenInv /\ SecondScanInv

USE NowAssumption DEF Nodes, Entries, NoEntry, FileEntry, SkipEntry, EntryOf, Nothing

LEMMA NowInitInv == NowInit => NowInv
<1> SUFFICES ASSUME NowInit PROVE NowInv
  OBVIOUS
<1>1. NowTypeOK
  BY DEF NowInit, NowTypeOK
<1>2. \A f \in Files : past[f] = {} /\ early[f] = {}
  BY DEF NowInit
<1>3. Fresh /\ IdleInv
  BY <1>2 DEF NowInit, Fresh, IdleInv
<1>4. CurrentInv
  BY DEF NowInit, CurrentInv
<1>5. FirstScanInv /\ SecondScanInv
  BY DEF NowInit, FirstScanInv, SecondScanInv
<1>6. BetweenInv
  <2>1. pass = 1
    BY Zenon DEF NowInit
  <2> QED
    BY <2>1, 1 # 2, Zenon DEF BetweenInv
<1> QED
  BY <1>1, <1>3, <1>4, <1>5, <1>6 DEF NowInv

LEMMA NowTypes == ASSUME NowTypeOK, [NowNext]_nowVars PROVE NowTypeOK'
<1> USE DEF NowTypeOK, scan, aux
<1>1. CASE Begin
  BY <1>1 DEF Begin, Forget
<1>2. CASE List
  BY <1>2 DEF List
<1>3. CASE EndFirstScan
  BY <1>3 DEF EndFirstScan
<1>4. CASE EndSecondScan
  BY <1>4 DEF EndSecondScan, Fail
<1>5. ASSUME NEW f \in listed, Stat(f) PROVE NowTypeOK'
  <2>1. f \in Files /\ worktree[f] \in Contents
    BY <1>5 DEF Stat
  <2>2. [file |-> f, node |-> worktree[f]] \in [file : Files, node : Contents]
    BY <2>1
  <2>3. current' \subseteq [file : Files, node : Contents] /\ listed' \subseteq Files
    BY <1>5, <2>2 DEF Stat
  <2> QED
    BY <1>5, <2>3 DEF Stat
<1>6. ASSUME NEW f \in listed, Vanish(f) PROVE NowTypeOK'
  BY <1>6 DEF Vanish, Fail
<1>7. ASSUME NEW c \in current, Reuse(c) PROVE NowTypeOK'
  BY <1>7 DEF Reuse, Record
<1>8. ASSUME NEW c \in current, Read(c) PROVE NowTypeOK'
  BY <1>8 DEF Read, Record
<1>9. ASSUME NEW c \in current, Skip(c) PROVE NowTypeOK'
  BY <1>9 DEF Skip, Record
<1>10. ASSUME NEW c \in current, Moved(c) PROVE NowTypeOK'
  BY <1>10 DEF Moved, Fail
<1>11. CASE Collect
  BY <1>11 DEF Collect, Forget
<1>12. ASSUME NEW f \in Files, NEW n \in Nodes, Edit(f, n) PROVE NowTypeOK'
  <2>1. worktree' \in [Files -> Nodes] /\ UNCHANGED <<scan, between, early>>
    BY <1>12 DEF Edit
  <2>2. past' \in [Files -> SUBSET Nodes]
    <3>1. past[f] \cup {worktree[f]} \in SUBSET Nodes
      OBVIOUS
    <3> QED
      BY <1>12, <3>1 DEF Edit
  <2>3. returned' \in BOOLEAN
    BY <1>12 DEF Edit
  <2> QED
    BY <2>1, <2>2, <2>3
<1>13. CASE UNCHANGED nowVars
  BY <1>13 DEF nowVars
<1> QED
  BY <1>1, <1>2, <1>3, <1>4, <1>5, <1>6, <1>7, <1>8, <1>9, <1>10, <1>11, <1>12, <1>13
     DEF NowNext, Scan

LEMMA NowSteps == ASSUME NowInv, [NowNext]_nowVars PROVE NowInv'
<1> USE DEF NowInv, scan, aux
<1>0. NowTypeOK'
  BY NowTypes
<1> USE DEF Pending, Was
<1>1. CASE Begin
  <2>1. \A f \in Files : past'[f] = {} /\ early'[f] = {}
    BY <1>1 DEF Begin, Forget
  <2>2. Fresh' /\ IdleInv'
    BY <1>1, <2>1 DEF Begin, Forget, Fresh, IdleInv
  <2>3. CurrentInv'
    BY <1>1 DEF Begin, Forget, CurrentInv
  <2>4. FirstScanInv' /\ SecondScanInv'
    BY <1>1 DEF Begin, FirstScanInv, SecondScanInv
  <2>5. BetweenInv'
    <3>1. pass' = 1
      BY <1>1, Zenon DEF Begin
    <3> QED
      BY <3>1, 1 # 2, Zenon DEF BetweenInv
  <2> QED
    BY <1>0, <2>2, <2>3, <2>4, <2>5
<1>2. CASE List
  <2>1. Fresh' /\ IdleInv' /\ CurrentInv' /\ BetweenInv'
    BY <1>2 DEF List, Fresh, IdleInv, CurrentInv, BetweenInv, NowTypeOK
  <2>2. \A f \in Files \ Pending' : seen'[f] = NoEntry /\ worktree[f] = Absent
    BY <1>2 DEF List, NowTypeOK
  <2>3. FirstScanInv'
    BY <1>2, <2>2 DEF List, FirstScanInv, Honest
  <2>4. SecondScanInv'
    BY <1>2, <2>2 DEF List, SecondScanInv, Fresh, IdleInv
  <2> QED
    BY <1>0, <2>1, <2>3, <2>4
<1>3. CASE EndFirstScan
  <2>1. Fresh' /\ CurrentInv' /\ FirstScanInv' /\ SecondScanInv'
    BY <1>3 DEF EndFirstScan, Fresh, CurrentInv, FirstScanInv, SecondScanInv
  <2>2. IdleInv'
    BY <1>3 DEF EndFirstScan, IdleInv, NowTypeOK
  <2>3. BetweenInv'
    BY <1>3 DEF EndFirstScan, FirstScanInv, BetweenInv, Honest
  <2> QED
    BY <1>0, <2>1, <2>2, <2>3
<1>4. CASE EndSecondScan
  BY <1>4, <1>0 DEF EndSecondScan, Fail, Fresh, IdleInv, CurrentInv, FirstScanInv, BetweenInv, SecondScanInv
<1>5. ASSUME NEW f \in listed, Stat(f) PROVE NowInv'
  <2>1. f \in Files
    BY DEF NowTypeOK
  <2>2. Pending' = Pending
    BY <1>5 DEF Stat
  <2>3. CurrentInv'
    BY <1>5, <2>1 DEF Stat, CurrentInv, Fresh, IdleInv
  <2> QED
    BY <1>5, <1>0, <2>2, <2>3 DEF Stat, Fresh, IdleInv, FirstScanInv, BetweenInv, SecondScanInv, Honest
<1>6. ASSUME NEW f \in listed, Vanish(f) PROVE NowInv'
  BY <1>6, <1>0 DEF Vanish, Fail, Fresh, IdleInv, CurrentInv, FirstScanInv, BetweenInv, SecondScanInv
<1>7. ASSUME NEW c \in current, NEW entry \in Entries, step = "walk", Record(c.file, entry),
             entry.node = c.node,
             Honest(entry, past[c.file])
      PROVE  NowInv'
  <2>0. c.file \in Files /\ current = {c} /\ current' = {} /\ listed' = listed
    BY <1>7 DEF Record, CurrentInv, NowTypeOK
  <2>1. {d.file : d \in current} = {c.file} /\ Pending = Pending' \cup {c.file}
    BY <2>0
  <2>2. Fresh' /\ IdleInv' /\ CurrentInv' /\ BetweenInv'
    BY <1>7, <2>0 DEF Record, Fresh, IdleInv, CurrentInv, BetweenInv, Honest
  <2>3. ASSUME NEW f \in Files, f \notin Pending', f # c.file
        PROVE  f \in Files \ Pending /\ seen'[f] = seen[f]
    <3>1. f \notin Pending
      BY <2>1, <2>3
    <3>2. seen'[f] = seen[f]
      BY <1>7, <2>3 DEF Record, NowTypeOK
    <3> QED
      BY <3>1, <3>2
  <2>4. seen'[c.file] = entry
    BY <1>7, <2>0 DEF Record, NowTypeOK
  <2>5. FirstScanInv'
    BY <1>7, <2>0, <2>3, <2>4 DEF Record, FirstScanInv, CurrentInv, Honest
  <2>6. SecondScanInv'
    BY <1>7, <2>0, <2>3, <2>4 DEF Record, SecondScanInv, CurrentInv
  <2> QED
    BY <1>0, <2>2, <2>5, <2>6
<1>8. ASSUME NEW c \in current, Reuse(c) \/ Read(c) PROVE NowInv'
  <2>1. c.node \in Contents /\ EntryOf(c.node) = FileEntry(c.node) /\ FileEntry(c.node) \in Entries
    BY <1>8 DEF Reuse, Read, NowTypeOK
  <2> QED
    BY <1>7, <1>8, <2>1 DEF Reuse, Read, Honest
<1>9. ASSUME NEW c \in current, Skip(c) PROVE NowInv'
  <2>1. c.node \in Contents /\ SkipEntry(c.node) \in Entries
    BY DEF NowTypeOK
  <2>2. Honest(SkipEntry(c.node), past[c.file])
    BY <1>9, <2>1 DEF Skip, Honest, CurrentInv
  <2> QED
    BY <1>7, <1>9, <2>1, <2>2 DEF Skip
<1>10. ASSUME NEW c \in current, Moved(c) PROVE NowInv'
  BY <1>10, <1>0 DEF Moved, Fail, Fresh, IdleInv, CurrentInv, FirstScanInv, BetweenInv, SecondScanInv
<1>11. CASE Collect
  <2>1. \A f \in Files : past'[f] = {} /\ early'[f] = {}
    BY <1>11 DEF Collect, Forget
  <2>2. Fresh' /\ IdleInv'
    BY <1>11, <2>1 DEF Collect, Forget, Fresh, IdleInv
  <2>3. CurrentInv'
    BY <1>11 DEF Collect, Forget, CurrentInv
  <2>4. FirstScanInv' /\ SecondScanInv'
    BY <1>11 DEF Collect, FirstScanInv, SecondScanInv
  <2>5. BetweenInv'
    <3>1. pass' = 1
      BY <1>11, Zenon DEF Collect
    <3> QED
      BY <3>1, 1 # 2, Zenon DEF BetweenInv
  <2> QED
    BY <1>0, <2>2, <2>3, <2>4, <2>5
<1>12. ASSUME NEW f \in Files, NEW n \in Nodes, Edit(f, n) PROVE NowInv'
  <2>1. CASE step = "idle"
    <3>1. UNCHANGED <<aux, scan>>
      BY <1>12, <2>1 DEF Edit
    <3>2. \A g \in Files : past[g] = {}
      BY <2>1 DEF IdleInv
    <3>3. Fresh' /\ IdleInv' /\ FirstScanInv' /\ SecondScanInv'
      BY <3>1, <3>2, <2>1 DEF Fresh, IdleInv, FirstScanInv, SecondScanInv
    <3>4. BetweenInv'
      BY <3>1 DEF BetweenInv, Honest
    <3>5. CurrentInv'
      BY <3>1, <2>1 DEF CurrentInv, IdleInv
    <3> QED
      BY <1>0, <3>3, <3>4, <3>5
  <2>2. CASE step # "idle"
    <3>1. UNCHANGED <<step, pass, listed, current, seen, first, between, early>>
      BY <1>12, <2>2 DEF Edit
    <3>2. \A g \in Files : /\ past'[g] = IF g = f THEN past[f] \cup {worktree[f]} ELSE past[g]
                           /\ worktree'[g] = IF g = f THEN n ELSE worktree[g]
      BY <1>12, <2>2 DEF Edit, NowTypeOK
    <3>3. worktree[f] # n /\ (~returned' => ~returned /\ n \notin past[f])
      BY <1>12, <2>2 DEF Edit
    <3>4. Fresh'
      BY <3>2, <3>3 DEF Fresh
    <3>5. \A g \in Files : past[g] \subseteq past'[g] /\ \A m : Was(g, m) => Was(g, m)'
      BY <3>2
    <3>6. IdleInv'
      BY <3>1, <3>5, <2>2 DEF IdleInv
    <3>7. CurrentInv'
      <4>1. \A c \in current : c.file \in Files
        BY DEF NowTypeOK
      <4> QED
        BY <3>1, <3>3, <3>5, <4>1 DEF CurrentInv
    <3>8. FirstScanInv'
      BY <3>1, <3>5 DEF FirstScanInv, Honest
    <3>9. BetweenInv' /\ SecondScanInv'
      BY <3>1, <3>3 DEF BetweenInv, SecondScanInv, Honest
    <3> QED
      BY <1>0, <3>4, <3>6, <3>7, <3>8, <3>9
  <2> QED
    BY <2>1, <2>2
<1>13. CASE UNCHANGED nowVars
  BY <1>13, <1>0 DEF nowVars, Fresh, IdleInv, CurrentInv, FirstScanInv, BetweenInv, SecondScanInv, Honest
<1> QED
  BY <1>1, <1>2, <1>3, <1>4, <1>5, <1>6, <1>8, <1>9, <1>10, <1>11, <1>12, <1>13
     DEF NowNext, Scan

LEMMA NowInvGivesMoment == NowInv => NowIsAMoment
<1> SUFFICES ASSUME NowInv, step = "agreed", ~returned, NEW f \in Files
             PROVE  seen[f] = EntryOf(between[f])
  BY DEF NowIsAMoment
<1>1. pass = 2 /\ seen = first /\ Pending = {}
  BY DEF NowInv, IdleInv, Pending
<1>2. seen[f].node \notin early[f]
  BY <1>1 DEF NowInv, SecondScanInv
<1>3. seen[f].node = between[f]
  BY <1>1, <1>2 DEF NowInv, BetweenInv
<1> QED
  BY <1>1, <1>2, <1>3 DEF NowInv, BetweenInv, Honest

(* Unless a file becomes again what it had been meanwhile, two scans that    *)
(* agree have recorded the worktree as it was between them.                  *)
THEOREM ScansAgreeOnAMoment == NowSpec => []NowIsAMoment
<1>1. NowInit => NowInv
  BY NowInitInv
<1>2. NowInv /\ [NowNext]_nowVars => NowInv'
  BY NowSteps
<1>3. NowInv => NowIsAMoment
  BY NowInvGivesMoment
<1> QED
  BY <1>1, <1>2, <1>3, PTL DEF NowSpec

-----------------------------------------------------------------------------
(* The assessment only uses the scans: it implements them.                   *)

LEMMA AssessmentSteps == ASSUME [Next]_vars PROVE [NowNext]_nowVars
<1>1. CASE ResolveNow
  BY <1>1 DEF ResolveNow, NowNext
<1>2. CASE ScanNow
  BY <1>2 DEF ScanNow, NowNext
<1>3. CASE TakeNow
  BY <1>3 DEF TakeNow, NowNext
<1>4. ASSUME NEW f \in Files, NEW n \in Nodes, EditFile(f, n) PROVE NowNext
  BY <1>4 DEF EditFile, NowNext
<1>5. CASE \/ Enumerate \/ EndPositions \/ EndPrefixes
           \/ \E c \in unvisited : Visit(c)
           \/ \E c \in visiting : ReadHeader(c) \/ HeaderGone(c)
           \/ ResolveRun \/ \E r \in found : LoadRecord(r)
  <2>1. UNCHANGED nowVars
    BY <1>5 DEF Enumerate, EndPositions, EndPrefixes, Visit, ReadHeader, HeaderGone,
                ResolveRun, LoadRecord, Load
  <2> QED
    BY <2>1
<1>6. CASE \/ Classify \/ ClassifyUnresolved
           \/ OpenSide \/ OpenFails \/ WalkFails \/ WalkUnproved \/ WalkCompletes
           \/ VerifyOperand \/ Conclude \/ ConcludeUnavailable
  <2>1. UNCHANGED nowVars
    BY <1>6 DEF Classify, ClassifyUnresolved, OpenSide, OpenFails, WalkFails, WalkUnproved,
                WalkCompletes, VerifyOperand, Conclude, ConcludeUnavailable, Goto, Publish
  <2> QED
    BY <2>1
<1>7. CASE \/ \E c \in Checkpoints : PublishCheckpoint(c)
           \/ \E r \in Records : RemoveFile(r) \/ DamageFile(r)
  BY <1>7 DEF PublishCheckpoint, RemoveFile, DamageFile
<1>8. CASE UNCHANGED vars
  BY <1>8 DEF vars
<1> QED
  BY <1>1, <1>2, <1>3, <1>4, <1>5, <1>6, <1>7, <1>8 DEF Next

(* An assessment takes its observations of now by the two scans alone. *)
THEOREM AssessmentScansTwice == Spec => NowSpec
<1>1. Init => NowInit
  BY DEF Init
<1>2. [Next]_vars => [NowNext]_nowVars
  BY AssessmentSteps
<1> QED
  BY <1>1, <1>2, PTL DEF Spec, NowSpec

(* What an assessment takes for the present state is the worktree of a moment. *)
THEOREM NowIsOneMoment == Spec => []NowIsAMoment
BY AssessmentScansTwice, ScansAgreeOnAMoment, PTL

-----------------------------------------------------------------------------
(* The verdict.                                                              *)

USE StateAssumption DEF Records, Sides, Paths, Health, Payload

Operands == [ok : BOOLEAN, rec : Records \cup {Now, None},
             tree : [Paths -> Entries], reason : Reasons \cup {None}]

LookupInv ==
    /\ asked \in [Sides -> References]
    /\ side \in Sides
    /\ unvisited \subseteq Checkpoints /\ visiting \subseteq Checkpoints
    /\ found \subseteq Records
    /\ manifest \in [Records -> Payload] /\ frontier \in [Records -> Payload]
    /\ header \in [Records -> Health]

OperandInv ==
    /\ operand \in [Sides -> Operands]
    /\ \A s \in Sides : IF operand[s].ok THEN Rec(s) # None ELSE Rec(s) = None
    /\ \A s \in Sides : Rec(s) \in Records => Tree(s) = Evidence[Rec(s)].tree

ReadableOrTouched(s) == Rec(s) \in Records => Readable(Rec(s)) \/ Rec(s) \in touched

Opened(s) == Rec(s) \in Records =>
    \/ manifest[Rec(s)] # "none" /\ (Evidence[Rec(s)].known => frontier[Rec(s)] # "none")
    \/ Rec(s) \in touched

Checked(s) == verified[s] = "whole" => ReadableOrTouched(s)

(* What each stage has established, before it is acted upon. *)
StageInv ==
    /\ verified \in [Sides -> Reasons \cup {None, "whole"}]
    /\ doing \in {"merge", "walk"} => CompatibilityVerdict = "merge"
    /\ doing = "merge" /\ side = 2 => Opened(1)
    /\ doing = "walk" => Opened(1) /\ Opened(2)
    /\ doing = "verify" /\ side = 2 => Checked(1)
    /\ doing = "conclude" => Checked(1) /\ Checked(2)
    /\ doing \in {"verify", "conclude"} /\ outlook = "equal" =>
         Rec(1) = Rec(2) /\ Rec(1) \in Records
    /\ doing # "done" => result = NoResult

AnswerInv == PublishedIsReadable /\ VerdictIsEarned

AssessmentInv == NowTypeOK /\ LookupInv /\ OperandInv /\ StageInv /\ AnswerInv

LEMMA UnresolvedOperand == Unresolved \in Operands /\ ~Unresolved.ok /\ Unresolved.rec = None
<1>1. NoEntry \in Entries
  OBVIOUS
<1>2. [p \in Paths |-> NoEntry] \in [Paths -> Entries]
  BY <1>1
<1>3. Unresolved \in Operands
  BY <1>2 DEF Unresolved, Operands
<1> QED
  BY <1>3 DEF Unresolved

LEMMA InitAssessment == Init => AssessmentInv
<1> SUFFICES ASSUME Init PROVE AssessmentInv
  OBVIOUS
<1>1. NowTypeOK
  BY NowInitInv DEF Init, NowInv
<1>2. LookupInv
  <2>1. asked \in [Sides -> References] /\ side \in Sides /\ unvisited = {} /\ visiting = {} /\ found = {}
    BY DEF Init
  <2>2. PICK st \in Stores : header = st.header /\ manifest = st.manifest /\ frontier = st.frontier
    BY DEF Init
  <2>3. st \in [header : [Records -> Health],
               manifest : [Records -> Payload], frontier : [Records -> Payload]]
    BY <2>2, StateAssumption
  <2> QED
    BY <2>1, <2>2, <2>3 DEF LookupInv
<1>3. OperandInv
  BY UnresolvedOperand DEF Init, OperandInv, Unresolved, Rec
<1>4. StageInv
  <2>1. doing = "resolve" /\ result = NoResult
    BY DEF Init
  <2>2. verified \in [Sides -> Reasons \cup {None, "whole"}]
    BY DEF Init
  <2> QED
    BY <2>1, <2>2 DEF StageInv
<1>5. AnswerInv
  BY DEF Init, AnswerInv, PublishedIsReadable, VerdictIsEarned, NoResult, None
<1> QED
  BY <1>1, <1>2, <1>3, <1>4, <1>5 DEF AssessmentInv

-----------------------------------------------------------------------------
(* Types of what resolution works on.                                        *)

LEMMA SettledTypes ==
  ASSUME LookupInv, OperandInv, NEW op \in Operands, Settled(op),
         IF op.ok THEN op.rec # None ELSE op.rec = None,
         op.rec \in Records => op.tree = Evidence[op.rec].tree
  PROVE  LookupInv' /\ OperandInv'
<1>1. LookupInv'
  BY DEF LookupInv, Settled, store
<1>2. /\ operand' \in [Sides -> Operands]
      /\ \A s \in Sides : operand'[s] = IF s = side THEN op ELSE operand[s]
  BY DEF LookupInv, OperandInv, Settled
<1>3. OperandInv'
  BY <1>2 DEF OperandInv, Rec, Tree
<1> QED
  BY <1>1, <1>3

LEMMA FailedTypes ==
  ASSUME LookupInv, OperandInv, NEW reason \in Reasons \cup {None}, Failed(reason)
  PROVE  LookupInv' /\ OperandInv'
<1> DEFINE op == [Unresolved EXCEPT !.reason = reason]
<1>1. op \in Operands /\ ~op.ok /\ op.rec = None
  BY UnresolvedOperand DEF Unresolved, Operands
<1>2. None \notin Records
  OBVIOUS
<1> QED
  BY <1>1, <1>2, SettledTypes DEF Failed

LEMMA LookupTypes == ASSUME AssessmentInv, [Next]_vars PROVE LookupInv' /\ OperandInv'
<1> USE DEF AssessmentInv
<1>1. ASSUME UNCHANGED <<asked, side, lookup, store, operand>> PROVE LookupInv' /\ OperandInv'
  BY <1>1 DEF LookupInv, OperandInv, Rec, Tree, lookup, store
<1>2. CASE ResolveNow \/ ScanNow
  BY <1>2, <1>1 DEF ResolveNow, ScanNow, answer
<1>3. CASE TakeNow
  <2>1. CASE step = "agreed"
    <3>1. NowTree \in [Paths -> Entries]
      BY DEF NowTree, NowTypeOK
    <3> QED
      BY <1>3, <2>1, <3>1, SettledTypes DEF TakeNow, Operands, Now, None
  <2>2. CASE step = "failed"
    <3>1. failure \in Reasons \cup {None}
      BY DEF NowTypeOK, Reasons
    <3>2. Failed(failure)
      BY <1>3, <2>2 DEF TakeNow
    <3> QED
      BY <3>1, <3>2, FailedTypes
  <2> QED
    BY <1>3, <2>1, <2>2 DEF TakeNow, Collect
<1>4. CASE Enumerate
  BY <1>4 DEF Enumerate, LookupInv, OperandInv, Rec, Tree, answer, store
<1>5. ASSUME NEW c \in unvisited, Visit(c) PROVE LookupInv' /\ OperandInv'
  BY <1>5 DEF Visit, LookupInv, OperandInv, Rec, Tree, answer, store
<1>6. ASSUME NEW c \in visiting, ReadHeader(c) PROVE LookupInv' /\ OperandInv'
  <2>1. Keep(c) \subseteq Records
    BY DEF Keep, LookupInv
  <2> QED
    BY <1>6, <2>1 DEF ReadHeader, LookupInv, OperandInv, Rec, Tree, answer, store
<1>7. ASSUME NEW c \in visiting, HeaderGone(c) PROVE LookupInv' /\ OperandInv'
  BY <1>7, FailedTypes DEF HeaderGone, Reasons
<1>8. ASSUME NEW r \in Records, Load(r) PROVE LookupInv' /\ OperandInv'
  BY <1>8 DEF Load, LookupInv, OperandInv, Rec, Tree, answer, store
<1>9. CASE EndPositions
  <2>1. \/ \E reason \in Reasons : Failed(reason)
        \/ \E c \in found : Load(c)
    BY <1>9 DEF EndPositions, Reasons
  <2> QED
    BY <2>1, <1>8, FailedTypes DEF LookupInv
<1>10. CASE EndPrefixes
  <2>1. \/ \E reason \in Reasons : Failed(reason)
        \/ \E c \in found : Load(c)
    BY <1>10 DEF EndPrefixes, Reasons
  <2> QED
    BY <2>1, <1>8, FailedTypes DEF LookupInv
<1>11. CASE ResolveRun
  <2>1. Ref.id \in Runs
    BY <1>11 DEF ResolveRun, Ref, LookupInv, References
  <2> QED
    BY <1>11, <1>8, <2>1 DEF ResolveRun
<1>12. ASSUME NEW r \in found, LoadRecord(r) PROVE LookupInv' /\ OperandInv'
  <2>1. r \in Records
    BY DEF LookupInv
  <2>2. CASE header[r] # "whole"
    <3>1. HeaderReason(r) \in Reasons
      BY <2>1, <2>2 DEF HeaderReason, Reasons, LookupInv
    <3>2. Failed(HeaderReason(r))
      BY <1>12, <2>2 DEF LoadRecord
    <3> HIDE DEF HeaderReason
    <3> QED
      BY <3>1, <3>2, FailedTypes
  <2>3. CASE header[r] = "whole" /\ Evidence[r].missing
    BY <1>12, <2>3, FailedTypes DEF LoadRecord, Reasons
  <2>4. CASE header[r] = "whole" /\ ~Evidence[r].missing
    <3> DEFINE op == [ok |-> TRUE, rec |-> r, tree |-> Evidence[r].tree, reason |-> None]
    <3>1. op \in Operands /\ op.ok /\ op.rec # None /\ op.tree = Evidence[op.rec].tree
      BY <2>1 DEF Operands
    <3>2. Settled(op)
      BY <1>12, <2>4 DEF LoadRecord
    <3> QED
      BY <3>1, <3>2, SettledTypes
  <2> QED
    BY <2>2, <2>3, <2>4
<1>13. CASE \/ Classify \/ ClassifyUnresolved
            \/ OpenSide \/ OpenFails \/ WalkFails \/ WalkUnproved \/ WalkCompletes
            \/ VerifyOperand \/ Conclude \/ ConcludeUnavailable
  <2>1. UNCHANGED <<asked, lookup, store, operand>> /\ side' \in Sides
    BY <1>13 DEF Classify, ClassifyUnresolved, OpenSide, OpenFails, WalkFails, WalkUnproved,
                 WalkCompletes, VerifyOperand, Conclude, ConcludeUnavailable, Goto, Publish,
                 LookupInv, answer
  <2> QED
    BY <2>1 DEF LookupInv, OperandInv, Rec, Tree, lookup, store
<1>14. CASE \/ \E f \in Files, n \in Nodes : EditFile(f, n)
            \/ \E c \in Checkpoints : PublishCheckpoint(c)
            \/ \E r \in Records : RemoveFile(r) \/ DamageFile(r)
  <2>1. UNCHANGED <<asked, side, lookup, operand>>
    BY <1>14 DEF EditFile, PublishCheckpoint, RemoveFile, DamageFile, Happens, answer
  <2>2. /\ header' \in [Records -> Health]
        /\ manifest' \in [Records -> Payload] /\ frontier' \in [Records -> Payload]
    BY <1>14 DEF EditFile, PublishCheckpoint, RemoveFile, DamageFile, Happens, LookupInv, store
  <2> QED
    BY <2>1, <2>2 DEF LookupInv, OperandInv, Rec, Tree, lookup
<1>15. CASE UNCHANGED vars
  BY <1>15, <1>1 DEF vars, answer
<1> QED
  BY <1>2, <1>3, <1>4, <1>5, <1>6, <1>7, <1>9, <1>10, <1>11, <1>12, <1>13, <1>14, <1>15
     DEF Next

-----------------------------------------------------------------------------
(* What the stages establish.                                                *)

LEMMA AvailabilityIsHonest ==
  ASSUME LookupInv, OperandInv, NEW s \in Sides, Availability(s) = "whole"
  PROVE  ReadableOrTouched(s)
<1> SUFFICES ASSUME Rec(s) \in Records PROVE Readable(Rec(s))
  BY DEF ReadableOrTouched
<1>1. operand[s].ok /\ Rec(s) # Now
  BY DEF OperandInv
<1>2. ManifestOf(s) = "whole" /\ FrontierOf(s) = "whole"
  <2>1. ManifestOf(s) # "none" /\ {ManifestOf(s), FrontierOf(s)} = {"whole"}
    <3> HIDE DEF Payload, Health
    <3> QED
      BY <1>1 DEF Availability
  <2> QED
    BY <2>1
<1> QED
  BY <1>1, <1>2 DEF ManifestOf, FrontierOf, Known, Readable

(* Facts about an operand outlast what happens to the stores: whatever is    *)
(* changed is touched.                                                       *)
LEMMA HappeningKeepsFacts ==
  ASSUME LookupInv, NEW r, Happens(r),
         \A q \in Records \ {r} : manifest'[q] = manifest[q] /\ frontier'[q] = frontier[q]
  PROVE  /\ \A s \in Sides : /\ Opened(s) => Opened(s)'
                             /\ Checked(s) => Checked(s)'
         /\ PublishedIsReadable => PublishedIsReadable'
<1>1. touched \subseteq touched' /\ r \in touched' /\ UNCHANGED answer
  BY DEF Happens
<1>2. UNCHANGED <<operand, verified, result>>
  BY <1>1 DEF answer
<1>3. \A s \in Sides : Opened(s) => Opened(s)'
  BY <1>1, <1>2 DEF Opened, Rec
<1>4. \A s \in Sides : Checked(s) => Checked(s)'
  BY <1>1, <1>2 DEF Checked, ReadableOrTouched, Readable, Rec
<1>5. PublishedIsReadable => PublishedIsReadable'
  BY <1>1, <1>2 DEF PublishedIsReadable, Readable
<1> QED
  BY <1>3, <1>4, <1>5

Resolving == {"resolve", "now", "enumerate", "load", "classify"}

LEMMA ResolvingIsSilent ==
  ASSUME StageInv, doing' \in Resolving, UNCHANGED <<verified, result>>, doing # "done"
  PROVE  StageInv' /\ AnswerInv'
<1>1. result' = NoResult
  BY DEF StageInv
<1>2. StageInv'
  BY <1>1 DEF StageInv, Resolving
<1>3. AnswerInv'
  BY <1>1 DEF NoResult, None, AnswerInv, PublishedIsReadable, VerdictIsEarned
<1> QED
  BY <1>2, <1>3

LEMMA ResolutionStages ==
  ASSUME AssessmentInv,
         \/ ResolveNow \/ ScanNow \/ TakeNow
         \/ Enumerate \/ EndPositions \/ EndPrefixes
         \/ \E c \in unvisited : Visit(c)
         \/ \E c \in visiting : ReadHeader(c) \/ HeaderGone(c)
         \/ ResolveRun \/ \E r \in found : LoadRecord(r)
  PROVE  StageInv' /\ AnswerInv'
<1>1. ASSUME NEW op, Settled(op) PROVE doing' \in Resolving /\ UNCHANGED <<verified, result>>
  BY <1>1 DEF Settled, Resolving
<1>2. ASSUME NEW r, Load(r) PROVE doing' \in Resolving /\ UNCHANGED <<verified, result>>
  BY <1>2 DEF Load, Resolving, answer
<1>3. CASE ResolveNow \/ ScanNow \/ TakeNow
  <2>1. doing # "done" /\ doing' \in Resolving /\ UNCHANGED <<verified, result>>
    BY <1>1, <1>3 DEF ResolveNow, ScanNow, TakeNow, Failed, Resolving, answer
  <2> QED
    BY <2>1, ResolvingIsSilent DEF AssessmentInv
<1>4. CASE \/ Enumerate \/ \E c \in unvisited : Visit(c)
           \/ \E c \in visiting : ReadHeader(c) \/ HeaderGone(c)
  <2>1. doing # "done" /\ doing' \in Resolving /\ UNCHANGED <<verified, result>>
    BY <1>1, <1>4 DEF Enumerate, Visit, ReadHeader, HeaderGone, Failed, Resolving, answer
  <2> QED
    BY <2>1, ResolvingIsSilent DEF AssessmentInv
<1>5. CASE \/ EndPositions \/ EndPrefixes \/ ResolveRun \/ \E r \in found : LoadRecord(r)
  <2>1. doing # "done"
    BY <1>5 DEF EndPositions, EndPrefixes, ResolveRun, LoadRecord
  <2>2. (\E op : Settled(op)) \/ (\E r : Load(r))
    BY <1>5 DEF EndPositions, EndPrefixes, ResolveRun, LoadRecord, Failed
  <2> QED
    BY <1>1, <1>2, <2>1, <2>2, ResolvingIsSilent DEF AssessmentInv
<1> QED
  BY <1>3, <1>4, <1>5

(* The stages leave the stores and the operands alone. *)
LEMMA StagesKeepOperands ==
  ASSUME \/ Classify \/ ClassifyUnresolved
         \/ OpenSide \/ OpenFails \/ WalkFails \/ WalkUnproved \/ WalkCompletes
         \/ VerifyOperand \/ Conclude \/ ConcludeUnavailable
  PROVE  UNCHANGED <<operand, store, touched>>
  BY DEF Classify, ClassifyUnresolved, OpenSide, OpenFails, WalkFails, WalkUnproved,
         WalkCompletes, VerifyOperand, Conclude, ConcludeUnavailable, Goto, Publish, env, answer

LEMMA VerdictStages ==
  ASSUME AssessmentInv,
         \/ Classify \/ ClassifyUnresolved
         \/ OpenSide \/ OpenFails \/ WalkFails \/ WalkUnproved
  PROVE  StageInv' /\ AnswerInv'
<1> USE DEF AssessmentInv
<1>1. doing # "done" /\ UNCHANGED <<verified, result>>
  BY DEF Classify, ClassifyUnresolved, OpenSide, OpenFails, WalkFails, WalkUnproved, Goto, answer
<1>2. result' = NoResult
  BY <1>1 DEF StageInv
<1>3. AnswerInv'
  BY <1>2 DEF NoResult, None, AnswerInv, PublishedIsReadable, VerdictIsEarned
<1>4. UNCHANGED <<operand, store, touched>>
  BY StagesKeepOperands
<1>5. Rec(1)' = Rec(1) /\ Rec(2)' = Rec(2) /\ CompatibilityVerdict' = CompatibilityVerdict
  BY <1>4 DEF CompatibilityVerdict, SameImmutableRecord, Policy, Known, Rec
<1>6. \A s \in Sides : Opened(s)' <=> Opened(s)
  BY <1>4 DEF Opened, Rec, store
<1>7. verified' \in [Sides -> Reasons \cup {None, "whole"}]
  BY <1>1 DEF StageInv
<1>8. ASSUME NEW stage \in {"merge", "verify"}, NEW verdict, Goto(stage, verdict),
             stage = "merge" => CompatibilityVerdict = "merge",
             stage = "verify" /\ verdict = "equal" => Rec(1) = Rec(2) /\ Rec(1) \in Records
      PROVE  StageInv'
  <2>1. doing' = stage /\ side' = 1 /\ outlook' = verdict
    BY <1>8 DEF Goto
  <2>2. stage = "merge" => StageInv'
    BY <1>2, <1>5, <1>7, <1>8, <2>1 DEF StageInv
  <2>3. stage = "verify" => StageInv'
    BY <1>2, <1>5, <1>7, <1>8, <2>1 DEF StageInv
  <2> QED
    BY <2>2, <2>3
<1>9. CASE Classify
  <2>1. CompatibilityVerdict = "equal" => Rec(1) = Rec(2) /\ Rec(1) \in Records
    <3>1. SUFFICES ASSUME CompatibilityVerdict = "equal"
                   PROVE  Rec(1) = Rec(2) /\ Rec(1) \in Records
      OBVIOUS
    <3>2. SameImmutableRecord
      BY <3>1 DEF CompatibilityVerdict
    <3>3. Rec(1) \in Records \cup {Now, None} /\ Rec(1) # None
      BY <1>9 DEF Classify, OperandInv, Operands, Rec
    <3> QED
      BY <3>2, <3>3 DEF SameImmutableRecord
  <2>2. CASE CompatibilityVerdict = "merge"
    <3>1. Goto("merge", CompatibilityVerdict)
      BY <1>9, <2>2 DEF Classify
    <3> QED
      BY <1>3, <1>8, <2>2, <3>1
  <2>3. CASE CompatibilityVerdict # "merge"
    <3>1. Goto("verify", CompatibilityVerdict)
      BY <1>9, <2>3 DEF Classify
    <3> QED
      BY <1>3, <1>8, <2>1, <3>1
  <2> QED
    BY <2>2, <2>3
<1>10. CASE ClassifyUnresolved
  BY <1>3, <1>8, <1>10 DEF ClassifyUnresolved
<1>11. CASE OpenFails
  BY <1>3, <1>8, <1>11 DEF OpenFails
<1>12. CASE WalkFails \/ WalkUnproved
  BY <1>3, <1>8, <1>12 DEF WalkFails, WalkUnproved
<1>13. CASE OpenSide
  <2>1. Opened(side) /\ side \in Sides /\ CompatibilityVerdict = "merge"
    <3>1. Rec(side) \in Records => Rec(side) # Now
      OBVIOUS
    <3> QED
      BY <1>13, <3>1 DEF OpenSide, Opened, ManifestOf, FrontierOf, Known, StageInv, LookupInv
  <2>2. CASE side = 1
    <3>1. doing' = "merge" /\ side' = 2
      BY <1>13, <2>2 DEF OpenSide
    <3> QED
      BY <1>2, <1>3, <1>5, <1>6, <1>7, <2>1, <2>2, <3>1 DEF StageInv
  <2>3. CASE side # 1
    <3>1. doing' = "walk" /\ side = 2 /\ Opened(1)
      BY <1>13, <2>1, <2>3 DEF OpenSide, StageInv
    <3> QED
      BY <1>2, <1>3, <1>5, <1>6, <1>7, <2>1, <3>1 DEF StageInv
  <2> QED
    BY <2>2, <2>3
<1> QED
  BY <1>3, <1>9, <1>10, <1>11, <1>12, <1>13

(* The walk of a merge: both states are readable or were tampered with, and  *)
(* it ends in a true verdict.                                                *)
LEMMA WalkAnswers == ASSUME AssessmentInv, WalkCompletes PROVE StageInv' /\ AnswerInv'
<1> USE DEF AssessmentInv
<1>1. /\ doing = "walk" /\ ~Damaged /\ ~Unproved /\ doing' = "done"
      /\ UNCHANGED <<operand, store, touched, verified>>
  BY StagesKeepOperands DEF WalkCompletes, Publish
<1>2. /\ result'.rel = IF Tree(1) = Tree(2) THEN "equal" ELSE "different"
      /\ result'.published = {Rec(1), Rec(2)}
  BY DEF WalkCompletes, Publish
<1>3. StageInv'
  BY <1>1 DEF StageInv
<1>4. /\ \A s \in Sides : Rec(s)' = Rec(s) /\ Tree(s)' = Tree(s)
      /\ Unproved' = Unproved /\ Known(1)' = Known(1) /\ Known(2)' = Known(2)
      /\ Policy(1)' = Policy(1) /\ Policy(2)' = Policy(2)
  BY <1>1 DEF Rec, Tree, Unproved, Hidden, Known, Policy
<1>5. PublishedIsReadable'
  <2>1. SUFFICES ASSUME NEW s \in Sides, Rec(s) \in Records
                 PROVE  Readable(Rec(s)) \/ Rec(s) \in touched
    BY <1>1, <1>2 DEF PublishedIsReadable, Readable, store
  <2>2. Opened(s) /\ Rec(s) # Now
    BY <1>1, <2>1 DEF StageInv
  <2>3. ManifestOf(s) # "bad" /\ FrontierOf(s) # "bad"
    BY <1>1 DEF Damaged
  <2>4. manifest[Rec(s)] \in Payload /\ frontier[Rec(s)] \in Payload
    BY <2>1 DEF LookupInv
  <2> QED
    BY <2>1, <2>2, <2>3, <2>4 DEF Opened, ManifestOf, FrontierOf, Known, Readable
<1>6. VerdictIsEarned'
  <2>1. CompatibilityVerdict = "merge"
    BY <1>1 DEF StageInv
  <2>2. Policy(1) = Policy(2) /\ Known(1) /\ Known(2)
    BY <2>1 DEF CompatibilityVerdict
  <2>3. result'.rel = "equal" <=> Tree(1) = Tree(2)
    BY <1>2
  <2> QED
    BY <1>1, <1>2, <1>4, <2>2, <2>3 DEF VerdictIsEarned
<1> QED
  BY <1>3, <1>5, <1>6 DEF AnswerInv

LEMMA VerifyStages == ASSUME AssessmentInv, VerifyOperand PROVE StageInv' /\ AnswerInv'
<1> USE DEF AssessmentInv
<1>1. /\ doing = "verify" /\ UNCHANGED <<operand, store, touched, outlook, result>>
      /\ verified' = [verified EXCEPT ![side] = Availability(side)]
  BY StagesKeepOperands DEF VerifyOperand
<1>2. result' = NoResult
  BY <1>1 DEF StageInv
<1>3. AnswerInv'
  BY <1>2 DEF NoResult, None, AnswerInv, PublishedIsReadable, VerdictIsEarned
<1>4. side \in Sides
  BY DEF LookupInv
<1>5. Availability(side) \in Reasons \cup {None, "whole"}
  BY <1>4 DEF Availability, OperandInv, Operands, Reasons
<1>6. verified' \in [Sides -> Reasons \cup {None, "whole"}]
  BY <1>1, <1>4, <1>5 DEF StageInv
<1>7. \A s \in Sides : verified'[s] = IF s = side THEN Availability(s) ELSE verified[s]
  BY <1>1, <1>4 DEF StageInv
<1>8. ASSUME NEW s \in Sides, s = side PROVE Checked(s)'
  <2>1. Availability(s) = "whole" => ReadableOrTouched(s)
    BY AvailabilityIsHonest
  <2>2. verified'[s] = Availability(s)
    BY <1>7, <1>8
  <2> QED
    BY <1>1, <2>1, <2>2 DEF Checked, ReadableOrTouched, Readable, Rec, store
<1>9. side = 2 => Checked(1)'
  BY <1>1, <1>7 DEF StageInv, Checked, ReadableOrTouched, Readable, Rec, store
<1>10. /\ Rec(1)' = Rec(1) /\ Rec(2)' = Rec(2)
       /\ outlook = "equal" => Rec(1) = Rec(2) /\ Rec(1) \in Records
  BY <1>1 DEF StageInv, Rec
<1>11. StageInv'
  <2>1. CASE side = 1
    <3>1. doing' = "verify" /\ side' = 2
      BY <2>1 DEF VerifyOperand
    <3> QED
      BY <1>1, <1>2, <1>6, <1>8, <1>10, <2>1, <3>1 DEF StageInv
  <2>2. CASE side = 2
    <3>1. doing' = "conclude"
      BY <2>2 DEF VerifyOperand
    <3> QED
      BY <1>1, <1>2, <1>6, <1>8, <1>9, <1>10, <2>2, <3>1 DEF StageInv
  <2> QED
    BY <1>4, <2>1, <2>2
<1> QED
  BY <1>3, <1>11

LEMMA ConclusionAnswers ==
  ASSUME AssessmentInv, Conclude \/ ConcludeUnavailable PROVE StageInv' /\ AnswerInv'
<1> USE DEF AssessmentInv
<1>1. /\ doing = "conclude" /\ doing' = "done"
      /\ UNCHANGED <<operand, store, touched, verified>>
  BY StagesKeepOperands DEF Conclude, ConcludeUnavailable, Publish
<1>2. StageInv'
  BY <1>1 DEF StageInv
<1>3. /\ result'.published \subseteq {Rec(s) : s \in {t \in Sides : verified[t] = "whole"}}
      /\ result'.rel \in {"equal", "different"} =>
           result'.rel = "equal" /\ outlook = "equal" /\ result'.published = {Rec(1), Rec(2)}
  <2>1. CASE Conclude
    <3>1. \A s \in Sides : verified[s] = "whole"
      BY <2>1 DEF Conclude, Missing
    <3>2. \/ outlook = "equal" /\ Publish("equal", None, Sides)
          \/ Publish("incomparable", outlook, Sides)
          \/ Publish("unavailable", outlook, Sides)
      BY <2>1 DEF Conclude
    <3> QED
      BY <3>1, <3>2 DEF Publish
  <2>2. CASE ConcludeUnavailable
    <3>1. PICK reason : Publish("unavailable", reason, Sides \ Missing)
      BY <2>2 DEF ConcludeUnavailable
    <3> QED
      BY <3>1 DEF Publish, Missing
  <2> QED
    BY <2>1, <2>2
<1>4. PublishedIsReadable'
  <2>1. \A s \in Sides : verified[s] = "whole" => ReadableOrTouched(s)
    BY <1>1 DEF StageInv, Checked
  <2> QED
    BY <1>1, <1>3, <2>1 DEF PublishedIsReadable, ReadableOrTouched, Readable, store
<1>5. VerdictIsEarned'
  <2>1. SUFFICES ASSUME result'.rel \in {"equal", "different"} PROVE VerdictIsEarned'
    BY DEF VerdictIsEarned
  <2>2. Rec(1) = Rec(2) /\ Rec(1) \in Records
    BY <1>1, <1>3, <2>1 DEF StageInv
  <2>3. Tree(1) = Tree(2)
    BY <2>2 DEF OperandInv
  <2> QED
    BY <1>1, <1>3, <2>1, <2>2, <2>3 DEF VerdictIsEarned, Rec, Tree
<1> QED
  BY <1>2, <1>4, <1>5 DEF AnswerInv

(* Whatever happens to the stores and the worktree changes no verdict, and   *)
(* takes back nothing that was established of records nobody touches.        *)
LEMMA HappeningsKeepAnswers ==
  ASSUME AssessmentInv,
         \/ \E f \in Files, n \in Nodes : EditFile(f, n)
         \/ \E c \in Checkpoints : PublishCheckpoint(c)
         \/ \E r \in Records : RemoveFile(r) \/ DamageFile(r)
  PROVE  StageInv' /\ AnswerInv'
<1> USE DEF AssessmentInv
<1>1. PICK r : /\ Happens(r)
               /\ \A q \in Records \ {r} : manifest'[q] = manifest[q] /\ frontier'[q] = frontier[q]
  BY DEF EditFile, PublishCheckpoint, RemoveFile, DamageFile, LookupInv, store
<1>2. UNCHANGED <<doing, side, operand, verified, outlook, result>> /\ doing # "done"
  BY <1>1 DEF Happens, answer
<1>3. /\ \A s \in Sides : /\ Opened(s) => Opened(s)'
                          /\ Checked(s) => Checked(s)'
      /\ PublishedIsReadable => PublishedIsReadable'
  BY <1>1, HappeningKeepsFacts
<1>4. CompatibilityVerdict' = CompatibilityVerdict /\ Rec(1)' = Rec(1) /\ Rec(2)' = Rec(2)
  BY <1>2 DEF CompatibilityVerdict, SameImmutableRecord, Policy, Known, Rec
<1>5. StageInv'
  BY <1>2, <1>3, <1>4 DEF StageInv
<1>6. result' = NoResult
  BY <1>2 DEF StageInv
<1>7. AnswerInv'
  BY <1>6 DEF NoResult, None, AnswerInv, PublishedIsReadable, VerdictIsEarned
<1> QED
  BY <1>5, <1>7

LEMMA AssessmentInvSteps == ASSUME AssessmentInv, [Next]_vars PROVE AssessmentInv'
<1>1. NowTypeOK'
  BY AssessmentSteps, NowTypes DEF AssessmentInv
<1>2. LookupInv' /\ OperandInv'
  BY LookupTypes
<1>3. StageInv' /\ AnswerInv'
  <2>1. CASE UNCHANGED vars
    BY <2>1 DEF vars, answer, store, env, AssessmentInv, StageInv, AnswerInv, Opened, Checked,
       ReadableOrTouched, Readable, Rec, Tree, CompatibilityVerdict, SameImmutableRecord,
       Policy, Known, PublishedIsReadable, VerdictIsEarned, Unproved, Hidden
  <2>2. CASE Next
    BY <2>2, ResolutionStages, VerdictStages, WalkAnswers, VerifyStages, ConclusionAnswers,
       HappeningsKeepAnswers DEF Next
  <2> QED
    BY <2>1, <2>2
<1> QED
  BY <1>1, <1>2, <1>3 DEF AssessmentInv

THEOREM AssessmentInvariant == Spec => []AssessmentInv
<1>1. Init => AssessmentInv
  BY InitAssessment
<1>2. AssessmentInv /\ [Next]_vars => AssessmentInv'
  BY AssessmentInvSteps
<1> QED
  BY <1>1, <1>2, PTL DEF Spec

(* An identity is published only if its manifest and frontier could be read, *)
(* unless its record was touched meanwhile, however the comparison came out. *)
THEOREM PublishedCouldBeRead == Spec => []PublishedIsReadable
<1>1. AssessmentInv => PublishedIsReadable
  BY DEF AssessmentInv, AnswerInv
<1> QED
  BY <1>1, AssessmentInvariant, PTL

(* Equal and different are true of the two states, and every path that one   *)
(* of them lacks is proved absent there.                                     *)
THEOREM VerdictsAreEarned == Spec => []VerdictIsEarned
<1>1. AssessmentInv => VerdictIsEarned
  BY DEF AssessmentInv, AnswerInv
<1> QED
  BY <1>1, AssessmentInvariant, PTL

-----------------------------------------------------------------------------
(* Where nobody edits the worktree, no observation of now fails.             *)

CalmInv == Now \notin touched =>
    /\ step # "failed"
    /\ \A f \in listed : worktree[f] # Absent
    /\ \A c \in current : worktree[c.file] = c.node
    /\ step = "walk" => \A f \in Files \ Pending : seen[f] = EntryOf(worktree[f])
    /\ step \in {"walk", "list"} /\ pass = 2 => \A f \in Files : first[f] = EntryOf(worktree[f])

LEMMA CalmScans ==
  ASSUME NowInv, CalmInv, UNCHANGED touched, Begin \/ Scan \/ Collect
  PROVE  CalmInv'
<1> SUFFICES ASSUME Now \notin touched PROVE CalmInv'
  BY DEF CalmInv
<1> USE DEF NowInv, NowTypeOK
<1>1. CASE Begin
  <2>1. step' = "list" /\ pass' = 1 /\ listed' = {} /\ current' = {}
    BY <1>1 DEF Begin, Forget
  <2> QED
    BY <2>1 DEF CalmInv
<1>2. CASE List
  <2>1. /\ step' = "walk" /\ UNCHANGED <<worktree, pass, first, current>>
        /\ listed' = {f \in Files : worktree[f] # Absent} /\ current = {} /\ step = "list"
        /\ \A f \in Files : seen'[f] = NoEntry
    BY <1>2 DEF List, IdleInv
  <2>2. \A f \in Files \ Pending' : worktree[f] = Absent
    BY <2>1 DEF Pending
  <2> QED
    BY <2>1, <2>2 DEF CalmInv
<1>3. CASE EndFirstScan
  <2>1. /\ step' = "list" /\ UNCHANGED <<worktree, listed, current>> /\ first' = seen
        /\ step = "walk" /\ listed = {} /\ current = {}
    BY <1>3 DEF EndFirstScan
  <2>2. Pending = {}
    BY <2>1 DEF Pending
  <2> QED
    BY <2>1, <2>2 DEF CalmInv
<1>4. CASE EndSecondScan
  <2>1. step = "walk" /\ pass = 2 /\ listed = {} /\ current = {}
    BY <1>4 DEF EndSecondScan
  <2>2. Pending = {}
    BY <2>1 DEF Pending
  <2>3. \A f \in Files : seen[f] = first[f]
    BY <2>1, <2>2 DEF CalmInv
  <2>4. seen = first
    BY <2>3
  <2>5. step' = "agreed" /\ listed' = {} /\ current' = {}
    BY <1>4, <2>1, <2>4 DEF EndSecondScan
  <2> QED
    BY <2>5 DEF CalmInv
<1>5. ASSUME NEW f \in listed, Stat(f) PROVE CalmInv'
  <2>1. /\ UNCHANGED <<worktree, step, pass, seen, first>> /\ current = {}
        /\ current' = {[file |-> f, node |-> worktree[f]]} /\ listed' = listed \ {f}
    BY <1>5 DEF Stat
  <2>2. Pending' = Pending
    BY <2>1 DEF Pending
  <2> QED
    BY <2>1, <2>2 DEF CalmInv
<1>6. ASSUME NEW f \in listed, Vanish(f) PROVE CalmInv'
  BY <1>6 DEF Vanish, CalmInv
<1>7. ASSUME NEW c \in current, NEW entry \in Entries, step = "walk", Record(c.file, entry),
             entry = EntryOf(worktree[c.file])
      PROVE  CalmInv'
  <2>1. /\ c.file \in Files /\ current = {c} /\ current' = {} /\ seen' = [seen EXCEPT ![c.file] = entry]
        /\ UNCHANGED <<worktree, step, pass, listed, first>>
    BY <1>7 DEF Record, CurrentInv
  <2>2. Pending = Pending' \cup {c.file}
    BY <2>1 DEF Pending
  <2>3. \A f \in Files : seen'[f] = IF f = c.file THEN entry ELSE seen[f]
    BY <2>1
  <2>4. \A f \in Files \ Pending' : seen'[f] = EntryOf(worktree[f])
    <3> HIDE DEF EntryOf
    <3> QED
      BY <1>7, <2>2, <2>3 DEF CalmInv
  <2> QED
    BY <2>1, <2>4 DEF CalmInv
<1>8. ASSUME NEW c \in current, Reuse(c) \/ Read(c) \/ Skip(c) PROVE CalmInv'
  <2>1. worktree[c.file] = c.node /\ c.node \in Contents
    BY DEF CalmInv
  <2>2. CASE Reuse(c) \/ Read(c)
    <3>1. EntryOf(c.node) = FileEntry(c.node) /\ FileEntry(c.node) \in Entries
      BY <2>1, <2>2 DEF Reuse, Read
    <3> QED
      BY <1>7, <2>1, <2>2, <3>1 DEF Reuse, Read
  <2>3. CASE Skip(c)
    <3>1. EntryOf(c.node) = SkipEntry(c.node) /\ SkipEntry(c.node) \in Entries
      BY <2>1, <2>3 DEF Skip
    <3> QED
      BY <1>7, <2>1, <2>3, <3>1 DEF Skip
  <2> QED
    BY <1>8, <2>2, <2>3
<1>9. ASSUME NEW c \in current, Moved(c) PROVE CalmInv'
  BY <1>9 DEF Moved, CalmInv
<1>10. CASE Collect
  <2>1. step' = "idle" /\ listed' = {} /\ current' = {}
    BY <1>10 DEF Collect, Forget
  <2> QED
    BY <2>1 DEF CalmInv
<1> QED
  BY <1>1, <1>2, <1>3, <1>4, <1>5, <1>6, <1>8, <1>9, <1>10 DEF Scan

(* What changes is touched, and what is sound now was sound before.          *)
LEMMA ChangesAreTouched ==
  ASSUME LookupInv, [Next]_vars
  PROVE  /\ asked' = asked /\ touched \subseteq touched'
         /\ \A r \in Records : r \notin touched' =>
              header'[r] = header[r] /\ manifest'[r] = manifest[r] /\ frontier'[r] = frontier[r]
<1>1. CASE \/ ResolveNow \/ ScanNow \/ TakeNow \/ Enumerate \/ EndPositions \/ EndPrefixes
           \/ \E c \in unvisited : Visit(c)
           \/ \E c \in visiting : ReadHeader(c) \/ HeaderGone(c)
           \/ ResolveRun \/ \E r \in found : LoadRecord(r)
  <2>1. UNCHANGED <<asked, store, env>>
    BY <1>1 DEF ResolveNow, ScanNow, TakeNow, Enumerate, EndPositions, EndPrefixes, Visit,
       ReadHeader, HeaderGone, ResolveRun, LoadRecord, Load, Failed, Settled
  <2> QED
    BY <2>1 DEF store, env
<1>2. CASE \/ Classify \/ ClassifyUnresolved \/ OpenSide \/ OpenFails \/ WalkFails
           \/ WalkUnproved \/ WalkCompletes \/ VerifyOperand \/ Conclude \/ ConcludeUnavailable
  <2>1. UNCHANGED <<asked, store, env>>
    BY <1>2 DEF Classify, ClassifyUnresolved, OpenSide, OpenFails, WalkFails, WalkUnproved,
       WalkCompletes, VerifyOperand, Conclude, ConcludeUnavailable, Goto, Publish
  <2> QED
    BY <2>1 DEF store, env
<1>3. CASE \/ \E f \in Files, n \in Nodes : EditFile(f, n)
           \/ \E c \in Checkpoints : PublishCheckpoint(c)
           \/ \E r \in Records : RemoveFile(r) \/ DamageFile(r)
  <2>1. PICK r : /\ Happens(r)
                 /\ \A q \in Records \ {r} : /\ header'[q] = header[q]
                                             /\ manifest'[q] = manifest[q] /\ frontier'[q] = frontier[q]
    BY <1>3 DEF EditFile, PublishCheckpoint, RemoveFile, DamageFile, LookupInv, store
  <2> QED
    BY <2>1 DEF Happens
<1>4. CASE UNCHANGED vars
  BY <1>4 DEF vars, store, env
<1> QED
  BY <1>1, <1>2, <1>3, <1>4 DEF Next

LEMMA IntactBefore ==
  ASSUME LookupInv, [Next]_vars, NEW r \in Records, r \notin touched'
  PROVE  Intact(r)' <=> Intact(r)
<1>1. header'[r] = header[r] /\ manifest'[r] = manifest[r] /\ frontier'[r] = frontier[r]
  BY ChangesAreTouched
<1>2. r \notin touched
  BY ChangesAreTouched
<1> QED
  BY <1>1, <1>2 DEF Intact, Readable

LEMMA SoundBefore ==
  ASSUME LookupInv, [Next]_vars, NEW s \in Sides, Sound(asked[s])'
  PROVE  Sound(asked[s])
<1>1. asked'[s] = asked[s] /\ asked[s] \in References /\ touched \subseteq touched'
  BY ChangesAreTouched DEF LookupInv
<1> DEFINE ref == asked[s]
<1>2. CASE ref.kind = "now"
  BY <1>1, <1>2 DEF Sound
<1>3. CASE ref.kind = "run"
  <2>1. PICK q \in Runs : q = asked[s].id
    BY <1>1, <1>3 DEF References
  <2>2. Intact(q)'
    BY <1>1, <1>3, <2>1 DEF Sound
  <2>3. q \notin touched'
    BY <2>2 DEF Intact
  <2>4. Intact(q)
    BY <2>2, <2>3, IntactBefore
  <2> QED
    BY <1>3, <2>1, <2>4 DEF Sound
<1>4. CASE ref.kind = "prefix"
  <2>1. ref.ids \subseteq Checkpoints
    BY <1>1, <1>4 DEF References
  <2>2. PICK c \in ref.ids : Intact(c)' /\ \A d \in ref.ids \ {c} : header'[d] = "none" /\ d \notin touched'
    BY <1>1, <1>4 DEF Sound
  <2>3. c \notin touched'
    BY <2>2 DEF Intact
  <2>4. Intact(c)
    BY <2>1, <2>2, <2>3, IntactBefore
  <2>5. \A d \in ref.ids \ {c} : header[d] = "none" /\ d \notin touched
    BY <1>1, <2>1, <2>2, ChangesAreTouched
  <2> QED
    BY <1>4, <2>4, <2>5 DEF Sound
<1>5. CASE ref.kind = "position"
  <2>1. \A c \in Checkpoints : c \notin touched'
    BY <1>1, <1>5 DEF Sound
  <2>2. \A c \in Checkpoints : c \notin touched /\ header'[c] = header[c]
    BY <1>1, <2>1, ChangesAreTouched
  <2>3. \A c \in Checkpoints : Intact(c)' <=> Intact(c)
    BY <2>1, IntactBefore
  <2>4. {c \in Checkpoints : header'[c] # "none"} = {c \in Checkpoints : header[c] # "none"}
    BY <2>2
  <2>5. /\ \A c \in Checkpoints : header'[c] # "none" => Intact(c)'
        /\ Cardinality({c \in Checkpoints : header'[c] # "none"}) >= ref.n
    BY <1>1, <1>5 DEF Sound
  <2> QED
    BY <1>5, <2>2, <2>3, <2>4, <2>5 DEF Sound
<1> QED
  BY <1>1, <1>2, <1>3, <1>4, <1>5 DEF References

LEMMA SoundIsUntouched ==
  ASSUME NEW ref \in References, Sound(ref)', NEW r \in Concerned(ref) PROVE r \notin touched'
<1>1. CASE ref.kind = "now"
  BY <1>1 DEF Sound, Concerned
<1>2. CASE ref.kind = "run"
  BY <1>2 DEF Sound, Concerned, Intact
<1>3. CASE ref.kind = "prefix"
  BY <1>3 DEF Sound, Concerned, Intact
<1>4. CASE ref.kind = "position"
  BY <1>4 DEF Sound, Concerned
<1> QED
  BY <1>1, <1>2, <1>3, <1>4 DEF References

-----------------------------------------------------------------------------
(* How an operand is resolved.                                               *)

Passed == Checkpoints \ (unvisited \cup visiting)

VisitInv ==
    /\ doing = "resolve" => found = {} /\ counts = NoCounts /\ visiting = {}
    /\ doing = "now" => Ref.kind = "now"
    /\ doing = "enumerate" => Ref.kind \in {"position", "prefix"}
    /\ doing = "load" => Ref.kind # "now"
    /\ \A c \in visiting : /\ visiting = {c} /\ c \notin unvisited
                           /\ doing = "enumerate" /\ Ref.kind = "position"
                           /\ header[c] # "none" \/ c \in touched

SteadyInv == doing \in {"enumerate", "load"} /\ Ref.kind \in {"position", "prefix"} =>
    steady \subseteq Checkpoints /\ Checkpoints \ steady \subseteq touched

(* S are the committed checkpoints the pass has read the headers of. *)
IsRead(S) ==
    /\ S \subseteq Passed
    /\ found = TopOf(Ref.n, S)
    /\ counts.whole = Cardinality(S)
    /\ \A c \in S \cap steady : header[c] = "whole"
    /\ \A c \in Passed \cap steady : header[c] = "whole" => c \in S

WindowInv == doing = "enumerate" /\ Ref.kind = "position" => \E S \in SUBSET Checkpoints : IsRead(S)

HealthInv == doing = "enumerate" /\ Ref.kind = "position" =>
    /\ counts \in [{"whole", "bad", "foreign"} -> Nat]
    /\ \A h \in {"bad", "foreign"} :
         /\ \A c \in Passed \cap steady : header[c] = h => counts[h] > 0
         /\ counts[h] > 0 => \E c \in Checkpoints : header[c] = h \/ c \in touched

PrefixInv == doing = "enumerate" /\ Ref.kind = "prefix" =>
    /\ found \subseteq Ref.ids
    /\ \A c \in found : header[c] # "none" \/ c \in touched
    /\ \A c \in Ref.ids \ unvisited : header[c] # "none" => c \in found \/ c \in touched

(* A sound reference leads to an intact record. *)
Led(r) == Sound(Ref) => r \in Concerned(Ref) /\ Intact(r)

LoadInv == doing = "load" => \A r \in found : Led(r)

LookedUpInv == /\ VisitInv /\ SteadyInv /\ WindowInv /\ HealthInv /\ PrefixInv /\ LoadInv
               /\ PositionIsExact

Looking == {"resolve", "now", "enumerate", "load"}

Answered(s) == Sound(asked[s]) =>
    /\ operand[s].ok
    /\ Rec(s) \in Concerned(asked[s])
    /\ Rec(s) \in Records => Intact(Rec(s))

AnsweredInv == \A s \in Sides : (doing \in Looking => s < side) => Answered(s)

BothSound == \A s \in Sides : Sound(asked[s])

VerifiedInv ==
    /\ doing = "verify" /\ side = 2 /\ Sound(asked[1]) => verified[1] = "whole"
    /\ doing = "conclude" => \A s \in Sides : Sound(asked[s]) => verified[s] = "whole"
    /\ doing \in {"verify", "conclude"} /\ BothSound =>
         outlook \in {"equal", "incompatible-identity-policy", "absence-unproved"}
    /\ SoundOperandsAreAnswered

SoundInv == /\ NowInv /\ LookupInv /\ OperandInv
            /\ CalmInv /\ LookedUpInv /\ AnsweredInv /\ VerifiedInv

Happening == \/ \E f \in Files, n \in Nodes : EditFile(f, n)
             \/ \E c \in Checkpoints : PublishCheckpoint(c)
             \/ \E r \in Records : RemoveFile(r) \/ DamageFile(r)

(* What happens concerns one record, or the worktree. *)
HappensTo(r) ==
    /\ UNCHANGED <<asked, doing, side, lookup, answer>> /\ doing # "done"
    /\ touched' = touched \cup {r} /\ steady' = steady \ {r}
    /\ \A q \in Records \ {r} : header'[q] = header[q]
    /\ r \in Checkpoints => r # Now

LEMMA HappeningsAre == ASSUME LookupInv, Happening PROVE \E r \in Records \cup {Now} : HappensTo(r)
<1>1. ASSUME NEW f \in Files, NEW n \in Nodes, EditFile(f, n) PROVE HappensTo(Now)
  BY <1>1 DEF EditFile, Happens, HappensTo, store
<1>2. ASSUME NEW c \in Checkpoints, PublishCheckpoint(c) PROVE HappensTo(c)
  BY <1>2 DEF PublishCheckpoint, Happens, HappensTo, LookupInv
<1>3. ASSUME NEW r \in Records, RemoveFile(r) \/ DamageFile(r) PROVE HappensTo(r)
  BY <1>3 DEF RemoveFile, DamageFile, Happens, HappensTo, LookupInv
<1> QED
  BY <1>1, <1>2, <1>3 DEF Happening

LEMMA SoundStays ==
  ASSUME LookupInv, [Next]_vars, NEW ref \in References, NEW s \in Sides, ref = asked[s],
         Sound(ref)', NEW q \in Records, q \in Concerned(ref), Intact(q)
  PROVE  Intact(q)'
<1>1. q \notin touched'
  BY SoundIsUntouched
<1> QED
  BY <1>1, IntactBefore

LEMMA LedStays ==
  ASSUME LookupInv, [Next]_vars, Ref' = Ref, NEW q \in Records, Led(q)
  PROVE  Led(q)'
<1>1. PICK s \in Sides, ref \in References : s = side /\ ref = asked[s]
  BY DEF LookupInv
<1>2. Ref = ref /\ Ref' = ref /\ asked'[s] = ref
  BY <1>1, ChangesAreTouched DEF Ref
<1> SUFFICES ASSUME Sound(ref)' PROVE q \in Concerned(ref) /\ Intact(q)'
  BY <1>2 DEF Led
<1>3. Sound(asked[s])'
  BY <1>2
<1>4. Sound(ref)
  BY <1>1, <1>3, SoundBefore
<1> QED
  BY <1>1, <1>2, <1>4, SoundStays DEF Led

LEMMA AnsweredStays ==
  ASSUME LookupInv, [Next]_vars, NEW s \in Sides, operand'[s] = operand[s],
         Rec(s) \in Records \cup {Now, None}, Answered(s)
  PROVE  Answered(s)'
<1>1. PICK ref \in References : ref = asked[s]
  BY DEF LookupInv
<1>2. asked'[s] = ref
  BY <1>1, ChangesAreTouched
<1>3. PICK q \in Records \cup {Now, None} : q = operand[s].rec
  BY DEF Rec
<1>4. operand'[s].ok = operand[s].ok /\ operand'[s].rec = q
  BY <1>3
<1> SUFFICES ASSUME Sound(ref)'
             PROVE  operand[s].ok /\ q \in Concerned(ref) /\ (q \in Records => Intact(q)')
  BY <1>2, <1>4 DEF Answered, Rec
<1>5. Sound(asked[s])'
  BY <1>2
<1>6. Sound(ref)
  BY <1>1, <1>5, SoundBefore
<1>7. operand[s].ok /\ q \in Concerned(ref) /\ (q \in Records => Intact(q))
  BY <1>1, <1>3, <1>6 DEF Answered, Rec
<1> QED
  BY <1>1, <1>5, <1>7, SoundStays

LEMMA HappeningsKeepLookups ==
  ASSUME SoundInv, Happening PROVE LookedUpInv'
<1> USE DEF SoundInv, LookedUpInv
<1>1. PICK r \in Records \cup {Now} : HappensTo(r)
  BY HappeningsAre
<1>2. /\ UNCHANGED <<asked, doing, side, operand, unvisited, visiting, found, counts>>
      /\ touched' = touched \cup {r} /\ steady' = steady \ {r} /\ Ref' = Ref /\ Passed' = Passed
      /\ \A q \in Checkpoints \ {r} : header'[q] = header[q]
      /\ found \subseteq Records /\ visiting \subseteq Checkpoints /\ Passed \subseteq Checkpoints
  BY <1>1 DEF HappensTo, lookup, answer, Ref, Passed, LookupInv
<1>3. VisitInv'
  BY <1>2 DEF VisitInv
<1>4. SteadyInv'
  BY <1>2 DEF SteadyInv
<1>5. WindowInv'
  <2> SUFFICES ASSUME NEW S \in SUBSET Checkpoints, IsRead(S) PROVE IsRead(S)'
    BY <1>2 DEF WindowInv
  <2> HIDE DEF SoundInv, LookedUpInv
  <2> QED
    BY <1>2 DEF IsRead
<1>6. HealthInv'
  BY <1>2 DEF HealthInv
<1>7. PrefixInv'
  <2>1. Ref.kind = "prefix" => Ref.ids \subseteq Checkpoints
    BY DEF Ref, LookupInv, References
  <2>2. doing = "enumerate" /\ Ref.kind = "prefix" => found \subseteq Checkpoints
    BY <2>1 DEF PrefixInv
  <2> QED
    BY <1>2, <2>1, <2>2 DEF PrefixInv
<1>8. LoadInv'
  <2>1. [Next]_vars
    BY DEF Happening, Next
  <2>2. ASSUME NEW q \in Records, Led(q) PROVE Led(q)'
    BY <1>2, <2>1, <2>2, LedStays
  <2> QED
    BY <1>2, <2>2 DEF LoadInv
<1>9. PositionIsExact'
  <2> SUFFICES ASSUME doing = "load", Ref.kind = "position", NEW q \in found
               PROVE  /\ \A c \in steady' : header'[c] \in {"none", "whole"}
                      /\ Cardinality({c \in Newer(q, steady') : header'[c] = "whole"}) < Ref.n
                      /\ Cardinality({c \in Newer(q, Checkpoints) :
                                       header'[c] = "whole" \/ c \notin steady'}) >= Ref.n - 1
    BY <1>2 DEF PositionIsExact
  <2> DEFINE A == {c \in Newer(q, steady) : header[c] = "whole"}
             B == {c \in Newer(q, Checkpoints) : header[c] = "whole" \/ c \notin steady}
             A2 == {c \in Newer(q, steady') : header'[c] = "whole"}
             B2 == {c \in Newer(q, Checkpoints) : header'[c] = "whole" \/ c \notin steady'}
  <2>1. /\ \A c \in steady : header[c] \in {"none", "whole"}
        /\ Cardinality(A) < Ref.n /\ Cardinality(B) >= Ref.n - 1
    BY DEF PositionIsExact
  <2>2. steady \subseteq Checkpoints
    BY DEF SteadyInv
  <2>3. A2 \in SUBSET A /\ B \in SUBSET B2 /\ A \in SUBSET Checkpoints /\ B2 \in SUBSET Checkpoints
    BY <1>2, <2>2 DEF Newer
  <2>4. /\ Cardinality(A2) <= Cardinality(A) /\ Cardinality(B) <= Cardinality(B2)
        /\ \A S \in {A, B, A2, B2} : Cardinality(S) \in Nat
    BY <2>3, FewerAreNewer, CheckpointsAreFew
  <2>5. Ref.n \in Nat
    BY DEF Ref, LookupInv, References
  <2>6. \A c \in steady' : header'[c] \in {"none", "whole"}
    BY <1>2, <2>1, <2>2
  <2> HIDE DEF A, B, A2, B2
  <2>7. Cardinality(A2) < Ref.n /\ Cardinality(B2) >= Ref.n - 1
    BY <2>1, <2>4, <2>5
  <2> QED
    BY <2>6, <2>7 DEF A2, B2
<1> QED
  BY <1>3, <1>4, <1>5, <1>6, <1>7, <1>8, <1>9

(* An operand that is found as it should be is answered for. *)
Good(op) == Sound(Ref) => /\ op.ok
                          /\ op.rec \in Concerned(Ref)
                          /\ op.rec \in Records => Intact(op.rec)

LEMMA SettledAnswers ==
  ASSUME SoundInv, [Next]_vars, doing \in Looking, NEW op \in Operands, Settled(op), Good(op)
  PROVE  LookedUpInv' /\ AnsweredInv' /\ VerifiedInv'
<1> USE DEF SoundInv, LookedUpInv
<1>1. /\ doing' \in {"resolve", "classify"} /\ found' = {} /\ counts' = NoCounts /\ visiting' = {}
      /\ doing' = "resolve" => side = 1 /\ side' = 2
  BY DEF Settled, LookupInv
<1>2. LookedUpInv'
  BY <1>1 DEF VisitInv, SteadyInv, WindowInv, HealthInv, PrefixInv, LoadInv, PositionIsExact
<1>3. VerifiedInv'
  BY <1>1 DEF VerifiedInv, SoundOperandsAreAnswered
<1>4. \A s \in Sides : operand'[s] = IF s = side THEN op ELSE operand[s]
  BY DEF Settled, OperandInv, LookupInv
<1>5. ASSUME NEW s \in Sides, s = side PROVE Answered(s)'
  <2>1. PICK ref \in References : ref = asked[s]
    BY DEF LookupInv
  <2>2. asked'[s] = ref /\ Ref = ref /\ operand'[s] = op
    BY <1>4, <1>5, <2>1, ChangesAreTouched DEF Ref
  <2> SUFFICES ASSUME Sound(ref)'
               PROVE  op.ok /\ op.rec \in Concerned(ref) /\ (op.rec \in Records => Intact(op.rec)')
    BY <2>2 DEF Answered, Rec
  <2>3. Sound(asked[s])'
    BY <2>2
  <2>4. Sound(ref)
    BY <2>1, <2>3, SoundBefore
  <2> QED
    BY <2>1, <2>2, <2>4, SoundStays DEF Good
<1>6. ASSUME NEW s \in Sides, s # side, doing' = "classify" PROVE Answered(s)'
  <2>1. s < side
    BY <1>6 DEF Settled, LookupInv
  <2>2. Answered(s) /\ operand'[s] = operand[s]
    BY <1>4, <1>6, <2>1 DEF AnsweredInv
  <2>3. Rec(s) \in Records \cup {Now, None}
    BY DEF OperandInv, Operands, Rec
  <2> QED
    BY <2>2, <2>3, AnsweredStays
<1>7. AnsweredInv'
  BY <1>1, <1>5, <1>6 DEF AnsweredInv, Looking
<1> QED
  BY <1>2, <1>3, <1>7

LEMMA FailedAnswers ==
  ASSUME SoundInv, [Next]_vars, doing \in Looking, NEW reason \in Reasons \cup {None},
         Failed(reason), ~Sound(Ref)
  PROVE  LookedUpInv' /\ AnsweredInv' /\ VerifiedInv'
<1> DEFINE op == [Unresolved EXCEPT !.reason = reason]
<1>1. op \in Operands
  BY UnresolvedOperand DEF Unresolved, Operands
<1>2. Good(op)
  BY DEF Good
<1> QED
  BY <1>1, <1>2, SettledAnswers DEF Failed

LEMMA StillLooking ==
  ASSUME SoundInv, [Next]_vars, doing \in Looking, doing' \in Looking, UNCHANGED <<operand, side>>
  PROVE  AnsweredInv' /\ VerifiedInv'
<1> USE DEF SoundInv
<1>1. VerifiedInv'
  BY DEF VerifiedInv, SoundOperandsAreAnswered, Looking
<1>2. ASSUME NEW s \in Sides, s < side PROVE Answered(s)'
  <2>1. Rec(s) \in Records \cup {Now, None} /\ operand'[s] = operand[s]
    BY DEF OperandInv, Operands, Rec
  <2>2. Answered(s)
    BY <1>2 DEF AnsweredInv
  <2> QED
    BY <2>1, <2>2, AnsweredStays
<1> QED
  BY <1>1, <1>2 DEF AnsweredInv

LEMMA SoundPosition ==
  ASSUME SoundInv, doing \in {"enumerate", "load"}, Ref.kind = "position", Sound(Ref)
  PROVE  /\ \A c \in Checkpoints : /\ c \in steady /\ c \notin touched
                                   /\ header[c] # "none" => Intact(c) /\ header[c] = "whole"
         /\ Cardinality({c \in Checkpoints : header[c] # "none"}) >= Ref.n
  BY DEF SoundInv, LookedUpInv, SteadyInv, Sound, Intact

LEMMA NowAnswers ==
  ASSUME SoundInv, [Next]_vars, ResolveNow \/ ScanNow \/ TakeNow
  PROVE  LookedUpInv' /\ AnsweredInv' /\ VerifiedInv'
<1>1. CASE ResolveNow \/ ScanNow
  <2>1. /\ UNCHANGED <<asked, side, lookup, operand, store, env>> /\ Ref' = Ref
        /\ doing \in {"resolve", "now"} /\ doing' = "now" /\ Ref.kind = "now"
    BY <1>1 DEF ResolveNow, ScanNow, answer, Ref, SoundInv, LookedUpInv, VisitInv
  <2>2. LookedUpInv'
    BY <2>1 DEF SoundInv, LookedUpInv, VisitInv, SteadyInv, WindowInv, HealthInv, PrefixInv,
       LoadInv, PositionIsExact, lookup, store, env
  <2> QED
    BY <2>1, <2>2, StillLooking DEF Looking
<1>2. CASE TakeNow
  <2>1. doing = "now" /\ doing \in Looking /\ Ref.kind = "now"
    BY <1>2 DEF TakeNow, SoundInv, LookedUpInv, VisitInv, Looking
  <2>2. CASE step = "agreed"
    <3> DEFINE op == [ok |-> TRUE, rec |-> Now, tree |-> NowTree, reason |-> None]
    <3>1. NowTree \in [Paths -> Entries]
      BY DEF NowTree, SoundInv, NowInv, NowTypeOK
    <3>2. op \in Operands
      BY <3>1 DEF Operands, Now, None
    <3>3. Good(op)
      BY <2>1 DEF Good, Concerned
    <3>4. Settled(op)
      BY <1>2, <2>2 DEF TakeNow
    <3> QED
      BY <2>1, <3>2, <3>3, <3>4, SettledAnswers
  <2>3. CASE step = "failed"
    <3>1. failure \in Reasons \cup {None}
      BY DEF SoundInv, NowInv, NowTypeOK, Reasons
    <3>2. Failed(failure)
      BY <1>2, <2>3 DEF TakeNow
    <3>3. ~Sound(Ref)
      BY <2>1, <2>3 DEF SoundInv, CalmInv, Sound
    <3> QED
      BY <2>1, <3>1, <3>2, <3>3, FailedAnswers
  <2> QED
    BY <1>2, <2>2, <2>3 DEF TakeNow, Collect
<1> QED
  BY <1>1, <1>2

LEMMA PassBegins ==
  ASSUME SoundInv, [Next]_vars, Enumerate PROVE LookedUpInv' /\ AnsweredInv' /\ VerifiedInv'
<1>1. /\ Ref' = Ref /\ Ref.kind \in {"position", "prefix"} /\ doing = "resolve" /\ doing' = "enumerate"
      /\ unvisited' = Checkpoints /\ steady' = Checkpoints /\ Passed' = {}
      /\ found = {} /\ visiting = {} /\ counts = NoCounts
      /\ UNCHANGED <<side, operand, visiting, found, counts, store, touched>>
  BY DEF Enumerate, Ref, Passed, SoundInv, LookedUpInv, VisitInv, answer, env
<1>2. WindowInv'
  <2>1. TopOf(Ref.n, {}) = {} /\ Cardinality({}) = 0 /\ NoCounts.whole = 0
    BY FS_EmptySet DEF TopOf, NoCounts
  <2>2. IsRead({})'
    BY <1>1, <2>1 DEF IsRead
  <2> QED
    BY <2>2 DEF WindowInv
<1>3. HealthInv'
  <2>1. NoCounts \in [{"whole", "bad", "foreign"} -> Nat] /\ NoCounts["bad"] = 0 /\ NoCounts["foreign"] = 0
    BY DEF NoCounts
  <2> QED
    BY <1>1, <2>1 DEF HealthInv
<1>4. LookedUpInv'
  <2>1. VisitInv' /\ SteadyInv' /\ LoadInv' /\ PositionIsExact'
    BY <1>1 DEF VisitInv, SteadyInv, LoadInv, PositionIsExact
  <2>2. Ref.kind = "prefix" => Ref.ids \subseteq Checkpoints
    BY DEF Ref, SoundInv, LookupInv, References
  <2>3. PrefixInv'
    BY <1>1, <2>2 DEF PrefixInv
  <2> QED
    BY <1>2, <1>3, <2>1, <2>3 DEF LookedUpInv
<1> QED
  BY <1>1, <1>4, StillLooking DEF Looking

LEMMA VisitAnswers ==
  ASSUME SoundInv, [Next]_vars, NEW c \in unvisited, Visit(c)
  PROVE  LookedUpInv' /\ AnsweredInv' /\ VerifiedInv'
<1>1. /\ doing = "enumerate" /\ visiting = {} /\ c \in Checkpoints /\ unvisited' = unvisited \ {c}
      /\ Ref' = Ref /\ Ref.kind \in {"position", "prefix"}
      /\ UNCHANGED <<doing, side, operand, counts, store, touched, steady>>
  BY DEF Visit, SoundInv, LookedUpInv, VisitInv, LookupInv, Ref, answer, env
<1>2. visiting' = IF header[c] # "none" /\ Ref.kind = "position" THEN {c} ELSE {}
  BY DEF Visit
<1>3. Ref.kind = "position" =>
        /\ found' = found
        /\ Passed' = IF header[c] # "none" THEN Passed ELSE Passed \cup {c}
        /\ Passed \subseteq Checkpoints
  BY <1>1, <1>2 DEF Visit, Passed
<1>4. VisitInv' /\ SteadyInv' /\ LoadInv' /\ PositionIsExact'
  BY <1>1, <1>2 DEF SoundInv, LookedUpInv, VisitInv, SteadyInv, LoadInv, PositionIsExact, store
<1>5. WindowInv'
  <2> SUFFICES ASSUME Ref.kind = "position" PROVE \E S \in SUBSET Checkpoints : IsRead(S)'
    BY <1>1 DEF WindowInv
  <2>1. PICK S \in SUBSET Checkpoints : IsRead(S)
    BY <1>1 DEF SoundInv, LookedUpInv, WindowInv
  <2>2. IsRead(S)'
    BY <1>1, <1>3, <2>1 DEF IsRead, store
  <2> QED
    BY <2>2
<1>6. HealthInv'
  BY <1>1, <1>3 DEF SoundInv, LookedUpInv, HealthInv, store
<1>7. PrefixInv'
  <2> SUFFICES ASSUME Ref.kind = "prefix"
               PROVE  /\ found' \subseteq Ref.ids
                      /\ \A d \in found' : header[d] # "none" \/ d \in touched
                      /\ \A d \in Ref.ids \ unvisited' : header[d] # "none" => d \in found' \/ d \in touched
    BY <1>1 DEF PrefixInv, store
  <2>1. found' = IF header[c] # "none" /\ c \in Ref.ids THEN found \cup {c} ELSE found
    BY DEF Visit
  <2> QED
    BY <1>1, <2>1 DEF SoundInv, LookedUpInv, PrefixInv
<1>8. LookedUpInv'
  BY <1>4, <1>5, <1>6, <1>7 DEF LookedUpInv
<1> QED
  BY <1>1, <1>8, StillLooking DEF Looking

LEMMA HeaderAnswers ==
  ASSUME SoundInv, [Next]_vars, NEW c \in visiting, ReadHeader(c)
  PROVE  LookedUpInv' /\ AnsweredInv' /\ VerifiedInv'
<1>1. /\ doing = "enumerate" /\ visiting = {c} /\ visiting' = {} /\ c \in Checkpoints /\ c \notin unvisited
      /\ Ref' = Ref /\ Ref.kind = "position" /\ header[c] \in {"whole", "bad", "foreign"}
      /\ UNCHANGED <<doing, side, operand, unvisited, store, touched, steady>>
  BY DEF ReadHeader, SoundInv, LookedUpInv, VisitInv, LookupInv, Ref, answer, env
<1>2. /\ counts' = [counts EXCEPT ![header[c]] = @ + 1]
      /\ found' = IF header[c] = "whole" THEN Keep(c) ELSE found
  BY DEF ReadHeader
<1>3. Passed' = Passed \cup {c} /\ c \notin Passed /\ Passed \subseteq Checkpoints
  BY <1>1 DEF Passed
<1>4. counts \in [{"whole", "bad", "foreign"} -> Nat]
  BY <1>1 DEF SoundInv, LookedUpInv, HealthInv
<1>5. /\ counts' \in [{"whole", "bad", "foreign"} -> Nat]
      /\ \A h \in {"whole", "bad", "foreign"} :
           counts'[h] = IF h = header[c] THEN counts[h] + 1 ELSE counts[h]
  BY <1>1, <1>2, <1>4
<1>6. VisitInv' /\ SteadyInv' /\ LoadInv' /\ PositionIsExact' /\ PrefixInv'
  BY <1>1 DEF SoundInv, LookedUpInv, VisitInv, SteadyInv, LoadInv, PositionIsExact, PrefixInv
<1>7. HealthInv'
  <2> SUFFICES ASSUME NEW h \in {"bad", "foreign"}
               PROVE  /\ \A d \in Passed' \cap steady : header[d] = h => counts'[h] > 0
                      /\ counts'[h] > 0 => \E d \in Checkpoints : header[d] = h \/ d \in touched
    BY <1>1, <1>5 DEF HealthInv, store
  <2>1. /\ \A d \in Passed \cap steady : header[d] = h => counts[h] > 0
        /\ counts[h] > 0 => \E d \in Checkpoints : header[d] = h \/ d \in touched
    BY <1>1 DEF SoundInv, LookedUpInv, HealthInv
  <2>2. counts'[h] = IF h = header[c] THEN counts[h] + 1 ELSE counts[h]
    BY <1>5
  <2>3. counts[h] \in Nat
    BY <1>4
  <2>4. CASE h = header[c]
    BY <1>1, <2>2, <2>3, <2>4
  <2>5. CASE h # header[c]
    BY <1>1, <1>3, <2>1, <2>2, <2>5
  <2> QED
    BY <2>4, <2>5
<1>8. WindowInv'
  <2>1. PICK S \in SUBSET Checkpoints : IsRead(S)
    BY <1>1 DEF SoundInv, LookedUpInv, WindowInv
  <2>2. S \subseteq Passed /\ found = TopOf(Ref.n, S) /\ counts["whole"] = Cardinality(S) /\ c \notin S
    BY <1>3, <1>4, <2>1 DEF IsRead
  <2>3. Ref.n \in Nat
    BY <1>1 DEF Ref, SoundInv, LookupInv, References
  <2>4. counts'.whole = counts'["whole"]
    BY <1>5
  <2>5. CASE header[c] = "whole"
    <3>1. found' = TopOf(Ref.n, S \cup {c})
      <4>1. Keep(c) = TopOf(Ref.n, found \cup {c})
        BY DEF Keep, TopOf
      <4>2. TopOf(Ref.n, TopOf(Ref.n, S) \cup {c}) = TopOf(Ref.n, S \cup {c})
        BY <1>1, <2>3, WindowIsKept
      <4> QED
        BY <1>2, <2>2, <2>5, <4>1, <4>2
    <3>2. counts'.whole = Cardinality(S \cup {c})
      BY <1>5, <2>2, <2>4, <2>5, CheckpointsAreFew, FS_AddElement
    <3>3. IsRead(S \cup {c})'
      BY <1>1, <1>3, <2>1, <2>5, <3>1, <3>2 DEF IsRead, store
    <3> QED
      BY <1>1, <3>3 DEF WindowInv
  <2>6. CASE header[c] # "whole"
    <3>1. counts'.whole = counts["whole"]
      BY <1>5, <2>4, <2>6
    <3>2. found' = found
      BY <1>2, <2>6
    <3>3. IsRead(S)'
      BY <1>1, <1>3, <2>1, <2>2, <2>6, <3>1, <3>2 DEF IsRead, store
    <3> QED
      BY <3>3 DEF WindowInv
  <2> QED
    BY <2>5, <2>6
<1>9. LookedUpInv'
  BY <1>6, <1>7, <1>8 DEF LookedUpInv
<1> QED
  BY <1>1, <1>9, StillLooking DEF Looking

LEMMA GoneAnswers ==
  ASSUME SoundInv, [Next]_vars, NEW c \in visiting, HeaderGone(c)
  PROVE  LookedUpInv' /\ AnsweredInv' /\ VerifiedInv'
<1>1. doing = "enumerate" /\ Ref.kind = "position" /\ c \in touched /\ c \in Checkpoints
  BY DEF HeaderGone, SoundInv, LookedUpInv, VisitInv, LookupInv
<1>2. ~Sound(Ref)
  BY <1>1, SoundPosition
<1>3. doing \in Looking /\ "not-found" \in Reasons /\ Failed("not-found")
  BY <1>1 DEF HeaderGone, Looking, Reasons
<1> QED
  BY <1>2, <1>3, FailedAnswers

(* The record loaded is the one its reference names. *)
LEMMA LoadAnswers ==
  ASSUME SoundInv, [Next]_vars, doing \in Looking, NEW r \in Records, Load(r), Led(r),
         Ref.kind \in {"position", "prefix", "run"},
         Ref.kind \in {"position", "prefix"} =>
             doing = "enumerate" /\ visiting = {},
         Ref.kind = "run" => doing = "resolve",
         Ref.kind = "position" =>
             /\ \A c \in steady : header[c] \in {"none", "whole"}
             /\ Cardinality({c \in Newer(r, steady) : header[c] = "whole"}) < Ref.n
             /\ Cardinality({c \in Newer(r, Checkpoints) :
                               header[c] = "whole" \/ c \notin steady}) >= Ref.n - 1
  PROVE  LookedUpInv' /\ AnsweredInv' /\ VerifiedInv'
<1>1. /\ doing' = "load" /\ found' = {r} /\ Ref' = Ref /\ visiting = {}
      /\ UNCHANGED <<side, operand, visiting, store, asked, touched, steady>>
  BY DEF Load, Ref, answer, env, SoundInv, LookedUpInv, VisitInv
<1>2. VisitInv' /\ WindowInv' /\ HealthInv' /\ PrefixInv'
  BY <1>1 DEF VisitInv, WindowInv, HealthInv, PrefixInv
<1>3. SteadyInv'
  BY <1>1 DEF SoundInv, LookedUpInv, SteadyInv
<1>4. LoadInv'
  <2>1. Led(r)'
    BY <1>1, LedStays DEF SoundInv
  <2> QED
    BY <1>1, <2>1 DEF LoadInv
<1>5. PositionIsExact'
  BY <1>1 DEF PositionIsExact, store
<1>6. LookedUpInv'
  BY <1>2, <1>3, <1>4, <1>5 DEF LookedUpInv
<1> QED
  BY <1>1, <1>6, StillLooking DEF Looking

LEMMA PositionsAnswer ==
  ASSUME SoundInv, [Next]_vars, EndPositions PROVE LookedUpInv' /\ AnsweredInv' /\ VerifiedInv'
<1>1. /\ doing = "enumerate" /\ doing \in Looking /\ Ref.kind = "position" /\ Ref.n \in Nat \ {0}
      /\ visiting = {} /\ Passed = Checkpoints
  BY DEF EndPositions, Looking, Passed, SoundInv, LookupInv, Ref, References
<1>2. /\ counts \in [{"whole", "bad", "foreign"} -> Nat]
      /\ \A h \in {"bad", "foreign"} :
           /\ \A c \in Checkpoints \cap steady : header[c] = h => counts[h] > 0
           /\ counts[h] > 0 => \E c \in Checkpoints : header[c] = h \/ c \in touched
  BY <1>1 DEF SoundInv, LookedUpInv, HealthInv
<1>3. PICK S \in SUBSET Checkpoints : IsRead(S)
  BY <1>1 DEF SoundInv, LookedUpInv, WindowInv
<1>4. /\ found = TopOf(Ref.n, S) /\ counts.whole = Cardinality(S)
      /\ \A c \in S \cap steady : header[c] = "whole"
      /\ \A c \in Checkpoints \cap steady : header[c] = "whole" => c \in S
  BY <1>1, <1>3 DEF IsRead
<1>5. steady \subseteq Checkpoints
  BY <1>1 DEF SoundInv, LookedUpInv, SteadyInv
<1>6. counts.bad = counts["bad"] /\ counts.foreign = counts["foreign"] /\ counts.bad \in Nat /\ counts.foreign \in Nat
  BY <1>2
<1>7. ASSUME NEW h \in {"bad", "foreign"}, counts[h] > 0 PROVE ~Sound(Ref)
  BY <1>1, <1>2, <1>7, SoundPosition
<1>8. CASE counts.bad > 0
  <2>1. Failed("metadata-corrupt") /\ ~Sound(Ref)
    BY <1>6, <1>7, <1>8 DEF EndPositions
  <2> QED
    BY <1>1, <2>1, FailedAnswers DEF Reasons
<1>9. CASE counts.bad = 0 /\ counts.foreign > 0
  <2>1. Failed("metadata-incompatible") /\ ~Sound(Ref)
    BY <1>6, <1>7, <1>9 DEF EndPositions
  <2> QED
    BY <1>1, <2>1, FailedAnswers DEF Reasons
<1>10. CASE counts.bad = 0 /\ counts.foreign = 0 /\ counts.whole < Ref.n
  <2>1. Failed("not-found")
    BY <1>10 DEF EndPositions
  <2>2. ASSUME Sound(Ref) PROVE FALSE
    <3> DEFINE Committed == {c \in Checkpoints : header[c] # "none"}
    <3>1. Committed \subseteq S /\ Cardinality(Committed) >= Ref.n
      BY <1>1, <1>4, <2>2, SoundPosition
    <3>2. Cardinality(Committed) <= Cardinality(S) /\ Cardinality(S) \in Nat /\ Cardinality(Committed) \in Nat
      BY <3>1, FewerAreNewer, CheckpointsAreFew
    <3> HIDE DEF Committed
    <3> QED
      BY <1>1, <1>4, <1>10, <3>1, <3>2
  <2> QED
    BY <1>1, <2>1, <2>2, FailedAnswers DEF Reasons
<1>11. CASE counts.bad = 0 /\ counts.foreign = 0 /\ ~(counts.whole < Ref.n)
  <2>1. PICK r \in found : Cardinality(Newer(r, found)) = Ref.n - 1 /\ Load(r)
    BY <1>11 DEF EndPositions
  <2>2. Newer(r, found) = Newer(r, S) /\ r \in S
    BY <1>1, <1>4, WindowOrder DEF TopOf
  <2>3. Cardinality(Newer(r, S)) = Ref.n - 1
    BY <2>1, <2>2
  <2>4. Led(r)
    <3> SUFFICES ASSUME Sound(Ref) PROVE r \in Concerned(Ref) /\ Intact(r)
      BY DEF Led
    <3>1. r \in steady
      BY <1>1, <2>2, SoundPosition
    <3>2. header[r] = "whole"
      BY <1>4, <2>2, <3>1
    <3> QED
      BY <1>1, <2>2, <3>2, SoundPosition DEF Concerned
  <2>5. \A c \in steady : header[c] \in {"none", "whole"}
    BY <1>2, <1>5, <1>6, <1>11 DEF SoundInv, LookupInv
  <2> DEFINE A == {c \in Newer(r, steady) : header[c] = "whole"}
             B == {c \in Newer(r, Checkpoints) : header[c] = "whole" \/ c \notin steady}
  <2>6. A \in SUBSET Newer(r, S) /\ Newer(r, S) \in SUBSET B /\ B \in SUBSET Checkpoints
        /\ Newer(r, S) \in SUBSET Checkpoints
    BY <1>4, <1>5 DEF Newer
  <2>7. /\ Cardinality(A) <= Cardinality(Newer(r, S)) /\ Cardinality(Newer(r, S)) <= Cardinality(B)
        /\ Cardinality(A) \in Nat /\ Cardinality(B) \in Nat
    BY <2>6, FewerAreNewer, CheckpointsAreFew
  <2>8. Cardinality(A) < Ref.n /\ Cardinality(B) >= Ref.n - 1
    <3> HIDE DEF A, B
    <3> QED
      BY <1>1, <2>3, <2>7
  <2> QED
    BY <1>1, <2>1, <2>2, <2>4, <2>5, <2>8, LoadAnswers
<1>12. counts.whole \in Nat
  BY <1>2
<1> QED
  BY <1>6, <1>8, <1>9, <1>10, <1>11

LEMMA PrefixesAnswer ==
  ASSUME SoundInv, [Next]_vars, EndPrefixes PROVE LookedUpInv' /\ AnsweredInv' /\ VerifiedInv'
<1>1. /\ doing = "enumerate" /\ doing \in Looking /\ Ref.kind = "prefix" /\ visiting = {}
      /\ Ref \in References /\ Ref.ids \subseteq Checkpoints /\ unvisited = {}
  BY DEF EndPrefixes, Looking, SoundInv, LookedUpInv, VisitInv, LookupInv, Ref, References
<1>2. /\ found \subseteq Ref.ids
      /\ \A c \in found : header[c] # "none" \/ c \in touched
      /\ \A c \in Ref.ids : header[c] # "none" => c \in found \/ c \in touched
  BY <1>1 DEF SoundInv, LookedUpInv, PrefixInv
<1>3. ASSUME Sound(Ref) PROVE \E c \in Ref.ids : Intact(c) /\ found = {c}
  <2>1. PICK c \in Ref.ids : Intact(c) /\ \A d \in Ref.ids \ {c} : header[d] = "none" /\ d \notin touched
    BY <1>1, <1>3 DEF Sound
  <2>2. header[c] = "whole" /\ c \notin touched
    BY <2>1 DEF Intact
  <2>3. found = {c}
    BY <1>2, <2>1, <2>2
  <2> QED
    BY <2>1, <2>3
<1>4. CASE found = {}
  <2>1. Failed("not-found")
    BY <1>4, FS_EmptySet DEF EndPrefixes
  <2>2. ~Sound(Ref)
    BY <1>3, <1>4
  <2> QED
    BY <1>1, <2>1, <2>2, FailedAnswers DEF Reasons
<1>5. CASE found # {} /\ Cardinality(found) > 1
  <2>1. Failed("ambiguous-reference")
    BY <1>5 DEF EndPrefixes
  <2>2. ~Sound(Ref)
    <3>1. ASSUME NEW c, found = {c} PROVE FALSE
      <4>1. Cardinality(found) = 1
        BY <3>1, FS_Singleton
      <4> QED
        BY <1>5, <4>1
    <3> QED
      BY <1>3, <3>1
  <2> QED
    BY <1>1, <2>1, <2>2, FailedAnswers DEF Reasons
<1>6. CASE found # {} /\ ~(Cardinality(found) > 1)
  <2>1. PICK r \in found : Load(r)
    BY <1>6 DEF EndPrefixes
  <2>2. Led(r)
    BY <1>1, <1>3 DEF Led, Concerned
  <2>3. r \in Records
    BY <1>1, <1>2
  <2> QED
    BY <1>1, <2>1, <2>2, <2>3, LoadAnswers
<1> QED
  BY <1>4, <1>5, <1>6

LEMMA RunAnswers ==
  ASSUME SoundInv, [Next]_vars, ResolveRun PROVE LookedUpInv' /\ AnsweredInv' /\ VerifiedInv'
<1>1. doing = "resolve" /\ doing \in Looking /\ Ref.kind = "run" /\ Ref.id \in Records /\ Load(Ref.id)
  BY DEF ResolveRun, Looking, SoundInv, LookupInv, Ref, References
<1>2. Led(Ref.id)
  BY <1>1 DEF Led, Sound, Concerned
<1> QED
  BY <1>1, <1>2, LoadAnswers

LEMMA RecordAnswers ==
  ASSUME SoundInv, [Next]_vars, NEW r \in found, LoadRecord(r)
  PROVE  LookedUpInv' /\ AnsweredInv' /\ VerifiedInv'
<1>1. doing = "load" /\ doing \in Looking /\ r \in Records
  BY DEF LoadRecord, Looking, SoundInv, LookupInv
<1>2. Led(r)
  BY <1>1 DEF SoundInv, LookedUpInv, LoadInv
<1>3. CASE header[r] # "whole"
  <2>1. HeaderReason(r) \in Reasons
    BY <1>1, <1>3 DEF HeaderReason, Reasons, SoundInv, LookupInv
  <2>2. Failed(HeaderReason(r)) /\ ~Sound(Ref)
    BY <1>2, <1>3 DEF LoadRecord, Led, Intact
  <2> HIDE DEF HeaderReason
  <2> QED
    BY <1>1, <2>1, <2>2, FailedAnswers
<1>4. CASE header[r] = "whole" /\ Evidence[r].missing
  <2>1. Failed("manifest-unavailable") /\ ~Sound(Ref)
    BY <1>2, <1>4 DEF LoadRecord, Led, Intact
  <2> QED
    BY <1>1, <2>1, FailedAnswers DEF Reasons
<1>5. CASE header[r] = "whole" /\ ~Evidence[r].missing
  <2> DEFINE op == [ok |-> TRUE, rec |-> r, tree |-> Evidence[r].tree, reason |-> None]
  <2>1. op \in Operands
    BY <1>1 DEF Operands
  <2>2. Good(op)
    BY <1>2 DEF Good, Led
  <2>3. Settled(op)
    BY <1>5 DEF LoadRecord
  <2> QED
    BY <1>1, <2>1, <2>2, <2>3, SettledAnswers
<1> QED
  BY <1>3, <1>4, <1>5

-----------------------------------------------------------------------------
(* How the verdict is reached.                                               *)

(* An answered operand verifies. *)
LEMMA AnsweredVerifies ==
  ASSUME OperandInv, NEW s \in Sides, Answered(s), Sound(asked[s])
  PROVE  Availability(s) = "whole" /\ ManifestOf(s) = "whole" /\ FrontierOf(s) = "whole"
<1>1. operand[s].ok /\ Rec(s) \in Records \cup {Now} /\ (Rec(s) \in Records => Intact(Rec(s)))
  BY DEF Answered, OperandInv, Operands, Rec
<1>2. ManifestOf(s) = "whole" /\ FrontierOf(s) = "whole"
  BY <1>1 DEF ManifestOf, FrontierOf, Known, Intact, Readable
<1> QED
  BY <1>1, <1>2 DEF Availability

LEMMA VerdictAnswers ==
  ASSUME SoundInv, StageInv, [Next]_vars,
         \/ Classify \/ ClassifyUnresolved
         \/ OpenSide \/ OpenFails \/ WalkFails \/ WalkUnproved \/ WalkCompletes
         \/ VerifyOperand \/ Conclude \/ ConcludeUnavailable
  PROVE  LookedUpInv' /\ AnsweredInv' /\ VerifiedInv'
<1> USE DEF SoundInv, LookedUpInv
<1>1. /\ UNCHANGED <<operand, store, touched, asked, lookup>>
      /\ doing \in {"classify", "merge", "walk", "verify", "conclude"}
      /\ doing' \in {"merge", "walk", "verify", "conclude", "done"}
  BY StagesKeepOperands DEF Classify, ClassifyUnresolved, OpenSide, OpenFails, WalkFails, WalkUnproved,
     WalkCompletes, VerifyOperand, Conclude, ConcludeUnavailable, Goto, Publish
<1>2. LookedUpInv'
  <2>1. visiting' = {}
    BY <1>1 DEF VisitInv, lookup
  <2> QED
    BY <1>1, <2>1 DEF VisitInv, SteadyInv, WindowInv, HealthInv, PrefixInv, LoadInv, PositionIsExact
<1>3. \A s \in Sides : Answered(s)
  BY <1>1 DEF AnsweredInv, Looking
<1>4. \A s \in Sides : Rec(s) \in Records \cup {Now, None}
  BY DEF OperandInv, Operands, Rec
<1>5. AnsweredInv'
  <2>1. ASSUME NEW s \in Sides PROVE Answered(s)'
    BY <1>1, <1>3, <1>4, AnsweredStays
  <2> QED
    BY <2>1 DEF AnsweredInv
<1>6. \A s \in Sides : Sound(asked[s])' => Sound(asked[s])
  BY SoundBefore
<1>7. \A s \in Sides : Sound(asked[s]) =>
        operand[s].ok /\ Availability(s) = "whole" /\ ManifestOf(s) = "whole" /\ FrontierOf(s) = "whole"
  BY <1>3, AnsweredVerifies DEF Answered
<1> SUFFICES VerifiedInv'
  BY <1>2, <1>5
<1>8. ASSUME NEW stage \in {"merge", "verify"}, NEW verdict, Goto(stage, verdict),
             stage = "verify" /\ BothSound =>
               verdict \in {"equal", "incompatible-identity-policy", "absence-unproved"}
      PROVE  VerifiedInv'
  <2>1. doing' = stage /\ side' = 1 /\ outlook' = verdict
    BY <1>8 DEF Goto
  <2>2. BothSound' => BothSound
    BY <1>6 DEF BothSound
  <2> QED
    BY <1>8, <2>1, <2>2 DEF VerifiedInv, SoundOperandsAreAnswered
<1>9. CASE Classify
  <2>1. CompatibilityVerdict \in {"equal", "incompatible-identity-policy", "absence-unproved", "merge"}
    BY DEF CompatibilityVerdict
  <2>2. CASE CompatibilityVerdict = "merge"
    <3>1. Goto("merge", CompatibilityVerdict)
      BY <1>9, <2>2 DEF Classify
    <3> QED
      BY <1>8, <3>1
  <2>3. CASE CompatibilityVerdict # "merge"
    <3>1. Goto("verify", CompatibilityVerdict)
      BY <1>9, <2>3 DEF Classify
    <3> QED
      BY <1>8, <2>1, <2>3, <3>1
  <2> QED
    BY <2>2, <2>3
<1>10. CASE ClassifyUnresolved
  <2>1. ~BothSound
    BY <1>7, <1>10 DEF ClassifyUnresolved, BothSound
  <2> QED
    BY <1>8, <1>10, <2>1 DEF ClassifyUnresolved
<1>11. CASE OpenFails
  <2>1. ~BothSound
    BY <1>7, <1>11 DEF OpenFails, BothSound, LookupInv
  <2> QED
    BY <1>8, <1>11, <2>1 DEF OpenFails
<1>12. CASE WalkFails
  <2>1. ~BothSound
    BY <1>7, <1>12 DEF WalkFails, Damaged, BothSound
  <2> QED
    BY <1>8, <1>12, <2>1 DEF WalkFails
<1>13. CASE WalkUnproved
  BY <1>8, <1>13 DEF WalkUnproved
<1>14. CASE OpenSide
  <2>1. doing' \in {"merge", "walk"}
    BY <1>14 DEF OpenSide
  <2> QED
    BY <2>1 DEF VerifiedInv, SoundOperandsAreAnswered
<1>15. CASE WalkCompletes
  <2>1. doing' = "done" /\ result'.rel \in {"equal", "different"}
    BY <1>15 DEF WalkCompletes, Publish
  <2> QED
    BY <2>1 DEF VerifiedInv, SoundOperandsAreAnswered
<1>16. CASE VerifyOperand
  <2>1. /\ doing = "verify" /\ UNCHANGED outlook /\ side \in Sides
        /\ verified' = [verified EXCEPT ![side] = Availability(side)]
        /\ IF side = 1 THEN doing' = "verify" /\ side' = 2 ELSE doing' = "conclude"
    BY <1>16 DEF VerifyOperand, LookupInv
  <2>2. ASSUME NEW s \in Sides, Sound(asked[s])', s = 1 \/ doing' = "conclude" PROVE verified'[s] = "whole"
    <3>1. Sound(asked[s])
      BY <1>6, <2>2
    <3>2. verified'[s] = IF s = side THEN Availability(s) ELSE verified[s]
      BY <2>1 DEF StageInv
    <3>3. s # side => s = 1 /\ side = 2
      BY <2>1, <2>2
    <3> QED
      BY <1>7, <2>1, <3>1, <3>2, <3>3 DEF VerifiedInv
  <2>3. BothSound' => BothSound
    BY <1>6 DEF BothSound
  <2>4. doing' \in {"verify", "conclude"} /\ outlook' = outlook
    BY <2>1
  <2> QED
    BY <2>1, <2>2, <2>3, <2>4 DEF VerifiedInv, SoundOperandsAreAnswered
<1>17. CASE Conclude \/ ConcludeUnavailable
  <2>1. doing = "conclude" /\ doing' = "done"
    BY <1>17 DEF Conclude, ConcludeUnavailable, Publish
  <2>2. ASSUME BothSound PROVE result'.rel # "unavailable"
    <3>1. Missing = {}
      BY <2>1, <2>2 DEF Missing, VerifiedInv, BothSound
    <3>2. outlook \in {"equal", "incompatible-identity-policy", "absence-unproved"}
      BY <2>1, <2>2 DEF VerifiedInv
    <3>3. Publish("equal", None, Sides) \/ Publish("incomparable", outlook, Sides)
      BY <1>17, <3>1, <3>2 DEF Conclude, ConcludeUnavailable
    <3> QED
      BY <3>3 DEF Publish
  <2>3. BothSound' => BothSound
    BY <1>6 DEF BothSound
  <2> QED
    BY <2>1, <2>2, <2>3 DEF VerifiedInv, SoundOperandsAreAnswered, BothSound
<1> QED
  BY <1>9, <1>10, <1>11, <1>12, <1>13, <1>14, <1>15, <1>16, <1>17

-----------------------------------------------------------------------------
LEMMA InitSound == Init => SoundInv
<1> SUFFICES ASSUME Init PROVE SoundInv
  OBVIOUS
<1>1. NowInv /\ LookupInv /\ OperandInv
  BY NowInitInv, InitAssessment DEF Init, AssessmentInv
<1>2. CalmInv
  BY DEF Init, NowInit, CalmInv
<1>3. doing = "resolve" /\ side = 1 /\ found = {} /\ counts = NoCounts /\ visiting = {}
  BY DEF Init
<1>4. LookedUpInv
  BY <1>3 DEF LookedUpInv, VisitInv, SteadyInv, WindowInv, HealthInv, PrefixInv, LoadInv, PositionIsExact
<1>5. AnsweredInv /\ VerifiedInv
  BY <1>3 DEF AnsweredInv, Looking, VerifiedInv, SoundOperandsAreAnswered
<1> QED
  BY <1>1, <1>2, <1>4, <1>5 DEF SoundInv

(* Only the worktree's edits disturb an observation of now, and they touch it. *)
LEMMA CalmSteps == ASSUME SoundInv, [Next]_vars PROVE CalmInv'
<1> USE DEF SoundInv
<1>1. CASE ResolveNow \/ ScanNow
  <2>1. UNCHANGED touched /\ (Begin \/ Scan)
    BY <1>1 DEF ResolveNow, ScanNow, env
  <2> QED
    BY <2>1, CalmScans
<1>2. CASE TakeNow
  <2>1. UNCHANGED touched /\ Collect
    BY <1>2 DEF TakeNow, Failed, Settled, env
  <2> QED
    BY <2>1, CalmScans
<1>3. ASSUME NEW f \in Files, NEW n \in Nodes, EditFile(f, n) PROVE CalmInv'
  <2>1. Now \in touched'
    BY <1>3 DEF EditFile, Happens
  <2> QED
    BY <2>1 DEF CalmInv
<1>4. ASSUME UNCHANGED nowVars PROVE CalmInv'
  <2>1. touched \subseteq touched'
    BY ChangesAreTouched
  <2> QED
    BY <1>4, <2>1 DEF CalmInv, nowVars, scan, Pending
<1>5. CASE \/ Enumerate \/ EndPositions \/ EndPrefixes
           \/ \E c \in unvisited : Visit(c)
           \/ \E c \in visiting : ReadHeader(c) \/ HeaderGone(c)
           \/ ResolveRun \/ \E r \in found : LoadRecord(r)
  <2>1. UNCHANGED nowVars
    BY <1>5 DEF Enumerate, EndPositions, EndPrefixes, Visit, ReadHeader, HeaderGone,
                ResolveRun, LoadRecord, Load
  <2> QED
    BY <1>4, <2>1
<1>6. CASE \/ Classify \/ ClassifyUnresolved
           \/ OpenSide \/ OpenFails \/ WalkFails \/ WalkUnproved \/ WalkCompletes
           \/ VerifyOperand \/ Conclude \/ ConcludeUnavailable
  <2>1. UNCHANGED nowVars
    BY <1>6 DEF Classify, ClassifyUnresolved, OpenSide, OpenFails, WalkFails, WalkUnproved,
                WalkCompletes, VerifyOperand, Conclude, ConcludeUnavailable, Goto, Publish
  <2> QED
    BY <1>4, <2>1
<1>7. CASE \/ \E c \in Checkpoints : PublishCheckpoint(c)
           \/ \E r \in Records : RemoveFile(r) \/ DamageFile(r)
  BY <1>4, <1>7 DEF PublishCheckpoint, RemoveFile, DamageFile
<1>8. CASE UNCHANGED vars
  BY <1>4, <1>8 DEF vars
<1> QED
  BY <1>1, <1>2, <1>3, <1>5, <1>6, <1>7, <1>8 DEF Next

LEMMA SoundSteps == ASSUME SoundInv, AssessmentInv, [Next]_vars PROVE SoundInv'
<1>1. NowInv'
  BY AssessmentSteps, NowSteps DEF SoundInv
<1>2. LookupInv' /\ OperandInv'
  BY LookupTypes
<1>3. CalmInv'
  BY CalmSteps
<1>4. ASSUME UNCHANGED <<doing, side, operand, verified, outlook, result>> PROVE AnsweredInv' /\ VerifiedInv'
  <2>1. ASSUME NEW s \in Sides, Answered(s) PROVE Answered(s)'
    BY <1>4, <2>1, AnsweredStays DEF SoundInv, OperandInv, Operands, Rec
  <2>2. AnsweredInv'
    BY <1>4, <2>1 DEF AnsweredInv, SoundInv
  <2>3. \A s \in Sides : Sound(asked[s])' => Sound(asked[s])
    BY SoundBefore DEF SoundInv
  <2>4. VerifiedInv'
    BY <1>4, <2>3 DEF VerifiedInv, BothSound, SoundOperandsAreAnswered, SoundInv
  <2> QED
    BY <2>2, <2>4
<1>5. CASE Next /\ ~Happening
  <2>1. LookedUpInv' /\ AnsweredInv' /\ VerifiedInv'
    BY <1>5, NowAnswers, PassBegins, PositionsAnswer, PrefixesAnswer, VisitAnswers, HeaderAnswers,
       GoneAnswers, RunAnswers, RecordAnswers, VerdictAnswers DEF Next, Happening, AssessmentInv
  <2> QED
    BY <1>1, <1>2, <1>3, <2>1 DEF SoundInv
<1>6. CASE Happening
  <2>1. LookedUpInv'
    BY <1>6, HappeningsKeepLookups
  <2>2. UNCHANGED <<doing, side, operand, verified, outlook, result>>
    BY <1>6, HappeningsAre DEF HappensTo, answer, SoundInv
  <2> QED
    BY <1>1, <1>2, <1>3, <1>4, <2>1, <2>2 DEF SoundInv
<1>7. CASE UNCHANGED vars
  <2>1. /\ UNCHANGED <<asked, doing, side, operand, verified, outlook, result, header, touched, steady>>
        /\ UNCHANGED <<unvisited, visiting, found, counts>> /\ Ref' = Ref /\ Passed' = Passed
    BY <1>7 DEF vars, store, lookup, answer, env, Ref, Passed
  <2>2. VisitInv' /\ SteadyInv' /\ HealthInv' /\ PrefixInv' /\ PositionIsExact'
    BY <2>1 DEF SoundInv, LookedUpInv, VisitInv, SteadyInv, HealthInv, PrefixInv, PositionIsExact
  <2>3. WindowInv'
    <3>1. \A S \in SUBSET Checkpoints : IsRead(S) => IsRead(S)'
      BY <2>1 DEF IsRead
    <3> QED
      BY <2>1, <3>1 DEF WindowInv, SoundInv, LookedUpInv
  <2>4. LoadInv'
    <3>1. \A r \in Records : Led(r) => Led(r)'
      BY <2>1, LedStays DEF SoundInv
    <3> QED
      BY <2>1, <3>1 DEF LoadInv, SoundInv, LookedUpInv, LookupInv
  <2> QED
    BY <1>1, <1>2, <1>3, <1>4, <2>1, <2>2, <2>3, <2>4 DEF SoundInv, LookedUpInv
<1> QED
  BY <1>5, <1>6, <1>7

(* An operand named by its position is the checkpoint at that place although *)
(* checkpoints come and go meanwhile, and operands that nothing is wrong     *)
(* with are answered for, whatever happens to what they do not name.         *)
THEOREM OperandsResolve == Spec => []OperandsAreResolved
<1>1. Init => SoundInv
  BY InitSound
<1>2. SoundInv /\ AssessmentInv /\ [Next]_vars => SoundInv'
  BY SoundSteps
<1>3. SoundInv => OperandsAreResolved
  BY DEF SoundInv, LookedUpInv, VerifiedInv, OperandsAreResolved
<1> QED
  BY <1>1, <1>2, <1>3, AssessmentInvariant, PTL DEF Spec
=============================================================================
